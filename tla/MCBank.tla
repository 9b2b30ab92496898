------------------------------- MODULE MCBank -------------------------------
(***************************************************************************)
(* Ics20Bank for TLC.  Two owners are needed for escrow to be claimed by   *)
(* someone who locked nothing, two channels for escrow of one to be        *)
(* claimed over the other.  Owners are only ever compared: they may be     *)
(* exchanged.                                                              *)
(***************************************************************************)
EXTENDS Ics20Bank, TLC

CONSTANTS A, B, alice, bob

SignedAmounts == {-1, 1, 2}
TransferData == FungibleTokenPacketData
Symmetry == Permutations({alice, bob})
=============================================================================
