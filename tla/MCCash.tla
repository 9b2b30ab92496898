------------------------------- MODULE MCCash -------------------------------
(***************************************************************************)
(* Ics20Cash for TLC: cash of ChainA's bank owner, who owns the bank of    *)
(* ChainB too, so that he may hold vouchers of his own cash.               *)
(***************************************************************************)
EXTENDS Ics20Cash

CONSTANTS A, B, alice, owner, usd

TransferData == FungibleTokenPacketData
IssuedAtA == [base \in {usd} |-> A]
OneOwner == [c \in {A, B} |-> owner]
=============================================================================
