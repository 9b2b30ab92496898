----------------------------- MODULE MCChannel -----------------------------
(***************************************************************************)
(* IbcChannel for TLC, with the constants for the handshake runs (MaxSeq   *)
(* zero: no packet can be sent) and for the packet runs.                   *)
(*                                                                         *)
(* The two hosts may be exchanged, as may versions and payloads: nothing   *)
(* but equality is ever asked of them (Expired is empty or all payloads in *)
(* the runs that use the symmetry).                                        *)
(***************************************************************************)
EXTENDS IbcChannel, TLC

CONSTANTS A, B, v, w, x, y

Symmetry == Permutations({A, B}) \cup Permutations({v, w}) \cup Permutations({x, y})
=============================================================================
