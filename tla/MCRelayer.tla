----------------------------- MODULE MCRelayer -----------------------------
(***************************************************************************)
(* IbcRelayer for TLC: one channel, used in one direction, whose packets   *)
(* (x) the receiver takes, but for those sent expired (y).                 *)
(***************************************************************************)
EXTENDS IbcRelayer, TLC

CONSTANTS A, B, v, x, y
=============================================================================
