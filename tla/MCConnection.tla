--------------------------- MODULE MCConnection ---------------------------
(***************************************************************************)
(* IbcConnection for TLC: two hosts that issue up to MaxConn connections   *)
(* each.  Two are needed on a host for a second connection to be proposed  *)
(* to a counterparty that is already taken, and for handshakes to cross    *)
(* while another one runs.  One client is enough: a second one only gives  *)
(* handshakes that share no evidence with the first.                       *)
(***************************************************************************)
EXTENDS IbcConnection

CONSTANTS A, B
=============================================================================
