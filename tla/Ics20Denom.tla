----------------------------- MODULE Ics20Denom -----------------------------
(***************************************************************************)
(* Denominations of ICS-20 (Denom.kt, denom-path.kt): a path with one      *)
(* <<port, channel>> per hop, the latest first, and a base denomination.   *)
(* The string form "port/channel/.../base" is left to the paths' order.    *)
(***************************************************************************)
EXTENDS Sequences

BaseDenom(base) == [path |-> <<>>, base |-> base]

IsVoucher(denom) == denom.path # <<>>

AddPath(denom, port, chan) == [denom EXCEPT !.path = <<<<port, chan>>>> \o @]

\* Mutant: a channel is not told from another one of the same port.
HasPort(denom, port, chan) == IsVoucher(denom) /\ Head(denom.path)[1] = port

HasPrefix(denom, port, chan) == IsVoucher(denom) /\ Head(denom.path) = <<port, chan>>

RemovePrefix(denom) == [denom EXCEPT !.path = Tail(@)]
=============================================================================
