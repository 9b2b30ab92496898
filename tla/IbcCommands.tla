---------------------------- MODULE IbcCommands ----------------------------
(***************************************************************************)
(* What one transaction of Corda-IBC does to the states of a Host: which   *)
(* states it takes (inputs), which it only looks at (references), which    *)
(* identifier it has the Host issue, and what it puts in their place.  The *)
(* flows of workflows/ and the contract Ibc.kt compute the same outputs    *)
(* from the same inputs, so both are these operators.                      *)
(*                                                                         *)
(* Of a state's contents only what ties states together is kept: the       *)
(* counters of a Host, the identifier a connection or a channel lies on,   *)
(* and how many transactions have changed the state.                       *)
(***************************************************************************)
EXTENDS Naturals, Sequences

CONSTANTS MaxClient, MaxConn, MaxChan    \* bounds on the identifiers issued

ASSUME CommandBoundsAreNat == MaxClient \in Nat /\ MaxConn \in Nat /\ MaxChan \in Nat

Kinds == {"client", "connection", "channel", "bank"}

GenesisId == <<"genesis", 0>>
HostId == <<"host", 0>>
BankId == <<"bank", 0>>
ClientId == {"client"} \X (0..(MaxClient - 1))
ConnId == {"connection"} \X (0..(MaxConn - 1))
ChanId == {"channel"} \X (0..(MaxChan - 1))
Id == {GenesisId, HostId, BankId} \cup ClientId \cup ConnId \cup ChanId

Zero == [k \in Kinds |-> 0]

\* next are the Host's counters; next["bank"] is the length of its bankIds.
Value == [next: [Kinds -> Nat], under: Id, ver: Nat]
Fresh(under) == [next |-> Zero, under |-> under, ver |-> 0]

Command(queries, takes, issues, under) ==
    [queries |-> queries, takes |-> takes, issues |-> issues, under |-> under]

(***************************************************************************)
(* The commands, by the flow that starts them, with what it queries its    *)
(* vault for, in that order.                                               *)
(***************************************************************************)
GenesisCreate == Command(<<>>, {}, "genesis", GenesisId)
HostCreate == {Command(<<GenesisId>>, {GenesisId}, "host", GenesisId)}
BankCreate == {Command(<<HostId>>, {HostId}, "bank", HostId)}
FundAllocate == {Command(<<BankId>>, {BankId}, "none", BankId)}
ClientCreate == {Command(<<HostId>>, {HostId}, "client", HostId)}

\* connOpenInit, and connOpenTry without a previous connection.
ConnOpen == {Command(<<HostId, client>>, {HostId}, "connection", client) :
                client \in ClientId}
\* connOpenTry with a previous connection: the Host is taken and put back.
ConnReuse == {Command(<<HostId, client, conn>>, {HostId, conn}, "none", client) :
                 conn \in ConnId, client \in ClientId}
\* connOpenAck, connOpenConfirm.
ConnStep == {Command(<<HostId, conn, client>>, {conn}, "none", client) :
                conn \in ConnId, client \in ClientId}

ChanOpenInit == {Command(<<HostId, conn>>, {HostId}, "channel", conn) : conn \in ConnId}
\* chanOpenTry, without and with a previous channel.
ChanOpenTry == {Command(<<HostId, conn, client>>, {HostId}, "channel", conn) :
                   conn \in ConnId, client \in ClientId}
ChanReuse == {Command(<<HostId, conn, client, chan>>, {HostId, chan}, "none", conn) :
                 chan \in ChanId, conn \in ConnId, client \in ClientId}
\* chanOpenAck, chanOpenConfirm, chanCloseConfirm, and sendPacket.
ChanStep == {Command(<<HostId, chan, conn, client>>, {chan}, "none", conn) :
                chan \in ChanId, conn \in ConnId, client \in ClientId}
ChanCloseInit == {Command(<<HostId, chan, conn>>, {chan}, "none", conn) :
                     chan \in ChanId, conn \in ConnId}

SendTransfer == {Command(<<HostId, chan, conn, client, BankId>>, {chan, BankId},
                         "none", conn) :
                    chan \in ChanId, conn \in ConnId, client \in ClientId}
\* recvPacket and acknowledgePacket between transfer ports.
RelayTransfer == {Command(<<HostId, BankId, chan, conn, client>>, {BankId, chan},
                          "none", conn) :
                     chan \in ChanId, conn \in ConnId, client \in ClientId}

Commands == HostCreate \cup BankCreate \cup FundAllocate \cup ClientCreate \cup
            ConnOpen \cup ConnReuse \cup ConnStep \cup
            ChanOpenInit \cup ChanOpenTry \cup ChanReuse \cup ChanStep \cup
            ChanCloseInit \cup SendTransfer \cup RelayTransfer

\* What is queried and not taken is referred to.
Involved(c) == {c.queries[k] : k \in DOMAIN c.queries}

(***************************************************************************)
(* Executing a command on the values of the states involved.               *)
(***************************************************************************)

\* The connection is the one the channel lies on, the client the one of the
\* connection.
Linked(c, value) ==
    \A i, j \in Involved(c) :
        <<i[1], j[1]>> \in {<<"channel", "connection">>, <<"connection", "client">>}
            => value[i].under = j

\* Mutant: a bank is added to whatever banks there are.
CanIssueAnyBank(c, value) ==
    CASE c.issues = "client" -> value[HostId].next["client"] < MaxClient
      [] c.issues = "connection" -> value[HostId].next["connection"] < MaxConn
      [] c.issues = "channel" -> value[HostId].next["channel"] < MaxChan
      [] OTHER -> TRUE

\* addBank requires that the Host has none; the other counters are bounded.
CanIssue(c, value) ==
    CASE c.issues = "bank" -> value[HostId].next["bank"] = 0
      [] c.issues = "client" -> value[HostId].next["client"] < MaxClient
      [] c.issues = "connection" -> value[HostId].next["connection"] < MaxConn
      [] c.issues = "channel" -> value[HostId].next["channel"] < MaxChan
      [] OTHER -> TRUE

\* Mutant: the identifier is taken from the counter after it was advanced.
IssuedNext(c, value) ==
    CASE c.issues = "none" -> {}
      [] c.issues = "host" -> {HostId}
      [] c.issues = "bank" -> {BankId}
      [] OTHER -> {<<c.issues, value[HostId].next[c.issues] + 1>>}

Issued(c, value) ==
    CASE c.issues = "none" -> {}
      [] c.issues = "host" -> {HostId}
      [] c.issues = "bank" -> {BankId}
      [] OTHER -> {<<c.issues, value[HostId].next[c.issues]>>}

\* A Genesis is used up; every other state taken is put back, changed.
Kept(c) == c.takes \ {GenesisId}

Changed(c, i, v) ==
    IF i # HostId THEN [v EXCEPT !.ver = @ + 1]
    ELSE IF c.issues = "none" THEN v
    ELSE [v EXCEPT !.next[c.issues] = @ + 1]

Outputs(c, value) ==
    [i \in Kept(c) \cup Issued(c, value) |->
        IF i \in Kept(c) THEN Changed(c, i, value[i]) ELSE Fresh(c.under)]
=============================================================================
