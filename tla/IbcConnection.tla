--------------------------- MODULE IbcConnection ---------------------------
(***************************************************************************)
(* ICS-2 clients and the ICS-3 connection handshake of Handler.kt, between *)
(* two hosts.  A host here is what the light client of the other network   *)
(* sees as a chain: the Host state with its counters, and the client and   *)
(* connection states issued under it.                                      *)
(*                                                                         *)
(* What makes this handshake different from the textbook one is the proof: *)
(* CordaClientState accepts ANY transaction the notary ever signed that    *)
(* outputs the expected state, whether or not that state has since been    *)
(* consumed.  connLog is that evidence: every connection end ever          *)
(* notarised.  It only grows, and a proof is membership in it.             *)
(*                                                                         *)
(* Left out: versions and commitment prefixes (both hosts offer the one    *)
(* version and the one prefix of constants.kt, so each comparison is       *)
(* between equal values) and heights (constant: HEIGHT is 0-1).            *)
(***************************************************************************)
EXTENDS Naturals

CONSTANTS
    ChainA, ChainB,    \* the two hosts
    MaxClient,         \* bound on the clients created on a host
    MaxConn,           \* bound on the connections created on a host
    Delays             \* delay periods a message may ask for

ASSUME ChainsDiffer == ChainA # ChainB
ASSUME BoundsAreNat == MaxClient \in Nat /\ MaxConn \in Nat
ASSUME DelaysAreNat == Delays \subseteq Nat

Chain == {ChainA, ChainB}
Other(c) == IF c = ChainA THEN ChainB ELSE ChainA

ClientId == 1..MaxClient
ConnId == 1..MaxConn
NoId == 0              \* the empty identifier ""

ConnState == {"UNINIT", "INIT", "TRYOPEN", "OPEN"}
ConnEnd == [state: ConnState, client: ClientId \cup {NoId},
            cpClient: ClientId \cup {NoId}, cpConn: ConnId \cup {NoId},
            delay: Delays \cup {0}]

End(state, cl, cpCl, cpConn, delay) ==
    [state |-> state, client |-> cl, cpClient |-> cpCl, cpConn |-> cpConn,
     delay |-> delay]

\* The end of a connection identifier that has not been issued.
NoConn == End("UNINIT", NoId, NoId, NoId, 0)

VARIABLES
    nextClientSequence,      \* Host: the number of the next client
    nextConnectionSequence,  \* Host: the number of the next connection
    conns,                   \* the current (unconsumed) connection states
    connLog                  \* every <<identifier, end>> ever notarised

connVars == <<nextClientSequence, nextConnectionSequence, conns, connLog>>

ConnInit ==
    /\ nextClientSequence = [c \in Chain |-> 1]
    /\ nextConnectionSequence = [c \in Chain |-> 1]
    /\ conns = [c \in Chain |-> [i \in ConnId |-> NoConn]]
    /\ connLog = [c \in Chain |-> {}]

ClientExists(c, cl) == cl \in ClientId /\ cl < nextClientSequence[c]

\* Mutant: the proof shows some end of connection i in the expected state.
VerifyStateOnly(c, i, end) ==
    \E r \in connLog[Other(c)] : r[1] = i /\ r[2].state = end.state

\* Mutant: the counterparty of the shown end is not compared.
VerifyButCounterparty(c, i, end) ==
    \E r \in connLog[Other(c)] : r[1] = i /\ [r[2] EXCEPT !.cpConn = end.cpConn] = end

\* verifyConnectionState on c: a notarised transaction of the other host
\* outputs connection i with exactly this end.
VerifyConnectionState(c, i, end) == <<i, end>> \in connLog[Other(c)]

\* verifyClientState on c: the other host issued client cl.
VerifyClientState(c, cl) == ClientExists(Other(c), cl)

\* A notarised transaction of c replaces connection i by end.
OutputConn(c, i, end) ==
    /\ conns' = [conns EXCEPT ![c][i] = end]
    /\ connLog' = [connLog EXCEPT ![c] = @ \cup {<<i, end>>}]

GenerateConnectionIdentifier(c) ==
    nextConnectionSequence' = [nextConnectionSequence EXCEPT ![c] = @ + 1]

\* Mutant: a client is numbered by the connection counter.
CreateClientAsConnection(c) ==
    /\ nextClientSequence[c] \in ClientId
    /\ GenerateConnectionIdentifier(c)
    /\ UNCHANGED <<nextClientSequence, conns, connLog>>

CreateClient(c) ==
    /\ nextClientSequence[c] \in ClientId                        \* MaxClient
    /\ nextClientSequence' = [nextClientSequence EXCEPT ![c] = @ + 1]
    /\ UNCHANGED <<nextConnectionSequence, conns, connLog>>

\* The counterparty of the message is stored as it comes: nothing requires
\* its connection identifier to be empty.
ConnOpenInit(c, cl, cpCl, cpConn, delay) ==
    LET i == nextConnectionSequence[c] IN
    /\ i \in ConnId                                              \* MaxConn
    /\ ClientExists(c, cl)
    /\ GenerateConnectionIdentifier(c)
    /\ OutputConn(c, i, End("INIT", cl, cpCl, cpConn, delay))
    /\ UNCHANGED nextClientSequence

\* Mutant: the state of the previous connection is not checked.
PreviousAnyState(c, prev, cl, cpCl, delay) ==
    /\ conns[c][prev].client = cl /\ conns[c][prev].cpClient = cpCl
    /\ conns[c][prev].delay = delay

PreviousIsInit(c, prev, cl, cpCl, delay) ==
    conns[c][prev] = End("INIT", cl, cpCl, NoId, delay)

\* Without a previousConnectionId a new identifier is issued; with one, the
\* INIT connection it names is overwritten and the host does not change.
ConnOpenTry(c, prev, cl, cpCl, cpConn, delay) ==
    /\ ClientExists(c, cl)
    /\ VerifyConnectionState(c, cpConn, End("INIT", cpCl, cl, NoId, delay))
    /\ VerifyClientState(c, cpCl)
    /\ LET new == End("TRYOPEN", cl, cpCl, cpConn, delay) IN
       \/ /\ prev = NoId
          /\ nextConnectionSequence[c] \in ConnId                \* MaxConn
          /\ OutputConn(c, nextConnectionSequence[c], new)
          /\ GenerateConnectionIdentifier(c)
       \/ /\ prev # NoId
          /\ PreviousIsInit(c, prev, cl, cpCl, delay)
          /\ OutputConn(c, prev, new)
          /\ UNCHANGED nextConnectionSequence
    /\ UNCHANGED nextClientSequence

\* The TRYOPEN end that connOpenAck of connection i expects on the other host.
ExpectedTry(i, end) == End("TRYOPEN", end.cpClient, end.client, i, end.delay)

\* cpConn is the counterpartyConnectionId of the message.  It is not compared
\* with the one a TRYOPEN end already holds.
ConnOpenAck(c, i, cpConn) ==
    LET end == conns[c][i] IN
    /\ end.state \in {"INIT", "TRYOPEN"}
    /\ VerifyConnectionState(c, cpConn, ExpectedTry(i, end))
    /\ VerifyClientState(c, end.cpClient)
    /\ OutputConn(c, i, End("OPEN", end.client, end.cpClient, cpConn, end.delay))
    /\ UNCHANGED <<nextClientSequence, nextConnectionSequence>>

\* Mutant: the expected OPEN end names no counterparty.
ExpectedNamingNone(i, end) == End("OPEN", end.cpClient, end.client, NoId, 0)

\* The OPEN end that connOpenConfirm of connection i expects.  The builder
\* sets no delay period, so the expected one is 0 whatever end.delay is.
ExpectedOpen(i, end) == End("OPEN", end.cpClient, end.client, i, 0)

ConnOpenConfirm(c, i) ==
    LET end == conns[c][i] IN
    /\ end.state = "TRYOPEN"
    /\ VerifyConnectionState(c, end.cpConn, ExpectedOpen(i, end))
    /\ OutputConn(c, i, [end EXCEPT !.state = "OPEN"])
    /\ UNCHANGED <<nextClientSequence, nextConnectionSequence>>

ConnNext ==
    \E c \in Chain :
       \/ CreateClient(c)
       \/ \E cl, cpCl \in ClientId, cpConn \in ConnId \cup {NoId}, d \in Delays :
             ConnOpenInit(c, cl, cpCl, cpConn, d)
       \/ \E prev \in ConnId \cup {NoId}, cl, cpCl \in ClientId,
             cpConn \in ConnId, d \in Delays :
             ConnOpenTry(c, prev, cl, cpCl, cpConn, d)
       \/ \E i, cpConn \in ConnId : ConnOpenAck(c, i, cpConn)
       \/ \E i \in ConnId : ConnOpenConfirm(c, i)

ConnSpec == ConnInit /\ [][ConnNext]_connVars

(***************************************************************************)
(* The relayer keeps looking for handshakes to finish and resubmits what   *)
(* failed, so a confirmation that stays possible is eventually submitted.  *)
(* Nobody is obliged to start a handshake.                                 *)
(***************************************************************************)
ConnFairSpec ==
    ConnSpec /\ \A c \in Chain : \A i \in ConnId :
                    WF_connVars(ConnOpenConfirm(c, i))

(***************************************************************************)
(* Properties.                                                             *)
(***************************************************************************)

\* Type invariant of the Host counters, the connections and the evidence.
ConnTypeOK ==
    /\ nextClientSequence \in [Chain -> 1..(MaxClient + 1)]
    /\ nextConnectionSequence \in [Chain -> 1..(MaxConn + 1)]
    /\ conns \in [Chain -> [ConnId -> ConnEnd]]
    /\ connLog \in [Chain -> SUBSET (ConnId \X ConnEnd)]

\* An end that faces another one: each names the other's client, and both
\* agree on the delay period.
Faces(e, f) == e.client = f.cpClient /\ e.cpClient = f.client /\ e.delay = f.delay

\* An OPEN connection agrees with the connection it names on clients and delay
\* period, and that one answered the handshake: whatever mix of old proofs
\* and reused identifiers connOpenTry and connOpenAck were given.
OpenAgrees ==
    \A c \in Chain, i \in ConnId : conns[c][i].state = "OPEN" =>
        LET j == conns[c][i].cpConn IN
        /\ j \in ConnId
        /\ conns[Other(c)][j].state \in {"TRYOPEN", "OPEN"}
        /\ Faces(conns[c][i], conns[Other(c)][j])

\* Connection i went through connOpenInit and, reused as the previous
\* connection of a connOpenTry, through TRYOPEN as well.
Reused(c, i) == \A s \in {"INIT", "TRYOPEN"} :
                   \E r \in connLog[c] : r[1] = i /\ r[2].state = s

\* The connection an OPEN one names back names it, unless that other one took
\* both parts of a crossing handshake: so two connections of a host never
\* share one counterparty outside crossing handshakes.
OpenIsPaired ==
    \A c \in Chain, i \in ConnId : conns[c][i].state = "OPEN" =>
        LET j == conns[c][i].cpConn IN
        ~Reused(Other(c), j) => conns[Other(c)][j].cpConn = i

Rank(s) == IF s = "UNINIT" THEN 0 ELSE IF s = "INIT" THEN 1 ELSE IF s = "TRYOPEN" THEN 2 ELSE 3

ForwardStep ==
    \A c \in Chain, i \in ConnId :
        LET old == conns[c][i]  new == conns'[c][i] IN
        old # new =>
            /\ Rank(old.state) < Rank(new.state)
            /\ old.state # "UNINIT" => /\ new.client = old.client
                                       /\ new.cpClient = old.cpClient
                                       /\ new.delay = old.delay

\* A handshake only goes forward: an issued connection keeps its clients and
\* delay period for ever, its state never falls back, and an OPEN end never
\* changes again (no later Try, Ack or Confirm can re-point it).
HandshakeGoesForward == [][ForwardStep]_connVars

\* When one side is OPEN the other side gets there too, as long as no delay
\* period was asked for (see ConfirmIsProvable).
OpenSpreads ==
    \A c \in Chain, i \in ConnId, j \in ConnId :
        (/\ conns[c][i].state = "OPEN"
         /\ conns[c][i].cpConn = j
         /\ conns[c][i].delay = 0)  ~>  (conns[Other(c)][j].state = "OPEN")

\* Once connection i is OPEN, the TRYOPEN connection it is paired with can
\* show connOpenConfirm the proof it asks for.
ConfirmIsProvable ==
    \A c \in Chain, i \in ConnId : conns[c][i].state = "OPEN" =>
        LET j == conns[c][i].cpConn  other == conns[Other(c)][j] IN
        other.state = "TRYOPEN" /\ other.cpConn = i =>
            VerifyConnectionState(Other(c), i, ExpectedOpen(j, other))
=============================================================================
