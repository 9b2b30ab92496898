------------------------- MODULE IbcChannel_proofs -------------------------
(***************************************************************************)
(* Proofs about IbcConnection and IbcChannel, for any number of clients,   *)
(* connections, channels and packets and any set of delay periods, in three *)
(* parts: the connections; channels and packets one by one; two channels   *)
(* that name each other.                                                   *)
(***************************************************************************)
EXTENDS IbcChannel, TLAPS

(***************************************************************************)
(* Part 1: connections.  The properties are about current states, but what *)
(* a handler is shown is some past state; so the inductive invariant relates *)
(* the evidence (connLog) to the current states and to the evidence of the *)
(* other host.                                                             *)
(***************************************************************************)

ConnAssumptions == ChainsDiffer /\ BoundsAreNat /\ DelaysAreNat

\* Every logged end belongs to an issued identifier, and no later end of that
\* identifier has other clients or another delay period, or an earlier state.
LogPrecedesState ==
    \A c \in Chain : \A r \in connLog[c] :
        LET cur == conns[c][r[1]] IN
        /\ r[2].state # "UNINIT"
        /\ r[1] < nextConnectionSequence[c]
        /\ Rank(r[2].state) <= Rank(cur.state)
        /\ r[2].client = cur.client /\ r[2].cpClient = cur.cpClient
        /\ r[2].delay = cur.delay
        /\ Rank(r[2].state) = Rank(cur.state) => r[2] = cur

\* Every issued connection is in the evidence; identifiers not issued are empty.
StateIsLogged ==
    \A c \in Chain, i \in ConnId :
        /\ conns[c][i].state # "UNINIT" => <<i, conns[c][i]>> \in connLog[c]
        /\ i >= nextConnectionSequence[c] => conns[c][i].state = "UNINIT"

\* The other host has logged an end of connection j in one of these states, that
\* faces this one.
Faced(c, end, j, states) ==
    \E f \in ConnEnd : /\ f.state \in states
                       /\ Faces(end, f)
                       /\ <<j, f>> \in connLog[Other(c)]

\* A TRYOPEN end answers an INIT end.
TryAnswersInit ==
    \A c \in Chain : \A r \in connLog[c] : r[2].state = "TRYOPEN" =>
        Faced(c, r[2], r[2].cpConn, {"INIT"})

\* An OPEN end was shown a TRYOPEN or OPEN end that faces and names it.
OpenAnswersTry ==
    \A c \in Chain, i \in ConnId : conns[c][i].state = "OPEN" =>
        \E f \in ConnEnd : /\ f.state \in {"TRYOPEN", "OPEN"}
                           /\ f.cpConn = i
                           /\ Faces(conns[c][i], f)
                           /\ <<conns[c][i].cpConn, f>> \in connLog[Other(c)]

HasInit(c, i) == \E f \in ConnEnd : f.state = "INIT" /\ <<i, f>> \in connLog[c]

\* A connection that names another counterparty than it did in TRYOPEN, or than
\* another TRYOPEN end of its own, has also been in INIT.
RepointedHadInit ==
    \A c \in Chain : \A r \in connLog[c] :
        r[2].state = "TRYOPEN" /\ conns[c][r[1]].cpConn # r[2].cpConn => HasInit(c, r[1])

ConnIInv ==
    /\ ConnTypeOK
    /\ LogPrecedesState
    /\ StateIsLogged
    /\ TryAnswersInit
    /\ OpenAnswersTry
    /\ RepointedHadInit

(***************************************************************************)
(* What the four handshake handlers have in common: one end is replaced by *)
(* a later one, with the evidence the new state calls for.                 *)
(***************************************************************************)
Advance(c, i, end) ==
    /\ c \in Chain /\ i \in ConnId /\ end \in ConnEnd
    /\ Rank(conns[c][i].state) < Rank(end.state)
    /\ conns[c][i].state = "UNINIT" => i = nextConnectionSequence[c]
    /\ conns[c][i].state # "UNINIT" => /\ end.client = conns[c][i].client
                                       /\ end.cpClient = conns[c][i].cpClient
                                       /\ end.delay = conns[c][i].delay
    /\ end.state = "TRYOPEN" => Faced(c, end, end.cpConn, {"INIT"})
    /\ end.state = "OPEN" =>
          /\ end.cpConn \in ConnId
          /\ \E f \in ConnEnd : /\ f.state \in {"TRYOPEN", "OPEN"}
                                /\ f.cpConn = i
                                /\ Faces(end, f)
                                /\ <<end.cpConn, f>> \in connLog[Other(c)]
          /\ conns[c][i].state = "TRYOPEN" /\ end.cpConn # conns[c][i].cpConn
                => HasInit(c, i)
    /\ OutputConn(c, i, end)
    /\ nextConnectionSequence' = IF conns[c][i].state = "UNINIT"
          THEN [nextConnectionSequence EXCEPT ![c] = @ + 1] ELSE nextConnectionSequence
    /\ UNCHANGED nextClientSequence

\* Facts about the two hosts.
LEMMA OtherHost ==
    ASSUME ChainsDiffer
    PROVE  /\ \A c \in Chain : Other(c) \in Chain /\ Other(c) # c /\ Other(Other(c)) = c
           /\ \A c, d \in Chain : d = c \/ d = Other(c)
BY DEF Chain, Other, ChainsDiffer

\* Rank orders the four states.
LEMMA RankFacts ==
    /\ Rank("UNINIT") = 0 /\ Rank("INIT") = 1 /\ Rank("TRYOPEN") = 2 /\ Rank("OPEN") = 3
    /\ \A s \in ConnState : Rank(s) \in 0..3
BY DEF Rank, ConnState

\* End builds a record with the given fields.
LEMMA EndFields ==
    ASSUME NEW s, NEW cl, NEW cp, NEW j, NEW d
    PROVE  /\ End(s, cl, cp, j, d).state = s
           /\ End(s, cl, cp, j, d).client = cl
           /\ End(s, cl, cp, j, d).cpClient = cp
           /\ End(s, cl, cp, j, d).cpConn = j
           /\ End(s, cl, cp, j, d).delay = d
BY DEF End

\* Evidence is never lost and identifiers are never un-issued.
LEMMA AdvanceFacts ==
    ASSUME ConnAssumptions, ConnTypeOK, NEW c, NEW i, NEW end, Advance(c, i, end)
    PROVE  /\ conns'[c][i] = end
           /\ \A d \in Chain, k \in ConnId : d # c \/ k # i => conns'[d][k] = conns[d][k]
           /\ connLog'[c] = connLog[c] \cup {<<i, end>>}
           /\ \A d \in Chain : d # c => connLog'[d] = connLog[d]
           /\ \A d \in Chain : connLog[d] \subseteq connLog'[d]
           /\ \A d \in Chain : nextConnectionSequence[d] <= nextConnectionSequence'[d]
           /\ \A d \in Chain : d # c => nextConnectionSequence'[d] = nextConnectionSequence[d]
           /\ ConnTypeOK'
<1> USE DEF Advance, OutputConn
<1>0. c \in Chain /\ i \in ConnId /\ end \in ConnEnd
  OBVIOUS
<1>1. conns'[c][i] = end
  BY DEF ConnTypeOK
<1>2. \A d \in Chain, k \in ConnId : d # c \/ k # i => conns'[d][k] = conns[d][k]
  BY DEF ConnTypeOK
<1>3. /\ connLog'[c] = connLog[c] \cup {<<i, end>>}
      /\ \A d \in Chain : d # c => connLog'[d] = connLog[d]
      /\ \A d \in Chain : connLog[d] \subseteq connLog'[d]
  BY DEF ConnTypeOK
<1>4. conns[c][i].state = "UNINIT" => nextConnectionSequence[c] \in 1..MaxConn
  BY DEF ConnId
<1>5. /\ \A d \in Chain : nextConnectionSequence[d] <= nextConnectionSequence'[d]
      /\ \A d \in Chain : d # c => nextConnectionSequence'[d] = nextConnectionSequence[d]
      /\ nextConnectionSequence' \in [Chain -> 1..(MaxConn + 1)]
  BY <1>4 DEF ConnTypeOK, ConnAssumptions, BoundsAreNat
<1>6. conns' \in [Chain -> [ConnId -> ConnEnd]]
  BY DEF ConnTypeOK
<1>7. connLog' \in [Chain -> SUBSET (ConnId \X ConnEnd)]
  BY DEF ConnTypeOK
<1>8. ConnTypeOK'
  BY <1>5, <1>6, <1>7 DEF ConnTypeOK
<1> QED
  BY <1>1, <1>2, <1>3, <1>5, <1>8

\* The heart of the matter: an Advance keeps the invariant.
LEMMA AdvancePreserves ==
    ASSUME ConnAssumptions, ConnIInv, NEW c, NEW i, NEW end, Advance(c, i, end)
    PROVE  ConnIInv'
<1> USE OtherHost, RankFacts DEF ConnAssumptions
<1>0. /\ ConnTypeOK /\ LogPrecedesState /\ StateIsLogged /\ TryAnswersInit
      /\ OpenAnswersTry /\ RepointedHadInit
  BY DEF ConnIInv
<1>1. /\ c \in Chain /\ i \in ConnId /\ end \in ConnEnd
      /\ Rank(conns[c][i].state) < Rank(end.state)
      /\ end.state \in ConnState /\ end.state # "UNINIT"
  <2>1. c \in Chain /\ i \in ConnId /\ end \in ConnEnd /\ Rank(conns[c][i].state) < Rank(end.state)
    BY DEF Advance
  <2>2. conns[c][i].state \in ConnState /\ end.state \in ConnState
    BY <1>0, <2>1 DEF ConnTypeOK, ConnEnd
  <2> QED BY <2>1, <2>2
<1>2. /\ conns'[c][i] = end
      /\ \A d \in Chain, k \in ConnId : d # c \/ k # i => conns'[d][k] = conns[d][k]
      /\ connLog'[c] = connLog[c] \cup {<<i, end>>}
      /\ \A d \in Chain : d # c => connLog'[d] = connLog[d]
      /\ \A d \in Chain : connLog[d] \subseteq connLog'[d]
      /\ \A d \in Chain : nextConnectionSequence[d] <= nextConnectionSequence'[d]
      /\ \A d \in Chain : d # c => nextConnectionSequence'[d] = nextConnectionSequence[d]
      /\ ConnTypeOK'
  BY <1>0, AdvanceFacts
<1>3. i < nextConnectionSequence'[c]
  <2>1. CASE conns[c][i].state = "UNINIT"
    BY <2>1, <1>0, <1>1 DEF Advance, ConnTypeOK, ConnId
  <2>2. CASE conns[c][i].state # "UNINIT"
    <3>1. i < nextConnectionSequence[c]
      <4>1. ~(i >= nextConnectionSequence[c])
        BY <2>2, <1>0, <1>1 DEF StateIsLogged
      <4>2. i \in Nat /\ nextConnectionSequence[c] \in Nat
        BY <1>0, <1>1 DEF ConnTypeOK, ConnId
      <4> QED BY <4>1, <4>2
    <3>2. nextConnectionSequence' = nextConnectionSequence
      BY <2>2 DEF Advance
    <3> QED BY <3>1, <3>2
  <2> QED BY <2>1, <2>2
<1>4. LogPrecedesState'
  <2> SUFFICES ASSUME NEW d \in Chain, NEW r \in connLog'[d]
               PROVE  LET cur == conns'[d][r[1]] IN
                      /\ r[2].state # "UNINIT"
                      /\ r[1] < nextConnectionSequence'[d]
                      /\ Rank(r[2].state) <= Rank(cur.state)
                      /\ r[2].client = cur.client /\ r[2].cpClient = cur.cpClient
                      /\ r[2].delay = cur.delay
                      /\ Rank(r[2].state) = Rank(cur.state) => r[2] = cur
    BY DEF LogPrecedesState
  <2>0. r \in ConnId \X ConnEnd
    BY <1>2 DEF ConnTypeOK
  <2>1. CASE r \in connLog[d]
    <3>1. /\ r[2].state # "UNINIT"
          /\ r[1] < nextConnectionSequence[d]
          /\ Rank(r[2].state) <= Rank(conns[d][r[1]].state)
          /\ r[2].client = conns[d][r[1]].client /\ r[2].cpClient = conns[d][r[1]].cpClient
          /\ r[2].delay = conns[d][r[1]].delay
          /\ Rank(r[2].state) = Rank(conns[d][r[1]].state) => r[2] = conns[d][r[1]]
      BY <2>1, <1>0 DEF LogPrecedesState
    <3>2. r[1] < nextConnectionSequence'[d]
      BY <3>1, <2>0, <1>2, <1>0 DEF ConnTypeOK, ConnId
    <3>3. CASE d # c \/ r[1] # i
      BY <3>1, <3>2, <3>3, <2>0, <1>2
    <3>4. CASE d = c /\ r[1] = i
      <4>1. conns[c][i].state # "UNINIT"
        <5>1. r[2].state \in ConnState /\ conns[c][i].state \in ConnState
          BY <2>0, <1>0, <1>1 DEF ConnTypeOK, ConnEnd
        <5> QED BY <3>1, <3>4, <5>1 DEF Rank, ConnState
      <4>2. end.client = conns[c][i].client /\ end.cpClient = conns[c][i].cpClient /\ end.delay = conns[c][i].delay
        BY <4>1 DEF Advance
      <4>3. Rank(r[2].state) < Rank(end.state)
        <5>1. r[2].state \in ConnState /\ conns[c][i].state \in ConnState
          BY <2>0, <1>0, <1>1 DEF ConnTypeOK, ConnEnd
        <5> QED BY <3>1, <3>4, <5>1, <1>1
      <4>4. Rank(r[2].state) \in 0..3 /\ Rank(end.state) \in 0..3
        BY <2>0, <1>1 DEF ConnEnd
      <4>5. conns'[d][r[1]] = end
        BY <3>4, <1>2
      <4> QED BY <3>1, <3>2, <3>4, <4>2, <4>3, <4>4, <4>5
    <3> QED BY <3>3, <3>4
  <2>2. CASE r \notin connLog[d]
    <3>1. d = c /\ r = <<i, end>>
      BY <2>2, <1>2
    <3> QED BY <3>1, <1>1, <1>2, <1>3
  <2> QED BY <2>1, <2>2
<1>5. StateIsLogged'
  <2> SUFFICES ASSUME NEW d \in Chain, NEW k \in ConnId
               PROVE  /\ conns'[d][k].state # "UNINIT" => <<k, conns'[d][k]>> \in connLog'[d]
                      /\ k >= nextConnectionSequence'[d] => conns'[d][k].state = "UNINIT"
    BY DEF StateIsLogged
  <2>1. CASE d = c /\ k = i
    <3>1. ~(i >= nextConnectionSequence'[c])
      BY <1>3, <1>1, <1>2 DEF ConnTypeOK, ConnId
    <3> QED BY <2>1, <3>1, <1>2
  <2>2. CASE d # c \/ k # i
    <3>1. k >= nextConnectionSequence'[d] => k >= nextConnectionSequence[d]
      BY <1>2, <1>0 DEF ConnTypeOK, ConnId
    <3> QED BY <2>2, <3>1, <1>2, <1>0 DEF StateIsLogged
  <2> QED BY <2>1, <2>2
<1>6. TryAnswersInit'
  <2> SUFFICES ASSUME NEW d \in Chain, NEW r \in connLog'[d], r[2].state = "TRYOPEN"
               PROVE  \E f \in ConnEnd : /\ f.state \in {"INIT"}
                                         /\ Faces(r[2], f)
                                         /\ <<r[2].cpConn, f>> \in connLog'[Other(d)]
    BY DEF TryAnswersInit, Faced
  <2>1. CASE r \in connLog[d]
    BY <2>1, <1>0, <1>2 DEF TryAnswersInit, Faced
  <2>2. CASE r \notin connLog[d]
    <3>1. d = c /\ r = <<i, end>>
      BY <2>2, <1>2
    <3>2. Faced(c, end, end.cpConn, {"INIT"})
      BY <3>1 DEF Advance
    <3> QED BY <3>1, <3>2, <1>1, <1>2 DEF Faced
  <2> QED BY <2>1, <2>2
<1>7. OpenAnswersTry'
  <2> SUFFICES ASSUME NEW d \in Chain, NEW k \in ConnId, conns'[d][k].state = "OPEN"
               PROVE  \E f \in ConnEnd : /\ f.state \in {"TRYOPEN", "OPEN"}
                                         /\ f.cpConn = k
                                         /\ Faces(conns'[d][k], f)
                                         /\ <<conns'[d][k].cpConn, f>> \in connLog'[Other(d)]
    BY DEF OpenAnswersTry
  <2>1. CASE d = c /\ k = i
    BY <2>1, <1>1, <1>2 DEF Advance
  <2>2. CASE d # c \/ k # i
    <3>1. conns'[d][k] = conns[d][k]
      BY <2>2, <1>2
    <3>2. PICK f \in ConnEnd : /\ f.state \in {"TRYOPEN", "OPEN"}
                               /\ f.cpConn = k
                               /\ Faces(conns[d][k], f)
                               /\ <<conns[d][k].cpConn, f>> \in connLog[Other(d)]
      BY <3>1, <1>0 DEF OpenAnswersTry
    <3> QED BY <3>1, <3>2, <1>2
  <2> QED BY <2>1, <2>2
<1>8. RepointedHadInit'
  <2> SUFFICES ASSUME NEW d \in Chain, NEW r \in connLog'[d], r[2].state = "TRYOPEN",
                      conns'[d][r[1]].cpConn # r[2].cpConn
               PROVE  \E f \in ConnEnd : f.state = "INIT" /\ <<r[1], f>> \in connLog'[d]
    BY DEF RepointedHadInit, HasInit
  <2>0. r \in ConnId \X ConnEnd
    BY <1>2 DEF ConnTypeOK
  <2>1. CASE r \notin connLog[d]
    <3>1. d = c /\ r = <<i, end>>
      BY <2>1, <1>2
    <3>2. r[1] = i /\ r[2] = end
      BY <3>1
    <3> QED BY <3>1, <3>2, <1>2
  <2>2. CASE r \in connLog[d] /\ conns[d][r[1]].cpConn # r[2].cpConn
    BY <2>2, <1>0, <1>2 DEF RepointedHadInit, HasInit
  <2>3. CASE r \in connLog[d] /\ conns[d][r[1]].cpConn = r[2].cpConn
    <3>1. d = c /\ r[1] = i
      BY <2>3, <2>0, <1>2
    <3>2. conns[c][i].state = "TRYOPEN" /\ end.state = "OPEN"
      <4>1. Rank(conns[c][i].state) >= 2
        BY <2>3, <2>0, <3>1, <1>0, <1>1 DEF LogPrecedesState, ConnTypeOK, ConnEnd
      <4>2. conns[c][i].state \in ConnState
        BY <1>0, <1>1 DEF ConnTypeOK, ConnEnd
      <4> QED BY <4>1, <4>2, <1>1 DEF ConnState
    <3>3. HasInit(c, i)
      BY <3>1, <3>2, <2>3, <1>2 DEF Advance
    <3> QED BY <3>1, <3>3, <1>2 DEF HasInit
  <2> QED BY <2>1, <2>2, <2>3
<1> QED
  BY <1>2, <1>4, <1>5, <1>6, <1>7, <1>8 DEF ConnIInv

(***************************************************************************)
(* Each handler is an Advance.                                             *)
(***************************************************************************)

\* End, with fields of their types, is a connection end.
LEMMA EndIsConnEnd ==
    ASSUME NEW s \in ConnState, NEW cl \in ClientId, NEW cp \in ClientId,
           NEW j \in ConnId \cup {NoId}, NEW d \in Delays \cup {0}
    PROVE  End(s, cl, cp, j, d) \in ConnEnd
BY DEF End, ConnEnd

\* The next identifier has not been issued.
LEMMA NextIsEmpty ==
    ASSUME ConnIInv, NEW c \in Chain, nextConnectionSequence[c] \in ConnId
    PROVE  conns[c][nextConnectionSequence[c]].state = "UNINIT"
<1>1. nextConnectionSequence[c] >= nextConnectionSequence[c]
  BY DEF ConnId
<1> QED BY <1>1 DEF ConnIInv, StateIsLogged

\* connOpenInit issues a new identifier, whose end is still empty.
LEMMA InitAdvances ==
    ASSUME ConnAssumptions, ConnIInv, NEW c \in Chain, NEW cl \in ClientId,
           NEW cpCl \in ClientId, NEW cpConn \in ConnId \cup {NoId}, NEW d \in Delays,
           ConnOpenInit(c, cl, cpCl, cpConn, d)
    PROVE  \E i, end : Advance(c, i, end)
<1> DEFINE i == nextConnectionSequence[c]
           end == End("INIT", cl, cpCl, cpConn, d)
<1>1. i \in ConnId /\ conns[c][i].state = "UNINIT"
  BY NextIsEmpty DEF ConnOpenInit
<1>2. end \in ConnEnd /\ end.state = "INIT"
  BY EndIsConnEnd, EndFields DEF ConnState
<1>3. OutputConn(c, i, end) /\ UNCHANGED nextClientSequence
  BY DEF ConnOpenInit
<1>4. nextConnectionSequence' = [nextConnectionSequence EXCEPT ![c] = @ + 1]
  BY DEF ConnOpenInit, GenerateConnectionIdentifier
<1> HIDE DEF i, end
<1>5. Advance(c, i, end)
  BY <1>1, <1>2, <1>3, <1>4, RankFacts DEF Advance, i
<1> QED BY <1>5

\* connOpenTry was shown an INIT end, which faces the TRYOPEN one it outputs.
LEMMA TryAdvances ==
    ASSUME ConnAssumptions, ConnIInv, NEW c \in Chain, NEW prev \in ConnId \cup {NoId},
           NEW cl \in ClientId, NEW cpCl \in ClientId, NEW cpConn \in ConnId,
           NEW d \in Delays, ConnOpenTry(c, prev, cl, cpCl, cpConn, d)
    PROVE  \E i, end : Advance(c, i, end)
<1> DEFINE new == End("TRYOPEN", cl, cpCl, cpConn, d)
           shown == End("INIT", cpCl, cl, NoId, d)
<1>1. /\ new \in ConnEnd /\ new.state = "TRYOPEN"
      /\ new.client = cl /\ new.cpClient = cpCl /\ new.cpConn = cpConn /\ new.delay = d
  BY EndIsConnEnd, EndFields DEF ConnState
<1>2. Faced(c, new, cpConn, {"INIT"})
  <2>1. shown \in ConnEnd
    BY DEF End, ConnEnd, ConnState
  <2>2. shown.state = "INIT" /\ Faces(new, shown)
    BY <1>1, EndFields DEF Faces
  <2>3. <<cpConn, shown>> \in connLog[Other(c)]
    BY DEF ConnOpenTry, VerifyConnectionState
  <2> QED BY <2>1, <2>2, <2>3 DEF Faced
<1>3. UNCHANGED nextClientSequence
  BY DEF ConnOpenTry
<1>4. CASE /\ prev = NoId
           /\ nextConnectionSequence[c] \in ConnId
           /\ OutputConn(c, nextConnectionSequence[c], new)
           /\ GenerateConnectionIdentifier(c)
  <2> DEFINE i == nextConnectionSequence[c]
  <2>1. i \in ConnId /\ conns[c][i].state = "UNINIT"
    BY <1>4, NextIsEmpty
  <2>2. nextConnectionSequence' = [nextConnectionSequence EXCEPT ![c] = @ + 1]
    BY <1>4 DEF GenerateConnectionIdentifier
  <2>3. OutputConn(c, i, new)
    BY <1>4
  <2> HIDE DEF i, new
  <2>4. Advance(c, i, new)
    BY <1>1, <1>2, <1>3, <2>1, <2>2, <2>3, RankFacts DEF Advance, i
  <2> QED BY <2>4
<1>5. CASE /\ prev # NoId
           /\ PreviousIsInit(c, prev, cl, cpCl, d)
           /\ OutputConn(c, prev, new)
           /\ UNCHANGED nextConnectionSequence
  <2>1. /\ conns[c][prev].state = "INIT" /\ conns[c][prev].client = cl
        /\ conns[c][prev].cpClient = cpCl /\ conns[c][prev].delay = d
    BY <1>5, EndFields DEF PreviousIsInit
  <2>2. prev \in ConnId
    BY <1>5
  <2>3. nextConnectionSequence' = nextConnectionSequence
    BY <1>5
  <2>4. OutputConn(c, prev, new)
    BY <1>5
  <2> HIDE DEF new
  <2>5. Advance(c, prev, new)
    BY <1>1, <1>2, <1>3, <2>1, <2>2, <2>3, <2>4, RankFacts DEF Advance
  <2> QED BY <2>5
<1> QED BY <1>4, <1>5 DEF ConnOpenTry

\* connOpenAck was shown a TRYOPEN end that faces this one and names it; when
\* this one was in TRYOPEN itself, that end answered an INIT end of this one.
LEMMA AckAdvances ==
    ASSUME ConnAssumptions, ConnIInv, NEW c \in Chain, NEW i \in ConnId,
           NEW cpConn \in ConnId, ConnOpenAck(c, i, cpConn)
    PROVE  \E end : Advance(c, i, end)
<1> USE OtherHost DEF ConnAssumptions
<1> DEFINE old == conns[c][i]
           new == End("OPEN", old.client, old.cpClient, cpConn, old.delay)
           shown == ExpectedTry(i, old)
<1>1. old \in ConnEnd /\ old.state \in {"INIT", "TRYOPEN"}
  BY DEF ConnIInv, ConnTypeOK, ConnOpenAck
<1>2. /\ new \in ConnEnd /\ new.state = "OPEN" /\ new.cpConn = cpConn
      /\ new.client = old.client /\ new.cpClient = old.cpClient /\ new.delay = old.delay
  BY <1>1, EndFields DEF End, ConnEnd, ConnState
<1>3. /\ shown.state = "TRYOPEN" /\ shown.client = old.cpClient
      /\ shown.cpClient = old.client /\ shown.cpConn = i /\ shown.delay = old.delay
  BY EndFields DEF ExpectedTry
<1>4. <<cpConn, shown>> \in connLog[Other(c)]
  BY DEF ConnOpenAck, VerifyConnectionState
<1>5. shown \in ConnEnd
  BY <1>4 DEF ConnIInv, ConnTypeOK
<1>6. Faces(new, shown)
  BY <1>2, <1>3 DEF Faces
<1>7. HasInit(c, i)
  <2>1. Faced(Other(c), shown, i, {"INIT"})
    <3>1. /\ <<cpConn, shown>>[2] = shown
      OBVIOUS
    <3> QED BY <1>3, <1>4, <3>1 DEF ConnIInv, TryAnswersInit
  <2> QED BY <2>1 DEF Faced, HasInit
<1>8. nextConnectionSequence' = nextConnectionSequence
  BY DEF ConnOpenAck
<1>9. OutputConn(c, i, new) /\ UNCHANGED nextClientSequence
  BY DEF ConnOpenAck
<1> HIDE DEF old, new, shown
<1>10. /\ conns[c][i].state \in {"INIT", "TRYOPEN"}
       /\ Rank(conns[c][i].state) < Rank(new.state)
  BY <1>1, <1>2, RankFacts DEF old
<1>11. /\ new.client = conns[c][i].client /\ new.cpClient = conns[c][i].cpClient
       /\ new.delay = conns[c][i].delay
  BY <1>2 DEF old
<1>12. /\ new.cpConn \in ConnId
       /\ \E f \in ConnEnd : /\ f.state \in {"TRYOPEN", "OPEN"} /\ f.cpConn = i
                             /\ Faces(new, f) /\ <<new.cpConn, f>> \in connLog[Other(c)]
  BY <1>2, <1>3, <1>4, <1>5, <1>6
<1>13. Advance(c, i, new)
  BY <1>2, <1>7, <1>8, <1>9, <1>10, <1>11, <1>12 DEF Advance
<1> QED BY <1>13

\* connOpenConfirm is shown an OPEN end without a delay period; the INIT end
\* its own TRYOPEN end answered is an earlier state of the same connection, so
\* the delay period of the TRYOPEN end must have been zero as well.
LEMMA ConfirmAdvances ==
    ASSUME ConnAssumptions, ConnIInv, NEW c \in Chain, NEW i \in ConnId,
           ConnOpenConfirm(c, i)
    PROVE  \E end : Advance(c, i, end)
<1> USE OtherHost DEF ConnAssumptions
<1> DEFINE old == conns[c][i]
           new == [old EXCEPT !.state = "OPEN"]
           shown == ExpectedOpen(i, old)
<1>1. old \in ConnEnd /\ old.state = "TRYOPEN"
  BY DEF ConnIInv, ConnTypeOK, ConnOpenConfirm
<1>2. /\ new \in ConnEnd /\ new.state = "OPEN" /\ new.cpConn = old.cpConn
      /\ new.client = old.client /\ new.cpClient = old.cpClient /\ new.delay = old.delay
  BY <1>1 DEF ConnEnd, ConnState
<1>3. /\ shown.state = "OPEN" /\ shown.client = old.cpClient
      /\ shown.cpClient = old.client /\ shown.cpConn = i /\ shown.delay = 0
  BY EndFields DEF ExpectedOpen
<1>4. <<old.cpConn, shown>> \in connLog[Other(c)]
  BY DEF ConnOpenConfirm, VerifyConnectionState
<1>5. shown \in ConnEnd /\ old.cpConn \in ConnId
  BY <1>4 DEF ConnIInv, ConnTypeOK
<1>6. old.delay = 0
  <2>1. <<i, old>> \in connLog[c]
    BY <1>1 DEF ConnIInv, StateIsLogged
  <2>2. Faced(c, old, old.cpConn, {"INIT"})
    BY <2>1, <1>1 DEF ConnIInv, TryAnswersInit
  <2>3. PICK f \in ConnEnd : Faces(old, f) /\ <<old.cpConn, f>> \in connLog[Other(c)]
    BY <2>2 DEF Faced
  <2>4. f.delay = conns[Other(c)][old.cpConn].delay
    BY <2>3 DEF ConnIInv, LogPrecedesState
  <2>5. shown.delay = conns[Other(c)][old.cpConn].delay
    BY <1>4 DEF ConnIInv, LogPrecedesState
  <2> QED BY <2>3, <2>4, <2>5, <1>3 DEF Faces
<1>7. Faces(new, shown)
  BY <1>2, <1>3, <1>6 DEF Faces
<1>8. nextConnectionSequence' = nextConnectionSequence
  BY DEF ConnOpenConfirm
<1>9. OutputConn(c, i, new) /\ UNCHANGED nextClientSequence
  BY DEF ConnOpenConfirm
<1> HIDE DEF old, new, shown
<1>10. \E f \in ConnEnd : /\ f.state \in {"TRYOPEN", "OPEN"}
                          /\ f.cpConn = i
                          /\ Faces(new, f)
                          /\ <<new.cpConn, f>> \in connLog[Other(c)]
  BY <1>2, <1>3, <1>4, <1>5, <1>7
<1>11. conns[c][i] = old
  BY DEF old
<1>12. Advance(c, i, new)
  <2>1. Rank(conns[c][i].state) < Rank(new.state)
    BY <1>1, <1>2, <1>11, RankFacts
  <2>2. conns[c][i].state # "UNINIT" /\ new.state # "TRYOPEN"
    BY <1>1, <1>2, <1>11
  <2>3. new.cpConn \in ConnId /\ new.cpConn = conns[c][i].cpConn
    BY <1>2, <1>5, <1>11
  <2>4. /\ new.client = conns[c][i].client /\ new.cpClient = conns[c][i].cpClient
        /\ new.delay = conns[c][i].delay
    BY <1>2, <1>11
  <2> QED BY <1>2, <1>8, <1>9, <1>10, <2>1, <2>2, <2>3, <2>4 DEF Advance
<1> QED BY <1>12

\* An Advance is a forward step.
LEMMA AdvanceIsForward ==
    ASSUME ConnAssumptions, ConnTypeOK, NEW c, NEW i, NEW end, Advance(c, i, end)
    PROVE  ForwardStep
<1>1. /\ conns'[c][i] = end
      /\ \A d \in Chain, k \in ConnId : d # c \/ k # i => conns'[d][k] = conns[d][k]
  BY AdvanceFacts
<1>2. /\ Rank(conns[c][i].state) < Rank(end.state)
      /\ conns[c][i].state # "UNINIT" => /\ end.client = conns[c][i].client
                                         /\ end.cpClient = conns[c][i].cpClient
                                         /\ end.delay = conns[c][i].delay
  BY DEF Advance
<1> QED BY <1>1, <1>2 DEF ForwardStep

(***************************************************************************)
(* The theorems about connections.                                         *)
(***************************************************************************)

\* No evidence and no issued connection at the start.
LEMMA InitEstablishes ==
    ASSUME ConnAssumptions, ConnInit
    PROVE  ConnIInv
<1> USE DEF ConnInit, ConnAssumptions, BoundsAreNat
<1>1. NoConn \in ConnEnd /\ NoConn.state = "UNINIT"
  BY EndFields DEF NoConn, End, ConnEnd, ConnState
<1>2. ConnTypeOK
  BY <1>1 DEF ConnTypeOK
<1>3. LogPrecedesState /\ TryAnswersInit /\ RepointedHadInit
  BY DEF LogPrecedesState, TryAnswersInit, RepointedHadInit
<1>4. StateIsLogged /\ OpenAnswersTry
  BY <1>1 DEF StateIsLogged, OpenAnswersTry
<1> QED BY <1>2, <1>3, <1>4 DEF ConnIInv

\* A step that leaves connections and evidence alone keeps the invariant.
LEMMA QuietPreserves ==
    ASSUME ConnIInv, ConnTypeOK', UNCHANGED <<nextConnectionSequence, conns, connLog>>
    PROVE  ConnIInv' /\ (ConnAssumptions => ForwardStep)
<1>1. LogPrecedesState' /\ StateIsLogged'
  BY DEF ConnIInv, LogPrecedesState, StateIsLogged
<1>2. TryAnswersInit' /\ OpenAnswersTry' /\ RepointedHadInit'
  BY DEF ConnIInv, TryAnswersInit, OpenAnswersTry, RepointedHadInit, Faced, HasInit
<1>3. ForwardStep
  BY DEF ForwardStep
<1> QED BY <1>1, <1>2, <1>3 DEF ConnIInv

\* Every step keeps the invariant and goes forward.
LEMMA StepPreserves ==
    ASSUME ConnAssumptions, ConnIInv, [ConnNext]_connVars
    PROVE  ConnIInv' /\ ForwardStep
<1>1. ASSUME NEW c, NEW i, NEW end, Advance(c, i, end)
      PROVE  ConnIInv' /\ ForwardStep
  BY <1>1, AdvancePreserves, AdvanceIsForward DEF ConnIInv
<1>2. CASE UNCHANGED connVars
  <2>1. ConnTypeOK'
    BY <1>2 DEF ConnIInv, ConnTypeOK, connVars
  <2> QED BY <1>2, <2>1, QuietPreserves DEF connVars
<1>3. ASSUME NEW c \in Chain, CreateClient(c)
      PROVE  ConnIInv' /\ ForwardStep
  <2>1. nextClientSequence' \in [Chain -> 1..(MaxClient + 1)]
    BY <1>3 DEF CreateClient, ConnIInv, ConnTypeOK, ClientId, ConnAssumptions, BoundsAreNat
  <2>2. ConnTypeOK'
    BY <1>3, <2>1 DEF CreateClient, ConnIInv, ConnTypeOK
  <2> QED BY <1>3, <2>2, QuietPreserves DEF CreateClient
<1>4. ASSUME NEW c \in Chain, NEW cl \in ClientId, NEW cpCl \in ClientId,
             NEW cpConn \in ConnId \cup {NoId}, NEW d \in Delays,
             ConnOpenInit(c, cl, cpCl, cpConn, d)
      PROVE  ConnIInv' /\ ForwardStep
  BY <1>1, <1>4, InitAdvances
<1>5. ASSUME NEW c \in Chain, NEW prev \in ConnId \cup {NoId}, NEW cl \in ClientId,
             NEW cpCl \in ClientId, NEW cpConn \in ConnId, NEW d \in Delays,
             ConnOpenTry(c, prev, cl, cpCl, cpConn, d)
      PROVE  ConnIInv' /\ ForwardStep
  BY <1>1, <1>5, TryAdvances
<1>6. ASSUME NEW c \in Chain, NEW i \in ConnId, NEW cpConn \in ConnId,
             ConnOpenAck(c, i, cpConn)
      PROVE  ConnIInv' /\ ForwardStep
  BY <1>1, <1>6, AckAdvances
<1>7. ASSUME NEW c \in Chain, NEW i \in ConnId, ConnOpenConfirm(c, i)
      PROVE  ConnIInv' /\ ForwardStep
  BY <1>1, <1>7, ConfirmAdvances
<1> QED BY <1>2, <1>3, <1>4, <1>5, <1>6, <1>7 DEF ConnNext

\* The inductive invariant holds in every reachable state.
THEOREM ConnInvariance == ConnSpec => []ConnIInv
<1>0. ConnAssumptions
  BY ChainsDiffer, BoundsAreNat, DelaysAreNat DEF ConnAssumptions
<1>1. ConnInit => ConnIInv
  BY <1>0, InitEstablishes
<1>2. ConnIInv /\ [ConnNext]_connVars => ConnIInv'
  BY <1>0, StepPreserves
<1> QED BY <1>1, <1>2, PTL DEF ConnSpec

\* Host counters, connections and evidence keep their types.
THEOREM ConnTypeCorrect == ConnSpec => []ConnTypeOK
<1>1. ConnIInv => ConnTypeOK
  BY DEF ConnIInv
<1> QED BY <1>1, ConnInvariance, PTL

\* connOpenTry, connOpenAck and connOpenConfirm never open a connection that
\* disagrees with the one it names on clients or delay period, although the
\* proofs they accept may be of states long superseded.
THEOREM OpenConnectionsAgree == ConnSpec => []OpenAgrees
<1>1. ASSUME ConnAssumptions, ConnIInv
      PROVE  OpenAgrees
  <2> USE OtherHost, RankFacts DEF ConnAssumptions
  <2> SUFFICES ASSUME NEW c \in Chain, NEW i \in ConnId, conns[c][i].state = "OPEN"
               PROVE  LET j == conns[c][i].cpConn IN
                      /\ j \in ConnId
                      /\ conns[Other(c)][j].state \in {"TRYOPEN", "OPEN"}
                      /\ Faces(conns[c][i], conns[Other(c)][j])
    BY DEF OpenAgrees
  <2> DEFINE j == conns[c][i].cpConn
             cur == conns[Other(c)][j]
  <2>1. PICK f \in ConnEnd : /\ f.state \in {"TRYOPEN", "OPEN"}
                             /\ Faces(conns[c][i], f)
                             /\ <<j, f>> \in connLog[Other(c)]
    BY <1>1 DEF ConnIInv, OpenAnswersTry
  <2>2. j \in ConnId /\ cur.state \in ConnState
    BY <2>1, <1>1 DEF ConnIInv, ConnTypeOK, ConnEnd
  <2>3. /\ Rank(f.state) <= Rank(cur.state)
        /\ f.client = cur.client /\ f.cpClient = cur.cpClient /\ f.delay = cur.delay
    BY <2>1, <1>1 DEF ConnIInv, LogPrecedesState
  <2>4. cur.state \in {"TRYOPEN", "OPEN"}
    BY <2>1, <2>2, <2>3 DEF ConnState
  <2> QED BY <2>1, <2>2, <2>3, <2>4 DEF Faces
<1>2. ConnIInv => OpenAgrees
  BY <1>1, ChainsDiffer, BoundsAreNat, DelaysAreNat DEF ConnAssumptions
<1> QED BY <1>2, ConnInvariance, PTL

\* Outside crossing handshakes no two connections are opened with one
\* counterparty: it names each of those that name it.
THEOREM OpenConnectionsArePaired == ConnSpec => []OpenIsPaired
<1>1. ASSUME ConnAssumptions, ConnIInv
      PROVE  OpenIsPaired
  <2> USE OtherHost, RankFacts DEF ConnAssumptions
  <2> SUFFICES ASSUME NEW c \in Chain, NEW i \in ConnId, conns[c][i].state = "OPEN",
                      ~Reused(Other(c), conns[c][i].cpConn)
               PROVE  conns[Other(c)][conns[c][i].cpConn].cpConn = i
    BY DEF OpenIsPaired
  <2> DEFINE j == conns[c][i].cpConn
             cur == conns[Other(c)][j]
  <2>1. PICK f \in ConnEnd : /\ f.state \in {"TRYOPEN", "OPEN"}
                             /\ f.cpConn = i
                             /\ <<j, f>> \in connLog[Other(c)]
    BY <1>1 DEF ConnIInv, OpenAnswersTry
  <2>2. /\ Rank(f.state) <= Rank(cur.state)
        /\ Rank(f.state) = Rank(cur.state) => f = cur
    BY <2>1, <1>1 DEF ConnIInv, LogPrecedesState
  <2>3. CASE f.state = "OPEN"
    <3>1. j \in ConnId /\ cur.state \in ConnState
      BY <2>1, <1>1 DEF ConnIInv, ConnTypeOK, ConnEnd
    <3>2. Rank(f.state) = Rank(cur.state)
      BY <2>2, <2>3, <3>1
    <3> QED BY <2>1, <2>2, <3>2
  <2>4. CASE f.state = "TRYOPEN"
    <3>1. ~HasInit(Other(c), j)
      <4> SUFFICES ASSUME NEW g \in ConnEnd, g.state = "INIT", <<j, g>> \in connLog[Other(c)]
                   PROVE  FALSE
        BY DEF HasInit
      <4>1. <<j, g>>[1] = j /\ <<j, g>>[2] = g /\ <<j, f>>[1] = j /\ <<j, f>>[2] = f
        OBVIOUS
      <4> QED BY <4>1, <2>1, <2>4 DEF Reused
    <3>2. <<j, f>>[1] = j /\ <<j, f>>[2] = f
      OBVIOUS
    <3>3. cur.cpConn = f.cpConn
      BY <2>1, <2>4, <3>1, <3>2, <1>1 DEF ConnIInv, RepointedHadInit
    <3> QED BY <2>1, <3>3
  <2> QED BY <2>1, <2>3, <2>4
<1>2. ConnIInv => OpenIsPaired
  BY <1>1, ChainsDiffer, BoundsAreNat, DelaysAreNat DEF ConnAssumptions
<1> QED BY <1>2, ConnInvariance, PTL

\* No handler ever takes a connection back, changes what was agreed, or touches
\* an OPEN connection.
THEOREM ConnectionsGoForward == ConnSpec => HandshakeGoesForward
<1>1. ConnIInv /\ [ConnNext]_connVars => [ForwardStep]_connVars
  BY StepPreserves, ChainsDiffer, BoundsAreNat, DelaysAreNat DEF ConnAssumptions
<1> QED BY <1>1, ConnInvariance, PTL DEF ConnSpec, HandshakeGoesForward

(***************************************************************************)
(* Part 2: channels and packets.  Connections behave as IbcConnection says; *)
(* channels only go forward; packets are delivered exactly once and, on    *)
(* ORDERED channels, in order.                                             *)
(***************************************************************************)

ChanAssumptions == ConnAssumptions /\ ChanBoundsAreNat /\ OrdersAreKnown

\* The assumptions of the modules, under one name.
LEMMA ChannelsAssume == ChanAssumptions
BY ChainsDiffer, BoundsAreNat, DelaysAreNat, ChanBoundsAreNat, OrdersAreKnown
DEF ChanAssumptions, ConnAssumptions

\* Identifiers not issued yet are empty.
Unissued == \A c \in Chain, i \in ChanId :
               i >= nextChannelSequence[c] => chans[c][i] = NoChan

\* Nothing is received before a channel is OPEN.
NothingReceivedEarly ==
    \A c \in Chain, i \in ChanId :
        chans[c][i].state \in {"UNINIT", "INIT", "TRYOPEN"} =>
            delivered[c][i] = <<>> /\ nextSequenceRecv[c][i] = 1

\* On an UNORDERED channel what was delivered has a receipt, so no sequence
\* number occurs twice.
ReceiptsCover ==
    \A c \in Chain, i \in ChanId : chans[c][i].order = "UNORDERED" =>
        \A k \in 1..Len(delivered[c][i]) :
            /\ delivered[c][i][k][1] \in receipts[c][i]
            /\ \A l \in 1..Len(delivered[c][i]) :
                  delivered[c][i][l][1] = delivered[c][i][k][1] => l = k

\* What was delivered is in the evidence of the counterparty channel.
DeliveredWasSent ==
    \A c \in Chain, i \in ChanId : \A k \in 1..Len(delivered[c][i]) :
        [port |-> chans[c][i].cpPort, chan |-> chans[c][i].cpChan,
         seq |-> delivered[c][i][k][1], data |-> delivered[c][i][k][2]] \in sentLog[Other(c)]

\* A sequence number is used for one payload only.
SentOnce ==
    \A c \in Chain : \A p \in sentLog[c] :
        /\ p.seq < nextSequenceSend[c][p.chan]
        /\ \A q \in sentLog[c] : q.chan = p.chan /\ q.seq = p.seq => q.data = p.data

ChanIInv ==
    /\ TypeOK
    /\ Unissued
    /\ NothingReceivedEarly
    /\ InOrder
    /\ ReceiptsCover
    /\ DeliveredWasSent
    /\ SentOnce

(***************************************************************************)
(* What the six handshake and closing handlers have in common.             *)
(***************************************************************************)
Closed(end) == [end EXCEPT !.state = "CLOSED"]

ChanAdvance(c, i, end) ==
    /\ c \in Chain /\ i \in ChanId /\ end \in ChanEnd
    /\ ChanRank(chans[c][i].state) < ChanRank(end.state)
    /\ chans[c][i].state = "UNINIT" => i = nextChannelSequence[c]
    /\ chans[c][i].state # "UNINIT" => /\ end.order = chans[c][i].order
                                       /\ end.hop = chans[c][i].hop
                                       /\ end.cpPort = chans[c][i].cpPort
    /\ chans[c][i].state = "OPEN" => end = Closed(chans[c][i])
    /\ OutputEnd(c, i, end)
    /\ nextChannelSequence' = IF chans[c][i].state = "UNINIT"
          THEN [nextChannelSequence EXCEPT ![c] = @ + 1] ELSE nextChannelSequence
    /\ packets' \in {packets, [packets EXCEPT ![c][i] = [s \in Seqs |-> NoPacket]]}
    /\ UNCHANGED <<connVars, seqVars, recvVars, packetLogs>>

\* The ranks of the states of a channel.
LEMMA ChanRankFacts ==
    /\ ChanRank("UNINIT") = 0 /\ ChanRank("INIT") = 1 /\ ChanRank("TRYOPEN") = 2
    /\ ChanRank("OPEN") = 3 /\ ChanRank("CLOSED") = 4
BY DEF ChanRank, Rank

\* Channel builds a record with the given fields, a ChanEnd if they are of the
\* right kinds.
LEMMA ChannelFields ==
    ASSUME NEW s, NEW p, NEW o, NEW cp, NEW j, NEW h, NEW v
    PROVE  LET end == Channel(s, p, o, cp, j, h, v) IN
           /\ end.state = s /\ end.port = p /\ end.order = o /\ end.cpPort = cp
           /\ end.cpChan = j /\ end.hop = h /\ end.version = v
           /\ (/\ s \in ChanState /\ p \in Ports /\ o \in Orders /\ cp \in Ports
               /\ j \in ChanId \cup {NoId} /\ h \in ConnId \cup {NoId} /\ v \in ChanVersions)
              => end \in ChanEnd
BY DEF Channel, ChanEnd

\* An issued channel is a ChanEnd.
LEMMA IssuedIsChanEnd ==
    ASSUME TypeOK, NEW c \in Chain, NEW i \in ChanId, chans[c][i].state # "UNINIT"
    PROVE  chans[c][i] \in ChanEnd /\ chans[c][i].state \in ChanState
<1>1. NoChan.state = "UNINIT"
  BY ChannelFields DEF NoChan
<1>2. chans[c][i] \in ChanEnd \cup {NoChan}
  BY DEF TypeOK
<1> QED BY <1>1, <1>2 DEF ChanEnd

\* Closing an end changes its state only.
LEMMA ClosedFields ==
    ASSUME NEW end \in ChanEnd
    PROVE  /\ Closed(end) \in ChanEnd /\ Closed(end).state = "CLOSED"
           /\ Closed(end).order = end.order /\ Closed(end).port = end.port
           /\ Closed(end).cpPort = end.cpPort /\ Closed(end).cpChan = end.cpChan
           /\ Closed(end).hop = end.hop /\ Closed(end).version = end.version
BY DEF Closed, ChanEnd, ChanState

\* What a ChanAdvance does to the channel table and to the types.
LEMMA ChanAdvanceFacts ==
    ASSUME ChanAssumptions, TypeOK, NEW c, NEW i, NEW end, ChanAdvance(c, i, end)
    PROVE  /\ chans'[c][i] = end
           /\ \A d \in Chain, k \in ChanId : d # c \/ k # i => chans'[d][k] = chans[d][k]
           /\ \A d \in Chain : nextChannelSequence[d] <= nextChannelSequence'[d]
           /\ chans[c][i].state = "UNINIT" => i < nextChannelSequence'[c]
           /\ TypeOK'
<1> USE DEF ChanAdvance, OutputEnd
<1>1. chans'[c][i] = end
  BY DEF TypeOK
<1>2. \A d \in Chain, k \in ChanId : d # c \/ k # i => chans'[d][k] = chans[d][k]
  BY DEF TypeOK
<1>3. chans[c][i].state = "UNINIT" => nextChannelSequence[c] \in 1..MaxChan
  BY DEF ChanId
<1>4. /\ \A d \in Chain : nextChannelSequence[d] <= nextChannelSequence'[d]
      /\ chans[c][i].state = "UNINIT" => i < nextChannelSequence'[c]
      /\ nextChannelSequence' \in [Chain -> 1..(MaxChan + 1)]
  BY <1>3 DEF TypeOK, ChanAssumptions, ChanBoundsAreNat
<1>5. chans' \in [Chain -> [ChanId -> ChanEnd \cup {NoChan}]]
  BY DEF TypeOK
<1>6. chanLog' \in [Chain -> SUBSET (ChanId \X ChanEnd)]
  BY DEF TypeOK
<1>7. packets' \in [Chain -> [ChanId -> [Seqs -> Packet \cup {NoPacket}]]]
  <2>1. packets \in [Chain -> [ChanId -> [Seqs -> Packet \cup {NoPacket}]]]
    BY DEF TypeOK
  <2>2. [s \in Seqs |-> NoPacket] \in [Seqs -> Packet \cup {NoPacket}]
    OBVIOUS
  <2>3. CASE packets' = packets
    BY <2>1, <2>3
  <2>4. CASE packets' = [packets EXCEPT ![c][i] = [s \in Seqs |-> NoPacket]]
    BY <2>1, <2>2, <2>4
  <2> QED BY <2>3, <2>4
<1>8. ConnTypeOK'
  BY DEF TypeOK, ConnTypeOK, connVars
<1>9. TypeOK'
  BY <1>4, <1>5, <1>6, <1>7, <1>8 DEF TypeOK, seqVars, recvVars, packetLogs
<1> QED BY <1>1, <1>2, <1>4, <1>9

\* Nothing was delivered over the end it replaces, or only the state changes.
LEMMA ChanAdvancePreserves ==
    ASSUME ChanAssumptions, ChanIInv, NEW c, NEW i, NEW end, ChanAdvance(c, i, end)
    PROVE  ChanIInv'
<1> USE ChanRankFacts DEF ChanIInv
<1>1. c \in Chain /\ i \in ChanId /\ end \in ChanEnd /\ end.state \in ChanState
  BY DEF ChanAdvance, ChanEnd
<1>2. /\ chans'[c][i] = end
      /\ \A d \in Chain, k \in ChanId : d # c \/ k # i => chans'[d][k] = chans[d][k]
      /\ \A d \in Chain : nextChannelSequence[d] <= nextChannelSequence'[d]
      /\ chans[c][i].state = "UNINIT" => i < nextChannelSequence'[c]
      /\ TypeOK'
  BY ChanAdvanceFacts
<1>3. UNCHANGED <<seqVars, recvVars, packetLogs>>
  BY DEF ChanAdvance
<1>4. \/ chans[c][i].state \in {"UNINIT", "INIT", "TRYOPEN"}
      \/ chans[c][i].state = "OPEN" /\ end = Closed(chans[c][i])
  <2>1. CASE chans[c][i].state = "UNINIT"
    BY <2>1
  <2>2. CASE chans[c][i].state # "UNINIT"
    <3>1. chans[c][i].state \in ChanState
      BY <1>1, <2>2, IssuedIsChanEnd
    <3>2. chans[c][i].state # "CLOSED"
      BY <1>1 DEF ChanAdvance, ChanState
    <3> QED BY <3>1, <3>2 DEF ChanState, ChanAdvance
  <2> QED BY <2>1, <2>2
<1>5. \/ delivered[c][i] = <<>> /\ nextSequenceRecv[c][i] = 1
      \/ /\ end.order = chans[c][i].order /\ end.cpPort = chans[c][i].cpPort
         /\ end.cpChan = chans[c][i].cpChan /\ end.state = "CLOSED"
  <2>1. CASE chans[c][i].state \in {"UNINIT", "INIT", "TRYOPEN"}
    BY <1>1, <2>1 DEF NothingReceivedEarly
  <2>2. CASE chans[c][i].state = "OPEN" /\ end = Closed(chans[c][i])
    <3>1. chans[c][i] \in ChanEnd
      BY <1>1, <2>2, IssuedIsChanEnd
    <3> QED BY <2>2, <3>1, ClosedFields
  <2> QED BY <1>4, <2>1, <2>2
<1>6. Unissued'
  <2> SUFFICES ASSUME NEW d \in Chain, NEW k \in ChanId, k >= nextChannelSequence'[d]
               PROVE  chans'[d][k] = NoChan
    BY DEF Unissued
  <2>1. k >= nextChannelSequence[d]
    BY <1>2 DEF TypeOK, ChanId
  <2>2. chans[d][k] = NoChan
    BY <2>1 DEF Unissued
  <2>3. d # c \/ k # i
    <3>1. SUFFICES ASSUME d = c, k = i PROVE FALSE
      OBVIOUS
    <3>2. chans[c][i].state = "UNINIT"
      BY <3>1, <2>2, ChannelFields DEF NoChan
    <3> QED BY <3>1, <3>2, <1>2 DEF TypeOK, ChanId
  <2> QED BY <1>2, <2>2, <2>3
<1>7. NothingReceivedEarly'
  BY <1>1, <1>2, <1>3, <1>5 DEF NothingReceivedEarly, seqVars, recvVars
<1>8. InOrder'
  BY <1>1, <1>2, <1>3, <1>5 DEF InOrder, seqVars, recvVars
<1>9. ReceiptsCover'
  BY <1>1, <1>2, <1>3, <1>5 DEF ReceiptsCover, recvVars
<1>10. DeliveredWasSent'
  BY <1>1, <1>2, <1>3, <1>5 DEF DeliveredWasSent, recvVars, packetLogs
<1>11. SentOnce'
  BY <1>3 DEF SentOnce, seqVars, packetLogs
<1> QED BY <1>2, <1>6, <1>7, <1>8, <1>9, <1>10, <1>11

\* It is a step forward.
LEMMA ChanAdvanceIsForward ==
    ASSUME ChanAssumptions, TypeOK, NEW c, NEW i, NEW end, ChanAdvance(c, i, end)
    PROVE  ChanForwardStep
<1>1. /\ chans'[c][i] = end
      /\ \A d \in Chain, k \in ChanId : d # c \/ k # i => chans'[d][k] = chans[d][k]
  BY ChanAdvanceFacts
<1> QED BY <1>1 DEF ChanForwardStep, ChanAdvance, Closed

(***************************************************************************)
(* Each of the six handlers is a ChanAdvance.                              *)
(***************************************************************************)

\* The next identifier has not been issued.
LEMMA NextChanIsEmpty ==
    ASSUME ChanIInv, NEW c \in Chain, nextChannelSequence[c] \in ChanId
    PROVE  chans[c][nextChannelSequence[c]].state = "UNINIT"
<1>1. nextChannelSequence[c] >= nextChannelSequence[c]
  BY DEF ChanId
<1>2. chans[c][nextChannelSequence[c]] = NoChan
  BY <1>1 DEF ChanIInv, Unissued
<1> QED BY <1>2, ChannelFields DEF NoChan

\* chanOpenInit issues a new identifier.
LEMMA ChanInitAdvances ==
    ASSUME ChanIInv, NEW c \in Chain, NEW port \in Ports, NEW cpPort \in Ports,
           NEW order \in Orders, NEW cpChan \in ChanId \cup {NoId}, NEW hop \in ConnId,
           NEW version \in ChanVersions,
           ChanOpenInit(c, port, order, cpPort, cpChan, hop, version)
    PROVE  /\ chans[c][nextChannelSequence[c]].state = "UNINIT"
           /\ ChanAdvance(c, nextChannelSequence[c],
                          Channel("INIT", port, order, cpPort, cpChan, hop, version))
<1> DEFINE i == nextChannelSequence[c]
           end == Channel("INIT", port, order, cpPort, cpChan, hop, version)
<1>1. i \in ChanId /\ chans[c][i].state = "UNINIT"
  BY NextChanIsEmpty DEF ChanOpenInit
<1>2. end \in ChanEnd /\ end.state = "INIT"
  BY ChannelFields DEF ChanState
<1>3. /\ OutputEnd(c, i, end)
      /\ nextChannelSequence' = [nextChannelSequence EXCEPT ![c] = @ + 1]
      /\ UNCHANGED <<connVars, seqVars, packets, recvVars, packetLogs>>
  BY DEF ChanOpenInit, GenerateChannelIdentifier
<1> HIDE DEF i, end
<1>4. ChanAdvance(c, i, end)
  BY <1>1, <1>2, <1>3, ChanRankFacts DEF ChanAdvance, i
<1> QED BY <1>1, <1>4 DEF i, end

\* chanOpenTry issues a new identifier, or overwrites an INIT end of the same
\* ordering, connection and counterparty port.
LEMMA ChanTryAdvances ==
    ASSUME ChanIInv, NEW c \in Chain, NEW prev \in ChanId \cup {NoId},
           NEW port \in Ports, NEW cpPort \in Ports, NEW order \in Orders,
           NEW cpChan \in ChanId, NEW hop \in ConnId, NEW version \in ChanVersions,
           NEW cpVersion \in ChanVersions,
           ChanOpenTry(c, prev, port, order, cpPort, cpChan, hop, version, cpVersion)
    PROVE  \E i \in ChanId :
              /\ \/ chans[c][i].state = "UNINIT" /\ UNCHANGED packets
                 \/ chans[c][i].state = "INIT"
              /\ ChanAdvance(c, i, Channel("TRYOPEN", port, order, cpPort, cpChan, hop,
                                           version))
<1> DEFINE new == Channel("TRYOPEN", port, order, cpPort, cpChan, hop, version)
<1>1. /\ new \in ChanEnd /\ new.state = "TRYOPEN" /\ new.order = order
      /\ new.hop = hop /\ new.cpPort = cpPort
  BY ChannelFields DEF ChanState
<1>2. UNCHANGED <<connVars, seqVars, recvVars, packetLogs>>
  BY DEF ChanOpenTry
<1>3. CASE /\ nextChannelSequence[c] \in ChanId
           /\ OutputEnd(c, nextChannelSequence[c], new)
           /\ GenerateChannelIdentifier(c)
           /\ UNCHANGED packets
  <2> DEFINE i == nextChannelSequence[c]
  <2>1. i \in ChanId /\ chans[c][i].state = "UNINIT"
    BY <1>3, NextChanIsEmpty
  <2>2. nextChannelSequence' = [nextChannelSequence EXCEPT ![c] = @ + 1]
    BY <1>3 DEF GenerateChannelIdentifier
  <2>3. OutputEnd(c, i, new) /\ UNCHANGED packets
    BY <1>3
  <2> HIDE DEF i, new
  <2>4. ChanAdvance(c, i, new)
    BY <1>1, <1>2, <2>1, <2>2, <2>3, ChanRankFacts DEF ChanAdvance, i
  <2> QED BY <2>1, <2>3, <2>4 DEF new
<1>4. CASE /\ prev # NoId
           /\ PreviousMatches(c, prev, order, cpPort, hop, version)
           /\ OutputEnd(c, prev, new)
           /\ packets' = [packets EXCEPT ![c][prev] = [s \in Seqs |-> NoPacket]]
           /\ UNCHANGED nextChannelSequence
  <2>1. /\ prev \in ChanId /\ chans[c][prev].state = "INIT"
        /\ chans[c][prev].order = order /\ chans[c][prev].hop = hop
        /\ chans[c][prev].cpPort = cpPort
    BY <1>4, ChannelFields DEF PreviousMatches
  <2>2. /\ OutputEnd(c, prev, new)
        /\ packets' = [packets EXCEPT ![c][prev] = [s \in Seqs |-> NoPacket]]
        /\ nextChannelSequence' = nextChannelSequence
    BY <1>4
  <2> HIDE DEF new
  <2>3. ChanAdvance(c, prev, new)
    BY <1>1, <1>2, <2>1, <2>2, ChanRankFacts DEF ChanAdvance
  <2> QED BY <2>1, <2>3 DEF new
<1> QED BY <1>3, <1>4 DEF ChanOpenTry

\* chanOpenAck and chanOpenConfirm open an INIT or TRYOPEN end and leave its
\* ordering, connection and counterparty port as they are.
LEMMA OpeningAdvances ==
    ASSUME ChanIInv, NEW c \in Chain, NEW i \in ChanId, NEW end \in ChanEnd,
           chans[c][i].state \in {"INIT", "TRYOPEN"}, end.state = "OPEN",
           end.order = chans[c][i].order, end.hop = chans[c][i].hop,
           end.cpPort = chans[c][i].cpPort,
           OutputEnd(c, i, end),
           UNCHANGED <<connVars, nextChannelSequence, seqVars, packets, recvVars,
                       packetLogs>>
    PROVE  ChanAdvance(c, i, end)
BY ChanRankFacts DEF ChanAdvance

\* chanOpenAck is a ChanAdvance.
LEMMA ChanAckAdvances ==
    ASSUME ChanIInv, NEW c \in Chain, NEW i \in ChanId, NEW cpChan \in ChanId,
           NEW cpVersion \in ChanVersions, ChanOpenAck(c, i, cpChan, cpVersion)
    PROVE  ChanAdvance(c, i, Channel("OPEN", chans[c][i].port, chans[c][i].order,
                                    chans[c][i].cpPort, cpChan, chans[c][i].hop,
                                    cpVersion))
<1> DEFINE old == chans[c][i]
           end == Channel("OPEN", old.port, old.order, old.cpPort, cpChan,
                          old.hop, cpVersion)
<1>1. old \in ChanEnd /\ old.state \in {"INIT", "TRYOPEN"}
  BY IssuedIsChanEnd DEF ChanIInv, ChanOpenAck
<1>2. /\ end \in ChanEnd /\ end.state = "OPEN" /\ end.order = old.order
      /\ end.hop = old.hop /\ end.cpPort = old.cpPort
  BY <1>1, ChannelFields DEF ChanEnd, ChanState
<1>3. /\ OutputEnd(c, i, end)
      /\ UNCHANGED <<connVars, nextChannelSequence, seqVars, packets, recvVars,
                     packetLogs>>
  BY DEF ChanOpenAck
<1> HIDE DEF end
<1>4. ChanAdvance(c, i, end)
  BY <1>1, <1>2, <1>3, OpeningAdvances
<1> QED BY <1>4 DEF end

\* chanOpenConfirm is a ChanAdvance.
LEMMA ChanConfirmAdvances ==
    ASSUME ChanIInv, NEW c \in Chain, NEW i \in ChanId, ChanOpenConfirm(c, i)
    PROVE  ChanAdvance(c, i, [chans[c][i] EXCEPT !.state = "OPEN"])
<1> DEFINE old == chans[c][i]
           end == [old EXCEPT !.state = "OPEN"]
<1>1. old \in ChanEnd /\ old.state = "TRYOPEN"
  BY IssuedIsChanEnd DEF ChanIInv, ChanOpenConfirm
<1>2. /\ end \in ChanEnd /\ end.state = "OPEN" /\ end.order = old.order
      /\ end.hop = old.hop /\ end.cpPort = old.cpPort
  BY <1>1 DEF ChanEnd, ChanState
<1>3. /\ OutputEnd(c, i, end)
      /\ UNCHANGED <<connVars, nextChannelSequence, seqVars, packets, recvVars,
                     packetLogs>>
  BY DEF ChanOpenConfirm
<1> HIDE DEF end
<1>4. ChanAdvance(c, i, end)
  BY <1>1, <1>2, <1>3, OpeningAdvances
<1> QED BY <1>4 DEF end

\* chanCloseInit and chanCloseConfirm change the state only.
LEMMA ClosingAdvances ==
    ASSUME ChanIInv, NEW c \in Chain, NEW i \in ChanId, Closable(c, i), Close(c, i)
    PROVE  ChanAdvance(c, i, Closed(chans[c][i]))
<1>1. /\ chans[c][i] \in ChanEnd
      /\ chans[c][i].state \in {"INIT", "TRYOPEN", "OPEN"}
  BY IssuedIsChanEnd DEF ChanIInv, Closable, ChanState
<1>2. /\ OutputEnd(c, i, Closed(chans[c][i]))
      /\ UNCHANGED <<connVars, nextChannelSequence, seqVars, packets, recvVars,
                     packetLogs>>
  BY DEF Close, Closed
<1>3. /\ Closed(chans[c][i]) \in ChanEnd
      /\ ChanRank(chans[c][i].state) < ChanRank(Closed(chans[c][i]).state)
      /\ Closed(chans[c][i]).order = chans[c][i].order
      /\ Closed(chans[c][i]).hop = chans[c][i].hop
      /\ Closed(chans[c][i]).cpPort = chans[c][i].cpPort
  BY <1>1, ClosedFields, ChanRankFacts
<1> QED BY <1>1, <1>2, <1>3 DEF ChanAdvance

\* Every handshake or closing handler preserves the invariant.
LEMMA HandshakeStep ==
    ASSUME ChanAssumptions, ChanIInv, NEW c \in Chain, HandshakeNext(c)
    PROVE  ChanIInv' /\ ChanForwardStep /\ UNCHANGED connVars
<1>1. ASSUME NEW i, NEW end, ChanAdvance(c, i, end)
      PROVE  ChanIInv' /\ ChanForwardStep /\ UNCHANGED connVars
  BY <1>1, ChanAdvancePreserves, ChanAdvanceIsForward DEF ChanIInv, ChanAdvance
<1>2. ASSUME NEW port \in Ports, NEW cpPort \in Ports, NEW order \in Orders,
             NEW cpChan \in ChanId \cup {NoId}, NEW hop \in ConnId,
             NEW version \in ChanVersions,
             ChanOpenInit(c, port, order, cpPort, cpChan, hop, version)
      PROVE  \E i, end : ChanAdvance(c, i, end)
  BY <1>2, ChanInitAdvances
<1>3. ASSUME NEW prev \in ChanId \cup {NoId}, NEW port \in Ports, NEW cpPort \in Ports,
             NEW order \in Orders, NEW cpChan \in ChanId, NEW hop \in ConnId,
             NEW version \in ChanVersions, NEW cpVersion \in ChanVersions,
             ChanOpenTry(c, prev, port, order, cpPort, cpChan, hop, version, cpVersion)
      PROVE  \E i, end : ChanAdvance(c, i, end)
  BY <1>3, ChanTryAdvances
<1>4. ASSUME NEW i \in ChanId, NEW cpChan \in ChanId, NEW cpVersion \in ChanVersions,
             ChanOpenAck(c, i, cpChan, cpVersion)
      PROVE  \E end : ChanAdvance(c, i, end)
  BY <1>4, ChanAckAdvances
<1>5. ASSUME NEW i \in ChanId, ChanOpenConfirm(c, i)
      PROVE  \E end : ChanAdvance(c, i, end)
  BY <1>5, ChanConfirmAdvances
<1>6. ASSUME NEW i \in ChanId, ChanCloseInit(c, i) \/ ChanCloseConfirm(c, i)
      PROVE  ChanAdvance(c, i, Closed(chans[c][i]))
  BY <1>6, ClosingAdvances DEF ChanCloseInit, ChanCloseConfirm
<1>7. \E i, end : ChanAdvance(c, i, end)
  BY <1>2, <1>3, <1>4, <1>5, <1>6 DEF HandshakeNext
<1> QED BY <1>1, <1>7

(***************************************************************************)
(* Packets.                                                                *)
(***************************************************************************)

\* Append leaves the elements where they are and adds one behind them.
LEMMA AppendFacts ==
    ASSUME NEW S, NEW q \in Seq(S), NEW e \in S
    PROVE  /\ Append(q, e) \in Seq(S)
           /\ Len(q) \in Nat /\ Len(Append(q, e)) = Len(q) + 1
           /\ \A k \in 1..Len(q) : Append(q, e)[k] = q[k]
           /\ Append(q, e)[Len(q) + 1] = e
OBVIOUS

\* sendPacket uses a sequence number that no evidence has yet.
LEMMA SendStep ==
    ASSUME ChanAssumptions, ChanIInv, NEW c \in Chain, NEW i \in ChanId,
           NEW data \in Data, SendPacket(c, i, data)
    PROVE  ChanIInv' /\ UNCHANGED <<connVars, chans>>
<1> DEFINE seq == nextSequenceSend[c][i]
           end == chans[c][i]
           sent == [port |-> end.port, chan |-> i, seq |-> seq, data |-> data]
<1>1. /\ UNCHANGED <<connVars, nextChannelSequence, chans, nextSequenceRecv,
                     nextSequenceAck, recvVars, chanLog, ackLog>>
      /\ seq \in Seqs
      /\ nextSequenceSend' = [nextSequenceSend EXCEPT ![c][i] = @ + 1]
      /\ packets' = [packets EXCEPT ![c][i][seq] = [dst |-> end.cpChan, data |-> data]]
      /\ sentLog' = [sentLog EXCEPT ![c] = @ \cup {sent}]
  BY DEF SendPacket
<1>2. TypeOK /\ end \in ChanEnd
  BY IssuedIsChanEnd DEF ChanIInv, SendPacket, Sendable
<1>3. TypeOK'
  <2>1. ConnTypeOK'
    BY <1>1, <1>2 DEF TypeOK, ConnTypeOK, connVars
  <2>2. nextSequenceSend' \in [Chain -> [ChanId -> 1..(MaxSeq + 1)]]
    BY <1>1, <1>2 DEF TypeOK, Seqs, ChanAssumptions, ChanBoundsAreNat
  <2>3. packets' \in [Chain -> [ChanId -> [Seqs -> Packet \cup {NoPacket}]]]
    <3>1. [dst |-> end.cpChan, data |-> data] \in Packet
      BY <1>2 DEF ChanEnd, Packet
    <3> QED BY <1>1, <1>2, <3>1 DEF TypeOK
  <2>4. sentLog' \in [Chain -> SUBSET Commitment]
    <3>1. sent \in Commitment
      BY <1>1, <1>2 DEF ChanEnd, Commitment
    <3> QED BY <1>1, <1>2, <3>1 DEF TypeOK
  <2> QED BY <1>1, <1>2, <2>1, <2>2, <2>3, <2>4 DEF TypeOK, recvVars
<1>4. Unissued' /\ NothingReceivedEarly' /\ InOrder' /\ ReceiptsCover'
  BY <1>1 DEF ChanIInv, Unissued, NothingReceivedEarly, InOrder, ReceiptsCover, recvVars
<1>5. DeliveredWasSent'
  <2>1. \A d \in Chain : sentLog[d] \subseteq sentLog'[d]
    BY <1>1, <1>2 DEF TypeOK
  <2>2. \A d \in Chain : Other(d) \in Chain
    BY OtherHost DEF ChanAssumptions, ConnAssumptions
  <2> QED BY <1>1, <2>1, <2>2 DEF ChanIInv, DeliveredWasSent, recvVars
<1>6. SentOnce'
  <2> SUFFICES ASSUME NEW d \in Chain, NEW p \in sentLog'[d]
               PROVE  /\ p.seq < nextSequenceSend'[d][p.chan]
                      /\ \A q \in sentLog'[d] :
                            q.chan = p.chan /\ q.seq = p.seq => q.data = p.data
    BY DEF SentOnce
  <2>1. sent.chan = i /\ sent.seq = seq /\ sent.data = data
    OBVIOUS
  <2>2. /\ nextSequenceSend'[c][i] = seq + 1 /\ seq \in Nat
        /\ \A e \in Chain, k \in ChanId : e # c \/ k # i =>
              nextSequenceSend'[e][k] = nextSequenceSend[e][k]
    BY <1>1, <1>2 DEF TypeOK, Seqs
  <2>3. /\ \A r \in sentLog[d] : r.chan \in ChanId /\ r.seq \in Nat
        /\ \A r \in sentLog[d] : r.seq < nextSequenceSend[d][r.chan]
        /\ \A r, q \in sentLog[d] : q.chan = r.chan /\ q.seq = r.seq => q.data = r.data
    BY <1>2 DEF ChanIInv, TypeOK, SentOnce, Commitment, Seqs
  <2>4. CASE d # c
    <3>1. sentLog'[d] = sentLog[d]
      BY <1>1, <1>2, <2>4 DEF TypeOK
    <3> QED BY <2>2, <2>3, <2>4, <3>1
  <2>5. CASE d = c
    <3>1. sentLog'[c] = sentLog[c] \cup {sent}
      BY <1>1, <1>2 DEF TypeOK
    <3>2. \A r \in sentLog[c] : r.chan = i => r.seq < seq
      BY <2>3, <2>5
    <3> HIDE DEF seq, sent
    <3>3. p.seq < nextSequenceSend'[c][p.chan]
      BY <2>1, <2>2, <2>3, <2>5, <3>1, <3>2, SMT DEF seq
    <3>4. \A q \in sentLog'[c] : q.chan = p.chan /\ q.seq = p.seq => q.data = p.data
      BY <2>1, <2>2, <2>3, <2>5, <3>1, <3>2
    <3> QED BY <2>5, <3>3, <3>4
  <2> QED BY <2>4, <2>5
<1>7. UNCHANGED <<connVars, chans>>
  BY <1>1
<1> QED BY <1>3, <1>4, <1>5, <1>6, <1>7 DEF ChanIInv

\* recvPacket delivers a packet the counterparty committed to, under a sequence
\* number without receipt or next in line.
LEMMA RecvStep ==
    ASSUME ChanAssumptions, ChanIInv, NEW c \in Chain, NEW i \in ChanId,
           NEW seq \in Seqs, NEW data \in Data, NEW ack \in Acks,
           RecvPacket(c, i, seq, data, ack)
    PROVE  ChanIInv' /\ UNCHANGED <<connVars, chans>>
<1> DEFINE end == chans[c][i]
           new == <<seq, data>>
<1>1. /\ UNCHANGED <<connVars, nextChannelSequence, chans, nextSequenceSend,
                     nextSequenceAck, packets, chanLog, sentLog>>
      /\ delivered' = [delivered EXCEPT ![c][i] = Append(@, new)]
      /\ acknowledgements' = [acknowledgements EXCEPT ![c][i][seq] = [ack |-> ack]]
      /\ ackLog' = [ackLog EXCEPT ![c] = @ \cup
                      {[port |-> end.port, chan |-> i, seq |-> seq, ack |-> ack]}]
  BY DEF RecvPacket
<1>2. \/ /\ end.order = "UNORDERED" /\ seq \notin receipts[c][i]
         /\ receipts' = [receipts EXCEPT ![c][i] = @ \cup {seq}]
         /\ UNCHANGED nextSequenceRecv
      \/ /\ end.order = "ORDERED" /\ seq = nextSequenceRecv[c][i]
         /\ nextSequenceRecv' = [nextSequenceRecv EXCEPT ![c][i] = @ + 1]
         /\ UNCHANGED receipts
  BY DEF RecvPacket, NotYetReceived, IsNextToReceive
<1>3. /\ end.state = "OPEN"
      /\ [port |-> end.cpPort, chan |-> end.cpChan, seq |-> seq, data |-> data]
            \in sentLog[Other(c)]
  BY DEF RecvPacket, VerifyPacketCommitment
<1>4. TypeOK /\ end \in ChanEnd
  BY <1>3, IssuedIsChanEnd DEF ChanIInv
<1>5. /\ delivered'[c][i] = Append(delivered[c][i], new)
      /\ \A d \in Chain, k \in ChanId : d # c \/ k # i => delivered'[d][k] = delivered[d][k]
      /\ delivered[c][i] \in Seq(Seqs \X Data) /\ new \in Seqs \X Data
      /\ new[1] = seq /\ new[2] = data
  BY <1>1, <1>4 DEF TypeOK
<1>6. /\ \A d \in Chain, k \in ChanId : d # c \/ k # i =>
            receipts'[d][k] = receipts[d][k] /\ nextSequenceRecv'[d][k] = nextSequenceRecv[d][k]
  <2>1. /\ receipts \in [Chain -> [ChanId -> SUBSET Seqs]]
        /\ nextSequenceRecv \in [Chain -> [ChanId -> 1..(MaxSeq + 1)]]
    BY <1>4 DEF TypeOK
  <2>2. CASE /\ receipts' = [receipts EXCEPT ![c][i] = @ \cup {seq}]
             /\ UNCHANGED nextSequenceRecv
    BY <2>1, <2>2
  <2>3. CASE /\ nextSequenceRecv' = [nextSequenceRecv EXCEPT ![c][i] = @ + 1]
             /\ UNCHANGED receipts
    BY <2>1, <2>3
  <2> QED BY <1>2, <2>2, <2>3
<1> HIDE DEF new
<1>7. /\ delivered'[c][i] \in Seq(Seqs \X Data)
      /\ Len(delivered[c][i]) \in Nat
      /\ Len(delivered'[c][i]) = Len(delivered[c][i]) + 1
      /\ \A k \in 1..Len(delivered[c][i]) : delivered'[c][i][k] = delivered[c][i][k]
      /\ delivered'[c][i][Len(delivered'[c][i])] = new
  BY <1>5, AppendFacts
<1>8. \A k \in 1..Len(delivered'[c][i]) :
         \/ k \in 1..Len(delivered[c][i]) /\ delivered'[c][i][k] = delivered[c][i][k]
         \/ k = Len(delivered[c][i]) + 1 /\ delivered'[c][i][k] = new
  BY <1>7
<1>9. TypeOK'
  <2>1. ConnTypeOK'
    BY <1>1, <1>4 DEF TypeOK, ConnTypeOK, connVars
  <2>2. delivered' \in [Chain -> [ChanId -> Seq(Seqs \X Data)]]
    BY <1>1, <1>4, <1>5, <1>7 DEF TypeOK
  <2>3. receipts' \in [Chain -> [ChanId -> SUBSET Seqs]]
    <3>1. receipts \in [Chain -> [ChanId -> SUBSET Seqs]]
      BY <1>4 DEF TypeOK
    <3>2. CASE UNCHANGED receipts
      BY <3>1, <3>2
    <3>3. CASE receipts' = [receipts EXCEPT ![c][i] = @ \cup {seq}]
      BY <3>1, <3>3
    <3> QED BY <1>2, <3>2, <3>3
  <2>4. nextSequenceRecv' \in [Chain -> [ChanId -> 1..(MaxSeq + 1)]]
    <3>1. nextSequenceRecv \in [Chain -> [ChanId -> 1..(MaxSeq + 1)]]
      BY <1>4 DEF TypeOK
    <3>2. CASE UNCHANGED nextSequenceRecv
      BY <3>1, <3>2
    <3>3. CASE /\ seq = nextSequenceRecv[c][i]
               /\ nextSequenceRecv' = [nextSequenceRecv EXCEPT ![c][i] = @ + 1]
      <4>1. seq + 1 \in 1..(MaxSeq + 1)
        BY DEF Seqs, ChanAssumptions, ChanBoundsAreNat
      <4>2. nextSequenceRecv' = [nextSequenceRecv EXCEPT ![c][i] = seq + 1]
        BY <3>3
      <4> QED BY <3>1, <4>1, <4>2
    <3> QED BY <1>2, <3>2, <3>3
  <2>5. acknowledgements' \in [Chain -> [ChanId -> [Seqs -> Written \cup {NoAck}]]]
    <3>1. [ack |-> ack] \in Written
      BY DEF Written
    <3> QED BY <1>1, <1>4, <3>1 DEF TypeOK
  <2>6. ackLog' \in [Chain -> SUBSET AckRecord]
    <3>1. [port |-> end.port, chan |-> i, seq |-> seq, ack |-> ack] \in AckRecord
      BY <1>4 DEF ChanEnd, AckRecord
    <3> QED BY <1>1, <1>4, <3>1 DEF TypeOK
  <2> QED BY <1>1, <1>4, <2>1, <2>2, <2>3, <2>4, <2>5, <2>6 DEF TypeOK
<1>10. Unissued' /\ SentOnce'
  BY <1>1 DEF ChanIInv, Unissued, SentOnce
<1>11. NothingReceivedEarly'
  BY <1>1, <1>3, <1>5, <1>6 DEF ChanIInv, NothingReceivedEarly
<1>12. InOrder'
  <2> SUFFICES ASSUME NEW d \in Chain, NEW j \in ChanId, chans[d][j].order = "ORDERED"
               PROVE  /\ nextSequenceRecv'[d][j] = Len(delivered'[d][j]) + 1
                      /\ \A k \in 1..Len(delivered'[d][j]) : delivered'[d][j][k][1] = k
    BY <1>1 DEF InOrder
  <2>1. /\ nextSequenceRecv[d][j] = Len(delivered[d][j]) + 1
        /\ \A k \in 1..Len(delivered[d][j]) : delivered[d][j][k][1] = k
    BY DEF ChanIInv, InOrder
  <2>2. CASE d = c /\ j = i
    <3>1. /\ seq = nextSequenceRecv[c][i]
          /\ nextSequenceRecv'[c][i] = nextSequenceRecv[c][i] + 1
      BY <1>2, <1>4, <2>2 DEF TypeOK
    <3> QED BY <1>5, <1>7, <1>8, <2>1, <2>2, <3>1
  <2> QED BY <1>5, <1>6, <2>1, <2>2
<1>13. ReceiptsCover'
  <2> SUFFICES ASSUME NEW d \in Chain, NEW j \in ChanId, chans[d][j].order = "UNORDERED",
                      NEW k \in 1..Len(delivered'[d][j])
               PROVE  /\ delivered'[d][j][k][1] \in receipts'[d][j]
                      /\ \A l \in 1..Len(delivered'[d][j]) :
                            delivered'[d][j][l][1] = delivered'[d][j][k][1] => l = k
    BY <1>1 DEF ReceiptsCover
  <2>1. \A m \in 1..Len(delivered[d][j]) :
           /\ delivered[d][j][m][1] \in receipts[d][j]
           /\ \A l \in 1..Len(delivered[d][j]) :
                 delivered[d][j][l][1] = delivered[d][j][m][1] => l = m
    BY DEF ChanIInv, ReceiptsCover
  <2>2. CASE d = c /\ j = i
    <3>1. seq \notin receipts[c][i] /\ receipts'[c][i] = receipts[c][i] \cup {seq}
      BY <1>2, <1>4, <2>2 DEF TypeOK
    <3>2. \A l \in 1..Len(delivered[c][i]) : delivered[c][i][l][1] # seq
      BY <2>1, <2>2, <3>1
    <3>3. delivered'[c][i][k][1] \in receipts'[c][i]
      BY <1>5, <1>8, <2>1, <2>2, <3>1
    <3>4. ASSUME NEW l \in 1..Len(delivered'[c][i]),
                 delivered'[c][i][l][1] = delivered'[c][i][k][1]
          PROVE  l = k
      <4>1. \/ k \in 1..Len(delivered[c][i]) /\ delivered'[c][i][k] = delivered[c][i][k]
            \/ k = Len(delivered[c][i]) + 1 /\ delivered'[c][i][k] = new
        BY <1>8, <2>2
      <4>2. \/ l \in 1..Len(delivered[c][i]) /\ delivered'[c][i][l] = delivered[c][i][l]
            \/ l = Len(delivered[c][i]) + 1 /\ delivered'[c][i][l] = new
        BY <1>8
      <4> QED BY <1>5, <2>1, <2>2, <3>2, <3>4, <4>1, <4>2
    <3> QED BY <2>2, <3>3, <3>4
  <2> QED BY <1>5, <1>6, <2>1, <2>2
<1>14. DeliveredWasSent'
  <2> SUFFICES ASSUME NEW d \in Chain, NEW j \in ChanId, NEW k \in 1..Len(delivered'[d][j])
               PROVE  [port |-> chans[d][j].cpPort, chan |-> chans[d][j].cpChan,
                       seq |-> delivered'[d][j][k][1], data |-> delivered'[d][j][k][2]]
                         \in sentLog[Other(d)]
    BY <1>1 DEF DeliveredWasSent
  <2>1. \A m \in 1..Len(delivered[d][j]) :
           [port |-> chans[d][j].cpPort, chan |-> chans[d][j].cpChan,
            seq |-> delivered[d][j][m][1], data |-> delivered[d][j][m][2]] \in sentLog[Other(d)]
    BY DEF ChanIInv, DeliveredWasSent
  <2>2. CASE d = c /\ j = i
    BY <1>3, <1>5, <1>8, <2>1, <2>2
  <2> QED BY <1>5, <2>1, <2>2
<1>15. UNCHANGED <<connVars, chans>>
  BY <1>1
<1> QED BY <1>9, <1>10, <1>11, <1>12, <1>13, <1>14, <1>15 DEF ChanIInv

\* acknowledgePacket takes a packet off the list of those sent.
LEMMA AckStep ==
    ASSUME ChanAssumptions, ChanIInv, NEW c \in Chain, NEW i \in ChanId,
           NEW seq \in Seqs, NEW ack \in Acks, AcknowledgePacket(c, i, seq, ack)
    PROVE  ChanIInv' /\ UNCHANGED <<connVars, chans>>
<1>1. UNCHANGED <<connVars, nextChannelSequence, chans, nextSequenceSend,
                  nextSequenceRecv, recvVars, chanLog, packetLogs>>
  BY DEF AcknowledgePacket
<1>2. TypeOK
  BY DEF ChanIInv
<1>3. TypeOK'
  <2>1. ConnTypeOK'
    BY <1>1, <1>2 DEF TypeOK, ConnTypeOK, connVars
  <2>2. packets' \in [Chain -> [ChanId -> [Seqs -> Packet \cup {NoPacket}]]]
    BY <1>2 DEF TypeOK, AcknowledgePacket
  <2>3. nextSequenceAck' \in [Chain -> [ChanId -> 1..(MaxSeq + 1)]]
    <3>1. nextSequenceAck \in [Chain -> [ChanId -> 1..(MaxSeq + 1)]]
      BY <1>2 DEF TypeOK
    <3>2. CASE UNCHANGED nextSequenceAck
      BY <3>1, <3>2
    <3>3. CASE /\ seq = nextSequenceAck[c][i]
               /\ nextSequenceAck' = [nextSequenceAck EXCEPT ![c][i] = @ + 1]
      <4>1. seq + 1 \in 1..(MaxSeq + 1)
        BY DEF Seqs, ChanAssumptions, ChanBoundsAreNat
      <4>2. nextSequenceAck' = [nextSequenceAck EXCEPT ![c][i] = seq + 1]
        BY <3>3
      <4> QED BY <3>1, <4>1, <4>2
    <3> QED BY <3>2, <3>3 DEF AcknowledgePacket, IsNextToAck
  <2> QED BY <1>1, <1>2, <2>1, <2>2, <2>3 DEF TypeOK, recvVars, packetLogs
<1>4. /\ Unissued' /\ NothingReceivedEarly' /\ InOrder' /\ ReceiptsCover'
      /\ DeliveredWasSent' /\ SentOnce'
  BY <1>1 DEF ChanIInv, Unissued, NothingReceivedEarly, InOrder, ReceiptsCover,
              DeliveredWasSent, SentOnce, recvVars, packetLogs
<1> QED BY <1>1, <1>3, <1>4 DEF ChanIInv

(***************************************************************************)
(* The theorems about channels and packets.                                *)
(***************************************************************************)

\* A step of the connection layer or a stutter leaves the channels alone.
LEMMA ChanQuietStep ==
    ASSUME ChanIInv, ConnTypeOK', UNCHANGED chanVars
    PROVE  ChanIInv' /\ UNCHANGED chans
<1>1. UNCHANGED <<nextChannelSequence, chans, nextSequenceSend, nextSequenceRecv,
                  nextSequenceAck, packets, receipts, acknowledgements, delivered,
                  chanLog, sentLog, ackLog>>
  BY DEF chanVars, seqVars, recvVars, packetLogs
<1>2. TypeOK'
  BY <1>1 DEF ChanIInv, TypeOK
<1>3. /\ Unissued' /\ NothingReceivedEarly' /\ InOrder' /\ ReceiptsCover'
      /\ DeliveredWasSent' /\ SentOnce'
  BY <1>1 DEF ChanIInv, Unissued, NothingReceivedEarly, InOrder, ReceiptsCover,
              DeliveredWasSent, SentOnce
<1> QED BY <1>1, <1>2, <1>3 DEF ChanIInv

\* Every step of a channel or packet handler leaves the connections alone, and
\* every step keeps the invariant of both layers.
LEMMA ChanStep ==
    ASSUME ChanAssumptions, ConnIInv, ChanIInv, [Next]_vars
    PROVE  /\ ConnIInv' /\ ChanIInv'
           /\ ChanForwardStep
           /\ [ConnNext]_connVars
<1>1. UNCHANGED chans => ChanForwardStep
  BY DEF ChanForwardStep
<1>2. CASE ConnNext /\ UNCHANGED chanVars
  <2>1. ConnIInv'
    BY <1>2, StepPreserves DEF ChanAssumptions
  <2> QED BY <1>1, <1>2, <2>1, ChanQuietStep DEF ConnIInv
<1>3. CASE UNCHANGED vars
  <2>1. UNCHANGED connVars /\ UNCHANGED chanVars
    BY <1>3 DEF vars
  <2>2. ConnIInv'
    BY <2>1, StepPreserves DEF ChanAssumptions
  <2> QED BY <1>1, <2>1, <2>2, ChanQuietStep DEF ConnIInv
<1>4. CASE \E c \in Chain : HandshakeNext(c) \/ PacketNext(c)
  <2>1. ChanIInv' /\ ChanForwardStep /\ UNCHANGED connVars
    <3>1. ASSUME NEW c \in Chain, HandshakeNext(c)
          PROVE  ChanIInv' /\ ChanForwardStep /\ UNCHANGED connVars
      BY <3>1, HandshakeStep
    <3>2. ASSUME NEW c \in Chain, PacketNext(c)
          PROVE  ChanIInv' /\ ChanForwardStep /\ UNCHANGED connVars
      BY <1>1, <3>2, SendStep, RecvStep, AckStep DEF PacketNext
    <3> QED BY <1>4, <3>1, <3>2
  <2>2. ConnIInv'
    BY <2>1, StepPreserves DEF ChanAssumptions
  <2> QED BY <2>1, <2>2
<1> QED BY <1>2, <1>3, <1>4 DEF Next

\* No channel and no packet at the start.
LEMMA ChanInitEstablishes ==
    ASSUME ChanAssumptions, Init
    PROVE  ConnIInv /\ ChanIInv
<1>1. ConnIInv
  BY InitEstablishes DEF ChanAssumptions, Init
<1>2. NoChan.state = "UNINIT" /\ NoChan.order = "NONE"
  BY ChannelFields DEF NoChan
<1>3. TypeOK
  <2>1. 1 \in 1..(MaxChan + 1) /\ 1 \in 1..(MaxSeq + 1)
    BY DEF ChanAssumptions, ChanBoundsAreNat
  <2>2. <<>> \in Seq(Seqs \X Data)
    OBVIOUS
  <2> QED BY <1>1, <2>1, <2>2 DEF Init, PacketInit, TypeOK, ConnIInv
<1>4. Unissued /\ NothingReceivedEarly /\ InOrder /\ ReceiptsCover
  BY <1>2 DEF Init, PacketInit, Unissued, NothingReceivedEarly, InOrder, ReceiptsCover
<1>5. DeliveredWasSent /\ SentOnce
  BY DEF Init, PacketInit, DeliveredWasSent, SentOnce
<1> QED BY <1>1, <1>3, <1>4, <1>5 DEF ChanIInv

\* The inductive invariant of both layers holds in every reachable state.
THEOREM ChanInvariance == Spec => [](ConnIInv /\ ChanIInv)
<1>0. ChanAssumptions
  BY ChannelsAssume
<1>1. Init => ConnIInv /\ ChanIInv
  BY <1>0, ChanInitEstablishes
<1>2. (ConnIInv /\ ChanIInv) /\ [Next]_vars => (ConnIInv /\ ChanIInv)'
  BY <1>0, ChanStep
<1> QED BY <1>1, <1>2, PTL DEF Spec

\* The channel states, receipts, acknowledgements and evidence keep their types.
THEOREM ChanTypeCorrect == Spec => []TypeOK
<1>1. ChanIInv => TypeOK
  BY DEF ChanIInv
<1> QED BY <1>1, ChanInvariance, PTL

\* The handlers of channels and packets never touch a client or a connection:
\* with them running, connections still behave as IbcConnection specifies, so
\* what is proved of ConnSpec holds here.
THEOREM ImplementsConnections == Spec => ConnSpec
<1>0. ChanAssumptions
  BY ChannelsAssume
<1>1. Init => ConnInit
  BY DEF Init
<1>2. (ConnIInv /\ ChanIInv) /\ [Next]_vars => [ConnNext]_connVars
  BY <1>0, ChanStep
<1> QED BY <1>1, <1>2, ChanInvariance, PTL DEF Spec, ConnSpec

\* No channel handler takes a channel back, changes its ordering, connection or
\* counterparty port, or alters an OPEN channel other than by closing it.
THEOREM ChannelsGoForward == Spec => ChannelGoesForward
<1>0. ChanAssumptions
  BY ChannelsAssume
<1>1. (ConnIInv /\ ChanIInv) /\ [Next]_vars => [ChanForwardStep]_vars
  BY <1>0, ChanStep
<1> QED BY <1>1, ChanInvariance, PTL DEF Spec, ChannelGoesForward

\* recvPacket on an ORDERED channel hands over packets without a gap.
THEOREM OrderedInOrder == Spec => []InOrder
<1>1. ChanIInv => InOrder
  BY DEF ChanIInv
<1> QED BY <1>1, ChanInvariance, PTL

\* Receipts and sequence numbers keep packets from being delivered twice.
LEMMA DeliveredOnce ==
    ASSUME ChanAssumptions, ChanIInv
    PROVE  ExactlyOnce
<1> USE DEF ChanIInv
<1> SUFFICES ASSUME NEW c \in Chain, NEW i \in ChanId, NEW k \in 1..Len(delivered[c][i])
             PROVE  LET end == chans[c][i]  seq == delivered[c][i][k][1]
                        data == delivered[c][i][k][2] IN
                    /\ \A l \in 1..Len(delivered[c][i]) : delivered[c][i][l][1] = seq => l = k
                    /\ \A p \in sentLog[Other(c)] :
                          p.chan = end.cpChan /\ p.seq = seq /\ p.port = end.cpPort
                             => p.data = data
                    /\ \E p \in sentLog[Other(c)] :
                          p.chan = end.cpChan /\ p.seq = seq /\ p.port = end.cpPort
                             /\ p.data = data
  BY DEF ExactlyOnce
<1> DEFINE end == chans[c][i]
           seq == delivered[c][i][k][1]
           data == delivered[c][i][k][2]
           sent == [port |-> end.cpPort, chan |-> end.cpChan, seq |-> seq, data |-> data]
<1>1. /\ sent \in sentLog[Other(c)] /\ sent.port = end.cpPort
      /\ sent.chan = end.cpChan /\ sent.seq = seq /\ sent.data = data
  BY DEF DeliveredWasSent
<1>2. \A l \in 1..Len(delivered[c][i]) : delivered[c][i][l][1] = seq => l = k
  <2>1. delivered[c][i] # <<>>
    BY DEF TypeOK
  <2>2. end.state # "UNINIT"
    BY <2>1 DEF NothingReceivedEarly
  <2>3. end.order \in {"ORDERED", "UNORDERED"}
    BY <2>2, IssuedIsChanEnd DEF ChanEnd, ChanAssumptions, OrdersAreKnown
  <2>4. CASE end.order = "ORDERED"
    BY <2>4 DEF InOrder
  <2>5. CASE end.order = "UNORDERED"
    BY <2>5 DEF ReceiptsCover
  <2> QED BY <2>3, <2>4, <2>5
<1> HIDE DEF sent
<1>3. \A p \in sentLog[Other(c)] : p.chan = end.cpChan /\ p.seq = seq => p.data = data
  <2>1. Other(c) \in Chain
    BY OtherHost DEF ChanAssumptions, ConnAssumptions
  <2> QED BY <1>1, <2>1 DEF SentOnce
<1> QED BY <1>1, <1>2, <1>3

\* recvPacket hands over no packet twice, and only what the counterparty
\* committed to under that sequence number.
THEOREM PacketsExactlyOnce == Spec => []ExactlyOnce
<1>1. ChanIInv => ExactlyOnce
  BY DeliveredOnce, ChannelsAssume
<1> QED BY <1>1, ChanInvariance, PTL

(***************************************************************************)
(* Part 3: what two channels that name each other have in common.  An OPEN *)
(* channel agrees with the one it names and, outside crossing handshakes, is *)
(* the one named back; and the packets it still holds are the ones the other *)
(* has not answered.  As for connections the invariant goes over the       *)
(* evidence: PairIInv says which past ends of the two channels there must be, *)
(* HeldIInv which past acknowledgements.                                   *)
(***************************************************************************)

\* Channel i of c has been in INIT.
HasChanInit(c, i) == \E f \in ChanEnd : f.state = "INIT" /\ <<i, f>> \in chanLog[c]

\* The end a ChanOpenAck or ChanOpenConfirm that made end of channel i of c was
\* shown: a TRYOPEN or OPEN end of the channel it names.
ShownOpening(c, i, end) ==
    /\ ConnIsOpen(c, end.hop)
    /\ \E f \in ChanEnd :
          /\ f.state \in {"TRYOPEN", "OPEN"}
          /\ f.port = end.cpPort /\ f.cpPort = end.port /\ f.order = end.order
          /\ f.hop = conns[c][end.hop].cpConn
          /\ f.cpChan = i /\ f.version = end.version
          /\ <<end.cpChan, f>> \in chanLog[Other(c)]

\* A logged end belongs to an issued identifier.  Later ends of it have the same
\* ordering, connection and counterparty port and no earlier state; from TRYOPEN
\* on they have the same port, and from OPEN on the same everything but state.
ChanLogPrecedesState ==
    \A c \in Chain : \A r \in chanLog[c] :
        LET cur == chans[c][r[1]] IN
        /\ ChanRank(r[2].state) <= ChanRank(cur.state)
        /\ r[2].order = cur.order /\ r[2].hop = cur.hop /\ r[2].cpPort = cur.cpPort
        /\ r[2].state # "INIT" => r[2].port = cur.port
        /\ r[2].state = "TRYOPEN" /\ cur.state = "TRYOPEN" => cur = r[2]
        /\ r[2].state = "OPEN" => cur \in {r[2], Closed(r[2])}

\* Every issued channel is in the evidence.
ChanStateIsLogged ==
    \A c \in Chain, i \in ChanId :
        chans[c][i].state # "UNINIT" => <<i, chans[c][i]>> \in chanLog[c]

\* A TRYOPEN end was shown an INIT end of the channel it names.
ChanTryAnswersInit ==
    \A c \in Chain : \A r \in chanLog[c] :
        r[2].state = "TRYOPEN" => HasChanInit(Other(c), r[2].cpChan)

\* An OPEN end was shown an end that answers it.
ChanOpenAnswersTry ==
    \A c \in Chain, i \in ChanId :
        chans[c][i].state = "OPEN" => ShownOpening(c, i, chans[c][i])

\* A channel that names another counterparty, or has another version, than it
\* had in TRYOPEN has also been in INIT.
ChanRepointedHadInit ==
    \A c \in Chain : \A r \in chanLog[c] :
        LET cur == chans[c][r[1]] IN
        r[2].state = "TRYOPEN" /\ (cur.cpChan # r[2].cpChan \/ cur.version # r[2].version)
            => HasChanInit(c, r[1])

\* The inductive invariant of the handshake.
PairIInv ==
    /\ ChanLogPrecedesState
    /\ ChanStateIsLogged
    /\ ChanTryAnswersInit
    /\ ChanOpenAnswersTry
    /\ ChanRepointedHadInit

\* Every acknowledgement in the evidence is of a packet handed to the
\* application, and is still there.
AckedIsDelivered ==
    \A c \in Chain : \A a \in ackLog[c] :
        /\ WasDelivered(c, a.chan, a.seq)
        /\ acknowledgements[c][a.chan][a.seq] # NoAck

\* A packet that was sent and is gone was acknowledged by the channel this one
\* was opened with, unless a second chanOpenTry dropped it.
GoneWasAcked ==
    \A c \in Chain, i \in ChanId, seq \in Seqs :
        seq < nextSequenceSend[c][i] /\ packets[c][i][seq] = NoPacket =>
            \/ ChanReused(c, i)
            \/ /\ chans[c][i].state \in {"OPEN", "CLOSED"}
               /\ \E a \in ackLog[Other(c)] : a.chan = chans[c][i].cpChan /\ a.seq = seq

\* The packets of an ORDERED channel that await an acknowledgement are those
\* from nextSequenceAck up to nextSequenceSend.
OrderedHolds ==
    \A c \in Chain, i \in ChanId : chans[c][i].order # "UNORDERED" /\ ~ChanReused(c, i) =>
        /\ nextSequenceAck[c][i] <= nextSequenceSend[c][i]
        /\ \A seq \in Seqs : packets[c][i][seq] # NoPacket <=>
              nextSequenceAck[c][i] <= seq /\ seq < nextSequenceSend[c][i]

\* The inductive invariant of the packets held.
HeldIInv == AckedIsDelivered /\ GoneWasAcked /\ OrderedHolds

(***************************************************************************)
(* What the six handshake and closing handlers have in common, beyond      *)
(* ChanAdvance: the evidence the new end calls for.                        *)
(***************************************************************************)
PairAdvance(c, i, end) ==
    /\ ChanAdvance(c, i, end)
    /\ chans[c][i].state = "TRYOPEN" => end.port = chans[c][i].port
    /\ packets' # packets => chans[c][i].state = "INIT" /\ end.state = "TRYOPEN"
    /\ end.state = "TRYOPEN" => HasChanInit(Other(c), end.cpChan)
    /\ end.state = "OPEN" => ShownOpening(c, i, end)
    /\ (/\ chans[c][i].state = "TRYOPEN"
        /\ end.cpChan # chans[c][i].cpChan \/ end.version # chans[c][i].version)
       => HasChanInit(c, i)

\* An OPEN connection never changes.
LEMMA OpenConnectionStays ==
    ASSUME ForwardStep, NEW c \in Chain, NEW h, ConnIsOpen(c, h)
    PROVE  conns'[c][h] = conns[c][h]
<1>1. h \in ConnId /\ conns[c][h].state = "OPEN"
  BY DEF ConnIsOpen
<1>2. Rank(conns[c][h].state) = 3 /\ Rank(conns'[c][h].state) <= 3
  BY <1>1 DEF Rank
<1>3. ~(Rank(conns[c][h].state) < Rank(conns'[c][h].state))
  BY <1>2 DEF Rank
<1> QED BY <1>1, <1>3 DEF ForwardStep

\* Evidence of channels and packets is never lost by a ChanAdvance.
LEMMA ChanEvidenceGrows ==
    ASSUME ChanAssumptions, TypeOK, NEW c, NEW i, NEW end, ChanAdvance(c, i, end)
    PROVE  /\ chanLog'[c] = chanLog[c] \cup {<<i, end>>}
           /\ \A d \in Chain : d # c => chanLog'[d] = chanLog[d]
           /\ \A d \in Chain : chanLog[d] \subseteq chanLog'[d]
           /\ \A d \in Chain : \A k : HasChanInit(d, k) => HasChanInit(d, k)'
<1>1. /\ chanLog'[c] = chanLog[c] \cup {<<i, end>>}
      /\ \A d \in Chain : d # c => chanLog'[d] = chanLog[d]
      /\ \A d \in Chain : chanLog[d] \subseteq chanLog'[d]
  BY DEF ChanAdvance, OutputEnd, TypeOK
<1>2. \A d \in Chain : \A k : HasChanInit(d, k) => HasChanInit(d, k)'
  BY <1>1 DEF HasChanInit
<1> QED BY <1>1, <1>2

\* The ranks of all the states of a channel end.
LEMMA ChanEndRank ==
    ASSUME NEW end \in ChanEnd
    PROVE  /\ ChanRank(end.state) \in 1..4
           /\ end.state = "INIT" <=> ChanRank(end.state) = 1
           /\ end.state = "TRYOPEN" <=> ChanRank(end.state) = 2
           /\ end.state = "OPEN" <=> ChanRank(end.state) = 3
           /\ end.state = "CLOSED" <=> ChanRank(end.state) = 4
BY ChanRankFacts DEF ChanEnd, ChanState

\* A channel that is not issued is NoChan.
LEMMA IssuedOrNone ==
    ASSUME TypeOK, NEW c \in Chain, NEW i \in ChanId, chans[c][i].state = "UNINIT"
    PROVE  chans[c][i] = NoChan
<1>1. chans[c][i] \in ChanEnd \cup {NoChan}
  BY DEF TypeOK
<1>2. \A end \in ChanEnd : end.state # "UNINIT"
  BY DEF ChanEnd, ChanState
<1> QED BY <1>1, <1>2

\* A PairAdvance keeps the order of the evidence of each channel.
LEMMA PairKeepsOrder ==
    ASSUME ChanAssumptions, TypeOK, ChanLogPrecedesState, NEW c, NEW i, NEW end,
           PairAdvance(c, i, end)
    PROVE  ChanLogPrecedesState'
<1>1. ChanAdvance(c, i, end) /\ c \in Chain /\ i \in ChanId /\ end \in ChanEnd
  BY DEF PairAdvance, ChanAdvance
<1>2. /\ chans'[c][i] = end
      /\ \A d \in Chain, k \in ChanId : d # c \/ k # i => chans'[d][k] = chans[d][k]
  BY <1>1, ChanAdvanceFacts
<1>3. /\ chanLog'[c] = chanLog[c] \cup {<<i, end>>}
      /\ \A d \in Chain : d # c => chanLog'[d] = chanLog[d]
  BY <1>1, ChanEvidenceGrows
<1> SUFFICES ASSUME NEW d \in Chain, NEW r \in chanLog'[d]
             PROVE  LET cur == chans'[d][r[1]] IN
                    /\ ChanRank(r[2].state) <= ChanRank(cur.state)
                    /\ r[2].order = cur.order /\ r[2].hop = cur.hop
                    /\ r[2].cpPort = cur.cpPort
                    /\ r[2].state # "INIT" => r[2].port = cur.port
                    /\ r[2].state = "TRYOPEN" /\ cur.state = "TRYOPEN" => cur = r[2]
                    /\ r[2].state = "OPEN" => cur \in {r[2], Closed(r[2])}
  BY DEF ChanLogPrecedesState
<1>4. CASE r \notin chanLog[d]
  <2>1. d = c /\ r[1] = i /\ r[2] = end
    BY <1>3, <1>4
  <2>2. ChanRank(end.state) <= ChanRank(end.state)
    BY <1>1, ChanEndRank
  <2> QED BY <1>2, <2>1, <2>2
<1>5. CASE r \in chanLog[d]
  <2> DEFINE cur == chans[d][r[1]]
  <2>1. r[1] \in ChanId /\ r[2] \in ChanEnd
    BY <1>5 DEF TypeOK
  <2>2. /\ ChanRank(r[2].state) <= ChanRank(cur.state)
        /\ r[2].order = cur.order /\ r[2].hop = cur.hop
        /\ r[2].cpPort = cur.cpPort
        /\ r[2].state # "INIT" => r[2].port = cur.port
        /\ r[2].state = "TRYOPEN" /\ cur.state = "TRYOPEN" => cur = r[2]
        /\ r[2].state = "OPEN" => cur \in {r[2], Closed(r[2])}
    BY <1>5 DEF ChanLogPrecedesState
  <2>3. CASE d # c \/ r[1] # i
    BY <1>2, <2>1, <2>2, <2>3
  <2>4. CASE d = c /\ r[1] = i
    <3>1. cur.state # "UNINIT" /\ cur \in ChanEnd
      <4>1. cur.state # "UNINIT"
        BY <2>1, <2>2, ChanRankFacts, ChanEndRank
      <4> QED BY <2>1, <4>1, IssuedIsChanEnd
    <3>2. /\ end.order = cur.order /\ end.hop = cur.hop /\ end.cpPort = cur.cpPort
          /\ ChanRank(cur.state) < ChanRank(end.state)
          /\ cur.state = "OPEN" => end = Closed(cur)
          /\ cur.state = "TRYOPEN" => end.port = cur.port
      BY <2>4, <3>1 DEF PairAdvance, ChanAdvance
    <3>3. ChanRank(r[2].state) < ChanRank(end.state)
      BY <1>1, <2>1, <2>2, <3>1, <3>2, ChanEndRank
    <3>4. cur.state \in {"INIT", "TRYOPEN", "OPEN"}
      BY <1>1, <3>1, <3>2, ChanEndRank DEF ChanEnd, ChanState
    <3>5. r[2].state # "INIT" => r[2].port = end.port
      <4>1. CASE cur.state = "INIT"
        BY <2>1, <2>2, <3>1, <4>1, ChanEndRank
      <4>2. CASE cur.state = "TRYOPEN"
        BY <2>2, <3>2, <4>2
      <4>3. CASE cur.state = "OPEN"
        BY <2>2, <3>1, <3>2, <4>3, ClosedFields
      <4> QED BY <3>4, <4>1, <4>2, <4>3
    <3>6. r[2].state = "TRYOPEN" => end.state # "TRYOPEN"
      BY <1>1, <2>1, <3>3, ChanEndRank
    <3>7. r[2].state = "OPEN" => end = Closed(r[2])
      <4>1. SUFFICES ASSUME r[2].state = "OPEN" PROVE end = Closed(r[2])
        OBVIOUS
      <4>2. cur = r[2] \/ cur = Closed(r[2])
        BY <2>2, <4>1
      <4>3. cur.state # "CLOSED"
        BY <3>4
      <4>4. cur = r[2]
        BY <2>1, <4>2, <4>3, ClosedFields
      <4> QED BY <3>2, <4>1, <4>4
    <3>8. chans'[d][r[1]] = end
      BY <1>2, <2>4
    <3>9. ChanRank(r[2].state) <= ChanRank(end.state)
      BY <1>1, <2>1, <3>3, ChanEndRank
    <3> QED BY <2>2, <3>2, <3>5, <3>6, <3>7, <3>8, <3>9
  <2> QED BY <2>3, <2>4
<1> QED BY <1>4, <1>5

\* A PairAdvance keeps the rest of the invariant as well.
LEMMA PairAdvancePreserves ==
    ASSUME ChanAssumptions, TypeOK, PairIInv, NEW c, NEW i, NEW end,
           PairAdvance(c, i, end)
    PROVE  PairIInv'
<1> USE DEF PairIInv
<1>1. /\ ChanAdvance(c, i, end) /\ c \in Chain /\ i \in ChanId /\ end \in ChanEnd
      /\ conns' = conns
  BY DEF PairAdvance, ChanAdvance, connVars
<1>2. /\ chans'[c][i] = end
      /\ \A d \in Chain, k \in ChanId : d # c \/ k # i => chans'[d][k] = chans[d][k]
      /\ TypeOK'
  BY <1>1, ChanAdvanceFacts
<1>3. /\ chanLog'[c] = chanLog[c] \cup {<<i, end>>}
      /\ \A d \in Chain : d # c => chanLog'[d] = chanLog[d]
      /\ \A d \in Chain : chanLog[d] \subseteq chanLog'[d]
      /\ \A d \in Chain : \A k : HasChanInit(d, k) => HasChanInit(d, k)'
  BY <1>1, ChanEvidenceGrows
<1>4. \A d \in Chain : Other(d) \in Chain
  BY OtherHost DEF ChanAssumptions, ConnAssumptions
<1>5. \A d \in Chain : \A k, e : ShownOpening(d, k, e) => ShownOpening(d, k, e)'
  BY <1>1, <1>3, <1>4 DEF ShownOpening, ConnIsOpen
<1>6. ChanLogPrecedesState'
  BY PairKeepsOrder
<1>7. ChanStateIsLogged'
  <2> SUFFICES ASSUME NEW d \in Chain, NEW k \in ChanId, chans'[d][k].state # "UNINIT"
               PROVE  <<k, chans'[d][k]>> \in chanLog'[d]
    BY DEF ChanStateIsLogged
  <2>1. CASE d = c /\ k = i
    BY <1>2, <1>3, <2>1
  <2>2. CASE d # c \/ k # i
    BY <1>2, <1>3, <2>2 DEF ChanStateIsLogged
  <2> QED BY <2>1, <2>2
<1>8. ChanTryAnswersInit'
  <2> SUFFICES ASSUME NEW d \in Chain, NEW r \in chanLog'[d], r[2].state = "TRYOPEN"
               PROVE  HasChanInit(Other(d), r[2].cpChan)'
    BY DEF ChanTryAnswersInit
  <2>1. HasChanInit(Other(d), r[2].cpChan)
    <3>1. CASE r \in chanLog[d]
      BY <3>1 DEF ChanTryAnswersInit
    <3>2. CASE r \notin chanLog[d]
      <4>1. d = c /\ r[2] = end
        BY <1>3, <3>2
      <4> QED BY <4>1 DEF PairAdvance
    <3> QED BY <3>1, <3>2
  <2> QED BY <1>3, <1>4, <2>1
<1>9. ChanOpenAnswersTry'
  <2> SUFFICES ASSUME NEW d \in Chain, NEW k \in ChanId, chans'[d][k].state = "OPEN"
               PROVE  ShownOpening(d, k, chans[d][k])'
    BY DEF ChanOpenAnswersTry
  <2> DEFINE new == chans'[d][k]
  <2>1. ShownOpening(d, k, new)
    <3>1. CASE d = c /\ k = i
      BY <1>2, <3>1 DEF PairAdvance
    <3>2. CASE d # c \/ k # i
      BY <1>2, <3>2 DEF ChanOpenAnswersTry
    <3> QED BY <3>1, <3>2
  <2> QED BY <1>1, <1>3, <1>4, <2>1 DEF ShownOpening, ConnIsOpen
<1>10. ChanRepointedHadInit'
  <2> SUFFICES ASSUME NEW d \in Chain, NEW r \in chanLog'[d], r[2].state = "TRYOPEN",
                      \/ chans'[d][r[1]].cpChan # r[2].cpChan
                      \/ chans'[d][r[1]].version # r[2].version
               PROVE  HasChanInit(d, r[1])'
    BY DEF ChanRepointedHadInit
  <2>1. r \in chanLog[d]
    <3>1. SUFFICES ASSUME r \notin chanLog[d] PROVE FALSE
      OBVIOUS
    <3>2. d = c /\ r[1] = i /\ r[2] = end
      BY <1>3, <3>1
    <3> QED BY <1>2, <3>2
  <2>2. r[1] \in ChanId /\ r[2] \in ChanEnd
    BY <2>1 DEF TypeOK
  <2> DEFINE cur == chans[d][r[1]]
  <2>3. CASE cur.cpChan # r[2].cpChan \/ cur.version # r[2].version
    BY <1>3, <2>1, <2>3 DEF ChanRepointedHadInit
  <2>4. CASE cur.cpChan = r[2].cpChan /\ cur.version = r[2].version
    <3>1. d = c /\ r[1] = i
      BY <1>2, <2>2, <2>4
    <3>2. end.cpChan # cur.cpChan \/ end.version # cur.version
      BY <1>2, <2>4, <3>1
    <3>3. ChanRank(cur.state) >= 2 /\ ChanRank(cur.state) < ChanRank(end.state)
      BY <1>1, <2>1, <2>2, <3>1, ChanEndRank DEF ChanLogPrecedesState, ChanAdvance
    <3>4. cur.state # "UNINIT"
      BY <3>3, ChanRankFacts
    <3>5. cur \in ChanEnd
      BY <2>2, <3>4, IssuedIsChanEnd
    <3>6. cur.state \in {"TRYOPEN", "OPEN"}
      BY <1>1, <3>3, <3>5, ChanEndRank DEF ChanEnd, ChanState
    <3>7. cur.state # "OPEN"
      BY <1>1, <3>1, <3>2, <3>5, ClosedFields DEF ChanAdvance
    <3>8. HasChanInit(c, i)
      BY <3>1, <3>2, <3>6, <3>7 DEF PairAdvance
    <3> QED BY <1>1, <1>3, <3>1, <3>8
  <2> QED BY <2>3, <2>4
<1> QED BY <1>6, <1>7, <1>8, <1>9, <1>10

(***************************************************************************)
(* Each of the six handlers is a PairAdvance.                              *)
(***************************************************************************)

\* The end that chanOpenAck and chanOpenConfirm expect of the counterparty.
LEMMA ExpectedFields ==
    ASSUME NEW c, NEW i, NEW state, NEW version
    PROVE  LET shown == Expected(c, i, state, version)  end == chans[c][i] IN
           /\ shown.state = state /\ shown.version = version /\ shown.cpChan = i
           /\ shown.port = end.cpPort /\ shown.cpPort = end.port
           /\ shown.order = end.order /\ shown.hop = conns[c][end.hop].cpConn
BY ChannelFields DEF Expected

\* chanOpenTry was shown an INIT end, and takes over none but an INIT end.
LEMMA TryPairs ==
    ASSUME ChanAssumptions, ChanIInv, NEW c \in Chain, NEW prev \in ChanId \cup {NoId},
           NEW port \in Ports, NEW cpPort \in Ports, NEW order \in Orders,
           NEW cpChan \in ChanId, NEW hop \in ConnId, NEW version \in ChanVersions,
           NEW cpVersion \in ChanVersions,
           ChanOpenTry(c, prev, port, order, cpPort, cpChan, hop, version, cpVersion)
    PROVE  \E i, end : PairAdvance(c, i, end)
<1> DEFINE new == Channel("TRYOPEN", port, order, cpPort, cpChan, hop, version)
           shown == Channel("INIT", cpPort, order, port, NoId, conns[c][hop].cpConn,
                            cpVersion)
<1>1. PICK i \in ChanId : /\ \/ chans[c][i].state = "UNINIT" /\ UNCHANGED packets
                             \/ chans[c][i].state = "INIT"
                          /\ ChanAdvance(c, i, new)
  BY ChanTryAdvances
<1>2. new.state = "TRYOPEN" /\ new.cpChan = cpChan
  BY ChannelFields
<1>3. HasChanInit(Other(c), cpChan)
  <2>1. <<cpChan, shown>> \in chanLog[Other(c)] /\ shown.state = "INIT"
    BY ChannelFields DEF ChanOpenTry, VerifyChannelState
  <2>2. Other(c) \in Chain
    BY OtherHost DEF ChanAssumptions, ConnAssumptions
  <2>3. shown \in ChanEnd
    BY <2>1, <2>2 DEF ChanIInv, TypeOK
  <2> QED BY <2>1, <2>3 DEF HasChanInit
<1> HIDE DEF new
<1>4. PairAdvance(c, i, new)
  BY <1>1, <1>2, <1>3 DEF PairAdvance
<1> QED BY <1>4

\* chanOpenAck was shown a TRYOPEN end that names this channel, and that end
\* was shown an INIT end of it.
LEMMA AckPairs ==
    ASSUME ChanAssumptions, ChanIInv, PairIInv, NEW c \in Chain, NEW i \in ChanId,
           NEW cpChan \in ChanId, NEW cpVersion \in ChanVersions,
           ChanOpenAck(c, i, cpChan, cpVersion)
    PROVE  \E end : PairAdvance(c, i, end)
<1> DEFINE old == chans[c][i]
           new == Channel("OPEN", old.port, old.order, old.cpPort, cpChan, old.hop,
                          cpVersion)
           shown == Expected(c, i, "TRYOPEN", cpVersion)
<1>1. ChanAdvance(c, i, new)
  BY ChanAckAdvances
<1>2. /\ new.state = "OPEN" /\ new.port = old.port /\ new.order = old.order
      /\ new.cpPort = old.cpPort /\ new.cpChan = cpChan /\ new.hop = old.hop
      /\ new.version = cpVersion
  BY ChannelFields
<1>3. /\ shown.state = "TRYOPEN" /\ shown.version = cpVersion /\ shown.cpChan = i
      /\ shown.port = old.cpPort /\ shown.cpPort = old.port
      /\ shown.order = old.order /\ shown.hop = conns[c][old.hop].cpConn
  BY ExpectedFields
<1>4. <<cpChan, shown>> \in chanLog[Other(c)] /\ ConnIsOpen(c, old.hop)
  BY DEF ChanOpenAck, VerifyChannelState
<1>5. Other(c) \in Chain /\ Other(Other(c)) = c
  BY OtherHost DEF ChanAssumptions, ConnAssumptions
<1>6. shown \in ChanEnd
  BY <1>4, <1>5 DEF ChanIInv, TypeOK
<1>7. HasChanInit(c, i)
  <2>1. <<cpChan, shown>>[2] = shown
    OBVIOUS
  <2> QED BY <1>3, <1>4, <1>5, <2>1 DEF PairIInv, ChanTryAnswersInit
<1> HIDE DEF new, shown
<1>8. ShownOpening(c, i, new)
  BY <1>2, <1>3, <1>4, <1>6 DEF ShownOpening
<1>9. UNCHANGED packets
  BY DEF ChanOpenAck
<1>10. PairAdvance(c, i, new)
  BY <1>1, <1>2, <1>7, <1>8, <1>9 DEF PairAdvance
<1> QED BY <1>10

\* chanOpenConfirm was shown an OPEN end that names this channel.
LEMMA ConfirmPairs ==
    ASSUME ChanAssumptions, ChanIInv, NEW c \in Chain, NEW i \in ChanId,
           ChanOpenConfirm(c, i)
    PROVE  \E end : PairAdvance(c, i, end)
<1> DEFINE old == chans[c][i]
           new == [old EXCEPT !.state = "OPEN"]
           shown == Expected(c, i, "OPEN", old.version)
<1>1. ChanAdvance(c, i, new)
  BY ChanConfirmAdvances
<1>2. old \in ChanEnd
  BY IssuedIsChanEnd DEF ChanIInv, ChanOpenConfirm
<1>3. /\ new.state = "OPEN" /\ new.port = old.port /\ new.order = old.order
      /\ new.cpPort = old.cpPort /\ new.cpChan = old.cpChan /\ new.hop = old.hop
      /\ new.version = old.version
  BY <1>2 DEF ChanEnd
<1>4. /\ shown.state = "OPEN" /\ shown.version = old.version /\ shown.cpChan = i
      /\ shown.port = old.cpPort /\ shown.cpPort = old.port
      /\ shown.order = old.order /\ shown.hop = conns[c][old.hop].cpConn
  BY ExpectedFields
<1>5. <<old.cpChan, shown>> \in chanLog[Other(c)] /\ ConnIsOpen(c, old.hop)
  BY DEF ChanOpenConfirm, VerifyChannelState
<1>6. Other(c) \in Chain
  BY OtherHost DEF ChanAssumptions, ConnAssumptions
<1>7. shown \in ChanEnd
  BY <1>5, <1>6 DEF ChanIInv, TypeOK
<1> HIDE DEF new, shown
<1>8. ShownOpening(c, i, new)
  BY <1>3, <1>4, <1>5, <1>7 DEF ShownOpening
<1>9. UNCHANGED packets
  BY DEF ChanOpenConfirm
<1>10. PairAdvance(c, i, new)
  BY <1>1, <1>3, <1>8, <1>9 DEF PairAdvance
<1> QED BY <1>10

\* Every handshake or closing step is a PairAdvance.
LEMMA HandshakePairs ==
    ASSUME ChanAssumptions, ChanIInv, PairIInv, NEW c \in Chain, HandshakeNext(c)
    PROVE  \E i, end : PairAdvance(c, i, end)
<1>1. ASSUME NEW port \in Ports, NEW cpPort \in Ports, NEW order \in Orders,
             NEW cpChan \in ChanId \cup {NoId}, NEW hop \in ConnId,
             NEW version \in ChanVersions,
             ChanOpenInit(c, port, order, cpPort, cpChan, hop, version)
      PROVE  \E i, end : PairAdvance(c, i, end)
  <2> DEFINE i == nextChannelSequence[c]
             new == Channel("INIT", port, order, cpPort, cpChan, hop, version)
  <2>1. chans[c][i].state = "UNINIT" /\ ChanAdvance(c, i, new)
    BY <1>1, ChanInitAdvances
  <2>2. new.state = "INIT" /\ UNCHANGED packets
    BY <1>1, ChannelFields DEF ChanOpenInit
  <2> HIDE DEF i, new
  <2>3. PairAdvance(c, i, new)
    BY <2>1, <2>2 DEF PairAdvance
  <2> QED BY <2>3
<1>2. ASSUME NEW prev \in ChanId \cup {NoId}, NEW port \in Ports, NEW cpPort \in Ports,
             NEW order \in Orders, NEW cpChan \in ChanId, NEW hop \in ConnId,
             NEW version \in ChanVersions, NEW cpVersion \in ChanVersions,
             ChanOpenTry(c, prev, port, order, cpPort, cpChan, hop, version, cpVersion)
      PROVE  \E i, end : PairAdvance(c, i, end)
  BY <1>2, TryPairs
<1>3. ASSUME NEW i \in ChanId, NEW cpChan \in ChanId, NEW cpVersion \in ChanVersions,
             ChanOpenAck(c, i, cpChan, cpVersion)
      PROVE  \E end : PairAdvance(c, i, end)
  BY <1>3, AckPairs
<1>4. ASSUME NEW i \in ChanId, ChanOpenConfirm(c, i)
      PROVE  \E end : PairAdvance(c, i, end)
  BY <1>4, ConfirmPairs
<1>5. ASSUME NEW i \in ChanId, ChanCloseInit(c, i) \/ ChanCloseConfirm(c, i)
      PROVE  PairAdvance(c, i, Closed(chans[c][i]))
  <2>1. Closable(c, i) /\ Close(c, i) /\ UNCHANGED packets
    BY <1>5 DEF ChanCloseInit, ChanCloseConfirm, Close
  <2>2. ChanAdvance(c, i, Closed(chans[c][i]))
    BY <2>1, ClosingAdvances
  <2>3. chans[c][i] \in ChanEnd
    BY <2>1, IssuedIsChanEnd DEF ChanIInv, Closable
  <2> QED BY <2>1, <2>2, <2>3, ClosedFields DEF PairAdvance
<1> QED BY <1>1, <1>2, <1>3, <1>4, <1>5 DEF HandshakeNext

(***************************************************************************)
(* Packets.                                                                *)
(***************************************************************************)

\* The types of what packets and acknowledgements are kept in.
LEMMA PacketTypes ==
    ASSUME ChanAssumptions, TypeOK
    PROVE  /\ nextSequenceSend \in [Chain -> [ChanId -> Nat]]
           /\ nextSequenceRecv \in [Chain -> [ChanId -> Nat]]
           /\ nextSequenceAck \in [Chain -> [ChanId -> Nat]]
           /\ packets \in [Chain -> [ChanId -> [Seqs -> Packet \cup {NoPacket}]]]
           /\ acknowledgements \in [Chain -> [ChanId -> [Seqs -> Written \cup {NoAck}]]]
           /\ delivered \in [Chain -> [ChanId -> Seq(Seqs \X Data)]]
           /\ ackLog \in [Chain -> SUBSET AckRecord]
           /\ Seqs \subseteq Nat
<1>1. 1..(MaxSeq + 1) \subseteq Nat /\ Seqs \subseteq Nat
  BY DEF Seqs, ChanAssumptions, ChanBoundsAreNat
<1>2. /\ nextSequenceSend \in [Chain -> [ChanId -> 1..(MaxSeq + 1)]]
      /\ nextSequenceRecv \in [Chain -> [ChanId -> 1..(MaxSeq + 1)]]
      /\ nextSequenceAck \in [Chain -> [ChanId -> 1..(MaxSeq + 1)]]
  BY DEF TypeOK
<1>3. /\ packets \in [Chain -> [ChanId -> [Seqs -> Packet \cup {NoPacket}]]]
      /\ acknowledgements \in [Chain -> [ChanId -> [Seqs -> Written \cup {NoAck}]]]
      /\ delivered \in [Chain -> [ChanId -> Seq(Seqs \X Data)]]
      /\ ackLog \in [Chain -> SUBSET AckRecord]
  BY DEF TypeOK
<1> HIDE DEF Seqs
<1> QED BY <1>1, <1>2, <1>3

\* A handshake step takes no packet off an end, unless it makes a TRYOPEN end
\* of an INIT one.
LEMMA HandshakeHolds ==
    ASSUME ChanAssumptions, ChanIInv, PairIInv, HeldIInv,
           NEW c, NEW i, NEW end, PairAdvance(c, i, end)
    PROVE  HeldIInv'
<1>1. /\ ChanAdvance(c, i, end) /\ c \in Chain /\ i \in ChanId /\ end \in ChanEnd
      /\ packets' # packets => chans[c][i].state = "INIT" /\ end.state = "TRYOPEN"
      /\ packets' \in {packets, [packets EXCEPT ![c][i] = [s \in Seqs |-> NoPacket]]}
      /\ UNCHANGED <<seqVars, recvVars, packetLogs>>
  BY DEF PairAdvance, ChanAdvance
<1>2. TypeOK
  BY DEF ChanIInv
<1>3. /\ chans'[c][i] = end
      /\ \A d \in Chain, k \in ChanId : d # c \/ k # i => chans'[d][k] = chans[d][k]
  BY <1>1, <1>2, ChanAdvanceFacts
<1>4. /\ chanLog'[c] = chanLog[c] \cup {<<i, end>>}
      /\ \A d \in Chain : chanLog[d] \subseteq chanLog'[d]
  BY <1>1, <1>2, ChanEvidenceGrows
<1>5. \A d \in Chain : \A k : ChanReused(d, k) => ChanReused(d, k)'
  BY <1>4 DEF ChanReused
<1>6. /\ packets' # packets => ChanReused(c, i)'
      /\ \A d \in Chain, k \in ChanId : d # c \/ k # i => packets'[d][k] = packets[d][k]
  <2>1. ASSUME packets' # packets PROVE ChanReused(c, i)'
    <3>1. <<i, chans[c][i]>> \in chanLog'[c] /\ chans[c][i].state = "INIT"
      BY <1>1, <1>4, <2>1 DEF PairIInv, ChanStateIsLogged
    <3>2. <<i, end>> \in chanLog'[c] /\ end.state = "TRYOPEN"
      BY <1>1, <1>4, <2>1
    <3> QED BY <3>1, <3>2 DEF ChanReused
  <2>2. \A d \in Chain, k \in ChanId : d # c \/ k # i => packets'[d][k] = packets[d][k]
    <3>1. packets \in [Chain -> [ChanId -> [Seqs -> Packet \cup {NoPacket}]]]
      BY <1>2, PacketTypes
    <3>2. CASE packets' = packets
      BY <3>2
    <3>3. CASE packets' = [packets EXCEPT ![c][i] = [s \in Seqs |-> NoPacket]]
      BY <1>1, <3>1, <3>3
    <3> QED BY <1>1, <3>2, <3>3
  <2> QED BY <2>1, <2>2
<1>7. AckedIsDelivered'
  BY <1>1 DEF HeldIInv, AckedIsDelivered, WasDelivered, recvVars, packetLogs
<1>8. GoneWasAcked'
  <2> SUFFICES ASSUME NEW d \in Chain, NEW k \in ChanId, NEW seq \in Seqs,
                      seq < nextSequenceSend[d][k], packets'[d][k][seq] = NoPacket,
                      ~ChanReused(d, k)'
               PROVE  /\ chans'[d][k].state \in {"OPEN", "CLOSED"}
                      /\ \E a \in ackLog[Other(d)] :
                            a.chan = chans'[d][k].cpChan /\ a.seq = seq
    BY <1>1 DEF GoneWasAcked, seqVars, packetLogs
  <2>1. packets'[d][k] = packets[d][k]
    BY <1>6
  <2>2. /\ chans[d][k].state \in {"OPEN", "CLOSED"}
        /\ \E a \in ackLog[Other(d)] : a.chan = chans[d][k].cpChan /\ a.seq = seq
    BY <1>5, <2>1 DEF HeldIInv, GoneWasAcked
  <2>3. chans'[d][k].state \in {"OPEN", "CLOSED"} /\ chans'[d][k].cpChan = chans[d][k].cpChan
    <3>1. CASE d # c \/ k # i
      BY <1>3, <2>2, <3>1
    <3>2. CASE d = c /\ k = i
      <4>1. chans[c][i] \in ChanEnd
        BY <1>1, <1>2, <2>2, <3>2, IssuedIsChanEnd
      <4>2. ChanRank(chans[c][i].state) < ChanRank(end.state)
        BY <1>1 DEF ChanAdvance
      <4>3. chans[c][i].state = "OPEN"
        BY <1>1, <2>2, <3>2, <4>1, <4>2, ChanEndRank
      <4>4. end = Closed(chans[c][i])
        BY <1>1, <4>3 DEF ChanAdvance
      <4> QED BY <1>3, <3>2, <4>1, <4>4, ClosedFields
    <3> QED BY <3>1, <3>2
  <2> QED BY <2>2, <2>3
<1>9. OrderedHolds'
  <2> SUFFICES ASSUME NEW d \in Chain, NEW k \in ChanId,
                      chans'[d][k].order # "UNORDERED", ~ChanReused(d, k)'
               PROVE  /\ nextSequenceAck[d][k] <= nextSequenceSend[d][k]
                      /\ \A seq \in Seqs : packets'[d][k][seq] # NoPacket <=>
                            nextSequenceAck[d][k] <= seq /\ seq < nextSequenceSend[d][k]
    BY <1>1 DEF OrderedHolds, seqVars
  <2>1. packets'[d][k] = packets[d][k] /\ ~ChanReused(d, k)
    BY <1>5, <1>6
  <2>2. chans[d][k].order # "UNORDERED"
    <3>1. CASE d # c \/ k # i
      BY <1>3, <3>1
    <3>2. CASE d = c /\ k = i
      <4>1. CASE chans[c][i].state # "UNINIT"
        BY <1>1, <1>3, <3>2, <4>1 DEF ChanAdvance
      <4>2. CASE chans[c][i].state = "UNINIT"
        <5>1. chans[c][i] = NoChan
          BY <1>1, <1>2, <4>2, IssuedOrNone
        <5> QED BY <3>2, <5>1, ChannelFields DEF NoChan
      <4> QED BY <4>1, <4>2
    <3> QED BY <3>1, <3>2
  <2> QED BY <2>1, <2>2 DEF HeldIInv, OrderedHolds
<1> QED BY <1>7, <1>8, <1>9 DEF HeldIInv

\* sendPacket adds the packet at nextSequenceSend.
LEMMA SendHolds ==
    ASSUME ChanAssumptions, ChanIInv, HeldIInv, NEW c \in Chain, NEW i \in ChanId,
           NEW data \in Data, SendPacket(c, i, data)
    PROVE  HeldIInv'
<1> DEFINE next == nextSequenceSend[c][i]
<1>1. /\ next \in Seqs
      /\ nextSequenceSend' = [nextSequenceSend EXCEPT ![c][i] = @ + 1]
      /\ packets' = [packets EXCEPT ![c][i][next] = [dst |-> chans[c][i].cpChan, data |-> data]]
      /\ UNCHANGED <<chans, nextSequenceAck, acknowledgements, delivered, chanLog, ackLog>>
  BY DEF SendPacket, recvVars
<1>2. TypeOK /\ next \in Nat
  BY <1>1, PacketTypes DEF ChanIInv
<1>3. /\ nextSequenceSend'[c][i] = next + 1
      /\ packets'[c][i][next] # NoPacket
      /\ \A seq \in Seqs : seq # next => packets'[c][i][seq] = packets[c][i][seq]
      /\ \A d \in Chain, k \in ChanId : d # c \/ k # i =>
            /\ packets'[d][k] = packets[d][k]
            /\ nextSequenceSend'[d][k] = nextSequenceSend[d][k]
  <2>1. [dst |-> chans[c][i].cpChan, data |-> data] # NoPacket
    BY DEF NoPacket
  <2>2. /\ packets'[c][i][next] = [dst |-> chans[c][i].cpChan, data |-> data]
        /\ \A seq \in Seqs : seq # next => packets'[c][i][seq] = packets[c][i][seq]
        /\ \A d \in Chain, k \in ChanId : d # c \/ k # i => packets'[d][k] = packets[d][k]
    BY <1>1, <1>2, PacketTypes
  <2>3. /\ nextSequenceSend'[c][i] = next + 1
        /\ \A d \in Chain, k \in ChanId : d # c \/ k # i =>
              nextSequenceSend'[d][k] = nextSequenceSend[d][k]
    BY <1>1, <1>2, PacketTypes
  <2> QED BY <2>1, <2>2, <2>3
<1>4. /\ \A d \in Chain, k \in ChanId : nextSequenceSend[d][k] \in Nat /\ nextSequenceAck[d][k] \in Nat
      /\ \A seq \in Seqs : seq \in Nat
  BY <1>2, PacketTypes
<1>5. AckedIsDelivered'
  BY <1>1 DEF HeldIInv, AckedIsDelivered, WasDelivered
<1>6. GoneWasAcked'
  <2> SUFFICES ASSUME NEW d \in Chain, NEW k \in ChanId, NEW seq \in Seqs,
                      seq < nextSequenceSend'[d][k], packets'[d][k][seq] = NoPacket
               PROVE  \/ ChanReused(d, k)
                      \/ /\ chans[d][k].state \in {"OPEN", "CLOSED"}
                         /\ \E a \in ackLog[Other(d)] :
                               a.chan = chans[d][k].cpChan /\ a.seq = seq
    BY <1>1 DEF GoneWasAcked, ChanReused
  <2>1. seq < nextSequenceSend[d][k] /\ packets[d][k][seq] = NoPacket
    BY <1>3, <1>4
  <2> QED BY <2>1 DEF HeldIInv, GoneWasAcked
<1>7. OrderedHolds'
  <2> SUFFICES ASSUME NEW d \in Chain, NEW k \in ChanId,
                      chans[d][k].order # "UNORDERED", ~ChanReused(d, k)
               PROVE  /\ nextSequenceAck[d][k] <= nextSequenceSend'[d][k]
                      /\ \A seq \in Seqs : packets'[d][k][seq] # NoPacket <=>
                            nextSequenceAck[d][k] <= seq /\ seq < nextSequenceSend'[d][k]
    BY <1>1 DEF OrderedHolds, ChanReused
  <2>1. /\ nextSequenceAck[d][k] <= nextSequenceSend[d][k]
        /\ \A seq \in Seqs : packets[d][k][seq] # NoPacket <=>
              nextSequenceAck[d][k] <= seq /\ seq < nextSequenceSend[d][k]
    BY DEF HeldIInv, OrderedHolds
  <2>2. CASE d # c \/ k # i
    BY <1>3, <2>1, <2>2
  <2>3. CASE d = c /\ k = i
    BY <1>3, <1>4, <2>1, <2>3
  <2> QED BY <2>2, <2>3
<1> QED BY <1>5, <1>6, <1>7 DEF HeldIInv

\* recvPacket writes an acknowledgement and hands over the packet in one step.
LEMMA RecvHolds ==
    ASSUME ChanAssumptions, ChanIInv, HeldIInv, NEW c \in Chain, NEW i \in ChanId,
           NEW seq \in Seqs, NEW data \in Data, NEW ack \in Acks,
           RecvPacket(c, i, seq, data, ack)
    PROVE  HeldIInv'
<1> DEFINE new == [port |-> chans[c][i].port, chan |-> i, seq |-> seq, ack |-> ack]
<1>1. /\ acknowledgements' = [acknowledgements EXCEPT ![c][i][seq] = [ack |-> ack]]
      /\ delivered' = [delivered EXCEPT ![c][i] = Append(@, <<seq, data>>)]
      /\ ackLog' = [ackLog EXCEPT ![c] = @ \cup {new}]
      /\ UNCHANGED <<chans, nextSequenceSend, nextSequenceAck, packets, chanLog>>
  BY DEF RecvPacket
<1>2. TypeOK
  BY DEF ChanIInv
<1>3. /\ \A d \in Chain : ackLog[d] \subseteq ackLog'[d]
      /\ \A d \in Chain : \A a \in ackLog'[d] : a \in ackLog[d] \/ (d = c /\ a = new)
      /\ \A d \in Chain : \A a \in ackLog[d] : a.chan \in ChanId /\ a.seq \in Seqs
  <2>1. \A d \in Chain : \A a \in ackLog[d] : a.chan \in ChanId /\ a.seq \in Seqs
    <3>1. \A d \in Chain : \A a \in ackLog[d] : a \in AckRecord
      BY <1>2, PacketTypes
    <3> QED BY <3>1 DEF AckRecord
  <2>2. ackLog'[c] = ackLog[c] \cup {new} /\ \A d \in Chain : d # c => ackLog'[d] = ackLog[d]
    BY <1>1, <1>2, PacketTypes
  <2> HIDE DEF new
  <2> QED BY <2>1, <2>2
<1>4. /\ \A d \in Chain, k \in ChanId : d # c \/ k # i => delivered'[d][k] = delivered[d][k]
      /\ Len(delivered[c][i]) \in Nat
      /\ Len(delivered'[c][i]) = Len(delivered[c][i]) + 1
      /\ \A n \in 1..Len(delivered[c][i]) : delivered'[c][i][n] = delivered[c][i][n]
      /\ delivered'[c][i][Len(delivered[c][i]) + 1] = <<seq, data>>
  <2>1. delivered \in [Chain -> [ChanId -> Seq(Seqs \X Data)]]
    BY <1>2, PacketTypes
  <2>2. delivered[c][i] \in Seq(Seqs \X Data) /\ <<seq, data>> \in Seqs \X Data
    BY <2>1
  <2>3. delivered' = [delivered EXCEPT ![c][i] = Append(@, <<seq, data>>)]
    BY <1>1
  <2>4. /\ \A d \in Chain, k \in ChanId : d # c \/ k # i => delivered'[d][k] = delivered[d][k]
        /\ delivered'[c][i] = Append(delivered[c][i], <<seq, data>>)
    BY <2>1, <2>3
  <2> QED BY <2>2, <2>4, AppendFacts
<1>5. /\ WasDelivered(c, i, seq)'
      /\ \A d \in Chain, k \in ChanId, s \in Seqs :
            WasDelivered(d, k, s) => WasDelivered(d, k, s)'
  <2>1. WasDelivered(c, i, seq)'
    BY <1>4 DEF WasDelivered
  <2>2. ASSUME NEW d \in Chain, NEW k \in ChanId, NEW s \in Seqs, WasDelivered(d, k, s)
        PROVE  WasDelivered(d, k, s)'
    <3>1. CASE d # c \/ k # i
      BY <1>4, <2>2, <3>1 DEF WasDelivered
    <3>2. CASE d = c /\ k = i
      <4>1. PICK n \in 1..Len(delivered[c][i]) : delivered[c][i][n][1] = s
        BY <2>2, <3>2 DEF WasDelivered
      <4>2. n \in 1..Len(delivered'[c][i]) /\ delivered'[c][i][n][1] = s
        BY <1>4, <4>1
      <4> QED BY <3>2, <4>2 DEF WasDelivered
    <3> QED BY <3>1, <3>2
  <2> QED BY <2>1, <2>2
<1>6. \A d \in Chain, k \in ChanId, s \in Seqs :
         acknowledgements'[d][k][s] = IF d = c /\ k = i /\ s = seq
                                      THEN [ack |-> ack] ELSE acknowledgements[d][k][s]
  <2>1. acknowledgements \in [Chain -> [ChanId -> [Seqs -> Written \cup {NoAck}]]]
    BY <1>2, PacketTypes
  <2>2. /\ acknowledgements'[c][i] = [acknowledgements[c][i] EXCEPT ![seq] = [ack |-> ack]]
        /\ \A d \in Chain, k \in ChanId : d # c \/ k # i =>
              acknowledgements'[d][k] = acknowledgements[d][k]
    BY <1>1, <2>1
  <2>3. \A s \in Seqs : acknowledgements'[c][i][s] = IF s = seq
                          THEN [ack |-> ack] ELSE acknowledgements[c][i][s]
    BY <2>1, <2>2
  <2> QED BY <2>2, <2>3
<1>7. AckedIsDelivered'
  <2> SUFFICES ASSUME NEW d \in Chain, NEW a \in ackLog'[d]
               PROVE  /\ WasDelivered(d, a.chan, a.seq)'
                      /\ acknowledgements'[d][a.chan][a.seq] # NoAck
    BY DEF AckedIsDelivered
  <2>1. [ack |-> ack] # NoAck
    BY DEF NoAck
  <2>2. CASE a \in ackLog[d]
    BY <1>3, <1>5, <1>6, <2>1, <2>2 DEF HeldIInv, AckedIsDelivered
  <2>3. CASE d = c /\ a = new
    <3>1. a.chan = i /\ a.seq = seq
      BY <2>3
    <3> QED BY <1>5, <1>6, <2>1, <2>3, <3>1
  <2> QED BY <1>3, <2>2, <2>3
<1>8. GoneWasAcked'
  <2>1. \A d \in Chain : Other(d) \in Chain
    BY OtherHost DEF ChanAssumptions, ConnAssumptions
  <2> QED BY <1>1, <1>3, <2>1 DEF HeldIInv, GoneWasAcked, ChanReused
<1>9. OrderedHolds'
  BY <1>1 DEF HeldIInv, OrderedHolds, ChanReused
<1> QED BY <1>7, <1>8, <1>9 DEF HeldIInv

\* acknowledgePacket takes a packet off an OPEN channel for an acknowledgement
\* of the channel it names, on an ORDERED channel the first one it holds.
LEMMA AckHolds ==
    ASSUME ChanAssumptions, ChanIInv, HeldIInv, NEW c \in Chain, NEW i \in ChanId,
           NEW seq \in Seqs, NEW ack \in Acks, AcknowledgePacket(c, i, seq, ack)
    PROVE  HeldIInv'
<1> DEFINE end == chans[c][i]
<1>1. /\ end.state = "OPEN" /\ packets[c][i][seq] # NoPacket
      /\ packets' = [packets EXCEPT ![c][i][seq] = NoPacket]
      /\ UNCHANGED <<chans, nextSequenceSend, acknowledgements, delivered, chanLog, ackLog>>
      /\ \/ /\ end.order = "ORDERED" /\ seq = nextSequenceAck[c][i]
            /\ nextSequenceAck' = [nextSequenceAck EXCEPT ![c][i] = @ + 1]
         \/ end.order = "UNORDERED" /\ UNCHANGED nextSequenceAck
  BY DEF AcknowledgePacket, IsNextToAck, recvVars, packetLogs
<1>2. TypeOK
  BY DEF ChanIInv
<1>3. \E a \in ackLog[Other(c)] : a.chan = end.cpChan /\ a.seq = seq
  BY DEF AcknowledgePacket, VerifyPacketAcknowledgement
<1>4. /\ packets'[c][i][seq] = NoPacket
      /\ \A s \in Seqs : s # seq => packets'[c][i][s] = packets[c][i][s]
      /\ \A d \in Chain, k \in ChanId : d # c \/ k # i => packets'[d][k] = packets[d][k]
  BY <1>1, <1>2, PacketTypes
<1>5. AckedIsDelivered'
  BY <1>1 DEF HeldIInv, AckedIsDelivered, WasDelivered
<1>6. GoneWasAcked'
  <2> SUFFICES ASSUME NEW d \in Chain, NEW k \in ChanId, NEW s \in Seqs,
                      s < nextSequenceSend[d][k], packets'[d][k][s] = NoPacket
               PROVE  \/ ChanReused(d, k)
                      \/ /\ chans[d][k].state \in {"OPEN", "CLOSED"}
                         /\ \E a \in ackLog[Other(d)] :
                               a.chan = chans[d][k].cpChan /\ a.seq = s
    BY <1>1 DEF GoneWasAcked, ChanReused
  <2>1. CASE d = c /\ k = i /\ s = seq
    BY <1>1, <1>3, <2>1
  <2>2. CASE ~(d = c /\ k = i /\ s = seq)
    <3>1. packets[d][k][s] = NoPacket
      BY <1>4, <2>2
    <3> QED BY <3>1 DEF HeldIInv, GoneWasAcked
  <2> QED BY <2>1, <2>2
<1>7. OrderedHolds'
  <2> SUFFICES ASSUME NEW d \in Chain, NEW k \in ChanId,
                      chans[d][k].order # "UNORDERED", ~ChanReused(d, k)
               PROVE  /\ nextSequenceAck'[d][k] <= nextSequenceSend[d][k]
                      /\ \A s \in Seqs : packets'[d][k][s] # NoPacket <=>
                            nextSequenceAck'[d][k] <= s /\ s < nextSequenceSend[d][k]
    BY <1>1 DEF OrderedHolds, ChanReused
  <2>1. /\ nextSequenceAck[d][k] <= nextSequenceSend[d][k]
        /\ \A s \in Seqs : packets[d][k][s] # NoPacket <=>
              nextSequenceAck[d][k] <= s /\ s < nextSequenceSend[d][k]
    BY DEF HeldIInv, OrderedHolds
  <2>2. /\ nextSequenceAck[d][k] \in Nat /\ nextSequenceSend[d][k] \in Nat
        /\ \A s \in Seqs : s \in Nat
    BY <1>2, PacketTypes
  <2>3. CASE d # c \/ k # i
    <3>1. nextSequenceAck'[d][k] = nextSequenceAck[d][k]
      <4>1. nextSequenceAck \in [Chain -> [ChanId -> Nat]]
        BY <1>2, PacketTypes
      <4>2. CASE nextSequenceAck' = nextSequenceAck
        BY <4>2
      <4>3. CASE nextSequenceAck' = [nextSequenceAck EXCEPT ![c][i] = @ + 1]
        BY <2>3, <4>1, <4>3
      <4> QED BY <1>1, <4>2, <4>3
    <3> QED BY <1>4, <2>1, <2>3, <3>1
  <2>4. CASE d = c /\ k = i
    <3>1. seq = nextSequenceAck[c][i] /\ nextSequenceAck'[c][i] = seq + 1
      BY <1>1, <1>2, <2>4, PacketTypes
    <3>2. seq < nextSequenceSend[c][i]
      BY <1>1, <2>1, <2>4
    <3> QED BY <1>4, <2>1, <2>2, <2>4, <3>1, <3>2
  <2> QED BY <2>3, <2>4
<1> QED BY <1>5, <1>6, <1>7 DEF HeldIInv

(***************************************************************************)
(* The theorems.                                                           *)
(***************************************************************************)

\* A step that leaves channels and their evidence alone keeps PairIInv: the
\* connection an OPEN channel runs over is OPEN, and stays what it is.
LEMMA PairQuiet ==
    ASSUME PairIInv, ForwardStep, UNCHANGED <<chans, chanLog>>
    PROVE  PairIInv'
<1> USE DEF PairIInv
<1>1. ChanLogPrecedesState' /\ ChanStateIsLogged' /\ ChanTryAnswersInit'
      /\ ChanRepointedHadInit'
  BY DEF ChanLogPrecedesState, ChanStateIsLogged, ChanTryAnswersInit,
         ChanRepointedHadInit, HasChanInit
<1>2. ChanOpenAnswersTry'
  <2> SUFFICES ASSUME NEW c \in Chain, NEW i \in ChanId, chans[c][i].state = "OPEN"
               PROVE  ShownOpening(c, i, chans[c][i])'
    BY DEF ChanOpenAnswersTry
  <2>1. ShownOpening(c, i, chans[c][i])
    BY DEF ChanOpenAnswersTry
  <2>2. ConnIsOpen(c, chans[c][i].hop)
    BY <2>1 DEF ShownOpening
  <2>3. conns'[c][chans[c][i].hop] = conns[c][chans[c][i].hop]
    BY <2>2, OpenConnectionStays
  <2> QED BY <2>1, <2>3 DEF ShownOpening, ConnIsOpen
<1> QED BY <1>1, <1>2

\* Every step keeps both invariants.
LEMMA PairStep ==
    ASSUME ChanAssumptions, ConnIInv, ChanIInv, PairIInv, HeldIInv, [Next]_vars
    PROVE  PairIInv' /\ HeldIInv'
<1>1. CASE UNCHANGED chanVars /\ [ConnNext]_connVars
  <2>1. ForwardStep
    BY <1>1, StepPreserves DEF ChanAssumptions
  <2>2. UNCHANGED <<chans, chanLog, nextSequenceSend, nextSequenceAck, packets,
                    acknowledgements, delivered, ackLog>>
    BY <1>1 DEF chanVars, seqVars, recvVars, packetLogs
  <2>3. HeldIInv'
    BY <2>2 DEF HeldIInv, AckedIsDelivered, GoneWasAcked, OrderedHolds, WasDelivered,
                ChanReused
  <2> QED BY <2>1, <2>2, <2>3, PairQuiet
<1>2. ASSUME NEW c \in Chain, HandshakeNext(c)
      PROVE  PairIInv' /\ HeldIInv'
  <2>1. PICK i, end : PairAdvance(c, i, end)
    BY <1>2, HandshakePairs
  <2>2. TypeOK
    BY DEF ChanIInv
  <2> QED BY <2>1, <2>2, PairAdvancePreserves, HandshakeHolds
<1>3. ASSUME NEW c \in Chain, PacketNext(c)
      PROVE  PairIInv' /\ HeldIInv'
  <2>1. HeldIInv'
    BY <1>3, SendHolds, RecvHolds, AckHolds DEF PacketNext
  <2>2. UNCHANGED <<connVars, chans, chanLog>>
    <3>1. ASSUME NEW i, NEW data, SendPacket(c, i, data)
          PROVE  UNCHANGED <<connVars, chans, chanLog>>
      BY <3>1 DEF SendPacket
    <3>2. ASSUME NEW i, NEW seq, NEW data, NEW ack, RecvPacket(c, i, seq, data, ack)
          PROVE  UNCHANGED <<connVars, chans, chanLog>>
      BY <3>2 DEF RecvPacket
    <3>3. ASSUME NEW i, NEW seq, NEW ack, AcknowledgePacket(c, i, seq, ack)
          PROVE  UNCHANGED <<connVars, chans, chanLog>>
      BY <3>3 DEF AcknowledgePacket
    <3> QED BY <1>3, <3>1, <3>2, <3>3 DEF PacketNext
  <2>3. ForwardStep
    BY <2>2 DEF ForwardStep, connVars
  <2> QED BY <2>1, <2>2, <2>3, PairQuiet
<1>4. CASE UNCHANGED vars
  BY <1>1, <1>4 DEF vars
<1>5. CASE Next
  BY <1>1, <1>2, <1>3, <1>5 DEF Next
<1> QED BY <1>4, <1>5

\* Every OPEN channel was shown what it had to be, and every packet that is
\* gone was acknowledged, in every reachable state.
THEOREM PairInvariance == Spec => [](ConnIInv /\ ChanIInv /\ PairIInv /\ HeldIInv)
<1>0. ChanAssumptions
  BY ChannelsAssume
<1>1. Init => PairIInv /\ HeldIInv
  <2> SUFFICES ASSUME Init PROVE PairIInv /\ HeldIInv
    OBVIOUS
  <2>1. NoChan.state = "UNINIT"
    BY ChannelFields DEF NoChan
  <2>2. PairIInv
    BY <2>1 DEF Init, PairIInv, ChanLogPrecedesState, ChanStateIsLogged,
                ChanTryAnswersInit, ChanOpenAnswersTry, ChanRepointedHadInit
  <2>3. AckedIsDelivered
    BY DEF Init, PacketInit, AckedIsDelivered
  <2>4. GoneWasAcked /\ OrderedHolds
    BY DEF Init, PacketInit, GoneWasAcked, OrderedHolds, Seqs
  <2> QED BY <2>2, <2>3, <2>4 DEF HeldIInv
<1>2. (ConnIInv /\ ChanIInv /\ PairIInv /\ HeldIInv) /\ [Next]_vars
         => (PairIInv /\ HeldIInv)'
  BY <1>0, PairStep
<1> QED BY <1>1, <1>2, ChanInvariance, PTL DEF Spec

\* What the evidence shown to an OPEN channel says of the channel it names now.
LEMMA OpenSeesPeer ==
    ASSUME ChanAssumptions, ChanIInv, PairIInv, NEW c \in Chain, NEW i \in ChanId,
           chans[c][i].state = "OPEN"
    PROVE  LET end == chans[c][i]  other == chans[Other(c)][end.cpChan] IN
           /\ end.cpChan \in ChanId
           /\ other.state \in {"TRYOPEN", "OPEN", "CLOSED"}
           /\ other.order = end.order
           /\ other.port = end.cpPort /\ other.cpPort = end.port
           /\ other.hop = conns[c][end.hop].cpConn
           /\ ~ChanReused(Other(c), end.cpChan) =>
                 other.cpChan = i /\ other.version = end.version
<1> DEFINE end == chans[c][i]
           j == end.cpChan
           other == chans[Other(c)][j]
<1>1. Other(c) \in Chain
  BY OtherHost DEF ChanAssumptions, ConnAssumptions
<1>2. PICK f \in ChanEnd :
         /\ f.state \in {"TRYOPEN", "OPEN"}
         /\ f.port = end.cpPort /\ f.cpPort = end.port /\ f.order = end.order
         /\ f.hop = conns[c][end.hop].cpConn
         /\ f.cpChan = i /\ f.version = end.version
         /\ <<j, f>> \in chanLog[Other(c)]
  BY DEF PairIInv, ChanOpenAnswersTry, ShownOpening
<1> DEFINE r == <<j, f>>
<1>3. r \in chanLog[Other(c)] /\ r[1] = j /\ r[2] = f
  BY <1>2
<1> HIDE DEF r
<1>4. /\ ChanRank(f.state) <= ChanRank(other.state)
      /\ f.order = other.order /\ f.hop = other.hop /\ f.cpPort = other.cpPort
      /\ f.port = other.port
      /\ f.state = "TRYOPEN" /\ other.state = "TRYOPEN" => other = f
      /\ f.state = "OPEN" => other \in {f, Closed(f)}
  BY <1>1, <1>2, <1>3 DEF PairIInv, ChanLogPrecedesState
<1>5. j \in ChanId
  <2>1. chanLog \in [Chain -> SUBSET (ChanId \X ChanEnd)]
    BY DEF ChanIInv, TypeOK
  <2> QED BY <1>1, <1>3, <2>1
<1>6. other \in ChanEnd /\ other.state \in {"TRYOPEN", "OPEN", "CLOSED"}
  <2>1. other.state # "UNINIT"
    BY <1>2, <1>4, ChanRankFacts, ChanEndRank
  <2>2. other \in ChanEnd
    BY <1>1, <1>5, <2>1, IssuedIsChanEnd DEF ChanIInv
  <2>3. ChanRank(other.state) >= 2
    BY <1>2, <1>4, <2>2, ChanEndRank
  <2> QED BY <2>2, <2>3, ChanEndRank DEF ChanEnd, ChanState
<1>7. ASSUME ~ChanReused(Other(c), j)
      PROVE  other.cpChan = i /\ other.version = end.version
  <2>1. CASE f.state = "OPEN"
    BY <1>2, <1>4, <2>1, ClosedFields
  <2>2. CASE f.state = "TRYOPEN"
    <3>1. ~HasChanInit(Other(c), j)
      <4> SUFFICES ASSUME NEW g \in ChanEnd, g.state = "INIT", <<j, g>> \in chanLog[Other(c)]
                   PROVE  FALSE
        BY DEF HasChanInit
      <4>1. <<j, g>>[1] = j /\ <<j, g>>[2] = g
        OBVIOUS
      <4> QED BY <1>3, <1>7, <2>2, <4>1 DEF ChanReused
    <3> QED BY <1>1, <1>2, <1>3, <2>2, <3>1 DEF PairIInv, ChanRepointedHadInit
  <2> QED BY <1>2, <2>1, <2>2
<1> QED BY <1>2, <1>4, <1>5, <1>6, <1>7

\* An OPEN channel agrees with what it was shown.
LEMMA OpenEndsAgree ==
    ASSUME ChanAssumptions, ChanIInv, PairIInv
    PROVE  ChanOpenAgrees
BY OpenSeesPeer DEF ChanOpenAgrees, IsOpen

\* chanOpenTry, chanOpenAck and chanOpenConfirm never open a channel that
\* disagrees with the one it names on ordering, ports or connections.
THEOREM OpenChannelsAgree == Spec => []ChanOpenAgrees
<1>1. ChanIInv /\ PairIInv => ChanOpenAgrees
  BY OpenEndsAgree, ChannelsAssume
<1> QED BY <1>1, PairInvariance, PTL

\* An OPEN channel is the one named by the channel it was shown.
LEMMA OpenEndsArePaired ==
    ASSUME ChanAssumptions, ChanIInv, PairIInv
    PROVE  ChanOpenIsPaired
BY OpenSeesPeer DEF ChanOpenIsPaired, IsOpen

\* Outside crossing handshakes no two channels are opened with one counterparty:
\* it names each of those that name it, and has the version they have.
THEOREM OpenChannelsArePaired == Spec => []ChanOpenIsPaired
<1>1. ChanIInv /\ PairIInv => ChanOpenIsPaired
  BY OpenEndsArePaired, ChannelsAssume
<1> QED BY <1>1, PairInvariance, PTL

\* acknowledgePacket takes no packet off the list that the other end has not
\* handed to its application and answered.
LEMMA GoneIsDelivered ==
    ASSUME HeldIInv, ChanAssumptions, NEW c \in Chain, NEW i \in ChanId,
           ~ChanReused(c, i), NEW seq \in Seqs, seq < nextSequenceSend[c][i],
           packets[c][i][seq] = NoPacket
    PROVE  LET j == chans[c][i].cpChan IN
           /\ WasDelivered(Other(c), j, seq)
           /\ acknowledgements[Other(c)][j][seq] # NoAck
<1>1. \E a \in ackLog[Other(c)] : a.chan = chans[c][i].cpChan /\ a.seq = seq
  BY DEF HeldIInv, GoneWasAcked
<1>2. Other(c) \in Chain
  BY OtherHost DEF ChanAssumptions, ConnAssumptions
<1> QED BY <1>1, <1>2 DEF HeldIInv, AckedIsDelivered

\* What no longer awaits an acknowledgement was received.
LEMMA GoneIsReceived ==
    ASSUME ChanAssumptions, HeldIInv
    PROVE  AckedWasReceived
BY GoneIsDelivered DEF AckedWasReceived, IsOpen, NotCrossed

\* A packet that is gone has been received and answered.
THEOREM AckedPacketsWereReceived == Spec => []AckedWasReceived
<1>1. HeldIInv => AckedWasReceived
  BY GoneIsReceived, ChannelsAssume
<1> QED BY <1>1, PairInvariance, PTL

\* The receiver is bounded above by what was sent to it, below by what the sender
\* no longer holds.
LEMMA WindowIsAligned ==
    ASSUME ChanAssumptions, ChanIInv, PairIInv, HeldIInv
    PROVE  OrderedWindow
<1> SUFFICES ASSUME NEW c \in Chain, NEW i \in ChanId, chans[c][i].state = "OPEN",
                    NotCrossed(c, i), chans[c][i].order = "ORDERED"
             PROVE  LET next == nextSequenceRecv[Other(c)][chans[c][i].cpChan] IN
                    /\ nextSequenceAck[c][i] <= next /\ next <= nextSequenceSend[c][i]
                    /\ {seq \in Seqs : packets[c][i][seq] # NoPacket}
                          = nextSequenceAck[c][i]..(nextSequenceSend[c][i] - 1)
  BY DEF OrderedWindow, IsOpen
<1> DEFINE end == chans[c][i]
           d == Other(c)
           j == end.cpChan
           got == delivered[d][j]
           acked == nextSequenceAck[c][i]
           sent == nextSequenceSend[c][i]
           next == nextSequenceRecv[d][j]
<1>1. d \in Chain /\ Other(d) = c
  BY OtherHost DEF ChanAssumptions, ConnAssumptions
<1>2. /\ j \in ChanId /\ chans[d][j].order = "ORDERED" /\ chans[d][j].cpChan = i
  BY OpenSeesPeer DEF NotCrossed
<1>3. /\ acked \in 1..(MaxSeq + 1) /\ sent \in 1..(MaxSeq + 1) /\ MaxSeq \in Nat
      /\ Len(got) \in Nat
  <2>1. /\ nextSequenceSend \in [Chain -> [ChanId -> 1..(MaxSeq + 1)]]
        /\ nextSequenceAck \in [Chain -> [ChanId -> 1..(MaxSeq + 1)]]
        /\ delivered \in [Chain -> [ChanId -> Seq(Seqs \X Data)]]
    BY DEF ChanIInv, TypeOK
  <2>2. got \in Seq(Seqs \X Data)
    BY <1>1, <1>2, <2>1
  <2>3. Len(got) \in Nat
    BY <2>2
  <2> QED BY <2>1, <2>3 DEF ChanAssumptions, ChanBoundsAreNat
<1>4. /\ acked <= sent
      /\ \A seq \in Seqs : packets[c][i][seq] # NoPacket <=> acked <= seq /\ seq < sent
  BY DEF HeldIInv, OrderedHolds, NotCrossed
<1>5. next = Len(got) + 1 /\ \A k \in 1..Len(got) : got[k][1] = k
  BY <1>1, <1>2 DEF ChanIInv, InOrder
<1>6. next <= sent
  <2>1. CASE Len(got) = 0
    BY <1>3, <1>5, <2>1
  <2>2. CASE Len(got) # 0
    <3>1. Len(got) \in 1..Len(got)
      BY <1>3, <2>2
    <3>2. PICK p \in sentLog[c] : p.chan = i /\ p.seq = Len(got)
      <4> DEFINE p == [port |-> chans[d][j].cpPort, chan |-> chans[d][j].cpChan,
                       seq |-> got[Len(got)][1], data |-> got[Len(got)][2]]
      <4>1. p \in sentLog[c]
        BY <1>1, <1>2, <3>1 DEF ChanIInv, DeliveredWasSent
      <4>2. p.chan = i /\ p.seq = Len(got)
        BY <1>2, <1>5, <3>1
      <4> QED BY <4>1, <4>2
    <3>3. Len(got) < sent
      BY <3>2 DEF ChanIInv, SentOnce
    <3> HIDE DEF got, sent, next
    <3> QED BY <1>3, <1>5, <3>3
  <2> QED BY <2>1, <2>2
<1>7. acked <= next
  <2>1. CASE acked = 1
    <3> HIDE DEF got, acked, next
    <3> QED BY <1>3, <1>5, <2>1
  <2>2. CASE acked # 1
    <3> DEFINE s == acked - 1
    <3>1. s \in Seqs /\ s < sent /\ s < acked /\ acked = s + 1
      BY <1>3, <1>4, <2>2 DEF Seqs
    <3> HIDE DEF s
    <3>2. packets[c][i][s] = NoPacket
      <4>1. s \in Nat
        BY <1>3, <3>1 DEF Seqs
      <4>2. ~(acked <= s)
        BY <1>3, <3>1, <4>1
      <4> QED BY <1>4, <3>1, <4>2
    <3>3. WasDelivered(d, j, s)
      BY <3>1, <3>2, GoneIsDelivered DEF NotCrossed
    <3>4. PICK k \in 1..Len(got) : got[k][1] = s
      BY <3>3 DEF WasDelivered
    <3>5. s = k
      BY <1>5, <3>4
    <3> HIDE DEF got, acked, next
    <3> QED BY <1>3, <1>5, <3>1, <3>4, <3>5
  <2> QED BY <2>1, <2>2
<1>8. {seq \in Seqs : packets[c][i][seq] # NoPacket} = acked..(sent - 1)
  <2>1. {seq \in Seqs : packets[c][i][seq] # NoPacket}
           = {seq \in Seqs : acked <= seq /\ seq < sent}
    BY <1>4
  <2> HIDE DEF acked, sent
  <2>2. {seq \in Seqs : acked <= seq /\ seq < sent} = acked..(sent - 1)
    BY <1>3 DEF Seqs
  <2> QED BY <2>1, <2>2
<1> QED BY <1>6, <1>7, <1>8

\* On an ORDERED channel the sender's window of packets that await an
\* acknowledgement and the receiver's next sequence number never drift apart.
THEOREM OrderedWindowsAlign == Spec => []OrderedWindow
<1>1. ChanIInv /\ PairIInv /\ HeldIInv => OrderedWindow
  BY WindowIsAligned, ChannelsAssume
<1> QED BY <1>1, PairInvariance, PTL
=============================================================================
