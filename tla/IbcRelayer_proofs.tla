-------------------------- MODULE IbcRelayer_proofs --------------------------
(***************************************************************************)
(* What the relayer submits is never refused for its proof, for any number *)
(* of channels, packets and relayed hosts, any limits and any number of    *)
(* lost calls.  The relayer acts on what four queries of vaults told it    *)
(* some time ago; the invariant says why that does no harm: everything a   *)
(* vault or the relayer holds a copy of is in the evidence, and evidence   *)
(* is never taken back.                                                    *)
(***************************************************************************)
EXTENDS IbcRelayer, IbcEstablished_proofs

RelayAssumptions == EstAssumptions /\ RelayBoundsAreNat /\ SourcesAreHosts

\* The assumptions of the modules, under one name.
LEMMA RelayAssumes == RelayAssumptions
BY EstablishedAssumptions, RelayBoundsAreNat, SourcesAreHosts DEF RelayAssumptions

\* The records that prove a packet of channel i of host c, and its answer to one.
SentRecord(c, i, seq, data) ==
    [port |-> chans[c][i].port, chan |-> i, seq |-> seq, data |-> data]
AnswerRecord(c, i, seq, ack) ==
    [port |-> chans[c][i].port, chan |-> i, seq |-> seq, ack |-> ack]

\* What a host has answered is in the evidence.
AnswerIsLogged ==
    \A c \in Chain, i \in ChanId, seq \in Seqs :
        acknowledgements[c][i][seq] # NoAck =>
            AnswerRecord(c, i, seq, acknowledgements[c][i][seq].ack) \in ackLog[c]

\* What a vault shows is in the evidence, however old it is.
SeenIsLogged ==
    \A c \in Chain, i \in ChanId, seq \in Seqs :
        /\ seen[c].packets[i][seq] # NoPacket =>
              SentRecord(c, i, seq, seen[c].packets[i][seq].data) \in sentLog[c]
        /\ seen[c].acks[i][seq] # NoAck =>
              AnswerRecord(c, i, seq, seen[c].acks[i][seq].ack) \in ackLog[c]

\* A message is backed by the evidence of the host it was fetched from.
IsLogged(c, i, k, m) ==
    IF k = "packets" THEN SentRecord(c, i, m.seq, m.body.data) \in sentLog[c]
                     ELSE AnswerRecord(Other(c), Partner(i), m.seq, m.body.ack) \in ackLog[Other(c)]

FetchedIsLogged ==
    \A c \in Sources, i \in ChanId, k \in Kinds :
        job[c][i][k].step = "fetched" =>
            \A m \in job[c][i][k].todo : IsLogged(c, i, k, m)

\* The connections of the channels have no delay period.
NoDelay == \A c \in Chain, i \in ChanId : conns[c][chans[c][i].hop].delay = 0

Sight == [packets: [ChanId -> [Seqs -> Packet \cup {NoPacket}]],
          receipts: [ChanId -> SUBSET Seqs],
          acks: [ChanId -> [Seqs -> Written \cup {NoAck}]]]

\* What there may be left to do, by kind and step.
Todo(k, step) ==
    IF step # "fetched" THEN Seqs
    ELSE IF k = "packets" THEN [seq: Seqs, body: Packet] ELSE [seq: Seqs, body: Written]

\* The jobs of the relayer, and what each of them has to do.
JobTypes ==
    /\ job = [c \in Sources |-> [i \in ChanId |-> [k \in Kinds |-> job[c][i][k]]]]
    /\ \A c \in Sources, i \in ChanId, k \in Kinds :
          /\ job[c][i][k].step \in Steps
          /\ job[c][i][k].todo \subseteq Todo(k, job[c][i][k].step)

RelayTypes ==
    /\ limit \in Limits /\ lost \in 0..MaxLost
    /\ seen \in [Chain -> Sight]
    /\ JobTypes

\* The inductive invariant of the relayer.
RelayIInv ==
    /\ EstIInv /\ NoDelay
    /\ RelayTypes
    /\ AnswerIsLogged /\ SeenIsLogged /\ FetchedIsLogged

\* The hosts and the channels come in pairs, and what is relayed is a host's.
LEMMA HostsAndChannels ==
    ASSUME RelayAssumptions
    PROVE  /\ \A c \in Chain : Other(c) \in Chain /\ Other(Other(c)) = c
           /\ \A i \in ChanId : Partner(i) \in ChanId /\ Partner(Partner(i)) = i
           /\ \A c \in Sources : c \in Chain
BY OtherHost, PartnerFacts
DEF RelayAssumptions, SourcesAreHosts, EstAssumptions, ChanAssumptions, ConnAssumptions

(***************************************************************************)
(* The hosts.                                                              *)
(***************************************************************************)

\* No evidence is taken back, and the channels it is about keep their ports.
Grows ==
    /\ Rooted
    /\ \A c \in Chain : sentLog[c] \subseteq sentLog'[c] /\ ackLog[c] \subseteq ackLog'[c]

\* What relayers and users may ask of the hosts.
Call ==
    \/ \E c \in Chain, i \in ChanId, data \in Data : SendPacket(c, i, data)
    \/ \E c \in Chain, i \in ChanId, seq \in Seqs, data \in Data, ack \in Acks :
          RecvPacket(c, i, seq, data, ack)
    \/ \E c \in Chain, i \in ChanId, seq \in Seqs, ack \in Acks : AcknowledgePacket(c, i, seq, ack)
    \/ \E c \in Chain, i \in ChanId : ChanCloseInit(c, i) \/ ChanCloseConfirm(c, i)

\* A call is a step of the hosts.
LEMMA CallIsNext ==
    ASSUME Call
    PROVE  Next
BY DEF Call, Next, PacketNext, HandshakeNext

\* A call changes neither a connection nor the one a channel is opened over.
LEMMA CallKeepsHops ==
    ASSUME TypeOK, Linked, Call
    PROVE  UNCHANGED conns /\ \A c \in Chain, i \in ChanId : chans'[c][i].hop = chans[c][i].hop
<1>1. ASSUME NEW c \in Chain, NEW i \in ChanId, Close(c, i)
      PROVE  UNCHANGED conns /\ \A d \in Chain, k \in ChanId : chans'[d][k].hop = chans[d][k].hop
  <2>1. /\ chans' = [chans EXCEPT ![c][i] = Closed(chans[c][i])]
        /\ UNCHANGED conns
    BY <1>1 DEF Close, Closed, OutputEnd, connVars
  <2>2. chans \in [Chain -> [ChanId -> ChanEnd \cup {NoChan}]]
    BY DEF TypeOK
  <2>3. chans[c][i] \in ChanEnd
    BY IssuedIsChanEnd DEF Linked
  <2>4. Closed(chans[c][i]).hop = chans[c][i].hop
    BY <2>3, ClosedFields
  <2> QED BY <2>1, <2>2, <2>4
<1>2. ASSUME NEW c, NEW i, NEW data, SendPacket(c, i, data)
      PROVE  UNCHANGED <<conns, chans>>
  BY <1>2 DEF SendPacket, connVars
<1>3. ASSUME NEW c, NEW i, NEW seq, NEW data, NEW ack, RecvPacket(c, i, seq, data, ack)
      PROVE  UNCHANGED <<conns, chans>>
  BY <1>3 DEF RecvPacket, connVars
<1>4. ASSUME NEW c, NEW i, NEW seq, NEW ack, AcknowledgePacket(c, i, seq, ack)
      PROVE  UNCHANGED <<conns, chans>>
  BY <1>4 DEF AcknowledgePacket, connVars
<1> QED BY <1>1, <1>2, <1>3, <1>4 DEF Call, ChanCloseInit, ChanCloseConfirm

\* A call adds to the evidence at most what it sends or answers.
LEMMA CallGrows ==
    ASSUME RelayAssumptions, EstIInv, AnswerIsLogged, NoDelay, Call
    PROVE  EstIInv' /\ Grows /\ AnswerIsLogged' /\ NoDelay'
<1> USE DEF RelayAssumptions
<1>1. EstIInv' /\ Rooted
  BY CallIsNext, EstStep
<1>2. TypeOK /\ Linked /\ AnsweredIsReceived /\ EvidenceIsAnswer
  BY DEF EstIInv, ChanIInv, TransitIInv
<1>3. acknowledgements \in [Chain -> [ChanId -> [Seqs -> Written \cup {NoAck}]]]
  BY <1>2, PacketTypes DEF EstAssumptions
<1>4. NoDelay'
  BY <1>2, CallKeepsHops DEF NoDelay
<1>5. Grows /\ AnswerIsLogged'
  <2>1. CASE UNCHANGED <<acknowledgements, ackLog>> /\ \A c \in Chain : sentLog[c] \subseteq sentLog'[c]
    <3>1. AnswerIsLogged'
      BY <1>1, <2>1 DEF Rooted, AnswerIsLogged, AnswerRecord
    <3> QED BY <1>1, <2>1, <3>1 DEF Grows
  <2>2. ASSUME NEW c \in Chain, NEW i \in ChanId, NEW data \in Data, SendPacket(c, i, data)
        PROVE  Grows /\ AnswerIsLogged'
    <3>1. /\ UNCHANGED <<acknowledgements, ackLog>>
          /\ \A d \in Chain : d # c => sentLog'[d] = sentLog[d]
          /\ sentLog[c] \subseteq sentLog'[c]
      <4> DEFINE sent == [port |-> chans[c][i].port, chan |-> i,
                          seq |-> nextSequenceSend[c][i], data |-> data]
      <4>1. sentLog' = [sentLog EXCEPT ![c] = @ \cup {sent}] /\ UNCHANGED <<acknowledgements, ackLog>>
        BY <2>2 DEF SendPacket, recvVars
      <4>2. DOMAIN sentLog = Chain
        BY <1>2 DEF TypeOK
      <4> HIDE DEF sent
      <4> QED BY <4>1, <4>2
    <3> QED BY <2>1, <3>1
  <2>3. ASSUME NEW c \in Chain, NEW i \in ChanId, NEW seq \in Seqs, NEW data \in Data, NEW ack \in Acks,
               RecvPacket(c, i, seq, data, ack)
        PROVE  Grows /\ AnswerIsLogged'
    <3>1. /\ \A d \in Chain, k \in ChanId, s \in Seqs :
                acknowledgements'[d][k][s] = IF d = c /\ k = i /\ s = seq
                   THEN [ack |-> ack] ELSE acknowledgements[d][k][s]
          /\ ackLog'[c] = ackLog[c] \cup {AnswerRecord(c, i, seq, ack)}
          /\ \A d \in Chain : d # c => ackLog'[d] = ackLog[d]
          /\ UNCHANGED <<chans, packets, sentLog>>
      <4>1. /\ acknowledgements[c][i][seq] = NoAck
            /\ [port |-> chans[c][i].cpPort, chan |-> Partner(i), seq |-> seq, data |-> data]
                  \in sentLog[Other(c)]
            /\ \A d \in Chain, k \in ChanId, s \in Seqs :
                  acknowledgements'[d][k][s] = IF d = c /\ k = i /\ s = seq
                     THEN [ack |-> ack] ELSE acknowledgements[d][k][s]
            /\ acknowledgements'[c][i][seq] # NoAck
            /\ chans[c][i].order = "UNORDERED" => seq \in receipts'[c][i]
            /\ chans[c][i].order = "ORDERED" => seq < nextSequenceRecv'[c][i]
            /\ \A d \in Chain, k \in ChanId :
                  receipts[d][k] \subseteq receipts'[d][k] /\ nextSequenceRecv[d][k] <= nextSequenceRecv'[d][k]
            /\ ackLog'[c] = ackLog[c] \cup {[port |-> chans[c][i].port, chan |-> i, seq |-> seq, ack |-> ack]}
            /\ \A d \in Chain : d # c => ackLog'[d] = ackLog[d]
            /\ UNCHANGED <<chans, packets, sentLog>>
        BY <1>2, <2>3, RecvFacts
      <4> QED BY <4>1 DEF AnswerRecord
    <3>2. \A d \in Chain : ackLog[d] \subseteq ackLog'[d]
      BY <3>1
    <3>3. AnswerRecord(c, i, seq, ack) \in ackLog'[c]
      BY <3>1
    <3>4. AnswerIsLogged'
      <4>1. SUFFICES ASSUME NEW d \in Chain, NEW k \in ChanId, NEW s \in Seqs,
                            acknowledgements'[d][k][s] # NoAck
                     PROVE  AnswerRecord(d, k, s, acknowledgements'[d][k][s].ack) \in ackLog'[d]
        BY <3>1 DEF AnswerIsLogged, AnswerRecord
      <4>2. CASE d = c /\ k = i /\ s = seq
        <5>1. acknowledgements'[d][k][s].ack = ack
          BY <3>1, <4>2
        <5> QED BY <3>3, <4>2, <5>1
      <4>3. CASE ~(d = c /\ k = i /\ s = seq)
        <5>1. acknowledgements'[d][k][s] = acknowledgements[d][k][s]
          BY <3>1, <4>3
        <5> QED BY <3>2, <4>1, <5>1 DEF AnswerIsLogged
      <4> QED BY <4>2, <4>3
    <3> QED BY <1>1, <3>1, <3>2, <3>4 DEF Grows
  <2>4. ASSUME NEW c \in Chain, NEW i \in ChanId, NEW seq \in Seqs, NEW ack \in Acks,
               AcknowledgePacket(c, i, seq, ack)
        PROVE  Grows /\ AnswerIsLogged'
    <3>1. UNCHANGED <<acknowledgements, ackLog, sentLog>>
      BY <2>4 DEF AcknowledgePacket, recvVars, packetLogs
    <3> QED BY <2>1, <3>1
  <2>5. ASSUME NEW c \in Chain, NEW i \in ChanId, ChanCloseInit(c, i) \/ ChanCloseConfirm(c, i)
        PROVE  Grows /\ AnswerIsLogged'
    <3>1. UNCHANGED <<acknowledgements, ackLog, sentLog>>
      BY <2>5 DEF ChanCloseInit, ChanCloseConfirm, Close, recvVars, packetLogs
    <3> QED BY <2>1, <3>1
  <2> QED BY <2>2, <2>3, <2>4, <2>5 DEF Call
<1> QED BY <1>1, <1>4, <1>5

\* What is in the evidence stays there.
LEMMA LoggedStays ==
    ASSUME RelayAssumptions, Grows
    PROVE  /\ \A c \in Chain, i \in ChanId : \A seq, data :
                 /\ SentRecord(c, i, seq, data)' = SentRecord(c, i, seq, data)
                 /\ SentRecord(c, i, seq, data) \in sentLog[c] =>
                       SentRecord(c, i, seq, data)' \in sentLog'[c]
           /\ \A c \in Chain, i \in ChanId : \A seq, ack :
                 /\ AnswerRecord(c, i, seq, ack)' = AnswerRecord(c, i, seq, ack)
                 /\ AnswerRecord(c, i, seq, ack) \in ackLog[c] =>
                       AnswerRecord(c, i, seq, ack)' \in ackLog'[c]
BY DEF Grows, Rooted, SentRecord, AnswerRecord

(***************************************************************************)
(* The relayer.                                                            *)
(***************************************************************************)

\* Copies stay backed whatever the hosts do.
LEMMA CopiesStay ==
    ASSUME RelayAssumptions, Grows
    PROVE  /\ SeenIsLogged /\ UNCHANGED seen => SeenIsLogged'
           /\ \A c \in Sources, i \in ChanId, k \in Kinds : \A m :
                 IsLogged(c, i, k, m) => IsLogged(c, i, k, m)'
<1>1. ASSUME SeenIsLogged, UNCHANGED seen
      PROVE  SeenIsLogged'
  BY <1>1, LoggedStays DEF SeenIsLogged
<1>2. ASSUME NEW c \in Sources, NEW i \in ChanId, NEW k \in Kinds, NEW m, IsLogged(c, i, k, m)
      PROVE  IsLogged(c, i, k, m)'
  BY <1>2, LoggedStays, HostsAndChannels DEF IsLogged
<1> QED BY <1>1, <1>2

\* Going on with a job touches no other job.
LEMMA ProceedFacts ==
    ASSUME JobTypes, NEW c \in Sources, NEW i \in ChanId, NEW k \in Kinds,
           NEW step \in Steps, NEW todo \in SUBSET Todo(k, step), Proceed(c, i, k, step, todo)
    PROVE  /\ JobTypes'
           /\ \A d \in Sources, j \in ChanId, l \in Kinds :
                 job'[d][j][l] = IF d = c /\ j = i /\ l = k
                                 THEN IF todo = {} THEN Idle ELSE Job(step, todo)
                                 ELSE job[d][j][l]
<1> DEFINE new == IF todo = {} THEN Idle ELSE Job(step, todo)
<1>1. job' = [job EXCEPT ![c][i][k] = new]
  BY DEF Proceed
<1>2. new.step \in Steps /\ new.todo \subseteq Todo(k, new.step)
  BY DEF Job, Idle, Steps
<1> HIDE DEF new
<1> DEFINE V == {new} \cup {job[d][j][l] : d \in Sources, j \in ChanId, l \in Kinds}
<1>3. job \in [Sources -> [ChanId -> [Kinds -> V]]]
  <2>1. job = [d \in Sources |-> [j \in ChanId |-> [l \in Kinds |-> job[d][j][l]]]]
    BY DEF JobTypes
  <2>2. \A d \in Sources, j \in ChanId, l \in Kinds : job[d][j][l] \in V
    OBVIOUS
  <2> HIDE DEF V
  <2> QED BY <2>1, <2>2
<1>4. new \in V
  OBVIOUS
<1> HIDE DEF V
<1>5. /\ job' \in [Sources -> [ChanId -> [Kinds -> V]]]
      /\ \A d \in Sources, j \in ChanId, l \in Kinds :
            job'[d][j][l] = IF d = c /\ j = i /\ l = k THEN new ELSE job[d][j][l]
  BY <1>1, <1>3, <1>4
<1>6. job' = [d \in Sources |-> [j \in ChanId |-> [l \in Kinds |-> job'[d][j][l]]]]
  BY <1>5
<1>7. \A d \in Sources, j \in ChanId, l \in Kinds :
         job'[d][j][l].step \in Steps /\ job'[d][j][l].todo \subseteq Todo(l, job'[d][j][l].step)
  <2>1. TAKE d \in Sources, j \in ChanId, l \in Kinds
  <2>2. job[d][j][l].step \in Steps /\ job[d][j][l].todo \subseteq Todo(l, job[d][j][l].step)
    BY DEF JobTypes
  <2>3. CASE d = c /\ j = i /\ l = k
    BY <1>2, <1>5, <2>3
  <2>4. CASE ~(d = c /\ j = i /\ l = k)
    <3>1. job'[d][j][l] = job[d][j][l]
      BY <1>5, <2>4
    <3> QED BY <2>2, <3>1
  <2> QED BY <2>3, <2>4
<1>8. JobTypes'
  BY <1>6, <1>7 DEF JobTypes
<1> QED BY <1>5, <1>8 DEF new

\* A step of one job preserves the invariant when what it leaves to submit is
\* backed.
LEMMA JobStep ==
    ASSUME RelayAssumptions, RelayIInv, NEW c \in Sources, NEW i \in ChanId, NEW k \in Kinds,
           NEW step \in Steps, NEW todo \in SUBSET Todo(k, step), Proceed(c, i, k, step, todo),
           UNCHANGED <<limit, seen>>, lost' \in 0..MaxLost,
           EstIInv' /\ Grows /\ AnswerIsLogged' /\ NoDelay',
           step = "fetched" => \A m \in todo : IsLogged(c, i, k, m)
    PROVE  RelayIInv'
<1>1. /\ JobTypes'
      /\ \A d \in Sources, j \in ChanId, l \in Kinds :
            job'[d][j][l] = IF d = c /\ j = i /\ l = k
                            THEN IF todo = {} THEN Idle ELSE Job(step, todo)
                            ELSE job[d][j][l]
  BY ProceedFacts DEF RelayIInv, RelayTypes
<1>2. RelayTypes'
  BY <1>1 DEF RelayIInv, RelayTypes
<1>3. SeenIsLogged'
  BY CopiesStay DEF RelayIInv
<1>4. FetchedIsLogged'
  <2>1. SUFFICES ASSUME NEW d \in Sources, NEW j \in ChanId, NEW l \in Kinds,
                        job'[d][j][l].step = "fetched", NEW m \in job'[d][j][l].todo
                 PROVE  IsLogged(d, j, l, m)'
    BY DEF FetchedIsLogged
  <2>2. IsLogged(d, j, l, m)
    <3>1. CASE d = c /\ j = i /\ l = k
      <4>1. todo # {} /\ job'[d][j][l] = Job(step, todo)
        BY <1>1, <2>1, <3>1 DEF Idle, Job
      <4> QED BY <2>1, <3>1, <4>1 DEF Job
    <3>2. CASE ~(d = c /\ j = i /\ l = k)
      <4>1. job'[d][j][l] = job[d][j][l]
        BY <1>1, <3>2
      <4> QED BY <2>1, <4>1 DEF RelayIInv, FetchedIsLogged
    <3> QED BY <3>1, <3>2
  <2> QED BY <2>2, CopiesStay
<1> QED BY <1>2, <1>3, <1>4 DEF RelayIInv

\* The hosts are as they were.
LEMMA HostsRest ==
    ASSUME RelayIInv, UNCHANGED vars
    PROVE  EstIInv' /\ Grows /\ AnswerIsLogged' /\ NoDelay'
<1>1. EstIInv' /\ Rooted
  <2>1. EstIInv /\ [Next]_vars
    BY DEF RelayIInv
  <2> QED BY <2>1, EstStep, EstablishedAssumptions
<1>2. UNCHANGED <<conns, chans, acknowledgements, sentLog, ackLog>>
  BY DEF vars, connVars, chanVars, recvVars, packetLogs
<1>3. Grows /\ AnswerIsLogged' /\ NoDelay'
  BY <1>1, <1>2 DEF RelayIInv, Grows, AnswerIsLogged, AnswerRecord, NoDelay
<1> QED BY <1>1, <1>3

\* What a vault records is what its host holds, which is in the evidence.
LEMMA SyncStep ==
    ASSUME RelayAssumptions, RelayIInv, NEW c \in Chain, Sync(c)
    PROVE  RelayIInv'
<1>1. /\ seen' = [seen EXCEPT ![c] = State(c)]
      /\ UNCHANGED <<vars, limit, job, lost>>
  BY DEF Sync
<1>2. EstIInv' /\ Grows /\ AnswerIsLogged' /\ NoDelay'
  BY <1>1, HostsRest
<1>3. seen \in [Chain -> Sight] /\ JobTypes
  BY DEF RelayIInv, RelayTypes
<1>4. State(c) \in Sight
  <2>1. TypeOK
    BY DEF RelayIInv, EstIInv, ChanIInv
  <2>2. /\ packets \in [Chain -> [ChanId -> [Seqs -> Packet \cup {NoPacket}]]]
        /\ receipts \in [Chain -> [ChanId -> SUBSET Seqs]]
        /\ acknowledgements \in [Chain -> [ChanId -> [Seqs -> Written \cup {NoAck}]]]
    BY <2>1, PacketTypes, EvidenceTypes DEF RelayAssumptions, EstAssumptions
  <2> QED BY <2>2 DEF State, Sight
<1>5. RelayTypes'
  <2>1. JobTypes'
    BY <1>1, <1>3 DEF JobTypes
  <2> QED BY <1>1, <1>3, <1>4, <2>1 DEF RelayIInv, RelayTypes
<1>6. SeenIsLogged'
  <2>1. \A i \in ChanId, seq \in Seqs :
           /\ State(c).packets[i][seq] # NoPacket =>
                 SentRecord(c, i, seq, State(c).packets[i][seq].data) \in sentLog[c]
           /\ State(c).acks[i][seq] # NoAck =>
                 AnswerRecord(c, i, seq, State(c).acks[i][seq].ack) \in ackLog[c]
    BY DEF State, RelayIInv, EstIInv, TransitIInv, HeldIsSent, AnswerIsLogged, SentRecord
  <2>2. \A d \in Chain : seen'[d] = IF d = c THEN State(c) ELSE seen[d]
    BY <1>1, <1>3
  <2>3. \A d \in Chain, i \in ChanId, seq \in Seqs :
           /\ seen'[d].packets[i][seq] # NoPacket =>
                 SentRecord(d, i, seq, seen'[d].packets[i][seq].data) \in sentLog[d]
           /\ seen'[d].acks[i][seq] # NoAck =>
                 AnswerRecord(d, i, seq, seen'[d].acks[i][seq].ack) \in ackLog[d]
    BY <2>1, <2>2 DEF RelayIInv, SeenIsLogged
  <2> QED BY <1>2, <2>3, LoggedStays DEF SeenIsLogged
<1>7. FetchedIsLogged'
  BY <1>1, <1>2, CopiesStay DEF RelayIInv, FetchedIsLogged
<1> QED BY <1>2, <1>5, <1>6, <1>7 DEF RelayIInv

\* The relayer looks up the channel that faces the one it relays.
LEMMA PeerIsPartner ==
    ASSUME RelayAssumptions, RelayIInv, NEW c \in Sources, NEW i \in ChanId
    PROVE  Peer(c, i) = Partner(i)
BY HostsAndChannels DEF RelayIInv, EstIInv, Linked, Peer

\* List notes sequence numbers.
LEMMA ListStep ==
    ASSUME RelayAssumptions, RelayIInv, NEW c \in Sources, NEW i \in ChanId, NEW k \in Kinds,
           List(c, i, k)
    PROVE  RelayIInv'
<1> DEFINE todo == CASE k = "packets" -> PacketCommitments(c, i)
                     [] k = "answers" -> PacketAcknowledgements(Other(c), Peer(c, i))
<1>1. Proceed(c, i, k, "listed", todo) /\ UNCHANGED <<vars, limit, seen, lost>>
  BY DEF List
<1>2. todo \in SUBSET Todo(k, "listed") /\ "listed" \in Steps
  BY DEF Kinds, PacketCommitments, PacketAcknowledgements, Page, Todo, Steps
<1> HIDE DEF todo
<1> QED BY <1>1, <1>2, HostsRest, JobStep DEF RelayIInv, RelayTypes

\* Ask leaves some of the sequence numbers listed.
LEMMA AskStep ==
    ASSUME RelayAssumptions, RelayIInv, NEW c \in Sources, NEW i \in ChanId, NEW k \in Kinds,
           Ask(c, i, k)
    PROVE  RelayIInv'
<1> DEFINE listed == job[c][i][k].todo
           todo == CASE k = "packets" -> UnreceivedPackets(Other(c), Peer(c, i), listed)
                     [] k = "answers" -> UnreceivedAcks(c, i, listed)
<1>1. /\ job[c][i][k].step = "listed"
      /\ Proceed(c, i, k, "asked", todo) /\ UNCHANGED <<vars, limit, seen, lost>>
  BY DEF Ask
<1>2. listed \subseteq Seqs
  BY <1>1 DEF RelayIInv, RelayTypes, JobTypes, Todo
<1>3. todo \in SUBSET Todo(k, "asked") /\ "asked" \in Steps
  BY <1>2 DEF Kinds, UnreceivedPackets, UnreceivedAcks, Todo, Steps
<1> HIDE DEF todo, listed
<1> QED BY <1>1, <1>3, HostsRest, JobStep DEF RelayIInv, RelayTypes

\* A message that can be fetched is one of a backed packet or answer.
LEMMA MessageFacts ==
    ASSUME RelayAssumptions, RelayIInv, NEW c \in Sources, NEW i \in ChanId, NEW k \in Kinds,
           NEW s \in Seqs, Fetchable(c, i, k, s)
    PROVE  Message(c, i, k, s) \in Todo(k, "fetched") /\ IsLogged(c, i, k, Message(c, i, k, s))
<1>1. /\ c \in Chain /\ Other(c) \in Chain /\ Partner(i) \in ChanId /\ Peer(c, i) = Partner(i)
      /\ seen \in [Chain -> Sight] /\ SeenIsLogged
  BY HostsAndChannels, PeerIsPartner DEF RelayIInv, RelayTypes
<1>2. CASE k = "packets"
  <2> DEFINE packet == seen[c].packets[i][s]
  <2>1. packet # NoPacket
    BY DEF Fetchable
  <2>2. packet \in Packet /\ SentRecord(c, i, s, packet.data) \in sentLog[c]
    BY <1>1, <2>1 DEF Sight, SeenIsLogged
  <2>3. Message(c, i, k, s) = [seq |-> s, body |-> packet]
    BY <1>2 DEF Message
  <2> HIDE DEF packet
  <2> QED BY <1>2, <2>2, <2>3 DEF Todo, IsLogged
<1>3. CASE k = "answers"
  <2> DEFINE answer == seen[Other(c)].acks[Partner(i)][s]
  <2>1. answer # NoAck
    BY <1>1, <1>3 DEF Fetchable
  <2>2. answer \in Written /\ AnswerRecord(Other(c), Partner(i), s, answer.ack) \in ackLog[Other(c)]
    BY <1>1, <2>1 DEF Sight, SeenIsLogged
  <2>3. Message(c, i, k, s) = [seq |-> s, body |-> answer]
    BY <1>1, <1>3 DEF Message
  <2> HIDE DEF answer
  <2> QED BY <1>3, <2>2, <2>3 DEF Todo, IsLogged
<1> QED BY <1>2, <1>3 DEF Kinds

\* Fetch replaces sequence numbers by messages, which are backed.
LEMMA FetchStep ==
    ASSUME RelayAssumptions, RelayIInv, NEW c \in Sources, NEW i \in ChanId, NEW k \in Kinds,
           Fetch(c, i, k)
    PROVE  RelayIInv'
<1> DEFINE asked == job[c][i][k].todo
           todo == IF \A s \in asked : Fetchable(c, i, k, s)
                   THEN {Message(c, i, k, s) : s \in asked} ELSE {}
<1>1. /\ job[c][i][k].step = "asked"
      /\ Proceed(c, i, k, "fetched", todo) /\ UNCHANGED <<vars, limit, seen, lost>>
  BY DEF Fetch
<1>2. asked \subseteq Seqs
  BY <1>1 DEF RelayIInv, RelayTypes, JobTypes, Todo
<1>3. /\ todo \in SUBSET Todo(k, "fetched") /\ "fetched" \in Steps
      /\ \A m \in todo : IsLogged(c, i, k, m)
  <2>1. \A m \in todo : \E s \in Seqs : Fetchable(c, i, k, s) /\ m = Message(c, i, k, s)
    BY <1>2
  <2> QED BY <2>1, MessageFacts DEF Steps
<1> HIDE DEF todo, asked
<1> QED BY <1>1, <1>3, HostsRest, JobStep DEF RelayIInv, RelayTypes

\* A message that is submitted is one of the calls the hosts know.
LEMMA DeliverCalls ==
    ASSUME RelayAssumptions, RelayIInv, NEW c \in Sources, NEW i \in ChanId, NEW k \in Kinds,
           Deliver(c, i, k)
    PROVE  Call
<1> DEFINE messages == job[c][i][k].todo
<1>1. PICK m \in NextMessage(messages) : Handled(c, i, k, m)
  BY DEF Deliver
<1>2. m \in Todo(k, "fetched")
  BY <1>1 DEF Deliver, NextMessage, RelayIInv, RelayTypes, JobTypes
<1>3. /\ c \in Chain /\ Other(c) \in Chain /\ Partner(i) \in ChanId /\ Peer(c, i) = Partner(i)
  BY HostsAndChannels, PeerIsPartner
<1>4. CASE k = "packets"
  <2>1. m.seq \in Seqs /\ m.body.data \in Data
    BY <1>2, <1>4 DEF Todo, Packet
  <2>2. PICK ack \in Acks : RecvPacket(Other(c), Partner(i), m.seq, m.body.data, ack)
    BY <1>1, <1>3, <1>4 DEF Handled
  <2> QED BY <1>3, <2>1, <2>2 DEF Call
<1>5. CASE k = "answers"
  <2>1. m.seq \in Seqs /\ m.body.ack \in Acks
    BY <1>2, <1>5 DEF Todo, Written
  <2>2. AcknowledgePacket(c, i, m.seq, m.body.ack)
    BY <1>1, <1>5 DEF Handled
  <2> QED BY <1>3, <2>1, <2>2 DEF Call
<1> QED BY <1>4, <1>5 DEF Kinds

\* What is left to submit has been there before.
LEMMA DeliverStep ==
    ASSUME RelayAssumptions, RelayIInv, NEW c \in Sources, NEW i \in ChanId, NEW k \in Kinds,
           Deliver(c, i, k)
    PROVE  RelayIInv'
<1> DEFINE messages == job[c][i][k].todo
<1>1. /\ job[c][i][k].step = "fetched" /\ UNCHANGED <<limit, seen, lost>>
      /\ \E m \in messages : Proceed(c, i, k, "fetched", messages \ {m})
  BY DEF Deliver, NextMessage
<1>2. PICK m \in messages : Proceed(c, i, k, "fetched", messages \ {m})
  BY <1>1
<1>3. messages \subseteq Todo(k, "fetched") /\ \A n \in messages : IsLogged(c, i, k, n)
  BY <1>1 DEF RelayIInv, RelayTypes, JobTypes, FetchedIsLogged
<1> HIDE DEF messages
<1>4. EstIInv' /\ Grows /\ AnswerIsLogged' /\ NoDelay'
  BY DeliverCalls, CallGrows DEF RelayIInv
<1>5. lost' \in 0..MaxLost
  BY <1>1 DEF RelayIInv, RelayTypes
<1>6. messages \ {m} \in SUBSET Todo(k, "fetched") /\ "fetched" \in Steps
  BY <1>3 DEF Steps
<1> QED BY <1>1, <1>2, <1>3, <1>4, <1>5, <1>6, JobStep

\* A cycle that ends early has nothing left to submit.
LEMMA GiveUpStep ==
    ASSUME RelayAssumptions, RelayIInv, NEW c \in Sources, NEW i \in ChanId, NEW k \in Kinds,
           Refuse(c, i, k) \/ Lose(c, i, k)
    PROVE  RelayIInv'
<1>1. CASE Refuse(c, i, k)
  <2>1. Proceed(c, i, k, "fetched", {}) /\ UNCHANGED <<vars, limit, seen, lost>>
    BY <1>1 DEF Refuse
  <2>2. {} \in SUBSET Todo(k, "fetched") /\ "fetched" \in Steps
    BY DEF Steps
  <2> QED BY <2>1, <2>2, HostsRest, JobStep DEF RelayIInv, RelayTypes
<1>2. CASE Lose(c, i, k)
  <2>1. /\ Proceed(c, i, k, "idle", {}) /\ UNCHANGED <<vars, limit, seen>>
        /\ lost < MaxLost /\ lost' = lost + 1
    BY <1>2 DEF Lose
  <2>2. {} \in SUBSET Todo(k, "idle") /\ "idle" \in Steps
    BY DEF Steps
  <2>3. lost' \in 0..MaxLost
    BY <2>1 DEF RelayIInv, RelayTypes, RelayAssumptions, RelayBoundsAreNat
  <2> QED BY <2>1, <2>2, <2>3, HostsRest, JobStep
<1> QED BY <1>1, <1>2

\* Users and other relayers touch neither the vaults nor the relayer.
LEMMA OthersStep ==
    ASSUME RelayAssumptions, RelayIInv, OthersNext
    PROVE  RelayIInv'
<1>1. Call /\ UNCHANGED relayVars
  BY HostsAndChannels DEF OthersNext, Call
<1>2. EstIInv' /\ Grows /\ AnswerIsLogged' /\ NoDelay'
  BY <1>1, CallGrows DEF RelayIInv
<1>3. UNCHANGED <<limit, seen, job, lost>>
  BY <1>1 DEF relayVars
<1>4. RelayTypes'
  BY <1>3 DEF RelayIInv, RelayTypes, JobTypes
<1>5. SeenIsLogged' /\ FetchedIsLogged'
  BY <1>2, <1>3, CopiesStay DEF RelayIInv, FetchedIsLogged
<1> QED BY <1>2, <1>4, <1>5 DEF RelayIInv

(***************************************************************************)
(* The theorems.                                                           *)
(***************************************************************************)

\* Nothing is sent, seen or planned yet.
LEMMA RelayStarts ==
    ASSUME RelayAssumptions, RelayInit
    PROVE  RelayIInv
<1> USE DEF RelayInit
<1>1. EstIInv
  BY EstStarts DEF RelayAssumptions
<1>2. PacketInit
  BY DEF EstablishedInit
<1>3. NoDelay
  <2>1. PICK port, order, version : StartWith(port, order, version)
    BY StartFacts
  <2>2. \A c \in Chain, i \in ChanId : chans[c][i].hop = 1
    BY <2>1, ChannelFields DEF StartWith, ChanAtStart
  <2>3. \A c \in Chain : conns[c][1] = ConnAtStart
    <3>1. 1 \in ConnId
      BY DEF RelayAssumptions, EstAssumptions, ChanAssumptions, ConnAssumptions, ConnectionFits,
             BoundsAreNat, ConnId
    <3> QED BY <3>1, StartFacts
  <2> QED BY <2>2, <2>3, EndFields DEF NoDelay, ConnAtStart
<1>4. \A c \in Chain : seen[c] = State(c) /\ State(c) \in Sight
  <2>1. TypeOK
    BY <1>1 DEF EstIInv, ChanIInv
  <2>2. /\ packets \in [Chain -> [ChanId -> [Seqs -> Packet \cup {NoPacket}]]]
        /\ receipts \in [Chain -> [ChanId -> SUBSET Seqs]]
        /\ acknowledgements \in [Chain -> [ChanId -> [Seqs -> Written \cup {NoAck}]]]
    BY <2>1, PacketTypes, EvidenceTypes DEF RelayAssumptions, EstAssumptions
  <2> QED BY <2>2 DEF State, Sight
<1>5. JobTypes
  <2>1. \A c \in Sources, i \in ChanId, k \in Kinds : job[c][i][k] = Idle
    OBVIOUS
  <2> QED BY <2>1 DEF JobTypes, Idle, Job, Steps
<1>6. RelayTypes
  <2>1. 0 \in 0..MaxLost
    BY DEF RelayAssumptions, RelayBoundsAreNat
  <2> QED BY <1>4, <1>5, <2>1 DEF RelayTypes
<1>7. AnswerIsLogged
  BY <1>2 DEF PacketInit, AnswerIsLogged
<1>8. SeenIsLogged
  BY <1>2, <1>4 DEF PacketInit, State, SeenIsLogged
<1>9. FetchedIsLogged
  BY DEF FetchedIsLogged, Idle, Job
<1> QED BY <1>1, <1>3, <1>6, <1>7, <1>8, <1>9 DEF RelayIInv

\* Every step preserves the invariant.
LEMMA RelayStep ==
    ASSUME RelayAssumptions, RelayIInv, [RelayNext]_allVars
    PROVE  RelayIInv'
<1>1. CASE OthersNext
  BY <1>1, OthersStep
<1>2. ASSUME NEW c \in Chain, Sync(c)
      PROVE  RelayIInv'
  BY <1>2, SyncStep
<1>3. ASSUME NEW c \in Sources, NEW i \in ChanId, NEW k \in Kinds, Cycle(c, i, k)
      PROVE  RelayIInv'
  BY <1>3, ListStep, AskStep, FetchStep, DeliverStep, GiveUpStep DEF Cycle
<1>4. ASSUME NEW c \in Sources, NEW i \in ChanId, NEW k \in Kinds, Lose(c, i, k)
      PROVE  RelayIInv'
  BY <1>4, GiveUpStep
<1>5. CASE UNCHANGED allVars
  <2>1. UNCHANGED vars /\ UNCHANGED <<limit, seen, job, lost>>
    BY <1>5 DEF allVars, relayVars
  <2>2. EstIInv' /\ Grows /\ AnswerIsLogged' /\ NoDelay'
    BY <2>1, HostsRest
  <2> QED BY <2>1, <2>2, CopiesStay DEF RelayIInv, RelayTypes, JobTypes, FetchedIsLogged
<1> QED BY <1>1, <1>2, <1>3, <1>4, <1>5 DEF RelayNext

\* Whatever the vaults show and the relayer holds copies of is in the evidence of
\* the host it comes from, and stays there.
THEOREM RelayInvariance == RelaySpec => []RelayIInv
<1>1. RelayInit => RelayIInv
  BY RelayStarts, RelayAssumes
<1>2. RelayIInv /\ [RelayNext]_allVars => RelayIInv'
  BY RelayStep, RelayAssumes
<1> QED BY <1>1, <1>2, PTL DEF RelaySpec

\* Each step of the relayer is a call of a host or leaves the hosts alone.
LEMMA RelayNextIsNext ==
    ASSUME RelayAssumptions, RelayIInv, [RelayNext]_allVars
    PROVE  [Next]_vars
<1>1. CASE OthersNext
  <2>1. Call
    BY <1>1, HostsAndChannels DEF OthersNext, Call
  <2> QED BY <2>1, CallIsNext
<1>2. ASSUME NEW c \in Chain, Sync(c)
      PROVE  UNCHANGED vars
  BY <1>2 DEF Sync
<1>3. ASSUME NEW c \in Sources, NEW i \in ChanId, NEW k \in Kinds, Deliver(c, i, k)
      PROVE  Next
  BY <1>3, DeliverCalls, CallIsNext
<1>4. ASSUME NEW c \in Sources, NEW i \in ChanId, NEW k \in Kinds,
             List(c, i, k) \/ Ask(c, i, k) \/ Fetch(c, i, k) \/ Lose(c, i, k)
      PROVE  UNCHANGED vars
  BY <1>4 DEF List, Ask, Fetch, Lose
<1>5. ASSUME NEW c \in Sources, NEW i \in ChanId, NEW k \in Kinds, Refuse(c, i, k)
      PROVE  UNCHANGED vars
  BY <1>5 DEF Refuse
<1>6. CASE UNCHANGED allVars
  BY <1>6 DEF allVars
<1> QED BY <1>1, <1>2, <1>3, <1>4, <1>5, <1>6 DEF RelayNext, Cycle

\* The relayer gets nothing done that the hosts would not do for anyone: what is
\* proved of EstablishedSpec holds with it running.
THEOREM RelayRunsOnChannels == RelaySpec => EstablishedSpec
<1>1. RelayInit => EstablishedInit
  BY DEF RelayInit
<1>2. RelayIInv /\ [RelayNext]_allVars => [Next]_vars
  BY RelayNextIsNext, RelayAssumes
<1> QED BY <1>1, <1>2, RelayInvariance, PTL DEF RelaySpec, EstablishedSpec

\* The relayer holds sequence numbers, then whole messages.
THEOREM RelayTypesHold == RelaySpec => []RelayTypeOK
<1>1. RelayIInv => RelayTypeOK
  <2> SUFFICES ASSUME RelayIInv
               PROVE  RelayTypeOK
    OBVIOUS
  <2>1. \A c \in Sources, i \in ChanId, k \in Kinds :
           /\ job[c][i][k].step \in Steps
           /\ job[c][i][k].step # "fetched" => job[c][i][k].todo \subseteq Seqs
           /\ job[c][i][k].step = "fetched" =>
                 job[c][i][k].todo \subseteq
                     CASE k = "packets" -> [seq: Seqs, body: Packet]
                       [] k = "answers" -> [seq: Seqs, body: Written]
    <3>1. TAKE c \in Sources, i \in ChanId, k \in Kinds
    <3>2. job[c][i][k].step \in Steps /\ job[c][i][k].todo \subseteq Todo(k, job[c][i][k].step)
      BY DEF RelayIInv, RelayTypes, JobTypes
    <3>3. CASE job[c][i][k].step # "fetched"
      BY <3>2, <3>3 DEF Todo
    <3>4. CASE job[c][i][k].step = "fetched"
      BY <3>2, <3>4 DEF Todo, Kinds
    <3> QED BY <3>3, <3>4
  <2> QED BY <2>1 DEF RelayIInv, RelayTypes, Sight, RelayTypeOK
<1> QED BY <1>1, RelayInvariance, PTL

\* A host never refuses what the relayer submits for its proof, however old the
\* vaults were that it was fetched from and whatever has happened since.
THEOREM FetchedStaysProved == RelaySpec => []FetchedIsProved
<1>1. RelayIInv => FetchedIsProved
  <2> SUFFICES ASSUME RelayIInv, NEW c \in Sources, NEW i \in ChanId, NEW k \in Kinds,
                      job[c][i][k].step = "fetched", NEW m \in job[c][i][k].todo
               PROVE  CASE k = "packets" -> VerifyPacketCommitment(
                              Other(c), chans[Other(c)][Peer(c, i)], m.seq, m.body.data)
                        [] k = "answers" -> VerifyPacketAcknowledgement(
                              c, chans[c][i], m.seq, m.body.ack)
    BY DEF FetchedIsProved
  <2>1. /\ c \in Chain /\ Other(c) \in Chain /\ Other(Other(c)) = c
        /\ Partner(i) \in ChanId /\ Partner(Partner(i)) = i
        /\ Peer(c, i) = Partner(i)
    BY HostsAndChannels, PeerIsPartner, RelayAssumes
  <2>2. /\ chans[c][i].cpChan = Partner(i)
        /\ chans[c][i].cpPort = chans[Other(c)][Partner(i)].port
        /\ chans[Other(c)][Partner(i)].cpChan = i
        /\ chans[Other(c)][Partner(i)].cpPort = chans[c][i].port
    BY <2>1 DEF RelayIInv, EstIInv, Linked
  <2>3. /\ conns[c][chans[c][i].hop].delay = 0
        /\ conns[Other(c)][chans[Other(c)][Partner(i)].hop].delay = 0
    BY <2>1 DEF RelayIInv, NoDelay
  <2>4. IsLogged(c, i, k, m)
    BY DEF RelayIInv, FetchedIsLogged
  <2>5. CASE k = "packets"
    <3>1. [port |-> chans[c][i].port, chan |-> i, seq |-> m.seq, data |-> m.body.data] \in sentLog[c]
      BY <2>4, <2>5 DEF IsLogged, SentRecord
    <3>2. VerifyPacketCommitment(Other(c), chans[Other(c)][Peer(c, i)], m.seq, m.body.data)
      BY <2>1, <2>2, <2>3, <3>1 DEF VerifyPacketCommitment
    <3> QED BY <2>5, <3>2
  <2>6. CASE k = "answers"
    <3>1. [port |-> chans[Other(c)][Partner(i)].port, chan |-> Partner(i), seq |-> m.seq,
           ack |-> m.body.ack] \in ackLog[Other(c)]
      BY <2>4, <2>6 DEF IsLogged, AnswerRecord
    <3>2. VerifyPacketAcknowledgement(c, chans[c][i], m.seq, m.body.ack)
      BY <2>2, <2>3, <3>1 DEF VerifyPacketAcknowledgement
    <3> QED BY <2>6, <3>2
  <2> QED BY <2>5, <2>6 DEF Kinds
<1> QED BY <1>1, RelayInvariance, PTL
=============================================================================
