----------------------- MODULE IbcEstablished_proofs -----------------------
(***************************************************************************)
(* Established hosts, for any number of channels and packets.  Their start *)
(* satisfies the invariants of IbcChannel, so they behave as that module   *)
(* promises; and their channels stay paired as they were set up, which     *)
(* says more of packets than handshakes allow: what is sent is held until  *)
(* the other end has answered it, and there is one answer to it.           *)
(***************************************************************************)
EXTENDS IbcEstablished, IbcChannel_proofs

EstAssumptions == ChanAssumptions /\ ConnectionFits

\* The assumptions of the modules, under one name.
LEMMA EstablishedAssumptions == EstAssumptions
BY ChainsDiffer, BoundsAreNat, DelaysAreNat, ChanBoundsAreNat, OrdersAreKnown, ConnectionFits
DEF EstAssumptions, ChanAssumptions, ConnAssumptions

\* Partner pairs the channels of the two hosts.
LEMMA PartnerFacts ==
    ASSUME EstAssumptions
    PROVE  \A i \in ChanId : Partner(i) \in ChanId /\ Partner(Partner(i)) = i
BY DEF EstAssumptions, ChanAssumptions, ChanBoundsAreNat, ChanId, Partner

\* The ends of the start.
ConnAtStart == End("OPEN", 1, 1, 1, 0)
ChanAtStart(c, i, port, order, version) ==
    Channel("OPEN", port[c], order, port[Other(c)], Partner(i), 1, version)

\* The histories of the start have one OPEN end each.
LEMMA OpenEnds ==
    /\ \A c : OpenEnd(ConnHistory(c)) = ConnAtStart
    /\ \A c, i, port, order, version :
          OpenEnd(ChanHistory(c, i, port, order, version)) = ChanAtStart(c, i, port, order, version)
<1>1. ASSUME NEW history, NEW end \in history, end.state = "OPEN",
             \A e \in history : e # end => e.state # "OPEN"
      PROVE  OpenEnd(history) = end
  BY <1>1 DEF OpenEnd
<1>2. ASSUME NEW c
      PROVE  OpenEnd(ConnHistory(c)) = ConnAtStart
  <2>1. /\ ConnAtStart \in ConnHistory(c) /\ ConnAtStart.state = "OPEN"
        /\ \A e \in ConnHistory(c) : e # ConnAtStart => e.state # "OPEN"
    BY EndFields DEF ConnAtStart, ConnHistory
  <2> QED BY <1>1, <2>1
<1>3. ASSUME NEW c, NEW i, NEW port, NEW order, NEW version
      PROVE  OpenEnd(ChanHistory(c, i, port, order, version)) = ChanAtStart(c, i, port, order, version)
  <2> DEFINE end == ChanAtStart(c, i, port, order, version)
             history == ChanHistory(c, i, port, order, version)
  <2>1. end \in history /\ end.state = "OPEN"
    BY ChannelFields DEF ChanAtStart, ChanHistory
  <2>2. \A e \in history : e # end => e.state # "OPEN"
    BY ChannelFields DEF ChanAtStart, ChanHistory
  <2> HIDE DEF end, history
  <2>3. OpenEnd(history) = end
    BY <1>1, <2>1, <2>2
  <2> QED BY <2>3 DEF end, history
<1> QED BY <1>2, <1>3

\* The start, field by field.
StartWith(port, order, version) ==
    /\ port \in [Chain -> Ports] /\ order \in Orders /\ version \in ChanVersions
    /\ \A c \in Chain, i \in ChanId : chans[c][i] = ChanAtStart(c, i, port, order, version)
    /\ \A c \in Chain : chanLog[c] = UNION {{i} \X ChanHistory(c, i, port, order, version) : i \in ChanId}

\* EstablishedInit in those terms.
LEMMA StartFacts ==
    ASSUME EstablishedInit
    PROVE  /\ \A c \in Chain : /\ conns[c] = [i \in ConnId |-> IF i = 1 THEN ConnAtStart ELSE NoConn]
                               /\ connLog[c] = {1} \X ConnHistory(c)
           /\ \E port, order, version : StartWith(port, order, version)
           /\ PacketInit
<1>1. PICK port \in [Chain -> Ports], order \in Orders, version \in ChanVersions :
         /\ chans = [c \in Chain |-> [i \in ChanId |->
                        OpenEnd(ChanHistory(c, i, port, order, version))]]
         /\ chanLog = [c \in Chain |-> UNION {{i} \X ChanHistory(c, i, port, order, version)
                                               : i \in ChanId}]
  BY DEF EstablishedInit
<1>2. StartWith(port, order, version)
  BY <1>1, OpenEnds DEF StartWith
<1>3. \A c \in Chain : conns[c] = [i \in ConnId |-> IF i = 1 THEN ConnAtStart ELSE NoConn]
  BY OpenEnds DEF EstablishedInit
<1> QED BY <1>2, <1>3 DEF EstablishedInit

\* The connection of the start satisfies the invariant of connections.
LEMMA ConnStarts ==
    ASSUME EstAssumptions, EstablishedInit
    PROVE  ConnIInv
<1> USE DEF EstAssumptions, ChanAssumptions, ConnAssumptions
<1>1. 1 \in ConnId /\ 1 \in ClientId /\ 0 \in {0}
  BY DEF ConnectionFits, BoundsAreNat, ConnId, ClientId
<1>2. \A c \in Chain, i \in ConnId : conns[c][i] = IF i = 1 THEN ConnAtStart ELSE NoConn
  <2>1. \A c \in Chain : conns[c] = [i \in ConnId |-> IF i = 1 THEN ConnAtStart ELSE NoConn]
    BY StartFacts
  <2> QED BY <2>1
<1>3. \A s \in ConnState, j \in {NoId, 1} : End(s, 1, 1, j, 0) \in ConnEnd
  BY <1>1 DEF End, ConnEnd
<1>4. ConnAtStart \in ConnEnd /\ NoConn \in ConnEnd
  BY <1>1 DEF End, ConnEnd, ConnAtStart, NoConn, ConnState
<1>5. \A c \in Chain : ConnHistory(c) \subseteq ConnEnd
  BY <1>1, <1>3, <1>4 DEF ConnHistory, ConnState
<1>6. ConnTypeOK
  <2>1. 2 \in 1..(MaxClient + 1) /\ 2 \in 1..(MaxConn + 1)
    BY DEF ConnectionFits, BoundsAreNat
  <2>2. conns \in [Chain -> [ConnId -> ConnEnd]]
    <3>1. conns = [c \in Chain |-> [i \in ConnId |-> IF i = 1 THEN ConnAtStart ELSE NoConn]]
      BY OpenEnds DEF EstablishedInit
    <3> QED BY <1>4, <3>1
  <2>3. connLog \in [Chain -> SUBSET (ConnId \X ConnEnd)]
    BY <1>1, <1>5 DEF EstablishedInit
  <2> QED BY <2>1, <2>2, <2>3 DEF EstablishedInit, ConnTypeOK
<1>7. \A c \in Chain : \A r \in connLog[c] :
         /\ r[1] = 1 /\ conns[c][1] = ConnAtStart /\ r[2] \in ConnEnd
         /\ r[2].client = 1 /\ r[2].cpClient = 1 /\ r[2].delay = 0
         /\ \/ r[2] = ConnAtStart
            \/ r[2].state = "INIT" /\ c = ChainA
            \/ r[2].state = "TRYOPEN" /\ c # ChainA /\ r[2].cpConn = 1
  <2>1. TAKE c \in Chain
  <2>2. TAKE r \in connLog[c]
  <2>3. r[1] = 1 /\ r[2] \in ConnHistory(c)
    <3>1. connLog[c] = {1} \X ConnHistory(c)
      BY StartFacts
    <3> QED BY <3>1
  <2>4. r[2] \in ConnEnd /\ conns[c][1] = ConnAtStart
    BY <1>1, <1>2, <1>5, <2>3
  <2>5. CASE c = ChainA
    BY <2>3, <2>4, <2>5, EndFields DEF ConnHistory, ConnAtStart
  <2>6. CASE c # ChainA
    BY <2>3, <2>4, <2>6, EndFields DEF ConnHistory, ConnAtStart
  <2> QED BY <2>5, <2>6
<1>8. LogPrecedesState
  <2>1. SUFFICES ASSUME NEW c \in Chain, NEW r \in connLog[c]
                 PROVE  /\ r[2].state # "UNINIT"
                        /\ r[1] < nextConnectionSequence[c]
                        /\ Rank(r[2].state) <= Rank(conns[c][r[1]].state)
                        /\ r[2].client = conns[c][r[1]].client /\ r[2].cpClient = conns[c][r[1]].cpClient
                        /\ r[2].delay = conns[c][r[1]].delay
                        /\ Rank(r[2].state) = Rank(conns[c][r[1]].state) => r[2] = conns[c][r[1]]
    BY DEF LogPrecedesState
  <2>2. nextConnectionSequence[c] = 2
    BY DEF EstablishedInit
  <2>3. ConnAtStart.state = "OPEN" /\ ConnAtStart.client = 1 /\ ConnAtStart.cpClient = 1 /\ ConnAtStart.delay = 0
    BY EndFields DEF ConnAtStart
  <2> QED BY <1>7, <2>2, <2>3, RankFacts
<1>9. StateIsLogged
  <2>1. \A c \in Chain : ConnAtStart \in ConnHistory(c)
    BY DEF ConnHistory, ConnAtStart
  <2>2. NoConn.state = "UNINIT"
    BY EndFields DEF NoConn
  <2>3. \A c \in Chain : <<1, ConnAtStart>> \in connLog[c] /\ nextConnectionSequence[c] = 2
    BY <2>1, StartFacts DEF EstablishedInit
  <2> QED BY <1>2, <2>2, <2>3 DEF StateIsLogged, ConnId
<1>10. \A c \in Chain : Faces(ConnAtStart, ConnAtStart) /\ <<1, ConnAtStart>> \in connLog[c]
  <2>1. Faces(ConnAtStart, ConnAtStart)
    BY EndFields DEF ConnAtStart, Faces
  <2>2. \A c \in Chain : ConnAtStart \in ConnHistory(c)
    BY DEF ConnAtStart, ConnHistory
  <2> QED BY <2>1, <2>2, StartFacts
<1>11. OpenAnswersTry
  <2>1. \A c \in Chain, i \in ConnId : conns[c][i].state = "OPEN" => i = 1 /\ conns[c][i] = ConnAtStart
    BY <1>2, EndFields DEF NoConn
  <2>2. ConnAtStart.state = "OPEN" /\ ConnAtStart.cpConn = 1
    BY EndFields DEF ConnAtStart
  <2>3. SUFFICES ASSUME NEW c \in Chain, NEW i \in ConnId, conns[c][i].state = "OPEN"
                 PROVE  /\ ConnAtStart.state \in {"TRYOPEN", "OPEN"} /\ ConnAtStart.cpConn = i
                        /\ Faces(conns[c][i], ConnAtStart)
                        /\ <<conns[c][i].cpConn, ConnAtStart>> \in connLog[Other(c)]
    BY <1>4 DEF OpenAnswersTry
  <2>4. i = 1 /\ conns[c][i] = ConnAtStart /\ Other(c) \in Chain
    BY <2>1, <2>3, OtherHost
  <2> QED BY <1>10, <2>2, <2>4
<1>12. TryAnswersInit
  <2>1. SUFFICES ASSUME NEW c \in Chain, NEW r \in connLog[c], r[2].state = "TRYOPEN"
                 PROVE  Faced(c, r[2], r[2].cpConn, {"INIT"})
    BY DEF TryAnswersInit
  <2>2. c # ChainA /\ r[2].cpConn = 1
    BY <1>7, <2>1, EndFields DEF ConnAtStart
  <2>3. Other(c) = ChainA
    BY <2>2 DEF Chain, Other
  <2> DEFINE f == End("INIT", 1, 1, NoId, 0)
  <2>4. f \in ConnEnd /\ f.state = "INIT" /\ Faces(r[2], f)
    BY <1>3, <1>7, EndFields DEF ConnState, Faces
  <2>5. <<1, f>> \in connLog[ChainA]
    BY StartFacts DEF ConnHistory, Chain
  <2> HIDE DEF f
  <2> QED BY <2>2, <2>3, <2>4, <2>5 DEF Faced
<1>13. RepointedHadInit
  BY <1>7, EndFields DEF RepointedHadInit, ConnAtStart
<1> QED BY <1>6, <1>8, <1>9, <1>11, <1>12, <1>13 DEF ConnIInv

\* The channels of the start satisfy the invariants of channels and of pairs.
LEMMA ChanStarts ==
    ASSUME EstAssumptions, EstablishedInit
    PROVE  ChanIInv /\ PairIInv
<1> USE DEF EstAssumptions, ChanAssumptions, ConnAssumptions
<1>1. PICK port, order, version : StartWith(port, order, version)
  BY StartFacts
<1>2. /\ \A c \in Chain : port[c] \in Ports /\ Other(c) \in Chain
      /\ order \in Orders /\ version \in ChanVersions
      /\ \A i \in ChanId : Partner(i) \in ChanId
      /\ 1 \in ConnId
  BY <1>1, OtherHost, PartnerFacts DEF StartWith, ConnectionFits, BoundsAreNat, ConnId
<1> DEFINE end(c, i) == ChanAtStart(c, i, port, order, version)
           history(c, i) == ChanHistory(c, i, port, order, version)
<1>3. \A c \in Chain, i \in ChanId : \A e \in history(c, i) :
         /\ e \in ChanEnd
         /\ e.port = port[c] /\ e.order = order /\ e.cpPort = port[Other(c)]
         /\ e.hop = 1 /\ e.version = version
         /\ \/ e = end(c, i)
            \/ e.state = "INIT" /\ c = ChainA
            \/ e.state = "TRYOPEN" /\ c # ChainA /\ e.cpChan = Partner(i)
  BY <1>2, ChannelFields DEF ChanHistory, ChanAtStart, ChanState
<1>4. \A c \in Chain, i \in ChanId :
         /\ end(c, i) \in history(c, i)
         /\ end(c, i).state = "OPEN" /\ end(c, i).cpChan = Partner(i)
  BY ChannelFields DEF ChanHistory, ChanAtStart
<1>5. \A i \in ChanId : \E f \in history(ChainA, i) : f.state = "INIT"
  BY ChannelFields DEF ChanHistory
<1>6. \A c \in Chain, i \in ChanId : chans[c][i] = end(c, i)
  BY <1>1 DEF StartWith
<1>7. \A c \in Chain : chanLog[c] = UNION {{i} \X history(c, i) : i \in ChanId}
  BY <1>1 DEF StartWith
<1> HIDE DEF end, history
<1>8. \A c \in Chain : \A r \in chanLog[c] : r[1] \in ChanId /\ r[2] \in history(c, r[1])
  BY <1>7
<1>9. \A c \in Chain, i \in ChanId : \A e \in history(c, i) : <<i, e>> \in chanLog[c]
  BY <1>7
<1>10. TypeOK
  <2>1. chans \in [Chain -> [ChanId -> ChanEnd \cup {NoChan}]]
    <3>1. \E e1 : chans = [c \in Chain |-> [i \in ChanId |-> e1[c][i]]]
      <4>1. PICK p \in [Chain -> Ports], o \in Orders, v \in ChanVersions :
              chans = [c \in Chain |-> [i \in ChanId |-> OpenEnd(ChanHistory(c, i, p, o, v))]]
        BY DEF EstablishedInit
      <4> DEFINE e1 == [c \in Chain |-> [i \in ChanId |-> OpenEnd(ChanHistory(c, i, p, o, v))]]
      <4>2. chans = [c \in Chain |-> [i \in ChanId |-> e1[c][i]]]
        BY <4>1
      <4> QED BY <4>2
    <3> QED BY <1>3, <1>4, <1>6, <3>1
  <2>2. chanLog \in [Chain -> SUBSET (ChanId \X ChanEnd)]
    <3>1. \E e1 : chanLog = [c \in Chain |-> e1[c]]
      BY DEF EstablishedInit
    <3>2. \A c \in Chain : \A r \in chanLog[c] : r \in ChanId \X ChanEnd
      BY <1>3, <1>7
    <3> QED BY <3>1, <3>2
  <2>3. 1 \in 1..(MaxChan + 1) /\ 1 \in 1..(MaxSeq + 1) /\ MaxChan + 1 \in 1..(MaxChan + 1)
    BY DEF ChanBoundsAreNat
  <2>4. <<>> \in Seq(Seqs \X Data)
    OBVIOUS
  <2>5. ConnTypeOK
    BY ConnStarts DEF ConnIInv
  <2> QED BY <2>1, <2>2, <2>3, <2>4, <2>5 DEF EstablishedInit, PacketInit, TypeOK
<1>11. Unissued /\ NothingReceivedEarly /\ InOrder /\ ReceiptsCover
  <2>1. Unissued
    BY DEF EstablishedInit, Unissued, ChanId, ChanBoundsAreNat
  <2> QED BY <2>1 DEF EstablishedInit, PacketInit, NothingReceivedEarly, InOrder, ReceiptsCover
<1>12. DeliveredWasSent /\ SentOnce
  BY DEF EstablishedInit, PacketInit, DeliveredWasSent, SentOnce
<1>13. ChanLogPrecedesState
  <2>1. SUFFICES ASSUME NEW c \in Chain, NEW r \in chanLog[c]
                 PROVE  LET cur == chans[c][r[1]] IN
                        /\ ChanRank(r[2].state) <= ChanRank(cur.state)
                        /\ r[2].order = cur.order /\ r[2].hop = cur.hop /\ r[2].cpPort = cur.cpPort
                        /\ r[2].state # "INIT" => r[2].port = cur.port
                        /\ r[2].state = "TRYOPEN" /\ cur.state = "TRYOPEN" => cur = r[2]
                        /\ r[2].state = "OPEN" => cur \in {r[2], Closed(r[2])}
    BY DEF ChanLogPrecedesState
  <2>2. /\ r[1] \in ChanId /\ r[2] \in history(c, r[1])
        /\ chans[c][r[1]] = end(c, r[1]) /\ end(c, r[1]) \in history(c, r[1])
    BY <1>4, <1>6, <1>8
  <2> QED BY <1>3, <1>4, <2>2, ChanRankFacts
<1>14. ChanStateIsLogged
  BY <1>4, <1>6, <1>9 DEF ChanStateIsLogged
<1>15. ChanTryAnswersInit
  <2>1. SUFFICES ASSUME NEW c \in Chain, NEW r \in chanLog[c], r[2].state = "TRYOPEN"
                 PROVE  HasChanInit(Other(c), r[2].cpChan)
    BY DEF ChanTryAnswersInit
  <2>2. r[1] \in ChanId /\ r[2] \in history(c, r[1])
    BY <1>8
  <2>3. c # ChainA /\ r[2].cpChan = Partner(r[1])
    BY <1>3, <1>4, <2>1, <2>2
  <2>4. Other(c) = ChainA /\ Partner(r[1]) \in ChanId /\ ChainA \in Chain
    BY <1>2, <2>2, <2>3 DEF Other, Chain
  <2>5. PICK f \in history(ChainA, Partner(r[1])) : f.state = "INIT"
    BY <1>5, <2>4
  <2> QED BY <1>3, <1>9, <2>3, <2>4, <2>5 DEF HasChanInit
<1>16. ChanOpenAnswersTry
  <2>1. SUFFICES ASSUME NEW c \in Chain, NEW i \in ChanId
                 PROVE  ShownOpening(c, i, chans[c][i])
    BY DEF ChanOpenAnswersTry
  <2>2. conns[c][1] = ConnAtStart
    BY <1>2, StartFacts
  <2>3. ConnIsOpen(c, 1) /\ conns[c][1].cpConn = 1
    BY <1>2, <2>2, EndFields DEF ConnIsOpen, ConnAtStart
  <2> DEFINE f == end(Other(c), Partner(i))
  <2>4. f \in history(Other(c), Partner(i)) /\ Other(c) \in Chain /\ Partner(i) \in ChanId
    BY <1>2, <1>4
  <2>5. /\ f \in ChanEnd /\ <<Partner(i), f>> \in chanLog[Other(c)]
        /\ f.state = "OPEN" /\ f.cpChan = Partner(Partner(i))
        /\ f.port = port[Other(c)] /\ f.cpPort = port[Other(Other(c))]
        /\ f.order = order /\ f.hop = 1 /\ f.version = version
    BY <1>3, <1>4, <1>9, <2>4
  <2>6. Partner(Partner(i)) = i /\ Other(Other(c)) = c
    BY PartnerFacts, OtherHost
  <2>7. /\ chans[c][i].hop = 1 /\ chans[c][i].cpChan = Partner(i)
        /\ chans[c][i].port = port[c] /\ chans[c][i].cpPort = port[Other(c)]
        /\ chans[c][i].order = order /\ chans[c][i].version = version
    BY <1>3, <1>4, <1>6
  <2> HIDE DEF f
  <2> QED BY <2>3, <2>5, <2>6, <2>7 DEF ShownOpening
<1>17. ChanRepointedHadInit
  <2>1. SUFFICES ASSUME NEW c \in Chain, NEW r \in chanLog[c], r[2].state = "TRYOPEN"
                 PROVE  /\ chans[c][r[1]].cpChan = r[2].cpChan
                        /\ chans[c][r[1]].version = r[2].version
    BY DEF ChanRepointedHadInit
  <2>2. r[1] \in ChanId /\ r[2] \in history(c, r[1])
    BY <1>8
  <2> QED BY <1>3, <1>4, <1>6, <2>1, <2>2
<1>18. ChanIInv
  BY <1>10, <1>11, <1>12 DEF ChanIInv
<1> QED BY <1>13, <1>14, <1>15, <1>16, <1>17, <1>18 DEF PairIInv

\* The channels of the two hosts stay paired as they were set up: they are OPEN
\* or CLOSED, name each other, and know each other's port.
Linked ==
    \A c \in Chain, i \in ChanId :
        /\ chans[c][i].state \in {"OPEN", "CLOSED"}
        /\ chans[c][i].cpChan = Partner(i)
        /\ chans[c][i].cpPort = chans[Other(c)][Partner(i)].port

\* A packet that is held is in the evidence.
HeldIsSent ==
    \A c \in Chain, i \in ChanId, seq \in Seqs :
        packets[c][i][seq] # NoPacket =>
            /\ packets[c][i][seq].dst = Partner(i)
            /\ [port |-> chans[c][i].port, chan |-> i, seq |-> seq,
                data |-> packets[c][i][seq].data] \in sentLog[c]

\* A packet in the evidence is still held or has been answered.
SentIsHeldOrAnswered ==
    \A c \in Chain : \A p \in sentLog[c] :
        \/ packets[c][p.chan][p.seq] # NoPacket
        \/ acknowledgements[Other(c)][Partner(p.chan)][p.seq] # NoAck

\* What is answered has been received and was sent.
AnsweredIsReceived ==
    \A c \in Chain, i \in ChanId, seq \in Seqs :
        acknowledgements[c][i][seq] # NoAck =>
            /\ chans[c][i].order = "UNORDERED" => seq \in receipts[c][i]
            /\ chans[c][i].order = "ORDERED" => seq < nextSequenceRecv[c][i]
            /\ \E p \in sentLog[Other(c)] : p.chan = Partner(i) /\ p.seq = seq

\* The evidence of an answer shows the answer that was written.
EvidenceIsAnswer ==
    \A c \in Chain : \A a \in ackLog[c] :
        acknowledgements[c][a.chan][a.seq] = [ack |-> a.ack]

TransitIInv == HeldIsSent /\ SentIsHeldOrAnswered /\ AnsweredIsReceived /\ EvidenceIsAnswer

\* The inductive invariant of established hosts.
EstIInv ==
    /\ ConnIInv /\ ChanIInv /\ PairIInv /\ HeldIInv
    /\ Linked /\ TransitIInv

\* The start satisfies the invariant.
LEMMA EstStarts ==
    ASSUME EstAssumptions, EstablishedInit
    PROVE  EstIInv
<1>1. ConnIInv /\ ChanIInv /\ PairIInv
  BY ConnStarts, ChanStarts
<1>2. PICK port, order, version : StartWith(port, order, version)
  BY StartFacts
<1>3. Linked
  <2>1. \A c \in Chain, i \in ChanId : Other(c) \in Chain /\ Other(Other(c)) = c /\ Partner(i) \in ChanId
    BY OtherHost, PartnerFacts DEF EstAssumptions, ChanAssumptions, ConnAssumptions
  <2>2. \A c \in Chain, i \in ChanId :
           /\ chans[c][i].state = "OPEN" /\ chans[c][i].cpChan = Partner(i)
           /\ chans[c][i].port = port[c] /\ chans[c][i].cpPort = port[Other(c)]
    BY <1>2, ChannelFields DEF StartWith, ChanAtStart
  <2> QED BY <2>1, <2>2 DEF Linked
<1>4. HeldIInv
  BY DEF EstablishedInit, PacketInit, HeldIInv, AckedIsDelivered, GoneWasAcked, OrderedHolds, Seqs
<1>5. \A c \in Chain : Other(c) \in Chain
  BY OtherHost DEF EstAssumptions, ChanAssumptions, ConnAssumptions
<1>6. HeldIsSent /\ SentIsHeldOrAnswered /\ EvidenceIsAnswer
  BY DEF EstablishedInit, PacketInit, HeldIsSent, SentIsHeldOrAnswered, EvidenceIsAnswer
<1>7. AnsweredIsReceived
  BY DEF EstablishedInit, PacketInit, AnsweredIsReceived
<1> QED BY <1>1, <1>3, <1>4, <1>6, <1>7 DEF EstIInv, TransitIInv

\* Established channels keep their ports and their partners.
Rooted ==
    \A c \in Chain, i \in ChanId :
        /\ chans'[c][i].port = chans[c][i].port
        /\ chans'[c][i].cpPort = chans[c][i].cpPort
        /\ chans'[c][i].cpChan = chans[c][i].cpChan
        /\ chans'[c][i].order = chans[c][i].order

\* An established channel changes only by being closed.
LEMMA LinkedStep ==
    ASSUME EstAssumptions, TypeOK, TypeOK', Linked, ChanForwardStep
    PROVE  Linked' /\ Rooted
<1>1. ASSUME NEW c \in Chain, NEW i \in ChanId, chans'[c][i] # chans[c][i]
      PROVE  chans'[c][i] = Closed(chans[c][i]) /\ chans[c][i] \in ChanEnd
  <2>1. /\ ChanRank(chans[c][i].state) < ChanRank(chans'[c][i].state)
        /\ chans[c][i].state = "OPEN" => chans'[c][i] = [chans[c][i] EXCEPT !.state = "CLOSED"]
    BY <1>1 DEF ChanForwardStep
  <2>2. chans[c][i].state \in {"OPEN", "CLOSED"}
    BY DEF Linked
  <2>3. chans[c][i] \in ChanEnd
    BY <2>2, IssuedIsChanEnd
  <2>4. chans'[c][i] \in ChanEnd \cup {NoChan}
    BY DEF TypeOK
  <2>5. ChanRank(chans'[c][i].state) <= 4
    BY <2>4, ChanEndRank, ChanRankFacts, ChannelFields DEF NoChan
  <2>6. chans[c][i].state # "CLOSED"
    BY <2>1, <2>5, ChanRankFacts, <2>4, ChanEndRank, ChannelFields DEF NoChan
  <2> QED BY <2>1, <2>2, <2>3, <2>6 DEF Closed
<1>2. Rooted
  BY <1>1, ClosedFields DEF Rooted
<1>3. \A c \in Chain, i \in ChanId : chans'[c][i].state \in {"OPEN", "CLOSED"}
  BY <1>1, ClosedFields DEF Linked
<1>4. \A c \in Chain, i \in ChanId : Other(c) \in Chain /\ Partner(i) \in ChanId
  BY OtherHost, PartnerFacts DEF EstAssumptions, ChanAssumptions, ConnAssumptions
<1>5. Linked'
  <2>1. SUFFICES ASSUME NEW c \in Chain, NEW i \in ChanId
                 PROVE  /\ chans'[c][i].state \in {"OPEN", "CLOSED"}
                        /\ chans'[c][i].cpChan = Partner(i)
                        /\ chans'[c][i].cpPort = chans'[Other(c)][Partner(i)].port
    BY DEF Linked
  <2> QED BY <1>2, <1>3, <1>4 DEF Linked, Rooted
<1> QED BY <1>2, <1>5

\* The types of receipts, answers and evidence.
LEMMA EvidenceTypes ==
    ASSUME EstAssumptions, TypeOK
    PROVE  /\ receipts \in [Chain -> [ChanId -> SUBSET Seqs]]
           /\ nextSequenceRecv \in [Chain -> [ChanId -> Nat]]
           /\ sentLog \in [Chain -> SUBSET Commitment]
           /\ ackLog \in [Chain -> SUBSET AckRecord]
           /\ \A c \in Chain : \A p \in sentLog[c] : p.chan \in ChanId /\ p.seq \in Seqs
           /\ \A c \in Chain : \A a \in ackLog[c] : a.chan \in ChanId /\ a.seq \in Seqs
           /\ \A c \in Chain, i \in ChanId : Other(c) \in Chain /\ Partner(i) \in ChanId
           /\ \A s \in Seqs : s \in Nat
<1>1. /\ receipts \in [Chain -> [ChanId -> SUBSET Seqs]]
      /\ sentLog \in [Chain -> SUBSET Commitment] /\ ackLog \in [Chain -> SUBSET AckRecord]
  BY DEF TypeOK
<1>2. nextSequenceRecv \in [Chain -> [ChanId -> Nat]] /\ \A s \in Seqs : s \in Nat
  BY PacketTypes DEF EstAssumptions
<1>3. \A c \in Chain : \A p \in sentLog[c] : p.chan \in ChanId /\ p.seq \in Seqs
  BY <1>1 DEF Commitment
<1>4. \A c \in Chain : \A a \in ackLog[c] : a.chan \in ChanId /\ a.seq \in Seqs
  BY <1>1 DEF AckRecord
<1> QED BY <1>1, <1>2, <1>3, <1>4, OtherHost, PartnerFacts DEF EstAssumptions, ChanAssumptions, ConnAssumptions

\* What sendPacket writes.
LEMMA SendFacts ==
    ASSUME EstAssumptions, TypeOK, Linked, NEW c \in Chain, NEW i \in ChanId, NEW data \in Data,
           SendPacket(c, i, data)
    PROVE  LET next == nextSequenceSend[c][i] IN
           /\ next \in Seqs
           /\ \A d \in Chain, k \in ChanId, s \in Seqs :
                 packets'[d][k][s] = IF d = c /\ k = i /\ s = next
                    THEN [dst |-> Partner(i), data |-> data] ELSE packets[d][k][s]
           /\ packets'[c][i][next] # NoPacket
           /\ sentLog'[c] = sentLog[c] \cup {[port |-> chans[c][i].port, chan |-> i,
                                              seq |-> next, data |-> data]}
           /\ \A d \in Chain : d # c => sentLog'[d] = sentLog[d]
           /\ UNCHANGED <<chans, nextSequenceRecv, receipts, acknowledgements, ackLog>>
<1> DEFINE next == nextSequenceSend[c][i]
<1>1. /\ next \in Seqs
      /\ packets' = [packets EXCEPT ![c][i][next] = [dst |-> chans[c][i].cpChan, data |-> data]]
      /\ sentLog' = [sentLog EXCEPT ![c] = @ \cup {[port |-> chans[c][i].port, chan |-> i,
                                                   seq |-> next, data |-> data]}]
      /\ UNCHANGED <<chans, nextSequenceRecv, receipts, acknowledgements, ackLog>>
  BY DEF SendPacket, recvVars
<1>2. packets \in [Chain -> [ChanId -> [Seqs -> Packet \cup {NoPacket}]]]
  BY PacketTypes DEF EstAssumptions
<1>3. chans[c][i].cpChan = Partner(i)
  BY DEF Linked
<1>4. [dst |-> Partner(i), data |-> data] # NoPacket
  BY DEF NoPacket
<1> HIDE DEF next
<1>5. \A d \in Chain, k \in ChanId, s \in Seqs :
         packets'[d][k][s] = IF d = c /\ k = i /\ s = next
            THEN [dst |-> Partner(i), data |-> data] ELSE packets[d][k][s]
  BY <1>1, <1>2, <1>3
<1>6. /\ sentLog'[c] = sentLog[c] \cup {[port |-> chans[c][i].port, chan |-> i,
                                              seq |-> next, data |-> data]}
      /\ \A d \in Chain : d # c => sentLog'[d] = sentLog[d]
  BY <1>1, EvidenceTypes
<1> QED BY <1>1, <1>4, <1>5, <1>6 DEF next

\* What recvPacket writes, and that it was not there.
LEMMA RecvFacts ==
    ASSUME EstAssumptions, TypeOK, Linked, AnsweredIsReceived,
           NEW c \in Chain, NEW i \in ChanId, NEW seq \in Seqs, NEW data \in Data, NEW ack \in Acks,
           RecvPacket(c, i, seq, data, ack)
    PROVE  /\ acknowledgements[c][i][seq] = NoAck
           /\ [port |-> chans[c][i].cpPort, chan |-> Partner(i), seq |-> seq, data |-> data]
                 \in sentLog[Other(c)]
           /\ \A d \in Chain, k \in ChanId, s \in Seqs :
                 acknowledgements'[d][k][s] = IF d = c /\ k = i /\ s = seq
                    THEN [ack |-> ack] ELSE acknowledgements[d][k][s]
           /\ acknowledgements'[c][i][seq] # NoAck
           /\ chans[c][i].order = "UNORDERED" => seq \in receipts'[c][i]
           /\ chans[c][i].order = "ORDERED" => seq < nextSequenceRecv'[c][i]
           /\ \A d \in Chain, k \in ChanId :
                 receipts[d][k] \subseteq receipts'[d][k] /\ nextSequenceRecv[d][k] <= nextSequenceRecv'[d][k]
           /\ ackLog'[c] = ackLog[c] \cup {[port |-> chans[c][i].port, chan |-> i, seq |-> seq, ack |-> ack]}
           /\ \A d \in Chain : d # c => ackLog'[d] = ackLog[d]
           /\ UNCHANGED <<chans, packets, sentLog>>
<1>1. /\ acknowledgements' = [acknowledgements EXCEPT ![c][i][seq] = [ack |-> ack]]
      /\ ackLog' = [ackLog EXCEPT ![c] = @ \cup
                      {[port |-> chans[c][i].port, chan |-> i, seq |-> seq, ack |-> ack]}]
      /\ UNCHANGED <<chans, packets, sentLog>>
      /\ [port |-> chans[c][i].cpPort, chan |-> chans[c][i].cpChan, seq |-> seq, data |-> data]
            \in sentLog[Other(c)]
      /\ \/ /\ chans[c][i].order = "UNORDERED"
            /\ seq \notin receipts[c][i]
            /\ receipts' = [receipts EXCEPT ![c][i] = @ \cup {seq}]
            /\ UNCHANGED nextSequenceRecv
         \/ /\ chans[c][i].order = "ORDERED"
            /\ seq = nextSequenceRecv[c][i]
            /\ nextSequenceRecv' = [nextSequenceRecv EXCEPT ![c][i] = @ + 1]
            /\ UNCHANGED receipts
  BY DEF RecvPacket, VerifyPacketCommitment, NotYetReceived, IsNextToReceive
<1>2. acknowledgements \in [Chain -> [ChanId -> [Seqs -> Written \cup {NoAck}]]]
  BY PacketTypes DEF EstAssumptions
<1>3. acknowledgements[c][i][seq] = NoAck
  <2>1. nextSequenceRecv[c][i] \in Nat
    BY EvidenceTypes
  <2> QED BY <1>1, <2>1, EvidenceTypes DEF AnsweredIsReceived
<1>4. \A d \in Chain, k \in ChanId, s \in Seqs :
         acknowledgements'[d][k][s] = IF d = c /\ k = i /\ s = seq
            THEN [ack |-> ack] ELSE acknowledgements[d][k][s]
  BY <1>1, <1>2
<1>5. [ack |-> ack] # NoAck
  BY DEF NoAck
<1>6. /\ chans[c][i].order = "UNORDERED" => seq \in receipts'[c][i]
      /\ chans[c][i].order = "ORDERED" => seq < nextSequenceRecv'[c][i]
      /\ \A d \in Chain, k \in ChanId :
            receipts[d][k] \subseteq receipts'[d][k] /\ nextSequenceRecv[d][k] <= nextSequenceRecv'[d][k]
  <2>1. receipts \in [Chain -> [ChanId -> SUBSET Seqs]] /\ nextSequenceRecv \in [Chain -> [ChanId -> Nat]]
    BY EvidenceTypes
  <2>2. CASE chans[c][i].order = "UNORDERED"
    <3>1. receipts' = [receipts EXCEPT ![c][i] = @ \cup {seq}] /\ UNCHANGED nextSequenceRecv
      BY <1>1, <2>2
    <3> QED BY <2>1, <2>2, <3>1
  <2>3. CASE chans[c][i].order = "ORDERED"
    <3>1. /\ nextSequenceRecv' = [nextSequenceRecv EXCEPT ![c][i] = @ + 1] /\ UNCHANGED receipts
          /\ seq = nextSequenceRecv[c][i]
      BY <1>1, <2>3
    <3>2. nextSequenceRecv'[c][i] = seq + 1
      BY <2>1, <3>1
    <3>3. \A d \in Chain, k \in ChanId : nextSequenceRecv[d][k] <= nextSequenceRecv'[d][k]
      BY <2>1, <3>1
    <3> QED BY <2>1, <2>3, <3>1, <3>2, <3>3
  <2> QED BY <1>1, <2>2, <2>3
<1>7. /\ ackLog'[c] = ackLog[c] \cup {[port |-> chans[c][i].port, chan |-> i, seq |-> seq, ack |-> ack]}
      /\ \A d \in Chain : d # c => ackLog'[d] = ackLog[d]
  BY <1>1, EvidenceTypes
<1>8. chans[c][i].cpChan = Partner(i)
  BY DEF Linked
<1> QED BY <1>1, <1>3, <1>4, <1>5, <1>6, <1>7, <1>8

\* What acknowledgePacket forgets, and the answer it was shown.
LEMMA AckFacts ==
    ASSUME EstAssumptions, TypeOK, Linked, EvidenceIsAnswer,
           NEW c \in Chain, NEW i \in ChanId, NEW seq \in Seqs, NEW ack \in Acks,
           AcknowledgePacket(c, i, seq, ack)
    PROVE  /\ packets[c][i][seq] # NoPacket
           /\ acknowledgements[Other(c)][Partner(i)][seq] = [ack |-> ack]
           /\ acknowledgements[Other(c)][Partner(i)][seq] # NoAck
           /\ \A d \in Chain, k \in ChanId, s \in Seqs :
                 packets'[d][k][s] = IF d = c /\ k = i /\ s = seq THEN NoPacket ELSE packets[d][k][s]
           /\ UNCHANGED <<chans, nextSequenceRecv, receipts, acknowledgements, sentLog, ackLog>>
<1>1. /\ packets[c][i][seq] # NoPacket
      /\ packets' = [packets EXCEPT ![c][i][seq] = NoPacket]
      /\ [port |-> chans[c][i].cpPort, chan |-> chans[c][i].cpChan, seq |-> seq, ack |-> ack]
            \in ackLog[Other(c)]
      /\ UNCHANGED <<chans, nextSequenceRecv, receipts, acknowledgements, sentLog, ackLog>>
  BY DEF AcknowledgePacket, VerifyPacketAcknowledgement, recvVars, packetLogs
<1>2. packets \in [Chain -> [ChanId -> [Seqs -> Packet \cup {NoPacket}]]]
  BY PacketTypes DEF EstAssumptions
<1>3. \A d \in Chain, k \in ChanId, s \in Seqs :
         packets'[d][k][s] = IF d = c /\ k = i /\ s = seq THEN NoPacket ELSE packets[d][k][s]
  BY <1>1, <1>2
<1>4. chans[c][i].cpChan = Partner(i) /\ Other(c) \in Chain
  BY EvidenceTypes DEF Linked
<1>5. acknowledgements[Other(c)][Partner(i)][seq] = [ack |-> ack]
  BY <1>1, <1>4 DEF EvidenceIsAnswer
<1>6. [ack |-> ack] # NoAck
  BY DEF NoAck
<1> QED BY <1>1, <1>3, <1>5, <1>6

\* sendPacket holds what it adds to the evidence.
LEMMA SendTransits ==
    ASSUME EstAssumptions, TypeOK, Linked, TransitIInv,
           NEW c \in Chain, NEW i \in ChanId, NEW data \in Data, SendPacket(c, i, data)
    PROVE  TransitIInv'
<1> DEFINE next == nextSequenceSend[c][i]
           new == [port |-> chans[c][i].port, chan |-> i, seq |-> next, data |-> data]
<1>1. /\ next \in Seqs
      /\ \A d \in Chain, k \in ChanId, s \in Seqs :
            packets'[d][k][s] = IF d = c /\ k = i /\ s = next
               THEN [dst |-> Partner(i), data |-> data] ELSE packets[d][k][s]
      /\ packets'[c][i][next] # NoPacket
      /\ sentLog'[c] = sentLog[c] \cup {new}
      /\ \A d \in Chain : d # c => sentLog'[d] = sentLog[d]
      /\ UNCHANGED <<chans, nextSequenceRecv, receipts, acknowledgements, ackLog>>
  BY SendFacts
<1>2. /\ \A d \in Chain : sentLog[d] \subseteq sentLog'[d]
      /\ new \in sentLog'[c] /\ new.chan = i /\ new.seq = next
      /\ \A d \in Chain : \A p \in sentLog'[d] : p \in sentLog[d] \/ (d = c /\ p = new)
  <2>1. new.chan = i /\ new.seq = next
    OBVIOUS
  <2> HIDE DEF new
  <2> QED BY <1>1, <2>1
<1>3. HeldIsSent'
  <2> SUFFICES ASSUME NEW d \in Chain, NEW k \in ChanId, NEW s \in Seqs, packets'[d][k][s] # NoPacket
               PROVE  /\ packets'[d][k][s].dst = Partner(k)
                      /\ [port |-> chans[d][k].port, chan |-> k, seq |-> s,
                          data |-> packets'[d][k][s].data] \in sentLog'[d]
    BY <1>1 DEF HeldIsSent
  <2>1. CASE d = c /\ k = i /\ s = next
    <3>1. packets'[d][k][s] = [dst |-> Partner(i), data |-> data]
      BY <1>1, <2>1
    <3>2. packets'[d][k][s].dst = Partner(k) /\ packets'[d][k][s].data = data
      BY <2>1, <3>1
    <3> QED BY <1>2, <2>1, <3>2
  <2>2. CASE ~(d = c /\ k = i /\ s = next)
    <3>1. packets'[d][k][s] = packets[d][k][s]
      BY <1>1, <2>2
    <3> QED BY <1>2, <3>1 DEF TransitIInv, HeldIsSent
  <2> QED BY <2>1, <2>2
<1> HIDE DEF new, next
<1>4. SentIsHeldOrAnswered'
  <2> SUFFICES ASSUME NEW d \in Chain, NEW p \in sentLog'[d]
               PROVE  \/ packets'[d][p.chan][p.seq] # NoPacket
                      \/ acknowledgements[Other(d)][Partner(p.chan)][p.seq] # NoAck
    BY <1>1 DEF SentIsHeldOrAnswered
  <2>1. CASE p \in sentLog[d]
    <3>1. \/ packets[d][p.chan][p.seq] # NoPacket
          \/ acknowledgements[Other(d)][Partner(p.chan)][p.seq] # NoAck
      BY <2>1 DEF TransitIInv, SentIsHeldOrAnswered
    <3>2. p.chan \in ChanId /\ p.seq \in Seqs
      BY <2>1, EvidenceTypes
    <3> QED BY <1>1, <3>1, <3>2
  <2>2. CASE d = c /\ p = new
    BY <1>1, <1>2, <2>2
  <2> QED BY <1>2, <2>1, <2>2
<1>5. AnsweredIsReceived'
  <2>1. \A d \in Chain : Other(d) \in Chain
    BY EvidenceTypes
  <2> QED BY <1>1, <1>2, <2>1 DEF TransitIInv, AnsweredIsReceived
<1>6. EvidenceIsAnswer'
  BY <1>1 DEF TransitIInv, EvidenceIsAnswer
<1> QED BY <1>3, <1>4, <1>5, <1>6 DEF TransitIInv

\* recvPacket answers once what it receives.
LEMMA RecvTransits ==
    ASSUME EstAssumptions, TypeOK, Linked, TransitIInv,
           NEW c \in Chain, NEW i \in ChanId, NEW seq \in Seqs, NEW data \in Data, NEW ack \in Acks,
           RecvPacket(c, i, seq, data, ack)
    PROVE  TransitIInv'
<1> DEFINE new == [port |-> chans[c][i].port, chan |-> i, seq |-> seq, ack |-> ack]
<1>1. /\ acknowledgements[c][i][seq] = NoAck
      /\ [port |-> chans[c][i].cpPort, chan |-> Partner(i), seq |-> seq, data |-> data] \in sentLog[Other(c)]
      /\ \A d \in Chain, k \in ChanId, s \in Seqs :
            acknowledgements'[d][k][s] = IF d = c /\ k = i /\ s = seq
               THEN [ack |-> ack] ELSE acknowledgements[d][k][s]
      /\ acknowledgements'[c][i][seq] # NoAck
      /\ chans[c][i].order = "UNORDERED" => seq \in receipts'[c][i]
      /\ chans[c][i].order = "ORDERED" => seq < nextSequenceRecv'[c][i]
      /\ \A d \in Chain, k \in ChanId :
            receipts[d][k] \subseteq receipts'[d][k] /\ nextSequenceRecv[d][k] <= nextSequenceRecv'[d][k]
      /\ ackLog'[c] = ackLog[c] \cup {new}
      /\ \A d \in Chain : d # c => ackLog'[d] = ackLog[d]
      /\ UNCHANGED <<chans, packets, sentLog>>
  BY RecvFacts DEF TransitIInv
<1>2. new.chan = i /\ new.seq = seq /\ new.ack = ack
  OBVIOUS
<1>3. \A d \in Chain, k \in ChanId : Other(d) \in Chain /\ Partner(k) \in ChanId
  BY EvidenceTypes
<1>4. \E p \in sentLog[Other(c)] : p.chan = Partner(i) /\ p.seq = seq
  BY <1>1
<1> HIDE DEF new
<1>5. HeldIsSent'
  BY <1>1 DEF TransitIInv, HeldIsSent
<1>6. SentIsHeldOrAnswered'
  <2> SUFFICES ASSUME NEW d \in Chain, NEW p \in sentLog[d]
               PROVE  \/ packets[d][p.chan][p.seq] # NoPacket
                      \/ acknowledgements'[Other(d)][Partner(p.chan)][p.seq] # NoAck
    BY <1>1 DEF SentIsHeldOrAnswered
  <2>1. p.chan \in ChanId /\ p.seq \in Seqs
    BY EvidenceTypes
  <2>2. \/ packets[d][p.chan][p.seq] # NoPacket
        \/ acknowledgements[Other(d)][Partner(p.chan)][p.seq] # NoAck
    BY DEF TransitIInv, SentIsHeldOrAnswered
  <2>3. Other(d) \in Chain /\ Partner(p.chan) \in ChanId
    BY <1>3, <2>1
  <2> QED BY <1>1, <2>1, <2>2, <2>3
<1>7. AnsweredIsReceived'
  <2> SUFFICES ASSUME NEW d \in Chain, NEW k \in ChanId, NEW s \in Seqs,
                      acknowledgements'[d][k][s] # NoAck
               PROVE  /\ chans[d][k].order = "UNORDERED" => s \in receipts'[d][k]
                      /\ chans[d][k].order = "ORDERED" => s < nextSequenceRecv'[d][k]
                      /\ \E p \in sentLog[Other(d)] : p.chan = Partner(k) /\ p.seq = s
    BY <1>1 DEF AnsweredIsReceived
  <2>1. CASE d = c /\ k = i /\ s = seq
    BY <1>1, <1>4, <2>1
  <2>2. CASE ~(d = c /\ k = i /\ s = seq)
    <3>1. acknowledgements[d][k][s] # NoAck
      BY <1>1, <2>2
    <3>2. /\ chans[d][k].order = "UNORDERED" => s \in receipts[d][k]
          /\ chans[d][k].order = "ORDERED" => s < nextSequenceRecv[d][k]
          /\ \E p \in sentLog[Other(d)] : p.chan = Partner(k) /\ p.seq = s
      BY <3>1 DEF TransitIInv, AnsweredIsReceived
    <3>3. receipts[d][k] \subseteq receipts'[d][k] /\ nextSequenceRecv[d][k] <= nextSequenceRecv'[d][k]
      BY <1>1
    <3>4. nextSequenceRecv[d][k] \in Nat /\ s \in Nat
      BY EvidenceTypes
    <3>5. nextSequenceRecv'[d][k] \in Nat
      <4>1. nextSequenceRecv' = nextSequenceRecv \/ nextSequenceRecv' = [nextSequenceRecv EXCEPT ![c][i] = @ + 1]
        BY DEF RecvPacket
      <4>2. nextSequenceRecv \in [Chain -> [ChanId -> Nat]]
        BY EvidenceTypes
      <4> QED BY <4>1, <4>2
    <3> QED BY <3>2, <3>3, <3>4, <3>5
  <2> QED BY <2>1, <2>2
<1>8. EvidenceIsAnswer'
  <2> SUFFICES ASSUME NEW d \in Chain, NEW a \in ackLog'[d]
               PROVE  acknowledgements'[d][a.chan][a.seq] = [ack |-> a.ack]
    BY DEF EvidenceIsAnswer
  <2>1. CASE a \in ackLog[d]
    <3>1. a.chan \in ChanId /\ a.seq \in Seqs
      BY <2>1, EvidenceTypes
    <3>2. acknowledgements[d][a.chan][a.seq] = [ack |-> a.ack]
      BY <2>1 DEF TransitIInv, EvidenceIsAnswer
    <3>3. [ack |-> a.ack] # NoAck
      BY DEF NoAck
    <3>4. ~(d = c /\ a.chan = i /\ a.seq = seq)
      BY <1>1, <3>2, <3>3
    <3> QED BY <1>1, <3>1, <3>2, <3>4
  <2>2. CASE d = c /\ a = new
    BY <1>1, <1>2, <2>2
  <2> QED BY <1>1, <2>1, <2>2
<1> QED BY <1>5, <1>6, <1>7, <1>8 DEF TransitIInv

\* acknowledgePacket forgets what has been answered.
LEMMA AckTransits ==
    ASSUME EstAssumptions, TypeOK, Linked, TransitIInv,
           NEW c \in Chain, NEW i \in ChanId, NEW seq \in Seqs, NEW ack \in Acks,
           AcknowledgePacket(c, i, seq, ack)
    PROVE  TransitIInv'
<1>1. /\ acknowledgements[Other(c)][Partner(i)][seq] # NoAck
      /\ \A d \in Chain, k \in ChanId, s \in Seqs :
            packets'[d][k][s] = IF d = c /\ k = i /\ s = seq THEN NoPacket ELSE packets[d][k][s]
      /\ UNCHANGED <<chans, nextSequenceRecv, receipts, acknowledgements, sentLog, ackLog>>
  <2>1. EvidenceIsAnswer
    BY DEF TransitIInv
  <2>2. /\ packets[c][i][seq] # NoPacket
        /\ acknowledgements[Other(c)][Partner(i)][seq] = [ack |-> ack]
        /\ acknowledgements[Other(c)][Partner(i)][seq] # NoAck
        /\ \A d \in Chain, k \in ChanId, s \in Seqs :
              packets'[d][k][s] = IF d = c /\ k = i /\ s = seq THEN NoPacket ELSE packets[d][k][s]
        /\ UNCHANGED <<chans, nextSequenceRecv, receipts, acknowledgements, sentLog, ackLog>>
    BY <2>1, AckFacts
  <2> QED BY <2>2
<1>2. HeldIsSent'
  BY <1>1 DEF TransitIInv, HeldIsSent
<1>3. SentIsHeldOrAnswered'
  <2> SUFFICES ASSUME NEW d \in Chain, NEW p \in sentLog[d]
               PROVE  \/ packets'[d][p.chan][p.seq] # NoPacket
                      \/ acknowledgements[Other(d)][Partner(p.chan)][p.seq] # NoAck
    BY <1>1 DEF SentIsHeldOrAnswered
  <2>1. p.chan \in ChanId /\ p.seq \in Seqs
    BY EvidenceTypes
  <2> QED BY <1>1, <2>1 DEF TransitIInv, SentIsHeldOrAnswered
<1>4. AnsweredIsReceived' /\ EvidenceIsAnswer'
  BY <1>1 DEF TransitIInv, AnsweredIsReceived, EvidenceIsAnswer
<1> QED BY <1>2, <1>3, <1>4 DEF TransitIInv

\* Only ports, partners and orderings of the ends count.
LEMMA QuietTransits ==
    ASSUME TransitIInv, Rooted,
           UNCHANGED <<nextSequenceRecv, packets, receipts, acknowledgements, sentLog, ackLog>>
    PROVE  TransitIInv'
<1>1. HeldIsSent'
  BY DEF TransitIInv, HeldIsSent, Rooted
<1>2. SentIsHeldOrAnswered' /\ EvidenceIsAnswer'
  BY DEF TransitIInv, SentIsHeldOrAnswered, EvidenceIsAnswer
<1>3. AnsweredIsReceived'
  BY DEF TransitIInv, AnsweredIsReceived, Rooted
<1> QED BY <1>1, <1>2, <1>3 DEF TransitIInv

\* A handshake or closing handler can do nothing to an established channel but
\* close it.
LEMMA HandshakeTransits ==
    ASSUME EstAssumptions, ChanIInv, PairIInv, Linked, TransitIInv, Rooted,
           NEW c \in Chain, HandshakeNext(c)
    PROVE  TransitIInv'
<1>1. PICK i, end : PairAdvance(c, i, end)
  BY HandshakePairs DEF EstAssumptions
<1>2. c \in Chain /\ i \in ChanId
  BY <1>1 DEF PairAdvance, ChanAdvance
<1>3. chans[c][i].state # "INIT"
  BY <1>2 DEF Linked
<1>4. UNCHANGED <<seqVars, recvVars, packetLogs, packets>>
  BY <1>1, <1>3 DEF PairAdvance, ChanAdvance
<1> QED BY <1>4, QuietTransits DEF seqVars, recvVars, packetLogs

\* Every step preserves the invariant.
LEMMA EstStep ==
    ASSUME EstAssumptions, EstIInv, [Next]_vars
    PROVE  EstIInv' /\ Rooted
<1> USE DEF EstIInv
<1>1. ChanAssumptions
  BY DEF EstAssumptions
<1>2. ConnIInv' /\ ChanIInv' /\ PairIInv' /\ HeldIInv' /\ [ChanForwardStep]_vars
  BY <1>1, ChanStep, PairStep
<1>3. TypeOK /\ TypeOK'
  BY <1>2 DEF ChanIInv
<1>4. CASE UNCHANGED vars
  <2>1. UNCHANGED <<chans, nextSequenceRecv, packets, receipts, acknowledgements, sentLog, ackLog>>
    BY <1>4 DEF vars, chanVars, seqVars, recvVars, packetLogs
  <2>2. Linked' /\ Rooted
    BY <2>1 DEF Linked, Rooted
  <2> QED BY <1>2, <2>1, <2>2, QuietTransits
<1>5. CASE ~UNCHANGED vars
  <2>1. Linked' /\ Rooted
    BY <1>2, <1>3, <1>5, LinkedStep
  <2>2. TransitIInv'
    <3>1. CASE ConnNext /\ UNCHANGED chanVars
      BY <2>1, <3>1, QuietTransits DEF chanVars, seqVars, recvVars, packetLogs
    <3>2. ASSUME NEW c \in Chain, HandshakeNext(c)
          PROVE  TransitIInv'
      BY <2>1, <3>2, HandshakeTransits
    <3>3. ASSUME NEW c \in Chain, PacketNext(c)
          PROVE  TransitIInv'
      <4>1. ASSUME NEW i \in ChanId, NEW data \in Data, SendPacket(c, i, data)
            PROVE  TransitIInv'
        BY <1>3, <4>1, SendTransits
      <4>2. ASSUME NEW i \in ChanId, NEW seq \in Seqs, NEW data \in Data, NEW ack \in Acks,
                   RecvPacket(c, i, seq, data, ack)
            PROVE  TransitIInv'
        BY <1>3, <4>2, RecvTransits
      <4>3. ASSUME NEW i \in ChanId, NEW seq \in Seqs, NEW ack \in Acks,
                   AcknowledgePacket(c, i, seq, ack)
            PROVE  TransitIInv'
        BY <1>3, <4>3, AckTransits
      <4> QED BY <3>3, <4>1, <4>2, <4>3 DEF PacketNext
    <3> QED BY <1>5, <3>1, <3>2, <3>3 DEF Next
  <2> QED BY <1>2, <2>1, <2>2
<1> QED BY <1>4, <1>5

\* Established hosts keep their channels paired, and every packet of theirs is
\* held until the other host has answered it, once.
THEOREM EstablishedInvariance == EstablishedSpec => []EstIInv
<1>1. EstablishedInit => EstIInv
  BY EstStarts, EstablishedAssumptions
<1>2. EstIInv /\ [Next]_vars => EstIInv'
  BY EstStep, EstablishedAssumptions
<1> QED BY <1>1, <1>2, PTL DEF EstablishedSpec

\* What IbcChannel promises from its own start holds from this one too, so it
\* holds of the specifications built on it.
THEOREM EstablishedIsSafe ==
    EstablishedSpec => [](/\ TypeOK /\ ExactlyOnce /\ InOrder
                          /\ ChanOpenAgrees /\ ChanOpenIsPaired
                          /\ AckedWasReceived /\ OrderedWindow)
<1>1. EstIInv => /\ TypeOK /\ ExactlyOnce /\ InOrder
                 /\ ChanOpenAgrees /\ ChanOpenIsPaired
                 /\ AckedWasReceived /\ OrderedWindow
  <2>1. ChanIInv => TypeOK /\ InOrder
    BY DEF ChanIInv
  <2> QED BY <2>1, ChannelsAssume, DeliveredOnce, OpenEndsAgree, OpenEndsArePaired, GoneIsReceived,
             WindowIsAligned DEF EstIInv
<1> QED BY <1>1, EstablishedInvariance, PTL
=============================================================================
