---------------------------- MODULE IbcChannel ----------------------------
(***************************************************************************)
(* ICS-4 of Handler.kt on top of IbcConnection: the channel handshake, the *)
(* closing of channels, and packets.  An IbcChannel state is the end       *)
(* (chans), three sequence numbers, the packets awaiting an                *)
(* acknowledgement, the receipts and the acknowledgements written; each is *)
(* a variable indexed by host and channel number, and every action writes  *)
(* all the fields its handler writes.                                      *)
(*                                                                         *)
(* Proofs are past transactions here too: chanLog, sentLog and ackLog hold *)
(* every end, packet commitment and acknowledgement ever notarised.        *)
(*                                                                         *)
(* A packet's source is its channel, so a packet is its sequence number,   *)
(* its destination and its data; the data stand for the timeouts as well,  *)
(* the other part of the commitment.  A timeout height is checked against  *)
(* the constant HEIGHT on both hosts alike, so it stops no sent packet.  A *)
(* timeout timestamp is checked by the receiver alone: the packets it      *)
(* always refuses are those whose data are in Expired.                     *)
(***************************************************************************)
EXTENDS IbcConnection, Sequences

CONSTANTS
    Ports,             \* port identifiers
    Orders,            \* orderings a channel may ask for
    ChanVersions,      \* application versions of a channel
    MaxChan,           \* bound on the channels created on a host
    MaxSeq,            \* bound on the packets sent on a channel
    Data,              \* packet payloads
    Expired,           \* payloads sent with a timeoutTimestamp below "now"
    Acks               \* acknowledgements an application may answer

ASSUME ChanBoundsAreNat == MaxChan \in Nat /\ MaxSeq \in Nat
ASSUME OrdersAreKnown == Orders \subseteq {"ORDERED", "UNORDERED"}
ASSUME ExpiredAreData == Expired \subseteq Data

ChanId == 1..MaxChan
Seqs == 1..MaxSeq

ChanState == {"INIT", "TRYOPEN", "OPEN", "CLOSED"}
ChanEnd == [state: ChanState, port: Ports, order: Orders, cpPort: Ports,
            cpChan: ChanId \cup {NoId}, hop: ConnId \cup {NoId},
            version: ChanVersions]

Channel(state, port, order, cpPort, cpChan, hop, version) ==
    [state |-> state, port |-> port, order |-> order, cpPort |-> cpPort,
     cpChan |-> cpChan, hop |-> hop, version |-> version]

\* The end of a channel identifier that has not been issued.
NoChan == Channel("UNINIT", NoId, "NONE", NoId, NoId, NoId, NoId)
NoPacket == [dst |-> "none"]
NoAck == [none |-> "none"]

Packet == [dst: ChanId \cup {NoId}, data: Data]
Written == [ack: Acks]

VARIABLES
    nextChannelSequence,     \* Host: the number of the next channel
    chans,                   \* the current channel ends, with their port
    nextSequenceSend, nextSequenceRecv, nextSequenceAck,
    packets,                 \* sent and not yet acknowledged, by sequence
    receipts,                \* sequences received (UNORDERED only)
    acknowledgements,        \* acknowledgements written, by sequence
    delivered,               \* <<sequence, data>> handed to the application
    chanLog,                 \* every <<identifier, end>> ever notarised
    sentLog,                 \* every packet commitment ever notarised
    ackLog                   \* every acknowledgement ever notarised

seqVars == <<nextSequenceSend, nextSequenceRecv, nextSequenceAck>>
recvVars == <<receipts, acknowledgements, delivered>>
packetLogs == <<sentLog, ackLog>>
chanVars == <<nextChannelSequence, chans, seqVars, packets, recvVars, chanLog,
              packetLogs>>
vars == <<connVars, chanVars>>

\* No packet sent, received or acknowledged on any channel.
PacketInit ==
    /\ nextSequenceSend = [c \in Chain |-> [i \in ChanId |-> 1]]
    /\ nextSequenceRecv = [c \in Chain |-> [i \in ChanId |-> 1]]
    /\ nextSequenceAck = [c \in Chain |-> [i \in ChanId |-> 1]]
    /\ packets = [c \in Chain |-> [i \in ChanId |-> [s \in Seqs |-> NoPacket]]]
    /\ receipts = [c \in Chain |-> [i \in ChanId |-> {}]]
    /\ acknowledgements = [c \in Chain |-> [i \in ChanId |-> [s \in Seqs |-> NoAck]]]
    /\ delivered = [c \in Chain |-> [i \in ChanId |-> <<>>]]
    /\ sentLog = [c \in Chain |-> {}]
    /\ ackLog = [c \in Chain |-> {}]

Init ==
    /\ ConnInit
    /\ nextChannelSequence = [c \in Chain |-> 1]
    /\ chans = [c \in Chain |-> [i \in ChanId |-> NoChan]]
    /\ chanLog = [c \in Chain |-> {}]
    /\ PacketInit

ConnExists(c, h) == h \in ConnId /\ conns[c][h].state # "UNINIT"
ConnIsOpen(c, h) == h \in ConnId /\ conns[c][h].state = "OPEN"

\* Mutant: the proof shows some end of channel i in the expected state.
VerifyChannelStateOnly(c, i, end) ==
    \E r \in chanLog[Other(c)] : r[1] = i /\ r[2].state = end.state

\* Mutant: the counterparty channel of the shown end is not compared.
VerifyChannelButCounterparty(c, i, end) ==
    \E r \in chanLog[Other(c)] : r[1] = i /\ [r[2] EXCEPT !.cpChan = end.cpChan] = end

VerifyChannelState(c, i, end) == <<i, end>> \in chanLog[Other(c)]

\* verifyPacketCommitment compares the hash of timeouts and data, not the
\* packet's destination, and accepts no connection with a delay period.
VerifyPacketCommitment(c, end, seq, data) ==
    /\ conns[c][end.hop].delay = 0
    /\ [port |-> end.cpPort, chan |-> end.cpChan, seq |-> seq, data |-> data]
          \in sentLog[Other(c)]

\* Mutant: an acknowledgement of any packet of the channel will do.
VerifyAnyAcknowledgement(c, end, seq, ack) ==
    /\ conns[c][end.hop].delay = 0
    /\ \E a \in ackLog[Other(c)] : a.chan = end.cpChan /\ a.ack = ack

VerifyPacketAcknowledgement(c, end, seq, ack) ==
    /\ conns[c][end.hop].delay = 0
    /\ [port |-> end.cpPort, chan |-> end.cpChan, seq |-> seq, ack |-> ack]
          \in ackLog[Other(c)]

OutputEnd(c, i, end) ==
    /\ chans' = [chans EXCEPT ![c][i] = end]
    /\ chanLog' = [chanLog EXCEPT ![c] = @ \cup {<<i, end>>}]

GenerateChannelIdentifier(c) ==
    nextChannelSequence' = [nextChannelSequence EXCEPT ![c] = @ + 1]

(***************************************************************************)
(* Handshake.                                                              *)
(***************************************************************************)

\* The connection may be in any state, and the counterparty is stored as it
\* comes: nothing requires its channel identifier to be empty.
ChanOpenInit(c, port, order, cpPort, cpChan, hop, version) ==
    LET i == nextChannelSequence[c] IN
    /\ i \in ChanId                                              \* MaxChan
    /\ ConnExists(c, hop)
    /\ GenerateChannelIdentifier(c)
    /\ OutputEnd(c, i, Channel("INIT", port, order, cpPort, cpChan, hop, version))
    /\ UNCHANGED <<connVars, seqVars, packets, recvVars, packetLogs>>

\* Mutant: the state of the previous channel is not checked.
PreviousInAnyState(c, prev, order, cpPort, hop, version) ==
    LET end == chans[c][prev] IN
    end = Channel(end.state, end.port, order, cpPort, end.cpChan, hop, version)

\* The INIT channel a chanOpenTry may overwrite.  Its own port is not compared.
PreviousMatches(c, prev, order, cpPort, hop, version) ==
    LET end == chans[c][prev] IN
    /\ end.state = "INIT"
    /\ end = Channel("INIT", end.port, order, cpPort, NoId, hop, version)

\* A new channel state is built in both cases; with a previous channel it
\* takes over the three sequence numbers, but not the packets sent so far.
ChanOpenTry(c, prev, port, order, cpPort, cpChan, hop, version, cpVersion) ==
    LET new == Channel("TRYOPEN", port, order, cpPort, cpChan, hop, version) IN
    /\ ConnIsOpen(c, hop)
    /\ VerifyChannelState(c, cpChan,
          Channel("INIT", cpPort, order, port, NoId, conns[c][hop].cpConn, cpVersion))
    /\ \/ /\ prev = NoId
          /\ nextChannelSequence[c] \in ChanId                   \* MaxChan
          /\ OutputEnd(c, nextChannelSequence[c], new)
          /\ GenerateChannelIdentifier(c)
          /\ UNCHANGED packets
       \/ /\ prev # NoId
          /\ PreviousMatches(c, prev, order, cpPort, hop, version)
          /\ OutputEnd(c, prev, new)
          /\ packets' = [packets EXCEPT ![c][prev] = [s \in Seqs |-> NoPacket]]
          /\ UNCHANGED nextChannelSequence
    /\ UNCHANGED <<connVars, seqVars, recvVars, packetLogs>>

\* The counterparty end that a later step of channel i expects.
Expected(c, i, state, version) ==
    LET end == chans[c][i] IN
    Channel(state, end.cpPort, end.order, end.port, i, conns[c][end.hop].cpConn, version)

\* cpChan is the counterpartyChannelId of the message.  It is not compared
\* with the one a TRYOPEN end already holds.
ChanOpenAck(c, i, cpChan, cpVersion) ==
    LET end == chans[c][i] IN
    /\ end.state \in {"INIT", "TRYOPEN"}
    /\ ConnIsOpen(c, end.hop)
    /\ VerifyChannelState(c, cpChan, Expected(c, i, "TRYOPEN", cpVersion))
    /\ OutputEnd(c, i, Channel("OPEN", end.port, end.order, end.cpPort, cpChan,
                               end.hop, cpVersion))
    /\ UNCHANGED <<connVars, nextChannelSequence, seqVars, packets, recvVars,
                   packetLogs>>

ChanOpenConfirm(c, i) ==
    LET end == chans[c][i] IN
    /\ end.state = "TRYOPEN"
    /\ ConnIsOpen(c, end.hop)
    /\ VerifyChannelState(c, end.cpChan, Expected(c, i, "OPEN", end.version))
    /\ OutputEnd(c, i, [end EXCEPT !.state = "OPEN"])
    /\ UNCHANGED <<connVars, nextChannelSequence, seqVars, packets, recvVars,
                   packetLogs>>

(***************************************************************************)
(* Closing: from any state but CLOSED.                                     *)
(***************************************************************************)
Closable(c, i) ==
    /\ chans[c][i].state \notin {"UNINIT", "CLOSED"}
    /\ ConnIsOpen(c, chans[c][i].hop)

Close(c, i) ==
    /\ OutputEnd(c, i, [chans[c][i] EXCEPT !.state = "CLOSED"])
    /\ UNCHANGED <<connVars, nextChannelSequence, seqVars, packets, recvVars,
                   packetLogs>>

ChanCloseInit(c, i) == Closable(c, i) /\ Close(c, i)

ChanCloseConfirm(c, i) ==
    /\ Closable(c, i)
    /\ VerifyChannelState(c, chans[c][i].cpChan,
                          Expected(c, i, "CLOSED", chans[c][i].version))
    /\ Close(c, i)

(***************************************************************************)
(* Packets.                                                                *)
(***************************************************************************)

\* Mutant: the channel need not exist.
SendableUnlessClosed(c, i) == chans[c][i].state # "CLOSED"

\* The channel need not be OPEN: in INIT the destination may still be "".
Sendable(c, i) == chans[c][i].state \notin {"UNINIT", "CLOSED"}

SendPacket(c, i, data) ==
    LET end == chans[c][i]  seq == nextSequenceSend[c][i] IN
    /\ Sendable(c, i)
    /\ seq \in Seqs                                              \* MaxSeq
    /\ nextSequenceSend' = [nextSequenceSend EXCEPT ![c][i] = @ + 1]
    /\ packets' = [packets EXCEPT ![c][i][seq] = [dst |-> end.cpChan, data |-> data]]
    /\ sentLog' = [sentLog EXCEPT ![c] = @ \cup
                     {[port |-> end.port, chan |-> i, seq |-> seq, data |-> data]}]
    /\ UNCHANGED <<connVars, nextChannelSequence, chans, nextSequenceRecv,
                   nextSequenceAck, recvVars, chanLog, ackLog>>

\* Mutant: receipts are written but not looked at.
ReceivedOrNot(c, i, seq) == TRUE
\* Mutant: gaps are let through.
NotYetPassed(c, i, seq) == seq >= nextSequenceRecv[c][i]

NotYetReceived(c, i, seq) == seq \notin receipts[c][i]
IsNextToReceive(c, i, seq) == seq = nextSequenceRecv[c][i]

\* The application's callback has run first and answered ack; the packet's
\* source and destination are required to be the channel's counterparty and
\* the channel.
RecvPacket(c, i, seq, data, ack) ==
    LET end == chans[c][i] IN
    /\ end.state = "OPEN"
    /\ ConnIsOpen(c, end.hop)
    /\ data \notin Expired
    /\ VerifyPacketCommitment(c, end, seq, data)
    /\ \/ /\ end.order = "UNORDERED"
          /\ NotYetReceived(c, i, seq)
          /\ receipts' = [receipts EXCEPT ![c][i] = @ \cup {seq}]
          /\ UNCHANGED nextSequenceRecv
       \/ /\ end.order = "ORDERED"
          /\ IsNextToReceive(c, i, seq)
          /\ nextSequenceRecv' = [nextSequenceRecv EXCEPT ![c][i] = @ + 1]
          /\ UNCHANGED receipts
    /\ acknowledgements' = [acknowledgements EXCEPT ![c][i][seq] = [ack |-> ack]]
    /\ delivered' = [delivered EXCEPT ![c][i] = Append(@, <<seq, data>>)]
    /\ ackLog' = [ackLog EXCEPT ![c] = @ \cup
                    {[port |-> end.port, chan |-> i, seq |-> seq, ack |-> ack]}]
    /\ UNCHANGED <<connVars, nextChannelSequence, chans, nextSequenceSend,
                   nextSequenceAck, packets, chanLog, sentLog>>

\* Mutant: acknowledgements are taken in any order.
AckInAnyOrder(c, i, seq) == TRUE
\* Mutant: off by one.
IsBeforeNextToAck(c, i, seq) == seq + 1 = nextSequenceAck[c][i]

IsNextToAck(c, i, seq) == seq = nextSequenceAck[c][i]

AcknowledgePacket(c, i, seq, ack) ==
    LET end == chans[c][i] IN
    /\ end.state = "OPEN"
    /\ ConnIsOpen(c, end.hop)
    /\ packets[c][i][seq] # NoPacket
    /\ packets[c][i][seq].dst = end.cpChan
    /\ VerifyPacketAcknowledgement(c, end, seq, ack)
    /\ \/ /\ end.order = "ORDERED"
          /\ IsNextToAck(c, i, seq)
          /\ nextSequenceAck' = [nextSequenceAck EXCEPT ![c][i] = @ + 1]
       \/ /\ end.order = "UNORDERED"
          /\ UNCHANGED nextSequenceAck
    /\ packets' = [packets EXCEPT ![c][i][seq] = NoPacket]
    /\ UNCHANGED <<connVars, nextChannelSequence, chans, nextSequenceSend,
                   nextSequenceRecv, recvVars, chanLog, packetLogs>>

HandshakeNext(c) ==
    \/ \E port, cpPort \in Ports, order \in Orders, cpChan \in ChanId \cup {NoId},
          hop \in ConnId, version \in ChanVersions :
          ChanOpenInit(c, port, order, cpPort, cpChan, hop, version)
    \/ \E prev \in ChanId \cup {NoId}, port, cpPort \in Ports, order \in Orders,
          cpChan \in ChanId, hop \in ConnId, version, cpVersion \in ChanVersions :
          ChanOpenTry(c, prev, port, order, cpPort, cpChan, hop, version, cpVersion)
    \/ \E i, cpChan \in ChanId, cpVersion \in ChanVersions :
          ChanOpenAck(c, i, cpChan, cpVersion)
    \/ \E i \in ChanId : ChanOpenConfirm(c, i)
    \/ \E i \in ChanId : ChanCloseInit(c, i)
    \/ \E i \in ChanId : ChanCloseConfirm(c, i)

PacketNext(c) ==
    \/ \E i \in ChanId, data \in Data : SendPacket(c, i, data)
    \/ \E i \in ChanId, seq \in Seqs, data \in Data, ack \in Acks :
          RecvPacket(c, i, seq, data, ack)
    \/ \E i \in ChanId, seq \in Seqs, ack \in Acks : AcknowledgePacket(c, i, seq, ack)

Next ==
    \/ ConnNext /\ UNCHANGED chanVars
    \/ \E c \in Chain : HandshakeNext(c) \/ PacketNext(c)

Spec == Init /\ [][Next]_vars

(***************************************************************************)
(* A relayer retries the packets and acknowledgements of a channel in      *)
(* their order, and goes no further than the first one that is refused; it *)
(* may give up on a channel that is closed.  IbcRelayer shows that the     *)
(* relayer of go/relay does this much.  Nobody is obliged to open, send or *)
(* close.                                                                  *)
(***************************************************************************)

AnEndIsClosed(c, i) ==
    \/ chans[c][i].state = "CLOSED"
    \/ \E j \in ChanId : j = chans[c][i].cpChan /\ chans[Other(c)][j].state = "CLOSED"

\* The packet can still be relayed: it was sent to the channel that is now the
\* counterparty, and the receiver will not take it for expired.
Relayable(c, i, seq) ==
    /\ packets[c][i][seq] # NoPacket
    /\ packets[c][i][seq].dst = chans[c][i].cpChan
    /\ packets[c][i][seq].data \notin Expired

\* Nothing in front of the packet is refused for good.
Reached(c, i, seq) ==
    /\ ~AnEndIsClosed(c, i)
    /\ \A s \in 1..seq : packets[c][i][s] # NoPacket => Relayable(c, i, s)

\* The packet of channel i of c is received.
IsReceived(c, i, seq) ==
    \E j \in ChanId, data \in Data, ack \in Acks :
        j = chans[c][i].cpChan /\ RecvPacket(Other(c), j, seq, data, ack)

IsAcknowledged(c, i, seq) == \E ack \in Acks : AcknowledgePacket(c, i, seq, ack)

FairSpec ==
    /\ Spec
    /\ \A c \in Chain : \A i \in ChanId, seq \in Seqs :
          /\ WF_vars(Reached(c, i, seq) /\ IsReceived(c, i, seq))
          /\ WF_vars(Reached(c, i, seq) /\ IsAcknowledged(c, i, seq))

(***************************************************************************)
(* Properties.                                                             *)
(***************************************************************************)

Commitment == [port: Ports, chan: ChanId, seq: Seqs, data: Data]
AckRecord == [port: Ports, chan: ChanId, seq: Seqs, ack: Acks]

\* Type invariant of the channel states and of the evidence about them.
TypeOK ==
    /\ ConnTypeOK
    /\ nextChannelSequence \in [Chain -> 1..(MaxChan + 1)]
    /\ chans \in [Chain -> [ChanId -> ChanEnd \cup {NoChan}]]
    /\ nextSequenceSend \in [Chain -> [ChanId -> 1..(MaxSeq + 1)]]
    /\ nextSequenceRecv \in [Chain -> [ChanId -> 1..(MaxSeq + 1)]]
    /\ nextSequenceAck \in [Chain -> [ChanId -> 1..(MaxSeq + 1)]]
    /\ packets \in [Chain -> [ChanId -> [Seqs -> Packet \cup {NoPacket}]]]
    /\ receipts \in [Chain -> [ChanId -> SUBSET Seqs]]
    /\ acknowledgements \in [Chain -> [ChanId -> [Seqs -> Written \cup {NoAck}]]]
    /\ delivered \in [Chain -> [ChanId -> Seq(Seqs \X Data)]]
    /\ chanLog \in [Chain -> SUBSET (ChanId \X ChanEnd)]
    /\ sentLog \in [Chain -> SUBSET Commitment]
    /\ ackLog \in [Chain -> SUBSET AckRecord]

IsOpen(c, i) == i \in ChanId /\ chans[c][i].state = "OPEN"

\* Channel i was opened by chanOpenInit and then reused as the previous
\* channel of a chanOpenTry: it took both parts of a crossing handshake.
ChanReused(c, i) == \A s \in {"INIT", "TRYOPEN"} :
                       \E r \in chanLog[c] : r[1] = i /\ r[2].state = s

\* An OPEN channel agrees with the channel it names on the ordering, on the two
\* ports and on the connections they run over, whatever old proofs and reused
\* identifiers the handshake was given.
ChanOpenAgrees ==
    \A c \in Chain, i \in ChanId : IsOpen(c, i) =>
        LET end == chans[c][i]  other == chans[Other(c)][end.cpChan] IN
        /\ end.cpChan \in ChanId
        /\ other.state \in {"TRYOPEN", "OPEN", "CLOSED"}
        /\ other.order = end.order
        /\ other.port = end.cpPort /\ other.cpPort = end.port
        /\ other.hop = conns[c][end.hop].cpConn

\* The channel an OPEN one names back names it, and both hold the same
\* negotiated version, unless that other one crossed (ChanReused).
ChanOpenIsPaired ==
    \A c \in Chain, i \in ChanId : IsOpen(c, i) =>
        LET end == chans[c][i]  j == end.cpChan IN
        ~ChanReused(Other(c), j) =>
            /\ chans[Other(c)][j].cpChan = i
            /\ chans[Other(c)][j].version = end.version

ChanRank(s) == IF s = "CLOSED" THEN 4 ELSE Rank(s)

ChanForwardStep ==
    \A c \in Chain, i \in ChanId :
        LET old == chans[c][i]  new == chans'[c][i] IN
        old # new =>
            /\ ChanRank(old.state) < ChanRank(new.state)
            /\ old.state # "UNINIT" => /\ new.order = old.order
                                       /\ new.hop = old.hop
                                       /\ new.cpPort = old.cpPort
            /\ old.state = "OPEN" => new = [old EXCEPT !.state = "CLOSED"]

\* A channel only goes forward to OPEN and CLOSED; it keeps its ordering,
\* connection and counterparty port, and once OPEN nothing but the closing
\* changes it.
ChannelGoesForward == [][ChanForwardStep]_vars

\* No packet reaches the application twice, and what reaches it is what the
\* counterparty channel committed to under that sequence number, the only
\* thing it ever committed to under it.
ExactlyOnce ==
    \A c \in Chain, i \in ChanId : \A k \in 1..Len(delivered[c][i]) :
        LET end == chans[c][i]  seq == delivered[c][i][k][1]  data == delivered[c][i][k][2] IN
        /\ \A l \in 1..Len(delivered[c][i]) : delivered[c][i][l][1] = seq => l = k
        /\ \A p \in sentLog[Other(c)] :
              p.chan = end.cpChan /\ p.seq = seq /\ p.port = end.cpPort => p.data = data
        /\ \E p \in sentLog[Other(c)] :
              p.chan = end.cpChan /\ p.seq = seq /\ p.port = end.cpPort /\ p.data = data

\* An ORDERED channel hands packets over in the order they were sent, without
\* a gap, and nextSequenceRecv says how far it got.
InOrder ==
    \A c \in Chain, i \in ChanId : chans[c][i].order = "ORDERED" =>
        /\ nextSequenceRecv[c][i] = Len(delivered[c][i]) + 1
        /\ \A k \in 1..Len(delivered[c][i]) : delivered[c][i][k][1] = k

\* Neither end of channel i of c took part in a crossing handshake.
NotCrossed(c, i) == ~ChanReused(c, i) /\ ~ChanReused(Other(c), chans[c][i].cpChan)

WasDelivered(c, i, seq) == \E k \in 1..Len(delivered[c][i]) : delivered[c][i][k][1] = seq

\* A packet that no longer awaits its acknowledgement has been handed to the
\* application at the other end, and the other end has answered it.
AckedWasReceived ==
    \A c \in Chain, i \in ChanId : IsOpen(c, i) /\ NotCrossed(c, i) =>
        LET j == chans[c][i].cpChan IN
        \A seq \in Seqs :
            seq < nextSequenceSend[c][i] /\ packets[c][i][seq] = NoPacket =>
                /\ WasDelivered(Other(c), j, seq)
                /\ acknowledgements[Other(c)][j][seq] # NoAck

\* A packet leaves an OPEN channel only when the channel it was sent to has
\* delivered that very packet, and has delivered it as this channel's packet.
AckMeansReceived ==
    [][\A c \in Chain, i \in ChanId, seq \in Seqs :
        IsOpen(c, i) /\ packets[c][i][seq] # packets'[c][i][seq] /\ packets'[c][i][seq] = NoPacket =>
            \E j \in ChanId :
                /\ j = chans[c][i].cpChan
                /\ chans[Other(c)][j].cpChan = i
                /\ <<seq, packets[c][i][seq].data>>
                      \in {delivered[Other(c)][j][k] : k \in DOMAIN delivered[Other(c)][j]}]_vars

\* On an ORDERED channel the packets awaiting an acknowledgement are exactly
\* those from nextSequenceAck up to nextSequenceSend, and the receiver's next
\* sequence lies between the two.
OrderedWindow ==
    \A c \in Chain, i \in ChanId :
        IsOpen(c, i) /\ NotCrossed(c, i) /\ chans[c][i].order = "ORDERED" =>
            LET next == nextSequenceRecv[Other(c)][chans[c][i].cpChan] IN
            /\ nextSequenceAck[c][i] <= next /\ next <= nextSequenceSend[c][i]
            /\ {seq \in Seqs : packets[c][i][seq] # NoPacket}
                  = nextSequenceAck[c][i]..(nextSequenceSend[c][i] - 1)

\* Both ends are OPEN, name each other, and run over a connection without a
\* delay period.
Established(c, i) ==
    /\ IsOpen(c, i)
    /\ IsOpen(Other(c), chans[c][i].cpChan)
    /\ chans[Other(c)][chans[c][i].cpChan].cpChan = i
    /\ conns[c][chans[c][i].hop].delay = 0

\* Every packet of an established channel that the relayer can reach is
\* received, acknowledged and forgotten, unless an end is closed.  On an ORDERED
\* channel no packet in front of it may have been dropped: a channel end that is
\* tried again forgets the packets it had sent before.
PacketsComplete ==
    \A c \in Chain, i \in ChanId, seq \in Seqs :
        (/\ Established(c, i)
         /\ packets[c][i][seq] # NoPacket
         /\ Reached(c, i, seq)
         /\ chans[c][i].order = "ORDERED" =>
               \A s \in nextSequenceAck[c][i]..seq : packets[c][i][s] # NoPacket)
        ~> (packets[c][i][seq] = NoPacket \/ AnEndIsClosed(c, i))
=============================================================================
