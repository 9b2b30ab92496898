---------------------------- MODULE IbcRelayer ----------------------------
(***************************************************************************)
(* The relayer of go/relay between two established hosts.  For the packets *)
(* of a channel, and again for the answers to them, it repeats: list what  *)
(* the one host has, ask the other which of it is still missing there,     *)
(* fetch each of these with its proof, submit them one after another.      *)
(* Each of the four is a call of its own, answered by                      *)
(* ChannelQueryService.kt from the vault of a node (seen), which may be    *)
(* behind the host's states; in between users send packets, other relayers *)
(* submit the same packets, and channels are closed.                       *)
(*                                                                         *)
(* The loop itself is a library's (yui-relayer): that the calls are made   *)
(* in this order, with offset 0 and a limit, is all that is taken of it.   *)
(***************************************************************************)
EXTENDS IbcEstablished, FiniteSets

CONSTANTS
    Sources,           \* the hosts whose packets there are to relay
    Limits,            \* limits a loop may give with its list queries
    MaxLost            \* bound on the calls that fail without a reason

ASSUME RelayBoundsAreNat == Limits \subseteq Nat \ {0} /\ MaxLost \in Nat
ASSUME SourcesAreHosts == Sources \subseteq Chain

VARIABLES
    limit,             \* the limit of this loop, which never changes
    seen,              \* the channel states in the vault that is queried
    job,               \* for packets and answers: how far the cycle has got
    lost               \* the calls that have failed so far

relayVars == <<limit, seen, job, lost>>
allVars == <<vars, relayVars>>

Kinds == {"packets", "answers"}
Steps == {"idle", "listed", "asked", "fetched"}

\* todo are sequence numbers until the messages are fetched.
Job(step, todo) == [step |-> step, todo |-> todo]
Idle == Job("idle", {})

\* The fields of the channel states of host c that the queries look at.
State(c) == [packets |-> packets[c], receipts |-> receipts[c],
             acks |-> acknowledgements[c]]

RelayInit ==
    /\ EstablishedInit
    /\ limit \in Limits
    /\ seen = [c \in Chain |-> State(c)]
    /\ job = [c \in Sources |-> [i \in ChanId |-> [k \in Kinds |-> Idle]]]
    /\ lost = 0

\* The vault has recorded what the host has come to.
Sync(c) ==
    /\ seen' = [seen EXCEPT ![c] = State(c)]
    /\ UNCHANGED <<vars, limit, job, lost>>

\* The channel the path names at the other host.
Peer(c, i) == chans[c][i].cpChan

(***************************************************************************)
(* Queries.                                                                *)
(***************************************************************************)

\* The first ones, by sequence number.
Page(S) == {s \in S : Cardinality({r \in S : r < s}) < limit}

PacketCommitments(c, i) == Page({s \in Seqs : seen[c].packets[i][s] # NoPacket})
PacketAcknowledgements(c, i) == Page({s \in Seqs : seen[c].acks[i][s] # NoAck})

\* Receipts are all that is looked at, and an ORDERED channel writes none: what
\* it has received counts as missing until the packet is acknowledged.
UnreceivedPackets(c, i, sequences) == sequences \ seen[c].receipts[i]

\* Mutant: what the sender no longer has is what it has not received.
UnreceivedAcksInverted(c, i, sequences) ==
    {s \in sequences : seen[c].packets[i][s] = NoPacket}

UnreceivedAcks(c, i, sequences) ==
    {s \in sequences : seen[c].packets[i][s] # NoPacket}

(***************************************************************************)
(* One cycle for channel i of host c.                                      *)
(***************************************************************************)
Proceed(c, i, k, step, todo) ==
    job' = [job EXCEPT ![c][i][k] = IF todo = {} THEN Idle ELSE Job(step, todo)]

List(c, i, k) ==
    /\ job[c][i][k] = Idle
    /\ Proceed(c, i, k, "listed",
               CASE k = "packets" -> PacketCommitments(c, i)
                 [] k = "answers" -> PacketAcknowledgements(Other(c), Peer(c, i)))
    /\ UNCHANGED <<vars, limit, seen, lost>>

Ask(c, i, k) ==
    LET listed == job[c][i][k].todo IN
    /\ job[c][i][k].step = "listed"
    /\ Proceed(c, i, k, "asked",
               CASE k = "packets" -> UnreceivedPackets(Other(c), Peer(c, i), listed)
                 [] k = "answers" -> UnreceivedAcks(c, i, listed))
    /\ UNCHANGED <<vars, limit, seen, lost>>

\* Mutant: a packet that is gone is fetched as well.
FetchableAnyway(c, i, k, s) == TRUE

\* The packet is read from its sender, for an answer too; a query for one that
\* is gone fails, and with it the cycle.
Fetchable(c, i, k, s) ==
    /\ seen[c].packets[i][s] # NoPacket
    /\ k = "answers" => seen[Other(c)].acks[Peer(c, i)][s] # NoAck

\* Mutant: the first packet there is, whatever was asked for.
MessageOfFirst(c, i, k, s) ==
    LET held == {r \in Seqs : seen[c].packets[i][r] # NoPacket}
        first == CHOOSE r \in held : \A q \in held : r <= q
    IN  [seq |-> s, body |-> CASE k = "packets" -> seen[c].packets[i][first]
                               [] k = "answers" -> seen[Other(c)].acks[Peer(c, i)][s]]

Message(c, i, k, s) ==
    [seq |-> s, body |-> CASE k = "packets" -> seen[c].packets[i][s]
                           [] k = "answers" -> seen[Other(c)].acks[Peer(c, i)][s]]

Fetch(c, i, k) ==
    LET asked == job[c][i][k].todo IN
    /\ job[c][i][k].step = "asked"
    /\ Proceed(c, i, k, "fetched",
               IF \A s \in asked : Fetchable(c, i, k, s)
               THEN {Message(c, i, k, s) : s \in asked} ELSE {})
    /\ UNCHANGED <<vars, limit, seen, lost>>

\* Mutant: messages are submitted in no particular order.
AnyMessage(messages) == messages

NextMessage(messages) == {m \in messages : \A n \in messages : m.seq <= n.seq}

\* What the host does with a message, if it takes it.
Handled(c, i, k, m) ==
    CASE k = "packets" -> \E ack \in Acks :
                             RecvPacket(Other(c), Peer(c, i), m.seq, m.body.data, ack)
      [] k = "answers" -> AcknowledgePacket(c, i, m.seq, m.body.ack)

\* SendMsgs goes on to the next message.
Deliver(c, i, k) ==
    LET messages == job[c][i][k].todo IN
    /\ job[c][i][k].step = "fetched"
    /\ \E m \in NextMessage(messages) :
          /\ Handled(c, i, k, m)
          /\ Proceed(c, i, k, "fetched", messages \ {m})
    /\ UNCHANGED <<limit, seen, lost>>

\* SendMsgs ends at the first message that is refused, whatever comes after it.
Refuse(c, i, k) ==
    LET messages == job[c][i][k].todo IN
    /\ job[c][i][k].step = "fetched"
    /\ \E m \in NextMessage(messages) : ~ENABLED Handled(c, i, k, m)
    /\ Proceed(c, i, k, "fetched", {})
    /\ UNCHANGED <<vars, limit, seen, lost>>

\* A call fails: the connection is lost, the notary refuses a stale state, the
\* process dies on an answer it cannot read.  The cycle starts anew.
Lose(c, i, k) ==
    /\ lost < MaxLost                                            \* MaxLost
    /\ job[c][i][k] # Idle
    /\ lost' = lost + 1
    /\ Proceed(c, i, k, "idle", {})
    /\ UNCHANGED <<vars, limit, seen>>

Cycle(c, i, k) ==
    \/ List(c, i, k) \/ Ask(c, i, k) \/ Fetch(c, i, k)
    \/ Deliver(c, i, k) \/ Refuse(c, i, k)

\* Users, and other relayers.
OthersNext ==
    /\ \/ \E c \in Sources, i \in ChanId, data \in Data : SendPacket(c, i, data)
       \/ \E c \in Chain, i \in ChanId :
             \/ \E seq \in Seqs, data \in Data, ack \in Acks :
                   RecvPacket(c, i, seq, data, ack)
             \/ \E seq \in Seqs, ack \in Acks : AcknowledgePacket(c, i, seq, ack)
             \/ ChanCloseInit(c, i)
             \/ ChanCloseConfirm(c, i)
    /\ UNCHANGED relayVars

RelayNext ==
    \/ OthersNext
    \/ \E c \in Chain : Sync(c)
    \/ \E c \in Sources, i \in ChanId, k \in Kinds : Cycle(c, i, k) \/ Lose(c, i, k)

RelaySpec == RelayInit /\ [][RelayNext]_allVars

\* The vaults catch up, and the relayer goes round for ever.  Nobody else is
\* obliged to do anything.
RelayFairSpec ==
    /\ RelaySpec
    /\ \A c \in Chain : WF_allVars(Sync(c))
    /\ \A c \in Sources, i \in ChanId, k \in Kinds : WF_allVars(Cycle(c, i, k))

(***************************************************************************)
(* Properties.                                                             *)
(***************************************************************************)

\* Type invariant: the relayer holds sequence numbers, then whole messages.
RelayTypeOK ==
    /\ limit \in Limits
    /\ seen \in [Chain -> [packets: [ChanId -> [Seqs -> Packet \cup {NoPacket}]],
                           receipts: [ChanId -> SUBSET Seqs],
                           acks: [ChanId -> [Seqs -> Written \cup {NoAck}]]]]
    /\ \A c \in Sources, i \in ChanId, k \in Kinds :
          /\ job[c][i][k].step \in Steps
          /\ job[c][i][k].step # "fetched" => job[c][i][k].todo \subseteq Seqs
          /\ job[c][i][k].step = "fetched" =>
                job[c][i][k].todo \subseteq
                    CASE k = "packets" -> [seq: Seqs, body: Packet]
                      [] k = "answers" -> [seq: Seqs, body: Written]
    /\ lost \in 0..MaxLost

\* The proof of what the relayer is about to submit is good, whatever has happened
\* since the four queries, to the vaults or to the packet: a message may come too
\* late or out of order, but no host refuses it for its proof.
FetchedIsProved ==
    \A c \in Sources, i \in ChanId, k \in Kinds :
        job[c][i][k].step = "fetched" =>
            \A m \in job[c][i][k].todo :
                CASE k = "packets" -> VerifyPacketCommitment(
                                          Other(c), chans[Other(c)][Peer(c, i)], m.seq, m.body.data)
                  [] k = "answers" -> VerifyPacketAcknowledgement(
                                          c, chans[c][i], m.seq, m.body.ack)

\* The relayer keeps the promise that IbcChannel makes of relayers: whatever
\* others do in between, in however old a vault it looks, what stays possible of
\* a packet within its reach is done, on ORDERED channels too, whose packets it
\* is told are missing after they were received.  Answers are never deleted, so
\* the first limit of them are all that are ever listed.
RelaysInOrder ==
    \A c \in Sources, i \in ChanId, seq \in Seqs :
        seq <= limit =>
            /\ WF_vars(Reached(c, i, seq) /\ IsReceived(c, i, seq))
            /\ WF_vars(Reached(c, i, seq) /\ IsAcknowledged(c, i, seq))

\* The relayer alone completes every packet that it can reach, unless an end of
\* the channel is closed.
RelayerCompletes ==
    \A c \in Sources, i \in ChanId, seq \in Seqs :
        (seq <= limit /\ packets[c][i][seq] # NoPacket /\ Reached(c, i, seq))
        ~> (packets[c][i][seq] = NoPacket \/ AnEndIsClosed(c, i))
=============================================================================
