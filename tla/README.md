# IBC on Corda: a TLA+ verification project

Corda-IBC puts the Inter-Blockchain Communication protocol on Corda. A *chain* is
a Host state created from a Genesis state under one notary, together with every
client, connection, channel and bank state issued under the same `baseId`. A
step of the protocol is one Corda transaction: it consumes the states it
changes, refers to those it reads, and its contract (`Ibc.kt`) recomputes the
outputs with the same handler the flow used. A relayer carries proofs between
two such chains, and the proof of a state is the signed transaction that output
it.

That last point is what the project is about. A light client of an ordinary
chain proves the *current* value under a key at a height. `CordaClientState`
accepts *any* transaction its notary ever signed that outputs the expected
state: heights are constant, and nothing says whether the state has been
consumed since. So each proof is a fact about the past, and the question in
every handshake and every packet step is whether a fact about the past is
enough.

Paths below are relative to `src/`; `contracts/` stands for
`contracts/src/main/kotlin/jp/datachain/corda/ibc/`.

## 1. Inventory

| Component | State | Operations | Modelled by |
|---|---|---|---|
| Client creation and connection handshake (`contracts/ics25/Handler.kt` 23-253, `states/IbcConnection.kt`) | Host counters; one connection end per identifier | createClient, connOpenInit/Try/Ack/Confirm | `IbcConnection` |
| Corda light client (`contracts/clients/corda/CordaClientState.kt`) | none that changes (update and misbehaviour throw) | the verify functions | evidence logs in `IbcConnection`, `IbcChannel` |
| Channels and packets (`Handler.kt` 255-757, `states/IbcChannel.kt`) | channel end, three sequence numbers, packets, receipts, acknowledgements | chanOpenInit/Try/Ack/Confirm, chanCloseInit/Confirm, sendPacket, recvPacket, acknowledgePacket | `IbcChannel` |
| Host (`contracts/ics24/Host.kt`) | counters, modules, factories, bankIds | identifiers, module lookup, addBank | counters in `IbcConnection`, `IbcChannel`; counters, bankIds and creation in `IbcCommands` |
| Packet routing (`contracts/ics26/`) | none | callback of the port's module, then the handler | joint actions of `Ics20Bank` |
| Token transfer over Bank (`contracts/ics20/`) | allocated, locked, minted balances; denoms | createOutgoingPacket, onRecvPacket, onAcknowledgePacket, FundAllocate | `Ics20Bank`, promise in `TwoWayPeg` |
| Denominations (`contracts/ics20/Denom.kt`, `denom-path.kt`) | none | addPath, hasPrefix, removePrefix | `Ics20Denom`, `Ics20Transfer` |
| Token transfer over Cash (`contracts/ics20cash/`) | supply, denoms; Cash and Voucher states | createOutgoingPacket, onRecvPacket, onAcknowledgePacket, the flows that choose the coins | `Ics20Cash`, promise in `TwoWayPeg` |
| Ledger (`contracts/contracts/Ibc.kt`, `contracts/ics26/Context.kt`, `workflows/`) | the notary's transactions, vaults, flows under way | one flow per handler; Genesis, Host, Bank creation; FundAllocate | `IbcCommands`, `CordaLedger`, promise in `HostStates`; coin selection and cash issue in `Ics20Cash` |
| Relayer chain (`go/relay/`) | path ends, the messages of a cycle | SendMsgs, queries | `IbcRelayer` |
| Query services (`grpc-adapter/.../*QueryService.kt`) | none | packetCommitment(s), packetAcknowledgement(s), unreceivedPackets, unreceivedAcks; client, connection, channel | the packet queries: `IbcRelayer` |
| Transaction services and server (`grpc-adapter/.../*TxService.kt`) | none | start one flow each | no |
| End-to-end driver (`grpc-adapter/.../Client.kt`) | none | runs the handshakes, transfers, relays | its handshake: `IbcEstablished` |
| Fabric light client, `lightclientd`, `fabric-ibc-lightclientd` | none here | forward each verification to fabric-ibc code | no |
| Conversion, JSON, serialization, generated protobuf | none | data formats | no |

Interactions. A handler calls the light client (a pure check of a proof). A
packet handler of ICS-26 first calls the module bound to the packet's port,
which changes its bank, then the ICS-4 handler: both belong to one transaction
and take effect together or not at all. `createOutgoingPacket` of a module
changes its bank and calls `sendPacket`. Two chains interact through the relayer
only, which may submit anything any number of times in any order.

A transaction is made by a flow on a node of one of the participants: it queries
the node's vault for one state after another, runs the handler on what it found,
and hands the result to the notary, which signs it if none of the inputs and
reference states is consumed yet; then FinalityFlow has every participant record
it. The handlers' modules take a transaction for one atomic step; `CordaLedger`
shows that this is what comes of it. The relayer works in cycles: list the
packets (or answers) of a channel, ask the other host which it is missing, fetch
those, submit them one after another until one is refused.

What is hard here: proofs that are old; handshakes that cross, are repeated, or
overwrite a "previous" end; packets that are sent before the channel is open,
relayed twice, late or never; closing with packets in flight and no timeout
handler; refusals and refunds whose two halves are transactions of two chains;
flows that race for the one Host or the one bank over vaults that are behind;
a relayer that acts on answers to four questions asked at different times.
PROJECT.json lists these hazards with the lines where they bite and the
properties that look for them.

What would make each component correct:

* connections and channels: an OPEN end agrees with the end it names, is the
  only one that end names, and stays that way; a handshake started can be
  finished;
* packets: delivered exactly once, in order on ORDERED channels, forgotten by
  the sender only after the receiver has answered them, and all completed by a
  relayer that retries;
* token transfer: every voucher backed by escrow at all times, every transfer
  settled or refunded, every voucher nameable;
* ledger: whatever flows do over stale vaults, what is signed is a serial
  execution of commands on current values; identifiers are issued once and have
  one state;
* relayer and queries: what can still be relayed is relayed, in order, however
  old the answers it acts on.

## 2. Modules

`IbcConnection` -- variables `nextClientSequence`, `nextConnectionSequence`
(Host), `conns` (the unconsumed connection states) and `connLog` (every
`<<identifier, end>>` ever output by a notarised transaction: the evidence). One
action per handler; `VerifyConnectionState` is membership in the other chain's
log. The parameters of an action are the fields of the message that the handler
does not check against something else; an `IF previousConnectionId` of the code
is a disjunction. Everything the handlers compare is compared: in particular
what is *not* compared in the code (the counterparty identifier in connOpenInit
and in connOpenAck of a TRYOPEN end, the delay period in connOpenConfirm) is not
compared here.

`IbcChannel` EXTENDS it with the channels. The fields of an `IbcChannel` state
are a variable each (`chans`, `nextSequenceSend`, ..., `acknowledgements`),
indexed by chain and identifier, since different handlers write different
fields. `chanLog`, `sentLog` and `ackLog` are the evidence. `delivered` is the
history of what reached the application's callback. The callback itself is a
parameter: `RecvPacket` takes the acknowledgement it answered.

`IbcEstablished` gives the state in which `Client.kt` has run both handshakes to
the end. (It is a reachable state of `IbcChannel`: TLC refutes
`~EstablishedInit` for two channels.)

`Ics20Denom` -- denominations as a path and a base. `Ics20Transfer` -- what both
token transfers share: the payload of their packets, and what of a token is
outbound, abroad and homebound. `Ics20Bank` -- the banks of
both chains over `IbcEstablished`. Each packet action is the conjunction of the
`IbcChannel` action and of what the callback does to the bank, since one
transaction does both. A balance is a partial function, as the map in the code is:
`GetOrZero` is `getOrDefault`, and `HasFund` distinguishes, as `down` does, someone
without an entry from someone with an entry of zero. Amounts are integers of any
sign, because `ics20.Amount` is a BigInteger and neither the flows nor the module,
its callbacks, `FundAllocate` or the bank look at the sign: with an amount below
zero the same actions move tokens the other way.

`Ics20Cash` -- the same over Corda Cash. `cash` and `vouchers` sum the Cash and
Voucher states of an owner (transactions consume states of one owner and give
the change back to him, so how a sum is cut into states does not matter to who
has what); `supply` and `denoms` are the CashBank. Locking is paying to the bank
owner, unlocking is his paying out. `own`, a history variable, is what he holds
otherwise. Checks that fail are guards, since here they throw: nothing is ever
answered with an error. Amounts are natural numbers, zero included, because Corda's
`Amount` is; a Cash state of zero is refused by the Cash contract, while the
module does accept zero for a voucher that is sent home. `IssueCash` is the Corda finance flow that
`CashBankService.allocateCash` calls. `Lockers` is who sends cash abroad.

`TwoWayPeg` is the abstract specification of a transfer application: per token
(a base denomination with its home) the totals spendable, in escrow, on the way
out, in vouchers and on the way home, and six transitions. Amounts are integers;
that each stage has what leaves it is part of the promise where none of them is
negative (`Covers`), and only there, since the bank promises it only there. `Ics20Bank` implements
it; the refinement mapping (the `INSTANCE` in `Ics20Bank`) sums balances over
owners and packets over channels, counting a packet as on its way until it is
received with success, and after a refusal until it is refunded. `Ics20Cash`
implements it too: escrow is the bank owner's cash less `own`.

`IbcCommands` -- what each transaction does to the states of a host, as far as
states are tied together: what its flow queries and in which order, what it
takes and what it refers to, which identifier it has the Host issue. One set of
commands per flow of `workflows/`, parameterised by the identifiers; flows with
the same queries, inputs and references are one set (ConnStep, ChanStep,
RelayTransfer). A value keeps a Host's counters, the identifier a connection or
channel lies on, and the number of changes.

`HostStates` is the abstract specification of a ledger: a map from identifiers to
values, and one step per command on the current values. It is how the handlers'
modules see a chain. `CordaLedger` implements it. Its variables are `ledger` (the
notarised transactions in the notary's order; a place in it stands for a
transaction hash), `vault` (per node, what it has recorded) and `flows` (those
under way, with the states they hold so far). `Start` and `Query` are the flow's
vault queries, `Notarise` the handler in flow and contract with the notary's
check, `Record` the end of FinalityFlow at one participant, `Fail` everything
that ends a flow early: a query that finds nothing, a refusal by handler or
notary, a node that stops. The order of a flow's queries is that of the code, so
the connection is looked up by the channel found before it. The refinement
mapping is the unconsumed states of the ledger; vaults and flows map to nothing.

`IbcRelayer` -- the cycle of `go/relay` with `ChannelQueryService.kt`, over
`IbcEstablished`. `seen` is the vault of the node that is queried, which catches
up by `Sync`; `job` is how far the cycle of a channel has come, for its packets
and for the answers to them. `List`, `Ask` and `Fetch` are the queries, `Deliver`
and `Refuse` are SendMsgs (`Fetch` is one step for the several calls that get one
message with its proof: evidence only grows, so what the first of them found the
last one still finds), `Lose` is a call that fails or a relayer that dies:
the cycle starts anew. Other relayers, users and closings go on in between.

`MCConnection`, `MCChannel`, `MCBank`, `MCCash`, `MCLedger`, `MCRelayer` declare
model values and symmetry for TLC; `MCLedger` also the state its run starts from.
The theorems are in `IbcChannel_proofs` (connections and channels),
`IbcEstablished_proofs`, `Ics20Transfer_proofs` (lemmas), `Ics20Bank_proofs`,
`Ics20Cash_proofs`, `IbcRelayer_proofs`, `CordaLedger_proofs` and
`TwoWayPeg_proofs`.

Abstractions shared by all: the two chains each run the Corda client of the other
(so heights, versions and prefixes are the constants of `constants.kt`);
identifiers `connection-3` are numbers, and the empty identifier is `NoId`;
payloads are model values that stand for the whole commitment (data and
timeouts); a packet whose `timeoutTimestamp` the receiver refuses is one whose
payload is in `Expired`.

Definitions marked "Mutant" change one definition the way a plausible bug would.
No specification uses them; each property of a passing run is violated when one
of them takes the place of the definition it mutates (PROJECT.json, "mutants").

## 3. Runs

| Run | Question | Bounds | Result |
|---|---|---|---|
| `connection` | Do handshakes over old proofs end in agreeing, paired, stable connections, and does OPEN spread? | 1 client, 2 connections per chain, delays 0 and 1 | holds; 13,600 states |
| `channel` | The same for channels, with closing | 2 channels per chain, 1 connection, both orderings, no packets | holds; 644,000 |
| `packets` | Exactly once, in order, acknowledged only if received, while handshake and closing go on | 1 channel, 2 packets each way, 2 payloads, 2 versions, both orderings | holds; 753,000 |
| `relay` | Are the packets a relayer can reach completed? | as above with one version, one of two payloads expired, fair relayer | holds; 426,000 |
| `bank` | Are vouchers backed, nameable, do owners keep what they have at home, and do the banks implement the peg? | 2 channels, 1 packet per channel and direction, 2 owners per chain, 1 token per chain, both chains funded, amount 1, balances funded with -1 to 1 | holds; 142,500 |
| `bank_settles` | Are transfers settled, and is anything overdrawn before an amount below zero is sent? | 1 channel, amounts -1, 1 and 2 against funds of 2 on one chain, a malformed receiver | holds; 36,400 |
| `cash` | Is there always cash for what is abroad, does supply follow the vouchers, is the peg implemented, are transfers paid out? | 2 channels, 1 packet per channel and direction, cash of one issuer, who owns both banks, one other user, a malformed receiver, amounts 0 and 1 | holds; 62,000 |
| `ledger` | Is what concurrent flows get signed a serial execution, and is each identifier issued once? | 2 nodes, 2 flows at a time, 7 transactions, of which 5 are the set-up, 2 Geneses, 1 client, connection, channel and bank per host | holds; 191,800 |
| `relayer` | Does the relayer keep the promise the fairness of the other runs makes, complete what it can reach, and submit nothing that is refused for its proof? | 1 channel, both orderings, 2 packets, one payload expired, list limits 1 and 2, 1 lost call | holds; 55,500 |
| `confirm_delay` | Can the second side of a handshake always be confirmed? | as `connection` | violated |
| `ack_meaning` | Does an acknowledgement mean that the channel it is from received the packet from this one? | 2 channels, 1 packet | violated |
| `homecoming` | Are vouchers sent home unlocked? | 1 channel | violated |

Why these bounds. A handshake has two ends and goes wrong when an end is taken
by a third: two connections or channels per chain are the least in which an end
can be proposed to a counterparty that is taken, reused as a previous one while
another handshake runs, or crossed. One connection suffices under the channels:
the connection appears in a channel only as the pair of identifiers that
`OpenAgrees` and `OpenIsPaired` are about, and those are proved for any number.
Two packets each way are the least for a gap, an overtaking and a repetition.
Two owners and two channels are the least for escrow of one to be claimed by
the other. In `bank_settles` amounts of -1, 1 and 2 against funds of at most 2 give every outcome of
`balance >= amount`: enough, too little, no entry, an entry of zero or below it,
and an amount that passes because it is negative. `bank`, whose interest is two channels,
two owners and both directions, keeps to one amount; for others `OwnersKeepTheirFunds` is proved (`OwnersAreSafe`). `Funded` are the chains where accounts are
funded in a run; the transfers go both ways all the same. `MaxClient`, `MaxConn`, `MaxChan`, `MaxSeq`, `MaxFund` bound the
counters, each in the guard of the one action that advances it (`MaxFund` those of `FundAllocate`
and `IssueCash`, also as what an owner may be made to owe). Deadlock is not
checked because with the counters at their bounds and everything closed there
is rightly nothing left to do.

In `cash` the users send abroad and the bank owner does not (`Lockers`): one who
did would pay his own cash to himself, what users have locked with him would
serve again, and vouchers would be minted that his cash does not cover. But he
may hold cash of his own, be sent cash and vouchers, and send vouchers home. Cash of one issuer is enough:
transactions on different denominations share only the channels and the counter
per denomination. The owner spending cash by other Corda flows is outside.

In `ledger` two flows are the least for a race, and a third would race with each
of the two alone; two nodes are the least for a vault that is behind. With
the set-up on the ledger the two remaining transactions are any two commands
there are (another Genesis with its Host, channel opening, funds, a transfer,
...), in every interleaving of their queries. (For any number of everything there
is the proof.) `relayer` has one channel because a cycle concerns one, and two
packets: one in front of the other. `MaxLost` is one lost call at any point; the
calls after it are fresh.

Symmetry: chains are exchanged in the channel runs (nothing but `Other` tells
them apart), versions and payloads where no run singles one out, owners in the
bank. The runs with liveness properties use none.

Fairness. `ConnFairSpec` assumes weak fairness of connOpenConfirm. `FairSpec`,
`BankFairSpec` and `CashFairSpec` assume of the relayer that it gets done, for
each packet separately, what stays possible *within its reach*: nothing pending
in front of the packet is refused for good, and no end of the channel is closed
(`Reached`; for transfers also that the receivers up to it can be paid,
`Deliverable`). More cannot be assumed, because SendMsgs stops at the first
message that is refused. That the relayer of `go/relay` does get this much done is the property
`RelaysInOrder` of `IbcRelayer`, from weak fairness of its cycle and of the
vaults' catching up alone; so the fairness of the other specifications is
a promise that one is checked to keep. It is kept up to the limit given with the
list queries: acknowledgements are never deleted, so with offset 0 those beyond
the first `limit` are never listed. No fairness is assumed of users (starting,
sending, closing, funding) or of other relayers. Paying out cash takes the bank
owner's key, and `tx.go:38` submits every recvPacket to his node; a payment to
the owner himself is left out of `CashTransfersSettle`, since two equal outputs of it would be
one in `Context.outStates`, and the Cash contract refuse it. Left out as well is a
voucher return of zero: `Module.kt` 58-75 burns nothing and sends it, but
`ModuleCallbacks.kt` 43 would have to output a Cash state of zero, so that it is
received by no one, answered by no one, and on an ORDERED channel nothing behind it is
received either. The run has such returns in it; `CashTransfersSettle` claims nothing for
them and what waits for them (`Payable`, `Deliverable`).

### What the violated runs show

Each is a place where the code does not do what a document of the repository
says; none breaks a property of the passing runs.

* `confirm_delay`: connOpenConfirm expects an OPEN end with delay period 0
  (`Handler.kt` 232-241 sets none). A connection proposed with a delay period
  can never be confirmed on the second side. `OpenSpreads` is therefore stated
  for delay 0. (Such a connection would be of no use either:
  `verifyPacketCommitment` and `verifyPacketAcknowledgement` require 0.)
* `ack_meaning`: both sides init channels and both answer with Try on a channel
  of their own (crossing); one end is reused, and chanOpenAck of the other is
  given a TRYOPEN that has been superseded. A1 opens towards B1 while B1 faces
  A2, and A1 takes B1's acknowledgement of A2's packet for its own. This is why
  `OpenIsPaired`, `ChanOpenIsPaired`, `AckedWasReceived` and `OrderedWindow` set
  aside ends that took both parts of a crossing handshake (`Reused`,
  `ChanReused`, `NotCrossed`).
* `homecoming`: escrow is kept per locker, so vouchers that were passed on and
  come home to someone who locked nothing are refused (and refunded as
  vouchers). `Backed` and `ImplementsPeg` show that nothing is lost by it.

One more thing is in no run of its own: sendPacket accepts an INIT channel, and
the chanOpenTry that later reuses it keeps its sequence numbers but not its
packets. On an ORDERED channel nothing behind such a packet is ever completed;
the premise of `PacketsComplete` sets that case aside.

## 4. Proofs

Every invariant and every action property of a passing run is stated by a theorem,
and so is the refinement of each abstract specification; only the properties that
need fairness are not (see the end of this section).
The assumptions are the named ones of the modules: the two chains differ, bounds and
delays are numbers, amounts are integers (natural numbers for cash, as in Corda),
sets of addresses are finite. Where a
theorem has a hypothesis of its own, it says so.

### Connections and channels: `IbcChannel_proofs`

*Connections*, for any two chains, any bounds and any set of
delay periods: `ConnTypeCorrect`, `OpenConnectionsAgree`,
`OpenConnectionsArePaired` and `ConnectionsGoForward`.

None of the properties is inductive: an OPEN end is produced from a proof, and a
proof is about the past. The inductive invariant `ConnIInv` therefore ties the
evidence to the present: what the log says of an identifier is at or behind the
current end in the order INIT, TRYOPEN, OPEN, with the same clients and delay
period; a TRYOPEN or OPEN entry was itself backed, when it was written, by an
entry of the other chain's log; and an identifier not yet issued has no
entries. From these, an old proof can say too little but never something that
the present contradicts, which is `OpenAgrees`; the pairing needs in addition
that an identifier that was never reused has just one counterparty in all its
TRYOPEN and OPEN entries.

*Channels and packets*: `ImplementsConnections` (so the four theorems above
hold with channels running), `ChanTypeCorrect`, `ChannelsGoForward`,
`OrderedInOrder` and `PacketsExactlyOnce`, for any number of channels, packets,
ports, versions and payloads. The six handshake and closing handlers are shown
to be instances of one step, `ChanAdvance`: an end is replaced by one of higher
rank. Its inductive invariant `ChanIInv` adds to the properties: nothing is
delivered before a channel is OPEN (so chanOpenTry and chanOpenAck, which may
re-point a channel, never disown a delivery); what an UNORDERED channel
delivered has a receipt; what was delivered is in the counterparty's evidence;
and a sequence number appears in the evidence with one payload only, below
`nextSequenceSend` (chanOpenTry carries the three sequence numbers over: were
they reset, two payloads would be committed to under one number).

*What two channels have in common*:
`OpenChannelsAgree`, `OpenChannelsArePaired`, `AckedPacketsWereReceived` and
`OrderedWindowsAlign`. As for connections the invariant is about the evidence.
`PairIInv`: the logged ends of a channel are at or behind the current one, with
the same ordering, connection and counterparty port, and from TRYOPEN on the same
port too (chanOpenTry does not compare the port of the previous channel, so before
that it may change); a TRYOPEN end was shown an INIT end of the channel it names;
an OPEN end was shown a TRYOPEN or OPEN end that answers it, over a connection that
is OPEN and therefore final; and a channel that is re-pointed or changes its
version after TRYOPEN has been in INIT. `HeldIInv`: every acknowledgement in the
evidence is of a delivered packet; a packet that was sent and is gone was
acknowledged by the channel this one was opened with, or dropped when a second
chanOpenTry took the channel over; and an ORDERED channel holds the packets from
`nextSequenceAck` up. `OrderedWindow` puts all of it together: the receiver's
next sequence is bounded above because what it delivered was sent by this very
channel (pairing, then `DeliveredWasSent` and `SentOnce`), and below because what
this channel no longer holds was delivered there, in order.

### Established hosts: `IbcEstablished_proofs`

`Ics20Bank`, `Ics20Cash` and `IbcRelayer` start from hosts whose channels are open
already, so the theorems above, which start from nothing, do not speak of them.
`EstablishedInvariance` shows that this start satisfies the same inductive
invariants (its evidence holds the whole course of the two handshakes), and two
more: `Linked`, that the ends keep naming each other, OPEN or CLOSED, since no
handshake handler has anything left to do; and `TransitIInv`, which ties a packet at
its sender to its answer at the receiver: what is in the evidence as sent is held
or answered, what is answered was received. `EstablishedIsSafe`: exactly once, in
order, agreement, pairing, acknowledgements and windows, from there on.
`BankRunsOnChannels`, `CashRunsOnChannels` and `RelayRunsOnChannels` show that
each of the three modules implements `EstablishedSpec`, so that all this carries
over to packets with an application's callbacks and to the relayer.

### Sums: `Ics20Transfer_proofs`

The mapping to the peg sums over owners, packets and channels. `SumFunctionOnSet` is
a fold, defined by recursion on sets through a CHOOSE; what is proved of it is
how it changes with one summand (`SumChange`), the rest follows from that. The induction
theorems of the library take a predicate as a parameter, which the provers
cannot instantiate, so the induction is put in terms of a set: a set of
numbers that has 0 and with n also n + 1 is `Nat`, for otherwise there is a least
counterexample (`NatSetInduction`), and likewise for the subsets of a finite set
(`SubsetInduction`). On these rest the lemmas about the handlers:
sending adds the amount to what is on its way, an answer "result" takes it off, an
error does not and its acknowledgement does, and no other step touches it.

### The banks: `Ics20Bank_proofs`

For any owners, channels, packets, denominations and integer amounts: `BankTypesHold`,
`VouchersAreRecorded`, `BankIsPeg` (each step of the banks, refusals and refunds
included, is one transition of `TwoWayPeg` or none), `BankIsBacked`, `OwnersAreSafe`
(no transfer changes what an owner has at home, spendable and in escrow together) and
`NobodyOverdraws`. The last one is as much as the code guarantees of balances that are not
negative: as long as nothing below zero was sent, none in escrow and none of vouchers is. It is
not said of allocated balances, since `FundAllocate` may make one negative at
any time, and not said beyond the first negative transfer, because then it is false: such a
transfer passes `balance >= amount`, and lock, burn and unlock of it go the wrong way.
What holds whatever is sent is that sums balance and that nobody but the parties to a transfer
is charged.

The
inductive invariant adds to that of established hosts: tokens in hand are
of base denominations and vouchers are recorded (`HeldAtHome`, `MintedIsRecorded`,
both about entries, which a balance of zero has too);
a packet is of a base denomination or of a voucher that is going back the way it came
(`FlightIsNamed`); only such a voucher is ever refused (`RefusedCameHome`), which is why
a refund that mints without recording can be named, and why it returns to
circulation what left it; and nothing is in debt before an amount below zero
is sent (`Solvent`, which with no such amount at all extends to what is allocated, and so
gives the peg its `Covers`). `Backed` itself is part of it (`TokenBacked`), step by step, with
one lemma per branch of the three callbacks.

### The cash banks: `Ics20Cash_proofs`

`SupplyIsCirculation` holds whoever sends what. `CashIsPeg`, `CashIsCovered` and
`CashTypesHold`, for any amounts Corda has, have the hypothesis `OwnersDoNotLock`: no bank owner sends the cash he
holds abroad. They fail without it: he would pay his own cash
to himself, no escrow would come of it, and vouchers would; `own`, which counts what he has
besides the escrow, would go below zero (with the owner among the `Lockers`
TLC finds `Covered` violated, while the inductive invariant without
`OwnIsKept` stands). The invariant keeps the equation of escrow and peg for everyone
(`EscrowBacked`, with `own` an integer) and its sign under the hypothesis.

### The relayer: `IbcRelayer_proofs`

`RelayTypesHold` and `FetchedStaysProved`: a packet or an answer that was fetched
from a vault that is behind, after a listing that is older still, is submitted with
a proof that is good, whatever has happened in between. The invariant says why:
what a vault has seen is in the evidence of its host (`SeenIsLogged`), what is fetched
from it is too (`FetchedIsLogged`), evidence is never taken back, and no
channel end changes what the proof is checked against. So a host refuses a message
for coming late or out of order only. The guard of `Refuse` is
an ENABLED, which the provers do not handle; the proof does not need it.

### The ledger and the peg

`CordaLedger_proofs` proves, for any nodes, any number of flows, transactions and
identifiers (assumed: the bounds are numbers): `LedgerTypeCorrect`,
`IdentifiersAreUnique`, `IdentifiersAreIssuedOnce`, `LedgerExecutesSerially` and
`LedgerImplementsHosts`. The inductive invariant `LedgerIInv` adds to the
properties: a vault holds with a transaction all whose states that one uses
(`VaultsAreClosed`); what a flow has found exists, under the flow's base
identifier (`FlowsHoldStates`); the current Host has counted every identifier of
its base (`HostCounts`); an unconsumed Genesis is the only state of its base
(`GenesisIsAlone`). The heart is `UniqueFromAnywhere`: identifiers are unique in
*any* part of the ledger that is closed under what its transactions use, not only
in all of it. That is what a vault needs, which may have recorded any such part;
it fails (the mutant of `IdsAreUnique`) in one that records transactions as they
arrive. Serial execution comes from the notary's check of inputs *and*
references.

`TwoWayPeg_proofs` proves `PegIsKept`: `PegSpec` keeps escrow equal to what is
outbound, in vouchers and homebound, for any tokens and integer amounts
(hypothesis `PegAmounts`), and `NoStageRunsShort`: if no amount is negative
(`NoneNegative`), no stage of it ever is. With `BankIsPeg` and `CashIsPeg` this is what the abstract
specification promises of either transfer; `BankIsBacked` says the same of the banks
directly.

Only model-checked is what needs fairness, which the proof system does not
support: `OpenSpreads`, `PacketsComplete`, `TransfersSettle`,
`CashTransfersSettle`, `RelayerCompletes` and `RelaysInOrder`.

## 5. Not modelled, and why

* The refund of `ics20cash`: it is called for an error, which this module never
  answers; its cash branch would output no bank and fail `verifyResults`.
* Timeouts: the code has no timeout handler and `verifyPacketReceiptAbsence`
  throws; what an expired packet does to its channel is modelled.
* Sending between the ports `transfer` and `transfer-old`: Bank and CashBank have
  the same identifier and `addBank` refuses a second one, so a host has one of the
  two; between hosts with different ones the acknowledgement flow looks for the
  bank of the destination port and finds none.
* Client update and misbehaviour: `CordaClientState` throws NotImplementedError.
* The Fabric client: each check is forwarded to code outside the repository.
* Denominations with several hops: a voucher cannot leave over another channel
  because lock takes allocated balances only. FundAllocate is used with base
  denominations, as the tests and scripts do.
* The strings of addresses and denominations, hashing, conversion, JSON, protobuf:
  data without control of its own. (The sign of an amount is not: it is modelled.)
* Signatures and participants: who may submit; the properties here hold
  whoever does. All participants are nodes of the model.
* The relayer's handshake messages: the handlers' modules have anyone submit them
  in any order. Its configuration, and the loop of yui-relayer beyond the order
  of the four calls.
* The queries for clients, connections and channel ends: they return the state a
  vault has and its transaction as proof, which is one of the evidence logs.

## 6. Plan

1. (done) `IbcConnection` and `IbcChannel` with proofs, `IbcEstablished`,
   `Ics20Denom`, `TwoWayPeg` with proofs, `Ics20Transfer`, `Ics20Bank`,
   `Ics20Cash`.
2. (done) `IbcCommands`, `HostStates`, `CordaLedger` with proofs; `IbcRelayer`,
   and the fairness of the other modules reduced to what it provides; the proofs
   about pairs of channels.
3. (done) `IbcEstablished_proofs`, `Ics20Transfer_proofs`, `Ics20Bank_proofs`,
   `Ics20Cash_proofs` and `IbcRelayer_proofs`: every invariant of the runs and both
   refinements of the peg, for all values of the constants.
4. Amounts of any sign in the bank and of zero in cash, in models, runs and proofs
   (done). Lemmas about the denomination paths; further action properties of the
   transfers (an answer is final).
