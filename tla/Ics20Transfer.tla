---------------------------- MODULE Ics20Transfer ----------------------------
(***************************************************************************)
(* What the two token transfers of ICS-20 have in common: the contents of  *)
(* their packets and what of a token is on its way between the chains.     *)
(* Ics20Bank keeps the tokens in balances, Ics20Cash in Cash states.       *)
(*                                                                         *)
(* Amounts are integers of any sign, as ics20.Amount has them.  A message  *)
(* may name a denomination by its hash ("ibc/..."), which resolves to a    *)
(* recorded one, or by its path, which always works: so the path form      *)
(* stands for both.  Paths have at most one hop: both modules refuse to    *)
(* send a voucher on to yet another chain.                                 *)
(***************************************************************************)
EXTENDS IbcEstablished, Ics20Denom, FiniteSetsExt

CONSTANTS
    Bases,             \* base denominations
    Addresses,         \* the strings that are addresses
    Malformed,         \* receivers a message may name that are not
    Amounts,           \* amounts a message may ask for
    MaxFund            \* bound on what a chain issues of a base denomination

Hops == Ports \X ChanId
Denom == [path: {<<>>} \cup {<<hop>> : hop \in Hops}, base: Bases]

\* The contents of a packet: the Data of IbcChannel.
FungibleTokenPacketData == [denom: Denom, amount: Amounts, sender: Addresses,
                            receiver: Addresses \cup Malformed]

ASSUME AmountsAreIntegers == Amounts \subseteq Int /\ MaxFund \in Nat
ASSUME MalformedAreNoAddresses == Malformed \cap Addresses = {}
ASSUME AddressesAreFinite == IsFiniteSet(Addresses)
ASSUME DataAreTransfers == Data = FungibleTokenPacketData

\* What an owner has; balances need not have an entry for everyone.
GetOrZero(balance, owner) == IF owner \in DOMAIN balance THEN balance[owner] ELSE 0

Total(balances, c, denom) ==
    SumFunctionOnSet([o \in Addresses |-> GetOrZero(balances[c][denom], o)], Addresses)

\* The packet has not reached the other chain's module, or has been refused by
\* it and not been refunded yet.
Unsettled(c, i, seq) ==
    LET j == chans[c][i].cpChan IN
    /\ packets[c][i][seq] # NoPacket
    /\ acknowledgements[Other(c)][j][seq] # [ack |-> "result"]

\* The relayer can reach the packet, and nothing up to it is a transfer that the
\* other host will never execute.
Deliverable(c, i, seq, executable) ==
    /\ Reached(c, i, seq)
    /\ \A s \in 1..seq : packets[c][i][s] # NoPacket => packets[c][i][s].data \in executable

\* What is on its way from channel i in a denomination, by packet and in all.
Moving(c, i, denom) ==
    [seq \in Seqs |-> IF Unsettled(c, i, seq) /\ packets[c][i][seq].data.denom = denom
                         THEN packets[c][i][seq].data.amount ELSE 0]
OnItsWay(c, i, denom) == SumFunctionOnSet(Moving(c, i, denom), Seqs)

\* The voucher that a base denomination becomes by leaving over channel i of c.
VoucherOf(c, i, base) == AddPath(BaseDenom(base), chans[c][i].cpPort, chans[c][i].cpChan)

OverChannels(amount) == SumFunctionOnSet(amount, ChanId)

\* What of a base denomination of c is on its way out, in circulation at the
\* other chain as vouchers, and on its way home.
Outbound(c, base) == OverChannels([i \in ChanId |-> OnItsWay(c, i, BaseDenom(base))])
Abroad(vouchers, c, base) ==
    OverChannels([i \in ChanId |-> Total(vouchers, Other(c), VoucherOf(c, i, base))])
Homebound(c, base) ==
    OverChannels([i \in ChanId |-> OnItsWay(Other(c), chans[c][i].cpChan, VoucherOf(c, i, base))])
=============================================================================
