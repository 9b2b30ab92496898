----------------------------- MODULE Ics20Bank -----------------------------
(***************************************************************************)
(* The ICS-20 token transfer of ics20/, the application of the port        *)
(* "transfer-old", over the channels of IbcChannel.  Each host has one     *)
(* Bank state: balances per denomination and address, of which allocated   *)
(* ones can be spent, locked ones are in escrow and minted ones are        *)
(* vouchers for tokens locked at the other host.                           *)
(*                                                                         *)
(* One transaction consumes the channel and the bank, so each action here  *)
(* is a packet action of IbcChannel together with what the callback of the *)
(* module does to the bank.  Channels start OPEN and may be closed while   *)
(* tokens are on their way.                                                *)
(***************************************************************************)
EXTENDS Ics20Transfer

CONSTANT Funded        \* bound: the chains where accounts are funded

ASSUME AcksAreResults == Acks = {"result", "error"}

VARIABLES
    allocated, locked, minted,   \* Bank: balances, by denomination and owner
    denoms                       \* Bank: the denominations recorded

bankVars == <<allocated, locked, minted, denoms>>
allVars == <<vars, bankVars>>

Nothing == [c \in Chain |-> [d \in Denom |-> [o \in {} |-> 0]]]

BankInit ==
    /\ EstablishedInit
    /\ allocated = Nothing /\ locked = Nothing /\ minted = Nothing
    /\ denoms = [c \in Chain |-> {}]

\* Mutant: a balance is kept from going below zero.
UpNoDebt(balances, c, owner, denom, amount) ==
    [balances EXCEPT ![c][denom] = [o \in DOMAIN @ \cup {owner} |->
        LET sum == GetOrZero(@, o) + IF o = owner THEN amount ELSE 0 IN IF sum < 0 THEN 0 ELSE sum]]

Up(balances, c, owner, denom, amount) ==
    [balances EXCEPT ![c][denom] = [o \in DOMAIN @ \cup {owner} |->
        GetOrZero(@, o) + IF o = owner THEN amount ELSE 0]]
Down(balances, c, owner, denom, amount) == [balances EXCEPT ![c][denom][owner] = @ - amount]

\* Mutant: the balance is not compared with the amount.
HasEntry(balances, c, owner, denom, amount) == owner \in DOMAIN balances[c][denom]

\* Otherwise "unknown denom" or "no fund", or "insufficient fund".  The sign of the
\* amount is not looked at: of less than zero, whoever has an entry has enough.
HasFund(balances, c, owner, denom, amount) ==
    /\ owner \in DOMAIN balances[c][denom]
    /\ balances[c][denom][owner] >= amount

Lock(c, owner, denom, amount) ==
    /\ HasFund(allocated, c, owner, denom, amount)
    /\ allocated' = Down(allocated, c, owner, denom, amount)
    /\ locked' = Up(locked, c, owner, denom, amount)
    /\ UNCHANGED <<minted, denoms>>

\* Mutant: escrow is taken from whoever has it.
UnlockPooled(c, owner, denom, amount) ==
    \E holder \in Addresses :
        /\ HasFund(locked, c, holder, denom, amount)
        /\ allocated' = Up(allocated, c, owner, denom, amount)
        /\ locked' = Down(locked, c, holder, denom, amount)
        /\ UNCHANGED <<minted, denoms>>

Unlock(c, owner, denom, amount) ==
    /\ HasFund(locked, c, owner, denom, amount)
    /\ allocated' = Up(allocated, c, owner, denom, amount)
    /\ locked' = Down(locked, c, owner, denom, amount)
    /\ UNCHANGED <<minted, denoms>>

Mint(c, owner, denom, amount) ==
    /\ minted' = Up(minted, c, owner, denom, amount)
    /\ UNCHANGED <<allocated, locked>>

\* Mutant: a voucher is minted and not recorded.
RecordNothing(c, denom) == UNCHANGED denoms

RecordDenom(c, denom) == denoms' = [denoms EXCEPT ![c] = @ \cup {denom}]

Burn(c, owner, denom, amount) ==
    /\ HasFund(minted, c, owner, denom, amount)
    /\ minted' = Down(minted, c, owner, denom, amount)
    /\ UNCHANGED <<allocated, locked, denoms>>

\* What an owner has at home, spendable or in escrow.
OwnFunds(c, owner, denom) ==
    GetOrZero(allocated[c][denom], owner) + GetOrZero(locked[c][denom], owner)

\* The command that funds an account; nothing is received or sent.  MaxFund bounds
\* what an owner, and what all of them together, are given or made to owe.
FundAllocate(c, owner, base, amount) ==
    LET denom == BaseDenom(base) IN
    /\ OwnFunds(c, owner, denom) + amount \in -MaxFund..MaxFund
    /\ Total(allocated, c, denom) + Total(locked, c, denom) + amount \in -MaxFund..MaxFund
    /\ allocated' = Up(allocated, c, owner, denom, amount)
    /\ UNCHANGED <<vars, locked, minted, denoms>>

\* Module.createOutgoingPacket: a denomination that came in over this very
\* channel goes home and is burnt, any other one is locked.
CreateOutgoingPacket(c, i, denom, amount, sender, receiver) ==
    /\ SendPacket(c, i, [denom |-> denom, amount |-> amount, sender |-> sender,
                         receiver |-> receiver])
    /\ \/ /\ ~HasPrefix(denom, chans[c][i].port, i)
          /\ Lock(c, sender, denom, amount)
       \/ /\ HasPrefix(denom, chans[c][i].port, i)
          /\ Burn(c, sender, denom, amount)

\* ModuleCallbacks.onRecvPacket and Handler.recvPacket.  A receiver that is no
\* address raises an exception before anything is answered.  A transaction
\* that cannot unlock answers an error; minting has no way to fail.
HandlePacketRecv(c, i, seq, data) ==
    LET end == chans[c][i]
        comesHome == HasPrefix(data.denom, end.cpPort, end.cpChan)
        home == RemovePrefix(data.denom)
        voucher == AddPath(data.denom, end.port, i)
    IN
    /\ data.receiver \in Addresses
    /\ \/ /\ comesHome
          /\ RecvPacket(c, i, seq, data, "result")
          /\ Unlock(c, data.receiver, home, data.amount)
       \/ /\ comesHome
          /\ RecvPacket(c, i, seq, data, "error")
          /\ ~HasFund(locked, c, data.receiver, home, data.amount)
          /\ UNCHANGED bankVars
       \/ /\ ~comesHome
          /\ RecvPacket(c, i, seq, data, "result")
          /\ RecordDenom(c, voucher)
          /\ Mint(c, data.receiver, voucher, data.amount)

\* Mutant: a refused transfer is acknowledged without a refund.
RefundNothing(c, i, data) == UNCHANGED bankVars
\* Mutant: the refund of a voucher is looked for in escrow.
RefundFromEscrow(c, i, data) == Unlock(c, data.sender, data.denom, data.amount)
\* Mutant: the refund of a voucher is credited like a base denomination.
RefundAsFund(c, i, data) ==
    /\ allocated' = Up(allocated, c, data.sender, data.denom, data.amount)
    /\ UNCHANGED <<locked, minted, denoms>>

\* ModuleCallbacks.refundTokens.
RefundTokens(c, i, data) ==
    \/ /\ ~HasPrefix(data.denom, chans[c][i].port, i)
       /\ Unlock(c, data.sender, data.denom, data.amount)
    \/ /\ HasPrefix(data.denom, chans[c][i].port, i)
       /\ Mint(c, data.sender, data.denom, data.amount)
       /\ UNCHANGED denoms

\* ModuleCallbacks.onAcknowledgePacket and Handler.acknowledgePacket, which
\* requires the packet of the message to be the one that was sent.
HandlePacketAcknowledgement(c, i, seq, ack) ==
    /\ AcknowledgePacket(c, i, seq, ack)
    /\ \/ ack = "result" /\ UNCHANGED bankVars
       \/ ack = "error" /\ RefundTokens(c, i, packets[c][i][seq].data)

BankNext ==
    \E c \in Chain :
       \/ \E owner \in Addresses, base \in Bases, amount \in Amounts :
             c \in Funded /\ FundAllocate(c, owner, base, amount)
       \/ \E i \in ChanId, data \in Data :
             CreateOutgoingPacket(c, i, data.denom, data.amount, data.sender, data.receiver)
       \/ \E i \in ChanId, seq \in Seqs, data \in Data : HandlePacketRecv(c, i, seq, data)
       \/ \E i \in ChanId, seq \in Seqs, ack \in Acks :
             HandlePacketAcknowledgement(c, i, seq, ack)
       \/ \E i \in ChanId : ChanCloseInit(c, i) /\ UNCHANGED bankVars
       \/ \E i \in ChanId : ChanCloseConfirm(c, i) /\ UNCHANGED bankVars

BankSpec == BankInit /\ [][BankNext]_allVars

(***************************************************************************)
(* The relayer retries what it can reach; nobody has to send or close.     *)
(***************************************************************************)
IsHandled(c, i, seq) ==
    \E j \in ChanId, data \in Data :
        j = chans[c][i].cpChan /\ HandlePacketRecv(Other(c), j, seq, data)

IsAnswered(c, i, seq) == \E ack \in Acks : HandlePacketAcknowledgement(c, i, seq, ack)

Addressed == {data \in Data : data.receiver \in Addresses}

BankFairSpec ==
    /\ BankSpec
    /\ \A c \in Chain : \A i \in ChanId, seq \in Seqs :
          /\ WF_allVars(Deliverable(c, i, seq, Addressed) /\ IsHandled(c, i, seq))
          /\ WF_allVars(Deliverable(c, i, seq, Addressed) /\ IsAnswered(c, i, seq))

(***************************************************************************)
(* Properties.                                                             *)
(***************************************************************************)
\* Type invariant of the bank: balances, of any sign, of some addresses.  Base
\* denominations are allocated and locked, vouchers are minted, whatever is
\* refused and refunded over whichever channel.
IsBalances(balances) ==
    /\ DOMAIN balances = Chain
    /\ \A c \in Chain :
          /\ DOMAIN balances[c] = Denom
          /\ \A denom \in Denom :
                \E owners \in SUBSET Addresses : balances[c][denom] \in [owners -> Int]

BankTypeOK ==
    /\ IsBalances(allocated) /\ IsBalances(locked) /\ IsBalances(minted)
    /\ denoms \in [Chain -> SUBSET Denom]
    /\ \A c \in Chain, denom \in Denom :
          IF IsVoucher(denom)
             THEN DOMAIN allocated[c][denom] = {} /\ DOMAIN locked[c][denom] = {}
             ELSE DOMAIN minted[c][denom] = {}

\* A token is a base denomination and its home host, seen as its totals.
Token == Chain \X Bases

Peg == INSTANCE TwoWayPeg WITH
    spendable <- [t \in Token |-> Total(allocated, t[1], BaseDenom(t[2]))],
    escrow    <- [t \in Token |-> Total(locked, t[1], BaseDenom(t[2]))],
    outbound  <- [t \in Token |-> Outbound(t[1], t[2])],
    vouchers  <- [t \in Token |-> Abroad(minted, t[1], t[2])],
    homebound <- [t \in Token |-> Homebound(t[1], t[2])]

\* No escrow and no holding of vouchers is overdrawn, whatever is locked, burnt,
\* unlocked or refunded over whichever channel, until somebody sends a transfer of
\* less than nothing, which Bank.lock and Bank.burn let through.
NoOverdraft ==
    (\A c \in Chain : \A p \in sentLog[c] : p.data.amount >= 0)
    => \A c \in Chain, denom \in Denom :
          /\ \A o \in DOMAIN locked[c][denom] : locked[c][denom][o] >= 0
          /\ \A o \in DOMAIN minted[c][denom] : minted[c][denom][o] >= 0

\* Tokens do not change hands at home: what of an owner's funds is not spendable is
\* in his own escrow, and no packet or acknowledgement, of whatever amount and from
\* whomever, takes it from him or adds to it. One of less than nothing that comes
\* home may move it between the two, below zero: it stays his all the same.
OwnersKeepTheirFunds ==
    [][\A c \in Chain, o \in Addresses, base \in Bases :
          UNCHANGED vars \/ UNCHANGED OwnFunds(c, o, BaseDenom(base))]_allVars

\* Vouchers are backed: what a bank holds in escrow of a token is exactly what
\* the other bank has minted for it plus what is on its way between the two.
\* Nothing is lost or created, whatever is refused, refunded or stranded by the
\* closing of a channel.
Backed == Peg!Pegged

\* The two banks, their callbacks and the channels between them are a two-way
\* peg: each transaction moves a token one stage on, of which there is enough if
\* no transfer is of less than nothing, and a deposit is never refused.
ImplementsPeg == Peg!PegSpec

\* Whoever has an entry for vouchers, or will be refunded some, can name them
\* by their hash.
VouchersResolve ==
    \A c \in Chain, denom \in Denom :
        \/ DOMAIN minted[c][denom] # {}
        \/ \E i \in ChanId, seq \in Seqs :
              /\ HasPrefix(denom, chans[c][i].port, i)
              /\ Unsettled(c, i, seq) /\ packets[c][i][seq].data.denom = denom
        => denom \in denoms[c]

\* A transfer that the relayer can reach is settled while its channel stays OPEN:
\* the tokens arrive or come back, and the sender's channel forgets the packet.
TransfersSettle ==
    \A c \in Chain, i \in ChanId, seq \in Seqs :
        (packets[c][i][seq] # NoPacket /\ Deliverable(c, i, seq, Addressed))
        ~> (packets[c][i][seq] = NoPacket \/ AnEndIsClosed(c, i))

\* Vouchers sent home are unlocked for the recipient, as the procedure of ICS-20
\* has it (step 5: the source chain "unlocks a token in escrow").
HomecomingUnlocks ==
    \A c \in Chain, i \in ChanId, seq \in Seqs :
        acknowledgements[c][i][seq] # [ack |-> "error"]
=============================================================================
