------------------------------ MODULE Ics20Cash ------------------------------
(***************************************************************************)
(* The ICS-20 token transfer of ics20cash/, the application of the port    *)
(* "transfer", over the channels of IbcChannel.  A base denomination is    *)
(* Corda Cash of one issuer and currency; what comes from the other chain  *)
(* circulates as Voucher states.  The one CashBank state of a host has an  *)
(* owner, and to lock cash is to pay it to that owner: escrow is whatever  *)
(* cash the owner holds.                                                   *)
(*                                                                         *)
(* Corda's own Amount is never negative, and no Cash state is of nothing.  *)
(* A transaction consumes Cash or Voucher states of one owner that suffice *)
(* for the amount and returns the rest to him, so per denomination and     *)
(* owner only the sum is kept.                                             *)
(*                                                                         *)
(* Between two such modules every answer is "result": where the bank of    *)
(* Ics20Bank answers an error, this one throws, and the packet stays.  The *)
(* refund of ModuleCallbacks is therefore never called and not modelled.   *)
(***************************************************************************)
EXTENDS Ics20Transfer

CONSTANTS
    IssuedAt,          \* the chain whose bank owner issues a base denomination
    BankOwner,         \* the owner of each chain's CashBank
    Lockers            \* who sends cash abroad

ASSUME OwnersHaveAddresses == BankOwner \in [Chain -> Addresses] /\ Lockers \subseteq Addresses
ASSUME IssuersAreChains == IssuedAt \in [Bases -> Chain]
ASSUME AmountsAreCordas == Amounts \subseteq Nat
ASSUME AllAnswersAreResults == Acks = {"result"}

VARIABLES
    cash,              \* Cash.State: sum per base denomination and owner
    own,               \* history: what the bank owner holds on its own account
    vouchers,          \* Voucher: sum per chain, denomination and owner
    supply, denoms     \* CashBank: what it has minted, what it has recorded

cashVars == <<cash, own, vouchers, supply, denoms>>
allVars == <<vars, cashVars>>

CashInit ==
    /\ EstablishedInit
    /\ cash = [base \in Bases |-> [o \in Addresses |-> 0]]
    /\ own = [base \in Bases |-> 0]
    /\ vouchers = [c \in Chain |-> [d \in Denom |-> [o \in Addresses |-> 0]]]
    /\ supply = [c \in Chain |-> [d \in Denom |-> 0]]
    /\ denoms = [c \in Chain |-> {}]

\* prepareCoins; otherwise InsufficientBalanceException.
HasCash(base, owner, amount) == cash[base][owner] >= amount

\* Cash of from is consumed, the amount goes to the other, the rest back.  The Cash
\* contract refuses an output of nothing.
MoveCash(base, from, to, amount) ==
    /\ amount > 0
    /\ HasCash(base, from, amount)
    /\ cash' = [cash EXCEPT ![base] =
                  [o \in Addresses |-> @[o] - (IF o = from THEN amount ELSE 0)
                                            + (IF o = to THEN amount ELSE 0)]]

\* What the bank owner sends or is sent is on its own account.
OnOwnAccount(base, party, change) ==
    own' = [own EXCEPT ![base] = IF party = BankOwner[IssuedAt[base]] THEN @ + change ELSE @]

\* Mutant: the cash is returned to the sender, none of it to the bank owner.
LockNothing(c, base, sender, amount) ==
    IssuedAt[base] = c /\ HasCash(base, sender, amount) /\ UNCHANGED cashVars

\* Only cash that this chain's bank owner has issued is looked for.
LockCash(c, base, sender, amount) ==
    /\ IssuedAt[base] = c
    /\ MoveCash(base, sender, BankOwner[c], amount)
    /\ OnOwnAccount(base, sender, -amount)
    /\ UNCHANGED <<vouchers, supply, denoms>>

\* Mutant: the cash of the receiver is looked for, not that of the bank owner.
UnlockFromReceiver(c, base, receiver, amount) ==
    /\ IssuedAt[base] = c
    /\ MoveCash(base, receiver, receiver, amount)
    /\ OnOwnAccount(base, receiver, amount)
    /\ UNCHANGED <<vouchers, supply, denoms>>

UnlockCash(c, base, receiver, amount) ==
    /\ IssuedAt[base] = c
    /\ MoveCash(base, BankOwner[c], receiver, amount)
    /\ OnOwnAccount(base, receiver, amount)
    /\ UNCHANGED <<vouchers, supply, denoms>>

Mint(c, owner, denom, amount) ==
    /\ supply' = [supply EXCEPT ![c][denom] = @ + amount]
    /\ vouchers' = [vouchers EXCEPT ![c][denom][owner] = @ + amount]
    /\ UNCHANGED <<cash, own>>

RecordDenom(c, denom) == denoms' = [denoms EXCEPT ![c] = @ \cup {denom}]

\* Mutant: the sender's vouchers are not looked for.
VouchersOrNot(c, owner, denom, amount) == TRUE

\* Some voucher has to be consumed, be it for an amount of zero.
HasVouchers(c, owner, denom, amount) ==
    /\ vouchers[c][denom][owner] > 0
    /\ vouchers[c][denom][owner] >= amount

\* Mutant: vouchers are consumed and the supply is left as it was.
BurnNoSupply(c, owner, denom, amount) ==
    /\ HasVouchers(c, owner, denom, amount)
    /\ vouchers' = [vouchers EXCEPT ![c][denom][owner] = @ - amount]
    /\ UNCHANGED <<cash, own, supply, denoms>>

Burn(c, owner, denom, amount) ==
    /\ HasVouchers(c, owner, denom, amount)
    /\ supply[c][denom] >= amount
    /\ vouchers' = [vouchers EXCEPT ![c][denom][owner] = @ - amount]
    /\ supply' = [supply EXCEPT ![c][denom] = @ - amount]
    /\ UNCHANGED <<cash, own, denoms>>

\* Issuing cash is Corda's business: it only has to happen.
IssueCash(base, owner, amount) ==
    /\ amount > 0
    /\ SumFunctionOnSet(cash[base], Addresses) + amount <= MaxFund
    /\ cash' = [cash EXCEPT ![base][owner] = @ + amount]
    /\ OnOwnAccount(base, owner, amount)
    /\ UNCHANGED <<vars, vouchers, supply, denoms>>

\* Module.createOutgoingPacket: a denomination that came in over this very
\* channel goes home and is burnt; any other one must be cash, and is locked.
CreateOutgoingPacket(c, i, denom, amount, sender, receiver) ==
    /\ SendPacket(c, i, [denom |-> denom, amount |-> amount, sender |-> sender,
                         receiver |-> receiver])
    /\ \/ /\ ~HasPrefix(denom, chans[c][i].port, i)
          /\ ~IsVoucher(denom)
          /\ sender \in Lockers
          /\ LockCash(c, denom.base, sender, amount)
       \/ /\ HasPrefix(denom, chans[c][i].port, i)
          /\ Burn(c, sender, denom, amount)

\* ModuleCallbacks.onRecvPacket and Handler.recvPacket.  Every check that fails
\* raises an exception; nothing is answered and the message may be relayed again.
HandlePacketRecv(c, i, seq, data) ==
    LET end == chans[c][i]  home == RemovePrefix(data.denom)
        voucher == AddPath(data.denom, end.port, i)
    IN
    /\ data.receiver \in Addresses
    /\ \/ /\ HasPrefix(data.denom, end.cpPort, end.cpChan)
          /\ ~IsVoucher(home)
          /\ UnlockCash(c, home.base, data.receiver, data.amount)
       \/ /\ ~HasPrefix(data.denom, end.cpPort, end.cpChan)
          /\ ~IsVoucher(data.denom)
          /\ RecordDenom(c, voucher)
          /\ Mint(c, data.receiver, voucher, data.amount)
    /\ RecvPacket(c, i, seq, data, "result")

\* ModuleCallbacks.onAcknowledgePacket copies the bank.
HandlePacketAcknowledgement(c, i, seq) ==
    AcknowledgePacket(c, i, seq, "result") /\ UNCHANGED cashVars

CashNext ==
    \/ \E base \in Bases, owner \in Addresses, amount \in Amounts : IssueCash(base, owner, amount)
    \/ \E c \in Chain, i \in ChanId :
       \/ \E data \in Data :
             CreateOutgoingPacket(c, i, data.denom, data.amount, data.sender, data.receiver)
       \/ \E seq \in Seqs, data \in Data : HandlePacketRecv(c, i, seq, data)
       \/ \E seq \in Seqs : HandlePacketAcknowledgement(c, i, seq)
       \/ ChanCloseInit(c, i) /\ UNCHANGED cashVars
       \/ ChanCloseConfirm(c, i) /\ UNCHANGED cashVars

CashSpec == CashInit /\ [][CashNext]_allVars

(***************************************************************************)
(* The relayer retries what it can reach.  It submits a packet through the *)
(* bank owner's node, whose vault has the cash that a packet pays out and  *)
(* whose key can move it.  A payment of the owner to himself need not work:*)
(* two equal outputs of it would be one, which the Cash contract refuses.  *)
(* And a transfer of zero, which burns no voucher, is sent and cannot be   *)
(* paid: it stays, and what follows it on an ORDERED channel with it.      *)
(***************************************************************************)
Payable(c) == {data \in Data : data.receiver \in Addresses \ {BankOwner[c]} /\ data.amount > 0}

IsHandled(c, i, seq) ==
    \E j \in ChanId, data \in Data :
        j = chans[c][i].cpChan /\ HandlePacketRecv(Other(c), j, seq, data)

CashFairSpec ==
    /\ CashSpec
    /\ \A c \in Chain : \A i \in ChanId, seq \in Seqs :
          LET reached == Deliverable(c, i, seq, Payable(Other(c))) IN
          /\ WF_allVars(reached /\ IsHandled(c, i, seq))
          /\ WF_allVars(reached /\ HandlePacketAcknowledgement(c, i, seq))

(***************************************************************************)
(* Properties.                                                             *)
(***************************************************************************)
\* Type invariant.  Nobody, the bank owner included, spends what it has not.
CashTypeOK ==
    /\ cash \in [Bases -> [Addresses -> 0..MaxFund]]
    /\ own \in [Bases -> 0..MaxFund]
    /\ vouchers \in [Chain -> [Denom -> [Addresses -> 0..MaxFund]]]
    /\ supply \in [Chain -> [Denom -> 0..MaxFund]]
    /\ denoms \in [Chain -> SUBSET Denom]

\* The supply that CashBank records is the sum of the vouchers that circulate,
\* which are states of their own, and every one of them can be named by its hash.
SupplyCirculates ==
    \A c \in Chain, denom \in Denom :
        /\ supply[c][denom] = Total(vouchers, c, denom)
        /\ supply[c][denom] > 0 => denom \in denoms[c]

HeldByOwner(base) == cash[base][BankOwner[IssuedAt[base]]]
HeldByUsers(base) == SumFunctionOnSet(cash[base], Addresses \ {BankOwner[IssuedAt[base]]})

Peg == INSTANCE TwoWayPeg WITH
    Token     <- Bases,
    spendable <- [t \in Bases |-> HeldByUsers(t) + own[t]],
    escrow    <- [t \in Bases |-> HeldByOwner(t) - own[t]],
    outbound  <- [t \in Bases |-> Outbound(IssuedAt[t], t)],
    vouchers  <- [t \in Bases |-> Abroad(vouchers, IssuedAt[t], t)],
    homebound <- [t \in Bases |-> Homebound(IssuedAt[t], t)]

\* What users pay to a bank owner and what he pays out over any channel, the
\* vouchers and the packets form a two-way peg, though no state tells escrow
\* from the owner's own cash.
ImplementsPeg == Peg!PegSpec

\* The bank owner holds cash for all that is abroad or on its way, so that each
\* voucher can be redeemed.
Covered ==
    \A base \in Bases :
        LET c == IssuedAt[base] IN
        HeldByOwner(base) >= Outbound(c, base) + Abroad(vouchers, c, base) + Homebound(c, base)

\* A transfer that the relayer can reach is settled unless the channel is closed
\* at an end: the bank owner never lacks the cash to pay it out.  Transfers of zero,
\* to the bank owner or to no address are not claimed to be, nor what has to wait
\* for one.
CashTransfersSettle ==
    \A c \in Chain, i \in ChanId, seq \in Seqs :
        (packets[c][i][seq] # NoPacket /\ Deliverable(c, i, seq, Payable(Other(c))))
        ~> (packets[c][i][seq] = NoPacket \/ AnEndIsClosed(c, i))
=============================================================================
