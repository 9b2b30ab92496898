--------------------------- MODULE Ics20Cash_proofs ---------------------------
(***************************************************************************)
(* The cash transfer is a two-way peg for any number of channels, owners,  *)
(* denominations and amounts.  What escrow is must be told from the cash   *)
(* its holder has on his own account, which no state records: own, the     *)
(* history variable, does.  It stays positive only as long as the holder   *)
(* does not send cash himself, which the theorems that need it assume.     *)
(***************************************************************************)
EXTENDS Ics20Cash, Ics20Transfer_proofs

CashAssumptions ==
    /\ TransferAssumptions
    /\ OwnersHaveAddresses /\ IssuersAreChains /\ AmountsAreCordas /\ AllAnswersAreResults

\* The assumptions of the modules, under one name.
LEMMA CashAssumes == CashAssumptions
BY TransfersAssume, OwnersHaveAddresses, IssuersAreChains, AmountsAreCordas, AllAnswersAreResults
   DEF CashAssumptions

\* Corda's amounts are natural numbers.
LEMMA CordasAmounts ==
    ASSUME CashAssumptions
    PROVE  /\ TransferAssumptions /\ AmountsAreNat /\ MaxFund \in Nat
           /\ \A a \in Amounts : a \in Nat /\ a \in Int /\ -a \in Int
           /\ \A data \in Data : data.amount \in Amounts /\ data.amount \in Nat
<1>1. TransferAssumptions /\ Amounts \subseteq Nat /\ MaxFund \in Nat
  BY DEF CashAssumptions, TransferAssumptions, AmountsAreIntegers, AmountsAreCordas
<1>2. \A data \in Data : data.amount \in Amounts
  BY <1>1, DataFields
<1>3. \A a \in Amounts : a \in Nat /\ a \in Int /\ -a \in Int
  <2> TAKE a \in Amounts
  <2>1. a \in Nat
    BY <1>1
  <2> QED BY <2>1
<1>4. \A data \in Data : data.amount \in Nat
  BY <1>2, <1>3
<1> QED BY <1>1, <1>2, <1>3, <1>4 DEF AmountsAreNat

\* Whoever holds the escrow of a base denomination sends none of it abroad.
OwnersDoNotLock == \A base \in Bases : BankOwner[IssuedAt[base]] \notin Lockers

Holder(base) == BankOwner[IssuedAt[base]]
Issued(base) == SumFunctionOnSet(cash[base], Addresses)
Escrow(base) == HeldByOwner(base) - own[base]

\* Each address has an entry of its own, none of them negative.
CashVouchers == [Chain -> [Denom -> [Addresses -> Nat]]]

CashTypes ==
    /\ cash \in [Bases -> [Addresses -> Nat]] /\ own \in [Bases -> Int]
    /\ vouchers \in CashVouchers /\ supply \in [Chain -> [Denom -> Nat]]
    /\ denoms \in [Chain -> SUBSET Denom]

\* The supply is what circulates.
SupplyIsSum ==
    \A c \in Chain, denom \in Denom : supply[c][denom] = Total(vouchers, c, denom)

\* Only what came in over a channel of the host is minted: it is recorded, and
\* was issued at the other host.
MintedAbroad(c, denom) ==
    /\ denom \in denoms[c] /\ IssuedAt[denom.base] = Other(c)
    /\ \E i \in ChanId : HasPrefix(denom, chans[c][i].port, i)

VouchersCameIn ==
    \A c \in Chain, denom \in Denom, o \in Addresses :
        vouchers[c][denom][o] > 0 => MintedAbroad(c, denom)

\* What is sent is cash issued here, or a voucher that goes back the way it came.
MayLeave(c, i, denom) ==
    \/ ~IsVoucher(denom) /\ IssuedAt[denom.base] = c
    \/ HasPrefix(denom, chans[c][i].port, i) /\ IssuedAt[denom.base] = Other(c)

FlightIsNamed ==
    \A c \in Chain, i \in ChanId, seq \in Seqs :
        packets[c][i][seq] # NoPacket => MayLeave(c, i, packets[c][i][seq].data.denom)

\* What is issued stays within its bound.
WithinFund == \A base \in Bases : Issued(base) <= MaxFund

\* What the holder has beyond his own is abroad or on its way.
EscrowBacked ==
    \A base \in Bases :
        LET c == IssuedAt[base] IN
        Escrow(base) = Outbound(c, base) + Abroad(vouchers, c, base) + Homebound(c, base)

\* The holder's own account is never overdrawn.
OwnIsKept == \A base \in Bases : own[base] >= 0

\* The inductive invariant, beyond that of the established channels.
CashIInv ==
    /\ CashTypes /\ SupplyIsSum /\ VouchersCameIn /\ FlightIsNamed
    /\ WithinFund /\ EscrowBacked
    /\ OwnersDoNotLock => OwnIsKept

(***************************************************************************)
(* Cash.                                                                   *)
(***************************************************************************)

\* Vouchers of Corda are balances of which each address has an entry, none negative.
LEMMA VouchersAreBalances ==
    ASSUME NEW v \in CashVouchers
    PROVE  /\ v \in Balances /\ NoneInDebt(v)
           /\ \A c \in Chain, denom \in Denom, o \in Addresses :
                 GetOrZero(v[c][denom], o) = v[c][denom][o] /\ v[c][denom][o] \in Nat
<1>1. \A c \in Chain, denom \in Denom :
         v[c][denom] \in [Addresses -> Nat] /\ v[c][denom] \in Balance
  <2>1. [Addresses -> Nat] \subseteq [Addresses -> Int]
    OBVIOUS
  <2>2. [Addresses -> Int] \subseteq Balance
    BY DEF Balance
  <2> QED BY <2>1, <2>2 DEF CashVouchers
<1>2. v \in Balances
  BY <1>1 DEF Balances, CashVouchers
<1>3. \A c \in Chain, denom \in Denom, o \in Addresses :
         GetOrZero(v[c][denom], o) = v[c][denom][o] /\ v[c][denom][o] \in Nat
  BY <1>1 DEF GetOrZero
<1> QED BY <1>2, <1>3 DEF NoneInDebt

\* The holder of a base denomination, its sums, and how they hang together.
LEMMA CashFacts ==
    ASSUME CashAssumptions, CashTypes, NEW base \in Bases
    PROVE  /\ IssuedAt[base] \in Chain /\ Holder(base) \in Addresses
           /\ Issued(base) \in Nat /\ HeldByOwner(base) \in Nat /\ HeldByUsers(base) \in Nat
           /\ own[base] \in Int /\ Escrow(base) \in Int
           /\ Issued(base) = HeldByOwner(base) + HeldByUsers(base)
           /\ HeldByUsers(base) + own[base] = Issued(base) - Escrow(base)
           /\ \A o \in Addresses : o # Holder(base) => cash[base][o] <= HeldByUsers(base)
           /\ \A o \in Addresses : cash[base][o] \in Nat /\ cash[base][o] <= Issued(base)
<1>1. /\ IssuedAt[base] \in Chain /\ Holder(base) \in Addresses
      /\ IsFiniteSet(Addresses) /\ own[base] \in Int
      /\ \A o \in Addresses : cash[base][o] \in Nat
  BY DEF CashAssumptions, TransferAssumptions, AddressesAreFinite, OwnersHaveAddresses,
         IssuersAreChains, Holder, CashTypes
<1>2. HeldByOwner(base) = cash[base][Holder(base)]
      /\ HeldByUsers(base) = SumFunctionOnSet(cash[base], Addresses \ {Holder(base)})
  BY DEF HeldByOwner, HeldByUsers, Holder
<1> DEFINE f == cash[base]  rest == Addresses \ {Holder(base)}
<1> HIDE DEF f
<1>3. \A o \in Addresses : f[o] \in Nat
  BY <1>1 DEF f
<1>4. /\ SumFunctionOnSet(f, Addresses) \in Nat /\ SumFunctionOnSet(f, rest) \in Nat
      /\ SumFunctionOnSet(f, Addresses) = f[Holder(base)] + SumFunctionOnSet(f, rest)
  <2>1. \A o \in Addresses : f[o] \in Int
    BY <1>3
  <2>2. SumFunctionOnSet(f, Addresses) \in Nat /\ SumFunctionOnSet(f, rest) \in Nat
    BY <1>1, <1>3, SumIsNat
  <2> QED BY <1>1, <2>1, <2>2, SumTakeOut
<1>5. IsFiniteSet(rest)
  BY <1>1, FS_Subset
<1>6. \A o \in rest : f[o] <= SumFunctionOnSet(f, rest)
  BY <1>3, <1>5, SumBounds
<1>7. \A o \in Addresses : f[o] <= SumFunctionOnSet(f, Addresses)
  BY <1>1, <1>3, SumBounds
<1>8. /\ Issued(base) \in Nat /\ HeldByOwner(base) \in Nat /\ HeldByUsers(base) \in Nat
      /\ Issued(base) = HeldByOwner(base) + HeldByUsers(base)
  BY <1>1, <1>2, <1>3, <1>4 DEF Issued, f
<1>9. Escrow(base) \in Int /\ HeldByUsers(base) + own[base] = Issued(base) - Escrow(base)
  BY <1>1, <1>8 DEF Escrow
<1>10. \A o \in Addresses : o # Holder(base) => cash[base][o] <= HeldByUsers(base)
  BY <1>2, <1>6 DEF f
<1>11. \A o \in Addresses : cash[base][o] \in Nat /\ cash[base][o] <= Issued(base)
  BY <1>3, <1>7 DEF f, Issued
<1> QED BY <1>1, <1>8, <1>9, <1>10, <1>11

\* What moves from one owner to another stays in circulation.
LEMMA MoveFacts ==
    ASSUME CashAssumptions, CashTypes, NEW base \in Bases, NEW from \in Addresses, NEW to \in Addresses,
           NEW amount \in Nat, MoveCash(base, from, to, amount)
    PROVE  /\ amount <= cash[base][from]
           /\ cash' \in [Bases -> [Addresses -> Nat]]
           /\ \A b \in Bases, o \in Addresses :
                 cash'[b][o] = cash[b][o] - (IF b = base /\ o = from THEN amount ELSE 0)
                                          + (IF b = base /\ o = to THEN amount ELSE 0)
           /\ \A b \in Bases : Issued(b)' = Issued(b)
<1> DEFINE f == cash[base]  g == [o \in Addresses |-> f[o] - (IF o = from THEN amount ELSE 0)]
           h == [o \in Addresses |-> f[o] - (IF o = from THEN amount ELSE 0)
                                          + (IF o = to THEN amount ELSE 0)]
<1>1. amount <= f[from] /\ cash' = [cash EXCEPT ![base] = h] /\ IsFiniteSet(Addresses)
      /\ \A o \in Addresses : f[o] \in Nat
  <2>1. \A o \in Addresses : f[o] \in Nat
    BY DEF CashTypes
  <2> QED BY <2>1 DEF MoveCash, HasCash, CashAssumptions, TransferAssumptions, AddressesAreFinite
<1>2. \A o \in Addresses : f[o] \in Int /\ g[o] \in Nat /\ g[o] \in Int /\ h[o] \in Nat /\ h[o] \in Int
  BY <1>1
<1>3. /\ \A o \in Addresses : g[o] = f[o] + (IF o = from THEN -amount ELSE 0)
      /\ \A o \in Addresses : h[o] = g[o] + (IF o = to THEN amount ELSE 0)
  BY <1>1
<1>4. cash' \in [Bases -> [Addresses -> Nat]] /\ cash'[base] = h /\ \A b \in Bases : b # base => cash'[b] = cash[b]
  <2>1. h \in [Addresses -> Nat]
    BY <1>2
  <2> HIDE DEF h
  <2> QED BY <1>1, <2>1 DEF CashTypes
<1>5. \A b \in Bases, o \in Addresses :
         cash'[b][o] = cash[b][o] - (IF b = base /\ o = from THEN amount ELSE 0)
                                  + (IF b = base /\ o = to THEN amount ELSE 0)
  <2>1. \A b \in Bases, o \in Addresses : cash[b][o] \in Nat
    BY DEF CashTypes
  <2> QED BY <1>4, <2>1
<1>6. SumFunctionOnSet(h, Addresses) = SumFunctionOnSet(f, Addresses)
  <2>1. amount \in Int /\ -amount \in Int
    OBVIOUS
  <2>2. SumFunctionOnSet(f, Addresses) \in Nat
    BY <1>1, SumIsNat
  <2> HIDE DEF f, g, h
  <2>3. SumFunctionOnSet(g, Addresses) = SumFunctionOnSet(f, Addresses) + -amount
    BY <1>1, <1>2, <1>3, <2>1, SumShift
  <2>4. SumFunctionOnSet(h, Addresses) = SumFunctionOnSet(g, Addresses) + amount
    BY <1>1, <1>2, <1>3, <2>1, SumShift
  <2> QED BY <2>2, <2>3, <2>4
<1>7. \A b \in Bases : Issued(b)' = Issued(b)
  <2> HIDE DEF h
  <2>1. ASSUME NEW b \in Bases
        PROVE  SumFunctionOnSet(cash'[b], Addresses) = SumFunctionOnSet(cash[b], Addresses)
    BY <1>4, <1>6
  <2> QED BY <2>1 DEF Issued
<1> QED BY <1>1, <1>4, <1>5, <1>7

\* The holder's own account follows what he sends and is sent.
LEMMA OwnFacts ==
    ASSUME CashTypes, NEW base \in Bases, NEW party, NEW a \in Int, OnOwnAccount(base, party, a)
    PROVE  /\ own' \in [Bases -> Int]
           /\ \A b \in Bases : own'[b] = own[b] + (IF b = base /\ party = Holder(base) THEN a ELSE 0)
<1>1. \A b \in Bases : own[b] \in Int
  BY DEF CashTypes
<1>2. own' = [own EXCEPT ![base] = IF party = Holder(base) THEN own[base] + a ELSE own[base]]
  BY DEF OnOwnAccount, Holder
<1> QED BY <1>1, <1>2 DEF CashTypes

\* Locking moves the amount from the sender into escrow.
LEMMA LockFacts ==
    ASSUME CashAssumptions, CashTypes, NEW c \in Chain, NEW base \in Bases, NEW sender \in Addresses,
           NEW amount \in Nat, LockCash(c, base, sender, amount)
    PROVE  /\ IssuedAt[base] = c /\ amount <= cash[base][sender]
           /\ CashTypes' /\ UNCHANGED <<vouchers, supply, denoms>>
           /\ \A b \in Bases : /\ Issued(b)' = Issued(b)
                               /\ Escrow(b)' = Escrow(b) + (IF b = base THEN amount ELSE 0)
                               /\ sender # Holder(base) => own'[b] = own[b]
<1>1. /\ IssuedAt[base] = c /\ Holder(base) \in Addresses
      /\ MoveCash(base, sender, Holder(base), amount) /\ OnOwnAccount(base, sender, -amount)
      /\ UNCHANGED <<vouchers, supply, denoms>>
      /\ -amount \in Int
  BY CashFacts DEF LockCash, Holder
<1>2. /\ amount <= cash[base][sender] /\ cash' \in [Bases -> [Addresses -> Nat]]
      /\ \A b \in Bases, o \in Addresses :
            cash'[b][o] = cash[b][o] - (IF b = base /\ o = sender THEN amount ELSE 0)
                                     + (IF b = base /\ o = Holder(base) THEN amount ELSE 0)
      /\ \A b \in Bases : Issued(b)' = Issued(b)
  BY <1>1, MoveFacts
<1>3. /\ own' \in [Bases -> Int]
      /\ \A b \in Bases : own'[b] = own[b] + (IF b = base /\ sender = Holder(base) THEN -amount ELSE 0)
  BY <1>1, OwnFacts
<1>4. CashTypes'
  BY <1>1, <1>2, <1>3 DEF CashTypes
<1>5. ASSUME NEW b \in Bases
      PROVE  /\ Escrow(b)' = Escrow(b) + (IF b = base THEN amount ELSE 0)
             /\ sender # Holder(base) => own'[b] = own[b]
  <2>1. /\ Holder(b) \in Addresses /\ cash[b][Holder(b)] \in Nat /\ own[b] \in Int
        /\ cash'[b][Holder(b)] \in Nat /\ own'[b] \in Int
    BY <1>2, <1>3, CashFacts
  <2>2. Escrow(b) = cash[b][Holder(b)] - own[b] /\ Escrow(b)' = cash'[b][Holder(b)] - own'[b]
    BY DEF Escrow, HeldByOwner, Holder
  <2>3. cash'[b][Holder(b)] = cash[b][Holder(b)] - (IF b = base /\ Holder(b) = sender THEN amount ELSE 0)
                                     + (IF b = base /\ Holder(b) = Holder(base) THEN amount ELSE 0)
    BY <1>2, <2>1
  <2>4. own'[b] = own[b] + (IF b = base /\ sender = Holder(base) THEN -amount ELSE 0)
    BY <1>3
  <2> QED BY <2>1, <2>2, <2>3, <2>4
<1> QED BY <1>1, <1>2, <1>4, <1>5

\* Unlocking pays the amount out of escrow.
LEMMA UnlockFacts ==
    ASSUME CashAssumptions, CashTypes, NEW c \in Chain, NEW base \in Bases, NEW receiver \in Addresses,
           NEW amount \in Nat, UnlockCash(c, base, receiver, amount)
    PROVE  /\ IssuedAt[base] = c
           /\ CashTypes' /\ UNCHANGED <<vouchers, supply, denoms>>
           /\ \A b \in Bases : /\ Issued(b)' = Issued(b)
                               /\ Escrow(b)' = Escrow(b) + (IF b = base THEN -amount ELSE 0)
                               /\ own'[b] >= own[b]
<1>1. /\ IssuedAt[base] = c /\ Holder(base) \in Addresses
      /\ MoveCash(base, Holder(base), receiver, amount) /\ OnOwnAccount(base, receiver, amount)
      /\ UNCHANGED <<vouchers, supply, denoms>>
      /\ amount \in Int
  BY CashFacts DEF UnlockCash, Holder
<1>2. /\ cash' \in [Bases -> [Addresses -> Nat]]
      /\ \A b \in Bases, o \in Addresses :
            cash'[b][o] = cash[b][o] - (IF b = base /\ o = Holder(base) THEN amount ELSE 0)
                                     + (IF b = base /\ o = receiver THEN amount ELSE 0)
      /\ \A b \in Bases : Issued(b)' = Issued(b)
  BY <1>1, MoveFacts
<1>3. /\ own' \in [Bases -> Int]
      /\ \A b \in Bases : own'[b] = own[b] + (IF b = base /\ receiver = Holder(base) THEN amount ELSE 0)
  BY <1>1, OwnFacts
<1>4. CashTypes'
  BY <1>1, <1>2, <1>3 DEF CashTypes
<1>5. ASSUME NEW b \in Bases
      PROVE  /\ Escrow(b)' = Escrow(b) + (IF b = base THEN -amount ELSE 0)
             /\ own'[b] >= own[b]
  <2>1. /\ Holder(b) \in Addresses /\ cash[b][Holder(b)] \in Nat /\ own[b] \in Int
        /\ cash'[b][Holder(b)] \in Nat /\ own'[b] \in Int
    BY <1>2, <1>3, CashFacts
  <2>2. Escrow(b) = cash[b][Holder(b)] - own[b] /\ Escrow(b)' = cash'[b][Holder(b)] - own'[b]
    BY DEF Escrow, HeldByOwner, Holder
  <2>3. cash'[b][Holder(b)] = cash[b][Holder(b)] - (IF b = base /\ Holder(b) = Holder(base) THEN amount ELSE 0)
                                     + (IF b = base /\ Holder(b) = receiver THEN amount ELSE 0)
    BY <1>2, <2>1
  <2>4. own'[b] = own[b] + (IF b = base /\ receiver = Holder(base) THEN amount ELSE 0)
    BY <1>3
  <2> QED BY <2>1, <2>2, <2>3, <2>4
<1> QED BY <1>1, <1>2, <1>4, <1>5

\* Issuing adds to what is issued, and nothing to escrow.
LEMMA IssueFacts ==
    ASSUME CashAssumptions, CashTypes, NEW base \in Bases, NEW owner \in Addresses, NEW amount \in Nat,
           IssueCash(base, owner, amount)
    PROVE  /\ Issued(base) + amount <= MaxFund
           /\ CashTypes' /\ UNCHANGED <<vars, vouchers, supply, denoms>>
           /\ \A b \in Bases : /\ Issued(b)' = Issued(b) + (IF b = base THEN amount ELSE 0)
                               /\ Escrow(b)' = Escrow(b)
                               /\ own'[b] >= own[b]
<1>1. /\ Issued(base) + amount <= MaxFund
      /\ cash' = [cash EXCEPT ![base][owner] = cash[base][owner] + amount]
      /\ OnOwnAccount(base, owner, amount)
      /\ UNCHANGED <<vars, vouchers, supply, denoms>>
      /\ amount \in Int
  BY DEF IssueCash, Issued
<1>2. /\ cash' \in [Bases -> [Addresses -> Nat]]
      /\ \A b \in Bases, o \in Addresses :
            cash'[b][o] = cash[b][o] + (IF b = base /\ o = owner THEN amount ELSE 0)
  <2>1. \A b \in Bases, o \in Addresses : cash[b][o] \in Nat
    BY DEF CashTypes
  <2>2. cash[base][owner] + amount \in Nat
    BY <2>1
  <2> QED BY <1>1, <2>1, <2>2 DEF CashTypes
<1>3. /\ own' \in [Bases -> Int]
      /\ \A b \in Bases : own'[b] = own[b] + (IF b = base /\ owner = Holder(base) THEN amount ELSE 0)
  BY <1>1, OwnFacts
<1>4. CashTypes'
  BY <1>1, <1>2, <1>3 DEF CashTypes
<1>5. ASSUME NEW b \in Bases
      PROVE  /\ Issued(b)' = Issued(b) + (IF b = base THEN amount ELSE 0)
             /\ Escrow(b)' = Escrow(b)
             /\ own'[b] >= own[b]
  <2>1. /\ Holder(b) \in Addresses /\ cash[b][Holder(b)] \in Nat /\ own[b] \in Int
        /\ cash'[b][Holder(b)] \in Nat /\ own'[b] \in Int
    BY <1>2, <1>3, CashFacts
  <2>2. Escrow(b) = cash[b][Holder(b)] - own[b] /\ Escrow(b)' = cash'[b][Holder(b)] - own'[b]
    BY DEF Escrow, HeldByOwner, Holder
  <2>3. cash'[b][Holder(b)] = cash[b][Holder(b)] + (IF b = base /\ Holder(b) = owner THEN amount ELSE 0)
    BY <1>2, <2>1
  <2>4. own'[b] = own[b] + (IF b = base /\ owner = Holder(base) THEN amount ELSE 0)
    BY <1>3
  <2>5. Issued(b)' = Issued(b) + (IF b = base THEN amount ELSE 0)
    <3> DEFINE f == cash[b]  g == cash'[b]  hit == b = base
    <3>1. hit \in BOOLEAN /\ IsFiniteSet(Addresses)
      BY DEF CashAssumptions, TransferAssumptions, AddressesAreFinite
    <3>2. \A o \in Addresses : f[o] \in Int /\ g[o] \in Int
      BY <1>2 DEF CashTypes
    <3>3. \A o \in Addresses : g[o] = f[o] + (IF o = owner /\ hit THEN amount ELSE 0)
      BY <1>2
    <3>4. amount \in Int /\ ShiftsAt(f, g, Addresses, owner, amount, hit)
      BY <3>2, <3>3 DEF ShiftsAt
    <3> HIDE DEF f, g, hit
    <3>5. SumFunctionOnSet(g, Addresses) = SumFunctionOnSet(f, Addresses) + (IF hit THEN amount ELSE 0)
      BY <3>1, <3>4, SumShiftsIf
    <3> QED BY <3>5 DEF f, g, hit, Issued
  <2> QED BY <2>1, <2>2, <2>3, <2>4, <2>5
<1> QED BY <1>1, <1>4, <1>5

(***************************************************************************)
(* Vouchers.                                                               *)
(***************************************************************************)

\* Minting adds to an account and to the supply.
LEMMA MintFacts ==
    ASSUME CashAssumptions, CashTypes, SupplyIsSum, NEW c \in Chain, NEW owner \in Addresses,
           NEW denom \in Denom, NEW amount \in Nat, Mint(c, owner, denom, amount), RecordDenom(c, denom)
    PROVE  /\ CashTypes' /\ SupplyIsSum' /\ UNCHANGED <<cash, own>>
           /\ AccountChange(vouchers, vouchers', c, denom, owner, amount)
           /\ \A d \in Chain : denoms[d] \subseteq denoms'[d]
           /\ denom \in denoms'[c]
<1>1. /\ supply' = [supply EXCEPT ![c][denom] = supply[c][denom] + amount]
      /\ vouchers' = [vouchers EXCEPT ![c][denom][owner] = vouchers[c][denom][owner] + amount]
      /\ UNCHANGED <<cash, own>> /\ amount \in Int
  BY DEF Mint
<1>2. /\ \A d \in Chain, e \in Denom, o \in Addresses : vouchers[d][e][o] \in Nat
      /\ \A d \in Chain, e \in Denom : supply[d][e] \in Nat
  BY DEF CashTypes, CashVouchers
<1>3. /\ vouchers' \in CashVouchers /\ supply' \in [Chain -> [Denom -> Nat]]
      /\ \A d \in Chain, e \in Denom : supply'[d][e] = supply[d][e] + (IF d = c /\ e = denom THEN amount ELSE 0)
  <2>1. vouchers[c][denom][owner] + amount \in Nat /\ supply[c][denom] + amount \in Nat
    BY <1>2
  <2> QED BY <1>1, <1>2, <2>1 DEF CashTypes, CashVouchers
<1>4. AccountChange(vouchers, vouchers', c, denom, owner, amount)
  <2>1. \A d \in Chain, e \in Denom, o \in Addresses :
           vouchers'[d][e][o] = vouchers[d][e][o]
                                + (IF d = c /\ e = denom /\ o = owner THEN amount ELSE 0)
    BY <1>1, <1>2 DEF CashTypes, CashVouchers
  <2>2. \A d \in Chain, e \in Denom, o \in Addresses :
           /\ GetOrZero(vouchers[d][e], o) = vouchers[d][e][o]
           /\ GetOrZero(vouchers'[d][e], o) = vouchers'[d][e][o]
    BY <1>3, VouchersAreBalances DEF CashTypes
  <2> QED BY <2>1, <2>2 DEF AccountChange
<1>5. /\ denoms' \in [Chain -> SUBSET Denom] /\ denom \in denoms'[c]
      /\ \A d \in Chain : denoms[d] \subseteq denoms'[d]
  BY DEF RecordDenom, CashTypes
<1>6. SupplyIsSum'
  <2>0. TransferAssumptions /\ vouchers \in Balances /\ vouchers' \in Balances
    BY <1>3, VouchersAreBalances DEF CashAssumptions, CashTypes
  <2>1. \A d \in Chain, e \in Denom :
           Total(vouchers', d, e) = Total(vouchers, d, e) + (IF d = c /\ e = denom THEN amount ELSE 0)
    BY <1>1, <1>4, <2>0, TotalShifts
  <2>2. \A d \in Chain, e \in Denom : Total(vouchers, d, e)' = Total(vouchers', d, e)
    BY DEF Total
  <2> QED BY <1>3, <2>1, <2>2 DEF SupplyIsSum
<1>7. CashTypes'
  BY <1>1, <1>3, <1>5 DEF CashTypes
<1> QED BY <1>1, <1>4, <1>5, <1>6, <1>7

\* Burning takes from both.
LEMMA BurnFacts ==
    ASSUME CashAssumptions, CashTypes, SupplyIsSum, NEW c \in Chain, NEW owner \in Addresses,
           NEW denom \in Denom, NEW amount \in Nat, Burn(c, owner, denom, amount)
    PROVE  /\ vouchers[c][denom][owner] > 0 /\ amount <= vouchers[c][denom][owner]
           /\ CashTypes' /\ SupplyIsSum' /\ UNCHANGED <<cash, own, denoms>>
           /\ AccountChange(vouchers, vouchers', c, denom, owner, -amount)
<1>1. /\ supply' = [supply EXCEPT ![c][denom] = supply[c][denom] - amount]
      /\ vouchers' = [vouchers EXCEPT ![c][denom][owner] = vouchers[c][denom][owner] - amount]
      /\ vouchers[c][denom][owner] > 0
      /\ vouchers[c][denom][owner] >= amount /\ supply[c][denom] >= amount
      /\ UNCHANGED <<cash, own, denoms>> /\ -amount \in Int
  BY DEF Burn, HasVouchers
<1>2. /\ \A d \in Chain, e \in Denom, o \in Addresses : vouchers[d][e][o] \in Nat
      /\ \A d \in Chain, e \in Denom : supply[d][e] \in Nat
  BY DEF CashTypes, CashVouchers
<1>3. /\ vouchers' \in CashVouchers /\ supply' \in [Chain -> [Denom -> Nat]]
      /\ \A d \in Chain, e \in Denom : supply'[d][e] = supply[d][e] + (IF d = c /\ e = denom THEN -amount ELSE 0)
  <2>1. vouchers[c][denom][owner] - amount \in Nat /\ supply[c][denom] - amount \in Nat
    BY <1>1, <1>2
  <2> QED BY <1>1, <1>2, <2>1 DEF CashTypes, CashVouchers
<1>4. AccountChange(vouchers, vouchers', c, denom, owner, -amount)
  <2>1. \A d \in Chain, e \in Denom, o \in Addresses :
           vouchers'[d][e][o] = vouchers[d][e][o]
                                + (IF d = c /\ e = denom /\ o = owner THEN -amount ELSE 0)
    BY <1>1, <1>2 DEF CashTypes, CashVouchers
  <2>2. \A d \in Chain, e \in Denom, o \in Addresses :
           /\ GetOrZero(vouchers[d][e], o) = vouchers[d][e][o]
           /\ GetOrZero(vouchers'[d][e], o) = vouchers'[d][e][o]
    BY <1>3, VouchersAreBalances DEF CashTypes
  <2> QED BY <2>1, <2>2 DEF AccountChange
<1>5. SupplyIsSum'
  <2>0. TransferAssumptions /\ vouchers \in Balances /\ vouchers' \in Balances
    BY <1>3, VouchersAreBalances DEF CashAssumptions, CashTypes
  <2>1. \A d \in Chain, e \in Denom :
           Total(vouchers', d, e) = Total(vouchers, d, e) + (IF d = c /\ e = denom THEN -amount ELSE 0)
    BY <1>1, <1>4, <2>0, TotalShifts
  <2>2. \A d \in Chain, e \in Denom : Total(vouchers, d, e)' = Total(vouchers', d, e)
    BY DEF Total
  <2> QED BY <1>3, <2>1, <2>2 DEF SupplyIsSum
<1>6. CashTypes'
  BY <1>1, <1>3 DEF CashTypes
<1> QED BY <1>1, <1>2, <1>4, <1>5, <1>6

(***************************************************************************)
(* The sums of a base denomination, and a step that changes those of base  *)
(* by the amounts given and those of no other.                             *)
(***************************************************************************)
Effect(base, issued, escrowed, out, abroad, home) ==
    \A b \in Bases :
        LET c == IssuedAt[b]
            change(x) == IF b = base THEN x ELSE 0
        IN  /\ Issued(b)' = Issued(b) + change(issued)
            /\ Escrow(b)' = Escrow(b) + change(escrowed)
            /\ Outbound(c, b)' = Outbound(c, b) + change(out)
            /\ Abroad(vouchers, c, b)' = Abroad(vouchers, c, b) + change(abroad)
            /\ Homebound(c, b)' = Homebound(c, b) + change(home)

\* The sums are numbers.
LEMMA SumsAreNumbers ==
    ASSUME CashAssumptions, EstIInv, CashTypes, NEW b \in Bases
    PROVE  /\ IssuedAt[b] \in Chain /\ Issued(b) \in Nat /\ Escrow(b) \in Int
           /\ Outbound(IssuedAt[b], b) \in Nat /\ Abroad(vouchers, IssuedAt[b], b) \in Nat
           /\ Homebound(IssuedAt[b], b) \in Nat
<1>1. /\ TransferAssumptions /\ AmountsAreNat /\ TypeOK /\ Linked
      /\ vouchers \in Balances /\ NoneInDebt(vouchers)
  BY CordasAmounts, VouchersAreBalances, Counterparts DEF CashTypes
<1>2. IssuedAt[b] \in Chain /\ Issued(b) \in Nat /\ Escrow(b) \in Int
  BY CashFacts
<1> QED BY <1>1, <1>2, TotalsAreNat, AbroadFacts

\* What circulates changes with one account, and not without.
LEMMA AbroadChanges ==
    ASSUME CashAssumptions, EstIInv, Rooted, CashTypes, CashTypes', NEW c \in Chain, NEW i \in ChanId,
           NEW base \in Bases, NEW owner \in Addresses, NEW a \in Int,
           AccountChange(vouchers, vouchers', Other(c), VoucherOf(c, i, base), owner, a)
    PROVE  \A d \in Chain, b \in Bases :
              Abroad(vouchers, d, b)' = Abroad(vouchers, d, b) + (IF d = c /\ b = base THEN a ELSE 0)
<1>1. \A d \in Chain, b \in Bases :
         Abroad(vouchers', d, b) = Abroad(vouchers, d, b) + (IF d = c /\ b = base THEN a ELSE 0)
  <2>1. TransferAssumptions /\ vouchers \in Balances /\ vouchers' \in Balances
    BY VouchersAreBalances DEF CashAssumptions, CashTypes
  <2> QED BY <2>1, AbroadShifts
<1>2. \A d \in Chain, b \in Bases : Abroad(vouchers, d, b)' = Abroad(vouchers', d, b)
  BY VouchersStay DEF Abroad, OverChannels
<1> QED BY <1>1, <1>2

\* Vouchers and ports that stay as they are leave what is abroad as it is.
LEMMA AbroadIsLeft ==
    ASSUME Rooted, UNCHANGED vouchers
    PROVE  \A d \in Chain : \A b : Abroad(vouchers, d, b)' = Abroad(vouchers, d, b)
BY VouchersStay DEF Abroad, OverChannels, Total

\* Escrow and issue depend on the cash alone.
LEMMA CashIsLeft ==
    ASSUME UNCHANGED <<cash, own>>
    PROVE  \A b : Issued(b)' = Issued(b) /\ Escrow(b)' = Escrow(b)
BY DEF Issued, Escrow, HeldByOwner

\* The contents of a packet are the data of the message.
LEMMA SentData ==
    ASSUME CashAssumptions, NEW data \in Data
    PROVE  [denom |-> data.denom, amount |-> data.amount, sender |-> data.sender,
            receiver |-> data.receiver] = data
<1>1. data \in FungibleTokenPacketData
  BY DataFields DEF CashAssumptions
<1> QED BY <1>1 DEF FungibleTokenPacketData

\* Cash that leaves is in escrow.
LEMMA DepartEffect ==
    ASSUME CashAssumptions, EstIInv, EstIInv', Rooted, CashTypes,
           NEW c \in Chain, NEW i \in ChanId, NEW data \in Data, ~IsVoucher(data.denom),
           SendPacket(c, i, data), LockCash(c, data.denom.base, data.sender, data.amount)
    PROVE  Effect(data.denom.base, 0, data.amount, data.amount, 0, 0)
<1> DEFINE a == data.amount  base == data.denom.base
<1>0. /\ TransferAssumptions /\ TypeOK'
      /\ a \in Nat /\ a \in Int /\ data.sender \in Addresses
      /\ data.denom \in Denom /\ base \in Bases /\ data.denom = BaseDenom(base)
  BY DataFields, DenomForms, CordasAmounts DEF EstIInv, ChanIInv
<1>1. /\ IssuedAt[base] = c /\ UNCHANGED vouchers
      /\ \A b \in Bases : /\ Issued(b)' = Issued(b)
                          /\ Escrow(b)' = Escrow(b) + (IF b = base THEN a ELSE 0)
  BY <1>0, LockFacts
<1>2. Shift(c, i, BaseDenom(base), a)
  BY <1>0, SendShifts
<1> HIDE DEF a, base
<1>3. OutboundChange(c, base, a) /\ \A d \in Chain, b \in Bases : Homebound(d, b)' = Homebound(d, b)
  BY <1>0, <1>2, OutboundShifts
<1>4. \A d \in Chain, b \in Bases : Abroad(vouchers, d, b)' = Abroad(vouchers, d, b)
  BY <1>1, AbroadIsLeft
<1>5. Effect(base, 0, a, a, 0, 0)
  BY <1>1, <1>3, <1>4, SumsAreNumbers DEF Effect, OutboundChange
<1> QED BY <1>5 DEF a, base

\* Vouchers that go home are burnt.
LEMMA ReturnEffect ==
    ASSUME CashAssumptions, EstIInv, EstIInv', Rooted, CashTypes, SupplyIsSum, VouchersCameIn,
           NEW c \in Chain, NEW i \in ChanId, NEW data \in Data,
           HasPrefix(data.denom, chans[c][i].port, i),
           SendPacket(c, i, data), Burn(c, data.sender, data.denom, data.amount)
    PROVE  /\ MintedAbroad(c, data.denom)
           /\ data.amount <= Abroad(vouchers, IssuedAt[data.denom.base], data.denom.base)
           /\ Effect(data.denom.base, 0, 0, 0, -data.amount, data.amount)
<1> DEFINE a == data.amount  base == data.denom.base  h == Other(c)  k == Partner(i)
<1>0. /\ TransferAssumptions /\ TypeOK' /\ TypeOK /\ Linked
      /\ a \in Nat /\ a \in Int /\ -a \in Int /\ data.sender \in Addresses
      /\ data.denom \in Denom /\ base \in Bases
      /\ h \in Chain /\ k \in ChanId /\ Other(h) = c /\ Partner(k) = i
  BY DataFields, DenomForms, Counterparts, CordasAmounts DEF EstIInv, ChanIInv
<1>1. /\ CashTypes' /\ UNCHANGED <<cash, own>>
      /\ vouchers[c][data.denom][data.sender] > 0 /\ a <= vouchers[c][data.denom][data.sender]
      /\ AccountChange(vouchers, vouchers', c, data.denom, data.sender, -a)
  BY <1>0, BurnFacts
<1>2. vouchers[c][data.denom][data.sender] \in Nat
  BY <1>0 DEF CashTypes, CashVouchers
<1>3. data.denom = VoucherOf(h, k, base)
  BY <1>0, PrefixIsVoucher
<1>4. MintedAbroad(c, data.denom)
  BY <1>0, <1>1 DEF VouchersCameIn
<1>5. IssuedAt[base] = h
  BY <1>4 DEF MintedAbroad
<1>6. Shift(c, i, data.denom, a)
  BY <1>0, SendShifts
<1> HIDE DEF a, base, h, k
<1>7. HomeboundChange(h, base, a) /\ \A d \in Chain, b \in Bases : Outbound(d, b)' = Outbound(d, b)
  BY <1>0, <1>3, <1>6, HomeboundShifts
<1>8. \A d \in Chain, b \in Bases :
         Abroad(vouchers, d, b)' = Abroad(vouchers, d, b) + (IF d = h /\ b = base THEN -a ELSE 0)
  BY <1>0, <1>1, <1>3, AbroadChanges
<1>9. \A b \in Bases : Issued(b)' = Issued(b) /\ Escrow(b)' = Escrow(b)
  BY <1>1, CashIsLeft
<1>10. Effect(base, 0, 0, 0, -a, a)
  BY <1>5, <1>7, <1>8, <1>9, SumsAreNumbers DEF Effect, HomeboundChange
<1>11. a <= Abroad(vouchers, h, base)
  <2>0. /\ vouchers \in Balances /\ NoneInDebt(vouchers)
        /\ GetOrZero(vouchers[c][data.denom], data.sender) = vouchers[c][data.denom][data.sender]
    BY <1>0, VouchersAreBalances DEF CashTypes
  <2>1. /\ vouchers[c][data.denom][data.sender] <= Total(vouchers, c, data.denom)
        /\ Total(vouchers, c, data.denom) \in Nat
    BY <1>0, <2>0, TotalFacts
  <2>2. Total(vouchers, c, data.denom) <= Abroad(vouchers, h, base) /\ Abroad(vouchers, h, base) \in Nat
    BY <1>0, <1>3, <2>0, AbroadFacts
  <2> QED BY <1>0, <1>1, <1>2, <2>1, <2>2
<1> QED BY <1>4, <1>5, <1>10, <1>11 DEF a, base

\* A voucher that comes home is paid out of escrow.
LEMMA RedeemEffect ==
    ASSUME CashAssumptions, EstIInv, EstIInv', Rooted, CashTypes,
           NEW c \in Chain, NEW i \in ChanId, NEW seq \in Seqs, NEW data \in Data,
           data.receiver \in Addresses,
           HasPrefix(data.denom, chans[c][i].cpPort, chans[c][i].cpChan),
           RecvPacket(c, i, seq, data, "result"),
           UnlockCash(c, RemovePrefix(data.denom).base, data.receiver, data.amount)
    PROVE  /\ RemovePrefix(data.denom).base = data.denom.base
           /\ data.amount <= Homebound(IssuedAt[data.denom.base], data.denom.base)
           /\ Effect(data.denom.base, 0, -data.amount, 0, 0, -data.amount)
<1> DEFINE a == data.amount  base == data.denom.base
<1>0. /\ TransferAssumptions /\ AmountsAreNat /\ TypeOK' /\ TypeOK /\ Linked /\ "result" \in Acks
      /\ a \in Nat /\ a \in Int /\ -a \in Int
      /\ data.denom \in Denom /\ base \in Bases
      /\ Other(c) \in Chain /\ Partner(i) \in ChanId
  BY DataFields, DenomForms, Counterparts, CordasAmounts
  DEF CashAssumptions, AllAnswersAreResults, EstIInv, ChanIInv
<1>1. data.denom = VoucherOf(c, i, base) /\ RemovePrefix(data.denom).base = base
  BY <1>0, PrefixIsVoucher, DenomFacts
<1>2. /\ IssuedAt[base] = c /\ UNCHANGED vouchers
      /\ \A b \in Bases : /\ Issued(b)' = Issued(b)
                          /\ Escrow(b)' = Escrow(b) + (IF b = base THEN -a ELSE 0)
  BY <1>0, <1>1, UnlockFacts
<1>3. /\ Shift(Other(c), Partner(i), data.denom, -a)
      /\ a <= OnItsWay(Other(c), Partner(i), data.denom)
  BY <1>0, RecvShifts
<1> HIDE DEF a, base
<1>4. HomeboundChange(c, base, -a) /\ \A d \in Chain, b \in Bases : Outbound(d, b)' = Outbound(d, b)
  BY <1>0, <1>1, <1>3, HomeboundShifts
<1>5. \A d \in Chain, b \in Bases : Abroad(vouchers, d, b)' = Abroad(vouchers, d, b)
  BY <1>2, AbroadIsLeft
<1>6. Effect(base, 0, -a, 0, 0, -a)
  BY <1>2, <1>4, <1>5, SumsAreNumbers DEF Effect, HomeboundChange
<1>7. a <= Homebound(c, base)
  <2>1. OnItsWay(Other(c), Partner(i), data.denom) <= Homebound(c, base)
    BY <1>0, <1>1, TotalsCover
  <2>2. OnItsWay(Other(c), Partner(i), data.denom) \in Nat /\ Homebound(c, base) \in Nat
    BY <1>0, OnItsWayIsNat, TotalsAreNat
  <2> QED BY <1>0, <1>3, <2>1, <2>2
<1> QED BY <1>1, <1>2, <1>6, <1>7 DEF a, base

\* Cash that arrives is minted as a voucher of the channel.
LEMMA ArriveEffect ==
    ASSUME CashAssumptions, EstIInv, EstIInv', Rooted, CashTypes, SupplyIsSum, FlightIsNamed,
           NEW c \in Chain, NEW i \in ChanId, NEW seq \in Seqs, NEW data \in Data,
           data.receiver \in Addresses, ~IsVoucher(data.denom),
           RecvPacket(c, i, seq, data, "result"),
           RecordDenom(c, AddPath(data.denom, chans[c][i].port, i)),
           Mint(c, data.receiver, AddPath(data.denom, chans[c][i].port, i), data.amount)
    PROVE  /\ IssuedAt[data.denom.base] = Other(c)
           /\ AddPath(data.denom, chans[c][i].port, i) \in Denom
           /\ AddPath(data.denom, chans[c][i].port, i).base = data.denom.base
           /\ HasPrefix(AddPath(data.denom, chans[c][i].port, i), chans[c][i].port, i)
           /\ data.amount <= Outbound(IssuedAt[data.denom.base], data.denom.base)
           /\ Effect(data.denom.base, 0, 0, -data.amount, data.amount, 0)
<1> DEFINE a == data.amount  base == data.denom.base  h == Other(c)  k == Partner(i)
           voucher == AddPath(data.denom, chans[c][i].port, i)
<1>0. /\ TransferAssumptions /\ AmountsAreNat /\ TypeOK' /\ TypeOK /\ Linked /\ "result" \in Acks
      /\ a \in Nat /\ a \in Int /\ -a \in Int
      /\ data.denom \in Denom /\ base \in Bases /\ data.denom = BaseDenom(base)
      /\ h \in Chain /\ k \in ChanId /\ Other(h) = c /\ Partner(k) = i
      /\ chans[h][k].cpPort = chans[c][i].port /\ chans[c][i].cpPort = chans[h][k].port
  BY DataFields, DenomForms, Counterparts, CordasAmounts
  DEF CashAssumptions, AllAnswersAreResults, EstIInv, ChanIInv, Linked
<1>1. packets[h][k][seq] # NoPacket /\ packets[h][k][seq].data = data
  BY <1>0, HeldByPeer
<1>2. IssuedAt[base] = h
  <2>1. ~HasPrefix(data.denom, chans[h][k].port, k)
    BY DEF HasPrefix
  <2> QED BY <1>0, <1>1, <2>1 DEF FlightIsNamed, MayLeave
<1>3. /\ voucher = VoucherOf(h, k, base) /\ voucher \in Denom /\ voucher.base = base
      /\ HasPrefix(voucher, chans[c][i].port, i)
  <2>1. voucher = OneHop(chans[c][i].port, i, base)
    BY <1>0, DenomFacts
  <2>2. VoucherOf(h, k, base) = OneHop(chans[c][i].port, i, base) /\ VoucherOf(h, k, base) \in Denom
    BY <1>0, VoucherFacts
  <2> QED BY <2>1, <2>2, DenomFacts
<1>4. /\ CashTypes' /\ UNCHANGED <<cash, own>>
      /\ AccountChange(vouchers, vouchers', c, voucher, data.receiver, a)
  BY <1>0, <1>3, MintFacts
<1>5. Shift(h, k, data.denom, -a) /\ a <= OnItsWay(h, k, data.denom)
  BY <1>0, RecvShifts
<1> HIDE DEF a, base, h, k, voucher
<1>6. OutboundChange(h, base, -a) /\ \A d \in Chain, b \in Bases : Homebound(d, b)' = Homebound(d, b)
  BY <1>0, <1>5, OutboundShifts
<1>7. \A d \in Chain, b \in Bases :
         Abroad(vouchers, d, b)' = Abroad(vouchers, d, b) + (IF d = h /\ b = base THEN a ELSE 0)
  BY <1>0, <1>3, <1>4, AbroadChanges
<1>8. \A b \in Bases : Issued(b)' = Issued(b) /\ Escrow(b)' = Escrow(b)
  BY <1>4, CashIsLeft
<1>9. Effect(base, 0, 0, -a, a, 0)
  BY <1>2, <1>6, <1>7, <1>8, SumsAreNumbers DEF Effect, OutboundChange
<1>10. a <= Outbound(h, base)
  <2>1. OnItsWay(h, k, data.denom) <= Outbound(h, base)
    BY <1>0, TotalsCover
  <2>2. OnItsWay(h, k, data.denom) \in Nat /\ Outbound(h, base) \in Nat
    BY <1>0, OnItsWayIsNat, TotalsAreNat
  <2> QED BY <1>0, <1>5, <2>1, <2>2
<1> QED BY <1>2, <1>3, <1>9, <1>10 DEF a, base, h, voucher

(***************************************************************************)
(* What is minted and in flight keeps its shape.                           *)
(***************************************************************************)

\* Operations on a voucher of the host that is recorded.
LEMMA VouchersKeep ==
    ASSUME CashTypes, CashTypes', VouchersCameIn, Rooted, NEW c \in Chain, NEW denom \in Denom,
           NEW owner \in Addresses, NEW a \in Int,
           AccountChange(vouchers, vouchers', c, denom, owner, a),
           \A d \in Chain : denoms[d] \subseteq denoms'[d],
           denom \in denoms'[c], IssuedAt[denom.base] = Other(c),
           NEW i \in ChanId, HasPrefix(denom, chans[c][i].port, i)
    PROVE  VouchersCameIn'
<1>1. SUFFICES ASSUME NEW d \in Chain, NEW e \in Denom, NEW o \in Addresses, vouchers'[d][e][o] > 0
               PROVE  /\ e \in denoms'[d] /\ IssuedAt[e.base] = Other(d)
                      /\ \E k \in ChanId : HasPrefix(e, chans'[d][k].port, k)
  BY DEF VouchersCameIn, MintedAbroad
<1>2. \A k \in ChanId : chans'[d][k].port = chans[d][k].port
  BY DEF Rooted
<1>3. CASE d = c /\ e = denom
  BY <1>2, <1>3
<1>4. CASE ~(d = c /\ e = denom)
  <2>1. /\ vouchers[d][e][o] \in Nat /\ GetOrZero(vouchers[d][e], o) = vouchers[d][e][o]
        /\ GetOrZero(vouchers'[d][e], o) = vouchers'[d][e][o]
    BY VouchersAreBalances DEF CashTypes
  <2>2. vouchers'[d][e][o] = vouchers[d][e][o]
    BY <1>4, <2>1 DEF AccountChange
  <2>3. MintedAbroad(d, e)
    BY <1>1, <2>2 DEF VouchersCameIn
  <2> QED BY <1>2, <2>3 DEF MintedAbroad
<1> QED BY <1>3, <1>4

\* Or none at all.
LEMMA VouchersUntouched ==
    ASSUME VouchersCameIn, Rooted, UNCHANGED <<vouchers, denoms>>
    PROVE  VouchersCameIn'
<1>1. \A d \in Chain, k \in ChanId : chans'[d][k].port = chans[d][k].port
  BY DEF Rooted
<1> QED BY <1>1 DEF VouchersCameIn, MintedAbroad

\* No new packet.
LEMMA FlightKeeps ==
    ASSUME Rooted, FlightIsNamed,
           \A d \in Chain, k \in ChanId, s \in Seqs :
              packets'[d][k][s] # NoPacket => packets'[d][k][s] = packets[d][k][s]
    PROVE  FlightIsNamed'
<1>1. \A d \in Chain, k \in ChanId : chans'[d][k].port = chans[d][k].port
  BY DEF Rooted
<1> QED BY <1>1 DEF FlightIsNamed, MayLeave

\* A new one that may leave.
LEMMA SendKeeps ==
    ASSUME TransferAssumptions, EstIInv, FlightIsNamed,
           NEW c \in Chain, NEW i \in ChanId, NEW data \in Data, SendPacket(c, i, data),
           MayLeave(c, i, data.denom)
    PROVE  FlightIsNamed'
<1> DEFINE next == nextSequenceSend[c][i]
<1>0. TypeOK /\ Linked /\ EstAssumptions
  BY Counterparts DEF TransferAssumptions
<1>1. /\ next \in Seqs
      /\ \A d \in Chain, k \in ChanId, s \in Seqs :
            packets'[d][k][s] = IF d = c /\ k = i /\ s = next
               THEN [dst |-> Partner(i), data |-> data] ELSE packets[d][k][s]
      /\ packets'[c][i][next] # NoPacket
      /\ UNCHANGED <<chans, acknowledgements>>
  BY <1>0, SendFacts
<1>2. packets'[c][i][next].data = data
  BY <1>1
<1> HIDE DEF next
<1> SUFFICES ASSUME NEW d \in Chain, NEW k \in ChanId, NEW s \in Seqs, packets'[d][k][s] # NoPacket
             PROVE  MayLeave(d, k, packets'[d][k][s].data.denom)
  BY <1>1 DEF FlightIsNamed, MayLeave
<1>3. CASE d = c /\ k = i /\ s = next
  BY <1>2, <1>3
<1>4. CASE ~(d = c /\ k = i /\ s = next)
  <2>1. packets'[d][k][s] = packets[d][k][s]
    BY <1>1, <1>4
  <2> QED BY <2>1 DEF FlightIsNamed
<1> QED BY <1>3, <1>4

(***************************************************************************)
(* What the effect means for the invariant and for the peg.                *)
(***************************************************************************)

\* A balanced effect keeps escrow and the bound.
LEMMA EffectKeeps ==
    ASSUME CashAssumptions, EstIInv, CashTypes, WithinFund, EscrowBacked, NEW base \in Bases,
           NEW issued \in Int, NEW escrowed \in Int, NEW out \in Int, NEW abroad \in Int, NEW home \in Int,
           Effect(base, issued, escrowed, out, abroad, home),
           escrowed = out + abroad + home,
           issued = 0 \/ Issued(base) + issued <= MaxFund
    PROVE  WithinFund' /\ EscrowBacked'
<1>1. MaxFund \in Nat
  BY CordasAmounts
<1>2. ASSUME NEW b \in Bases
      PROVE  /\ Issued(b)' <= MaxFund
             /\ Escrow(b)' = Outbound(IssuedAt[b], b)' + Abroad(vouchers, IssuedAt[b], b)'
                                + Homebound(IssuedAt[b], b)'
  <2> DEFINE I == Issued(b)  E == Escrow(b)
             O == Outbound(IssuedAt[b], b)  V == Abroad(vouchers, IssuedAt[b], b)
             H == Homebound(IssuedAt[b], b)
  <2>1. I \in Nat /\ E \in Int /\ O \in Nat /\ V \in Nat /\ H \in Nat
    BY SumsAreNumbers
  <2>2. I <= MaxFund /\ E = O + V + H
    BY DEF WithinFund, EscrowBacked
  <2>3. CASE b = base
    <3>1. /\ Issued(b)' = I + issued /\ Escrow(b)' = E + escrowed
          /\ Outbound(IssuedAt[b], b)' = O + out
          /\ Abroad(vouchers, IssuedAt[b], b)' = V + abroad
          /\ Homebound(IssuedAt[b], b)' = H + home
      BY <2>3 DEF Effect
    <3>2. issued = 0 \/ I + issued <= MaxFund
      BY <2>3
    <3> HIDE DEF I, E, O, V, H
    <3>3. I + issued <= MaxFund /\ E + escrowed = O + out + (V + abroad) + (H + home)
      BY <1>1, <2>1, <2>2, <3>2
    <3> QED BY <3>1, <3>3
  <2>4. CASE b # base
    <3>1. /\ Issued(b)' = I + 0 /\ Escrow(b)' = E + 0
          /\ Outbound(IssuedAt[b], b)' = O + 0
          /\ Abroad(vouchers, IssuedAt[b], b)' = V + 0
          /\ Homebound(IssuedAt[b], b)' = H + 0
      BY <2>4 DEF Effect
    <3> HIDE DEF I, E, O, V, H
    <3> QED BY <2>1, <2>2, <3>1
  <2> QED BY <2>3, <2>4
<1> QED BY <1>2 DEF WithinFund, EscrowBacked

\* The variables of the peg, as Ics20Cash gives them.
Spendable == [t \in Bases |-> HeldByUsers(t) + own[t]]
Escrowed == [t \in Bases |-> HeldByOwner(t) - own[t]]
Departed == [t \in Bases |-> Outbound(IssuedAt[t], t)]
Circulating == [t \in Bases |-> Abroad(vouchers, IssuedAt[t], t)]
Returning == [t \in Bases |-> Homebound(IssuedAt[t], t)]

\* What users hold and what the holder has of his own is what is not in escrow.
SpendableIsRest == \A t \in Bases : HeldByUsers(t) + own[t] = Issued(t) - Escrow(t)

\* What is not escrow can be spent: the users' cash and the holder's own.
LEMMA RestIsSpendable == CashTypes => SpendableIsRest
BY CashFacts, CashAssumes DEF SpendableIsRest

\* So it is after a step.
LEMMA RestIsSpendableNext == CashTypes' => SpendableIsRest'
BY RestIsSpendable, PTL

\* An effect, as the variables of the peg show it.
LEMMA TokensMove ==
    ASSUME CashAssumptions, EstIInv, CashTypes, CashTypes', NEW base \in Bases,
           NEW issued \in Int, NEW escrowed \in Int, NEW out \in Int, NEW abroad \in Int, NEW home \in Int,
           Effect(base, issued, escrowed, out, abroad, home)
    PROVE  /\ Moves(Spendable, Spendable', base, issued - escrowed)
           /\ Moves(Escrowed, Escrowed', base, escrowed)
           /\ Moves(Departed, Departed', base, out)
           /\ Moves(Circulating, Circulating', base, abroad)
           /\ Moves(Returning, Returning', base, home)
<1>1. /\ \A t \in Bases : /\ HeldByUsers(t) + own[t] = Issued(t) - Escrow(t)
                          /\ (HeldByUsers(t) + own[t])' = Issued(t)' - Escrow(t)'
      /\ \A t \in Bases : /\ Issued(t) \in Int /\ Escrow(t) \in Int /\ Outbound(IssuedAt[t], t) \in Int
                          /\ Abroad(vouchers, IssuedAt[t], t) \in Int /\ Homebound(IssuedAt[t], t) \in Int
  BY RestIsSpendable, RestIsSpendableNext, SumsAreNumbers DEF SpendableIsRest
<1>2. /\ Spendable \in [Bases -> Int] /\ Escrowed \in [Bases -> Int] /\ Departed \in [Bases -> Int]
      /\ Circulating \in [Bases -> Int] /\ Returning \in [Bases -> Int]
  BY <1>1 DEF Spendable, Escrowed, Departed, Circulating, Returning, Escrow
<1>3. ASSUME NEW t \in Bases
      PROVE  /\ Issued(t)' = Issued(t) + (IF t = base THEN issued ELSE 0)
             /\ Escrow(t)' = Escrow(t) + (IF t = base THEN escrowed ELSE 0)
             /\ Outbound(IssuedAt[t], t)' = Outbound(IssuedAt[t], t) + (IF t = base THEN out ELSE 0)
             /\ Abroad(vouchers, IssuedAt[t], t)'
                   = Abroad(vouchers, IssuedAt[t], t) + (IF t = base THEN abroad ELSE 0)
             /\ Homebound(IssuedAt[t], t)' = Homebound(IssuedAt[t], t) + (IF t = base THEN home ELSE 0)
  BY DEF Effect
<1>4. ASSUME NEW t \in Bases
      PROVE  (HeldByUsers(t) + own[t])'
                = HeldByUsers(t) + own[t] + (IF t = base THEN issued - escrowed ELSE 0)
  BY <1>1, <1>3
<1>5. /\ \A t \in Bases : Spendable'[t] = Spendable[t] + (IF t = base THEN issued - escrowed ELSE 0)
      /\ \A t \in Bases : Escrowed'[t] = Escrowed[t] + (IF t = base THEN escrowed ELSE 0)
      /\ \A t \in Bases : Departed'[t] = Departed[t] + (IF t = base THEN out ELSE 0)
      /\ \A t \in Bases : Circulating'[t] = Circulating[t] + (IF t = base THEN abroad ELSE 0)
      /\ \A t \in Bases : Returning'[t] = Returning[t] + (IF t = base THEN home ELSE 0)
  BY <1>3, <1>4 DEF Spendable, Escrowed, Departed, Circulating, Returning, Escrow
<1>6. /\ Spendable' \in [Bases -> Int] /\ Escrowed' \in [Bases -> Int] /\ Departed' \in [Bases -> Int]
      /\ Circulating' \in [Bases -> Int] /\ Returning' \in [Bases -> Int]
  <2>1. \A t \in Bases : /\ Spendable'[t] \in Int /\ Escrowed'[t] \in Int /\ Departed'[t] \in Int
                          /\ Circulating'[t] \in Int /\ Returning'[t] \in Int
    BY <1>2, <1>5
  <2>2. \A t \in Bases : /\ (HeldByUsers(t) + own[t])' \in Int /\ (HeldByOwner(t) - own[t])' \in Int
                          /\ Outbound(IssuedAt[t], t)' \in Int
                          /\ Abroad(vouchers, IssuedAt[t], t)' \in Int
                          /\ Homebound(IssuedAt[t], t)' \in Int
    BY <2>1 DEF Spendable, Escrowed, Departed, Circulating, Returning
  <2> QED BY <2>2 DEF Spendable, Escrowed, Departed, Circulating, Returning
<1>7. Moves(Spendable, Spendable', base, issued - escrowed) /\ Moves(Escrowed, Escrowed', base, escrowed)
  <2>1. issued - escrowed \in Int
    OBVIOUS
  <2> QED BY <1>2, <1>5, <1>6, <2>1, OneMoves
<1>8. Moves(Departed, Departed', base, out)
  BY <1>2, <1>5, <1>6, OneMoves
<1>9. Moves(Circulating, Circulating', base, abroad) /\ Moves(Returning, Returning', base, home)
  BY <1>2, <1>5, <1>6, OneMoves
<1> QED BY <1>7, <1>8, <1>9

PegStep == [Peg!PegNext]_(Peg!pegVars)

\* Cash is issued.
LEMMA Funds ==
    ASSUME NEW t \in Bases, NEW a \in Amounts,
           Moves(Spendable, Spendable', t, a), Moves(Escrowed, Escrowed', t, 0),
           Moves(Departed, Departed', t, 0),
           Moves(Circulating, Circulating', t, 0), Moves(Returning, Returning', t, 0)
    PROVE  PegStep
<1>1. Peg!Fund(t, a)
  BY DEF Peg!Fund, Peg!Plus, Moves, Spendable, Escrowed, Departed, Circulating, Returning
<1> QED BY <1>1 DEF PegStep, Peg!PegNext

\* Cash leaves its home.
LEMMA Departs ==
    ASSUME NEW t \in Bases, NEW a \in Amounts, a \in Nat, Spendable[t] \in Int, a <= Spendable[t],
           Moves(Spendable, Spendable', t, -a), Moves(Escrowed, Escrowed', t, a),
           Moves(Departed, Departed', t, a),
           Moves(Circulating, Circulating', t, 0), Moves(Returning, Returning', t, 0)
    PROVE  PegStep
<1>1. Spendable' = [Spendable EXCEPT ![t] = Spendable[t] - a] /\ Spendable[t] >= a
  BY MovesAway
<1>2. Peg!Depart(t, a)
  BY <1>1 DEF Peg!Depart, Peg!Covers, Peg!Plus, Peg!Minus, Moves,
              Spendable, Escrowed, Departed, Circulating, Returning
<1> QED BY <1>2 DEF PegStep, Peg!PegNext

\* It arrives as vouchers.
LEMMA Arrives ==
    ASSUME NEW t \in Bases, NEW a \in Amounts, a \in Nat, Departed[t] \in Int, a <= Departed[t],
           Moves(Spendable, Spendable', t, 0), Moves(Escrowed, Escrowed', t, 0),
           Moves(Departed, Departed', t, -a),
           Moves(Circulating, Circulating', t, a), Moves(Returning, Returning', t, 0)
    PROVE  PegStep
<1>1. Departed' = [Departed EXCEPT ![t] = Departed[t] - a] /\ Departed[t] >= a
  BY MovesAway
<1>2. Peg!Arrive(t, a)
  BY <1>1 DEF Peg!Arrive, Peg!Covers, Peg!Plus, Peg!Minus, Moves,
              Spendable, Escrowed, Departed, Circulating, Returning
<1> QED BY <1>2 DEF PegStep, Peg!PegNext

\* Vouchers are sent home.
LEMMA Returns ==
    ASSUME NEW t \in Bases, NEW a \in Amounts, a \in Nat, Circulating[t] \in Int, a <= Circulating[t],
           Moves(Spendable, Spendable', t, 0), Moves(Escrowed, Escrowed', t, 0),
           Moves(Departed, Departed', t, 0),
           Moves(Circulating, Circulating', t, -a), Moves(Returning, Returning', t, a)
    PROVE  PegStep
<1>1. Circulating' = [Circulating EXCEPT ![t] = Circulating[t] - a] /\ Circulating[t] >= a
  BY MovesAway
<1>2. Peg!Return(t, a)
  BY <1>1 DEF Peg!Return, Peg!Covers, Peg!Plus, Peg!Minus, Moves,
              Spendable, Escrowed, Departed, Circulating, Returning
<1> QED BY <1>2 DEF PegStep, Peg!PegNext

\* They are paid out.
LEMMA Redeems ==
    ASSUME NEW t \in Bases, NEW a \in Amounts, a \in Nat, Returning[t] \in Int, a <= Returning[t],
           Escrowed[t] \in Int,
           Moves(Spendable, Spendable', t, a), Moves(Escrowed, Escrowed', t, -a),
           Moves(Departed, Departed', t, 0),
           Moves(Circulating, Circulating', t, 0), Moves(Returning, Returning', t, -a)
    PROVE  PegStep
<1>1. /\ Returning' = [Returning EXCEPT ![t] = Returning[t] - a] /\ Returning[t] >= a
      /\ Escrowed' = [Escrowed EXCEPT ![t] = Escrowed[t] - a]
  BY MovesAway
<1>2. Peg!Redeem(t, a)
  BY <1>1 DEF Peg!Redeem, Peg!Covers, Peg!Plus, Peg!Minus, Moves,
              Spendable, Escrowed, Departed, Circulating, Returning
<1> QED BY <1>2 DEF PegStep, Peg!PegNext

\* What the variables of the peg hold for one base denomination.
LEMMA AtBase ==
    ASSUME CashAssumptions, EstIInv, CashTypes, NEW base \in Bases
    PROVE  /\ Spendable[base] = HeldByUsers(base) + own[base] /\ Escrowed[base] = Escrow(base)
           /\ Departed[base] = Outbound(IssuedAt[base], base)
           /\ Circulating[base] = Abroad(vouchers, IssuedAt[base], base)
           /\ Returning[base] = Homebound(IssuedAt[base], base)
           /\ Spendable[base] \in Int /\ Escrowed[base] \in Int /\ Departed[base] \in Int
           /\ Circulating[base] \in Int /\ Returning[base] \in Int
<1>1. /\ Spendable[base] = HeldByUsers(base) + own[base] /\ Escrowed[base] = Escrow(base)
      /\ Departed[base] = Outbound(IssuedAt[base], base)
      /\ Circulating[base] = Abroad(vouchers, IssuedAt[base], base)
      /\ Returning[base] = Homebound(IssuedAt[base], base)
  BY DEF Spendable, Escrowed, Departed, Circulating, Returning, Escrow
<1>2. /\ HeldByUsers(base) + own[base] \in Int /\ Escrow(base) \in Int
      /\ Outbound(IssuedAt[base], base) \in Int /\ Abroad(vouchers, IssuedAt[base], base) \in Int
      /\ Homebound(IssuedAt[base], base) \in Int
  BY CashFacts, SumsAreNumbers
<1> QED BY <1>1, <1>2

\* An effect of one of the five stages keeps the invariant and is a step of the
\* peg; for cash that leaves, if users have it or the holder has it of his own.
Kept == WithinFund' /\ EscrowBacked'

\* Whatever a transaction does to the sums keeps the escrow matched and is a
\* transition of TwoWayPeg, as long as what is locked is there to be spent.
LEMMA StagesSettle ==
    ASSUME CashAssumptions, EstIInv, CashTypes, CashTypes', WithinFund, EscrowBacked,
           NEW base \in Bases, NEW a \in Amounts
    PROVE  /\ Effect(base, a, 0, 0, 0, 0) /\ Issued(base) + a <= MaxFund => Kept /\ PegStep
           /\ Effect(base, 0, a, a, 0, 0) => Kept /\ (a <= HeldByUsers(base) + own[base] => PegStep)
           /\ Effect(base, 0, 0, -a, a, 0) /\ a <= Outbound(IssuedAt[base], base) => Kept /\ PegStep
           /\ Effect(base, 0, 0, 0, -a, a) /\ a <= Abroad(vouchers, IssuedAt[base], base)
              => Kept /\ PegStep
           /\ Effect(base, 0, -a, 0, 0, -a) /\ a <= Homebound(IssuedAt[base], base)
              => Kept /\ PegStep
<1>0. a \in Nat /\ a \in Int /\ -a \in Int /\ 0 \in Int
  BY CordasAmounts
<1>1. /\ Spendable[base] = HeldByUsers(base) + own[base]
      /\ Departed[base] = Outbound(IssuedAt[base], base)
      /\ Circulating[base] = Abroad(vouchers, IssuedAt[base], base)
      /\ Returning[base] = Homebound(IssuedAt[base], base)
      /\ Spendable[base] \in Int /\ Escrowed[base] \in Int /\ Departed[base] \in Int
      /\ Circulating[base] \in Int /\ Returning[base] \in Int
  BY AtBase
<1>2. /\ a - 0 = a /\ 0 - a = -a /\ 0 - 0 = 0 /\ 0 - -a = a
      /\ a = a + 0 + 0 /\ 0 = -a + a + 0 /\ 0 = 0 + -a + a /\ -a = 0 + 0 + -a /\ 0 = 0 + 0 + 0
  BY <1>0
<1>3. ASSUME Effect(base, a, 0, 0, 0, 0), Issued(base) + a <= MaxFund
      PROVE  Kept /\ PegStep
  <2>1. WithinFund' /\ EscrowBacked'
    BY <1>0, <1>2, <1>3, EffectKeeps
  <2>2. /\ Moves(Spendable, Spendable', base, a - 0) /\ Moves(Escrowed, Escrowed', base, 0)
        /\ Moves(Departed, Departed', base, 0)
        /\ Moves(Circulating, Circulating', base, 0) /\ Moves(Returning, Returning', base, 0)
    BY <1>0, <1>3, TokensMove
  <2>3. PegStep
    BY <1>2, <2>2, Funds
  <2> QED BY <2>1, <2>3 DEF Kept
<1>4. ASSUME Effect(base, 0, a, a, 0, 0)
      PROVE  Kept /\ (a <= HeldByUsers(base) + own[base] => PegStep)
  <2>1. WithinFund' /\ EscrowBacked'
    BY <1>0, <1>2, <1>4, EffectKeeps
  <2>2. /\ Moves(Spendable, Spendable', base, 0 - a) /\ Moves(Escrowed, Escrowed', base, a)
        /\ Moves(Departed, Departed', base, a)
        /\ Moves(Circulating, Circulating', base, 0) /\ Moves(Returning, Returning', base, 0)
    BY <1>0, <1>4, TokensMove
  <2>3. a <= Spendable[base] => PegStep
    BY <1>0, <1>1, <1>2, <2>2, Departs
  <2> QED BY <1>1, <2>1, <2>3 DEF Kept
<1>5. ASSUME Effect(base, 0, 0, -a, a, 0), a <= Outbound(IssuedAt[base], base)
      PROVE  Kept /\ PegStep
  <2>1. WithinFund' /\ EscrowBacked'
    BY <1>0, <1>2, <1>5, EffectKeeps
  <2>2. /\ Moves(Spendable, Spendable', base, 0 - 0) /\ Moves(Escrowed, Escrowed', base, 0)
        /\ Moves(Departed, Departed', base, -a)
        /\ Moves(Circulating, Circulating', base, a) /\ Moves(Returning, Returning', base, 0)
    BY <1>0, <1>5, TokensMove
  <2>3. PegStep
    BY <1>0, <1>1, <1>2, <1>5, <2>2, Arrives
  <2> QED BY <2>1, <2>3 DEF Kept
<1>6. ASSUME Effect(base, 0, 0, 0, -a, a), a <= Abroad(vouchers, IssuedAt[base], base)
      PROVE  Kept /\ PegStep
  <2>1. WithinFund' /\ EscrowBacked'
    BY <1>0, <1>2, <1>6, EffectKeeps
  <2>2. /\ Moves(Spendable, Spendable', base, 0 - 0) /\ Moves(Escrowed, Escrowed', base, 0)
        /\ Moves(Departed, Departed', base, 0)
        /\ Moves(Circulating, Circulating', base, -a) /\ Moves(Returning, Returning', base, a)
    BY <1>0, <1>6, TokensMove
  <2>3. PegStep
    BY <1>0, <1>1, <1>2, <1>6, <2>2, Returns
  <2> QED BY <2>1, <2>3 DEF Kept
<1>7. ASSUME Effect(base, 0, -a, 0, 0, -a), a <= Homebound(IssuedAt[base], base)
      PROVE  Kept /\ PegStep
  <2>1. WithinFund' /\ EscrowBacked'
    BY <1>0, <1>2, <1>7, EffectKeeps
  <2>2. /\ Moves(Spendable, Spendable', base, 0 - -a) /\ Moves(Escrowed, Escrowed', base, -a)
        /\ Moves(Departed, Departed', base, 0)
        /\ Moves(Circulating, Circulating', base, 0) /\ Moves(Returning, Returning', base, -a)
    BY <1>0, <1>7, TokensMove
  <2>3. PegStep
    BY <1>0, <1>1, <1>2, <1>7, <2>2, Redeems
  <2> QED BY <2>1, <2>3 DEF Kept
<1> QED BY <1>3, <1>4, <1>5, <1>6, <1>7

(***************************************************************************)
(* The steps of the specification.                                         *)
(***************************************************************************)

\* What every step gives: the invariant, and, where no holder sends cash himself,
\* a step of the peg.
CashStepGives == CashIInv' /\ (OwnersDoNotLock => PegStep)

\* Issuing cash adds to what is spendable.
LEMMA IssueStep ==
    ASSUME CashAssumptions, EstIInv, Rooted, CashIInv,
           NEW base \in Bases, NEW owner \in Addresses, NEW a \in Amounts, IssueCash(base, owner, a)
    PROVE  CashStepGives
<1>0. a \in Nat /\ a \in Int /\ TransferAssumptions
  BY CordasAmounts
<1>1. /\ Issued(base) + a <= MaxFund
      /\ CashTypes' /\ UNCHANGED <<vars, vouchers, supply, denoms>>
      /\ \A b \in Bases : /\ Issued(b)' = Issued(b) + (IF b = base THEN a ELSE 0)
                          /\ Escrow(b)' = Escrow(b)
                          /\ own'[b] >= own[b]
  BY <1>0, IssueFacts DEF CashIInv
<1>2. UNCHANGED <<packets, acknowledgements>>
  BY <1>1 DEF vars, chanVars, recvVars
<1>3. \A d \in Chain, b \in Bases : Outbound(d, b)' = Outbound(d, b) /\ Homebound(d, b)' = Homebound(d, b)
  BY <1>0, <1>2, QuietShiftsNothing, TotalsStay
<1>4. \A d \in Chain, b \in Bases : Abroad(vouchers, d, b)' = Abroad(vouchers, d, b)
  BY <1>1, AbroadIsLeft
<1>5. Effect(base, a, 0, 0, 0, 0)
  BY <1>1, <1>3, <1>4, SumsAreNumbers DEF Effect, CashIInv
<1>6. Kept /\ PegStep
  BY <1>1, <1>5, StagesSettle DEF CashIInv
<1>7. SupplyIsSum'
  BY <1>1 DEF CashIInv, SupplyIsSum, Total
<1>8. VouchersCameIn' /\ FlightIsNamed'
  BY <1>1, <1>2, VouchersUntouched, FlightKeeps DEF CashIInv
<1>9. OwnersDoNotLock => OwnIsKept'
  <2>1. \A b \in Bases : own[b] \in Int /\ own'[b] \in Int
    BY <1>1 DEF CashIInv, CashTypes
  <2> QED BY <1>1, <2>1 DEF CashIInv, OwnIsKept
<1> QED BY <1>1, <1>6, <1>7, <1>8, <1>9 DEF CashStepGives, CashIInv, Kept

\* A packet is sent: cash that its sender has, or vouchers that go back.
LEMMA OutgoingStep ==
    ASSUME CashAssumptions, EstIInv, EstIInv', Rooted, CashIInv, NEW c \in Chain, NEW i \in ChanId,
           NEW data \in Data,
           CreateOutgoingPacket(c, i, data.denom, data.amount, data.sender, data.receiver)
    PROVE  CashStepGives
<1> DEFINE a == data.amount  base == data.denom.base
<1>0. /\ TransferAssumptions
      /\ a \in Amounts /\ a \in Nat /\ a \in Int /\ -a \in Int /\ data.sender \in Addresses
      /\ data.denom \in Denom /\ base \in Bases /\ Other(c) \in Chain
  BY DataFields, DenomForms, Counterparts, CordasAmounts
<1>1. SendPacket(c, i, data)
  BY SentData DEF CreateOutgoingPacket
<1>2. CASE ~IsVoucher(data.denom) /\ data.sender \in Lockers /\ LockCash(c, base, data.sender, a)
  <2>1. Effect(base, 0, a, a, 0, 0)
    BY <1>1, <1>2, DepartEffect DEF CashIInv
  <2>2. /\ IssuedAt[base] = c /\ a <= cash[base][data.sender]
        /\ CashTypes' /\ UNCHANGED <<vouchers, supply, denoms>>
        /\ \A b \in Bases : /\ Issued(b)' = Issued(b)
                            /\ Escrow(b)' = Escrow(b) + (IF b = base THEN a ELSE 0)
                            /\ data.sender # Holder(base) => own'[b] = own[b]
    BY <1>0, <1>2, LockFacts DEF CashIInv
  <2>3. Kept /\ (a <= HeldByUsers(base) + own[base] => PegStep)
    BY <1>0, <2>1, <2>2, StagesSettle DEF CashIInv
  <2>4. OwnersDoNotLock => OwnIsKept' /\ PegStep
    <3> SUFFICES ASSUME OwnersDoNotLock
                 PROVE  OwnIsKept' /\ PegStep
      OBVIOUS
    <3>1. data.sender # Holder(base) /\ OwnIsKept
      BY <1>0, <1>2 DEF OwnersDoNotLock, Holder, CashIInv
    <3>2. /\ cash[base][data.sender] <= HeldByUsers(base) /\ HeldByUsers(base) \in Nat
          /\ cash[base][data.sender] \in Nat /\ own[base] \in Int /\ own[base] >= 0
      BY <1>0, <3>1, CashFacts DEF CashIInv, OwnIsKept
    <3>3. a <= HeldByUsers(base) + own[base]
      BY <1>0, <2>2, <3>2
    <3> QED BY <2>2, <2>3, <3>1, <3>3 DEF OwnIsKept
  <2>5. SupplyIsSum'
    BY <2>2 DEF CashIInv, SupplyIsSum, Total
  <2>6. VouchersCameIn'
    BY <2>2, VouchersUntouched DEF CashIInv
  <2>7. FlightIsNamed'
    BY <1>0, <1>1, <1>2, <2>2, SendKeeps DEF CashIInv, MayLeave
  <2> QED BY <2>2, <2>3, <2>4, <2>5, <2>6, <2>7 DEF CashStepGives, CashIInv, Kept
<1>3. CASE HasPrefix(data.denom, chans[c][i].port, i) /\ Burn(c, data.sender, data.denom, a)
  <2>1. /\ MintedAbroad(c, data.denom)
        /\ a <= Abroad(vouchers, IssuedAt[base], base)
        /\ Effect(base, 0, 0, 0, -a, a)
    BY <1>1, <1>3, ReturnEffect DEF CashIInv
  <2>2. /\ vouchers[c][data.denom][data.sender] > 0 /\ a <= vouchers[c][data.denom][data.sender]
        /\ CashTypes' /\ SupplyIsSum' /\ UNCHANGED <<cash, own, denoms>>
        /\ AccountChange(vouchers, vouchers', c, data.denom, data.sender, -a)
    BY <1>0, <1>3, BurnFacts DEF CashIInv
  <2>3. Kept /\ PegStep
    BY <1>0, <2>1, <2>2, StagesSettle DEF CashIInv
  <2>4. OwnersDoNotLock => OwnIsKept'
    BY <2>2 DEF CashIInv, OwnIsKept
  <2>5. data.denom \in denoms[c] /\ IssuedAt[base] = Other(c)
    BY <2>1 DEF MintedAbroad
  <2>6. VouchersCameIn'
    BY <1>0, <1>3, <2>2, <2>5, VouchersKeep DEF CashIInv
  <2>7. FlightIsNamed'
    BY <1>0, <1>1, <1>3, <2>5, SendKeeps DEF CashIInv, MayLeave
  <2> QED BY <2>2, <2>3, <2>4, <2>6, <2>7 DEF CashStepGives, CashIInv, Kept
<1> QED BY <1>2, <1>3 DEF CreateOutgoingPacket

\* A packet is taken: vouchers that come home are paid out, cash from the other
\* host is minted as a voucher.
LEMMA PacketRecvStep ==
    ASSUME CashAssumptions, EstIInv, EstIInv', Rooted, CashIInv, NEW c \in Chain, NEW i \in ChanId,
           NEW seq \in Seqs, NEW data \in Data, HandlePacketRecv(c, i, seq, data)
    PROVE  CashStepGives
<1> DEFINE a == data.amount  base == data.denom.base
           home == RemovePrefix(data.denom)  voucher == AddPath(data.denom, chans[c][i].port, i)
<1>0. /\ TransferAssumptions /\ data.receiver \in Addresses /\ "result" \in Acks
      /\ a \in Amounts /\ a \in Nat /\ a \in Int /\ -a \in Int
      /\ data.denom \in Denom /\ base \in Bases
      /\ RecvPacket(c, i, seq, data, "result")
  BY DataFields, DenomForms, CordasAmounts DEF CashAssumptions, AllAnswersAreResults, HandlePacketRecv
<1>1. FlightIsNamed'
  <2>1. UNCHANGED packets
    <3>1. /\ \A d \in Chain, l \in ChanId, s \in Seqs :
                acknowledgements'[d][l][s] = IF d = c /\ l = i /\ s = seq
                   THEN [ack |-> "result"] ELSE acknowledgements[d][l][s]
          /\ UNCHANGED <<chans, packets>>
      BY <1>0, ReceivedIsHeld
    <3> QED BY <3>1
  <2> QED BY <2>1, FlightKeeps DEF CashIInv
<1>2. CASE /\ HasPrefix(data.denom, chans[c][i].cpPort, chans[c][i].cpChan)
           /\ UnlockCash(c, home.base, data.receiver, a)
  <2>1. /\ home.base = base /\ a <= Homebound(IssuedAt[base], base)
        /\ Effect(base, 0, -a, 0, 0, -a)
    BY <1>0, <1>2, RedeemEffect DEF CashIInv
  <2>2. /\ CashTypes' /\ UNCHANGED <<vouchers, supply, denoms>>
        /\ \A b \in Bases : own'[b] >= own[b]
    BY <1>0, <1>2, <2>1, UnlockFacts DEF CashIInv
  <2>3. Kept /\ PegStep
    BY <1>0, <2>1, <2>2, StagesSettle DEF CashIInv
  <2>4. OwnersDoNotLock => OwnIsKept'
    <3>1. \A b \in Bases : own[b] \in Int /\ own'[b] \in Int
      BY <2>2 DEF CashIInv, CashTypes
    <3> QED BY <2>2, <3>1 DEF CashIInv, OwnIsKept
  <2>5. SupplyIsSum'
    BY <2>2 DEF CashIInv, SupplyIsSum, Total
  <2>6. VouchersCameIn'
    BY <2>2, VouchersUntouched DEF CashIInv
  <2> QED BY <1>1, <2>2, <2>3, <2>4, <2>5, <2>6 DEF CashStepGives, CashIInv, Kept
<1>3. CASE /\ ~IsVoucher(data.denom)
           /\ RecordDenom(c, voucher) /\ Mint(c, data.receiver, voucher, a)
  <2>1. /\ IssuedAt[base] = Other(c) /\ voucher \in Denom /\ voucher.base = base
        /\ HasPrefix(voucher, chans[c][i].port, i)
        /\ a <= Outbound(IssuedAt[base], base)
        /\ Effect(base, 0, 0, -a, a, 0)
    BY <1>0, <1>3, ArriveEffect DEF CashIInv
  <2> HIDE DEF voucher
  <2>2. /\ CashTypes' /\ SupplyIsSum' /\ UNCHANGED <<cash, own>>
        /\ AccountChange(vouchers, vouchers', c, voucher, data.receiver, a)
        /\ \A d \in Chain : denoms[d] \subseteq denoms'[d]
        /\ voucher \in denoms'[c]
    BY <1>0, <1>3, <2>1, MintFacts DEF CashIInv
  <2>3. Kept /\ PegStep
    BY <1>0, <2>1, <2>2, StagesSettle DEF CashIInv
  <2>4. OwnersDoNotLock => OwnIsKept'
    BY <2>2 DEF CashIInv, OwnIsKept
  <2>5. VouchersCameIn'
    BY <1>0, <2>1, <2>2, VouchersKeep DEF CashIInv
  <2> QED BY <1>1, <2>2, <2>3, <2>4, <2>5 DEF CashStepGives, CashIInv, Kept
<1> QED BY <1>2, <1>3 DEF HandlePacketRecv

\* Steps that leave cash and vouchers, and what is on its way, alone.
LEMMA QuietStep ==
    ASSUME CashAssumptions, EstIInv, Rooted, CashIInv, UNCHANGED cashVars, NoShift, FlightIsNamed'
    PROVE  CashStepGives
<1>1. UNCHANGED <<cash, own, vouchers, supply, denoms>>
  BY DEF cashVars
<1>2. /\ \A b \in Bases : IssuedAt[b] \in Chain
      /\ \A d \in Chain, b \in Bases : Outbound(d, b)' = Outbound(d, b) /\ Homebound(d, b)' = Homebound(d, b)
  BY TotalsStay DEF CashAssumptions, IssuersAreChains
<1>3. \A d \in Chain : \A b : Abroad(vouchers, d, b)' = Abroad(vouchers, d, b)
  BY <1>1, AbroadIsLeft
<1>4. \A b : Issued(b)' = Issued(b) /\ Escrow(b)' = Escrow(b)
  BY <1>1, CashIsLeft
<1>5. Kept
  BY <1>2, <1>3, <1>4 DEF Kept, CashIInv, WithinFund, EscrowBacked
<1>6. PegStep
  <2>1. \A t \in Bases : /\ HeldByUsers(t)' = HeldByUsers(t) /\ HeldByOwner(t)' = HeldByOwner(t)
                         /\ own'[t] = own[t]
    BY <1>1 DEF HeldByUsers, HeldByOwner
  <2>2. UNCHANGED Peg!pegVars
    BY <1>2, <1>3, <2>1 DEF Peg!pegVars
  <2> QED BY <2>2 DEF PegStep
<1>7. CashTypes' /\ SupplyIsSum' /\ (OwnersDoNotLock => OwnIsKept')
  BY <1>1 DEF CashIInv, CashTypes, SupplyIsSum, Total, OwnIsKept
<1>8. VouchersCameIn'
  BY <1>1, VouchersUntouched DEF CashIInv
<1> QED BY <1>5, <1>6, <1>7, <1>8 DEF CashStepGives, CashIInv, Kept

\* A "result" that comes back takes the packet away, and that is all.
LEMMA PacketAckStep ==
    ASSUME CashAssumptions, EstIInv, Rooted, CashIInv, NEW c \in Chain, NEW i \in ChanId,
           NEW seq \in Seqs, HandlePacketAcknowledgement(c, i, seq)
    PROVE  CashStepGives
<1>0. /\ TransferAssumptions /\ "result" \in Acks
      /\ AcknowledgePacket(c, i, seq, "result") /\ UNCHANGED cashVars
  BY DEF CashAssumptions, AllAnswersAreResults, HandlePacketAcknowledgement
<1>1. NoShift
  BY <1>0, ResultShiftsNothing
<1>2. FlightIsNamed'
  <2>1. /\ packets[c][i][seq] # NoPacket
        /\ acknowledgements[Other(c)][Partner(i)][seq] = [ack |-> "result"]
        /\ \A d \in Chain, k \in ChanId, s \in Seqs :
              packets'[d][k][s] = IF d = c /\ k = i /\ s = seq THEN NoPacket ELSE packets[d][k][s]
        /\ UNCHANGED <<chans, acknowledgements>>
    BY <1>0, AckedIsHeld
  <2>2. \A d \in Chain, k \in ChanId, s \in Seqs :
           packets'[d][k][s] # NoPacket => packets'[d][k][s] = packets[d][k][s]
    BY <2>1
  <2> QED BY <2>2, FlightKeeps DEF CashIInv
<1> QED BY <1>0, <1>1, <1>2, QuietStep

\* Steps that touch neither cash nor packets.
LEMMA IdleStep ==
    ASSUME CashAssumptions, EstIInv, Rooted, CashIInv, UNCHANGED cashVars,
           UNCHANGED <<packets, acknowledgements>>
    PROVE  CashStepGives
<1>1. NoShift
  BY QuietShiftsNothing DEF CashAssumptions
<1>2. FlightIsNamed'
  BY FlightKeeps DEF CashIInv
<1> QED BY <1>1, <1>2, QuietStep

\* Each action of the cash hosts is one of the channels, or leaves them alone.
LEMMA CashNextIsNext ==
    ASSUME CashAssumptions, CashNext
    PROVE  [Next]_vars
<1>0. "result" \in Acks
  BY DEF CashAssumptions, AllAnswersAreResults
<1>1. ASSUME NEW base \in Bases, NEW owner \in Addresses, NEW amount \in Amounts,
             IssueCash(base, owner, amount)
      PROVE  [Next]_vars
  BY <1>1 DEF IssueCash
<1>2. ASSUME NEW c \in Chain, NEW i \in ChanId, NEW data \in Data,
             CreateOutgoingPacket(c, i, data.denom, data.amount, data.sender, data.receiver)
      PROVE  [Next]_vars
  <2>1. SendPacket(c, i, data)
    BY <1>2, SentData DEF CreateOutgoingPacket
  <2> QED BY <2>1 DEF Next, PacketNext
<1>3. ASSUME NEW c \in Chain, NEW i \in ChanId, NEW seq \in Seqs, NEW data \in Data,
             HandlePacketRecv(c, i, seq, data)
      PROVE  [Next]_vars
  <2>1. RecvPacket(c, i, seq, data, "result")
    BY <1>3 DEF HandlePacketRecv
  <2> QED BY <1>0, <2>1 DEF Next, PacketNext
<1>4. ASSUME NEW c \in Chain, NEW i \in ChanId, NEW seq \in Seqs, HandlePacketAcknowledgement(c, i, seq)
      PROVE  [Next]_vars
  <2>1. AcknowledgePacket(c, i, seq, "result")
    BY <1>4 DEF HandlePacketAcknowledgement
  <2> QED BY <1>0, <2>1 DEF Next, PacketNext
<1>5. ASSUME NEW c \in Chain, NEW i \in ChanId, ChanCloseInit(c, i) \/ ChanCloseConfirm(c, i)
      PROVE  [Next]_vars
  BY <1>5 DEF Next, HandshakeNext
<1> QED BY <1>1, <1>2, <1>3, <1>4, <1>5 DEF CashNext

\* One step of the cash hosts.
LEMMA CashStep ==
    ASSUME CashAssumptions, EstIInv, CashIInv, [CashNext]_allVars
    PROVE  EstIInv' /\ CashIInv' /\ (OwnersDoNotLock => PegStep)
<1>1. EstIInv' /\ Rooted
  <2>1. EstAssumptions
    BY DEF CashAssumptions, TransferAssumptions
  <2>2. [Next]_vars
    BY CashNextIsNext DEF allVars
  <2> QED BY <2>1, <2>2, EstStep
<1>2. CASE UNCHANGED allVars
  <2>1. UNCHANGED cashVars /\ UNCHANGED <<packets, acknowledgements>>
    BY <1>2 DEF allVars, vars, chanVars, recvVars
  <2> QED BY <1>1, <2>1, IdleStep DEF CashStepGives
<1>3. ASSUME NEW base \in Bases, NEW owner \in Addresses, NEW amount \in Amounts,
             IssueCash(base, owner, amount)
      PROVE  CashStepGives
  BY <1>1, <1>3, IssueStep
<1>4. ASSUME NEW c \in Chain, NEW i \in ChanId, NEW data \in Data,
             CreateOutgoingPacket(c, i, data.denom, data.amount, data.sender, data.receiver)
      PROVE  CashStepGives
  BY <1>1, <1>4, OutgoingStep
<1>5. ASSUME NEW c \in Chain, NEW i \in ChanId, NEW seq \in Seqs, NEW data \in Data,
             HandlePacketRecv(c, i, seq, data)
      PROVE  CashStepGives
  BY <1>1, <1>5, PacketRecvStep
<1>6. ASSUME NEW c \in Chain, NEW i \in ChanId, NEW seq \in Seqs, HandlePacketAcknowledgement(c, i, seq)
      PROVE  CashStepGives
  BY <1>1, <1>6, PacketAckStep
<1>7. ASSUME NEW c \in Chain, NEW i \in ChanId, ChanCloseInit(c, i) \/ ChanCloseConfirm(c, i),
             UNCHANGED cashVars
      PROVE  CashStepGives
  <2>1. UNCHANGED <<packets, acknowledgements>>
    BY <1>7 DEF ChanCloseInit, ChanCloseConfirm, Close, recvVars
  <2> QED BY <1>1, <1>7, <2>1, IdleStep
<1> QED BY <1>1, <1>2, <1>3, <1>4, <1>5, <1>6, <1>7 DEF CashNext, CashStepGives

\* Nothing is issued, minted or sent at the start.
LEMMA CashStarts ==
    ASSUME CashAssumptions, CashInit
    PROVE  EstIInv /\ CashIInv /\ Peg!PegInit
<1>1. EstIInv /\ PacketInit /\ TransferAssumptions
  BY EstStarts, StartFacts DEF CashInit, CashAssumptions, TransferAssumptions
<1>2. \A c \in Chain, i \in ChanId, seq \in Seqs : packets[c][i][seq] = NoPacket
  BY <1>1 DEF PacketInit
<1>3. CashTypes
  BY DEF CashInit, CashTypes, CashVouchers
<1>4. /\ \A base \in Bases, o \in Addresses : cash[base][o] = 0
      /\ \A base \in Bases : own[base] = 0
      /\ \A c \in Chain, denom \in Denom, o \in Addresses : vouchers[c][denom][o] = 0
      /\ \A c \in Chain, denom \in Denom : supply[c][denom] = 0
  BY DEF CashInit
<1>5. VouchersCameIn /\ FlightIsNamed /\ OwnIsKept
  BY <1>2, <1>4 DEF VouchersCameIn, FlightIsNamed, OwnIsKept
<1>6. \A c \in Chain, denom \in Denom : Total(vouchers, c, denom) = 0
  BY <1>1, <1>3, <1>4, TotalFacts, VouchersAreBalances DEF CashTypes
<1>7. \A c \in Chain, i \in ChanId : \A denom : OnItsWay(c, i, denom) = 0
  <2> SUFFICES ASSUME NEW c \in Chain, NEW i \in ChanId, NEW denom
               PROVE  OnItsWay(c, i, denom) = 0
    OBVIOUS
  <2>1. \A seq \in Seqs : Moving(c, i, denom)[seq] = 0
    BY <1>2 DEF Moving, Unsettled
  <2> QED BY <1>1, <2>1, IndicesAreFinite, SumOfZero DEF OnItsWay
<1>8. \A c \in Chain, base \in Bases :
         Outbound(c, base) = 0 /\ Abroad(vouchers, c, base) = 0 /\ Homebound(c, base) = 0
  <2> SUFFICES ASSUME NEW c \in Chain, NEW base \in Bases
               PROVE  Outbound(c, base) = 0 /\ Abroad(vouchers, c, base) = 0 /\ Homebound(c, base) = 0
    OBVIOUS
  <2> DEFINE out == [i \in ChanId |-> OnItsWay(c, i, BaseDenom(base))]
             abroad == [i \in ChanId |-> Total(vouchers, Other(c), VoucherOf(c, i, base))]
             home == [i \in ChanId |-> OnItsWay(Other(c), chans[c][i].cpChan, VoucherOf(c, i, base))]
  <2>1. \A i \in ChanId : out[i] = 0 /\ abroad[i] = 0 /\ home[i] = 0
    <3>1. \A i \in ChanId : /\ VoucherOf(c, i, base) \in Denom /\ Other(c) \in Chain
                            /\ chans[c][i].cpChan \in ChanId
      BY <1>1, VoucherFacts, Counterparts
    <3> QED BY <1>6, <1>7, <3>1
  <2>2. Outbound(c, base) = SumFunctionOnSet(out, ChanId)
        /\ Abroad(vouchers, c, base) = SumFunctionOnSet(abroad, ChanId)
        /\ Homebound(c, base) = SumFunctionOnSet(home, ChanId)
    BY DEF Outbound, Abroad, Homebound, OverChannels
  <2> HIDE DEF out, abroad, home
  <2> QED BY <1>1, <2>1, <2>2, IndicesAreFinite, SumOfZero
<1>9. ASSUME NEW base \in Bases
      PROVE  /\ IssuedAt[base] \in Chain /\ Issued(base) = 0 /\ HeldByUsers(base) = 0
             /\ HeldByOwner(base) = 0 /\ own[base] = 0
  <2>1. Issued(base) = 0
    BY <1>1, <1>4, IndicesAreFinite, SumOfZero DEF Issued
  <2>2. /\ IssuedAt[base] \in Chain /\ HeldByOwner(base) \in Nat /\ HeldByUsers(base) \in Nat
        /\ Issued(base) = HeldByOwner(base) + HeldByUsers(base)
    BY <1>3, CashFacts
  <2> QED BY <1>4, <2>1, <2>2
<1>10. SupplyIsSum /\ WithinFund /\ EscrowBacked
  <2>1. MaxFund \in Nat
    BY CordasAmounts
  <2> QED BY <1>4, <1>6, <1>8, <1>9, <2>1 DEF SupplyIsSum, WithinFund, EscrowBacked, Escrow
<1>11. Peg!PegInit
  BY <1>8, <1>9 DEF Peg!PegInit, Peg!Zero
<1> QED BY <1>1, <1>3, <1>5, <1>10, <1>11 DEF CashIInv

\* The invariant of the cash hosts and their channels, for any number of channels,
\* addresses, base denominations and amounts.
THEOREM CashInvariance == CashSpec => [](EstIInv /\ CashIInv)
<1>1. CashInit => EstIInv /\ CashIInv
  BY CashStarts, CashAssumes
<1>2. EstIInv /\ CashIInv /\ [CashNext]_allVars => (EstIInv /\ CashIInv)'
  BY CashStep, CashAssumes
<1> QED BY <1>1, <1>2, PTL DEF CashSpec

\* The transfer module does nothing to channels that the hosts would not do: what
\* is proved of EstablishedSpec holds with it running.
THEOREM CashRunsOnChannels == CashSpec => EstablishedSpec
<1>1. CashInit => EstablishedInit
  BY DEF CashInit
<1>2. [CashNext]_allVars => [Next]_vars
  BY CashNextIsNext, CashAssumes DEF allVars
<1> QED BY <1>1, <1>2, PTL DEF CashSpec, EstablishedSpec

\* Where no bank owner sends cash abroad himself, the cash hosts implement the
\* two-way peg: every transaction moves cash one stage on, or leaves all sums as
\* they are, though no state tells escrow from the owner's own cash.
THEOREM CashIsPeg == OwnersDoNotLock => (CashSpec => ImplementsPeg)
<1>1. CashInit => Peg!PegInit
  BY CashStarts, CashAssumes
<1>2. OwnersDoNotLock /\ EstIInv /\ CashIInv /\ [CashNext]_allVars => [Peg!PegNext]_(Peg!pegVars)
  BY CashStep, CashAssumes DEF PegStep
<1>3. ASSUME OwnersDoNotLock
      PROVE  EstIInv /\ CashIInv /\ [CashNext]_allVars => [Peg!PegNext]_(Peg!pegVars)
  BY <1>2, <1>3
<1>4. ASSUME OwnersDoNotLock
      PROVE  CashSpec => ImplementsPeg
  BY <1>1, <1>3, <1>4, CashInvariance, PTL DEF CashSpec, ImplementsPeg, Peg!PegSpec
<1> QED BY <1>4

\* What is in circulation or on its way is held by the bank owner, beyond what is
\* his own.
LEMMA HolderCovers ==
    ASSUME EstIInv, CashIInv, NEW base \in Bases
    PROVE  LET c == IssuedAt[base]
               out == Outbound(c, base) + Abroad(vouchers, c, base) + Homebound(c, base)
           IN  /\ HeldByOwner(base) - own[base] = out
               /\ out \in Nat /\ own[base] \in Int /\ HeldByOwner(base) \in Nat
               /\ HeldByOwner(base) <= Issued(base) /\ Issued(base) <= MaxFund
               /\ Abroad(vouchers, c, base) <= out
<1>0. CashAssumptions
  BY CashAssumes
<1>1. /\ Issued(base) \in Nat /\ HeldByOwner(base) \in Nat /\ HeldByUsers(base) \in Nat
      /\ own[base] \in Int /\ Issued(base) = HeldByOwner(base) + HeldByUsers(base)
  BY <1>0, CashFacts DEF CashIInv
<1>2. /\ Outbound(IssuedAt[base], base) \in Nat /\ Abroad(vouchers, IssuedAt[base], base) \in Nat
      /\ Homebound(IssuedAt[base], base) \in Nat
  BY <1>0, SumsAreNumbers DEF CashIInv
<1>3. /\ Issued(base) <= MaxFund
      /\ HeldByOwner(base) - own[base] = Outbound(IssuedAt[base], base)
            + Abroad(vouchers, IssuedAt[base], base) + Homebound(IssuedAt[base], base)
  BY DEF CashIInv, WithinFund, EscrowBacked, Escrow
<1> QED BY <1>1, <1>2, <1>3

\* The bank owner can pay out all that may come home, as long as no bank owner
\* sends cash abroad himself and so draws on what he holds for others.
THEOREM CashIsCovered == OwnersDoNotLock => (CashSpec => []Covered)
<1>1. ASSUME OwnersDoNotLock
      PROVE  EstIInv /\ CashIInv => Covered
  <2> SUFFICES ASSUME EstIInv, CashIInv, NEW base \in Bases
               PROVE  HeldByOwner(base) >= Outbound(IssuedAt[base], base)
                         + Abroad(vouchers, IssuedAt[base], base) + Homebound(IssuedAt[base], base)
    BY DEF Covered
  <2>1. own[base] >= 0
    BY <1>1 DEF CashIInv, OwnIsKept
  <2> QED BY <2>1, HolderCovers
<1>2. ASSUME OwnersDoNotLock
      PROVE  CashSpec => []Covered
  BY <1>1, <1>2, CashInvariance, PTL
<1> QED BY <1>2

\* A voucher in circulation is part of what the other host's bank owner holds.
LEMMA VouchersAreBounded ==
    ASSUME EstIInv, CashIInv, OwnIsKept, NEW c \in Chain, NEW denom \in Denom
    PROVE  /\ supply[c][denom] \in 0..MaxFund
           /\ \A o \in Addresses : vouchers[c][denom][o] \in 0..MaxFund
<1> USE DEF CashIInv
<1>0. CashAssumptions /\ TransferAssumptions /\ MaxFund \in Nat
  BY CashAssumes, CordasAmounts
<1>1. /\ Total(vouchers, c, denom) \in Nat
      /\ \A o \in Addresses : vouchers[c][denom][o] \in Nat /\ vouchers[c][denom][o] <= Total(vouchers, c, denom)
      /\ Total(vouchers, c, denom) > 0 => \E o \in Addresses : vouchers[c][denom][o] > 0
      /\ supply[c][denom] = Total(vouchers, c, denom)
  <2>1. /\ vouchers \in Balances /\ NoneInDebt(vouchers)
        /\ \A o \in Addresses : /\ GetOrZero(vouchers[c][denom], o) = vouchers[c][denom][o]
                                  /\ vouchers[c][denom][o] \in Nat
    BY VouchersAreBalances DEF CashTypes
  <2>2. supply[c][denom] = Total(vouchers, c, denom)
    BY DEF SupplyIsSum
  <2>3. /\ Total(vouchers, c, denom) \in Nat
        /\ \A o \in Addresses : vouchers[c][denom][o] <= Total(vouchers, c, denom)
        /\ (\A o \in Addresses : vouchers[c][denom][o] = 0) => Total(vouchers, c, denom) = 0
    BY <1>0, <2>1, TotalFacts
  <2> QED BY <2>1, <2>2, <2>3
<1>2. ASSUME Total(vouchers, c, denom) > 0
      PROVE  Total(vouchers, c, denom) <= MaxFund
  <2> DEFINE h == Other(c)  base == denom.base
  <2>1. PICK o \in Addresses : vouchers[c][denom][o] > 0
    BY <1>1, <1>2
  <2>2. PICK i \in ChanId : HasPrefix(denom, chans[c][i].port, i)
    BY <2>1 DEF VouchersCameIn, MintedAbroad
  <2>3. IssuedAt[base] = h /\ base \in Bases
    BY <2>1, DenomForms DEF VouchersCameIn, MintedAbroad
  <2>4. /\ TypeOK /\ Linked /\ h \in Chain /\ Partner(i) \in ChanId /\ Other(h) = c
    BY <1>0, Counterparts
  <2>5. denom = VoucherOf(h, Partner(i), base)
    BY <1>0, <2>2, <2>4, PrefixIsVoucher
  <2> HIDE DEF h, base
  <2>6. /\ Total(vouchers, c, denom) <= Abroad(vouchers, h, base) /\ Abroad(vouchers, h, base) \in Nat
    <3>1. /\ Abroad(vouchers, h, base) \in Nat
          /\ \A k \in ChanId : Total(vouchers, Other(h), VoucherOf(h, k, base)) <= Abroad(vouchers, h, base)
      BY <1>0, <2>3, <2>4, AbroadFacts, VouchersAreBalances DEF CashTypes
    <3> QED BY <2>4, <2>5, <3>1
  <2>7. own[base] >= 0
    BY <2>3 DEF OwnIsKept
  <2>8. Abroad(vouchers, h, base) <= MaxFund
    <3>1. LET out == Outbound(h, base) + Abroad(vouchers, h, base) + Homebound(h, base)
          IN  /\ HeldByOwner(base) - own[base] = out
              /\ out \in Nat /\ own[base] \in Int /\ HeldByOwner(base) \in Nat
              /\ HeldByOwner(base) <= Issued(base) /\ Issued(base) <= MaxFund
              /\ Abroad(vouchers, h, base) <= out
      BY <2>3, HolderCovers
    <3>2. Issued(base) \in Nat
      BY <1>0, <2>3, CashFacts
    <3> QED BY <1>0, <2>6, <2>7, <3>1, <3>2
  <2> QED BY <1>0, <1>1, <2>6, <2>8
<1> QED BY <1>0, <1>1, <1>2

\* Nobody spends what he has not, and no sum grows beyond what was issued, as long
\* as no bank owner sends cash abroad himself: then what is his own cannot go
\* negative, and every voucher is backed by what he holds.
THEOREM CashTypesHold == OwnersDoNotLock => (CashSpec => []CashTypeOK)
<1>1. ASSUME OwnersDoNotLock
      PROVE  EstIInv /\ CashIInv => CashTypeOK
  <2> SUFFICES ASSUME EstIInv, CashIInv
               PROVE  CashTypeOK
    OBVIOUS
  <2>0. CashAssumptions /\ CashTypes /\ OwnIsKept /\ MaxFund \in Nat
    BY <1>1, CashAssumes, CordasAmounts DEF CashIInv
  <2>1. ASSUME NEW base \in Bases
        PROVE  /\ own[base] \in 0..MaxFund
               /\ \A o \in Addresses : cash[base][o] \in 0..MaxFund
    <3>1. /\ Issued(base) \in Nat
          /\ \A o \in Addresses : cash[base][o] \in Nat /\ cash[base][o] <= Issued(base)
      BY <2>0, CashFacts
    <3>2. LET out == Outbound(IssuedAt[base], base) + Abroad(vouchers, IssuedAt[base], base)
                        + Homebound(IssuedAt[base], base)
          IN  /\ HeldByOwner(base) - own[base] = out
              /\ out \in Nat /\ own[base] \in Int /\ HeldByOwner(base) \in Nat
              /\ HeldByOwner(base) <= Issued(base) /\ Issued(base) <= MaxFund
              /\ Abroad(vouchers, IssuedAt[base], base) <= out
      BY HolderCovers
    <3>3. own[base] >= 0
      BY <2>0 DEF OwnIsKept
    <3> QED BY <2>0, <3>1, <3>2, <3>3
  <2>2. cash \in [Bases -> [Addresses -> 0..MaxFund]] /\ own \in [Bases -> 0..MaxFund]
    BY <2>0, <2>1 DEF CashTypes
  <2>3. /\ \A c \in Chain, denom \in Denom : supply[c][denom] \in 0..MaxFund
        /\ \A c \in Chain, denom \in Denom, o \in Addresses : vouchers[c][denom][o] \in 0..MaxFund
    BY <2>0, VouchersAreBounded
  <2>4. /\ vouchers \in [Chain -> [Denom -> [Addresses -> 0..MaxFund]]]
        /\ supply \in [Chain -> [Denom -> 0..MaxFund]]
    BY <2>0, <2>3 DEF CashTypes, CashVouchers
  <2> QED BY <2>0, <2>2, <2>4 DEF CashTypeOK, CashTypes
<1>2. ASSUME OwnersDoNotLock
      PROVE  CashSpec => []CashTypeOK
  BY <1>1, <1>2, CashInvariance, PTL
<1> QED BY <1>2

\* The supply that CashBank records is what circulates, whoever sends, and what
\* circulates is recorded under its hash.
THEOREM SupplyIsCirculation == CashSpec => []SupplyCirculates
<1>1. EstIInv /\ CashIInv => SupplyCirculates
  <2> SUFFICES ASSUME EstIInv, CashIInv, NEW c \in Chain, NEW denom \in Denom
               PROVE  /\ supply[c][denom] = Total(vouchers, c, denom)
                      /\ supply[c][denom] > 0 => denom \in denoms[c]
    BY DEF SupplyCirculates
  <2>1. /\ TransferAssumptions /\ vouchers \in Balances
        /\ \A o \in Addresses : /\ GetOrZero(vouchers[c][denom], o) = vouchers[c][denom][o]
                                  /\ vouchers[c][denom][o] \in Nat
    BY CashAssumes, VouchersAreBalances DEF CashAssumptions, CashIInv, CashTypes
  <2>2. supply[c][denom] = Total(vouchers, c, denom)
    BY DEF CashIInv, SupplyIsSum
  <2>3. Total(vouchers, c, denom) > 0 => \E o \in Addresses : vouchers[c][denom][o] > 0
    <3>1. (\A o \in Addresses : GetOrZero(vouchers[c][denom], o) = 0) => Total(vouchers, c, denom) = 0
      BY <2>1, TotalFacts
    <3> QED BY <2>1, <3>1
  <2> QED BY <2>2, <2>3 DEF CashIInv, VouchersCameIn, MintedAbroad
<1> QED BY <1>1, CashInvariance, PTL
=============================================================================
