-------------------------- MODULE Ics20Bank_proofs --------------------------
(***************************************************************************)
(* The bank transfer is a two-way peg for any number of channels, owners,  *)
(* denominations and amounts, of any sign: each transaction of a host      *)
(* changes the sums over accounts and packets in one of the six ways       *)
(* TwoWayPeg knows.                                                        *)
(*                                                                         *)
(* For that the invariant must say more than that vouchers are backed: an  *)
(* acknowledgement may be of any packet still held, so it says which       *)
(* denominations packets can carry (FlightIsNamed), and that only vouchers *)
(* sent home are ever refused (RefusedCameHome).  That no account is       *)
(* overdrawn holds as long as nobody sends less than nothing (Solvent).    *)
(***************************************************************************)
EXTENDS Ics20Bank, Ics20Transfer_proofs

BankAssumptions == TransferAssumptions /\ AcksAreResults

\* The assumptions of the modules, under one name.
LEMMA BankAssumes == BankAssumptions
BY TransfersAssume, AcksAreResults DEF BankAssumptions

\* Every account holds an integer, every record is of denominations.
BankTypes ==
    /\ allocated \in Balances /\ locked \in Balances /\ minted \in Balances
    /\ denoms \in [Chain -> SUBSET Denom]

\* Only what is at home has entries among the allocated and the locked.
HeldAtHome ==
    \A c \in Chain, denom \in Denom :
        IsVoucher(denom) => DOMAIN allocated[c][denom] = {} /\ DOMAIN locked[c][denom] = {}

\* Only what came in over a channel of the host has entries among the minted, and
\* it is recorded.
MintedIsRecorded ==
    \A c \in Chain, denom \in Denom :
        DOMAIN minted[c][denom] # {} =>
            /\ denom \in denoms[c]
            /\ \E i \in ChanId : HasPrefix(denom, chans[c][i].port, i)

\* What may leave over a channel is at home, or a recorded voucher that goes back
\* the way it came.
MayLeave(c, i, denom) ==
    \/ ~IsVoucher(denom)
    \/ HasPrefix(denom, chans[c][i].port, i) /\ denom \in denoms[c]

\* Nothing else is in flight.
FlightIsNamed ==
    \A c \in Chain, i \in ChanId, seq \in Seqs :
        packets[c][i][seq] # NoPacket => MayLeave(c, i, packets[c][i][seq].data.denom)

\* Only what goes back the way it came is ever refused.
RefusedCameHome ==
    \A c \in Chain, i \in ChanId, seq \in Seqs :
        /\ packets[c][i][seq] # NoPacket
        /\ acknowledgements[Other(c)][Partner(i)][seq] = [ack |-> "error"]
        => HasPrefix(packets[c][i][seq].data.denom, chans[c][i].port, i)

\* Nobody has sent less than nothing.
NoneSentBelowZero == \A c \in Chain : \A p \in sentLog[c] : p.data.amount >= 0

\* Then nobody's escrow or vouchers are overdrawn; what is spendable is not either
\* if nobody is funded with less than nothing.
Solvent ==
    /\ NoneSentBelowZero => NoneInDebt(locked) /\ NoneInDebt(minted)
    /\ AmountsAreNat => NoneInDebt(allocated)

\* What of a token is in escrow is abroad or on its way.
TokenBacked ==
    \A c \in Chain, base \in Bases :
        Total(locked, c, BaseDenom(base))
           = Outbound(c, base) + Abroad(minted, c, base) + Homebound(c, base)

\* The inductive invariant, beyond that of the established channels.
BankIInv ==
    /\ BankTypes /\ HeldAtHome /\ MintedIsRecorded
    /\ FlightIsNamed /\ RefusedCameHome
    /\ Solvent /\ TokenBacked

(***************************************************************************)
(* Accounts.                                                               *)
(***************************************************************************)

\* No denomination but this one gets or loses entries.
EntriesKept(balances, next, c, denom) ==
    \A d \in Chain, e \in Denom :
        ~(d = c /\ e = denom) => DOMAIN next[d][e] = DOMAIN balances[d][e]

\* The balance of one denomination is replaced.
LEMMA BalanceReplaced ==
    ASSUME NEW balances \in Balances, NEW c \in Chain, NEW denom \in Denom, NEW new \in Balance
    PROVE  LET next == [balances EXCEPT ![c][denom] = new] IN
           /\ next \in Balances
           /\ \A d \in Chain, e \in Denom :
                 next[d][e] = IF d = c /\ e = denom THEN new ELSE balances[d][e]
BY DEF Balances

\* An owner's entry changes by a, and so does his holding; the other ones stay.
LEMMA EntryChanges ==
    ASSUME NEW balances \in Balances, NEW c \in Chain, NEW denom \in Denom, NEW owner \in Addresses,
           NEW a \in Int, NEW new \in Balance,
           \A o \in Addresses : GetOrZero(new, o)
              = GetOrZero(balances[c][denom], o) + (IF o = owner THEN a ELSE 0)
    PROVE  LET next == [balances EXCEPT ![c][denom] = new] IN
           /\ next \in Balances /\ EntriesKept(balances, next, c, denom)
           /\ AccountChange(balances, next, c, denom, owner, a)
<1> DEFINE next == [balances EXCEPT ![c][denom] = new]
<1>1. /\ next \in Balances
      /\ \A d \in Chain, e \in Denom :
            next[d][e] = IF d = c /\ e = denom THEN new ELSE balances[d][e]
  BY BalanceReplaced
<1> HIDE DEF next
<1>2. EntriesKept(balances, next, c, denom)
  BY <1>1 DEF EntriesKept
<1>3. ASSUME NEW d \in Chain, NEW e \in Denom, NEW o \in Addresses
      PROVE  GetOrZero(next[d][e], o) = GetOrZero(balances[d][e], o)
                + (IF d = c /\ e = denom /\ o = owner THEN a ELSE 0)
  <2>1. CASE d = c /\ e = denom
    BY <1>1, <2>1
  <2>2. CASE ~(d = c /\ e = denom)
    <3>1. GetOrZero(balances[d][e], o) \in Int
      BY HoldingIsInt
    <3>2. next[d][e] = balances[d][e]
      BY <1>1, <2>2
    <3> QED BY <2>2, <3>1, <3>2
  <2> QED BY <2>1, <2>2
<1>4. AccountChange(balances, next, c, denom, owner, a)
  BY <1>3 DEF AccountChange
<1> QED BY <1>1, <1>2, <1>4 DEF next

\* Up adds to one account, which it opens if need be.
LEMMA UpFacts ==
    ASSUME NEW balances \in Balances, NEW c \in Chain, NEW denom \in Denom, NEW owner \in Addresses,
           NEW amount \in Int
    PROVE  LET next == Up(balances, c, owner, denom, amount) IN
           /\ next \in Balances /\ EntriesKept(balances, next, c, denom)
           /\ AccountChange(balances, next, c, denom, owner, amount)
<1> DEFINE b == balances[c][denom]
           new == [o \in DOMAIN b \cup {owner} |-> GetOrZero(b, o) + IF o = owner THEN amount ELSE 0]
<1>1. DOMAIN b \subseteq Addresses /\ \A o : GetOrZero(b, o) \in Int
  BY BalanceForms, HoldingIsInt
<1>2. Up(balances, c, owner, denom, amount) = [balances EXCEPT ![c][denom] = new]
  BY DEF Up, Balances
<1> HIDE DEF b
<1>3. \A o \in DOMAIN b \cup {owner} : GetOrZero(b, o) + (IF o = owner THEN amount ELSE 0) \in Int
  BY <1>1
<1>4. new \in Balance
  <2>1. new \in [DOMAIN b \cup {owner} -> Int]
    BY <1>3
  <2>2. DOMAIN b \cup {owner} \in SUBSET Addresses
    BY <1>1
  <2> HIDE DEF new
  <2> QED BY <2>1, <2>2 DEF Balance
<1>5. ASSUME NEW o \in Addresses
      PROVE  GetOrZero(new, o) = GetOrZero(b, o) + (IF o = owner THEN amount ELSE 0)
  <2>1. CASE o \in DOMAIN b \cup {owner}
    BY <2>1 DEF GetOrZero
  <2>2. CASE o \notin DOMAIN b \cup {owner}
    BY <2>2 DEF GetOrZero
  <2> QED BY <2>1, <2>2
<1> HIDE DEF new
<1>6. \A o \in Addresses : GetOrZero(new, o)
         = GetOrZero(balances[c][denom], o) + (IF o = owner THEN amount ELSE 0)
  BY <1>5 DEF b
<1>7. LET next == [balances EXCEPT ![c][denom] = new] IN
         /\ next \in Balances /\ EntriesKept(balances, next, c, denom)
         /\ AccountChange(balances, next, c, denom, owner, amount)
  <2>1. amount \in Int
    OBVIOUS
  <2> QED BY <1>4, <1>6, <2>1, EntryChanges
<1> QED BY <1>2, <1>7

\* Down takes from an account that is there.
LEMMA DownFacts ==
    ASSUME NEW balances \in Balances, NEW c \in Chain, NEW denom \in Denom, NEW owner \in Addresses,
           NEW amount \in Int, owner \in DOMAIN balances[c][denom]
    PROVE  LET next == Down(balances, c, owner, denom, amount) IN
           /\ next \in Balances /\ EntriesKept(balances, next, c, denom)
           /\ AccountChange(balances, next, c, denom, owner, -amount)
<1> DEFINE b == balances[c][denom]
           new == [b EXCEPT ![owner] = b[owner] - amount]
<1>1. DOMAIN b \subseteq Addresses /\ b \in [DOMAIN b -> Int]
  BY BalanceForms
<1>2. Down(balances, c, owner, denom, amount) = [balances EXCEPT ![c][denom] = new]
  BY DEF Down, Balances
<1>3. owner \in DOMAIN b
  OBVIOUS
<1> HIDE DEF b
<1>4. b[owner] \in Int /\ b[owner] - amount \in Int /\ b[owner] - amount = b[owner] + (-amount)
  BY <1>1, <1>3
<1>5. new \in [DOMAIN b -> Int]
  BY <1>1, <1>4
<1>6. new \in Balance
  <2> HIDE DEF new
  <2> QED BY <1>1, <1>5 DEF Balance
<1>7. ASSUME NEW o \in Addresses
      PROVE  GetOrZero(new, o) = GetOrZero(b, o) + (IF o = owner THEN -amount ELSE 0)
  <2>1. CASE o = owner
    BY <1>1, <1>3, <1>4, <1>5, <2>1 DEF GetOrZero
  <2>2. CASE o # owner /\ o \in DOMAIN b
    <3>1. new[o] = b[o] /\ b[o] \in Int
      BY <1>1, <2>2
    <3>2. GetOrZero(new, o) = new[o] /\ GetOrZero(b, o) = b[o]
      BY <1>5, <2>2 DEF GetOrZero
    <3> QED BY <2>2, <3>1, <3>2
  <2>3. CASE o \notin DOMAIN b
    BY <1>3, <1>5, <2>3 DEF GetOrZero
  <2> QED BY <2>1, <2>2, <2>3
<1> HIDE DEF new
<1>8. \A o \in Addresses : GetOrZero(new, o)
         = GetOrZero(balances[c][denom], o) + (IF o = owner THEN -amount ELSE 0)
  BY <1>7 DEF b
<1>9. LET next == [balances EXCEPT ![c][denom] = new] IN
         /\ next \in Balances /\ EntriesKept(balances, next, c, denom)
         /\ AccountChange(balances, next, c, denom, owner, -amount)
  <2>1. -amount \in Int
    OBVIOUS
  <2> QED BY <1>6, <1>8, <2>1, EntryChanges
<1> QED BY <1>2, <1>9

\* Nobody gets into debt if what changes is covered.
LEMMA StaysSolvent ==
    ASSUME NEW balances \in Balances, NEW next \in Balances, NEW c \in Chain, NEW denom \in Denom,
           NEW owner \in Addresses, NEW a \in Int, AccountChange(balances, next, c, denom, owner, a),
           NoneInDebt(balances), a >= 0 \/ GetOrZero(balances[c][denom], owner) + a >= 0
    PROVE  NoneInDebt(next)
<1> SUFFICES ASSUME NEW d \in Chain, NEW e \in Denom, NEW o \in Addresses
             PROVE  GetOrZero(next[d][e], o) >= 0
  BY DEF NoneInDebt
<1>1. GetOrZero(balances[d][e], o) \in Int /\ GetOrZero(balances[d][e], o) >= 0
  BY HoldingIsInt DEF NoneInDebt
<1>2. GetOrZero(next[d][e], o) = GetOrZero(balances[d][e], o)
         + (IF d = c /\ e = denom /\ o = owner THEN a ELSE 0)
  BY DEF AccountChange
<1>3. CASE d = c /\ e = denom /\ o = owner
  BY <1>1, <1>2, <1>3
<1>4. CASE ~(d = c /\ e = denom /\ o = owner)
  BY <1>1, <1>2, <1>4
<1> QED BY <1>3, <1>4

(***************************************************************************)
(* The five totals of a token, and a step that changes those of <<c, base>>*)
(* by the amounts given and those of no other token.                       *)
(***************************************************************************)
Effect(c, base, spent, escrowed, out, abroad, home) ==
    \A d \in Chain, b \in Bases :
        LET change(x) == IF d = c /\ b = base THEN x ELSE 0 IN
        /\ Total(allocated, d, BaseDenom(b))' = Total(allocated, d, BaseDenom(b)) + change(spent)
        /\ Total(locked, d, BaseDenom(b))' = Total(locked, d, BaseDenom(b)) + change(escrowed)
        /\ Outbound(d, b)' = Outbound(d, b) + change(out)
        /\ Abroad(minted, d, b)' = Abroad(minted, d, b) + change(abroad)
        /\ Homebound(d, b)' = Homebound(d, b) + change(home)

\* The totals are integers.
LEMMA TokenTotals ==
    ASSUME BankAssumptions, EstIInv, BankTypes, NEW c \in Chain, NEW base \in Bases
    PROVE  /\ Total(allocated, c, BaseDenom(base)) \in Int
           /\ Total(locked, c, BaseDenom(base)) \in Int
           /\ Outbound(c, base) \in Int
           /\ Abroad(minted, c, base) \in Int
           /\ Homebound(c, base) \in Int
BY TotalFacts, DenomFacts, TotalsAreInt, AbroadFacts DEF BankAssumptions, BankTypes

\* If no amount is negative, nobody sends less than nothing.
LEMMA NatIsSent ==
    ASSUME BankAssumptions, EstIInv, AmountsAreNat
    PROVE  NoneSentBelowZero
<1>1. sentLog \in [Chain -> SUBSET Commitment] /\ TransferAssumptions
  BY EvidenceTypes DEF BankAssumptions, TransferAssumptions, EstIInv, ChanIInv
<1> SUFFICES ASSUME NEW c \in Chain, NEW p \in sentLog[c]
             PROVE  p.data.amount >= 0
  BY DEF NoneSentBelowZero
<1>2. p.data \in Data
  BY <1>1 DEF Commitment
<1>3. p.data.amount \in Nat
  BY <1>1, <1>2, DataFields DEF AmountsAreNat
<1> QED BY <1>3

\* How each part of Effect comes about.
LEMMA AllocatedChange ==
    ASSUME BankAssumptions, BankTypes, BankTypes', NEW c \in Chain, NEW base \in Bases,
           NEW owner \in Addresses, NEW a \in Int,
           AccountChange(allocated, allocated', c, BaseDenom(base), owner, a)
    PROVE  \A d \in Chain, b \in Bases :
              Total(allocated, d, BaseDenom(b))'
                 = Total(allocated, d, BaseDenom(b)) + (IF d = c /\ b = base THEN a ELSE 0)
<1>1. \A b \in Bases : BaseDenom(b) \in Denom /\ (BaseDenom(b) = BaseDenom(base) <=> b = base)
  BY DenomFacts
<1>2. \A d \in Chain, e \in Denom :
         Total(allocated', d, e) = Total(allocated, d, e) + (IF d = c /\ e = BaseDenom(base) THEN a ELSE 0)
  BY <1>1, TotalShifts DEF BankAssumptions, BankTypes
<1> QED BY <1>1, <1>2 DEF Total

\* The same for what is locked: escrow of the base denomination changes by a.
LEMMA LockedChange ==
    ASSUME BankAssumptions, BankTypes, BankTypes', NEW c \in Chain, NEW base \in Bases,
           NEW owner \in Addresses, NEW a \in Int,
           AccountChange(locked, locked', c, BaseDenom(base), owner, a)
    PROVE  \A d \in Chain, b \in Bases :
              Total(locked, d, BaseDenom(b))'
                 = Total(locked, d, BaseDenom(b)) + (IF d = c /\ b = base THEN a ELSE 0)
<1>1. \A b \in Bases : BaseDenom(b) \in Denom /\ (BaseDenom(b) = BaseDenom(base) <=> b = base)
  BY DenomFacts
<1>2. \A d \in Chain, e \in Denom :
         Total(locked', d, e) = Total(locked, d, e) + (IF d = c /\ e = BaseDenom(base) THEN a ELSE 0)
  BY <1>1, TotalShifts DEF BankAssumptions, BankTypes
<1> QED BY <1>1, <1>2 DEF Total

\* The same for what is minted: vouchers abroad of the base denomination change by a.
LEMMA MintedChange ==
    ASSUME BankAssumptions, EstIInv, Rooted, BankTypes, BankTypes', NEW c \in Chain, NEW i \in ChanId,
           NEW base \in Bases, NEW owner \in Addresses, NEW a \in Int,
           AccountChange(minted, minted', Other(c), VoucherOf(c, i, base), owner, a)
    PROVE  \A d \in Chain, b \in Bases :
              Abroad(minted, d, b)' = Abroad(minted, d, b) + (IF d = c /\ b = base THEN a ELSE 0)
<1>1. \A d \in Chain, b \in Bases :
         Abroad(minted', d, b) = Abroad(minted, d, b) + (IF d = c /\ b = base THEN a ELSE 0)
  BY AbroadShifts DEF BankAssumptions, BankTypes
<1>2. \A d \in Chain, b \in Bases : Abroad(minted, d, b)' = Abroad(minted', d, b)
  BY VouchersStay DEF Abroad, OverChannels
<1> QED BY <1>1, <1>2

\* What is left alone keeps its totals.
LEMMA AllocatedStays ==
    ASSUME UNCHANGED allocated
    PROVE  \A d, b : Total(allocated, d, BaseDenom(b))' = Total(allocated, d, BaseDenom(b))
BY DEF Total

\* Accounts that stay as they are leave escrow as it is.
LEMMA LockedStays ==
    ASSUME UNCHANGED locked
    PROVE  \A d, b : Total(locked, d, BaseDenom(b))' = Total(locked, d, BaseDenom(b))
BY DEF Total

\* Accounts and ports that stay as they are leave what is abroad as it is.
LEMMA MintedStays ==
    ASSUME Rooted, UNCHANGED minted
    PROVE  \A d \in Chain : \A b : Abroad(minted, d, b)' = Abroad(minted, d, b)
BY VouchersStay DEF Abroad, OverChannels, Total

\* What an owner has at home stays as it is, unless he is funded.
FundsStay ==
    \A c \in Chain, o \in Addresses, base \in Bases :
        UNCHANGED vars \/ UNCHANGED OwnFunds(c, o, BaseDenom(base))

\* What is locked or unlocked is moved between an owner's own accounts.
LEMMA FundsMove ==
    ASSUME BankTypes, NEW c \in Chain, NEW denom \in Denom, NEW owner \in Addresses,
           NEW a \in Int, NEW b \in Int, a + b = 0,
           AccountChange(allocated, allocated', c, denom, owner, a),
           AccountChange(locked, locked', c, denom, owner, b)
    PROVE  FundsStay
<1> SUFFICES ASSUME NEW d \in Chain, NEW o \in Addresses, NEW base \in Bases
             PROVE  OwnFunds(d, o, BaseDenom(base))' = OwnFunds(d, o, BaseDenom(base))
  BY DEF FundsStay
<1> DEFINE e == BaseDenom(base)  hit == d = c /\ e = denom /\ o = owner
           A == GetOrZero(allocated[d][e], o)  L == GetOrZero(locked[d][e], o)
<1>1. e \in Denom
  BY DenomFacts
<1>2. A \in Int /\ L \in Int
  BY <1>1, HoldingIsInt DEF BankTypes
<1>3. /\ GetOrZero(allocated'[d][e], o) = A + (IF hit THEN a ELSE 0)
      /\ GetOrZero(locked'[d][e], o) = L + (IF hit THEN b ELSE 0)
  BY <1>1 DEF AccountChange
<1>4. /\ OwnFunds(d, o, BaseDenom(base)) = A + L
      /\ OwnFunds(d, o, BaseDenom(base))' = GetOrZero(allocated'[d][e], o) + GetOrZero(locked'[d][e], o)
  BY DEF OwnFunds, GetOrZero
<1> HIDE DEF A, L, e, hit
<1>5. GetOrZero(allocated'[d][e], o) + GetOrZero(locked'[d][e], o) = A + L
  BY <1>2, <1>3
<1> QED BY <1>4, <1>5

\* What is minted or burnt is not among an owner's funds at home.
LEMMA FundsUntouched ==
    ASSUME UNCHANGED <<allocated, locked>>
    PROVE  FundsStay
BY DEF FundsStay, OwnFunds, GetOrZero

(***************************************************************************)
(* The actions, one by one: the accounts keep their types and a token      *)
(* moves one stage on.                                                     *)
(***************************************************************************)
LEMMA FundEffect ==
    ASSUME BankAssumptions, EstIInv, Rooted, BankTypes, NEW c \in Chain, NEW owner \in Addresses,
           NEW base \in Bases, NEW amount \in Amounts, FundAllocate(c, owner, base, amount)
    PROVE  BankTypes' /\ Effect(c, base, amount, 0, 0, 0, 0)
<1>0. TransferAssumptions /\ amount \in Int /\ BaseDenom(base) \in Denom
  BY DenomFacts DEF BankAssumptions, TransferAssumptions, AmountsAreIntegers
<1>1. /\ allocated' = Up(allocated, c, owner, BaseDenom(base), amount)
      /\ UNCHANGED <<vars, locked, minted, denoms>>
  BY DEF FundAllocate
<1>2. BankTypes' /\ AccountChange(allocated, allocated', c, BaseDenom(base), owner, amount)
  BY <1>0, <1>1, UpFacts DEF BankTypes
<1>3. NoShift
  BY <1>0, <1>1, QuietShiftsNothing DEF vars, chanVars, recvVars
<1>4. \A d \in Chain, b \in Bases : Outbound(d, b)' = Outbound(d, b) /\ Homebound(d, b)' = Homebound(d, b)
  BY <1>0, <1>3, TotalsStay
<1>5. \A d \in Chain, b \in Bases : Total(allocated, d, BaseDenom(b))'
         = Total(allocated, d, BaseDenom(b)) + (IF d = c /\ b = base THEN amount ELSE 0)
  BY <1>0, <1>2, AllocatedChange
<1>6. \A d \in Chain, b \in Bases : /\ Total(locked, d, BaseDenom(b))' = Total(locked, d, BaseDenom(b))
                                    /\ Abroad(minted, d, b)' = Abroad(minted, d, b)
  BY <1>1, LockedStays, MintedStays
<1> QED BY <1>2, <1>4, <1>5, <1>6, TokenTotals DEF Effect

\* What the four operations of the bank do to the accounts.
LEMMA LockFacts ==
    ASSUME BankTypes, NEW c \in Chain, NEW owner \in Addresses, NEW denom \in Denom, NEW amount \in Int,
           Lock(c, owner, denom, amount)
    PROVE  /\ BankTypes' /\ UNCHANGED <<minted, denoms>>
           /\ owner \in DOMAIN allocated[c][denom]
           /\ amount <= GetOrZero(allocated[c][denom], owner)
           /\ EntriesKept(allocated, allocated', c, denom) /\ EntriesKept(locked, locked', c, denom)
           /\ AccountChange(allocated, allocated', c, denom, owner, -amount)
           /\ AccountChange(locked, locked', c, denom, owner, amount)
<1>1. /\ owner \in DOMAIN allocated[c][denom] /\ allocated[c][denom][owner] >= amount
      /\ allocated' = Down(allocated, c, owner, denom, amount)
      /\ locked' = Up(locked, c, owner, denom, amount)
      /\ UNCHANGED <<minted, denoms>>
  BY DEF Lock, HasFund
<1>2. /\ allocated' \in Balances /\ EntriesKept(allocated, allocated', c, denom)
      /\ AccountChange(allocated, allocated', c, denom, owner, -amount)
  BY <1>1, DownFacts DEF BankTypes
<1>3. /\ locked' \in Balances /\ EntriesKept(locked, locked', c, denom)
      /\ AccountChange(locked, locked', c, denom, owner, amount)
  BY <1>1, UpFacts DEF BankTypes
<1>4. amount <= GetOrZero(allocated[c][denom], owner)
  BY <1>1, HoldingIsInt DEF BankTypes, GetOrZero
<1> QED BY <1>1, <1>2, <1>3, <1>4 DEF BankTypes

\* unlock takes from the locked account what it gives back to the allocated one,
\* and only if the account is there.
LEMMA UnlockFacts ==
    ASSUME BankTypes, NEW c \in Chain, NEW owner \in Addresses, NEW denom \in Denom, NEW amount \in Int,
           Unlock(c, owner, denom, amount)
    PROVE  /\ BankTypes' /\ UNCHANGED <<minted, denoms>>
           /\ amount <= GetOrZero(locked[c][denom], owner)
           /\ EntriesKept(allocated, allocated', c, denom) /\ EntriesKept(locked, locked', c, denom)
           /\ AccountChange(allocated, allocated', c, denom, owner, amount)
           /\ AccountChange(locked, locked', c, denom, owner, -amount)
<1>1. /\ owner \in DOMAIN locked[c][denom] /\ locked[c][denom][owner] >= amount
      /\ allocated' = Up(allocated, c, owner, denom, amount)
      /\ locked' = Down(locked, c, owner, denom, amount)
      /\ UNCHANGED <<minted, denoms>>
  BY DEF Unlock, HasFund
<1>2. /\ locked' \in Balances /\ EntriesKept(locked, locked', c, denom)
      /\ AccountChange(locked, locked', c, denom, owner, -amount)
  BY <1>1, DownFacts DEF BankTypes
<1>3. /\ allocated' \in Balances /\ EntriesKept(allocated, allocated', c, denom)
      /\ AccountChange(allocated, allocated', c, denom, owner, amount)
  BY <1>1, UpFacts DEF BankTypes
<1>4. amount <= GetOrZero(locked[c][denom], owner)
  BY <1>1, HoldingIsInt DEF BankTypes, GetOrZero
<1> QED BY <1>1, <1>2, <1>3, <1>4 DEF BankTypes

\* burn takes from an account of vouchers that is there.
LEMMA BurnFacts ==
    ASSUME BankTypes, NEW c \in Chain, NEW owner \in Addresses, NEW denom \in Denom, NEW amount \in Int,
           Burn(c, owner, denom, amount)
    PROVE  /\ BankTypes' /\ UNCHANGED <<allocated, locked, denoms>>
           /\ owner \in DOMAIN minted[c][denom]
           /\ amount <= GetOrZero(minted[c][denom], owner)
           /\ EntriesKept(minted, minted', c, denom)
           /\ AccountChange(minted, minted', c, denom, owner, -amount)
<1>1. /\ owner \in DOMAIN minted[c][denom] /\ minted[c][denom][owner] >= amount
      /\ minted' = Down(minted, c, owner, denom, amount)
      /\ UNCHANGED <<allocated, locked, denoms>>
  BY DEF Burn, HasFund
<1>2. /\ minted' \in Balances /\ EntriesKept(minted, minted', c, denom)
      /\ AccountChange(minted, minted', c, denom, owner, -amount)
  BY <1>1, DownFacts DEF BankTypes
<1>3. amount <= GetOrZero(minted[c][denom], owner)
  BY <1>1, HoldingIsInt DEF BankTypes, GetOrZero
<1> QED BY <1>1, <1>2, <1>3 DEF BankTypes

\* mint adds to an account of vouchers; a denomination once recorded stays so.
LEMMA MintFacts ==
    ASSUME BankTypes, NEW c \in Chain, NEW owner \in Addresses, NEW denom \in Denom, NEW amount \in Int,
           Mint(c, owner, denom, amount), UNCHANGED denoms \/ RecordDenom(c, denom)
    PROVE  /\ BankTypes' /\ UNCHANGED <<allocated, locked>>
           /\ EntriesKept(minted, minted', c, denom)
           /\ AccountChange(minted, minted', c, denom, owner, amount)
           /\ \A d \in Chain : denoms[d] \subseteq denoms'[d]
           /\ RecordDenom(c, denom) => denom \in denoms'[c]
<1>1. /\ minted' = Up(minted, c, owner, denom, amount)
      /\ UNCHANGED <<allocated, locked>>
  BY DEF Mint
<1>2. denoms \in [Chain -> SUBSET Denom]
  BY DEF BankTypes
<1>3. /\ denoms' \in [Chain -> SUBSET Denom]
      /\ \A d \in Chain : denoms[d] \subseteq denoms'[d]
      /\ RecordDenom(c, denom) => denom \in denoms'[c]
  BY <1>2 DEF RecordDenom
<1>4. /\ minted' \in Balances /\ EntriesKept(minted, minted', c, denom)
      /\ AccountChange(minted, minted', c, denom, owner, amount)
  BY <1>1, UpFacts DEF BankTypes
<1> QED BY <1>1, <1>3, <1>4 DEF BankTypes

(***************************************************************************)
(* Packets.                                                                *)
(***************************************************************************)

\* The packet that is sent is the data of the message.
LEMMA SentData ==
    ASSUME BankAssumptions, NEW data \in Data
    PROVE  [denom |-> data.denom, amount |-> data.amount, sender |-> data.sender,
            receiver |-> data.receiver] = data
<1>1. data \in FungibleTokenPacketData
  BY DataFields DEF BankAssumptions
<1> QED BY <1>1 DEF FungibleTokenPacketData

\* A token that leaves its home is locked.
LEMMA DepartEffect ==
    ASSUME BankAssumptions, EstIInv, EstIInv', Rooted, BankTypes, HeldAtHome, Solvent,
           NEW c \in Chain, NEW i \in ChanId, NEW data \in Data,
           SendPacket(c, i, data), Lock(c, data.sender, data.denom, data.amount)
    PROVE  /\ ~IsVoucher(data.denom)
           /\ AmountsAreNat => data.amount <= Total(allocated, c, data.denom)
           /\ Effect(c, data.denom.base, -data.amount, data.amount, data.amount, 0, 0)
<1> DEFINE a == data.amount  base == data.denom.base
<1>0. /\ TransferAssumptions /\ TypeOK'
      /\ a \in Int /\ -a \in Int /\ data.sender \in Addresses
      /\ data.denom \in Denom /\ base \in Bases
  BY DataFields, DenomForms DEF BankAssumptions, EstIInv, ChanIInv
<1>1. /\ BankTypes' /\ UNCHANGED <<minted, denoms>>
      /\ data.sender \in DOMAIN allocated[c][data.denom]
      /\ a <= GetOrZero(allocated[c][data.denom], data.sender)
      /\ AccountChange(allocated, allocated', c, data.denom, data.sender, -a)
      /\ AccountChange(locked, locked', c, data.denom, data.sender, a)
  BY <1>0, LockFacts
<1>2. GetOrZero(allocated[c][data.denom], data.sender) \in Int
  BY <1>0, HoldingIsInt DEF BankTypes
<1>3. ~IsVoucher(data.denom) /\ data.denom = BaseDenom(base)
  BY <1>0, <1>1, DenomForms DEF HeldAtHome
<1>4. Shift(c, i, BaseDenom(base), a)
  BY <1>0, <1>3, SendShifts
<1> HIDE DEF a, base
<1>5. OutboundChange(c, base, a) /\ \A d \in Chain, b \in Bases : Homebound(d, b)' = Homebound(d, b)
  BY <1>0, <1>4, OutboundShifts
<1>6. \A d \in Chain, b \in Bases :
         /\ Total(allocated, d, BaseDenom(b))'
               = Total(allocated, d, BaseDenom(b)) + (IF d = c /\ b = base THEN -a ELSE 0)
         /\ Total(locked, d, BaseDenom(b))'
               = Total(locked, d, BaseDenom(b)) + (IF d = c /\ b = base THEN a ELSE 0)
  BY <1>0, <1>1, <1>3, AllocatedChange, LockedChange
<1>7. \A d \in Chain, b \in Bases : Abroad(minted, d, b)' = Abroad(minted, d, b)
  BY <1>1, MintedStays
<1>8. Effect(c, base, -a, a, a, 0, 0)
  BY <1>5, <1>6, <1>7, TokenTotals DEF Effect, OutboundChange
<1>9. ASSUME AmountsAreNat
      PROVE  a <= Total(allocated, c, data.denom)
  <2>1. /\ GetOrZero(allocated[c][data.denom], data.sender) <= Total(allocated, c, data.denom)
        /\ Total(allocated, c, data.denom) \in Nat
    BY <1>0, <1>9, TotalFacts DEF BankTypes, Solvent
  <2> QED BY <1>0, <1>1, <1>2, <2>1
<1> QED BY <1>3, <1>8, <1>9 DEF a, base

\* A voucher that goes home is burnt.
LEMMA ReturnEffect ==
    ASSUME BankAssumptions, EstIInv, EstIInv', Rooted, BankTypes, Solvent,
           NEW c \in Chain, NEW i \in ChanId, NEW data \in Data,
           HasPrefix(data.denom, chans[c][i].port, i),
           SendPacket(c, i, data), Burn(c, data.sender, data.denom, data.amount)
    PROVE  /\ AmountsAreNat => data.amount <= Abroad(minted, Other(c), data.denom.base)
           /\ Effect(Other(c), data.denom.base, 0, 0, 0, -data.amount, data.amount)
<1> DEFINE a == data.amount  base == data.denom.base  h == Other(c)  k == Partner(i)
<1>0. /\ TransferAssumptions /\ TypeOK' /\ TypeOK /\ Linked
      /\ a \in Int /\ -a \in Int /\ data.sender \in Addresses
      /\ data.denom \in Denom /\ base \in Bases
      /\ h \in Chain /\ k \in ChanId /\ Other(h) = c /\ Partner(k) = i
  BY DataFields, DenomForms, Counterparts DEF BankAssumptions, EstIInv, ChanIInv
<1>1. /\ BankTypes' /\ UNCHANGED <<allocated, locked, denoms>>
      /\ a <= GetOrZero(minted[c][data.denom], data.sender)
      /\ AccountChange(minted, minted', c, data.denom, data.sender, -a)
  BY <1>0, BurnFacts
<1>2. GetOrZero(minted[c][data.denom], data.sender) \in Int
  BY <1>0, HoldingIsInt DEF BankTypes
<1>3. data.denom = VoucherOf(h, k, base)
  BY <1>0, PrefixIsVoucher
<1>4. Shift(c, i, data.denom, a)
  BY <1>0, SendShifts
<1> HIDE DEF a, base, h, k
<1>5. HomeboundChange(h, base, a) /\ \A d \in Chain, b \in Bases : Outbound(d, b)' = Outbound(d, b)
  BY <1>0, <1>3, <1>4, HomeboundShifts
<1>6. \A d \in Chain, b \in Bases :
         Abroad(minted, d, b)' = Abroad(minted, d, b) + (IF d = h /\ b = base THEN -a ELSE 0)
  BY <1>0, <1>1, <1>3, MintedChange
<1>7. \A d \in Chain, b \in Bases :
         /\ Total(allocated, d, BaseDenom(b))' = Total(allocated, d, BaseDenom(b))
         /\ Total(locked, d, BaseDenom(b))' = Total(locked, d, BaseDenom(b))
  BY <1>1, AllocatedStays, LockedStays
<1>8. Effect(h, base, 0, 0, 0, -a, a)
  BY <1>5, <1>6, <1>7, TokenTotals DEF Effect, HomeboundChange
<1>9. ASSUME AmountsAreNat
      PROVE  a <= Abroad(minted, h, base)
  <2>0. NoneInDebt(minted) /\ minted \in Balances
    BY <1>9, NatIsSent DEF Solvent, BankTypes
  <2>1. /\ GetOrZero(minted[c][data.denom], data.sender) <= Total(minted, c, data.denom)
        /\ Total(minted, c, data.denom) \in Nat
    BY <1>0, <2>0, TotalFacts
  <2>2. Total(minted, c, data.denom) <= Abroad(minted, h, base) /\ Abroad(minted, h, base) \in Nat
    BY <1>0, <1>3, <2>0, AbroadFacts
  <2> QED BY <1>0, <1>1, <1>2, <2>1, <2>2
<1> QED BY <1>8, <1>9 DEF a, base, h

\* A voucher that comes home is exchanged for what was locked.
LEMMA RedeemEffect ==
    ASSUME BankAssumptions, EstIInv, EstIInv', Rooted, BankTypes,
           NEW c \in Chain, NEW i \in ChanId, NEW seq \in Seqs, NEW data \in Data,
           data.receiver \in Addresses,
           HasPrefix(data.denom, chans[c][i].cpPort, chans[c][i].cpChan),
           RecvPacket(c, i, seq, data, "result"),
           Unlock(c, data.receiver, RemovePrefix(data.denom), data.amount)
    PROVE  /\ RemovePrefix(data.denom) = BaseDenom(data.denom.base)
           /\ AmountsAreNat => data.amount <= Homebound(c, data.denom.base)
           /\ Effect(c, data.denom.base, data.amount, -data.amount, 0, 0, -data.amount)
<1> DEFINE a == data.amount  base == data.denom.base
<1>0. /\ TransferAssumptions /\ TypeOK' /\ TypeOK /\ Linked /\ "result" \in Acks
      /\ a \in Int /\ -a \in Int
      /\ data.denom \in Denom /\ base \in Bases /\ BaseDenom(base) \in Denom
      /\ Other(c) \in Chain /\ Partner(i) \in ChanId
  BY DataFields, DenomForms, DenomFacts, Counterparts
  DEF BankAssumptions, AcksAreResults, EstIInv, ChanIInv
<1>1. data.denom = VoucherOf(c, i, base) /\ RemovePrefix(data.denom) = BaseDenom(base)
  BY <1>0, PrefixIsVoucher
<1>2. /\ BankTypes' /\ UNCHANGED <<minted, denoms>>
      /\ AccountChange(allocated, allocated', c, BaseDenom(base), data.receiver, a)
      /\ AccountChange(locked, locked', c, BaseDenom(base), data.receiver, -a)
  BY <1>0, <1>1, UnlockFacts
<1>3. /\ Shift(Other(c), Partner(i), data.denom, -a)
      /\ AmountsAreNat => a <= OnItsWay(Other(c), Partner(i), data.denom)
  BY <1>0, RecvShifts
<1> HIDE DEF a, base
<1>4. HomeboundChange(c, base, -a) /\ \A d \in Chain, b \in Bases : Outbound(d, b)' = Outbound(d, b)
  BY <1>0, <1>1, <1>3, HomeboundShifts
<1>5. \A d \in Chain, b \in Bases :
         /\ Total(allocated, d, BaseDenom(b))'
               = Total(allocated, d, BaseDenom(b)) + (IF d = c /\ b = base THEN a ELSE 0)
         /\ Total(locked, d, BaseDenom(b))'
               = Total(locked, d, BaseDenom(b)) + (IF d = c /\ b = base THEN -a ELSE 0)
  BY <1>0, <1>2, AllocatedChange, LockedChange
<1>6. \A d \in Chain, b \in Bases : Abroad(minted, d, b)' = Abroad(minted, d, b)
  BY <1>2, MintedStays
<1>7. Effect(c, base, a, -a, 0, 0, -a)
  BY <1>4, <1>5, <1>6, TokenTotals DEF Effect, HomeboundChange
<1>8. ASSUME AmountsAreNat
      PROVE  a <= Homebound(c, base)
  <2>1. OnItsWay(Other(c), Partner(i), data.denom) <= Homebound(c, base)
    BY <1>0, <1>1, <1>8, TotalsCover
  <2>2. OnItsWay(Other(c), Partner(i), data.denom) \in Nat /\ Homebound(c, base) \in Nat
    BY <1>0, <1>8, OnItsWayIsNat, TotalsAreNat
  <2> QED BY <1>0, <1>3, <1>8, <2>1, <2>2
<1> QED BY <1>1, <1>7, <1>8 DEF a, base

\* A token that arrives abroad is minted as a voucher of the channel.
LEMMA ArriveEffect ==
    ASSUME BankAssumptions, EstIInv, EstIInv', Rooted, BankTypes, FlightIsNamed,
           NEW c \in Chain, NEW i \in ChanId, NEW seq \in Seqs, NEW data \in Data,
           data.receiver \in Addresses,
           ~HasPrefix(data.denom, chans[c][i].cpPort, chans[c][i].cpChan),
           RecvPacket(c, i, seq, data, "result"),
           RecordDenom(c, AddPath(data.denom, chans[c][i].port, i)),
           Mint(c, data.receiver, AddPath(data.denom, chans[c][i].port, i), data.amount)
    PROVE  /\ data.denom = BaseDenom(data.denom.base)
           /\ AddPath(data.denom, chans[c][i].port, i) \in Denom
           /\ HasPrefix(AddPath(data.denom, chans[c][i].port, i), chans[c][i].port, i)
           /\ AmountsAreNat => data.amount <= Outbound(Other(c), data.denom.base)
           /\ Effect(Other(c), data.denom.base, 0, 0, -data.amount, data.amount, 0)
<1> DEFINE a == data.amount  base == data.denom.base  h == Other(c)  k == Partner(i)
           voucher == AddPath(data.denom, chans[c][i].port, i)
<1>0. /\ TransferAssumptions /\ TypeOK' /\ TypeOK /\ Linked /\ "result" \in Acks
      /\ a \in Int /\ -a \in Int
      /\ data.denom \in Denom /\ base \in Bases /\ BaseDenom(base) \in Denom
      /\ h \in Chain /\ k \in ChanId /\ Other(h) = c /\ Partner(k) = i
      /\ chans[h][k].cpPort = chans[c][i].port /\ chans[c][i].cpPort = chans[h][k].port
      /\ chans[c][i].cpChan = k
  BY DataFields, DenomForms, DenomFacts, Counterparts
  DEF BankAssumptions, AcksAreResults, EstIInv, ChanIInv, Linked
<1>1. packets[h][k][seq] # NoPacket /\ packets[h][k][seq].data = data
  BY <1>0, HeldByPeer
<1>2. data.denom = BaseDenom(base)
  <2>1. ~IsVoucher(data.denom)
    BY <1>0, <1>1 DEF FlightIsNamed, MayLeave
  <2> QED BY <1>0, <2>1, DenomForms
<1>3. /\ voucher = VoucherOf(h, k, base) /\ voucher \in Denom
      /\ HasPrefix(voucher, chans[c][i].port, i)
  <2>1. voucher = OneHop(chans[c][i].port, i, base)
    BY <1>2, DenomFacts
  <2>2. VoucherOf(h, k, base) = OneHop(chans[c][i].port, i, base) /\ VoucherOf(h, k, base) \in Denom
    BY <1>0, VoucherFacts
  <2> QED BY <2>1, <2>2, DenomFacts
<1>4. /\ BankTypes' /\ UNCHANGED <<allocated, locked>>
      /\ AccountChange(minted, minted', c, voucher, data.receiver, a)
  BY <1>0, <1>3, MintFacts
<1>5. Shift(h, k, data.denom, -a) /\ (AmountsAreNat => a <= OnItsWay(h, k, data.denom))
  BY <1>0, RecvShifts
<1> HIDE DEF a, base, h, k, voucher
<1>6. OutboundChange(h, base, -a) /\ \A d \in Chain, b \in Bases : Homebound(d, b)' = Homebound(d, b)
  BY <1>0, <1>2, <1>5, OutboundShifts
<1>7. \A d \in Chain, b \in Bases :
         Abroad(minted, d, b)' = Abroad(minted, d, b) + (IF d = h /\ b = base THEN a ELSE 0)
  BY <1>0, <1>3, <1>4, MintedChange
<1>8. \A d \in Chain, b \in Bases :
         /\ Total(allocated, d, BaseDenom(b))' = Total(allocated, d, BaseDenom(b))
         /\ Total(locked, d, BaseDenom(b))' = Total(locked, d, BaseDenom(b))
  BY <1>4, AllocatedStays, LockedStays
<1>9. Effect(h, base, 0, 0, -a, a, 0)
  BY <1>6, <1>7, <1>8, TokenTotals DEF Effect, OutboundChange
<1>10. ASSUME AmountsAreNat
      PROVE  a <= Outbound(h, base)
  <2>1. OnItsWay(h, k, data.denom) <= Outbound(h, base)
    BY <1>0, <1>2, <1>10, TotalsCover
  <2>2. OnItsWay(h, k, data.denom) \in Nat /\ Outbound(h, base) \in Nat
    BY <1>0, <1>10, OnItsWayIsNat, TotalsAreNat
  <2> QED BY <1>0, <1>5, <1>10, <2>1, <2>2
<1> QED BY <1>2, <1>3, <1>9, <1>10 DEF a, base, h, voucher

\* A voucher that was refused is minted again.
LEMMA RefundEffect ==
    ASSUME BankAssumptions, EstIInv, EstIInv', Rooted, BankTypes,
           NEW c \in Chain, NEW i \in ChanId, NEW seq \in Seqs, NEW ack \in Acks, ack # "result",
           NEW data \in Data, data = packets[c][i][seq].data,
           HasPrefix(data.denom, chans[c][i].port, i),
           AcknowledgePacket(c, i, seq, ack), Mint(c, data.sender, data.denom, data.amount),
           UNCHANGED denoms
    PROVE  /\ AmountsAreNat => data.amount <= Homebound(Other(c), data.denom.base)
           /\ Effect(Other(c), data.denom.base, 0, 0, 0, data.amount, -data.amount)
<1> DEFINE a == data.amount  base == data.denom.base  h == Other(c)  k == Partner(i)
<1>0. /\ TransferAssumptions /\ TypeOK' /\ TypeOK /\ Linked
      /\ a \in Int /\ -a \in Int /\ data.sender \in Addresses
      /\ data.denom \in Denom /\ base \in Bases
      /\ h \in Chain /\ k \in ChanId /\ Other(h) = c /\ Partner(k) = i
  BY DataFields, DenomForms, Counterparts DEF BankAssumptions, EstIInv, ChanIInv
<1>1. /\ BankTypes' /\ UNCHANGED <<allocated, locked>>
      /\ AccountChange(minted, minted', c, data.denom, data.sender, a)
  BY <1>0, MintFacts
<1>2. data.denom = VoucherOf(h, k, base)
  BY <1>0, PrefixIsVoucher
<1>3. Shift(c, i, data.denom, -a) /\ (AmountsAreNat => a <= OnItsWay(c, i, data.denom))
  BY <1>0, RefundShifts
<1> HIDE DEF a, base, h, k
<1>4. HomeboundChange(h, base, -a) /\ \A d \in Chain, b \in Bases : Outbound(d, b)' = Outbound(d, b)
  BY <1>0, <1>2, <1>3, HomeboundShifts
<1>5. \A d \in Chain, b \in Bases :
         Abroad(minted, d, b)' = Abroad(minted, d, b) + (IF d = h /\ b = base THEN a ELSE 0)
  BY <1>0, <1>1, <1>2, MintedChange
<1>6. \A d \in Chain, b \in Bases :
         /\ Total(allocated, d, BaseDenom(b))' = Total(allocated, d, BaseDenom(b))
         /\ Total(locked, d, BaseDenom(b))' = Total(locked, d, BaseDenom(b))
  BY <1>1, AllocatedStays, LockedStays
<1>7. Effect(h, base, 0, 0, 0, a, -a)
  BY <1>4, <1>5, <1>6, TokenTotals DEF Effect, HomeboundChange
<1>8. ASSUME AmountsAreNat
      PROVE  a <= Homebound(h, base)
  <2>1. OnItsWay(c, i, data.denom) <= Homebound(h, base)
    BY <1>0, <1>2, <1>8, TotalsCover
  <2>2. OnItsWay(c, i, data.denom) \in Nat /\ Homebound(h, base) \in Nat
    BY <1>0, <1>8, OnItsWayIsNat, TotalsAreNat
  <2> QED BY <1>0, <1>3, <1>8, <2>1, <2>2
<1> QED BY <1>7, <1>8 DEF a, base, h

\* The totals of every token stay as they are.
NoEffect ==
    \A d \in Chain, b \in Bases :
        /\ Total(allocated, d, BaseDenom(b))' = Total(allocated, d, BaseDenom(b))
        /\ Total(locked, d, BaseDenom(b))' = Total(locked, d, BaseDenom(b))
        /\ Outbound(d, b)' = Outbound(d, b)
        /\ Abroad(minted, d, b)' = Abroad(minted, d, b)
        /\ Homebound(d, b)' = Homebound(d, b)

\* A step that touches neither a bank nor what is on its way has no effect.
LEMMA IdleEffect ==
    ASSUME BankAssumptions, EstIInv, Rooted, UNCHANGED bankVars, NoShift
    PROVE  NoEffect
<1>1. \A d \in Chain, b \in Bases : Outbound(d, b)' = Outbound(d, b) /\ Homebound(d, b)' = Homebound(d, b)
  BY TotalsStay DEF BankAssumptions
<1>2. UNCHANGED allocated /\ UNCHANGED locked /\ UNCHANGED minted
  BY DEF bankVars
<1> QED BY <1>1, <1>2, AllocatedStays, LockedStays, MintedStays DEF NoEffect

(***************************************************************************)
(* What is held, minted and in flight keeps its shape.                     *)
(***************************************************************************)

\* Operations on a denomination that is at home.
LEMMA HeldKeeps ==
    ASSUME HeldAtHome, NEW c \in Chain, NEW denom \in Denom, ~IsVoucher(denom),
           EntriesKept(allocated, allocated', c, denom),
           EntriesKept(locked, locked', c, denom) \/ UNCHANGED locked
    PROVE  HeldAtHome'
<1>1. ASSUME NEW d \in Chain, NEW e \in Denom, IsVoucher(e)
      PROVE  DOMAIN allocated'[d][e] = {} /\ DOMAIN locked'[d][e] = {}
  <2>1. e # denom
    BY <1>1
  <2>2. DOMAIN allocated[d][e] = {} /\ DOMAIN locked[d][e] = {}
    BY <1>1 DEF HeldAtHome
  <2> QED BY <2>1, <2>2 DEF EntriesKept
<1> QED BY <1>1 DEF HeldAtHome

\* Operations on a voucher of the host that is recorded.
LEMMA MintedKeeps ==
    ASSUME MintedIsRecorded, Rooted, NEW c \in Chain, NEW denom \in Denom,
           EntriesKept(minted, minted', c, denom),
           \A d \in Chain : denoms[d] \subseteq denoms'[d],
           denom \in denoms'[c], NEW i \in ChanId, HasPrefix(denom, chans[c][i].port, i)
    PROVE  MintedIsRecorded'
<1>1. SUFFICES ASSUME NEW d \in Chain, NEW e \in Denom, DOMAIN minted'[d][e] # {}
               PROVE  e \in denoms'[d] /\ \E k \in ChanId : HasPrefix(e, chans'[d][k].port, k)
  BY DEF MintedIsRecorded
<1>2. \A k \in ChanId : chans'[d][k].port = chans[d][k].port
  BY DEF Rooted
<1>3. CASE d = c /\ e = denom
  BY <1>2, <1>3
<1>4. CASE ~(d = c /\ e = denom)
  <2>1. DOMAIN minted[d][e] # {}
    BY <1>1, <1>4 DEF EntriesKept
  <2>2. e \in denoms[d] /\ \E k \in ChanId : HasPrefix(e, chans[d][k].port, k)
    BY <2>1 DEF MintedIsRecorded
  <2> QED BY <1>2, <2>2
<1> QED BY <1>3, <1>4

\* Where no voucher is minted nor record lost, vouchers stay recorded.
LEMMA MintedUntouched ==
    ASSUME MintedIsRecorded, Rooted, UNCHANGED minted, UNCHANGED denoms
    PROVE  MintedIsRecorded'
<1>1. \A d \in Chain, k \in ChanId : chans'[d][k].port = chans[d][k].port
  BY DEF Rooted
<1> QED BY <1>1 DEF MintedIsRecorded

\* No new packet, no new refusal.
LEMMA FlightKeeps ==
    ASSUME Rooted, FlightIsNamed, \A d \in Chain : denoms[d] \subseteq denoms'[d],
           \A d \in Chain, k \in ChanId, s \in Seqs :
              packets'[d][k][s] # NoPacket => packets'[d][k][s] = packets[d][k][s]
    PROVE  FlightIsNamed'
<1>1. \A d \in Chain, k \in ChanId : chans'[d][k].port = chans[d][k].port
  BY DEF Rooted
<1> QED BY <1>1 DEF FlightIsNamed, MayLeave

\* No refusal that was not there before: a step that writes no error and changes
\* no packet in place keeps the refused ones as they are.
LEMMA RefusalsKeep ==
    ASSUME Rooted, RefusedCameHome, \A d \in Chain : Other(d) \in Chain,
           \A k \in ChanId : Partner(k) \in ChanId,
           \A d \in Chain, k \in ChanId, s \in Seqs :
              /\ packets'[d][k][s] # NoPacket => packets'[d][k][s] = packets[d][k][s]
              /\ acknowledgements'[d][k][s] = [ack |-> "error"] =>
                    acknowledgements[d][k][s] = [ack |-> "error"]
    PROVE  RefusedCameHome'
<1>1. \A d \in Chain, k \in ChanId : chans'[d][k].port = chans[d][k].port
  BY DEF Rooted
<1> QED BY <1>1 DEF RefusedCameHome

\* What is sent is at home, or goes back the way it came and is recorded.
LEMMA SendKeeps ==
    ASSUME TransferAssumptions, EstIInv, Rooted, FlightIsNamed, RefusedCameHome,
           NEW c \in Chain, NEW i \in ChanId, NEW data \in Data, SendPacket(c, i, data), UNCHANGED denoms,
           MayLeave(c, i, data.denom)
    PROVE  FlightIsNamed' /\ RefusedCameHome'
<1> DEFINE next == nextSequenceSend[c][i]
<1>0. TypeOK /\ Linked /\ EstAssumptions
  BY Counterparts DEF TransferAssumptions
<1>1. /\ next \in Seqs
      /\ \A d \in Chain, k \in ChanId, s \in Seqs :
            packets'[d][k][s] = IF d = c /\ k = i /\ s = next
               THEN [dst |-> Partner(i), data |-> data] ELSE packets[d][k][s]
      /\ packets'[c][i][next] # NoPacket
      /\ UNCHANGED <<chans, acknowledgements>>
  BY <1>0, SendFacts
<1>2. acknowledgements[Other(c)][Partner(i)][next] = NoAck
  BY <1>1, NextIsFresh
<1>3. NoAck # [ack |-> "error"]
  BY DEF NoAck
<1>4. packets'[c][i][next].data = data
  BY <1>1
<1> HIDE DEF next
<1>5. ASSUME NEW d \in Chain, NEW k \in ChanId, NEW s \in Seqs, ~(d = c /\ k = i /\ s = next)
      PROVE  packets'[d][k][s] = packets[d][k][s]
  BY <1>1, <1>5
<1>6. FlightIsNamed'
  <2> SUFFICES ASSUME NEW d \in Chain, NEW k \in ChanId, NEW s \in Seqs, packets'[d][k][s] # NoPacket
               PROVE  MayLeave(d, k, packets'[d][k][s].data.denom)
    BY <1>1 DEF FlightIsNamed, MayLeave
  <2>1. CASE d = c /\ k = i /\ s = next
    BY <1>4, <2>1
  <2>2. CASE ~(d = c /\ k = i /\ s = next)
    BY <1>5, <2>2 DEF FlightIsNamed
  <2> QED BY <2>1, <2>2
<1>7. RefusedCameHome'
  <2> SUFFICES ASSUME NEW d \in Chain, NEW k \in ChanId, NEW s \in Seqs, packets'[d][k][s] # NoPacket,
                      acknowledgements[Other(d)][Partner(k)][s] = [ack |-> "error"]
               PROVE  HasPrefix(packets'[d][k][s].data.denom, chans[d][k].port, k)
    BY <1>1 DEF RefusedCameHome
  <2>1. CASE d = c /\ k = i /\ s = next
    BY <1>2, <1>3, <2>1
  <2>2. CASE ~(d = c /\ k = i /\ s = next)
    BY <1>5, <2>2 DEF RefusedCameHome
  <2> QED BY <2>1, <2>2
<1> QED BY <1>6, <1>7

\* What is refused came home over this channel.
LEMMA RefuseKeeps ==
    ASSUME TransferAssumptions, EstIInv, Rooted, FlightIsNamed, RefusedCameHome, UNCHANGED denoms,
           NEW c \in Chain, NEW i \in ChanId, NEW seq \in Seqs, NEW data \in Data, "error" \in Acks,
           HasPrefix(data.denom, chans[c][i].cpPort, chans[c][i].cpChan),
           RecvPacket(c, i, seq, data, "error")
    PROVE  FlightIsNamed' /\ RefusedCameHome'
<1> DEFINE h == Other(c)  k == Partner(i)
<1>0. TypeOK /\ Linked /\ h \in Chain /\ k \in ChanId /\ Other(h) = c /\ Partner(k) = i
  BY Counterparts
<1>1. /\ packets[h][k][seq].data = data
      /\ \A d \in Chain, l \in ChanId, s \in Seqs :
            acknowledgements'[d][l][s] = IF d = c /\ l = i /\ s = seq
               THEN [ack |-> "error"] ELSE acknowledgements[d][l][s]
      /\ UNCHANGED <<chans, packets>>
  BY ReceivedIsHeld
<1>2. chans[c][i].cpPort = chans[h][k].port /\ chans[c][i].cpChan = k
  BY <1>0 DEF Linked
<1> HIDE DEF h, k
<1>3. FlightIsNamed'
  BY <1>1, FlightKeeps
<1>4. RefusedCameHome'
  <2> SUFFICES ASSUME NEW d \in Chain, NEW l \in ChanId, NEW s \in Seqs, packets[d][l][s] # NoPacket,
                      acknowledgements'[Other(d)][Partner(l)][s] = [ack |-> "error"]
               PROVE  HasPrefix(packets[d][l][s].data.denom, chans[d][l].port, l)
    BY <1>1 DEF RefusedCameHome
  <2>1. CASE d = h /\ l = k /\ s = seq
    BY <1>1, <1>2, <2>1
  <2>2. CASE ~(d = h /\ l = k /\ s = seq)
    <3>1. Other(d) \in Chain /\ Partner(l) \in ChanId /\ ~(Other(d) = c /\ Partner(l) = i /\ s = seq)
      BY <2>2, Counterparts DEF h, k
    <3>2. acknowledgements'[Other(d)][Partner(l)][s] = acknowledgements[Other(d)][Partner(l)][s]
      BY <1>1, <3>1
    <3> QED BY <3>2 DEF RefusedCameHome
  <2> QED BY <2>1, <2>2
<1> QED BY <1>3, <1>4

\* An answer "result" refuses nothing, and an acknowledgement forgets a packet.
LEMMA ResultKeeps ==
    ASSUME TransferAssumptions, EstIInv, Rooted, FlightIsNamed, RefusedCameHome,
           \A d \in Chain : denoms[d] \subseteq denoms'[d],
           NEW c \in Chain, NEW i \in ChanId, NEW seq \in Seqs, NEW data \in Data, "result" \in Acks,
           RecvPacket(c, i, seq, data, "result")
    PROVE  FlightIsNamed' /\ RefusedCameHome'
<1>1. /\ \A d \in Chain, l \in ChanId, s \in Seqs :
            acknowledgements'[d][l][s] = IF d = c /\ l = i /\ s = seq
               THEN [ack |-> "result"] ELSE acknowledgements[d][l][s]
      /\ UNCHANGED <<chans, packets>>
  BY ReceivedIsHeld
<1>2. [ack |-> "result"] # [ack |-> "error"]
  <2>1. [ack |-> "result"].ack # [ack |-> "error"].ack
    OBVIOUS
  <2> QED BY <2>1
<1>3. \A d \in Chain, l \in ChanId, s \in Seqs :
         acknowledgements'[d][l][s] = [ack |-> "error"] => acknowledgements[d][l][s] = [ack |-> "error"]
  BY <1>1, <1>2
<1> QED BY <1>1, <1>3, FlightKeeps, RefusalsKeep, Counterparts

\* acknowledgePacket forgets a packet: what is still held is what was held.
LEMMA AckKeeps ==
    ASSUME TransferAssumptions, EstIInv, Rooted, FlightIsNamed, RefusedCameHome, UNCHANGED denoms,
           NEW c \in Chain, NEW i \in ChanId, NEW seq \in Seqs, NEW ack \in Acks,
           AcknowledgePacket(c, i, seq, ack)
    PROVE  FlightIsNamed' /\ RefusedCameHome'
<1>1. /\ packets[c][i][seq] # NoPacket
      /\ acknowledgements[Other(c)][Partner(i)][seq] = [ack |-> ack]
      /\ \A d \in Chain, k \in ChanId, s \in Seqs :
            packets'[d][k][s] = IF d = c /\ k = i /\ s = seq THEN NoPacket ELSE packets[d][k][s]
      /\ UNCHANGED <<chans, acknowledgements>>
  BY AckedIsHeld
<1>2. \A d \in Chain, k \in ChanId, s \in Seqs :
         packets'[d][k][s] # NoPacket => packets'[d][k][s] = packets[d][k][s]
  BY <1>1
<1> QED BY <1>1, <1>2, FlightKeeps, RefusalsKeep, Counterparts

(***************************************************************************)
(* What of the signs of amounts is known.                                  *)
(***************************************************************************)

\* A packet that is held was sent.
LEMMA HeldIsNotBelowZero ==
    ASSUME EstIInv, NoneSentBelowZero, NEW c \in Chain, NEW i \in ChanId, NEW seq \in Seqs,
           packets[c][i][seq] # NoPacket
    PROVE  packets[c][i][seq].data.amount >= 0
<1> DEFINE p == [port |-> chans[c][i].port, chan |-> i, seq |-> seq,
                 data |-> packets[c][i][seq].data]
<1>1. p \in sentLog[c]
  BY DEF EstIInv, TransitIInv, HeldIsSent
<1>2. p.data.amount >= 0
  BY <1>1 DEF NoneSentBelowZero
<1> QED BY <1>2

\* What was sent stays sent, so the past of a clean history is clean.
LEMMA SentStays ==
    ASSUME TransferAssumptions, EstIInv, NEW c \in Chain, NEW i \in ChanId, NEW data \in Data,
           SendPacket(c, i, data), NoneSentBelowZero'
    PROVE  NoneSentBelowZero /\ data.amount >= 0
<1> DEFINE new == [port |-> chans[c][i].port, chan |-> i, seq |-> nextSequenceSend[c][i], data |-> data]
<1>1. /\ sentLog'[c] = sentLog[c] \cup {new}
      /\ \A d \in Chain : d # c => sentLog'[d] = sentLog[d]
  <2>1. EstAssumptions /\ TypeOK /\ Linked
    BY Counterparts DEF TransferAssumptions
  <2> DEFINE next == nextSequenceSend[c][i]
  <2>2. /\ sentLog'[c] = sentLog[c] \cup {[port |-> chans[c][i].port, chan |-> i,
                                          seq |-> next, data |-> data]}
        /\ \A d \in Chain : d # c => sentLog'[d] = sentLog[d]
    BY <2>1, SendFacts, ZenonT(30)
  <2> QED BY <2>2
<1>2. new.data.amount >= 0
  <2> HIDE DEF new
  <2> QED BY <1>1 DEF NoneSentBelowZero
<1> HIDE DEF new
<1>3. NoneSentBelowZero
  BY <1>1 DEF NoneSentBelowZero
<1> QED BY <1>2, <1>3 DEF new

\* Locking and sending keep the banks solvent.
LEMMA LockSolvent ==
    ASSUME TransferAssumptions, EstIInv, BankTypes, BankTypes', Solvent,
           NEW c \in Chain, NEW i \in ChanId, NEW data \in Data, SendPacket(c, i, data),
           Lock(c, data.sender, data.denom, data.amount)
    PROVE  Solvent'
<1> DEFINE a == data.amount  o == data.sender  e == data.denom
<1>0. a \in Int /\ -a \in Int /\ o \in Addresses /\ e \in Denom
  BY DataFields
<1>1. /\ UNCHANGED minted /\ a <= GetOrZero(allocated[c][e], o)
      /\ AccountChange(allocated, allocated', c, e, o, -a)
      /\ AccountChange(locked, locked', c, e, o, a)
  BY <1>0, LockFacts
<1>2. GetOrZero(allocated[c][e], o) + -a >= 0
  <2>1. GetOrZero(allocated[c][e], o) \in Int
    BY <1>0, HoldingIsInt DEF BankTypes
  <2> QED BY <1>0, <1>1, <2>1
<1>3. NoneSentBelowZero' => NoneSentBelowZero /\ a >= 0
  BY SentStays
<1> HIDE DEF a, o, e
<1>4. NoneSentBelowZero' => NoneInDebt(locked') /\ NoneInDebt(minted')
  BY <1>0, <1>1, <1>3, StaysSolvent DEF Solvent, BankTypes
<1>5. AmountsAreNat => NoneInDebt(allocated')
  BY <1>0, <1>1, <1>2, StaysSolvent DEF Solvent, BankTypes
<1> QED BY <1>4, <1>5 DEF Solvent, NoneInDebt

\* Burning and sending keep the banks solvent.
LEMMA BurnSolvent ==
    ASSUME TransferAssumptions, EstIInv, BankTypes, BankTypes', Solvent,
           NEW c \in Chain, NEW i \in ChanId, NEW data \in Data, SendPacket(c, i, data),
           Burn(c, data.sender, data.denom, data.amount)
    PROVE  Solvent'
<1> DEFINE a == data.amount  o == data.sender  e == data.denom
<1>0. a \in Int /\ -a \in Int /\ o \in Addresses /\ e \in Denom
  BY DataFields
<1>1. /\ UNCHANGED <<allocated, locked>> /\ a <= GetOrZero(minted[c][e], o)
      /\ AccountChange(minted, minted', c, e, o, -a)
  BY <1>0, BurnFacts
<1>2. GetOrZero(minted[c][e], o) + -a >= 0
  <2>1. GetOrZero(minted[c][e], o) \in Int
    BY <1>0, HoldingIsInt DEF BankTypes
  <2> QED BY <1>0, <1>1, <2>1
<1>3. NoneSentBelowZero' => NoneSentBelowZero
  BY SentStays
<1> HIDE DEF a, o, e
<1>4. NoneSentBelowZero' => NoneInDebt(minted')
  BY <1>0, <1>1, <1>2, <1>3, StaysSolvent DEF Solvent, BankTypes
<1> QED BY <1>1, <1>3, <1>4 DEF Solvent, NoneInDebt

\* Unlocking keeps the banks solvent.
LEMMA UnlockSolvent ==
    ASSUME BankTypes, BankTypes', Solvent, UNCHANGED sentLog,
           NEW c \in Chain, NEW o \in Addresses, NEW e \in Denom, NEW a \in Int,
           AmountsAreNat => a >= 0, Unlock(c, o, e, a)
    PROVE  Solvent'
<1>1. /\ UNCHANGED minted /\ a <= GetOrZero(locked[c][e], o)
      /\ AccountChange(allocated, allocated', c, e, o, a)
      /\ AccountChange(locked, locked', c, e, o, -a)
  BY UnlockFacts
<1>2. -a \in Int /\ GetOrZero(locked[c][e], o) + -a >= 0
  BY <1>1, HoldingIsInt DEF BankTypes
<1>3. NoneSentBelowZero' <=> NoneSentBelowZero
  BY DEF NoneSentBelowZero
<1>4. NoneSentBelowZero' => NoneInDebt(locked') /\ NoneInDebt(minted')
  BY <1>1, <1>2, <1>3, StaysSolvent DEF Solvent, BankTypes
<1>5. AmountsAreNat => NoneInDebt(allocated')
  BY <1>1, StaysSolvent DEF Solvent, BankTypes
<1> QED BY <1>4, <1>5 DEF Solvent, NoneInDebt

\* Minting what was sent keeps the banks solvent.
LEMMA MintSolvent ==
    ASSUME BankTypes, BankTypes', Solvent, UNCHANGED sentLog,
           NEW c \in Chain, NEW o \in Addresses, NEW e \in Denom, NEW a \in Int,
           NoneSentBelowZero => a >= 0, UNCHANGED <<allocated, locked>>,
           AccountChange(minted, minted', c, e, o, a)
    PROVE  Solvent'
<1>1. NoneSentBelowZero' <=> NoneSentBelowZero
  BY DEF NoneSentBelowZero
<1>2. NoneSentBelowZero' => NoneInDebt(minted')
  BY <1>1, StaysSolvent DEF Solvent, BankTypes
<1> QED BY <1>1, <1>2 DEF Solvent, NoneInDebt

(***************************************************************************)
(* What the effect means for the invariant and for the peg.                *)
(***************************************************************************)

\* An effect that is balanced keeps the escrow.
LEMMA EffectKeeps ==
    ASSUME BankAssumptions, EstIInv, BankTypes, TokenBacked,
           NEW c \in Chain, NEW base \in Bases, NEW spent \in Int, NEW escrowed \in Int, NEW out \in Int,
           NEW abroad \in Int, NEW home \in Int, Effect(c, base, spent, escrowed, out, abroad, home),
           escrowed = out + abroad + home
    PROVE  TokenBacked'
<1>1. ASSUME NEW d \in Chain, NEW b \in Bases
      PROVE  Total(locked, d, BaseDenom(b))'
                = Outbound(d, b)' + Abroad(minted, d, b)' + Homebound(d, b)'
  <2> DEFINE L == Total(locked, d, BaseDenom(b))
             O == Outbound(d, b)  V == Abroad(minted, d, b)  H == Homebound(d, b)
  <2>1. L \in Int /\ O \in Int /\ V \in Int /\ H \in Int
    BY TokenTotals
  <2>2. L = O + V + H
    BY DEF TokenBacked
  <2>3. CASE d = c /\ b = base
    <3>1. /\ Total(locked, d, BaseDenom(b))' = L + escrowed
          /\ Outbound(d, b)' = O + out /\ Abroad(minted, d, b)' = V + abroad /\ Homebound(d, b)' = H + home
      BY <2>3 DEF Effect
    <3> HIDE DEF L, O, V, H
    <3>2. L + escrowed = O + out + (V + abroad) + (H + home)
      BY <2>1, <2>2
    <3> QED BY <3>1, <3>2
  <2>4. CASE ~(d = c /\ b = base)
    <3>1. /\ Total(locked, d, BaseDenom(b))' = L + 0
          /\ Outbound(d, b)' = O + 0 /\ Abroad(minted, d, b)' = V + 0 /\ Homebound(d, b)' = H + 0
      BY <2>4 DEF Effect
    <3> HIDE DEF L, O, V, H
    <3> QED BY <2>1, <2>2, <3>1
  <2> QED BY <2>3, <2>4
<1> QED BY <1>1 DEF TokenBacked

\* Sums that do not change stay backed.
LEMMA NoEffectKeeps ==
    ASSUME TokenBacked, NoEffect
    PROVE  TokenBacked'
BY DEF TokenBacked, NoEffect

\* The variables of the peg, as Ics20Bank gives them.
Spendable == [t \in Token |-> Total(allocated, t[1], BaseDenom(t[2]))]
Escrowed == [t \in Token |-> Total(locked, t[1], BaseDenom(t[2]))]
Departed == [t \in Token |-> Outbound(t[1], t[2])]
Circulating == [t \in Token |-> Abroad(minted, t[1], t[2])]
Returning == [t \in Token |-> Homebound(t[1], t[2])]

\* An effect, as the variables of the peg show it.
LEMMA TokensMove ==
    ASSUME BankAssumptions, EstIInv, BankTypes, NEW c \in Chain, NEW base \in Bases,
           NEW spent \in Int, NEW escrowed \in Int, NEW out \in Int, NEW abroad \in Int, NEW home \in Int,
           Effect(c, base, spent, escrowed, out, abroad, home)
    PROVE  LET t == <<c, base>> IN
           /\ t \in Token
           /\ Moves(Spendable, Spendable', t, spent) /\ Moves(Escrowed, Escrowed', t, escrowed)
           /\ Moves(Departed, Departed', t, out)
           /\ Moves(Circulating, Circulating', t, abroad) /\ Moves(Returning, Returning', t, home)
<1> DEFINE t == <<c, base>>
<1>1. t \in Token /\ \A u \in Token : u[1] \in Chain /\ u[2] \in Bases /\ (u = t <=> u[1] = c /\ u[2] = base)
  BY DEF Token
<1>2. /\ Spendable \in [Token -> Int] /\ Escrowed \in [Token -> Int] /\ Departed \in [Token -> Int]
      /\ Circulating \in [Token -> Int] /\ Returning \in [Token -> Int]
  <2>1. \A u \in Token : /\ Total(allocated, u[1], BaseDenom(u[2])) \in Int
                          /\ Total(locked, u[1], BaseDenom(u[2])) \in Int
                          /\ Outbound(u[1], u[2]) \in Int
                          /\ Abroad(minted, u[1], u[2]) \in Int
                          /\ Homebound(u[1], u[2]) \in Int
    BY <1>1, TokenTotals
  <2> QED BY <2>1 DEF Spendable, Escrowed, Departed, Circulating, Returning
<1>3. /\ \A u \in Token : Spendable'[u] = Spendable[u] + (IF u = t THEN spent ELSE 0)
      /\ \A u \in Token : Escrowed'[u] = Escrowed[u] + (IF u = t THEN escrowed ELSE 0)
      /\ \A u \in Token : Departed'[u] = Departed[u] + (IF u = t THEN out ELSE 0)
      /\ \A u \in Token : Circulating'[u] = Circulating[u] + (IF u = t THEN abroad ELSE 0)
      /\ \A u \in Token : Returning'[u] = Returning[u] + (IF u = t THEN home ELSE 0)
  BY <1>1 DEF Effect, Spendable, Escrowed, Departed, Circulating, Returning
<1>4. /\ Spendable' \in [Token -> Int] /\ Escrowed' \in [Token -> Int] /\ Departed' \in [Token -> Int]
      /\ Circulating' \in [Token -> Int] /\ Returning' \in [Token -> Int]
  <2>1. \A u \in Token : /\ Spendable'[u] \in Int /\ Escrowed'[u] \in Int /\ Departed'[u] \in Int
                          /\ Circulating'[u] \in Int /\ Returning'[u] \in Int
    BY <1>2, <1>3
  <2>2. \A u \in Token : /\ Total(allocated', u[1], BaseDenom(u[2])) \in Int
                          /\ Total(locked', u[1], BaseDenom(u[2])) \in Int
                          /\ Outbound(u[1], u[2])' \in Int
                          /\ Abroad(minted, u[1], u[2])' \in Int
                          /\ Homebound(u[1], u[2])' \in Int
    BY <2>1 DEF Spendable, Escrowed, Departed, Circulating, Returning
  <2> QED BY <2>2 DEF Spendable, Escrowed, Departed, Circulating, Returning
<1> HIDE DEF t
<1>5. Moves(Spendable, Spendable', t, spent) /\ Moves(Escrowed, Escrowed', t, escrowed)
  BY <1>1, <1>2, <1>3, <1>4, OneMoves
<1>6. Moves(Departed, Departed', t, out)
  BY <1>1, <1>2, <1>3, <1>4, OneMoves
<1>7. Moves(Circulating, Circulating', t, abroad) /\ Moves(Returning, Returning', t, home)
  BY <1>1, <1>2, <1>3, <1>4, OneMoves
<1> QED BY <1>1, <1>5, <1>6, <1>7 DEF t

PegStep == [Peg!PegNext]_(Peg!pegVars)

\* The stages of the peg, one by one.
LEMMA Funds ==
    ASSUME NEW t \in Token, NEW a \in Amounts,
           Moves(Spendable, Spendable', t, a), Moves(Escrowed, Escrowed', t, 0),
           Moves(Departed, Departed', t, 0),
           Moves(Circulating, Circulating', t, 0), Moves(Returning, Returning', t, 0)
    PROVE  PegStep
<1>1. Peg!Fund(t, a)
  BY DEF Peg!Fund, Peg!Plus, Moves, Spendable, Escrowed, Departed, Circulating, Returning
<1> QED BY <1>1 DEF PegStep, Peg!PegNext

\* Tokens leave: from spendable into escrow and outbound.
LEMMA Departs ==
    ASSUME NEW t \in Token, NEW a \in Amounts, a \in Int, Spendable[t] \in Int, AmountsAreNat => a <= Spendable[t],
           Moves(Spendable, Spendable', t, -a), Moves(Escrowed, Escrowed', t, a),
           Moves(Departed, Departed', t, a),
           Moves(Circulating, Circulating', t, 0), Moves(Returning, Returning', t, 0)
    PROVE  PegStep
<1>1. Spendable' = [Spendable EXCEPT ![t] = Spendable[t] - a] /\ (AmountsAreNat => Spendable[t] >= a)
  BY MovesAway
<1>2. Peg!Depart(t, a)
  BY <1>1 DEF Peg!Depart, Peg!Covers, Peg!NoneNegative, AmountsAreNat, Peg!Plus, Peg!Minus, Moves, Spendable, Escrowed, Departed, Circulating, Returning
<1> QED BY <1>2 DEF PegStep, Peg!PegNext

\* Tokens arrive: from outbound into vouchers.
LEMMA Arrives ==
    ASSUME NEW t \in Token, NEW a \in Amounts, a \in Int, Departed[t] \in Int, AmountsAreNat => a <= Departed[t],
           Moves(Spendable, Spendable', t, 0), Moves(Escrowed, Escrowed', t, 0),
           Moves(Departed, Departed', t, -a),
           Moves(Circulating, Circulating', t, a), Moves(Returning, Returning', t, 0)
    PROVE  PegStep
<1>1. Departed' = [Departed EXCEPT ![t] = Departed[t] - a] /\ (AmountsAreNat => Departed[t] >= a)
  BY MovesAway
<1>2. Peg!Arrive(t, a)
  BY <1>1 DEF Peg!Arrive, Peg!Covers, Peg!NoneNegative, AmountsAreNat, Peg!Plus, Peg!Minus, Moves, Spendable, Escrowed, Departed, Circulating, Returning
<1> QED BY <1>2 DEF PegStep, Peg!PegNext

\* Vouchers are sent home: from vouchers to homebound.
LEMMA Returns ==
    ASSUME NEW t \in Token, NEW a \in Amounts, a \in Int, Circulating[t] \in Int, AmountsAreNat => a <= Circulating[t],
           Moves(Spendable, Spendable', t, 0), Moves(Escrowed, Escrowed', t, 0),
           Moves(Departed, Departed', t, 0),
           Moves(Circulating, Circulating', t, -a), Moves(Returning, Returning', t, a)
    PROVE  PegStep
<1>1. Circulating' = [Circulating EXCEPT ![t] = Circulating[t] - a] /\ (AmountsAreNat => Circulating[t] >= a)
  BY MovesAway
<1>2. Peg!Return(t, a)
  BY <1>1 DEF Peg!Return, Peg!Covers, Peg!NoneNegative, AmountsAreNat, Peg!Plus, Peg!Minus, Moves, Spendable, Escrowed, Departed, Circulating, Returning
<1> QED BY <1>2 DEF PegStep, Peg!PegNext

\* Vouchers come home: homebound tokens, out of escrow, are spendable again.
LEMMA Redeems ==
    ASSUME NEW t \in Token, NEW a \in Amounts, a \in Int, Returning[t] \in Int, AmountsAreNat => a <= Returning[t],
           Escrowed[t] \in Int,
           Moves(Spendable, Spendable', t, a), Moves(Escrowed, Escrowed', t, -a),
           Moves(Departed, Departed', t, 0),
           Moves(Circulating, Circulating', t, 0), Moves(Returning, Returning', t, -a)
    PROVE  PegStep
<1>1. /\ Returning' = [Returning EXCEPT ![t] = Returning[t] - a] /\ (AmountsAreNat => Returning[t] >= a)
      /\ Escrowed' = [Escrowed EXCEPT ![t] = Escrowed[t] - a]
  BY MovesAway
<1>2. Peg!Redeem(t, a)
  BY <1>1 DEF Peg!Redeem, Peg!Covers, Peg!NoneNegative, AmountsAreNat, Peg!Plus, Peg!Minus, Moves, Spendable, Escrowed, Departed, Circulating, Returning
<1> QED BY <1>2 DEF PegStep, Peg!PegNext

\* Vouchers refused at home are minted again.
LEMMA Refunds ==
    ASSUME NEW t \in Token, NEW a \in Amounts, a \in Int, Returning[t] \in Int, AmountsAreNat => a <= Returning[t],
           Moves(Spendable, Spendable', t, 0), Moves(Escrowed, Escrowed', t, 0),
           Moves(Departed, Departed', t, 0),
           Moves(Circulating, Circulating', t, a), Moves(Returning, Returning', t, -a)
    PROVE  PegStep
<1>1. Returning' = [Returning EXCEPT ![t] = Returning[t] - a] /\ (AmountsAreNat => Returning[t] >= a)
  BY MovesAway
<1>2. Peg!Refund(t, a)
  BY <1>1 DEF Peg!Refund, Peg!Covers, Peg!NoneNegative, AmountsAreNat, Peg!Plus, Peg!Minus, Moves, Spendable, Escrowed, Departed, Circulating, Returning
<1> QED BY <1>2 DEF PegStep, Peg!PegNext

\* Sums that do not change are a stutter of the peg.
LEMMA Stands ==
    ASSUME NoEffect
    PROVE  PegStep
<1>1. \A u \in Token : u[1] \in Chain /\ u[2] \in Bases
  BY DEF Token
<1>2. UNCHANGED Peg!pegVars
  BY <1>1 DEF NoEffect, Peg!pegVars
<1> QED BY <1>2 DEF PegStep

\* What the variables of the peg hold for one token.
LEMMA AtToken ==
    ASSUME BankAssumptions, EstIInv, BankTypes, NEW c \in Chain, NEW base \in Bases
    PROVE  /\ <<c, base>> \in Token
           /\ Spendable[<<c, base>>] = Total(allocated, c, BaseDenom(base))
           /\ Escrowed[<<c, base>>] = Total(locked, c, BaseDenom(base))
           /\ Departed[<<c, base>>] = Outbound(c, base)
           /\ Circulating[<<c, base>>] = Abroad(minted, c, base)
           /\ Returning[<<c, base>>] = Homebound(c, base)
           /\ Spendable[<<c, base>>] \in Int /\ Escrowed[<<c, base>>] \in Int
           /\ Departed[<<c, base>>] \in Int /\ Circulating[<<c, base>>] \in Int
           /\ Returning[<<c, base>>] \in Int
<1>1. <<c, base>> \in Token
  BY DEF Token
<1>2. /\ Spendable[<<c, base>>] = Total(allocated, c, BaseDenom(base))
      /\ Escrowed[<<c, base>>] = Total(locked, c, BaseDenom(base))
      /\ Departed[<<c, base>>] = Outbound(c, base)
      /\ Circulating[<<c, base>>] = Abroad(minted, c, base)
      /\ Returning[<<c, base>>] = Homebound(c, base)
  BY <1>1 DEF Spendable, Escrowed, Departed, Circulating, Returning
<1> QED BY <1>1, <1>2, TokenTotals

\* The six effects there are keep the invariant and are steps of the peg.
Settled == TokenBacked' /\ PegStep

\* Whatever a handler does to the sums is one of the transitions of TwoWayPeg and
\* keeps the tokens backed: funding, sending, receiving, sending home, redeeming,
\* refunding vouchers.
LEMMA StagesSettle ==
    ASSUME BankAssumptions, EstIInv, BankTypes, TokenBacked,
           NEW c \in Chain, NEW base \in Bases, NEW a \in Amounts
    PROVE  /\ Effect(c, base, a, 0, 0, 0, 0) => Settled
           /\ Effect(c, base, -a, a, a, 0, 0) /\ (AmountsAreNat => a <= Total(allocated, c, BaseDenom(base))) => Settled
           /\ Effect(c, base, 0, 0, -a, a, 0) /\ (AmountsAreNat => a <= Outbound(c, base)) => Settled
           /\ Effect(c, base, 0, 0, 0, -a, a) /\ (AmountsAreNat => a <= Abroad(minted, c, base)) => Settled
           /\ Effect(c, base, a, -a, 0, 0, -a) /\ (AmountsAreNat => a <= Homebound(c, base)) => Settled
           /\ Effect(c, base, 0, 0, 0, a, -a) /\ (AmountsAreNat => a <= Homebound(c, base)) => Settled
<1> DEFINE t == <<c, base>>
           A == Total(allocated, c, BaseDenom(base))  L == Total(locked, c, BaseDenom(base))
<1>0. a \in Int /\ -a \in Int /\ 0 \in Int
  BY DEF BankAssumptions, TransferAssumptions, AmountsAreIntegers
<1>1. /\ t \in Token /\ Spendable[t] = A /\ Escrowed[t] = L
      /\ Departed[t] = Outbound(c, base) /\ Circulating[t] = Abroad(minted, c, base)
      /\ Returning[t] = Homebound(c, base)
      /\ Spendable[t] \in Int /\ Escrowed[t] \in Int /\ Departed[t] \in Int
      /\ Circulating[t] \in Int /\ Returning[t] \in Int
  BY AtToken
<1>2. /\ a = a + 0 + 0 /\ 0 = -a + a + 0 /\ 0 = 0 + -a + a /\ -a = 0 + 0 + -a /\ 0 = 0 + a + -a
      /\ 0 = 0 + 0 + 0
  BY <1>0
<1>3. ASSUME Effect(c, base, a, 0, 0, 0, 0)
      PROVE  Settled
  <2>1. TokenBacked'
    BY <1>0, <1>2, <1>3, EffectKeeps
  <2>2. PegStep
    BY <1>0, <1>1, <1>3, TokensMove, Funds
  <2> QED BY <2>1, <2>2 DEF Settled
<1>4. ASSUME Effect(c, base, -a, a, a, 0, 0), AmountsAreNat => a <= A
      PROVE  Settled
  <2>1. TokenBacked'
    BY <1>0, <1>2, <1>4, EffectKeeps
  <2>2. PegStep
    BY <1>0, <1>1, <1>4, TokensMove, Departs
  <2> QED BY <2>1, <2>2 DEF Settled
<1>5. ASSUME Effect(c, base, 0, 0, -a, a, 0), AmountsAreNat => a <= Outbound(c, base)
      PROVE  Settled
  <2>1. TokenBacked'
    BY <1>0, <1>2, <1>5, EffectKeeps
  <2>2. PegStep
    BY <1>0, <1>1, <1>5, TokensMove, Arrives
  <2> QED BY <2>1, <2>2 DEF Settled
<1>6. ASSUME Effect(c, base, 0, 0, 0, -a, a), AmountsAreNat => a <= Abroad(minted, c, base)
      PROVE  Settled
  <2>1. TokenBacked'
    BY <1>0, <1>2, <1>6, EffectKeeps
  <2>2. PegStep
    BY <1>0, <1>1, <1>6, TokensMove, Returns
  <2> QED BY <2>1, <2>2 DEF Settled
<1>7. ASSUME Effect(c, base, a, -a, 0, 0, -a), AmountsAreNat => a <= Homebound(c, base)
      PROVE  Settled
  <2>1. TokenBacked'
    BY <1>0, <1>2, <1>7, EffectKeeps
  <2>2. PegStep
    BY <1>0, <1>1, <1>7, TokensMove, Redeems
  <2> QED BY <2>1, <2>2 DEF Settled
<1>8. ASSUME Effect(c, base, 0, 0, 0, a, -a), AmountsAreNat => a <= Homebound(c, base)
      PROVE  Settled
  <2>1. TokenBacked'
    BY <1>0, <1>2, <1>8, EffectKeeps
  <2>2. PegStep
    BY <1>0, <1>1, <1>8, TokensMove, Refunds
  <2> QED BY <2>1, <2>2 DEF Settled
<1> QED BY <1>3, <1>4, <1>5, <1>6, <1>7, <1>8

\* Where no total changes, the peg stands still.
LEMMA IdleSettles ==
    ASSUME TokenBacked, NoEffect
    PROVE  Settled
BY NoEffectKeeps, Stands DEF Settled

(***************************************************************************)
(* The steps of the specification.                                         *)
(***************************************************************************)

\* What every step gives: the invariant, a step of the peg, and nobody's funds.
BankStepGives == BankIInv' /\ PegStep /\ FundsStay

\* Where no account and no record of what was sent changes, nobody gets into debt.
LEMMA IdleSolvent ==
    ASSUME Solvent, UNCHANGED <<allocated, locked, minted, sentLog>>
    PROVE  Solvent'
BY DEF Solvent, NoneInDebt, NoneSentBelowZero

\* FundAllocate spends on nobody: only what is allocated at home grows.
LEMMA FundStep ==
    ASSUME BankAssumptions, EstIInv, Rooted, BankIInv, NEW c \in Chain, NEW owner \in Addresses,
           NEW base \in Bases, NEW amount \in Amounts, FundAllocate(c, owner, base, amount)
    PROVE  BankStepGives
<1> DEFINE denom == BaseDenom(base)
<1>0. /\ amount \in Int /\ (AmountsAreNat => amount >= 0)
      /\ denom \in Denom /\ ~IsVoucher(denom)
  BY DenomFacts DEF BankAssumptions, TransferAssumptions, AmountsAreIntegers, AmountsAreNat
<1>1. /\ allocated' = Up(allocated, c, owner, denom, amount)
      /\ UNCHANGED <<vars, locked, minted, denoms>>
  BY DEF FundAllocate
<1>2. UNCHANGED <<packets, acknowledgements, sentLog>>
  BY <1>1 DEF vars, chanVars, recvVars, packetLogs
<1>3. BankTypes' /\ Effect(c, base, amount, 0, 0, 0, 0)
  BY FundEffect DEF BankIInv
<1>4. /\ EntriesKept(allocated, allocated', c, denom)
      /\ AccountChange(allocated, allocated', c, denom, owner, amount)
  BY <1>0, <1>1, UpFacts DEF BankIInv, BankTypes
<1>5. HeldAtHome'
  BY <1>0, <1>1, <1>4, HeldKeeps DEF BankIInv
<1>6. MintedIsRecorded'
  BY <1>1, MintedUntouched DEF BankIInv
<1>7. FlightIsNamed' /\ RefusedCameHome'
  BY <1>1, <1>2, FlightKeeps, RefusalsKeep, Counterparts DEF BankIInv, BankAssumptions
<1>8. Settled
  BY <1>3, StagesSettle DEF BankIInv
<1>9. Solvent'
  <2>1. NoneSentBelowZero' <=> NoneSentBelowZero
    BY <1>2 DEF NoneSentBelowZero
  <2>2. AmountsAreNat => NoneInDebt(allocated')
    BY <1>0, <1>3, <1>4, StaysSolvent DEF BankIInv, BankTypes, Solvent
  <2> QED BY <1>1, <2>1, <2>2 DEF BankIInv, Solvent, NoneInDebt
<1>10. FundsStay
  BY <1>1 DEF FundsStay
<1> QED BY <1>3, <1>5, <1>6, <1>7, <1>8, <1>9, <1>10 DEF BankStepGives, BankIInv, Settled

\* createOutgoingPacket locks what is at home and burns vouchers, then sends.
LEMMA OutgoingStep ==
    ASSUME BankAssumptions, EstIInv, EstIInv', Rooted, BankIInv, NEW c \in Chain, NEW i \in ChanId,
           NEW data \in Data,
           CreateOutgoingPacket(c, i, data.denom, data.amount, data.sender, data.receiver)
    PROVE  BankStepGives
<1> DEFINE a == data.amount  base == data.denom.base
<1>0. /\ TransferAssumptions
      /\ a \in Amounts /\ a \in Int /\ -a \in Int /\ data.sender \in Addresses
      /\ data.denom \in Denom /\ base \in Bases /\ Other(c) \in Chain
  BY DataFields, DenomForms, Counterparts DEF BankAssumptions
<1>1. SendPacket(c, i, data)
  BY SentData DEF CreateOutgoingPacket
<1>2. CASE ~HasPrefix(data.denom, chans[c][i].port, i) /\ Lock(c, data.sender, data.denom, a)
  <2>1. /\ ~IsVoucher(data.denom) /\ (AmountsAreNat => a <= Total(allocated, c, data.denom))
        /\ Effect(c, base, -a, a, a, 0, 0)
    BY <1>1, <1>2, DepartEffect DEF BankIInv
  <2>2. /\ BankTypes' /\ UNCHANGED <<minted, denoms>>
        /\ EntriesKept(allocated, allocated', c, data.denom)
        /\ EntriesKept(locked, locked', c, data.denom)
        /\ AccountChange(allocated, allocated', c, data.denom, data.sender, -a)
        /\ AccountChange(locked, locked', c, data.denom, data.sender, a)
    BY <1>0, <1>2, LockFacts DEF BankIInv
  <2>3. HeldAtHome'
    BY <1>0, <2>1, <2>2, HeldKeeps DEF BankIInv
  <2>4. MintedIsRecorded'
    BY <2>2, MintedUntouched DEF BankIInv
  <2>5. FlightIsNamed' /\ RefusedCameHome'
    <3>1. UNCHANGED denoms /\ MayLeave(c, i, data.denom)
      BY <2>1, <2>2 DEF MayLeave
    <3> QED BY <1>0, <1>1, <3>1, SendKeeps DEF BankIInv
  <2>6. data.denom = BaseDenom(base)
    BY <1>0, <2>1, DenomForms
  <2>7. Settled
    BY <1>0, <2>1, <2>6, StagesSettle DEF BankIInv
  <2>8. Solvent'
    BY <1>0, <1>1, <1>2, <2>2, LockSolvent DEF BankIInv
  <2>9. FundsStay
    BY <1>0, <2>2, FundsMove DEF BankIInv
  <2> QED BY <2>2, <2>3, <2>4, <2>5, <2>7, <2>8, <2>9 DEF BankStepGives, BankIInv, Settled
<1>3. CASE HasPrefix(data.denom, chans[c][i].port, i) /\ Burn(c, data.sender, data.denom, a)
  <2>1. (AmountsAreNat => a <= Abroad(minted, Other(c), base)) /\ Effect(Other(c), base, 0, 0, 0, -a, a)
    BY <1>1, <1>3, ReturnEffect DEF BankIInv
  <2>2. /\ BankTypes' /\ UNCHANGED <<allocated, locked, denoms>>
        /\ data.sender \in DOMAIN minted[c][data.denom]
        /\ EntriesKept(minted, minted', c, data.denom)
        /\ AccountChange(minted, minted', c, data.denom, data.sender, -a)
    BY <1>0, <1>3, BurnFacts DEF BankIInv
  <2>3. data.denom \in denoms[c]
    BY <1>0, <2>2 DEF BankIInv, MintedIsRecorded
  <2>4. HeldAtHome'
    BY <2>2 DEF BankIInv, HeldAtHome
  <2>5. MintedIsRecorded'
    BY <1>0, <1>3, <2>2, <2>3, MintedKeeps DEF BankIInv
  <2>6. FlightIsNamed' /\ RefusedCameHome'
    BY <1>0, <1>1, <1>3, <2>2, <2>3, SendKeeps DEF BankIInv, MayLeave
  <2>7. Settled
    BY <1>0, <2>1, StagesSettle DEF BankIInv
  <2>8. Solvent'
    BY <1>0, <1>1, <1>3, <2>2, BurnSolvent DEF BankIInv
  <2>9. FundsStay
    BY <2>2, FundsUntouched
  <2> QED BY <2>2, <2>4, <2>5, <2>6, <2>7, <2>8, <2>9 DEF BankStepGives, BankIInv, Settled
<1> QED BY <1>2, <1>3 DEF CreateOutgoingPacket

\* onRecvPacket mints what comes in, unlocks what comes home, or refuses both.
LEMMA PacketRecvStep ==
    ASSUME BankAssumptions, EstIInv, EstIInv', Rooted, BankIInv, NEW c \in Chain, NEW i \in ChanId,
           NEW seq \in Seqs, NEW data \in Data, HandlePacketRecv(c, i, seq, data)
    PROVE  BankStepGives
<1> DEFINE a == data.amount  base == data.denom.base
           home == RemovePrefix(data.denom)  voucher == AddPath(data.denom, chans[c][i].port, i)
<1>0. /\ TransferAssumptions /\ data.receiver \in Addresses /\ "result" \in Acks /\ "error" \in Acks
      /\ "error" # "result"
      /\ a \in Amounts /\ a \in Int /\ -a \in Int
      /\ data.denom \in Denom /\ base \in Bases /\ BaseDenom(base) \in Denom /\ ~IsVoucher(BaseDenom(base))
      /\ Other(c) \in Chain
  BY DataFields, DenomForms, DenomFacts, Counterparts DEF BankAssumptions, AcksAreResults, HandlePacketRecv
<1>1. /\ UNCHANGED sentLog /\ (NoneSentBelowZero => a >= 0) /\ (AmountsAreNat => a >= 0)
  <2>1. PICK ack \in Acks : RecvPacket(c, i, seq, data, ack)
    BY <1>0 DEF HandlePacketRecv
  <2>2. UNCHANGED sentLog
    BY <2>1 DEF RecvPacket
  <2>3. /\ packets[Other(c)][Partner(i)][seq] # NoPacket /\ Partner(i) \in ChanId
        /\ packets[Other(c)][Partner(i)][seq].data = data
    BY <1>0, <2>1, HeldByPeer, Counterparts
  <2>4. NoneSentBelowZero => a >= 0
    BY <1>0, <2>3, HeldIsNotBelowZero
  <2> QED BY <2>2, <2>4, NatIsSent
<1>2. CASE /\ HasPrefix(data.denom, chans[c][i].cpPort, chans[c][i].cpChan)
           /\ RecvPacket(c, i, seq, data, "result") /\ Unlock(c, data.receiver, home, a)
  <2>1. /\ home = BaseDenom(base) /\ (AmountsAreNat => a <= Homebound(c, base))
        /\ Effect(c, base, a, -a, 0, 0, -a)
    BY <1>0, <1>2, RedeemEffect DEF BankIInv
  <2>2. /\ BankTypes' /\ UNCHANGED <<minted, denoms>>
        /\ EntriesKept(allocated, allocated', c, BaseDenom(base))
        /\ EntriesKept(locked, locked', c, BaseDenom(base))
        /\ AccountChange(allocated, allocated', c, BaseDenom(base), data.receiver, a)
        /\ AccountChange(locked, locked', c, BaseDenom(base), data.receiver, -a)
    BY <1>0, <1>2, <2>1, UnlockFacts DEF BankIInv
  <2>3. HeldAtHome'
    BY <1>0, <2>2, HeldKeeps DEF BankIInv
  <2>4. MintedIsRecorded'
    BY <2>2, MintedUntouched DEF BankIInv
  <2>5. FlightIsNamed' /\ RefusedCameHome'
    BY <1>0, <1>2, <2>2, ResultKeeps DEF BankIInv
  <2>6. Settled
    BY <1>0, <2>1, StagesSettle DEF BankIInv
  <2>7. Solvent'
    BY <1>0, <1>2, <1>1, <2>1, <2>2, UnlockSolvent DEF BankIInv
  <2>8. FundsStay
    BY <1>0, <2>2, FundsMove DEF BankIInv
  <2> QED BY <2>2, <2>3, <2>4, <2>5, <2>6, <2>7, <2>8 DEF BankStepGives, BankIInv, Settled
<1>3. CASE /\ HasPrefix(data.denom, chans[c][i].cpPort, chans[c][i].cpChan)
           /\ RecvPacket(c, i, seq, data, "error") /\ UNCHANGED bankVars
  <2>1. UNCHANGED <<allocated, locked, minted, denoms>>
    BY <1>3 DEF bankVars
  <2>2. NoShift
    BY <1>0, <1>3, RefusalShiftsNothing
  <2>3. Settled
    BY <1>3, <2>2, IdleEffect, IdleSettles DEF BankIInv
  <2>4. FlightIsNamed' /\ RefusedCameHome'
    BY <1>0, <1>3, <2>1, RefuseKeeps DEF BankIInv
  <2>5. BankTypes' /\ HeldAtHome'
    BY <2>1 DEF BankIInv, BankTypes, HeldAtHome
  <2>6. MintedIsRecorded'
    BY <2>1, MintedUntouched DEF BankIInv
  <2>7. Solvent' /\ FundsStay
    BY <1>1, <2>1, IdleSolvent, FundsUntouched DEF BankIInv
  <2> QED BY <2>3, <2>4, <2>5, <2>6, <2>7 DEF BankStepGives, BankIInv, Settled
<1>4. CASE /\ ~HasPrefix(data.denom, chans[c][i].cpPort, chans[c][i].cpChan)
           /\ RecvPacket(c, i, seq, data, "result")
           /\ RecordDenom(c, voucher) /\ Mint(c, data.receiver, voucher, a)
  <2>1. /\ voucher \in Denom /\ HasPrefix(voucher, chans[c][i].port, i)
        /\ (AmountsAreNat => a <= Outbound(Other(c), base))
        /\ Effect(Other(c), base, 0, 0, -a, a, 0)
    BY <1>0, <1>4, ArriveEffect DEF BankIInv
  <2>2. /\ BankTypes' /\ UNCHANGED <<allocated, locked>>
        /\ EntriesKept(minted, minted', c, voucher)
        /\ AccountChange(minted, minted', c, voucher, data.receiver, a)
        /\ \A d \in Chain : denoms[d] \subseteq denoms'[d]
        /\ voucher \in denoms'[c]
    BY <1>0, <1>4, <2>1, MintFacts DEF BankIInv
  <2>3. HeldAtHome'
    BY <2>2 DEF BankIInv, HeldAtHome
  <2> HIDE DEF voucher
  <2>4. MintedIsRecorded'
    BY <1>0, <2>1, <2>2, MintedKeeps DEF BankIInv
  <2>5. FlightIsNamed' /\ RefusedCameHome'
    BY <1>0, <1>4, <2>2, ResultKeeps DEF BankIInv
  <2>6. Settled
    BY <1>0, <2>1, StagesSettle DEF BankIInv
  <2>7. Solvent'
    BY <1>0, <1>1, <2>1, <2>2, MintSolvent DEF BankIInv
  <2>8. FundsStay
    BY <2>2, FundsUntouched
  <2> QED BY <2>2, <2>3, <2>4, <2>5, <2>6, <2>7, <2>8 DEF BankStepGives, BankIInv, Settled
<1> QED BY <1>2, <1>3, <1>4 DEF HandlePacketRecv

\* onAcknowledgePacket refunds what was refused, and does nothing otherwise.
LEMMA PacketAckStep ==
    ASSUME BankAssumptions, EstIInv, EstIInv', Rooted, BankIInv, NEW c \in Chain, NEW i \in ChanId,
           NEW seq \in Seqs, NEW ack \in Acks, HandlePacketAcknowledgement(c, i, seq, ack)
    PROVE  BankStepGives
<1> DEFINE data == packets[c][i][seq].data  a == data.amount  base == data.denom.base
<1>1. AcknowledgePacket(c, i, seq, ack)
  BY DEF HandlePacketAcknowledgement
<1>2. packets[c][i][seq] # NoPacket /\ acknowledgements[Other(c)][Partner(i)][seq] = [ack |-> ack]
      /\ (\A d \in Chain, k \in ChanId, s \in Seqs :
            packets'[d][k][s] = IF d = c /\ k = i /\ s = seq THEN NoPacket ELSE packets[d][k][s])
      /\ UNCHANGED <<chans, acknowledgements>>
  BY <1>1, AckedIsHeld DEF BankAssumptions
<1>3. /\ TransferAssumptions /\ TypeOK /\ "result" \in Acks /\ Other(c) \in Chain
  BY Counterparts DEF BankAssumptions, AcksAreResults
<1>4. data \in Data
  BY <1>2, <1>3, HeldData
<1>5. /\ a \in Amounts /\ a \in Int /\ -a \in Int /\ data.sender \in Addresses
      /\ data.denom \in Denom /\ base \in Bases
  BY <1>3, <1>4, DataFields, DenomForms
<1>6. UNCHANGED sentLog /\ (NoneSentBelowZero => a >= 0)
  BY <1>1, <1>2, HeldIsNotBelowZero DEF AcknowledgePacket, packetLogs
<1>7. UNCHANGED denoms => FlightIsNamed' /\ RefusedCameHome'
  BY <1>1, <1>3, AckKeeps DEF BankIInv
<1>8. CASE ack = "result" /\ UNCHANGED bankVars
  <2>1. UNCHANGED <<allocated, locked, minted, denoms>>
    BY <1>8 DEF bankVars
  <2>2. NoShift
    BY <1>1, <1>3, <1>8, ResultShiftsNothing
  <2>3. Settled
    BY <1>8, <2>2, IdleEffect, IdleSettles DEF BankIInv
  <2>4. BankTypes' /\ HeldAtHome'
    BY <2>1 DEF BankIInv, BankTypes, HeldAtHome
  <2>5. MintedIsRecorded'
    BY <2>1, MintedUntouched DEF BankIInv
  <2>6. Solvent' /\ FundsStay
    BY <1>6, <2>1, IdleSolvent, FundsUntouched DEF BankIInv
  <2> QED BY <1>7, <2>1, <2>3, <2>4, <2>5, <2>6 DEF BankStepGives, BankIInv, Settled
<1>9. CASE ack = "error" /\ RefundTokens(c, i, data)
  <2>1. HasPrefix(data.denom, chans[c][i].port, i)
    BY <1>2, <1>9 DEF BankIInv, RefusedCameHome
  <2>2. Mint(c, data.sender, data.denom, a) /\ UNCHANGED denoms
    BY <1>9, <2>1 DEF RefundTokens
  <2>3. ack # "result"
    BY <1>9
  <2> HIDE DEF data
  <2>4. data = packets[c][i][seq].data
    BY DEF data
  <2>5. (AmountsAreNat => a <= Homebound(Other(c), base)) /\ Effect(Other(c), base, 0, 0, 0, a, -a)
    BY <1>1, <1>4, <2>1, <2>2, <2>3, <2>4, RefundEffect DEF BankIInv
  <2>6. /\ BankTypes' /\ UNCHANGED <<allocated, locked>>
        /\ EntriesKept(minted, minted', c, data.denom)
        /\ AccountChange(minted, minted', c, data.denom, data.sender, a)
        /\ \A d \in Chain : denoms[d] \subseteq denoms'[d]
    BY <1>5, <2>2, MintFacts DEF BankIInv
  <2>7. data.denom \in denoms'[c]
    <3>1. IsVoucher(data.denom)
      BY <2>1 DEF HasPrefix
    <3>2. data.denom \in denoms[c]
      BY <1>2, <2>4, <3>1 DEF BankIInv, FlightIsNamed, MayLeave
    <3> QED BY <2>2, <3>2
  <2>8. HeldAtHome'
    BY <2>6 DEF BankIInv, HeldAtHome
  <2>9. MintedIsRecorded'
    BY <1>5, <2>1, <2>6, <2>7, MintedKeeps DEF BankIInv
  <2>10. Settled
    BY <1>3, <1>5, <2>5, StagesSettle DEF BankIInv
  <2>11. Solvent'
    BY <1>5, <1>6, <2>6, MintSolvent DEF BankIInv
  <2>12. FundsStay
    BY <2>6, FundsUntouched
  <2> QED BY <1>7, <2>2, <2>6, <2>8, <2>9, <2>10, <2>11, <2>12 DEF BankStepGives, BankIInv, Settled
<1> QED BY <1>8, <1>9 DEF HandlePacketAcknowledgement

\* Steps that touch no balance, no packet and no answer.
LEMMA QuietStep ==
    ASSUME BankAssumptions, EstIInv, Rooted, BankIInv, UNCHANGED bankVars,
           UNCHANGED <<packets, acknowledgements, sentLog>>
    PROVE  BankStepGives
<1>1. UNCHANGED <<allocated, locked, minted, denoms>>
  BY DEF bankVars
<1>2. NoShift
  BY QuietShiftsNothing DEF BankAssumptions
<1>3. Settled
  BY <1>2, IdleEffect, IdleSettles DEF BankIInv
<1>4. FlightIsNamed' /\ RefusedCameHome'
  BY <1>1, FlightKeeps, RefusalsKeep, Counterparts DEF BankIInv, BankAssumptions
<1>5. BankTypes' /\ HeldAtHome'
  BY <1>1 DEF BankIInv, BankTypes, HeldAtHome
<1>6. MintedIsRecorded'
  BY <1>1, MintedUntouched DEF BankIInv
<1>7. Solvent' /\ FundsStay
  BY <1>1, IdleSolvent, FundsUntouched DEF BankIInv
<1> QED BY <1>3, <1>4, <1>5, <1>6, <1>7 DEF BankStepGives, BankIInv, Settled

\* Each action of the banks is one of the channels, or leaves them alone.
LEMMA BankNextIsNext ==
    ASSUME BankAssumptions, BankNext
    PROVE  [Next]_vars
<1>0. "result" \in Acks /\ "error" \in Acks
  BY DEF BankAssumptions, AcksAreResults
<1>1. PICK c \in Chain :
       \/ \E owner \in Addresses, base \in Bases, amount \in Amounts :
             c \in Funded /\ FundAllocate(c, owner, base, amount)
       \/ \E i \in ChanId, data \in Data :
             CreateOutgoingPacket(c, i, data.denom, data.amount, data.sender, data.receiver)
       \/ \E i \in ChanId, seq \in Seqs, data \in Data : HandlePacketRecv(c, i, seq, data)
       \/ \E i \in ChanId, seq \in Seqs, ack \in Acks :
             HandlePacketAcknowledgement(c, i, seq, ack)
       \/ \E i \in ChanId : ChanCloseInit(c, i) /\ UNCHANGED bankVars
       \/ \E i \in ChanId : ChanCloseConfirm(c, i) /\ UNCHANGED bankVars
  BY DEF BankNext
<1>2. ASSUME NEW owner \in Addresses, NEW base \in Bases, NEW amount \in Amounts,
             FundAllocate(c, owner, base, amount)
      PROVE  [Next]_vars
  BY <1>2 DEF FundAllocate
<1>3. ASSUME NEW i \in ChanId, NEW data \in Data,
             CreateOutgoingPacket(c, i, data.denom, data.amount, data.sender, data.receiver)
      PROVE  [Next]_vars
  <2>1. SendPacket(c, i, data)
    BY <1>3, SentData DEF CreateOutgoingPacket
  <2> QED BY <2>1 DEF Next, PacketNext
<1>4. ASSUME NEW i \in ChanId, NEW seq \in Seqs, NEW data \in Data, HandlePacketRecv(c, i, seq, data)
      PROVE  [Next]_vars
  <2>1. \E ack \in Acks : RecvPacket(c, i, seq, data, ack)
    BY <1>0, <1>4 DEF HandlePacketRecv
  <2> QED BY <2>1 DEF Next, PacketNext
<1>5. ASSUME NEW i \in ChanId, NEW seq \in Seqs, NEW ack \in Acks,
             HandlePacketAcknowledgement(c, i, seq, ack)
      PROVE  [Next]_vars
  <2>1. AcknowledgePacket(c, i, seq, ack)
    BY <1>5 DEF HandlePacketAcknowledgement
  <2> QED BY <2>1 DEF Next, PacketNext
<1>6. ASSUME NEW i \in ChanId, ChanCloseInit(c, i) \/ ChanCloseConfirm(c, i)
      PROVE  [Next]_vars
  BY <1>6 DEF Next, HandshakeNext
<1> QED BY <1>1, <1>2, <1>3, <1>4, <1>5, <1>6

\* One step of the banks.
LEMMA BankStep ==
    ASSUME BankAssumptions, EstIInv, BankIInv, [BankNext]_allVars
    PROVE  EstIInv' /\ BankIInv' /\ PegStep /\ FundsStay
<1>1. EstIInv' /\ Rooted
  <2>1. EstAssumptions
    BY DEF BankAssumptions, TransferAssumptions
  <2>2. [Next]_vars
    BY BankNextIsNext DEF allVars
  <2> QED BY <2>1, <2>2, EstStep
<1>2. CASE UNCHANGED allVars
  <2>1. UNCHANGED bankVars /\ UNCHANGED <<packets, acknowledgements, sentLog>>
    BY <1>2 DEF allVars, vars, chanVars, recvVars, packetLogs
  <2> QED BY <1>1, <2>1, QuietStep DEF BankStepGives
<1>3. ASSUME NEW c \in Chain, NEW owner \in Addresses, NEW base \in Bases, NEW amount \in Amounts,
             FundAllocate(c, owner, base, amount)
      PROVE  BankStepGives
  BY <1>1, <1>3, FundStep
<1>4. ASSUME NEW c \in Chain, NEW i \in ChanId, NEW data \in Data,
             CreateOutgoingPacket(c, i, data.denom, data.amount, data.sender, data.receiver)
      PROVE  BankStepGives
  BY <1>1, <1>4, OutgoingStep
<1>5. ASSUME NEW c \in Chain, NEW i \in ChanId, NEW seq \in Seqs, NEW data \in Data,
             HandlePacketRecv(c, i, seq, data)
      PROVE  BankStepGives
  BY <1>1, <1>5, PacketRecvStep
<1>6. ASSUME NEW c \in Chain, NEW i \in ChanId, NEW seq \in Seqs, NEW ack \in Acks,
             HandlePacketAcknowledgement(c, i, seq, ack)
      PROVE  BankStepGives
  BY <1>1, <1>6, PacketAckStep
<1>7. ASSUME NEW c \in Chain, NEW i \in ChanId, ChanCloseInit(c, i) \/ ChanCloseConfirm(c, i),
             UNCHANGED bankVars
      PROVE  BankStepGives
  <2>1. UNCHANGED <<packets, acknowledgements, sentLog>>
    BY <1>7 DEF ChanCloseInit, ChanCloseConfirm, Close, recvVars, packetLogs
  <2> QED BY <1>1, <1>7, <2>1, QuietStep
<1> QED BY <1>1, <1>2, <1>3, <1>4, <1>5, <1>6, <1>7 DEF BankNext, BankStepGives

\* Nothing is held, sent or answered at the start.
LEMMA BankStarts ==
    ASSUME BankAssumptions, BankInit
    PROVE  EstIInv /\ BankIInv /\ Peg!PegInit
<1>1. EstIInv /\ PacketInit /\ TransferAssumptions
  BY EstStarts, StartFacts DEF BankInit, BankAssumptions, TransferAssumptions
<1>2. /\ \A c \in Chain, i \in ChanId, seq \in Seqs :
            packets[c][i][seq] = NoPacket /\ acknowledgements[c][i][seq] = NoAck
  BY <1>1 DEF PacketInit
<1>3. BankTypes
  <2>1. [o \in {} |-> 0] \in Balance
    <3>1. [o \in {} |-> 0] \in [{} -> Int] /\ {} \in SUBSET Addresses
      OBVIOUS
    <3> QED BY <3>1 DEF Balance
  <2>2. Nothing \in Balances
    BY <2>1 DEF Nothing, Balances
  <2> QED BY <2>2 DEF BankInit, BankTypes
<1>4. \A c \in Chain, denom \in Denom :
         /\ DOMAIN allocated[c][denom] = {} /\ DOMAIN locked[c][denom] = {} /\ DOMAIN minted[c][denom] = {}
         /\ \A o \in Addresses : /\ GetOrZero(allocated[c][denom], o) = 0
                                 /\ GetOrZero(locked[c][denom], o) = 0
                                 /\ GetOrZero(minted[c][denom], o) = 0
  BY DEF BankInit, Nothing, GetOrZero
<1>5. HeldAtHome /\ MintedIsRecorded /\ FlightIsNamed /\ RefusedCameHome
  BY <1>2, <1>4 DEF HeldAtHome, MintedIsRecorded, FlightIsNamed, RefusedCameHome
<1>6. \A c \in Chain, denom \in Denom :
         Total(allocated, c, denom) = 0 /\ Total(locked, c, denom) = 0 /\ Total(minted, c, denom) = 0
  BY <1>1, <1>3, <1>4, TotalFacts DEF BankTypes
<1>7. \A c \in Chain, i \in ChanId : \A denom : OnItsWay(c, i, denom) = 0
  <2> SUFFICES ASSUME NEW c \in Chain, NEW i \in ChanId, NEW denom
               PROVE  OnItsWay(c, i, denom) = 0
    OBVIOUS
  <2>1. \A seq \in Seqs : Moving(c, i, denom)[seq] = 0
    BY <1>2 DEF Moving, Unsettled
  <2> QED BY <1>1, <2>1, IndicesAreFinite, SumOfZero DEF OnItsWay
<1>8. \A c \in Chain, base \in Bases :
         Outbound(c, base) = 0 /\ Abroad(minted, c, base) = 0 /\ Homebound(c, base) = 0
  <2> SUFFICES ASSUME NEW c \in Chain, NEW base \in Bases
               PROVE  Outbound(c, base) = 0 /\ Abroad(minted, c, base) = 0 /\ Homebound(c, base) = 0
    OBVIOUS
  <2> DEFINE out == [i \in ChanId |-> OnItsWay(c, i, BaseDenom(base))]
             abroad == [i \in ChanId |-> Total(minted, Other(c), VoucherOf(c, i, base))]
             home == [i \in ChanId |-> OnItsWay(Other(c), chans[c][i].cpChan, VoucherOf(c, i, base))]
  <2>1. \A i \in ChanId : out[i] = 0 /\ abroad[i] = 0 /\ home[i] = 0
    <3>1. \A i \in ChanId : /\ VoucherOf(c, i, base) \in Denom /\ Other(c) \in Chain
                            /\ chans[c][i].cpChan \in ChanId
      BY <1>1, VoucherFacts, Counterparts
    <3> QED BY <1>6, <1>7, <3>1
  <2>2. Outbound(c, base) = SumFunctionOnSet(out, ChanId)
        /\ Abroad(minted, c, base) = SumFunctionOnSet(abroad, ChanId)
        /\ Homebound(c, base) = SumFunctionOnSet(home, ChanId)
    BY DEF Outbound, Abroad, Homebound, OverChannels
  <2> HIDE DEF out, abroad, home
  <2> QED BY <1>1, <2>1, <2>2, IndicesAreFinite, SumOfZero
<1>9. \A base \in Bases : BaseDenom(base) \in Denom
  BY DenomFacts
<1>10. TokenBacked /\ Solvent
  BY <1>4, <1>6, <1>8, <1>9 DEF TokenBacked, Solvent, NoneInDebt
<1>11. Peg!PegInit
  <2>1. \A t \in Token : t[1] \in Chain /\ t[2] \in Bases
    BY DEF Token
  <2> QED BY <1>6, <1>8, <1>9, <2>1 DEF Peg!PegInit, Peg!Zero
<1> QED BY <1>1, <1>3, <1>5, <1>10, <1>11 DEF BankIInv

\* The invariant of the banks and their channels, for any number of channels,
\* addresses, base denominations and amounts, of any sign.
THEOREM BankInvariance == BankSpec => [](EstIInv /\ BankIInv)
<1>1. BankInit => EstIInv /\ BankIInv
  BY BankStarts, BankAssumes
<1>2. EstIInv /\ BankIInv /\ [BankNext]_allVars => (EstIInv /\ BankIInv)'
  BY BankStep, BankAssumes
<1> QED BY <1>1, <1>2, PTL DEF BankSpec

\* The transfer module does nothing to channels that the hosts would not do: what
\* is proved of EstablishedSpec holds with it running.
THEOREM BankRunsOnChannels == BankSpec => EstablishedSpec
<1>1. BankInit => EstablishedInit
  BY DEF BankInit
<1>2. [BankNext]_allVars => [Next]_vars
  BY BankNextIsNext, BankAssumes DEF allVars
<1> QED BY <1>1, <1>2, PTL DEF BankSpec, EstablishedSpec

\* The banks implement the two-way peg: every transaction moves a token one stage
\* on, by an amount of either sign, or leaves all totals as they are.
THEOREM BankIsPeg == BankSpec => ImplementsPeg
<1>1. BankInit => Peg!PegInit
  BY BankStarts, BankAssumes
<1>2. EstIInv /\ BankIInv /\ [BankNext]_allVars => [Peg!PegNext]_(Peg!pegVars)
  BY BankStep, BankAssumes DEF PegStep
<1> QED BY <1>1, <1>2, BankInvariance, PTL DEF BankSpec, ImplementsPeg, Peg!PegSpec

\* What is in escrow of a token is what circulates of it abroad and what is on
\* its way, always.
THEOREM BankIsBacked == BankSpec => []Backed
<1>1. TokenBacked => Backed
  <2>1. \A t \in Token : t[1] \in Chain /\ t[2] \in Bases
    BY DEF Token
  <2> QED BY <2>1 DEF TokenBacked, Backed, Peg!Pegged
<1> QED BY <1>1, BankInvariance, PTL DEF BankIInv

\* What an owner has at home, spendable and in escrow, is changed by funding alone.
THEOREM OwnersAreSafe == BankSpec => OwnersKeepTheirFunds
<1>1. EstIInv /\ BankIInv /\ [BankNext]_allVars
      => [\A c \in Chain, o \in Addresses, base \in Bases :
             UNCHANGED vars \/ UNCHANGED OwnFunds(c, o, BaseDenom(base))]_allVars
  BY BankStep, BankAssumes DEF FundsStay
<1> QED BY <1>1, BankInvariance, PTL DEF BankSpec, OwnersKeepTheirFunds

\* A debt in escrow or in vouchers is the work of a transfer of less than nothing.
THEOREM NobodyOverdraws == BankSpec => []NoOverdraft
<1>1. BankIInv => NoOverdraft
  <2> SUFFICES ASSUME BankIInv, NoneSentBelowZero, NEW c \in Chain, NEW denom \in Denom
               PROVE  /\ \A o \in DOMAIN locked[c][denom] : locked[c][denom][o] >= 0
                      /\ \A o \in DOMAIN minted[c][denom] : minted[c][denom][o] >= 0
    BY DEF NoOverdraft, NoneSentBelowZero
  <2>1. /\ DOMAIN locked[c][denom] \subseteq Addresses
        /\ DOMAIN minted[c][denom] \subseteq Addresses
    BY BalanceForms DEF BankIInv, BankTypes
  <2>2. \A o \in Addresses : /\ GetOrZero(locked[c][denom], o) >= 0
                             /\ GetOrZero(minted[c][denom], o) >= 0
    BY DEF BankIInv, Solvent, NoneInDebt
  <2> QED BY <2>1, <2>2 DEF GetOrZero
<1> QED BY <1>1, BankInvariance, PTL

\* Balances as the type invariant has them.
LEMMA BalancesAreTyped ==
    ASSUME NEW balances \in Balances
    PROVE  IsBalances(balances)
<1>1. ASSUME NEW c \in Chain, NEW denom \in Denom
      PROVE  \E owners \in SUBSET Addresses : balances[c][denom] \in [owners -> Int]
  BY BalanceForms
<1>2. DOMAIN balances = Chain /\ \A c \in Chain : DOMAIN balances[c] = Denom
  BY DEF Balances
<1> QED BY <1>1, <1>2 DEF IsBalances

\* Base denominations are allocated and locked, vouchers are minted: nothing is
\* credited to the wrong kind of account, whatever is refused and refunded.
THEOREM BankTypesHold == BankSpec => []BankTypeOK
<1>1. BankIInv => BankTypeOK
  <2> SUFFICES ASSUME BankIInv
               PROVE  BankTypeOK
    OBVIOUS
  <2>1. /\ IsBalances(allocated) /\ IsBalances(locked) /\ IsBalances(minted)
        /\ denoms \in [Chain -> SUBSET Denom]
    BY BalancesAreTyped DEF BankIInv, BankTypes
  <2>2. ASSUME NEW c \in Chain, NEW denom \in Denom
        PROVE  IF IsVoucher(denom)
                  THEN DOMAIN allocated[c][denom] = {} /\ DOMAIN locked[c][denom] = {}
                  ELSE DOMAIN minted[c][denom] = {}
    <3>1. DOMAIN minted[c][denom] # {} => IsVoucher(denom)
      BY DEF BankIInv, MintedIsRecorded, HasPrefix
    <3> QED BY <3>1 DEF BankIInv, HeldAtHome
  <2> QED BY <2>1, <2>2 DEF BankTypeOK
<1> QED BY <1>1, BankInvariance, PTL

\* Vouchers that have an entry, or are on their way back, are recorded: the host can
\* name them by their hash.
THEOREM VouchersAreRecorded == BankSpec => []VouchersResolve
<1>1. BankIInv => VouchersResolve
  <2> SUFFICES ASSUME BankIInv, NEW c \in Chain, NEW denom \in Denom
               PROVE  \/ DOMAIN minted[c][denom] # {}
                      \/ \E i \in ChanId, seq \in Seqs :
                            /\ HasPrefix(denom, chans[c][i].port, i)
                            /\ Unsettled(c, i, seq) /\ packets[c][i][seq].data.denom = denom
                      => denom \in denoms[c]
    BY DEF VouchersResolve
  <2>1. DOMAIN minted[c][denom] # {} => denom \in denoms[c]
    BY DEF BankIInv, MintedIsRecorded
  <2>2. ASSUME NEW i \in ChanId, NEW seq \in Seqs, HasPrefix(denom, chans[c][i].port, i),
               Unsettled(c, i, seq), packets[c][i][seq].data.denom = denom
        PROVE  denom \in denoms[c]
    BY <2>2 DEF BankIInv, FlightIsNamed, MayLeave, Unsettled, HasPrefix
  <2> QED BY <2>1, <2>2
<1> QED BY <1>1, BankInvariance, PTL
=============================================================================
