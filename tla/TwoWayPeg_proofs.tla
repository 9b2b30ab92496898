-------------------------- MODULE TwoWayPeg_proofs --------------------------
(***************************************************************************)
(* The peg holds for any tokens and amounts, negative ones too.  If no     *)
(* amount is negative no stage runs short either.  Escrow needs Pegged for *)
(* that: Redeem takes from it what it knows to be homebound only.          *)
(***************************************************************************)
EXTENDS TwoWayPeg, TLAPS

PegTypes ==
    /\ spendable \in [Token -> Int] /\ escrow \in [Token -> Int]
    /\ outbound \in [Token -> Int] /\ vouchers \in [Token -> Int]
    /\ homebound \in [Token -> Int]

PegIInv == PegTypes /\ Pegged

Plenty ==
    /\ spendable \in [Token -> Nat] /\ escrow \in [Token -> Nat]
    /\ outbound \in [Token -> Nat] /\ vouchers \in [Token -> Nat]
    /\ homebound \in [Token -> Nat]

\* Adding to one token and subtracting from it.
LEMMA BalanceFacts ==
    ASSUME NEW f \in [Token -> Int], NEW t \in Token, NEW a \in Int
    PROVE  Plus(f, t, a) \in [Token -> Int] /\ Minus(f, t, a) \in [Token -> Int]
BY DEF Plus, Minus

\* Adding keeps a balance a natural number, and so does taking what is there.
LEMMA NaturalFacts ==
    ASSUME NEW f \in [Token -> Nat], NEW t \in Token, NEW a \in Nat
    PROVE  /\ Plus(f, t, a) \in [Token -> Nat]
           /\ f[t] >= a => Minus(f, t, a) \in [Token -> Nat]
BY DEF Plus, Minus

\* One step of the peg, whatever the sign of the amount.
LEMMA PegStep ==
    ASSUME PegAmounts, PegIInv, [PegNext]_pegVars
    PROVE  PegIInv'
<1> USE DEF PegIInv, PegTypes, Pegged
<1>1. CASE UNCHANGED pegVars
  BY <1>1 DEF pegVars
<1>2. ASSUME NEW t \in Token, NEW a \in Amounts, Fund(t, a)
      PROVE  PegIInv'
  <2>1. a \in Int
    BY DEF PegAmounts
  <2>2. spendable' = Plus(spendable, t, a)
    BY <1>2 DEF Fund
  <2>3. spendable' \in [Token -> Int]
    BY <2>1, <2>2, BalanceFacts
  <2>4. \A u \in Token : spendable'[u] = IF u = t THEN spendable[u] + a ELSE spendable[u]
    BY <2>1, <2>2 DEF Plus, Minus
  <2>5. Pegged'
    BY <1>2, <2>1, <2>4 DEF Fund
  <2> QED BY <1>2, <2>3, <2>5 DEF Fund
<1>3. ASSUME NEW t \in Token, NEW a \in Amounts, Depart(t, a)
      PROVE  PegIInv'
  <2>1. a \in Int
    BY DEF PegAmounts
  <2>2. /\ escrow' = Plus(escrow, t, a)
        /\ outbound' = Plus(outbound, t, a)
        /\ spendable' = Minus(spendable, t, a)
    BY <1>3 DEF Depart
  <2>3. /\ escrow' \in [Token -> Int]
        /\ outbound' \in [Token -> Int]
        /\ spendable' \in [Token -> Int]
    BY <2>1, <2>2, BalanceFacts
  <2>4. /\ \A u \in Token : escrow'[u] = IF u = t THEN escrow[u] + a ELSE escrow[u]
        /\ \A u \in Token : outbound'[u] = IF u = t THEN outbound[u] + a ELSE outbound[u]
        /\ \A u \in Token : spendable'[u] = IF u = t THEN spendable[u] - a ELSE spendable[u]
    BY <2>1, <2>2 DEF Plus, Minus
  <2>5. Pegged'
    BY <1>3, <2>1, <2>4 DEF Depart
  <2> QED BY <1>3, <2>3, <2>5 DEF Depart
<1>4. ASSUME NEW t \in Token, NEW a \in Amounts, Arrive(t, a)
      PROVE  PegIInv'
  <2>1. a \in Int
    BY DEF PegAmounts
  <2>2. /\ vouchers' = Plus(vouchers, t, a)
        /\ outbound' = Minus(outbound, t, a)
    BY <1>4 DEF Arrive
  <2>3. /\ vouchers' \in [Token -> Int]
        /\ outbound' \in [Token -> Int]
    BY <2>1, <2>2, BalanceFacts
  <2>4. /\ \A u \in Token : vouchers'[u] = IF u = t THEN vouchers[u] + a ELSE vouchers[u]
        /\ \A u \in Token : outbound'[u] = IF u = t THEN outbound[u] - a ELSE outbound[u]
    BY <2>1, <2>2 DEF Plus, Minus
  <2>5. Pegged'
    BY <1>4, <2>1, <2>4 DEF Arrive
  <2> QED BY <1>4, <2>3, <2>5 DEF Arrive
<1>5. ASSUME NEW t \in Token, NEW a \in Amounts, Return(t, a)
      PROVE  PegIInv'
  <2>1. a \in Int
    BY DEF PegAmounts
  <2>2. /\ homebound' = Plus(homebound, t, a)
        /\ vouchers' = Minus(vouchers, t, a)
    BY <1>5 DEF Return
  <2>3. /\ homebound' \in [Token -> Int]
        /\ vouchers' \in [Token -> Int]
    BY <2>1, <2>2, BalanceFacts
  <2>4. /\ \A u \in Token : homebound'[u] = IF u = t THEN homebound[u] + a ELSE homebound[u]
        /\ \A u \in Token : vouchers'[u] = IF u = t THEN vouchers[u] - a ELSE vouchers[u]
    BY <2>1, <2>2 DEF Plus, Minus
  <2>5. Pegged'
    BY <1>5, <2>1, <2>4 DEF Return
  <2> QED BY <1>5, <2>3, <2>5 DEF Return
<1>6. ASSUME NEW t \in Token, NEW a \in Amounts, Redeem(t, a)
      PROVE  PegIInv'
  <2>1. a \in Int
    BY DEF PegAmounts
  <2>2. /\ spendable' = Plus(spendable, t, a)
        /\ homebound' = Minus(homebound, t, a)
        /\ escrow' = Minus(escrow, t, a)
    BY <1>6 DEF Redeem
  <2>3. /\ spendable' \in [Token -> Int]
        /\ homebound' \in [Token -> Int]
        /\ escrow' \in [Token -> Int]
    BY <2>1, <2>2, BalanceFacts
  <2>4. /\ \A u \in Token : spendable'[u] = IF u = t THEN spendable[u] + a ELSE spendable[u]
        /\ \A u \in Token : homebound'[u] = IF u = t THEN homebound[u] - a ELSE homebound[u]
        /\ \A u \in Token : escrow'[u] = IF u = t THEN escrow[u] - a ELSE escrow[u]
    BY <2>1, <2>2 DEF Plus, Minus
  <2>5. Pegged'
    BY <1>6, <2>1, <2>4 DEF Redeem
  <2> QED BY <1>6, <2>3, <2>5 DEF Redeem
<1>7. ASSUME NEW t \in Token, NEW a \in Amounts, Refund(t, a)
      PROVE  PegIInv'
  <2>1. a \in Int
    BY DEF PegAmounts
  <2>2. /\ vouchers' = Plus(vouchers, t, a)
        /\ homebound' = Minus(homebound, t, a)
    BY <1>7 DEF Refund
  <2>3. /\ vouchers' \in [Token -> Int]
        /\ homebound' \in [Token -> Int]
    BY <2>1, <2>2, BalanceFacts
  <2>4. /\ \A u \in Token : vouchers'[u] = IF u = t THEN vouchers[u] + a ELSE vouchers[u]
        /\ \A u \in Token : homebound'[u] = IF u = t THEN homebound[u] - a ELSE homebound[u]
    BY <2>1, <2>2 DEF Plus, Minus
  <2>5. Pegged'
    BY <1>7, <2>1, <2>4 DEF Refund
  <2> QED BY <1>7, <2>3, <2>5 DEF Refund
<1> QED BY <1>1, <1>2, <1>3, <1>4, <1>5, <1>6, <1>7 DEF PegNext

\* One step of the peg with amounts of which none is negative.
LEMMA PlentyStep ==
    ASSUME NoneNegative, Plenty, Pegged, [PegNext]_pegVars
    PROVE  Plenty'
<1> USE DEF Plenty
<1>1. CASE UNCHANGED pegVars
  BY <1>1 DEF pegVars
<1>2. ASSUME NEW t \in Token, NEW a \in Amounts, Fund(t, a)
      PROVE  Plenty'
  <2>1. a \in Nat
    BY <1>2 DEF NoneNegative, Fund
  <2>2. spendable' = Plus(spendable, t, a)
    BY <1>2 DEF Fund
  <2>4. spendable' \in [Token -> Nat]
    BY <2>1, <2>2, NaturalFacts
  <2> QED BY <1>2, <2>4 DEF Fund
<1>3. ASSUME NEW t \in Token, NEW a \in Amounts, Depart(t, a)
      PROVE  Plenty'
  <2>1. a \in Nat /\ spendable[t] >= a
    BY <1>3 DEF NoneNegative, Depart, Covers
  <2>2. /\ escrow' = Plus(escrow, t, a)
        /\ outbound' = Plus(outbound, t, a)
        /\ spendable' = Minus(spendable, t, a)
    BY <1>3 DEF Depart
  <2>4. /\ escrow' \in [Token -> Nat]
        /\ outbound' \in [Token -> Nat]
        /\ spendable' \in [Token -> Nat]
    BY <2>1, <2>2, NaturalFacts
  <2> QED BY <1>3, <2>4 DEF Depart
<1>4. ASSUME NEW t \in Token, NEW a \in Amounts, Arrive(t, a)
      PROVE  Plenty'
  <2>1. a \in Nat /\ outbound[t] >= a
    BY <1>4 DEF NoneNegative, Arrive, Covers
  <2>2. /\ vouchers' = Plus(vouchers, t, a)
        /\ outbound' = Minus(outbound, t, a)
    BY <1>4 DEF Arrive
  <2>4. /\ vouchers' \in [Token -> Nat]
        /\ outbound' \in [Token -> Nat]
    BY <2>1, <2>2, NaturalFacts
  <2> QED BY <1>4, <2>4 DEF Arrive
<1>5. ASSUME NEW t \in Token, NEW a \in Amounts, Return(t, a)
      PROVE  Plenty'
  <2>1. a \in Nat /\ vouchers[t] >= a
    BY <1>5 DEF NoneNegative, Return, Covers
  <2>2. /\ homebound' = Plus(homebound, t, a)
        /\ vouchers' = Minus(vouchers, t, a)
    BY <1>5 DEF Return
  <2>4. /\ homebound' \in [Token -> Nat]
        /\ vouchers' \in [Token -> Nat]
    BY <2>1, <2>2, NaturalFacts
  <2> QED BY <1>5, <2>4 DEF Return
<1>6. ASSUME NEW t \in Token, NEW a \in Amounts, Redeem(t, a)
      PROVE  Plenty'
  <2>1. a \in Nat /\ homebound[t] >= a
    BY <1>6 DEF NoneNegative, Redeem, Covers
  <2>2. /\ spendable' = Plus(spendable, t, a)
        /\ homebound' = Minus(homebound, t, a)
        /\ escrow' = Minus(escrow, t, a)
    BY <1>6 DEF Redeem
  <2>3. escrow[t] >= a
    <3>1. escrow[t] = outbound[t] + vouchers[t] + homebound[t]
      BY DEF Pegged
    <3>2. outbound[t] \in Nat /\ vouchers[t] \in Nat /\ homebound[t] \in Nat
      OBVIOUS
    <3> QED BY <2>1, <3>1, <3>2
  <2>4. /\ spendable' \in [Token -> Nat]
        /\ homebound' \in [Token -> Nat]
        /\ escrow' \in [Token -> Nat]
    BY <2>1, <2>2, <2>3, NaturalFacts
  <2> QED BY <1>6, <2>4 DEF Redeem
<1>7. ASSUME NEW t \in Token, NEW a \in Amounts, Refund(t, a)
      PROVE  Plenty'
  <2>1. a \in Nat /\ homebound[t] >= a
    BY <1>7 DEF NoneNegative, Refund, Covers
  <2>2. /\ vouchers' = Plus(vouchers, t, a)
        /\ homebound' = Minus(homebound, t, a)
    BY <1>7 DEF Refund
  <2>4. /\ vouchers' \in [Token -> Nat]
        /\ homebound' \in [Token -> Nat]
    BY <2>1, <2>2, NaturalFacts
  <2> QED BY <1>7, <2>4 DEF Refund
<1> QED BY <1>1, <1>2, <1>3, <1>4, <1>5, <1>6, <1>7 DEF PegNext

\* Vouchers and escrow balance for ever, whatever the sign of the amounts.
THEOREM PegIsKept ==
    ASSUME PegAmounts
    PROVE  PegSpec => []Pegged
<1>1. PegInit => PegIInv
  BY DEF PegInit, Zero, PegIInv, PegTypes, Pegged
<1>2. PegIInv /\ [PegNext]_pegVars => PegIInv'
  BY PegStep
<1>3. PegIInv => Pegged
  BY DEF PegIInv
<1> QED BY <1>1, <1>2, <1>3, PTL DEF PegSpec

\* If no amount is negative no total ever is: what is taken from a stage, from
\* escrow too, is there.
THEOREM NoStageRunsShort ==
    ASSUME NoneNegative
    PROVE  PegSpec => []PegTypeOK
<1>1. PegAmounts
  BY DEF NoneNegative, PegAmounts
<1>2. PegInit => Plenty
  BY DEF PegInit, Zero, Plenty
<1>3. Plenty /\ Pegged /\ [PegNext]_pegVars => Plenty'
  BY PlentyStep
<1>4. Plenty => PegTypeOK
  BY DEF Plenty, PegTypeOK
<1> QED BY <1>1, <1>2, <1>3, <1>4, PegIsKept, PTL DEF PegSpec
=============================================================================
