------------------------ MODULE Ics20Transfer_proofs ------------------------
(***************************************************************************)
(* What the packet handlers of established hosts do to the sums that       *)
(* Ics20Bank and Ics20Cash are specified with: sending adds the amount to  *)
(* what is on its way, the answer "result" or the acknowledgement of       *)
(* another answer takes it off, and no other step touches it.              *)
(***************************************************************************)
EXTENDS Ics20Transfer, IbcEstablished_proofs, FiniteSetsExt, FiniteSetTheorems

(***************************************************************************)
(* Sums over finite sets.                                                  *)
(***************************************************************************)

\* Induction on natural numbers, for a set instead of a predicate: the least number
\* outside T would follow one inside.
LEMMA NatSetInduction ==
    ASSUME NEW T \in SUBSET Nat, 0 \in T, \A n \in T : n + 1 \in T
    PROVE  T = Nat
<1>1. SUFFICES ASSUME Nat \ T # {}
               PROVE  FALSE
  OBVIOUS
<1>2. PICK m \in Nat \ T : \A n \in Nat \ T : ~(<<n, m>> \in OpToRel(<, Nat))
  BY <1>1, NatLessThanWellFounded, WFMin
<1>3. \A n \in Nat \ T : ~(n < m)
  BY <1>2 DEF OpToRel
<1>4. m # 0 /\ m \in Nat
  BY <1>2
<1>5. m - 1 \in Nat /\ m - 1 < m /\ (m - 1) + 1 = m
  BY <1>4
<1> QED BY <1>2, <1>3, <1>5

\* Induction on finite sets, in the same form: a set of subsets that has the empty
\* one and grows by every element has them all.
LEMMA SubsetInduction ==
    ASSUME NEW S, IsFiniteSet(S), NEW T \in SUBSET (SUBSET S), {} \in T,
           \A s \in T : \A x \in S \ s : s \cup {x} \in T
    PROVE  \A s \in SUBSET S : s \in T
<1> DEFINE N == {n \in Nat : \A s \in SUBSET S : Cardinality(s) = n => s \in T}
<1>1. \A s \in SUBSET S : IsFiniteSet(s) /\ Cardinality(s) \in Nat
  BY FS_Subset, FS_CardinalityType
<1>2. 0 \in N
  BY <1>1, FS_EmptySet
<1>3. ASSUME NEW n \in N
      PROVE  n + 1 \in N
  <2>1. SUFFICES ASSUME NEW s \in SUBSET S, Cardinality(s) = n + 1
                 PROVE  s \in T
    OBVIOUS
  <2>2. PICK x \in s : TRUE
    BY <1>1, <2>1, FS_EmptySet
  <2>3. s \ {x} \in SUBSET S /\ Cardinality(s \ {x}) = n
    <3>1. Cardinality(s \ {x}) = Cardinality(s) - 1
      BY <1>1, FS_RemoveElement
    <3> QED BY <2>1, <3>1
  <2>4. s \ {x} \in T /\ x \in S \ (s \ {x}) /\ (s \ {x}) \cup {x} = s
    BY <2>3
  <2> QED BY <2>4
<1> HIDE DEF N
<1>4. N = Nat
  BY <1>2, <1>3, NatSetInduction DEF N
<1> QED BY <1>1, <1>4 DEF N

Pick(s) == CHOOSE x \in s : TRUE

Added(g, f, s) == IF s = {} THEN 0 ELSE f[Pick(s)] + g[s \ {Pick(s)}]

IsAdder(g, f, S) == g = [s \in SUBSET S |-> IF s = {} THEN 0 ELSE f[Pick(s)] + g[s \ {Pick(s)}]]

\* There is a function that adds up f over every subset of S.
LEMMA AdderExists ==
    ASSUME NEW f, NEW S, IsFiniteSet(S)
    PROVE  \E g : IsAdder(g, f, S)
<1> DEFINE UpTo(n) == {s \in SUBSET S : Cardinality(s) <= n}
           N == {n \in Nat : \E g : \A s \in UpTo(n) : g[s] = Added(g, f, s)}
<1>1. \A s \in SUBSET S : /\ IsFiniteSet(s) /\ Cardinality(s) \in Nat
                          /\ s # {} => Pick(s) \in s
                          /\ s # {} => Cardinality(s \ {Pick(s)}) = Cardinality(s) - 1
                          /\ Cardinality(s) = 0 => s = {}
  BY FS_Subset, FS_CardinalityType, FS_RemoveElement, FS_EmptySet DEF Pick
<1>2. 0 \in N
  <2>1. \A s \in UpTo(0) : s = {}
    <3>1. TAKE s \in UpTo(0)
    <3>2. s \in SUBSET S /\ Cardinality(s) <= 0
      OBVIOUS
    <3>3. Cardinality(s) \in Nat
      BY <1>1, <3>2
    <3>4. Cardinality(s) = 0
      BY <3>2, <3>3
    <3> QED BY <1>1, <3>2, <3>4
  <2>2. \A s \in UpTo(0) : [s1 \in {{}} |-> 0][s] = Added([s1 \in {{}} |-> 0], f, s)
    BY <2>1 DEF Added
  <2> QED BY <2>2
<1>3. ASSUME NEW n \in N
      PROVE  n + 1 \in N
  <2>1. PICK g : \A s \in UpTo(n) : g[s] = Added(g, f, s)
    OBVIOUS
  <2> DEFINE h == [s \in UpTo(n + 1) |-> Added(g, f, s)]
  <2>2. \A s \in UpTo(n) : s \in UpTo(n + 1) /\ h[s] = g[s]
    <3>1. TAKE s \in UpTo(n)
    <3>2. s \in SUBSET S /\ Cardinality(s) <= n /\ n \in Nat
      OBVIOUS
    <3>3. Cardinality(s) \in Nat
      BY <1>1, <3>2
    <3>33. Cardinality(s) <= n + 1
      BY <3>2, <3>3
    <3>4. s \in UpTo(n + 1)
      BY <3>2, <3>33
    <3> QED BY <2>1, <3>4
  <2>3. \A s \in UpTo(n + 1) : s # {} => s \ {Pick(s)} \in UpTo(n)
    BY <1>1
  <2>4. \A s \in UpTo(n + 1) : h[s] = Added(h, f, s)
    <3>1. TAKE s \in UpTo(n + 1)
    <3>2. h[s] = Added(g, f, s)
      OBVIOUS
    <3>3. s # {} => h[s \ {Pick(s)}] = g[s \ {Pick(s)}]
      BY <2>2, <2>3
    <3> HIDE DEF h
    <3> QED BY <3>2, <3>3 DEF Added
  <2> HIDE DEF h
  <2>5. \E g1 : \A s \in UpTo(n + 1) : g1[s] = Added(g1, f, s)
    BY <2>4
  <2> QED BY <2>5
<1>4. N = Nat
  <2> HIDE DEF N
  <2> QED BY <1>2, <1>3, NatSetInduction DEF N
<1>5. Cardinality(S) \in N
  BY <1>1, <1>4
<1>6. PICK g : \A s \in UpTo(Cardinality(S)) : g[s] = Added(g, f, s)
  BY <1>5
<1>7. UpTo(Cardinality(S)) = SUBSET S
  BY FS_Subset
<1> DEFINE h == [s \in SUBSET S |-> Added(g, f, s)]
<1>8. \A s \in SUBSET S : h[s] = g[s]
  BY <1>6, <1>7
<1>9. \A s \in SUBSET S : s # {} => s \ {Pick(s)} \in SUBSET S
  OBVIOUS
<1>10. h = [s \in SUBSET S |-> IF s = {} THEN 0 ELSE f[Pick(s)] + h[s \ {Pick(s)}]]
  <2>1. \A s \in SUBSET S : Added(g, f, s) = IF s = {} THEN 0 ELSE f[Pick(s)] + h[s \ {Pick(s)}]
    <3> HIDE DEF h
    <3> QED BY <1>8, <1>9 DEF Added
  <2> QED BY <2>1
<1> HIDE DEF h
<1> QED BY <1>10 DEF IsAdder

\* Two of them agree where both are defined.
LEMMA AddersAgree ==
    ASSUME NEW f, NEW S, IsFiniteSet(S), NEW U \in SUBSET S, NEW g, NEW h,
           IsAdder(g, f, S), IsAdder(h, f, U)
    PROVE  \A s \in SUBSET U : g[s] = h[s]
<1>1. IsFiniteSet(U)
  BY FS_Subset
<1>2. \A s \in SUBSET U : /\ g[s] = Added(g, f, s)
                          /\ h[s] = Added(h, f, s)
  BY DEF IsAdder, Added
<1>3. \A s \in SUBSET U : /\ IsFiniteSet(s) /\ Cardinality(s) \in Nat
                          /\ s # {} => Pick(s) \in s
                          /\ s # {} => Cardinality(s \ {Pick(s)}) = Cardinality(s) - 1
                          /\ Cardinality(s) = 0 => s = {}
  BY <1>1, FS_Subset, FS_CardinalityType, FS_RemoveElement, FS_EmptySet DEF Pick
<1> DEFINE N == {n \in Nat : \A s \in SUBSET U : Cardinality(s) = n => g[s] = h[s]}
<1>4. 0 \in N
  BY <1>2, <1>3 DEF Added
<1>5. ASSUME NEW n \in N
      PROVE  n + 1 \in N
  <2>1. SUFFICES ASSUME NEW s \in SUBSET U, Cardinality(s) = n + 1
                 PROVE  g[s] = h[s]
    OBVIOUS
  <2>2. s # {} /\ s \ {Pick(s)} \in SUBSET U /\ Cardinality(s \ {Pick(s)}) = n
    BY <1>3, <2>1, FS_EmptySet
  <2>3. g[s \ {Pick(s)}] = h[s \ {Pick(s)}]
    BY <2>2
  <2> QED BY <1>2, <2>2, <2>3 DEF Added
<1> HIDE DEF N
<1>6. N = Nat
  BY <1>4, <1>5, NatSetInduction DEF N
<1> QED BY <1>3, <1>6 DEF N

\* The sum over nothing is zero.
LEMMA SumOfEmpty == ASSUME NEW f PROVE SumFunctionOnSet(f, {}) = 0
<1> DEFINE g == CHOOSE adder : IsAdder(adder, f, {})
<1>1. IsAdder(g, f, {})
  BY AdderExists, FS_EmptySet
<1>2. SumFunctionOnSet(f, {}) = g[{}]
  BY DEF SumFunctionOnSet, FoldFunctionOnSet, MapThenFoldSet, IsAdder, Pick
<1> HIDE DEF g
<1> QED BY <1>1, <1>2 DEF IsAdder

\* The sum takes one element, the one the fold picks, after the other.
LEMMA SumPick ==
    ASSUME NEW f, NEW S, IsFiniteSet(S), S # {}
    PROVE  SumFunctionOnSet(f, S) = f[Pick(S)] + SumFunctionOnSet(f, S \ {Pick(S)})
<1> DEFINE U == S \ {Pick(S)}
           g == CHOOSE adder : IsAdder(adder, f, S)
           h == CHOOSE adder : IsAdder(adder, f, U)
<1>0. IsFiniteSet(U) /\ U \in SUBSET S
  BY FS_Subset
<1>1. IsAdder(g, f, S) /\ IsAdder(h, f, U)
  BY <1>0, AdderExists
<1>2. SumFunctionOnSet(f, S) = g[S] /\ SumFunctionOnSet(f, U) = h[U]
  BY DEF SumFunctionOnSet, FoldFunctionOnSet, MapThenFoldSet, IsAdder, Pick
<1> HIDE DEF g, h
<1>3. g[U] = h[U]
  BY <1>0, <1>1, AddersAgree
<1>4. g[S] = f[Pick(S)] + g[U]
  BY <1>1 DEF IsAdder
<1> QED BY <1>2, <1>3, <1>4

\* Sums of natural numbers are natural numbers.
LEMMA SumIsNat ==
    ASSUME NEW S, IsFiniteSet(S), NEW f, \A x \in S : f[x] \in Nat
    PROVE  \A s \in SUBSET S : SumFunctionOnSet(f, s) \in Nat
<1> DEFINE N == {n \in Nat : \A s \in SUBSET S :
                    Cardinality(s) = n => SumFunctionOnSet(f, s) \in Nat}
<1>1. \A s \in SUBSET S : IsFiniteSet(s) /\ Cardinality(s) \in Nat
  BY FS_Subset, FS_CardinalityType
<1>2. 0 \in N
  BY <1>1, FS_EmptySet, SumOfEmpty
<1>3. ASSUME NEW n \in N
      PROVE  n + 1 \in N
  <2>1. SUFFICES ASSUME NEW s \in SUBSET S, Cardinality(s) = n + 1
                 PROVE  SumFunctionOnSet(f, s) \in Nat
    OBVIOUS
  <2>2. s # {} /\ IsFiniteSet(s)
    BY <1>1, <2>1, FS_EmptySet
  <2> DEFINE p == Pick(s)
  <2>3. p \in s
    BY <2>2 DEF Pick
  <2>4. SumFunctionOnSet(f, s) = f[p] + SumFunctionOnSet(f, s \ {p})
    BY <2>2, SumPick
  <2> HIDE DEF p
  <2>5. Cardinality(s \ {p}) = Cardinality(s) - 1
    BY <2>2, <2>3, FS_RemoveElement
  <2>6. Cardinality(s \ {p}) = n /\ s \ {p} \in SUBSET S
    BY <2>1, <2>5
  <2>7. SumFunctionOnSet(f, s \ {p}) \in Nat
    BY <2>6
  <2> QED BY <2>3, <2>4, <2>7
<1> HIDE DEF N
<1>4. N = Nat
  BY <1>2, <1>3, NatSetInduction DEF N
<1> QED BY <1>1, <1>4 DEF N

\* Sums of integers are integers.
LEMMA SumIsInt ==
    ASSUME NEW S, IsFiniteSet(S), NEW f, \A x \in S : f[x] \in Int
    PROVE  \A s \in SUBSET S : SumFunctionOnSet(f, s) \in Int
<1> DEFINE N == {n \in Nat : \A s \in SUBSET S :
                    Cardinality(s) = n => SumFunctionOnSet(f, s) \in Int}
<1>1. \A s \in SUBSET S : IsFiniteSet(s) /\ Cardinality(s) \in Nat
  BY FS_Subset, FS_CardinalityType
<1>2. 0 \in N
  BY <1>1, FS_EmptySet, SumOfEmpty
<1>3. ASSUME NEW n \in N
      PROVE  n + 1 \in N
  <2>1. SUFFICES ASSUME NEW s \in SUBSET S, Cardinality(s) = n + 1
                 PROVE  SumFunctionOnSet(f, s) \in Int
    OBVIOUS
  <2>2. s # {} /\ IsFiniteSet(s)
    BY <1>1, <2>1, FS_EmptySet
  <2> DEFINE p == Pick(s)
  <2>3. p \in s
    BY <2>2 DEF Pick
  <2>4. SumFunctionOnSet(f, s) = f[p] + SumFunctionOnSet(f, s \ {p})
    BY <2>2, SumPick
  <2> HIDE DEF p
  <2>5. Cardinality(s \ {p}) = Cardinality(s) - 1
    BY <2>2, <2>3, FS_RemoveElement
  <2>6. Cardinality(s \ {p}) = n /\ s \ {p} \in SUBSET S
    BY <2>1, <2>5
  <2>7. SumFunctionOnSet(f, s \ {p}) \in Int
    BY <2>6
  <2> QED BY <2>3, <2>4, <2>7
<1> HIDE DEF N
<1>4. N = Nat
  BY <1>2, <1>3, NatSetInduction DEF N
<1> QED BY <1>1, <1>4 DEF N

\* Any element can be taken out of a sum, not only the one picked.
LEMMA SumTakeOut ==
    ASSUME NEW S, IsFiniteSet(S), NEW f, \A x \in S : f[x] \in Int
    PROVE  \A x \in S : SumFunctionOnSet(f, S) = f[x] + SumFunctionOnSet(f, S \ {x})
<1> DEFINE Good(s) == \A x \in s :
                SumFunctionOnSet(f, s) = f[x] + SumFunctionOnSet(f, s \ {x})
           N == {n \in Nat : \A s \in SUBSET S : Cardinality(s) = n => Good(s)}
<1>1. \A s \in SUBSET S : IsFiniteSet(s) /\ Cardinality(s) \in Nat
  BY FS_Subset, FS_CardinalityType
<1>2. 0 \in N
  BY <1>1, FS_EmptySet
<1>3. ASSUME NEW n \in N
      PROVE  n + 1 \in N
  <2>1. SUFFICES ASSUME NEW s \in SUBSET S, Cardinality(s) = n + 1, NEW x \in s
                 PROVE  SumFunctionOnSet(f, s) = f[x] + SumFunctionOnSet(f, s \ {x})
    OBVIOUS
  <2>2. s # {} /\ IsFiniteSet(s)
    BY <1>1
  <2> DEFINE p == Pick(s)
  <2>3. p \in s
    BY <2>2 DEF Pick
  <2>4. SumFunctionOnSet(f, s) = f[p] + SumFunctionOnSet(f, s \ {p})
    BY <2>2, SumPick
  <2> HIDE DEF p
  <2>5. \A y \in s : Good(s \ {y})
    <3>1. TAKE y \in s
    <3>2. Cardinality(s \ {y}) = Cardinality(s) - 1
      BY <2>2, FS_RemoveElement
    <3>3. Cardinality(s \ {y}) = n /\ s \ {y} \in SUBSET S
      BY <2>1, <3>2
    <3> QED BY <3>3
  <2>6. CASE x = p
    BY <2>4, <2>6
  <2>7. CASE x # p
    <3> DEFINE rest == SumFunctionOnSet(f, (s \ {p}) \ {x})
    <3>1. SumFunctionOnSet(f, s \ {p}) = f[x] + rest
      BY <2>3, <2>5, <2>7
    <3>2. SumFunctionOnSet(f, s \ {x}) = f[p] + rest
      <4>1. (s \ {p}) \ {x} = (s \ {x}) \ {p}
        OBVIOUS
      <4>2. SumFunctionOnSet(f, s \ {x}) = f[p] + SumFunctionOnSet(f, (s \ {x}) \ {p})
        BY <2>3, <2>5, <2>7
      <4> QED BY <4>1, <4>2
    <3>3. rest \in Int /\ f[x] \in Int /\ f[p] \in Int
      BY <2>3, SumIsInt
    <3> HIDE DEF rest
    <3> QED BY <2>4, <3>1, <3>2, <3>3
  <2> QED BY <2>6, <2>7
<1> HIDE DEF N
<1>4. N = Nat
  BY <1>2, <1>3, NatSetInduction DEF N
<1>5. S \in SUBSET S /\ Cardinality(S) \in N
  BY <1>1, <1>4
<1> QED BY <1>5 DEF N

\* Equal terms, equal sums.
LEMMA SumCong ==
    ASSUME NEW S, IsFiniteSet(S), NEW f, \A x \in S : f[x] \in Int,
           NEW g, \A x \in S : g[x] = f[x]
    PROVE  SumFunctionOnSet(g, S) = SumFunctionOnSet(f, S)
<1> DEFINE T == {s \in SUBSET S : SumFunctionOnSet(g, s) = SumFunctionOnSet(f, s)}
<1>1. {} \in T
  BY SumOfEmpty
<1>2. ASSUME NEW s \in T, NEW x \in S \ s
      PROVE  s \cup {x} \in T
  <2> DEFINE u == s \cup {x}
  <2>1. u \in SUBSET S /\ x \in u /\ u \ {x} = s /\ IsFiniteSet(u)
    BY FS_Subset
  <2> HIDE DEF u
  <2>2. /\ SumFunctionOnSet(f, u) = f[x] + SumFunctionOnSet(f, s)
        /\ SumFunctionOnSet(g, u) = g[x] + SumFunctionOnSet(g, s)
    <3>1. \A y \in u : f[y] \in Int /\ g[y] \in Int
      BY <2>1
    <3> QED BY <2>1, <3>1, SumTakeOut
  <2>3. g[x] = f[x] /\ SumFunctionOnSet(g, s) = SumFunctionOnSet(f, s)
    OBVIOUS
  <2> QED BY <2>1, <2>2, <2>3 DEF u
<1>3. \A s \in SUBSET S : s \in T
  <2> HIDE DEF T
  <2> QED BY <1>1, <1>2, SubsetInduction DEF T
<1> QED BY <1>3

(* g is f with one value changed *)
LEMMA SumChange ==
    ASSUME NEW S, IsFiniteSet(S), NEW f, NEW g, NEW x \in S,
           \A y \in S : f[y] \in Int /\ g[y] \in Int,
           \A y \in S : y # x => g[y] = f[y]
    PROVE  SumFunctionOnSet(g, S) = SumFunctionOnSet(f, S) + g[x] - f[x]
<1> DEFINE rest == SumFunctionOnSet(f, S \ {x})
<1>1. S \ {x} \in SUBSET S /\ IsFiniteSet(S \ {x})
  BY FS_Subset
<1>2. SumFunctionOnSet(f, S) = f[x] + rest
  BY SumTakeOut
<1>3. SumFunctionOnSet(g, S \ {x}) = rest
  BY <1>1, SumCong
<1>4. SumFunctionOnSet(g, S) = g[x] + rest
  BY <1>3, SumTakeOut
<1>5. rest \in Int
  BY <1>1, SumIsInt
<1> HIDE DEF rest
<1> QED BY <1>2, <1>4, <1>5

\* A sum of zeros is zero.
LEMMA SumOfZero ==
    ASSUME NEW S, IsFiniteSet(S), NEW f, \A x \in S : f[x] = 0
    PROVE  SumFunctionOnSet(f, S) = 0
<1> DEFINE T == {s \in SUBSET S : SumFunctionOnSet(f, s) = 0}
<1>1. {} \in T
  BY SumOfEmpty
<1>2. ASSUME NEW s \in T, NEW x \in S \ s
      PROVE  s \cup {x} \in T
  <2> DEFINE u == s \cup {x}
  <2>1. u \in SUBSET S /\ x \in u /\ u \ {x} = s /\ IsFiniteSet(u)
    BY FS_Subset
  <2> HIDE DEF u
  <2>2. SumFunctionOnSet(f, u) = f[x] + SumFunctionOnSet(f, s)
    <3>1. \A y \in u : f[y] \in Int
      BY <2>1
    <3> QED BY <2>1, <3>1, SumTakeOut
  <2> QED BY <2>1, <2>2 DEF u
<1>3. \A s \in SUBSET S : s \in T
  <2> HIDE DEF T
  <2> QED BY <1>1, <1>2, SubsetInduction DEF T
<1> QED BY <1>3

\* No term is larger than the sum.
LEMMA SumBounds ==
    ASSUME NEW S, IsFiniteSet(S), NEW f, \A x \in S : f[x] \in Nat, NEW x \in S
    PROVE  f[x] <= SumFunctionOnSet(f, S)
<1>1. SumFunctionOnSet(f, S) = f[x] + SumFunctionOnSet(f, S \ {x})
  <2>1. \A y \in S : f[y] \in Int
    OBVIOUS
  <2> QED BY <2>1, SumTakeOut
<1>2. SumFunctionOnSet(f, S \ {x}) \in Nat
  BY SumIsNat
<1> QED BY <1>1, <1>2

(***************************************************************************)
(* The assumptions.                                                        *)
(***************************************************************************)

TransferAssumptions ==
    /\ EstAssumptions
    /\ AmountsAreIntegers /\ MalformedAreNoAddresses /\ AddressesAreFinite /\ DataAreTransfers

\* The assumptions of the modules, under one name.
LEMMA TransfersAssume == TransferAssumptions
BY EstablishedAssumptions, AmountsAreIntegers, MalformedAreNoAddresses, AddressesAreFinite,
   DataAreTransfers DEF TransferAssumptions

\* The sums range over finite sets.
LEMMA IndicesAreFinite ==
    ASSUME TransferAssumptions
    PROVE  IsFiniteSet(Seqs) /\ IsFiniteSet(ChanId) /\ IsFiniteSet(Addresses)
<1>1. MaxSeq \in Int /\ MaxChan \in Int
  BY DEF TransferAssumptions, EstAssumptions, ChanAssumptions, ChanBoundsAreNat
<1>2. IsFiniteSet(1..MaxSeq) /\ IsFiniteSet(1..MaxChan)
  BY <1>1, FS_Interval
<1> QED BY <1>2 DEF Seqs, ChanId, TransferAssumptions, AddressesAreFinite

\* The fields of a packet's contents.
LEMMA DataFields ==
    ASSUME TransferAssumptions, NEW data \in Data
    PROVE  /\ data \in FungibleTokenPacketData /\ data.denom \in Denom
           /\ data.amount \in Amounts /\ data.amount \in Int
           /\ data.sender \in Addresses /\ data.receiver \in Addresses \cup Malformed
<1>1. data \in FungibleTokenPacketData
  BY DEF TransferAssumptions, DataAreTransfers
<1>2. /\ data.denom \in Denom /\ data.amount \in Amounts /\ data.sender \in Addresses
      /\ data.receiver \in Addresses \cup Malformed
  BY <1>1 DEF FungibleTokenPacketData
<1>3. data.amount \in Int
  BY <1>2 DEF TransferAssumptions, AmountsAreIntegers
<1> QED BY <1>1, <1>2, <1>3

\* What is held are such contents.
LEMMA HeldData ==
    ASSUME TypeOK, NEW c \in Chain, NEW i \in ChanId, NEW seq \in Seqs, packets[c][i][seq] # NoPacket
    PROVE  packets[c][i][seq].data \in Data
BY DEF TypeOK, Packet

\* The payload of a packet that is held is a transfer, after a step too.
LEMMA HeldDataNext ==
    ASSUME TypeOK', NEW c \in Chain, NEW i \in ChanId, NEW seq \in Seqs, packets'[c][i][seq] # NoPacket
    PROVE  packets'[c][i][seq].data \in Data
BY DEF TypeOK, Packet

\* A sum whose function changes at one place changes by as much.
LEMMA SumShift ==
    ASSUME NEW S, IsFiniteSet(S), NEW f, NEW g, NEW x \in S, NEW a \in Int,
           \A y \in S : f[y] \in Int /\ g[y] \in Int /\ g[y] = f[y] + (IF y = x THEN a ELSE 0)
    PROVE  SumFunctionOnSet(g, S) = SumFunctionOnSet(f, S) + a
<1>1. SumFunctionOnSet(g, S) = SumFunctionOnSet(f, S) + g[x] - f[x]
  <2>1. \A y \in S : y # x => g[y] = f[y]
    OBVIOUS
  <2> QED BY <2>1, SumChange
<1>2. SumFunctionOnSet(f, S) \in Int
  BY SumIsInt
<1>3. g[x] = f[x] + a /\ f[x] \in Int /\ g[x] \in Int
  OBVIOUS
<1> QED BY <1>1, <1>2, <1>3

\* g is f but for a more at x, and that only under a condition.
ShiftsAt(f, g, S, x, a, hit) ==
    \A y \in S : f[y] \in Int /\ g[y] \in Int /\ g[y] = f[y] + (IF y = x /\ hit THEN a ELSE 0)

\* A sum changes under the condition its function changes under.
LEMMA SumShiftsIf ==
    ASSUME NEW S, IsFiniteSet(S), NEW f, NEW g, NEW x \in S, NEW a \in Int, NEW hit \in BOOLEAN,
           ShiftsAt(f, g, S, x, a, hit)
    PROVE  SumFunctionOnSet(g, S) = SumFunctionOnSet(f, S) + (IF hit THEN a ELSE 0)
<1>1. CASE hit
  <2>1. \A y \in S : f[y] \in Int /\ g[y] \in Int /\ g[y] = f[y] + (IF y = x THEN a ELSE 0)
    BY <1>1 DEF ShiftsAt
  <2>2. SumFunctionOnSet(g, S) = SumFunctionOnSet(f, S) + a
    BY <2>1, SumShift
  <2> QED BY <1>1, <2>2
<1>2. CASE ~hit
  <2>1. \A y \in S : f[y] \in Int /\ g[y] = f[y]
    BY <1>2 DEF ShiftsAt
  <2>2. SumFunctionOnSet(g, S) = SumFunctionOnSet(f, S)
    BY <2>1, SumCong
  <2>3. SumFunctionOnSet(f, S) \in Int
    BY <2>1, SumIsInt
  <2> QED BY <1>2, <2>2, <2>3
<1> QED BY <1>1, <1>2

\* What is on its way is an integer, packet by packet and in all.
LEMMA OnItsWayIsInt ==
    ASSUME TransferAssumptions, TypeOK, NEW c \in Chain, NEW i \in ChanId, NEW denom
    PROVE  /\ \A seq \in Seqs : Moving(c, i, denom)[seq] \in Int
           /\ OnItsWay(c, i, denom) \in Int
<1>1. \A seq \in Seqs : packets[c][i][seq] # NoPacket => packets[c][i][seq].data.amount \in Int
  BY HeldData, DataFields
<1>2. \A seq \in Seqs : Moving(c, i, denom)[seq] \in Int
  BY <1>1 DEF Moving, Unsettled
<1>3. SumFunctionOnSet(Moving(c, i, denom), Seqs) \in Int
  BY <1>2, IndicesAreFinite, SumIsInt
<1> QED BY <1>2, <1>3 DEF OnItsWay

AmountsAreNat == Amounts \subseteq Nat

\* It is a natural number if no amount is negative.
LEMMA OnItsWayIsNat ==
    ASSUME TransferAssumptions, AmountsAreNat, TypeOK, NEW c \in Chain, NEW i \in ChanId, NEW denom
    PROVE  /\ \A seq \in Seqs : Moving(c, i, denom)[seq] \in Nat
           /\ OnItsWay(c, i, denom) \in Nat
<1>1. \A seq \in Seqs : packets[c][i][seq] # NoPacket => packets[c][i][seq].data.amount \in Nat
  BY HeldData, DataFields DEF AmountsAreNat
<1>2. \A seq \in Seqs : Moving(c, i, denom)[seq] \in Nat
  BY <1>1 DEF Moving, Unsettled
<1>3. SumFunctionOnSet(Moving(c, i, denom), Seqs) \in Nat
  BY <1>2, IndicesAreFinite, SumIsNat
<1> QED BY <1>2, <1>3 DEF OnItsWay

\* What is on its way is an integer, after a step too.
LEMMA OnItsWayNext ==
    ASSUME TransferAssumptions, TypeOK', NEW c \in Chain, NEW i \in ChanId, NEW denom
    PROVE  /\ \A seq \in Seqs : Moving(c, i, denom)'[seq] \in Int
           /\ OnItsWay(c, i, denom)' \in Int
<1>1. \A seq \in Seqs : packets'[c][i][seq] # NoPacket => packets'[c][i][seq].data.amount \in Int
  BY HeldDataNext, DataFields
<1>2. \A seq \in Seqs : Moving(c, i, denom)'[seq] \in Int
  BY <1>1 DEF Moving, Unsettled
<1> DEFINE g == Moving(c, i, denom)'
<1>3. OnItsWay(c, i, denom)' = SumFunctionOnSet(g, Seqs)
  BY DEF OnItsWay
<1>4. \A seq \in Seqs : g[seq] \in Int
  BY <1>2
<1> HIDE DEF g
<1>5. SumFunctionOnSet(g, Seqs) \in Int
  BY <1>4, IndicesAreFinite, SumIsInt
<1> QED BY <1>2, <1>3, <1>5

\* A packet that moves counts in full.
LEMMA MovingCounts ==
    ASSUME TransferAssumptions, AmountsAreNat, TypeOK, NEW c \in Chain, NEW i \in ChanId, NEW seq \in Seqs,
           Unsettled(c, i, seq)
    PROVE  packets[c][i][seq].data.amount <= OnItsWay(c, i, packets[c][i][seq].data.denom)
<1> DEFINE denom == packets[c][i][seq].data.denom
<1>1. Moving(c, i, denom)[seq] = packets[c][i][seq].data.amount
  BY DEF Moving
<1> HIDE DEF denom
<1>2. Moving(c, i, denom)[seq] <= SumFunctionOnSet(Moving(c, i, denom), Seqs)
  BY OnItsWayIsNat, IndicesAreFinite, SumBounds
<1> QED BY <1>1, <1>2 DEF OnItsWay, denom

\* The amount a moves in denomination denom from channel i of c, nothing else.
Shift(c, i, denom, a) ==
    \A d \in Chain, k \in ChanId : \A e :
        OnItsWay(d, k, e)' = OnItsWay(d, k, e) + (IF d = c /\ k = i /\ e = denom THEN a ELSE 0)

NoShift == \A d \in Chain, k \in ChanId : \A e : OnItsWay(d, k, e)' = OnItsWay(d, k, e)

\* From one packet to the sums.
LEMMA PacketShifts ==
    ASSUME TransferAssumptions, TypeOK, TypeOK', NEW c \in Chain, NEW i \in ChanId, NEW seq \in Seqs,
           NEW denom, NEW a \in Int,
           \A d \in Chain, k \in ChanId : \A e : \A s \in Seqs :
              Moving(d, k, e)'[s] = Moving(d, k, e)[s]
                 + (IF d = c /\ k = i /\ s = seq /\ e = denom THEN a ELSE 0)
    PROVE  Shift(c, i, denom, a)
<1>1. SUFFICES ASSUME NEW d \in Chain, NEW k \in ChanId, NEW e
               PROVE  OnItsWay(d, k, e)' = OnItsWay(d, k, e)
                         + (IF d = c /\ k = i /\ e = denom THEN a ELSE 0)
  BY DEF Shift
<1>2. /\ \A s \in Seqs : Moving(d, k, e)[s] \in Int
      /\ OnItsWay(d, k, e) \in Int
  BY OnItsWayIsInt
<1>3. \A s \in Seqs : Moving(d, k, e)'[s] \in Int
  <2>1. \A s \in Seqs : packets'[d][k][s] # NoPacket => packets'[d][k][s].data.amount \in Int
    BY HeldDataNext, DataFields
  <2> QED BY <2>1 DEF Moving, Unsettled
<1> DEFINE f == Moving(d, k, e)  g == Moving(d, k, e)'
<1>4. OnItsWay(d, k, e) = SumFunctionOnSet(f, Seqs) /\ OnItsWay(d, k, e)' = SumFunctionOnSet(g, Seqs)
  BY DEF OnItsWay
<1>5. \A s \in Seqs : f[s] \in Int /\ g[s] \in Int
  BY <1>2, <1>3
<1>6. \A s \in Seqs : g[s] = f[s] + (IF d = c /\ k = i /\ s = seq /\ e = denom THEN a ELSE 0)
  OBVIOUS
<1> HIDE DEF f, g
<1>7. CASE d = c /\ k = i /\ e = denom
  <2>1. \A s \in Seqs : f[s] \in Int /\ g[s] \in Int /\ g[s] = f[s] + (IF s = seq THEN a ELSE 0)
    BY <1>5, <1>6, <1>7
  <2>2. SumFunctionOnSet(g, Seqs) = SumFunctionOnSet(f, Seqs) + a
    BY <2>1, SumShift, IndicesAreFinite
  <2> QED BY <1>4, <1>7, <2>2
<1>8. CASE ~(d = c /\ k = i /\ e = denom)
  <2>1. \A s \in Seqs : g[s] = f[s]
    BY <1>5, <1>6, <1>8
  <2>2. SumFunctionOnSet(g, Seqs) = SumFunctionOnSet(f, Seqs)
    BY <1>5, <2>1, SumCong, IndicesAreFinite
  <2> QED BY <1>2, <1>4, <1>8, <2>2
<1> QED BY <1>7, <1>8

\* The same when no packet moves.
LEMMA NothingShifts ==
    ASSUME TransferAssumptions, TypeOK,
           \A d \in Chain, k \in ChanId : \A e : \A s \in Seqs : Moving(d, k, e)'[s] = Moving(d, k, e)[s]
    PROVE  NoShift
<1>1. SUFFICES ASSUME NEW d \in Chain, NEW k \in ChanId, NEW e
               PROVE  OnItsWay(d, k, e)' = OnItsWay(d, k, e)
  BY DEF NoShift
<1> DEFINE f == Moving(d, k, e)  g == Moving(d, k, e)'
<1>2. OnItsWay(d, k, e) = SumFunctionOnSet(f, Seqs) /\ OnItsWay(d, k, e)' = SumFunctionOnSet(g, Seqs)
  BY DEF OnItsWay
<1>3. \A s \in Seqs : f[s] \in Int /\ g[s] = f[s]
  BY OnItsWayIsInt
<1> HIDE DEF f, g
<1> QED BY <1>2, <1>3, SumCong, IndicesAreFinite

\* The next packet of a channel is not held yet, nor answered.
LEMMA NextIsFresh ==
    ASSUME TransferAssumptions, EstIInv, NEW c \in Chain, NEW i \in ChanId,
           nextSequenceSend[c][i] \in Seqs
    PROVE  LET next == nextSequenceSend[c][i] IN
           /\ packets[c][i][next] = NoPacket
           /\ acknowledgements[Other(c)][Partner(i)][next] = NoAck
<1> DEFINE next == nextSequenceSend[c][i]
<1>0. TypeOK /\ EstAssumptions /\ Linked
  BY DEF EstIInv, ChanIInv, TransferAssumptions
<1>1. \A p \in sentLog[c] : p.chan = i => p.seq # next
  <2>1. \A p \in sentLog[c] : p.seq < nextSequenceSend[c][p.chan]
    BY DEF EstIInv, ChanIInv, SentOnce
  <2>2. \A p \in sentLog[c] : p.seq \in Nat
    BY <1>0, EvidenceTypes
  <2> QED BY <2>1, <2>2
<1>2. packets[c][i][next] = NoPacket
  <2>1. SUFFICES ASSUME packets[c][i][next] # NoPacket
                 PROVE  FALSE
    OBVIOUS
  <2> DEFINE p == [port |-> chans[c][i].port, chan |-> i, seq |-> next,
                   data |-> packets[c][i][next].data]
  <2>2. p \in sentLog[c]
    BY <2>1 DEF EstIInv, TransitIInv, HeldIsSent
  <2>3. p.chan = i /\ p.seq = next
    OBVIOUS
  <2> HIDE DEF p, next
  <2> QED BY <1>1, <2>2, <2>3
<1>3. acknowledgements[Other(c)][Partner(i)][next] = NoAck
  <2>1. Other(c) \in Chain /\ Partner(i) \in ChanId /\ Other(Other(c)) = c /\ Partner(Partner(i)) = i
    BY <1>0, OtherHost, PartnerFacts DEF EstAssumptions, ChanAssumptions, ConnAssumptions
  <2>2. acknowledgements[Other(c)][Partner(i)][next] # NoAck
           => \E p \in sentLog[Other(Other(c))] : p.chan = Partner(Partner(i)) /\ p.seq = next
    BY <2>1 DEF EstIInv, TransitIInv, AnsweredIsReceived
  <2> QED BY <1>1, <2>1, <2>2
<1> QED BY <1>2, <1>3

\* sendPacket puts the amount on its way.
LEMMA SendShifts ==
    ASSUME TransferAssumptions, EstIInv, TypeOK', NEW c \in Chain, NEW i \in ChanId, NEW data \in Data,
           SendPacket(c, i, data)
    PROVE  Shift(c, i, data.denom, data.amount)
<1> DEFINE next == nextSequenceSend[c][i]
<1>0. TypeOK /\ EstAssumptions /\ Linked
  BY DEF EstIInv, ChanIInv, TransferAssumptions
<1>1. /\ next \in Seqs
      /\ \A d \in Chain, k \in ChanId, s \in Seqs :
            packets'[d][k][s] = IF d = c /\ k = i /\ s = next
               THEN [dst |-> Partner(i), data |-> data] ELSE packets[d][k][s]
      /\ packets'[c][i][next] # NoPacket
      /\ UNCHANGED <<chans, acknowledgements>>
  BY <1>0, SendFacts
<1>2. packets[c][i][next] = NoPacket /\ acknowledgements[Other(c)][Partner(i)][next] = NoAck
  BY <1>1, NextIsFresh
<1>3. packets'[c][i][next].data = data /\ chans[c][i].cpChan = Partner(i)
  BY <1>0, <1>1 DEF Linked
<1>4. NoAck # [ack |-> "result"]
  BY DEF NoAck
<1>5. data.amount \in Int
  BY DataFields
<1> HIDE DEF next
<1>6. ASSUME NEW d \in Chain, NEW k \in ChanId, NEW e, NEW s \in Seqs
      PROVE  Moving(d, k, e)'[s] = Moving(d, k, e)[s]
                + (IF d = c /\ k = i /\ s = next /\ e = data.denom THEN data.amount ELSE 0)
  <2>1. CASE d = c /\ k = i /\ s = next
    <3>1. Moving(d, k, e)[s] = 0
      BY <1>2, <2>1 DEF Moving, Unsettled
    <3>2. Moving(d, k, e)'[s] = IF data.denom = e THEN data.amount ELSE 0
      BY <1>1, <1>2, <1>3, <1>4, <2>1 DEF Moving, Unsettled
    <3> QED BY <1>5, <2>1, <3>1, <3>2
  <2>2. CASE ~(d = c /\ k = i /\ s = next)
    <3>1. packets'[d][k][s] = packets[d][k][s]
      BY <1>1, <2>2
    <3>2. Moving(d, k, e)'[s] = Moving(d, k, e)[s]
      BY <1>1, <3>1 DEF Moving, Unsettled
    <3>3. Moving(d, k, e)[s] \in Int
      BY <1>0, OnItsWayIsInt
    <3> QED BY <2>2, <3>2, <3>3
  <2> QED BY <2>1, <2>2
<1> QED BY <1>0, <1>1, <1>5, <1>6, PacketShifts

\* A packet that recvPacket takes is the one its sender still holds.
LEMMA ReceivedIsHeld ==
    ASSUME TransferAssumptions, EstIInv, NEW c \in Chain, NEW i \in ChanId, NEW seq \in Seqs,
           NEW data \in Data, NEW ack \in Acks, RecvPacket(c, i, seq, data, ack)
    PROVE  /\ Other(c) \in Chain /\ Other(Other(c)) = c
           /\ Partner(i) \in ChanId /\ Partner(Partner(i)) = i
           /\ acknowledgements[c][i][seq] = NoAck
           /\ packets[Other(c)][Partner(i)][seq] # NoPacket
           /\ packets[Other(c)][Partner(i)][seq].data = data
           /\ \A d \in Chain, k \in ChanId, s \in Seqs :
                 acknowledgements'[d][k][s] = IF d = c /\ k = i /\ s = seq
                    THEN [ack |-> ack] ELSE acknowledgements[d][k][s]
           /\ UNCHANGED <<chans, packets>>
<1>0. TypeOK /\ EstAssumptions /\ Linked /\ AnsweredIsReceived
  BY DEF EstIInv, ChanIInv, TransferAssumptions, TransitIInv
<1>1. Other(c) \in Chain /\ Partner(i) \in ChanId /\ Other(Other(c)) = c /\ Partner(Partner(i)) = i
  BY <1>0, OtherHost, PartnerFacts DEF EstAssumptions, ChanAssumptions, ConnAssumptions
<1>2. /\ acknowledgements[c][i][seq] = NoAck
      /\ [port |-> chans[c][i].cpPort, chan |-> Partner(i), seq |-> seq, data |-> data]
            \in sentLog[Other(c)]
      /\ \A d \in Chain, k \in ChanId, s \in Seqs :
            acknowledgements'[d][k][s] = IF d = c /\ k = i /\ s = seq
               THEN [ack |-> ack] ELSE acknowledgements[d][k][s]
      /\ UNCHANGED <<chans, packets>>
  BY <1>0, RecvFacts
<1> DEFINE p == [port |-> chans[c][i].cpPort, chan |-> Partner(i), seq |-> seq, data |-> data]
<1>3. p \in sentLog[Other(c)] /\ p.chan = Partner(i) /\ p.seq = seq /\ p.data = data
  BY <1>2
<1> HIDE DEF p
<1>4. packets[Other(c)][Partner(i)][seq] # NoPacket
  BY <1>1, <1>2, <1>3 DEF EstIInv, TransitIInv, SentIsHeldOrAnswered
<1> DEFINE q == [port |-> chans[Other(c)][Partner(i)].port, chan |-> Partner(i), seq |-> seq,
                 data |-> packets[Other(c)][Partner(i)][seq].data]
<1>5. q \in sentLog[Other(c)]
  BY <1>1, <1>4 DEF EstIInv, TransitIInv, HeldIsSent
<1>6. q.chan = Partner(i) /\ q.seq = seq /\ q.data = packets[Other(c)][Partner(i)][seq].data
  OBVIOUS
<1> HIDE DEF q
<1>7. q.data = p.data
  BY <1>1, <1>3, <1>5, <1>6 DEF EstIInv, ChanIInv, SentOnce
<1> QED BY <1>1, <1>2, <1>3, <1>4, <1>6, <1>7

\* A packet that is received is still held by its sender.
LEMMA HeldByPeer ==
    ASSUME TransferAssumptions, EstIInv, NEW c \in Chain, NEW i \in ChanId, NEW seq \in Seqs,
           NEW data \in Data, NEW ack \in Acks, RecvPacket(c, i, seq, data, ack)
    PROVE  /\ packets[Other(c)][Partner(i)][seq] # NoPacket
           /\ packets[Other(c)][Partner(i)][seq].data = data
<1>1. /\ Other(c) \in Chain /\ Other(Other(c)) = c
      /\ Partner(i) \in ChanId /\ Partner(Partner(i)) = i
      /\ acknowledgements[c][i][seq] = NoAck
      /\ packets[Other(c)][Partner(i)][seq] # NoPacket
      /\ packets[Other(c)][Partner(i)][seq].data = data
      /\ \A d \in Chain, k \in ChanId, s \in Seqs :
            acknowledgements'[d][k][s] = IF d = c /\ k = i /\ s = seq
               THEN [ack |-> ack] ELSE acknowledgements[d][k][s]
      /\ UNCHANGED <<chans, packets>>
  BY ReceivedIsHeld
<1> QED BY <1>1

\* Answering "result" takes the amount off the sender's channel.
LEMMA RecvShifts ==
    ASSUME TransferAssumptions, EstIInv, TypeOK', NEW c \in Chain, NEW i \in ChanId, NEW seq \in Seqs,
           NEW data \in Data, "result" \in Acks, RecvPacket(c, i, seq, data, "result")
    PROVE  /\ Shift(Other(c), Partner(i), data.denom, -data.amount)
           /\ AmountsAreNat => data.amount <= OnItsWay(Other(c), Partner(i), data.denom)
<1>0. TypeOK /\ EstAssumptions /\ Linked
  BY DEF EstIInv, ChanIInv, TransferAssumptions
<1>1. /\ Other(c) \in Chain /\ Other(Other(c)) = c
      /\ Partner(i) \in ChanId /\ Partner(Partner(i)) = i
      /\ acknowledgements[c][i][seq] = NoAck
      /\ packets[Other(c)][Partner(i)][seq] # NoPacket
      /\ packets[Other(c)][Partner(i)][seq].data = data
      /\ \A d \in Chain, k \in ChanId, s \in Seqs :
            acknowledgements'[d][k][s] = IF d = c /\ k = i /\ s = seq
               THEN [ack |-> "result"] ELSE acknowledgements[d][k][s]
      /\ UNCHANGED <<chans, packets>>
  BY ReceivedIsHeld
<1>2. NoAck # [ack |-> "result"]
  BY DEF NoAck
<1>3. data.amount \in Int /\ -data.amount \in Int
  BY DataFields
<1>4. \A d \in Chain, k \in ChanId :
         /\ chans[d][k].cpChan = Partner(k) /\ Other(d) \in Chain /\ Partner(k) \in ChanId
         /\ Other(d) = c <=> d = Other(c)
         /\ Partner(k) = i <=> k = Partner(i)
  BY <1>0, OtherHost, PartnerFacts DEF Linked, EstAssumptions, ChanAssumptions, ConnAssumptions
<1>5. ASSUME NEW d \in Chain, NEW k \in ChanId, NEW e, NEW s \in Seqs
      PROVE  Moving(d, k, e)'[s] = Moving(d, k, e)[s]
                + (IF d = Other(c) /\ k = Partner(i) /\ s = seq /\ e = data.denom THEN -data.amount ELSE 0)
  <2>1. CASE d = Other(c) /\ k = Partner(i) /\ s = seq
    <3>1. Moving(d, k, e)[s] = IF data.denom = e THEN data.amount ELSE 0
      BY <1>1, <1>2, <1>4, <2>1 DEF Moving, Unsettled
    <3>2. acknowledgements'[Other(d)][Partner(k)][s] = [ack |-> "result"]
      BY <1>1, <2>1
    <3>3. Moving(d, k, e)'[s] = 0
      BY <1>1, <1>4, <3>2 DEF Moving, Unsettled
    <3> QED BY <1>3, <2>1, <3>1, <3>3
  <2>2. CASE ~(d = Other(c) /\ k = Partner(i) /\ s = seq)
    <3>1. acknowledgements'[Other(d)][Partner(k)][s] = acknowledgements[Other(d)][Partner(k)][s]
      BY <1>1, <1>4, <2>2
    <3>2. Moving(d, k, e)'[s] = Moving(d, k, e)[s]
      BY <1>1, <1>4, <3>1 DEF Moving, Unsettled
    <3>3. Moving(d, k, e)[s] \in Int
      BY <1>0, OnItsWayIsInt
    <3> QED BY <2>2, <3>2, <3>3
  <2> QED BY <2>1, <2>2
<1>6. Shift(Other(c), Partner(i), data.denom, -data.amount)
  BY <1>0, <1>1, <1>3, <1>5, PacketShifts
<1>7. Unsettled(Other(c), Partner(i), seq)
  BY <1>1, <1>2, <1>4 DEF Unsettled
<1> QED BY <1>0, <1>1, <1>6, <1>7, MovingCounts

\* Any other answer leaves it where it is.
LEMMA RefusalShiftsNothing ==
    ASSUME TransferAssumptions, EstIInv, NEW c \in Chain, NEW i \in ChanId, NEW seq \in Seqs,
           NEW data \in Data, NEW ack \in Acks, ack # "result", RecvPacket(c, i, seq, data, ack)
    PROVE  NoShift
<1>0. TypeOK /\ EstAssumptions /\ Linked
  BY DEF EstIInv, ChanIInv, TransferAssumptions
<1>1. /\ acknowledgements[c][i][seq] = NoAck
      /\ \A d \in Chain, k \in ChanId, s \in Seqs :
            acknowledgements'[d][k][s] = IF d = c /\ k = i /\ s = seq
               THEN [ack |-> ack] ELSE acknowledgements[d][k][s]
      /\ UNCHANGED <<chans, packets>>
  BY ReceivedIsHeld
<1>2. NoAck # [ack |-> "result"] /\ [ack |-> ack] # [ack |-> "result"]
  <2>1. [ack |-> ack].ack # [ack |-> "result"].ack
    OBVIOUS
  <2> QED BY <2>1 DEF NoAck
<1>3. \A d \in Chain, k \in ChanId :
         chans[d][k].cpChan = Partner(k) /\ Other(d) \in Chain /\ Partner(k) \in ChanId
  BY <1>0, EvidenceTypes DEF Linked
<1>4. \A d \in Chain, k \in ChanId, s \in Seqs :
         acknowledgements'[d][k][s] = [ack |-> "result"] <=> acknowledgements[d][k][s] = [ack |-> "result"]
  BY <1>1, <1>2
<1>5. \A d \in Chain, k \in ChanId : \A e : \A s \in Seqs : Moving(d, k, e)'[s] = Moving(d, k, e)[s]
  BY <1>1, <1>3, <1>4 DEF Moving, Unsettled
<1> QED BY <1>0, <1>5, NothingShifts

\* The packet an acknowledgement takes away, and the answer to it.
LEMMA AckedIsHeld ==
    ASSUME TransferAssumptions, EstIInv, NEW c \in Chain, NEW i \in ChanId, NEW seq \in Seqs,
           NEW ack \in Acks, AcknowledgePacket(c, i, seq, ack)
    PROVE  /\ packets[c][i][seq] # NoPacket
           /\ acknowledgements[Other(c)][Partner(i)][seq] = [ack |-> ack]
           /\ \A d \in Chain, k \in ChanId, s \in Seqs :
                 packets'[d][k][s] = IF d = c /\ k = i /\ s = seq THEN NoPacket ELSE packets[d][k][s]
           /\ UNCHANGED <<chans, acknowledgements>>
<1>0. TypeOK /\ EstAssumptions /\ Linked /\ EvidenceIsAnswer
  BY DEF EstIInv, ChanIInv, TransferAssumptions, TransitIInv
<1>1. /\ packets[c][i][seq] # NoPacket
      /\ acknowledgements[Other(c)][Partner(i)][seq] = [ack |-> ack]
      /\ acknowledgements[Other(c)][Partner(i)][seq] # NoAck
      /\ \A d \in Chain, k \in ChanId, s \in Seqs :
            packets'[d][k][s] = IF d = c /\ k = i /\ s = seq THEN NoPacket ELSE packets[d][k][s]
      /\ UNCHANGED <<chans, nextSequenceRecv, receipts, acknowledgements, sentLog, ackLog>>
  BY <1>0, AckFacts
<1> QED BY <1>1

\* Acknowledging a "result" changes nothing: the amount has arrived.
LEMMA ResultShiftsNothing ==
    ASSUME TransferAssumptions, EstIInv, NEW c \in Chain, NEW i \in ChanId, NEW seq \in Seqs,
           "result" \in Acks, AcknowledgePacket(c, i, seq, "result")
    PROVE  NoShift
<1>0. TypeOK /\ EstAssumptions /\ Linked
  BY DEF EstIInv, ChanIInv, TransferAssumptions
<1>1. /\ acknowledgements[Other(c)][Partner(i)][seq] = [ack |-> "result"]
      /\ \A d \in Chain, k \in ChanId, s \in Seqs :
            packets'[d][k][s] = IF d = c /\ k = i /\ s = seq THEN NoPacket ELSE packets[d][k][s]
      /\ UNCHANGED <<chans, acknowledgements>>
  BY AckedIsHeld
<1>2. \A d \in Chain, k \in ChanId : chans[d][k].cpChan = Partner(k)
  BY <1>0 DEF Linked
<1>3. ASSUME NEW d \in Chain, NEW k \in ChanId, NEW e, NEW s \in Seqs
      PROVE  Moving(d, k, e)'[s] = Moving(d, k, e)[s]
  <2>1. CASE d = c /\ k = i /\ s = seq
    BY <1>1, <1>2, <2>1 DEF Moving, Unsettled
  <2>2. CASE ~(d = c /\ k = i /\ s = seq)
    <3>1. packets'[d][k][s] = packets[d][k][s]
      BY <1>1, <2>2
    <3> QED BY <1>1, <3>1 DEF Moving, Unsettled
  <2> QED BY <2>1, <2>2
<1> QED BY <1>0, <1>3, NothingShifts

\* Acknowledging any other answer takes the amount back.
LEMMA RefundShifts ==
    ASSUME TransferAssumptions, EstIInv, TypeOK', NEW c \in Chain, NEW i \in ChanId, NEW seq \in Seqs,
           NEW ack \in Acks, ack # "result", AcknowledgePacket(c, i, seq, ack)
    PROVE  LET data == packets[c][i][seq].data IN
           /\ Shift(c, i, data.denom, -data.amount)
           /\ AmountsAreNat => data.amount <= OnItsWay(c, i, data.denom)
<1> DEFINE data == packets[c][i][seq].data
<1>0. TypeOK /\ EstAssumptions /\ Linked
  BY DEF EstIInv, ChanIInv, TransferAssumptions
<1>1. /\ packets[c][i][seq] # NoPacket
      /\ acknowledgements[Other(c)][Partner(i)][seq] = [ack |-> ack]
      /\ \A d \in Chain, k \in ChanId, s \in Seqs :
            packets'[d][k][s] = IF d = c /\ k = i /\ s = seq THEN NoPacket ELSE packets[d][k][s]
      /\ UNCHANGED <<chans, acknowledgements>>
  BY AckedIsHeld
<1>2. [ack |-> ack] # [ack |-> "result"]
  <2>1. [ack |-> ack].ack # [ack |-> "result"].ack
    OBVIOUS
  <2> QED BY <2>1
<1>3. data.amount \in Int /\ -data.amount \in Int
  BY <1>0, <1>1, HeldData, DataFields
<1>4. chans[c][i].cpChan = Partner(i)
  BY <1>0 DEF Linked
<1>5. Unsettled(c, i, seq)
  BY <1>1, <1>2, <1>4 DEF Unsettled
<1>6. ASSUME NEW d \in Chain, NEW k \in ChanId, NEW e, NEW s \in Seqs
      PROVE  Moving(d, k, e)'[s] = Moving(d, k, e)[s]
                + (IF d = c /\ k = i /\ s = seq /\ e = data.denom THEN -data.amount ELSE 0)
  <2>1. CASE d = c /\ k = i /\ s = seq
    <3>1. Moving(d, k, e)[s] = IF data.denom = e THEN data.amount ELSE 0
      BY <1>5, <2>1 DEF Moving
    <3>2. Moving(d, k, e)'[s] = 0
      BY <1>1, <2>1 DEF Moving, Unsettled
    <3> QED BY <1>3, <2>1, <3>1, <3>2
  <2>2. CASE ~(d = c /\ k = i /\ s = seq)
    <3>1. packets'[d][k][s] = packets[d][k][s]
      BY <1>1, <2>2
    <3>2. Moving(d, k, e)'[s] = Moving(d, k, e)[s]
      BY <1>1, <3>1 DEF Moving, Unsettled
    <3>3. Moving(d, k, e)[s] \in Int
      BY <1>0, OnItsWayIsInt
    <3> QED BY <2>2, <3>2, <3>3
  <2> QED BY <2>1, <2>2
<1>7. AmountsAreNat => data.amount <= OnItsWay(c, i, data.denom)
  BY <1>0, <1>5, MovingCounts
<1> HIDE DEF data
<1>8. Shift(c, i, data.denom, -data.amount)
  BY <1>0, <1>3, <1>6, PacketShifts
<1> QED BY <1>7, <1>8 DEF data

\* Nor does a step that leaves the packets and the answers alone.
LEMMA QuietShiftsNothing ==
    ASSUME TransferAssumptions, EstIInv, Rooted, UNCHANGED <<packets, acknowledgements>>
    PROVE  NoShift
<1>0. TypeOK
  BY DEF EstIInv, ChanIInv
<1>1. \A d \in Chain, k \in ChanId : \A e : \A s \in Seqs : Moving(d, k, e)'[s] = Moving(d, k, e)[s]
  BY DEF Moving, Unsettled, Rooted
<1> QED BY <1>0, <1>1, NothingShifts

(***************************************************************************)
(* Denominations.                                                          *)
(***************************************************************************)

OneHop(port, chan, base) == [path |-> <<<<port, chan>>>>, base |-> base]

\* A denomination is a base denomination or a voucher of one hop.
LEMMA DenomForms ==
    ASSUME NEW denom \in Denom
    PROVE  /\ denom.base \in Bases
           /\ ~IsVoucher(denom) => denom = BaseDenom(denom.base)
           /\ \A port, chan : HasPrefix(denom, port, chan) => denom = OneHop(port, chan, denom.base)
<1>1. PICK path \in {<<>>} \cup {<<hop>> : hop \in Hops}, base \in Bases :
         denom = [path |-> path, base |-> base]
  BY DEF Denom
<1>2. denom.path = path /\ denom.base = base
  BY <1>1
<1>3. ~IsVoucher(denom) => denom = BaseDenom(denom.base)
  BY <1>1, <1>2 DEF IsVoucher, BaseDenom
<1>4. ASSUME NEW port, NEW chan, HasPrefix(denom, port, chan)
      PROVE  denom = OneHop(port, chan, denom.base)
  <2>1. path # <<>> /\ Head(path) = <<port, chan>>
    BY <1>2, <1>4 DEF HasPrefix, IsVoucher
  <2>2. PICK hop \in Hops : path = <<hop>>
    BY <2>1
  <2>3. hop = <<port, chan>>
    BY <2>1, <2>2
  <2> QED BY <1>1, <1>2, <2>2, <2>3 DEF OneHop
<1> QED BY <1>1, <1>2, <1>3, <1>4

\* What hops and base denominations are made of, and how they are taken apart.
LEMMA DenomFacts ==
    /\ \A base : ~IsVoucher(BaseDenom(base)) /\ BaseDenom(base).base = base
    /\ \A base \in Bases : BaseDenom(base) \in Denom
    /\ \A port, chan, base : /\ HasPrefix(OneHop(port, chan, base), port, chan)
                             /\ IsVoucher(OneHop(port, chan, base))
                             /\ OneHop(port, chan, base).base = base
                             /\ RemovePrefix(OneHop(port, chan, base)) = BaseDenom(base)
                             /\ AddPath(BaseDenom(base), port, chan) = OneHop(port, chan, base)
    /\ \A port \in Ports, chan \in ChanId, base \in Bases : OneHop(port, chan, base) \in Denom
    /\ \A p1, c1, b1, p2, c2, b2 : OneHop(p1, c1, b1) = OneHop(p2, c2, b2) => p1 = p2 /\ c1 = c2 /\ b1 = b2
<1>1. \A base : ~IsVoucher(BaseDenom(base)) /\ BaseDenom(base).base = base
  BY DEF IsVoucher, BaseDenom
<1>2. \A base \in Bases : BaseDenom(base) \in Denom
  BY DEF BaseDenom, Denom
<1>3. ASSUME NEW port, NEW chan, NEW base
      PROVE  /\ HasPrefix(OneHop(port, chan, base), port, chan)
             /\ IsVoucher(OneHop(port, chan, base))
             /\ OneHop(port, chan, base).base = base
             /\ RemovePrefix(OneHop(port, chan, base)) = BaseDenom(base)
             /\ AddPath(BaseDenom(base), port, chan) = OneHop(port, chan, base)
  <2> DEFINE hop == <<port, chan>>
  <2>1. <<hop>> # <<>> /\ Head(<<hop>>) = hop /\ Tail(<<hop>>) = <<>> /\ <<hop>> \o <<>> = <<hop>>
    <3> HIDE DEF hop
    <3> QED OBVIOUS
  <2>2. OneHop(port, chan, base) = [path |-> <<hop>>, base |-> base]
    BY DEF OneHop
  <2> HIDE DEF hop
  <2>3. RemovePrefix(OneHop(port, chan, base)) = BaseDenom(base)
    BY <2>1, <2>2 DEF RemovePrefix, BaseDenom
  <2>4. AddPath(BaseDenom(base), port, chan) = OneHop(port, chan, base)
    <3>1. AddPath(BaseDenom(base), port, chan) = [path |-> <<hop>> \o <<>>, base |-> base]
      BY DEF AddPath, BaseDenom, hop
    <3> QED BY <2>1, <2>2, <3>1
  <2>5. HasPrefix(OneHop(port, chan, base), port, chan) /\ IsVoucher(OneHop(port, chan, base))
    BY <2>1, <2>2 DEF HasPrefix, IsVoucher, hop
  <2> QED BY <2>2, <2>3, <2>4, <2>5
<1>4. \A port \in Ports, chan \in ChanId, base \in Bases : OneHop(port, chan, base) \in Denom
  BY DEF OneHop, Denom, Hops
<1>5. ASSUME NEW p1, NEW c1, NEW b1, NEW p2, NEW c2, NEW b2, OneHop(p1, c1, b1) = OneHop(p2, c2, b2)
      PROVE  p1 = p2 /\ c1 = c2 /\ b1 = b2
  <2>1. OneHop(p1, c1, b1).path = <<<<p1, c1>>>> /\ OneHop(p2, c2, b2).path = <<<<p2, c2>>>>
    BY DEF OneHop
  <2>2. OneHop(p1, c1, b1).base = b1 /\ OneHop(p2, c2, b2).base = b2
    BY DEF OneHop
  <2>3. <<<<p1, c1>>>>[1] = <<<<p2, c2>>>>[1]
    BY <1>5, <2>1
  <2>4. <<p1, c1>> = <<p2, c2>>
    BY <2>3
  <2> QED BY <1>5, <2>2, <2>4
<1> QED BY <1>1, <1>2, <1>3, <1>4, <1>5

\* The voucher of a token is a hop over the holder's own channel, and tells the
\* channel and the base denomination apart.
LEMMA VoucherFacts ==
    ASSUME TransferAssumptions, TypeOK, Linked, NEW c \in Chain, NEW i \in ChanId
    PROVE  /\ chans[c][i].port \in Ports /\ chans[c][i].cpPort \in Ports
           /\ \A base : VoucherOf(c, i, base) = OneHop(chans[c][i].cpPort, Partner(i), base)
           /\ \A base \in Bases : VoucherOf(c, i, base) \in Denom
           /\ \A base, b : VoucherOf(c, i, base) # BaseDenom(b)
           /\ \A k \in ChanId : \A base, b :
                 VoucherOf(c, i, base) = VoucherOf(c, k, b) => i = k /\ base = b
<1>1. chans[c][i] \in ChanEnd
  <2>1. chans[c][i].state # "UNINIT"
    BY DEF Linked
  <2> QED BY <2>1, IssuedIsChanEnd
<1>2. chans[c][i].port \in Ports /\ chans[c][i].cpPort \in Ports
  BY <1>1 DEF ChanEnd
<1>3. \A k \in ChanId : /\ chans[c][k].cpChan = Partner(k) /\ Partner(k) \in ChanId
                        /\ Partner(Partner(k)) = k
  BY PartnerFacts DEF Linked, TransferAssumptions
<1>4. \A k \in ChanId : \A base : VoucherOf(c, k, base) = OneHop(chans[c][k].cpPort, Partner(k), base)
  BY <1>3, DenomFacts DEF VoucherOf
<1>5. \A base \in Bases : VoucherOf(c, i, base) \in Denom
  BY <1>2, <1>3, <1>4, DenomFacts
<1>6. \A base, b : VoucherOf(c, i, base) # BaseDenom(b)
  BY <1>4, DenomFacts
<1>7. ASSUME NEW k \in ChanId, NEW base, NEW b, VoucherOf(c, i, base) = VoucherOf(c, k, b)
      PROVE  i = k /\ base = b
  <2>1. Partner(i) = Partner(k) /\ base = b
    BY <1>4, <1>7, DenomFacts
  <2> QED BY <1>3, <2>1
<1> QED BY <1>2, <1>4, <1>5, <1>6, <1>7

\* A denomination with the prefix of a channel is the voucher of a token of the
\* other host, over the channel that faces it.
LEMMA PrefixIsVoucher ==
    ASSUME TransferAssumptions, TypeOK, Linked, NEW c \in Chain, NEW i \in ChanId, NEW denom \in Denom
    PROVE  /\ HasPrefix(denom, chans[c][i].port, i)
                 <=> denom = VoucherOf(Other(c), Partner(i), denom.base)
           /\ HasPrefix(denom, chans[c][i].cpPort, chans[c][i].cpChan)
                 <=> denom = VoucherOf(c, i, denom.base)
           /\ HasPrefix(denom, chans[c][i].cpPort, chans[c][i].cpChan)
                 => RemovePrefix(denom) = BaseDenom(denom.base)
<1>1. /\ Other(c) \in Chain /\ Other(Other(c)) = c
      /\ Partner(i) \in ChanId /\ Partner(Partner(i)) = i
  BY OtherHost, PartnerFacts DEF TransferAssumptions, EstAssumptions, ChanAssumptions, ConnAssumptions
<1>2. chans[c][i].cpChan = Partner(i) /\ chans[Other(c)][Partner(i)].cpPort = chans[c][i].port
  BY <1>1 DEF Linked
<1>3. /\ VoucherOf(Other(c), Partner(i), denom.base) = OneHop(chans[c][i].port, i, denom.base)
      /\ VoucherOf(c, i, denom.base) = OneHop(chans[c][i].cpPort, Partner(i), denom.base)
  BY <1>1, <1>2, VoucherFacts
<1>4. \A port, chan : HasPrefix(denom, port, chan) <=> denom = OneHop(port, chan, denom.base)
  BY DenomForms, DenomFacts
<1>5. \A port, chan : RemovePrefix(OneHop(port, chan, denom.base)) = BaseDenom(denom.base)
  BY DenomFacts
<1> QED BY <1>2, <1>3, <1>4, <1>5

(***************************************************************************)
(* The totals of a token.                                                  *)
(***************************************************************************)

\* The established facts every lemma below starts from.
LEMMA Counterparts ==
    ASSUME TransferAssumptions, EstIInv
    PROVE  /\ TypeOK /\ Linked
           /\ \A c \in Chain : Other(c) \in Chain /\ Other(Other(c)) = c
           /\ \A i \in ChanId : Partner(i) \in ChanId /\ Partner(Partner(i)) = i
           /\ \A c \in Chain, i \in ChanId : chans[c][i].cpChan = Partner(i)
<1>1. TypeOK /\ Linked
  BY DEF EstIInv, ChanIInv
<1> QED BY <1>1, OtherHost, PartnerFacts
    DEF Linked, TransferAssumptions, EstAssumptions, ChanAssumptions, ConnAssumptions

\* Totals are integers.
LEMMA TotalsAreInt ==
    ASSUME TransferAssumptions, EstIInv, NEW c \in Chain, NEW base
    PROVE  Outbound(c, base) \in Int /\ Homebound(c, base) \in Int
<1> USE Counterparts
<1>1. \A i \in ChanId : /\ OnItsWay(c, i, BaseDenom(base)) \in Int
                        /\ OnItsWay(Other(c), chans[c][i].cpChan, VoucherOf(c, i, base)) \in Int
  BY OnItsWayIsInt
<1> DEFINE f == [i \in ChanId |-> OnItsWay(c, i, BaseDenom(base))]
           g == [i \in ChanId |-> OnItsWay(Other(c), chans[c][i].cpChan, VoucherOf(c, i, base))]
<1>2. Outbound(c, base) = SumFunctionOnSet(f, ChanId) /\ Homebound(c, base) = SumFunctionOnSet(g, ChanId)
  BY DEF Outbound, Homebound, OverChannels
<1>3. \A i \in ChanId : f[i] \in Int /\ g[i] \in Int
  BY <1>1
<1> HIDE DEF f, g
<1> QED BY <1>2, <1>3, SumIsInt, IndicesAreFinite

\* They are natural numbers if no amount is negative.
LEMMA TotalsAreNat ==
    ASSUME TransferAssumptions, AmountsAreNat, EstIInv, NEW c \in Chain, NEW base
    PROVE  Outbound(c, base) \in Nat /\ Homebound(c, base) \in Nat
<1> USE Counterparts
<1>1. \A i \in ChanId : /\ OnItsWay(c, i, BaseDenom(base)) \in Nat
                        /\ OnItsWay(Other(c), chans[c][i].cpChan, VoucherOf(c, i, base)) \in Nat
  BY OnItsWayIsNat
<1> DEFINE f == [i \in ChanId |-> OnItsWay(c, i, BaseDenom(base))]
           g == [i \in ChanId |-> OnItsWay(Other(c), chans[c][i].cpChan, VoucherOf(c, i, base))]
<1>2. Outbound(c, base) = SumFunctionOnSet(f, ChanId) /\ Homebound(c, base) = SumFunctionOnSet(g, ChanId)
  BY DEF Outbound, Homebound, OverChannels
<1>3. \A i \in ChanId : f[i] \in Nat /\ g[i] \in Nat
  BY <1>1
<1> HIDE DEF f, g
<1> QED BY <1>2, <1>3, SumIsNat, IndicesAreFinite

\* What moves over one channel is no more than what moves in all.
LEMMA TotalsCover ==
    ASSUME TransferAssumptions, AmountsAreNat, EstIInv, NEW c \in Chain, NEW i \in ChanId, NEW base
    PROVE  /\ OnItsWay(c, i, BaseDenom(base)) <= Outbound(c, base)
           /\ OnItsWay(Other(c), Partner(i), VoucherOf(c, i, base)) <= Homebound(c, base)
<1> USE Counterparts
<1>1. \A k \in ChanId : /\ OnItsWay(c, k, BaseDenom(base)) \in Nat
                        /\ OnItsWay(Other(c), chans[c][k].cpChan, VoucherOf(c, k, base)) \in Nat
  BY OnItsWayIsNat
<1> DEFINE f == [k \in ChanId |-> OnItsWay(c, k, BaseDenom(base))]
           g == [k \in ChanId |-> OnItsWay(Other(c), chans[c][k].cpChan, VoucherOf(c, k, base))]
<1>2. Outbound(c, base) = SumFunctionOnSet(f, ChanId) /\ Homebound(c, base) = SumFunctionOnSet(g, ChanId)
  BY DEF Outbound, Homebound, OverChannels
<1>3. \A k \in ChanId : f[k] \in Nat /\ g[k] \in Nat
  BY <1>1
<1>4. /\ f[i] = OnItsWay(c, i, BaseDenom(base))
      /\ g[i] = OnItsWay(Other(c), Partner(i), VoucherOf(c, i, base))
  OBVIOUS
<1> HIDE DEF f, g
<1>5. f[i] <= SumFunctionOnSet(f, ChanId) /\ g[i] <= SumFunctionOnSet(g, ChanId)
  BY <1>3, SumBounds, IndicesAreFinite
<1> QED BY <1>2, <1>4, <1>5

\* How a step changes the two totals: by a for token <<c, base>>, not at all for
\* the others.
OutboundChange(c, base, a) ==
    \A d \in Chain, b \in Bases :
        Outbound(d, b)' = Outbound(d, b) + (IF d = c /\ b = base THEN a ELSE 0)
HomeboundChange(c, base, a) ==
    \A d \in Chain, b \in Bases :
        Homebound(d, b)' = Homebound(d, b) + (IF d = c /\ b = base THEN a ELSE 0)

\* Vouchers keep their names.
LEMMA VouchersStay ==
    ASSUME Rooted, NEW c \in Chain, NEW i \in ChanId, NEW base
    PROVE  VoucherOf(c, i, base)' = VoucherOf(c, i, base)
BY DEF Rooted, VoucherOf

\* A base denomination on its way counts for its outbound total alone.
LEMMA OutboundShifts ==
    ASSUME TransferAssumptions, EstIInv, EstIInv', Rooted, NEW c \in Chain, NEW i \in ChanId,
           NEW base \in Bases, NEW a \in Int, Shift(c, i, BaseDenom(base), a)
    PROVE  OutboundChange(c, base, a) /\ \A d \in Chain, b \in Bases : Homebound(d, b)' = Homebound(d, b)
<1> USE Counterparts
<1>0. BaseDenom(base).base = base
  BY DenomFacts
<1>1. ASSUME NEW d \in Chain, NEW b \in Bases
      PROVE  Outbound(d, b)' = Outbound(d, b) + (IF d = c /\ b = base THEN a ELSE 0)
  <2>0. BaseDenom(b) = BaseDenom(base) <=> b = base
    BY DenomFacts
  <2> DEFINE f == [k \in ChanId |-> OnItsWay(d, k, BaseDenom(b))]
             g == [k \in ChanId |-> OnItsWay(d, k, BaseDenom(b))']
  <2>1. Outbound(d, b) = SumFunctionOnSet(f, ChanId) /\ Outbound(d, b)' = SumFunctionOnSet(g, ChanId)
    BY DEF Outbound, OverChannels
  <2>2. \A k \in ChanId : OnItsWay(d, k, BaseDenom(b)) \in Int
    BY OnItsWayIsInt
  <2>3. \A k \in ChanId : OnItsWay(d, k, BaseDenom(b))' \in Int
    BY OnItsWayNext DEF EstIInv, ChanIInv
  <2>4. \A k \in ChanId : f[k] \in Int /\ g[k] \in Int
    BY <2>2, <2>3
  <2> DEFINE hit == d = c /\ b = base
  <2>5. \A k \in ChanId : g[k] = f[k] + (IF k = i /\ hit THEN a ELSE 0)
    BY <2>0 DEF Shift
  <2>6. hit \in BOOLEAN /\ \A k \in ChanId : f[k] \in Int /\ g[k] \in Int
    BY <2>4
  <2>7. hit \in BOOLEAN /\ ShiftsAt(f, g, ChanId, i, a, hit)
    BY <2>5, <2>6 DEF ShiftsAt
  <2> HIDE DEF f, g, hit
  <2>8. SumFunctionOnSet(g, ChanId) = SumFunctionOnSet(f, ChanId) + (IF hit THEN a ELSE 0)
    BY <2>7, SumShiftsIf, IndicesAreFinite
  <2> QED BY <2>1, <2>8 DEF hit
<1>2. ASSUME NEW d \in Chain, NEW b \in Bases
      PROVE  Homebound(d, b)' = Homebound(d, b)
  <2> DEFINE f == [k \in ChanId |-> OnItsWay(Other(d), chans[d][k].cpChan, VoucherOf(d, k, b))]
             g == [k \in ChanId |-> OnItsWay(Other(d), chans[d][k].cpChan, VoucherOf(d, k, b))']
  <2>1. Homebound(d, b) = SumFunctionOnSet(f, ChanId) /\ Homebound(d, b)' = SumFunctionOnSet(g, ChanId)
    BY DEF Homebound, OverChannels
  <2>2. \A k \in ChanId : VoucherOf(d, k, b)' = VoucherOf(d, k, b) /\ VoucherOf(d, k, b) # BaseDenom(base)
    BY VouchersStay, VoucherFacts
  <2>3. \A k \in ChanId : chans'[d][k].cpChan = Partner(k)
    BY DEF Rooted
  <2>4. \A k \in ChanId : f[k] = OnItsWay(Other(d), Partner(k), VoucherOf(d, k, b))
    OBVIOUS
  <2>5. \A k \in ChanId : f[k] \in Int
    BY OnItsWayIsInt, <2>4
  <2>6. \A k \in ChanId : g[k] = f[k]
    <3>1. TAKE k \in ChanId
    <3>2. g[k] = OnItsWay(Other(d), Partner(k), VoucherOf(d, k, b))'
      BY <2>2, <2>3
    <3>3. OnItsWay(Other(d), Partner(k), VoucherOf(d, k, b))'
             = OnItsWay(Other(d), Partner(k), VoucherOf(d, k, b)) + 0
      BY <2>2 DEF Shift
    <3> QED BY <2>4, <2>5, <3>2, <3>3
  <2> HIDE DEF f, g
  <2> QED BY <2>1, <2>5, <2>6, SumCong, IndicesAreFinite
<1> QED BY <1>1, <1>2 DEF OutboundChange

\* A voucher on its way counts for the homebound total of its token alone.
LEMMA HomeboundShifts ==
    ASSUME TransferAssumptions, EstIInv, EstIInv', Rooted, NEW c \in Chain, NEW i \in ChanId,
           NEW base \in Bases, NEW a \in Int,
           Shift(Other(c), Partner(i), VoucherOf(c, i, base), a)
    PROVE  HomeboundChange(c, base, a) /\ \A d \in Chain, b \in Bases : Outbound(d, b)' = Outbound(d, b)
<1> USE Counterparts
<1>1. ASSUME NEW d \in Chain, NEW b \in Bases
      PROVE  Homebound(d, b)' = Homebound(d, b) + (IF d = c /\ b = base THEN a ELSE 0)
  <2> DEFINE f == [k \in ChanId |-> OnItsWay(Other(d), chans[d][k].cpChan, VoucherOf(d, k, b))]
             g == [k \in ChanId |-> OnItsWay(Other(d), chans[d][k].cpChan, VoucherOf(d, k, b))']
             hit == d = c /\ b = base
  <2>1. Homebound(d, b) = SumFunctionOnSet(f, ChanId) /\ Homebound(d, b)' = SumFunctionOnSet(g, ChanId)
    BY DEF Homebound, OverChannels
  <2>2. \A k \in ChanId : /\ f[k] = OnItsWay(Other(d), Partner(k), VoucherOf(d, k, b))
                          /\ f[k] \in Int
    BY OnItsWayIsInt
  <2>3. \A k \in ChanId : g[k] = OnItsWay(Other(d), Partner(k), VoucherOf(d, k, b))'
    <3>1. \A k \in ChanId : chans'[d][k].cpChan = Partner(k)
      BY DEF Rooted
    <3> QED BY <3>1
  <2>4. \A k \in ChanId : OnItsWay(Other(d), Partner(k), VoucherOf(d, k, b))' \in Int
    BY OnItsWayNext DEF EstIInv, ChanIInv
  <2>5. \A k \in ChanId : VoucherOf(d, k, b)' = VoucherOf(d, k, b)
    BY VouchersStay
  <2>6. ASSUME NEW k \in ChanId
        PROVE  /\ Other(d) = Other(c) <=> d = c
               /\ Partner(k) = Partner(i) <=> k = i
               /\ d = c /\ k = i => (VoucherOf(d, k, b) = VoucherOf(c, i, base) <=> b = base)
    BY VoucherFacts
  <2>7. \A k \in ChanId : g[k] = f[k] + (IF k = i /\ hit THEN a ELSE 0)
    <3>1. TAKE k \in ChanId
    <3>2. g[k] = OnItsWay(Other(d), Partner(k), VoucherOf(d, k, b))'
      BY <2>3
    <3> DEFINE e == VoucherOf(d, k, b)
    <3>3. OnItsWay(Other(d), Partner(k), VoucherOf(d, k, b))' = OnItsWay(Other(d), Partner(k), e)'
      BY <2>5
    <3>4. Other(d) \in Chain /\ Partner(k) \in ChanId
      OBVIOUS
    <3>5. OnItsWay(Other(d), Partner(k), e)' = OnItsWay(Other(d), Partner(k), e)
             + (IF Other(d) = Other(c) /\ Partner(k) = Partner(i) /\ e = VoucherOf(c, i, base) THEN a ELSE 0)
      BY <2>5, <3>4 DEF Shift
    <3> QED BY <2>2, <2>6, <3>2, <3>3, <3>5
  <2>8. hit \in BOOLEAN /\ \A k \in ChanId : f[k] \in Int /\ g[k] \in Int
    BY <2>2, <2>3, <2>4
  <2>9. hit \in BOOLEAN /\ ShiftsAt(f, g, ChanId, i, a, hit)
    BY <2>7, <2>8 DEF ShiftsAt
  <2> HIDE DEF f, g, hit
  <2>10. SumFunctionOnSet(g, ChanId) = SumFunctionOnSet(f, ChanId) + (IF hit THEN a ELSE 0)
    BY <2>9, SumShiftsIf, IndicesAreFinite
  <2> QED BY <2>1, <2>10 DEF hit
<1>2. ASSUME NEW d \in Chain, NEW b \in Bases
      PROVE  Outbound(d, b)' = Outbound(d, b)
  <2> DEFINE f == [k \in ChanId |-> OnItsWay(d, k, BaseDenom(b))]
             g == [k \in ChanId |-> OnItsWay(d, k, BaseDenom(b))']
  <2>1. Outbound(d, b) = SumFunctionOnSet(f, ChanId) /\ Outbound(d, b)' = SumFunctionOnSet(g, ChanId)
    BY DEF Outbound, OverChannels
  <2>2. \A k \in ChanId : f[k] \in Int
    BY OnItsWayIsInt
  <2>3. VoucherOf(c, i, base) # BaseDenom(b)
    BY VoucherFacts
  <2>4. \A k \in ChanId : g[k] = f[k]
    <3>1. \A k \in ChanId : OnItsWay(d, k, BaseDenom(b))' = OnItsWay(d, k, BaseDenom(b)) + 0
      BY <2>3 DEF Shift
    <3>2. \A k \in ChanId : OnItsWay(d, k, BaseDenom(b)) \in Int
      BY OnItsWayIsInt
    <3> QED BY <3>1, <3>2
  <2> HIDE DEF f, g
  <2> QED BY <2>1, <2>2, <2>4, SumCong, IndicesAreFinite
<1> QED BY <1>1, <1>2 DEF HomeboundChange

\* Nothing moves, nothing changes.
LEMMA TotalsStay ==
    ASSUME TransferAssumptions, EstIInv, Rooted, NoShift
    PROVE  \A d \in Chain, b \in Bases : Outbound(d, b)' = Outbound(d, b) /\ Homebound(d, b)' = Homebound(d, b)
<1> USE Counterparts
<1>1. SUFFICES ASSUME NEW d \in Chain, NEW b \in Bases
               PROVE  Outbound(d, b)' = Outbound(d, b) /\ Homebound(d, b)' = Homebound(d, b)
  OBVIOUS
<1> DEFINE f == [k \in ChanId |-> OnItsWay(d, k, BaseDenom(b))]
           g == [k \in ChanId |-> OnItsWay(d, k, BaseDenom(b))']
           h == [k \in ChanId |-> OnItsWay(Other(d), chans[d][k].cpChan, VoucherOf(d, k, b))]
           l == [k \in ChanId |-> OnItsWay(Other(d), chans[d][k].cpChan, VoucherOf(d, k, b))']
<1>2. /\ Outbound(d, b) = SumFunctionOnSet(f, ChanId) /\ Outbound(d, b)' = SumFunctionOnSet(g, ChanId)
      /\ Homebound(d, b) = SumFunctionOnSet(h, ChanId) /\ Homebound(d, b)' = SumFunctionOnSet(l, ChanId)
  BY DEF Outbound, Homebound, OverChannels
<1>3. \A k \in ChanId : f[k] \in Int /\ h[k] \in Int
  BY OnItsWayIsInt
<1>4. \A k \in ChanId : g[k] = f[k]
  BY DEF NoShift
<1>5. \A k \in ChanId : l[k] = h[k]
  <2>1. TAKE k \in ChanId
  <2> DEFINE e == VoucherOf(d, k, b)
  <2>2. h[k] = OnItsWay(Other(d), Partner(k), e)
    OBVIOUS
  <2>3. chans'[d][k].cpChan = Partner(k) /\ VoucherOf(d, k, b)' = e
    BY VouchersStay DEF Rooted
  <2>4. l[k] = OnItsWay(Other(d), Partner(k), e)'
    BY <2>3
  <2>5. Other(d) \in Chain /\ Partner(k) \in ChanId
    OBVIOUS
  <2>6. OnItsWay(Other(d), Partner(k), e)' = OnItsWay(Other(d), Partner(k), e)
    BY <2>3, <2>5 DEF NoShift
  <2> QED BY <2>2, <2>4, <2>6
<1> HIDE DEF f, g, h, l
<1> QED BY <1>2, <1>3, <1>4, <1>5, SumCong, IndicesAreFinite

(***************************************************************************)
(* The totals of balances: one account changes by a.                       *)
(***************************************************************************)
Balance == UNION {[owners -> Int] : owners \in SUBSET Addresses}
Balances == [Chain -> [Denom -> Balance]]

AccountChange(balances, next, c, denom, owner, a) ==
    \A d \in Chain, e \in Denom, o \in Addresses :
        GetOrZero(next[d][e], o) = GetOrZero(balances[d][e], o)
                                   + (IF d = c /\ e = denom /\ o = owner THEN a ELSE 0)

\* Nobody has less than nothing.
NoneInDebt(balances) ==
    \A c \in Chain, denom \in Denom, o \in Addresses : GetOrZero(balances[c][denom], o) >= 0

\* A balance has entries of some addresses.
LEMMA BalanceForms ==
    ASSUME NEW balances \in Balances, NEW c \in Chain, NEW denom \in Denom
    PROVE  /\ DOMAIN balances[c][denom] \subseteq Addresses
           /\ balances[c][denom] \in [DOMAIN balances[c][denom] -> Int]
<1>1. balances[c][denom] \in Balance
  BY DEF Balances
<1>2. PICK owners \in SUBSET Addresses : balances[c][denom] \in [owners -> Int]
  BY <1>1 DEF Balance
<1> QED BY <1>2

\* What an owner has is an integer.
LEMMA HoldingIsInt ==
    ASSUME NEW balances \in Balances, NEW c \in Chain, NEW denom \in Denom, NEW o
    PROVE  GetOrZero(balances[c][denom], o) \in Int
BY BalanceForms DEF GetOrZero

\* The total is an integer.  If nobody is in debt it is a natural number, no less
\* than what an owner has.
LEMMA TotalFacts ==
    ASSUME TransferAssumptions, NEW balances \in Balances, NEW c \in Chain, NEW denom \in Denom
    PROVE  /\ Total(balances, c, denom) \in Int
           /\ (\A o \in Addresses : GetOrZero(balances[c][denom], o) = 0) => Total(balances, c, denom) = 0
           /\ NoneInDebt(balances) =>
                 /\ Total(balances, c, denom) \in Nat
                 /\ \A o \in Addresses : GetOrZero(balances[c][denom], o) <= Total(balances, c, denom)
<1> DEFINE f == [o \in Addresses |-> GetOrZero(balances[c][denom], o)]
<1>1. \A o \in Addresses : f[o] = GetOrZero(balances[c][denom], o) /\ f[o] \in Int
  BY HoldingIsInt
<1>2. Total(balances, c, denom) = SumFunctionOnSet(f, Addresses)
  BY DEF Total
<1> HIDE DEF f
<1>3. SumFunctionOnSet(f, Addresses) \in Int
  BY <1>1, SumIsInt, IndicesAreFinite
<1>4. (\A o \in Addresses : f[o] = 0) => SumFunctionOnSet(f, Addresses) = 0
  BY SumOfZero, IndicesAreFinite
<1>5. ASSUME NoneInDebt(balances)
      PROVE  /\ SumFunctionOnSet(f, Addresses) \in Nat
             /\ \A o \in Addresses : f[o] <= SumFunctionOnSet(f, Addresses)
  <2>1. \A o \in Addresses : f[o] \in Nat
    BY <1>1, <1>5 DEF NoneInDebt
  <2> QED BY <2>1, SumIsNat, SumBounds, IndicesAreFinite
<1> QED BY <1>1, <1>2, <1>3, <1>4, <1>5

\* The total changes as the account does.
LEMMA TotalShifts ==
    ASSUME TransferAssumptions, NEW balances \in Balances, NEW next \in Balances,
           NEW c \in Chain, NEW denom \in Denom, NEW owner \in Addresses, NEW a \in Int,
           AccountChange(balances, next, c, denom, owner, a)
    PROVE  \A d \in Chain, e \in Denom :
              Total(next, d, e) = Total(balances, d, e) + (IF d = c /\ e = denom THEN a ELSE 0)
<1>1. SUFFICES ASSUME NEW d \in Chain, NEW e \in Denom
               PROVE  Total(next, d, e) = Total(balances, d, e) + (IF d = c /\ e = denom THEN a ELSE 0)
  OBVIOUS
<1> DEFINE f == [o \in Addresses |-> GetOrZero(balances[d][e], o)]
           g == [o \in Addresses |-> GetOrZero(next[d][e], o)]
           hit == d = c /\ e = denom
<1>2. hit \in BOOLEAN /\ \A o \in Addresses : f[o] \in Int /\ g[o] \in Int
  BY HoldingIsInt
<1>3. \A o \in Addresses : g[o] = f[o] + (IF o = owner /\ hit THEN a ELSE 0)
  BY DEF AccountChange
<1>4. Total(balances, d, e) = SumFunctionOnSet(f, Addresses) /\ Total(next, d, e) = SumFunctionOnSet(g, Addresses)
  BY DEF Total
<1>5. hit \in BOOLEAN /\ ShiftsAt(f, g, Addresses, owner, a, hit)
  BY <1>2, <1>3 DEF ShiftsAt
<1> HIDE DEF f, g, hit
<1>6. SumFunctionOnSet(g, Addresses) = SumFunctionOnSet(f, Addresses) + (IF hit THEN a ELSE 0)
  BY <1>5, SumShiftsIf, IndicesAreFinite
<1> QED BY <1>4, <1>6 DEF hit

\* What circulates of a token is an integer, and no less than any account in its
\* vouchers if nobody is in debt.
LEMMA AbroadFacts ==
    ASSUME TransferAssumptions, EstIInv, NEW balances \in Balances, NEW c \in Chain, NEW base \in Bases
    PROVE  /\ Abroad(balances, c, base) \in Int
           /\ NoneInDebt(balances) =>
                 /\ Abroad(balances, c, base) \in Nat
                 /\ \A i \in ChanId :
                       Total(balances, Other(c), VoucherOf(c, i, base)) <= Abroad(balances, c, base)
<1> USE Counterparts
<1> DEFINE f == [i \in ChanId |-> Total(balances, Other(c), VoucherOf(c, i, base))]
<1>1. \A i \in ChanId : f[i] \in Int
  BY TotalFacts, VoucherFacts
<1>2. Abroad(balances, c, base) = SumFunctionOnSet(f, ChanId)
  BY DEF Abroad, OverChannels
<1>3. \A i \in ChanId : f[i] = Total(balances, Other(c), VoucherOf(c, i, base))
  OBVIOUS
<1>4. NoneInDebt(balances) => \A i \in ChanId : f[i] \in Nat
  BY TotalFacts, VoucherFacts
<1> HIDE DEF f
<1>5. SumFunctionOnSet(f, ChanId) \in Int
  BY <1>1, SumIsInt, IndicesAreFinite
<1>6. NoneInDebt(balances) => /\ SumFunctionOnSet(f, ChanId) \in Nat
                              /\ \A i \in ChanId : f[i] <= SumFunctionOnSet(f, ChanId)
  BY <1>4, SumIsNat, SumBounds, IndicesAreFinite
<1> QED BY <1>2, <1>3, <1>5, <1>6

\* It changes with the accounts of its vouchers.
LEMMA AbroadShifts ==
    ASSUME TransferAssumptions, EstIInv, NEW balances \in Balances, NEW next \in Balances,
           NEW c \in Chain, NEW i \in ChanId, NEW base \in Bases, NEW owner \in Addresses, NEW a \in Int,
           AccountChange(balances, next, Other(c), VoucherOf(c, i, base), owner, a)
    PROVE  \A d \in Chain, b \in Bases :
              Abroad(next, d, b) = Abroad(balances, d, b) + (IF d = c /\ b = base THEN a ELSE 0)
<1> USE Counterparts
<1>1. SUFFICES ASSUME NEW d \in Chain, NEW b \in Bases
               PROVE  Abroad(next, d, b) = Abroad(balances, d, b) + (IF d = c /\ b = base THEN a ELSE 0)
  OBVIOUS
<1> DEFINE f == [k \in ChanId |-> Total(balances, Other(d), VoucherOf(d, k, b))]
           g == [k \in ChanId |-> Total(next, Other(d), VoucherOf(d, k, b))]
           hit == d = c /\ b = base
<1>2. Abroad(balances, d, b) = SumFunctionOnSet(f, ChanId) /\ Abroad(next, d, b) = SumFunctionOnSet(g, ChanId)
  BY DEF Abroad, OverChannels
<1>3. hit \in BOOLEAN /\ \A k \in ChanId : f[k] \in Int /\ g[k] \in Int
  BY TotalFacts, VoucherFacts
<1>4. \A k \in ChanId : /\ f[k] = Total(balances, Other(d), VoucherOf(d, k, b))
                        /\ g[k] = Total(next, Other(d), VoucherOf(d, k, b))
  OBVIOUS
<1>5. \A k \in ChanId : /\ VoucherOf(d, k, b) \in Denom /\ VoucherOf(c, i, base) \in Denom
                        /\ d = c => (VoucherOf(d, k, b) = VoucherOf(c, i, base) <=> k = i /\ b = base)
                        /\ Other(d) = Other(c) <=> d = c
  BY VoucherFacts
<1>6. \A d1 \in Chain, e \in Denom : Total(next, d1, e) = Total(balances, d1, e)
         + (IF d1 = Other(c) /\ e = VoucherOf(c, i, base) THEN a ELSE 0)
  BY <1>5, TotalShifts
<1>7. \A k \in ChanId : g[k] = f[k] + (IF k = i /\ hit THEN a ELSE 0)
  BY <1>4, <1>5, <1>6
<1>8. hit \in BOOLEAN /\ ShiftsAt(f, g, ChanId, i, a, hit)
  BY <1>3, <1>7 DEF ShiftsAt
<1> HIDE DEF f, g, hit
<1>9. SumFunctionOnSet(g, ChanId) = SumFunctionOnSet(f, ChanId) + (IF hit THEN a ELSE 0)
  BY <1>8, SumShiftsIf, IndicesAreFinite
<1> QED BY <1>2, <1>9 DEF hit

(***************************************************************************)
(* The variables of the peg are functions of the tokens.                   *)
(***************************************************************************)

\* A function of the tokens changes by a for token t alone.
Moves(f, next, t, a) == next = [f EXCEPT ![t] = f[t] + a] /\ (a = 0 => next = f)

\* It does when that is how each token fares.
LEMMA OneMoves ==
    ASSUME NEW S, NEW f \in [S -> Int], NEW g \in [S -> Int], NEW t \in S, NEW a \in Int,
           \A u \in S : g[u] = f[u] + (IF u = t THEN a ELSE 0)
    PROVE  Moves(f, g, t, a)
<1>1. \A u \in S : f[u] \in Int /\ g[u] \in Int
  OBVIOUS
<1>2. \A u \in S : g[u] = IF u = t THEN f[t] + a ELSE f[u]
  BY <1>1
<1>3. g = [f EXCEPT ![t] = f[t] + a]
  BY <1>2
<1>4. ASSUME a = 0
      PROVE  g = f
  <2>1. \A u \in S : g[u] = f[u]
    BY <1>1, <1>4
  <2> QED BY <2>1
<1>5. a = 0 => g = f
  BY <1>4
<1> QED BY <1>3, <1>5 DEF Moves

\* The peg subtracts where the totals add a negative amount.
LEMMA MovesAway ==
    ASSUME NEW f, NEW g, NEW t, NEW a \in Int, f[t] \in Int, Moves(f, g, t, -a)
    PROVE  g = [f EXCEPT ![t] = f[t] - a]
<1>1. f[t] + (-a) = f[t] - a
  OBVIOUS
<1> QED BY <1>1 DEF Moves
=============================================================================
