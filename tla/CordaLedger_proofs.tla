------------------------ MODULE CordaLedger_proofs ------------------------
(***************************************************************************)
(* Proofs about CordaLedger, for any nodes and bounds: whatever the flows  *)
(* find in their vaults, identifiers are issued once and name one state,   *)
(* and the ledger executes the commands one at a time on current values.   *)
(***************************************************************************)
EXTENDS CordaLedger, SequenceTheorems, TLAPS

LedgerAssumptions == CommandBoundsAreNat /\ LedgerBoundsAreNat

(***************************************************************************)
(* Commands.                                                               *)
(***************************************************************************)

Counted == {"client", "connection", "channel"}

\* The identifiers used by the flows, as pairs of a kind and a number.
LEMMA IdFacts ==
    /\ \A i \in ClientId : i \in Id /\ i[1] = "client" /\ i # HostId /\ i # GenesisId /\ i # BankId
    /\ \A i \in ConnId : i \in Id /\ i[1] = "connection" /\ i # HostId /\ i # GenesisId /\ i # BankId
    /\ \A i \in ChanId : i \in Id /\ i[1] = "channel" /\ i # HostId /\ i # GenesisId /\ i # BankId
    /\ HostId \in Id /\ BankId \in Id /\ GenesisId \in Id
    /\ HostId # GenesisId /\ HostId # BankId /\ BankId # GenesisId
    /\ HostId[1] = "host" /\ BankId[1] = "bank" /\ GenesisId[1] = "genesis"
BY DEF Id, ClientId, ConnId, ChanId, HostId, GenesisId, BankId

\* A command consumes and refers to what it queried; what issues an identifier
\* of a Host consumes the Host, and only the creation of the Host a Genesis.
WellBehaved(c) ==
    /\ c.takes \subseteq Involved(c)
    /\ Involved(c) \subseteq Id /\ Involved(c) # {}
    /\ c.under \in Id
    /\ c.issues \in Kinds \cup {"host", "none"}
    /\ c.issues \in Kinds => HostId \in c.takes
    /\ c.issues = "host" => Involved(c) = {GenesisId} /\ c.takes = {GenesisId}
    /\ c.issues # "host" => GenesisId \notin Involved(c)

\* All the commands are well-behaved.
LEMMA CommandsBehave ==
    ASSUME NEW c \in Commands
    PROVE  WellBehaved(c)
<1>1. CASE c \in HostCreate
  BY <1>1, IdFacts DEF HostCreate, Command, Involved, Kinds, WellBehaved
<1>2. CASE c \in BankCreate
  BY <1>2, IdFacts DEF BankCreate, Command, Involved, Kinds, WellBehaved
<1>3. CASE c \in FundAllocate
  BY <1>3, IdFacts DEF FundAllocate, Command, Involved, Kinds, WellBehaved
<1>4. CASE c \in ClientCreate
  BY <1>4, IdFacts DEF ClientCreate, Command, Involved, Kinds, WellBehaved
<1>5. CASE c \in ConnOpen
  BY <1>5, IdFacts DEF ConnOpen, Command, Involved, Kinds, WellBehaved
<1>6. CASE c \in ConnReuse
  BY <1>6, IdFacts DEF ConnReuse, Command, Involved, Kinds, WellBehaved
<1>7. CASE c \in ConnStep
  BY <1>7, IdFacts DEF ConnStep, Command, Involved, Kinds, WellBehaved
<1>8. CASE c \in ChanOpenInit
  BY <1>8, IdFacts DEF ChanOpenInit, Command, Involved, Kinds, WellBehaved
<1>9. CASE c \in ChanOpenTry
  BY <1>9, IdFacts DEF ChanOpenTry, Command, Involved, Kinds, WellBehaved
<1>10. CASE c \in ChanReuse
  BY <1>10, IdFacts DEF ChanReuse, Command, Involved, Kinds, WellBehaved
<1>11. CASE c \in ChanStep
  BY <1>11, IdFacts DEF ChanStep, Command, Involved, Kinds, WellBehaved
<1>12. CASE c \in ChanCloseInit
  BY <1>12, IdFacts DEF ChanCloseInit, Command, Involved, Kinds, WellBehaved
<1>13. CASE c \in SendTransfer
  BY <1>13, IdFacts DEF SendTransfer, Command, Involved, Kinds, WellBehaved
<1>14. CASE c \in RelayTransfer
  BY <1>14, IdFacts DEF RelayTransfer, Command, Involved, Kinds, WellBehaved
<1> QED BY <1>1, <1>2, <1>3, <1>4, <1>5, <1>6, <1>7, <1>8, <1>9, <1>10, <1>11, <1>12, <1>13, <1>14 DEF Commands

(***************************************************************************)
(* What a transaction outputs.                                             *)
(***************************************************************************)

\* The outputs are values of identifiers; those taken are put back, all but a
\* Genesis; a Host put back has counted what it issued, and nothing less.
LEMMA OutputFacts ==
    ASSUME NEW c \in Commands, NEW v \in [Involved(c) -> Value]
    PROVE  /\ Outputs(c, v) \in [Kept(c) \cup Issued(c, v) -> Value]
           /\ \A i \in Issued(c, v) \ c.takes : Outputs(c, v)[i] = Fresh(c.under)
           /\ HostId \in c.takes =>
                 /\ HostId \in Kept(c)
                 /\ \A k \in Kinds : Outputs(c, v)[HostId].next[k] =
                       IF k = c.issues THEN v[HostId].next[k] + 1
                                       ELSE v[HostId].next[k]
<1>1. WellBehaved(c)
  BY CommandsBehave
<1>2. /\ Fresh(c.under) \in Value
      /\ \A k \in Kinds : Fresh(c.under).next[k] = 0
  BY <1>1 DEF WellBehaved, Fresh, Zero, Value
<1>3. \A i \in c.takes : v[i] \in Value
  BY <1>1 DEF WellBehaved
<1>4. ASSUME NEW i \in c.takes
      PROVE  Changed(c, i, v[i]) \in Value
  <2>1. CASE i # HostId
    BY <1>3, <2>1 DEF Changed, Value
  <2>2. CASE i = HostId /\ c.issues = "none"
    BY <1>3, <2>2 DEF Changed
  <2>3. CASE i = HostId /\ c.issues # "none"
    <3>1. v[i].next[c.issues] \in Nat \/ c.issues \notin Kinds
      BY <1>3 DEF Value
    <3>2. Changed(c, i, v[i]) = [v[i] EXCEPT !.next = [v[i].next EXCEPT ![c.issues] = @ + 1]]
      BY <2>3 DEF Changed
    <3> QED BY <1>3, <3>1, <3>2 DEF Value
  <2> QED BY <2>1, <2>2, <2>3
<1>5. HostId \in c.takes => HostId \in Kept(c)
  BY IdFacts DEF Kept
<1>6. ASSUME HostId \in c.takes, NEW k \in Kinds
      PROVE  Changed(c, HostId, v[HostId]).next[k] =
                IF k = c.issues THEN v[HostId].next[k] + 1 ELSE v[HostId].next[k]
  <2>1. v[HostId] \in Value
    BY <1>3, <1>6
  <2>2. "none" \notin Kinds
    BY DEF Kinds
  <2> QED BY <2>1, <2>2 DEF Changed, Value
<1>7. Kept(c) \subseteq c.takes
  BY DEF Kept
<1> QED BY <1>2, <1>4, <1>5, <1>6, <1>7 DEF Outputs

\* The identifier issued is an identifier, given that its counter is bounded.
LEMMA IssuedFacts ==
    ASSUME CommandBoundsAreNat,
           NEW c \in Commands, NEW v \in [Involved(c) -> Value], CanIssue(c, v)
    PROVE  /\ Issued(c, v) \subseteq Id
           /\ Kept(c) \subseteq Id
           /\ c.issues = "none" => Issued(c, v) = {}
           /\ c.issues = "host" => Issued(c, v) = {HostId}
           /\ c.issues = "bank" => Issued(c, v) = {BankId} /\ v[HostId].next["bank"] = 0
           /\ c.issues \in Counted => Issued(c, v) = {<<c.issues, v[HostId].next[c.issues]>>}
<1>1. WellBehaved(c)
  BY CommandsBehave
<1>2. c.issues \in {"none", "host", "bank", "client", "connection", "channel"}
  BY <1>1 DEF WellBehaved, Kinds
<1>3. Kept(c) \subseteq Id
  BY <1>1 DEF WellBehaved, Kept
<1>4. c.issues \in Counted => v[HostId].next[c.issues] \in Nat
  BY <1>1 DEF WellBehaved, Value, Kinds, Counted
<1>5. CASE c.issues \in {"none", "host", "bank"}
  BY <1>3, <1>5, IdFacts DEF Issued, CanIssue, Counted
<1>6. CASE c.issues = "client"
  BY <1>3, <1>4, <1>6 DEF Issued, CanIssue, Counted, CommandBoundsAreNat, ClientId, Id
<1>7. CASE c.issues = "connection"
  BY <1>3, <1>4, <1>7 DEF Issued, CanIssue, Counted, CommandBoundsAreNat, ConnId, Id
<1>8. CASE c.issues = "channel"
  BY <1>3, <1>4, <1>8 DEF Issued, CanIssue, Counted, CommandBoundsAreNat, ChanId, Id
<1> QED BY <1>2, <1>5, <1>6, <1>7, <1>8

(***************************************************************************)
(* The inductive invariant.                                                *)
(***************************************************************************)

Tx == [base: Bases \cup {0}, cmd: Commands \cup {GenesisCreate}, held: SUBSET State,
       outs: UNION {[I -> Value] : I \in SUBSET Id}]

\* Every state the transactions T ever produced.
Existing(T) == UNION {Produced(t) : t \in T}

\* T holds what its transactions take and refer to.
Closed(T) == \A t \in T : \A s \in ledger[t].held : s.tx \in T

WellTyped ==
    /\ ledger \in Seq(Tx) /\ Len(ledger) <= MaxTx
    /\ vault \in [Node -> SUBSET (DOMAIN ledger)]
    /\ flows \subseteq Flow
    /\ \A t \in DOMAIN ledger : BaseOf(t) \in DOMAIN ledger

\* The vaults hold all that they depend on, and so does the ledger.
VaultsAreClosed == Closed(DOMAIN ledger) /\ \A n \in Node : Closed(vault[n])

\* A flow has found states that exist, all of one base identifier.
FlowsHoldStates ==
    \A f \in flows : \A s \in f.held :
        s \in Existing(DOMAIN ledger) /\ s.base = f.base

\* Seen from any part of the ledger that is closed, identifiers are unique.
UniqueFromAnywhere == \A T \in SUBSET (DOMAIN ledger) : Closed(T) => UniqueIn(T)

\* The current Host has counted every identifier of its base.
Counts(h, i) ==
    /\ i[1] \in Counted => i[2] < h.val.next[i[1]]
    /\ i = BankId => 0 < h.val.next["bank"]

HostCounts ==
    \A h \in Unconsumed(DOMAIN ledger) : h.id = HostId =>
        \A s \in Existing(DOMAIN ledger) : s.base = h.base => Counts(h, s.id)

\* As long as a Genesis is unconsumed it is the only state of its base.
GenesisIsAlone ==
    \A g \in Unconsumed(DOMAIN ledger) : g.id = GenesisId =>
        \A s \in Existing(DOMAIN ledger) : s.base = g.base => s.id = GenesisId

LedgerIInv ==
    /\ WellTyped
    /\ VaultsAreClosed
    /\ FlowsHoldStates
    /\ UniqueFromAnywhere
    /\ HostCounts
    /\ GenesisIsAlone
    /\ IssuedOnce

\* What exists is well typed.
LEMMA ExistingAreStates ==
    ASSUME LedgerAssumptions, WellTyped
    PROVE  Existing(DOMAIN ledger) \subseteq State
<1> SUFFICES ASSUME NEW t \in DOMAIN ledger, NEW i \in DOMAIN ledger[t].outs
             PROVE  [tx |-> t, base |-> BaseOf(t), id |-> i, val |-> ledger[t].outs[i]] \in State
  BY DEF Existing, Produced
<1>1. /\ DOMAIN ledger = 1..Len(ledger) /\ Len(ledger) \in Nat
      /\ ledger[t] \in Tx
  BY LenProperties DEF WellTyped
<1>2. DOMAIN ledger \subseteq Bases
  BY <1>1 DEF WellTyped, Bases, LedgerAssumptions, LedgerBoundsAreNat
<1>3. PICK I \in SUBSET Id : ledger[t].outs \in [I -> Value]
  BY <1>1 DEF Tx
<1>4. i \in Id /\ ledger[t].outs[i] \in Value
  BY <1>3
<1>5. BaseOf(t) \in Bases
  BY <1>2 DEF WellTyped
<1> QED BY <1>2, <1>4, <1>5 DEF State

(***************************************************************************)
(* Signing one more transaction.                                           *)
(***************************************************************************)

\* tx becomes the u-th transaction.
Appended(u, tx) == u = Len(ledger) + 1 /\ ledger' = Append(ledger, tx)

\* Notarising appends one transaction and leaves the others as they are.
LEMMA AppendFacts ==
    ASSUME ledger \in Seq(Tx), NEW tx \in Tx, NEW u, Appended(u, tx)
    PROVE  /\ ledger' \in Seq(Tx)
           /\ Len(ledger') = u
           /\ DOMAIN ledger = 1..Len(ledger)
           /\ DOMAIN ledger' = DOMAIN ledger \cup {u}
           /\ u \notin DOMAIN ledger
           /\ ledger'[u] = tx
           /\ \A t \in DOMAIN ledger :
                 /\ ledger'[t] = ledger[t]
                 /\ Produced(t)' = Produced(t) /\ Consumed(t)' = Consumed(t)
                 /\ BaseOf(t)' = BaseOf(t) /\ Created(t)' = Created(t)
<1>1. /\ ledger' \in Seq(Tx) /\ Len(ledger') = u
      /\ Len(ledger) \in Nat
      /\ DOMAIN ledger = 1..Len(ledger) /\ DOMAIN ledger' = 1..u
      /\ \A t \in 1..Len(ledger) : ledger'[t] = ledger[t]
      /\ ledger'[u] = tx
  BY AppendProperties, LenProperties DEF Appended
<1>2. DOMAIN ledger' = DOMAIN ledger \cup {u} /\ u \notin DOMAIN ledger
  BY <1>1 DEF Appended
<1>3. ASSUME NEW t \in DOMAIN ledger
      PROVE  /\ ledger'[t] = ledger[t]
             /\ Produced(t)' = Produced(t) /\ Consumed(t)' = Consumed(t)
             /\ BaseOf(t)' = BaseOf(t) /\ Created(t)' = Created(t)
  <2>1. ledger'[t] = ledger[t]
    BY <1>1
  <2>2. BaseOf(t)' = BaseOf(t)
    BY <2>1 DEF BaseOf
  <2> QED BY <2>1, <2>2 DEF Produced, Consumed, Created
<1> QED BY <1>1, <1>2, <1>3

\* What is unconsumed after a transaction that takes existing states.
LEMMA UnconsumedAppended ==
    ASSUME ledger \in Seq(Tx), NEW tx \in Tx, NEW u, Appended(u, tx),
           Closed(DOMAIN ledger), tx.held \subseteq Existing(DOMAIN ledger),
           NEW T \in SUBSET (DOMAIN ledger)
    PROVE  /\ Unconsumed(T)' = Unconsumed(T)
           /\ Existing(T)' = Existing(T)
           /\ Closed(T)' <=> Closed(T)
           /\ Existing(T \cup {u})' = Existing(T) \cup Produced(u)'
           /\ Unconsumed(T \cup {u})' =
                 (Unconsumed(T) \ Consumed(u)') \cup Produced(u)'
<1>1. /\ u \notin DOMAIN ledger
      /\ ledger'[u] = tx
      /\ \A t \in DOMAIN ledger :
            /\ ledger'[t] = ledger[t]
            /\ Produced(t)' = Produced(t) /\ Consumed(t)' = Consumed(t)
  BY AppendFacts
<1>2. Existing(T)' = Existing(T) /\ Existing(T \cup {u})' = Existing(T) \cup Produced(u)'
  BY <1>1 DEF Existing
<1>3. Unconsumed(T)' = Unconsumed(T)
  BY <1>1 DEF Unconsumed
<1>4. Closed(T)' <=> Closed(T)
  BY <1>1 DEF Closed
<1>5. \A s \in Produced(u)' : s.tx = u
  BY DEF Produced
<1>6. \A s \in Consumed(u)' : s.tx \in DOMAIN ledger
  BY <1>1 DEF Consumed, Existing, Produced
<1>7. \A t \in T : \A s \in Consumed(t) : s.tx \in DOMAIN ledger
  BY DEF Closed, Consumed
<1>8. Unconsumed(T \cup {u})' =
         ((UNION {Produced(t) : t \in T}) \cup Produced(u)') \
         ((UNION {Consumed(t) : t \in T}) \cup Consumed(u)')
  BY <1>1 DEF Unconsumed
<1>9. \A s \in Produced(u)' : s \notin Consumed(u)' /\ \A t \in T : s \notin Consumed(t)
  BY <1>1, <1>5, <1>6, <1>7
<1>10. Unconsumed(T \cup {u})' = (Unconsumed(T) \ Consumed(u)') \cup Produced(u)'
  BY <1>8, <1>9 DEF Unconsumed
<1> QED BY <1>2, <1>3, <1>4, <1>10

\* No state of base b was ever called i.
Unused(b, i) == \A r \in Existing(DOMAIN ledger) : r.base = b => r.id # i

\* Each state the u-th transaction produces succeeds one that it consumes, or
\* has a name not used before.
Succession(u) ==
    \A s \in Produced(u)' :
        \/ \E p \in Consumed(u)' : p.base = s.base /\ p.id = s.id
        \/ Unused(s.base, s.id)

\* A transaction that takes the only states of its identifiers, or makes new ones,
\* keeps identifiers unique in every closed part of the ledger.
LEMMA UniqueStep ==
    ASSUME WellTyped, VaultsAreClosed, UniqueFromAnywhere,
           NEW tx \in Tx, NEW u, Appended(u, tx),
           tx.held \subseteq Unconsumed(DOMAIN ledger), Succession(u)
    PROVE  UniqueFromAnywhere'
<1>1. /\ tx.held \subseteq Existing(DOMAIN ledger)
      /\ Closed(DOMAIN ledger)
      /\ ledger \in Seq(Tx)
  BY DEF Unconsumed, Existing, WellTyped, VaultsAreClosed
<1>2. /\ u \notin DOMAIN ledger
      /\ DOMAIN ledger' = DOMAIN ledger \cup {u}
      /\ ledger'[u] = tx
      /\ \A t \in DOMAIN ledger : ledger'[t] = ledger[t]
  BY <1>1, AppendFacts
<1>3. SUFFICES ASSUME NEW T \in SUBSET (DOMAIN ledger'), Closed(T)',
                      NEW r \in Unconsumed(T)', NEW s \in Unconsumed(T)',
                      r.base = s.base, r.id = s.id
               PROVE  r = s
  BY DEF UniqueFromAnywhere, UniqueIn
<1>4. CASE u \notin T
  <2>1. T \in SUBSET (DOMAIN ledger)
    BY <1>2, <1>4
  <2>2. Unconsumed(T)' = Unconsumed(T) /\ Closed(T)
    BY <1>1, <1>3, <2>1, UnconsumedAppended
  <2> QED BY <1>3, <2>1, <2>2 DEF UniqueFromAnywhere, UniqueIn
<1>5. CASE u \in T
  <2> DEFINE T0 == T \ {u}
  <2>1. T0 \in SUBSET (DOMAIN ledger) /\ T = T0 \cup {u}
    BY <1>2, <1>5
  <2>2. Closed(T0)
    BY <1>1, <1>2, <1>3, <2>1 DEF Closed
  <2>3. UniqueIn(T0) /\ UniqueIn(DOMAIN ledger)
    BY <1>1, <2>1, <2>2 DEF UniqueFromAnywhere
  <2>4. Unconsumed(T)' = (Unconsumed(T0) \ Consumed(u)') \cup Produced(u)'
    <3> HIDE DEF T0
    <3> QED BY <1>1, <2>1, UnconsumedAppended
  <2>5. \A p \in Consumed(u)' : p \in Unconsumed(T0)
    <3> SUFFICES ASSUME NEW p \in Consumed(u)'
                 PROVE  p \in Unconsumed(T0)
      OBVIOUS
    <3>1. p \in tx.held /\ p \in Unconsumed(DOMAIN ledger)
      BY <1>2 DEF Consumed
    <3>2. p.tx \in T /\ p.tx # u
      BY <1>1, <1>2, <1>3, <1>5, <3>1 DEF Closed, Existing, Produced
    <3>3. p \in Produced(p.tx)
      BY <3>1 DEF Unconsumed, Produced
    <3>4. \A t \in T0 : p \notin Consumed(t)
      BY <2>1, <3>1 DEF Unconsumed
    <3> QED BY <3>2, <3>3, <3>4 DEF Unconsumed
  <2>6. \A x, y \in Produced(u)' : x.id = y.id => x = y
    BY DEF Produced
  <2>7. \A x \in Unconsumed(T0) \ Consumed(u)' : \A y \in Produced(u)' :
           ~(x.base = y.base /\ x.id = y.id)
    <3> SUFFICES ASSUME NEW x \in Unconsumed(T0) \ Consumed(u)', NEW y \in Produced(u)',
                        x.base = y.base, x.id = y.id
                 PROVE  FALSE
      OBVIOUS
    <3>1. x \in Existing(DOMAIN ledger)
      BY <2>1 DEF Unconsumed, Existing
    <3>2. ~Unused(y.base, y.id)
      BY <3>1 DEF Unused
    <3>3. PICK p \in Consumed(u)' : p.base = y.base /\ p.id = y.id
      BY <3>2 DEF Succession
    <3>4. p = x
      BY <2>3, <2>5, <3>3 DEF UniqueIn
    <3> QED BY <3>3, <3>4
  <2>8. \A x, y \in Unconsumed(T0) : x.base = y.base /\ x.id = y.id => x = y
    BY <2>3 DEF UniqueIn
  <2> QED
    <3> HIDE DEF T0
    <3> QED BY <1>3, <2>4, <2>6, <2>7, <2>8
<1> QED BY <1>4, <1>5

\* A transaction that creates unused identifiers keeps them issued once.
LEMMA IssuedOnceStep ==
    ASSUME WellTyped, IssuedOnce, NEW tx \in Tx, NEW u, Appended(u, tx),
           \A x \in Created(u)' : Unused(x[1], x[2])
    PROVE  IssuedOnce'
<1>1. /\ DOMAIN ledger' = DOMAIN ledger \cup {u}
      /\ \A t \in DOMAIN ledger : Created(t)' = Created(t)
  BY AppendFacts DEF WellTyped
<1>2. ASSUME NEW t \in DOMAIN ledger
      PROVE  Created(t) \cap Created(u)' = {}
  <2>1. ASSUME NEW i \in DOMAIN ledger[t].outs
        PROVE  ~Unused(BaseOf(t), i)
    <3>1. [tx |-> t, base |-> BaseOf(t), id |-> i, val |-> ledger[t].outs[i]]
             \in Existing(DOMAIN ledger)
      BY DEF Existing, Produced
    <3> QED BY <3>1 DEF Unused
  <2>2. \A x \in Created(t) : ~Unused(x[1], x[2])
    BY <2>1 DEF Created
  <2> QED BY <2>2
<1> QED BY <1>1, <1>2 DEF IssuedOnce

(***************************************************************************)
(* A new Genesis.                                                          *)
(***************************************************************************)
GenesisTx == [base |-> 0, cmd |-> GenesisCreate, held |-> {},
              outs |-> [i \in {GenesisId} |-> Fresh(GenesisId)]]

\* A Genesis starts a base of its own.
LEMMA GenesisFacts ==
    ASSUME WellTyped, NEW u, Appended(u, GenesisTx)
    PROVE  /\ GenesisTx \in Tx
           /\ BaseOf(u)' = u
           /\ Consumed(u)' = {}
           /\ Produced(u)' = {[tx |-> u, base |-> u, id |-> GenesisId,
                               val |-> Fresh(GenesisId)]}
           /\ Created(u)' = {<<u, GenesisId>>}
           /\ \A i : Unused(u, i)
<1>1. Fresh(GenesisId) \in Value
  BY IdFacts DEF Fresh, Zero, Value
<1>2. GenesisTx \in Tx
  <2>1. GenesisTx.outs \in [{GenesisId} -> Value] /\ {GenesisId} \in SUBSET Id
    BY <1>1, IdFacts DEF GenesisTx
  <2>2. GenesisTx.outs \in UNION {[I -> Value] : I \in SUBSET Id}
    BY <2>1
  <2> QED BY <2>2 DEF GenesisTx, Tx
<1>3. ledger'[u] = GenesisTx /\ u \notin DOMAIN ledger
  BY <1>2, AppendFacts DEF WellTyped
<1>4. BaseOf(u)' = u
  BY <1>3 DEF BaseOf, GenesisTx
<1>5. Consumed(u)' = {}
  BY <1>3 DEF Consumed, GenesisTx
<1>6. Produced(u)' = {[tx |-> u, base |-> u, id |-> GenesisId, val |-> Fresh(GenesisId)]}
  BY <1>3, <1>4 DEF Produced, GenesisTx
<1>7. Created(u)' = {<<u, GenesisId>>}
  BY <1>3, <1>4 DEF Created, GenesisTx, GenesisCreate, Command
<1>8. \A i : Unused(u, i)
  BY <1>3 DEF Unused, Existing, Produced, WellTyped
<1> QED BY <1>2, <1>4, <1>5, <1>6, <1>7, <1>8

\* createGenesis preserves the invariant.
LEMMA GenesisStep ==
    ASSUME LedgerAssumptions, LedgerIInv, CreateGenesis
    PROVE  LedgerIInv'
<1> DEFINE u == Len(ledger) + 1
<1>1. /\ WellTyped /\ VaultsAreClosed /\ FlowsHoldStates /\ UniqueFromAnywhere
      /\ HostCounts /\ GenesisIsAlone /\ IssuedOnce
  BY DEF LedgerIInv
<1>2. /\ Len(ledger) < MaxTx
      /\ UNCHANGED <<vault, flows>>
      /\ ledger' = Append(ledger, GenesisTx)
  BY DEF CreateGenesis, Sign, GenesisTx
<1>3. PICK w : w = u
  OBVIOUS
<1>4. Appended(w, GenesisTx)
  BY <1>2, <1>3 DEF Appended
<1>5. /\ GenesisTx \in Tx
      /\ BaseOf(w)' = w
      /\ Consumed(w)' = {}
      /\ Produced(w)' = {[tx |-> w, base |-> w, id |-> GenesisId, val |-> Fresh(GenesisId)]}
      /\ Created(w)' = {<<w, GenesisId>>}
      /\ \A i : Unused(w, i)
  BY <1>1, <1>4, GenesisFacts
<1>6. /\ ledger' \in Seq(Tx) /\ Len(ledger') = w
      /\ DOMAIN ledger' = DOMAIN ledger \cup {w} /\ w \notin DOMAIN ledger
      /\ ledger'[w] = GenesisTx
      /\ \A t \in DOMAIN ledger : ledger'[t] = ledger[t] /\ BaseOf(t)' = BaseOf(t)
  BY <1>1, <1>4, <1>5, AppendFacts DEF WellTyped
<1>7. GenesisTx.held = {}
  BY DEF GenesisTx
<1>8. WellTyped'
  <2>1. Len(ledger') <= MaxTx
    BY <1>1, <1>2, <1>3, <1>6, LenProperties
       DEF WellTyped, LedgerAssumptions, LedgerBoundsAreNat
  <2> QED BY <1>1, <1>2, <1>5, <1>6, <2>1 DEF WellTyped
<1>9. \A T \in SUBSET (DOMAIN ledger) :
         /\ Unconsumed(T)' = Unconsumed(T) /\ Existing(T)' = Existing(T)
         /\ Closed(T)' <=> Closed(T)
         /\ Existing(T \cup {w})' = Existing(T) \cup Produced(w)'
         /\ Unconsumed(T \cup {w})' = (Unconsumed(T) \ Consumed(w)') \cup Produced(w)'
  BY <1>1, <1>4, <1>5, <1>7, UnconsumedAppended DEF WellTyped, VaultsAreClosed
<1>10. /\ Existing(DOMAIN ledger)' = Existing(DOMAIN ledger) \cup Produced(w)'
       /\ Unconsumed(DOMAIN ledger)' = Unconsumed(DOMAIN ledger) \cup Produced(w)'
  <2>1. \A T : T = DOMAIN ledger \cup {w} =>
           Existing(T)' = Existing(DOMAIN ledger) \cup Produced(w)' /\
           Unconsumed(T)' = Unconsumed(DOMAIN ledger) \cup Produced(w)'
    BY <1>5, <1>9
  <2> QED BY <1>6, <2>1 DEF Existing, Unconsumed
<1>11. VaultsAreClosed'
  <2>1. Closed(DOMAIN ledger)'
    BY <1>1, <1>6, <1>7 DEF VaultsAreClosed, Closed
  <2>2. \A n \in Node : Closed(vault[n])'
    BY <1>1, <1>2, <1>6 DEF VaultsAreClosed, Closed, WellTyped
  <2> QED BY <2>1, <2>2 DEF VaultsAreClosed
<1>12. FlowsHoldStates'
  BY <1>1, <1>2, <1>10 DEF FlowsHoldStates
<1>13. UniqueFromAnywhere'
  BY <1>1, <1>4, <1>5, <1>7, UniqueStep DEF Succession
<1>14. IssuedOnce'
  BY <1>1, <1>4, <1>5, IssuedOnceStep
<1>15. \A s \in Existing(DOMAIN ledger) : s.base # w
  BY <1>5 DEF Unused
<1>16. Unconsumed(DOMAIN ledger) \subseteq Existing(DOMAIN ledger)
  BY DEF Unconsumed, Existing
<1>17. HostCounts'
  BY <1>1, <1>5, <1>10, <1>15, <1>16, IdFacts DEF HostCounts, Counts
<1>18. GenesisIsAlone'
  BY <1>1, <1>5, <1>10, <1>15, <1>16 DEF GenesisIsAlone
<1> QED BY <1>8, <1>11, <1>12, <1>13, <1>14, <1>17, <1>18 DEF LedgerIInv

(***************************************************************************)
(* The transaction of a flow.                                              *)
(***************************************************************************)
FlowTx(f) == [base |-> f.base, cmd |-> f.cmd, held |-> f.held,
              outs |-> Outputs(f.cmd, ValueOf(f.held))]

\* What a flow holds when the notary accepts it is one current state for each
\* identifier involved, all of one base.
LEMMA HeldFacts ==
    ASSUME LedgerAssumptions, LedgerIInv, NEW f \in flows, Notarise(f)
    PROVE  /\ f.cmd \in Commands /\ WellBehaved(f.cmd)
           /\ f.held \subseteq Unconsumed(DOMAIN ledger)
           /\ f.held \subseteq Existing(DOMAIN ledger)
           /\ f.held \subseteq State
           /\ \A s \in f.held : s.base = f.base /\ s.id \in Involved(f.cmd)
           /\ \A i \in Involved(f.cmd) : \E s \in f.held : s.id = i
           /\ \A s \in f.held : \A r \in Unconsumed(DOMAIN ledger) :
                 r.base = f.base /\ r.id = s.id => r = s
           /\ ValueOf(f.held) \in [Involved(f.cmd) -> Value]
           /\ \A s \in f.held : ValueOf(f.held)[s.id] = s.val
           /\ f.base \in DOMAIN ledger
<1>1. /\ f.cmd \in Commands /\ f.held \subseteq State
      /\ Identifiers(f.held) = Involved(f.cmd)
      /\ f.held \subseteq Unconsumed(DOMAIN ledger)
  BY DEF LedgerIInv, WellTyped, Flow, Notarise, NotaryAccepts
<1>2. WellBehaved(f.cmd)
  BY <1>1, CommandsBehave
<1>3. \A s \in f.held : s \in Existing(DOMAIN ledger) /\ s.base = f.base
  BY DEF LedgerIInv, FlowsHoldStates
<1>4. UniqueIn(DOMAIN ledger)
  BY DEF LedgerIInv, VaultsAreClosed, UniqueFromAnywhere
<1>5. \A s \in f.held : \A r \in Unconsumed(DOMAIN ledger) :
         r.base = f.base /\ r.id = s.id => r = s
  BY <1>1, <1>3, <1>4 DEF UniqueIn
<1>6. \A i \in Involved(f.cmd) : \E s \in f.held : s.id = i
  BY <1>1 DEF Identifiers
<1>7. \A s \in f.held : s.id \in Involved(f.cmd)
  BY <1>1 DEF Identifiers
<1>8. ASSUME NEW s \in f.held
      PROVE  (CHOOSE r \in f.held : r.id = s.id) = s
  <2>1. \A r \in f.held : r.id = s.id => r = s
    BY <1>1, <1>3, <1>5
  <2> QED BY <2>1
<1>9. \A s \in f.held : ValueOf(f.held)[s.id] = s.val
  BY <1>8 DEF ValueOf, Identifiers
<1>10. ValueOf(f.held) \in [Involved(f.cmd) -> Value]
  <2>1. \A s \in f.held : s.val \in Value
    BY <1>1 DEF State
  <2>2. DOMAIN ValueOf(f.held) = Involved(f.cmd)
    BY <1>1 DEF ValueOf
  <2>3. \A i \in Involved(f.cmd) : ValueOf(f.held)[i] \in Value
    BY <1>6, <1>9, <2>1
  <2>4. ValueOf(f.held) = [i \in Involved(f.cmd) |-> ValueOf(f.held)[i]]
    BY <1>1 DEF ValueOf
  <2> QED BY <2>3, <2>4
<1>11. f.base \in DOMAIN ledger
  <2>1. PICK s \in f.held : TRUE
    BY <1>2, <1>6 DEF WellBehaved
  <2>2. PICK t \in DOMAIN ledger : s \in Produced(t)
    BY <1>3 DEF Existing
  <2>3. s.base = BaseOf(t)
    BY <2>2 DEF Produced
  <2> QED BY <1>3, <2>2, <2>3 DEF LedgerIInv, WellTyped
<1> QED BY <1>1, <1>2, <1>3, <1>5, <1>6, <1>7, <1>9, <1>10, <1>11

\* Its outputs: the states it took, but for a Genesis, and what it issued,
\* under a name not used before.
LEMMA FlowTxFacts ==
    ASSUME LedgerAssumptions, LedgerIInv, NEW f \in flows, Notarise(f),
           NEW u, u = Len(ledger) + 1
    PROVE  LET v == ValueOf(f.held)
               out == Outputs(f.cmd, v)
           IN  /\ FlowTx(f) \in Tx
               /\ Appended(u, FlowTx(f))
               /\ BaseOf(u)' = f.base
               /\ Consumed(u)' = {s \in f.held : s.id \in f.cmd.takes}
               /\ Produced(u)' = {[tx |-> u, base |-> f.base, id |-> i, val |-> out[i]] :
                                     i \in Kept(f.cmd) \cup Issued(f.cmd, v)}
               /\ \A i \in Issued(f.cmd, v) : Unused(f.base, i)
               /\ Created(u)' \subseteq {<<f.base, i>> : i \in Issued(f.cmd, v)}
<1> DEFINE v == ValueOf(f.held)
<1>1. /\ f.cmd \in Commands /\ WellBehaved(f.cmd)
      /\ f.held \subseteq Unconsumed(DOMAIN ledger)
      /\ f.held \subseteq State
      /\ \A s \in f.held : s.base = f.base
      /\ \A i \in Involved(f.cmd) : \E s \in f.held : s.id = i
      /\ v \in [Involved(f.cmd) -> Value]
      /\ \A s \in f.held : v[s.id] = s.val
      /\ f.base \in DOMAIN ledger
  BY HeldFacts
<1>2. /\ CanIssue(f.cmd, v)
      /\ Appended(u, FlowTx(f))
  BY DEF Notarise, Sign, Appended, FlowTx
<1> HIDE DEF v
<1>3. /\ Issued(f.cmd, v) \subseteq Id
      /\ Kept(f.cmd) \subseteq Id
      /\ f.cmd.issues = "none" => Issued(f.cmd, v) = {}
      /\ f.cmd.issues = "host" => Issued(f.cmd, v) = {HostId}
      /\ f.cmd.issues = "bank" => Issued(f.cmd, v) = {BankId} /\ v[HostId].next["bank"] = 0
      /\ f.cmd.issues \in Counted =>
            Issued(f.cmd, v) = {<<f.cmd.issues, v[HostId].next[f.cmd.issues]>>}
  BY <1>1, <1>2, IssuedFacts DEF LedgerAssumptions
<1>4. Outputs(f.cmd, v) \in [Kept(f.cmd) \cup Issued(f.cmd, v) -> Value]
  BY <1>1, OutputFacts
<1>5. FlowTx(f) \in Tx
  <2>1. Kept(f.cmd) \cup Issued(f.cmd, v) \in SUBSET Id
    BY <1>3
  <2>2. Outputs(f.cmd, v) \in UNION {[I -> Value] : I \in SUBSET Id}
    BY <1>4, <2>1
  <2>3. f.base \in Bases
    BY DEF LedgerIInv, WellTyped, Flow
  <2> QED BY <1>1, <2>2, <2>3 DEF FlowTx, Tx, v
<1>6. ledger'[u] = FlowTx(f)
  BY <1>2, <1>5, AppendFacts DEF LedgerIInv, WellTyped
<1>7. f.cmd # GenesisCreate
  BY <1>1 DEF WellBehaved, GenesisCreate, Command, Kinds
<1>8. BaseOf(u)' = f.base
  BY <1>6, <1>7 DEF BaseOf, FlowTx
<1>9. Consumed(u)' = {s \in f.held : s.id \in f.cmd.takes}
  BY <1>6 DEF Consumed, FlowTx
<1>10. ledger'[u].outs = Outputs(f.cmd, v)
  BY <1>6 DEF FlowTx, v
<1>11. Produced(u)' = {[tx |-> u, base |-> f.base, id |-> i, val |-> Outputs(f.cmd, v)[i]] :
                         i \in Kept(f.cmd) \cup Issued(f.cmd, v)}
  BY <1>4, <1>8, <1>10 DEF Produced
<1>12. Created(u)' \subseteq {<<f.base, i>> : i \in Issued(f.cmd, v)}
  <2>1. ledger'[u].cmd = f.cmd
    BY <1>6 DEF FlowTx
  <2>2. DOMAIN ledger'[u].outs = Kept(f.cmd) \cup Issued(f.cmd, v)
    BY <1>4, <1>10
  <2> QED BY <1>8, <2>1, <2>2 DEF Created, Kept
<1>13. ASSUME NEW i \in Issued(f.cmd, v)
       PROVE  Unused(f.base, i)
  <2>1. SUFFICES ASSUME NEW r \in Existing(DOMAIN ledger), r.base = f.base, r.id = i
                 PROVE  FALSE
    BY DEF Unused
  <2>2. f.cmd.issues \in {"none", "host", "bank"} \cup Counted
    BY <1>1 DEF WellBehaved, Kinds, Counted
  <2>3. CASE f.cmd.issues = "none"
    BY <1>3, <1>13, <2>3
  <2>4. CASE f.cmd.issues = "host"
    <3>1. PICK g \in f.held : g.id = GenesisId
      BY <1>1, <2>4 DEF WellBehaved
    <3>2. r.id = GenesisId
      BY <1>1, <2>1, <3>1 DEF LedgerIInv, GenesisIsAlone
    <3> QED BY <1>3, <1>13, <2>1, <2>4, <3>2, IdFacts
  <2>5. CASE f.cmd.issues \in {"bank"} \cup Counted
    <3>1. HostId \in Involved(f.cmd)
      BY <1>1, <2>5 DEF WellBehaved, Kinds, Counted
    <3>2. PICK h \in f.held : h.id = HostId
      BY <1>1, <3>1
    <3>3. Counts(h, i)
      BY <1>1, <2>1, <3>2 DEF LedgerIInv, HostCounts
    <3>4. h.val = v[HostId] /\ h.val \in Value
      BY <1>1, <3>1, <3>2
    <3>5. CASE f.cmd.issues = "bank"
      BY <1>3, <1>13, <3>3, <3>4, <3>5 DEF Counts
    <3>6. CASE f.cmd.issues \in Counted
      <4>1. i = <<f.cmd.issues, v[HostId].next[f.cmd.issues]>>
        BY <1>3, <1>13, <3>6
      <4>2. v[HostId].next[f.cmd.issues] \in Nat
        BY <3>4, <3>6 DEF Value, Counted, Kinds
      <4> QED BY <3>3, <3>4, <3>6, <4>1, <4>2 DEF Counts
    <3> QED BY <2>5, <3>5, <3>6
  <2> QED BY <2>2, <2>3, <2>4, <2>5
<1> QED BY <1>2, <1>5, <1>8, <1>9, <1>11, <1>12, <1>13 DEF v

\* A transaction that the notary signs preserves the invariant.
LEMMA NotariseStep ==
    ASSUME LedgerAssumptions, LedgerIInv, NEW f \in flows, Notarise(f)
    PROVE  LedgerIInv'
<1>1. PICK u : u = Len(ledger) + 1
  OBVIOUS
<1> DEFINE v == ValueOf(f.held)
           out == Outputs(f.cmd, v)
<1>2. /\ WellTyped /\ VaultsAreClosed /\ FlowsHoldStates /\ UniqueFromAnywhere
      /\ HostCounts /\ GenesisIsAlone /\ IssuedOnce
  BY DEF LedgerIInv
<1>3. /\ f.cmd \in Commands /\ WellBehaved(f.cmd)
      /\ f.held \subseteq Unconsumed(DOMAIN ledger)
      /\ f.held \subseteq Existing(DOMAIN ledger)
      /\ \A s \in f.held : s.base = f.base /\ s.id \in Involved(f.cmd)
      /\ \A i \in Involved(f.cmd) : \E s \in f.held : s.id = i
      /\ \A s \in f.held : \A r \in Unconsumed(DOMAIN ledger) :
            r.base = f.base /\ r.id = s.id => r = s
      /\ v \in [Involved(f.cmd) -> Value]
      /\ \A s \in f.held : v[s.id] = s.val
      /\ f.base \in DOMAIN ledger
  BY HeldFacts
<1>4. /\ FlowTx(f) \in Tx
      /\ Appended(u, FlowTx(f))
      /\ BaseOf(u)' = f.base
      /\ Consumed(u)' = {s \in f.held : s.id \in f.cmd.takes}
      /\ Produced(u)' = {[tx |-> u, base |-> f.base, id |-> i, val |-> out[i]] :
                            i \in Kept(f.cmd) \cup Issued(f.cmd, v)}
      /\ \A i \in Issued(f.cmd, v) : Unused(f.base, i)
      /\ Created(u)' \subseteq {<<f.base, i>> : i \in Issued(f.cmd, v)}
  BY <1>1, FlowTxFacts
<1>5. /\ CanIssue(f.cmd, v) /\ Len(ledger) < MaxTx
      /\ flows' = flows \ {f} /\ vault' = vault
  BY DEF Notarise, Sign
<1> HIDE DEF v, out
<1>6. FlowTx(f).held = f.held
  BY DEF FlowTx
<1>7. /\ ledger' \in Seq(Tx) /\ Len(ledger') = u
      /\ DOMAIN ledger' = DOMAIN ledger \cup {u} /\ u \notin DOMAIN ledger
      /\ ledger'[u].held = f.held
      /\ \A t \in DOMAIN ledger : ledger'[t] = ledger[t] /\ BaseOf(t)' = BaseOf(t)
  BY <1>2, <1>4, <1>6, AppendFacts DEF WellTyped
<1>8. WellTyped'
  <2>1. Len(ledger') <= MaxTx
    BY <1>1, <1>2, <1>5, <1>7, LenProperties
       DEF WellTyped, LedgerAssumptions, LedgerBoundsAreNat
  <2>2. \A t \in DOMAIN ledger' : BaseOf(t)' \in DOMAIN ledger'
    BY <1>2, <1>3, <1>4, <1>7 DEF WellTyped
  <2> QED BY <1>2, <1>5, <1>7, <2>1, <2>2 DEF WellTyped
<1>9. \A T \in SUBSET (DOMAIN ledger) :
         /\ Existing(T \cup {u})' = Existing(T) \cup Produced(u)'
         /\ Unconsumed(T \cup {u})' = (Unconsumed(T) \ Consumed(u)') \cup Produced(u)'
  BY <1>2, <1>3, <1>4, <1>6, UnconsumedAppended DEF WellTyped, VaultsAreClosed
<1>10. /\ Existing(DOMAIN ledger)' = Existing(DOMAIN ledger) \cup Produced(u)'
       /\ Unconsumed(DOMAIN ledger)' =
             (Unconsumed(DOMAIN ledger) \ Consumed(u)') \cup Produced(u)'
  <2>1. \A T : T = DOMAIN ledger \cup {u} =>
           /\ Existing(T)' = Existing(DOMAIN ledger) \cup Produced(u)'
           /\ Unconsumed(T)' = (Unconsumed(DOMAIN ledger) \ Consumed(u)') \cup Produced(u)'
    BY <1>9
  <2> QED BY <1>7, <2>1 DEF Existing, Unconsumed
<1>11. VaultsAreClosed'
  <2>1. \A s \in f.held : s.tx \in DOMAIN ledger
    BY <1>3 DEF Existing, Produced
  <2>2. Closed(DOMAIN ledger)'
    BY <1>2, <1>7, <2>1 DEF VaultsAreClosed, Closed
  <2>3. \A n \in Node : Closed(vault[n])'
    BY <1>2, <1>5, <1>7 DEF VaultsAreClosed, Closed, WellTyped
  <2> QED BY <2>2, <2>3 DEF VaultsAreClosed
<1>12. FlowsHoldStates'
  BY <1>2, <1>5, <1>10 DEF FlowsHoldStates
<1>13. Kept(f.cmd) \subseteq f.cmd.takes /\ f.cmd.takes \subseteq Involved(f.cmd)
  BY <1>3 DEF Kept, WellBehaved
<1>14. Succession(u)
  <2> SUFFICES ASSUME NEW s \in Produced(u)'
               PROVE  \/ \E p \in Consumed(u)' : p.base = s.base /\ p.id = s.id
                      \/ Unused(s.base, s.id)
    BY DEF Succession
  <2>1. s.base = f.base /\ s.id \in Kept(f.cmd) \cup Issued(f.cmd, v)
    BY <1>4
  <2>2. CASE s.id \in Kept(f.cmd)
    BY <1>3, <1>4, <1>13, <2>1, <2>2
  <2>3. CASE s.id \in Issued(f.cmd, v)
    BY <1>4, <2>1, <2>3
  <2> QED BY <2>1, <2>2, <2>3
<1>15. UniqueFromAnywhere'
  BY <1>2, <1>3, <1>4, <1>6, <1>14, UniqueStep
<1>16. IssuedOnce'
  BY <1>2, <1>4, IssuedOnceStep
<1>17. /\ f.cmd.issues = "none" => Issued(f.cmd, v) = {}
       /\ f.cmd.issues = "host" => Issued(f.cmd, v) = {HostId}
       /\ f.cmd.issues = "bank" => Issued(f.cmd, v) = {BankId} /\ v[HostId].next["bank"] = 0
       /\ f.cmd.issues \in Counted =>
             Issued(f.cmd, v) = {<<f.cmd.issues, v[HostId].next[f.cmd.issues]>>}
       /\ f.cmd.issues \in {"none", "host", "bank"} \cup Counted
       /\ f.cmd.issues \in {"bank"} \cup Counted => HostId \in f.cmd.takes
       /\ f.cmd.issues = "host" => Involved(f.cmd) = {GenesisId} /\ f.cmd.takes = {GenesisId}
       /\ f.cmd.issues # "host" => GenesisId \notin Involved(f.cmd)
  BY <1>3, <1>5, IssuedFacts DEF LedgerAssumptions, WellBehaved, Kinds, Counted
<1>18. HostId \in f.cmd.takes =>
          /\ HostId \in Kept(f.cmd)
          /\ \A k \in Kinds : out[HostId].next[k] =
                IF k = f.cmd.issues THEN v[HostId].next[k] + 1 ELSE v[HostId].next[k]
  BY <1>3, OutputFacts DEF out
<1>19. HostCounts'
  <2> SUFFICES ASSUME NEW h \in Unconsumed(DOMAIN ledger)', h.id = HostId,
                      NEW s \in Existing(DOMAIN ledger)', s.base = h.base
               PROVE  Counts(h, s.id)
    BY DEF HostCounts
  <2>1. ASSUME NEW x \in Existing(DOMAIN ledger), x.base = f.base
        PROVE  f.cmd.issues = "host" => x.id = GenesisId
    <3>1. SUFFICES ASSUME f.cmd.issues = "host"
                   PROVE  x.id = GenesisId
      OBVIOUS
    <3>2. PICK g \in f.held : g.id = GenesisId
      BY <1>3, <1>17, <3>1
    <3> QED BY <1>2, <1>3, <2>1, <3>2 DEF GenesisIsAlone
  <2>2. CASE h \in Unconsumed(DOMAIN ledger) \ Consumed(u)'
    <3>1. h \in Existing(DOMAIN ledger)
      BY <2>2 DEF Unconsumed, Existing
    <3>2. \A x \in Existing(DOMAIN ledger) : x.base = h.base => Counts(h, x.id)
      BY <1>2, <2>2 DEF HostCounts
    <3>3. CASE s \in Existing(DOMAIN ledger)
      BY <3>2, <3>3
    <3>4. CASE s \in Produced(u)'
      <4>1. h.base = f.base /\ s.id \in Kept(f.cmd) \cup Issued(f.cmd, v)
        BY <1>4, <3>4
      <4>2. f.cmd.issues # "host"
        BY <2>1, <3>1, <4>1, IdFacts
      <4>3. HostId \notin f.cmd.takes
        BY <1>3, <1>4, <1>13, <2>2, <4>1
      <4>4. Issued(f.cmd, v) = {}
        BY <1>17, <4>2, <4>3
      <4>5. PICK p \in f.held : p.id = s.id
        BY <1>3, <1>13, <4>1, <4>4
      <4> QED BY <1>3, <3>2, <4>1, <4>5
    <3> QED BY <1>10, <3>3, <3>4
  <2>3. CASE h \in Produced(u)'
    <3>1. h.base = f.base /\ h.val = out[HostId] /\ HostId \in Kept(f.cmd) \cup Issued(f.cmd, v)
      BY <1>4, <2>3
    <3>2. CASE HostId \in Kept(f.cmd)
      <4>1. PICK g \in f.held : g.id = HostId /\ g.val = v[HostId]
        BY <1>3, <1>13, <3>2
      <4>2. v[HostId] \in Value
        BY <1>3, <1>13, <3>2
      <4>3. \A k \in Kinds : v[HostId].next[k] \in Nat
        BY <4>2 DEF Value
      <4>4. \A k \in Kinds : h.val.next[k] =
               IF k = f.cmd.issues THEN g.val.next[k] + 1 ELSE g.val.next[k]
        BY <1>13, <1>18, <3>1, <3>2, <4>1
      <4>5. \A x \in Existing(DOMAIN ledger) : x.base = f.base => Counts(g, x.id)
        BY <1>2, <1>3, <4>1 DEF HostCounts
      <4>6. ASSUME NEW x \in Existing(DOMAIN ledger), x.base = f.base
            PROVE  Counts(h, x.id)
        <5>1. Counts(g, x.id)
          BY <4>5, <4>6
        <5>2. ASSUME x.id[1] \in Counted
              PROVE  x.id[2] < h.val.next[x.id[1]]
          <6>1. x.id[1] \in Kinds /\ x.id[2] \in Nat
            <7>1. x.id \in Id
              BY <1>2, ExistingAreStates DEF State
            <7>2. x.id \in ClientId \cup ConnId \cup ChanId
              BY <5>2, <7>1, IdFacts DEF Id, Counted
            <7> QED BY <7>2 DEF ClientId, ConnId, ChanId, Kinds
          <6>2. x.id[2] < g.val.next[x.id[1]] /\ g.val.next[x.id[1]] \in Nat
            BY <4>1, <4>3, <5>1, <5>2, <6>1 DEF Counts
          <6>3. h.val.next[x.id[1]] \in {g.val.next[x.id[1]], g.val.next[x.id[1]] + 1}
            BY <4>4, <6>1
          <6> QED BY <6>1, <6>2, <6>3
        <5>3. x.id = BankId => 0 < h.val.next["bank"]
          BY <4>1, <4>3, <4>4, <5>1 DEF Counts, Kinds
        <5> QED BY <5>2, <5>3 DEF Counts
      <4>7. CASE s \in Existing(DOMAIN ledger)
        BY <3>1, <4>6, <4>7
      <4>8. CASE s \in Produced(u)' /\ s.id \in Kept(f.cmd)
        <5>1. PICK p \in f.held : p.id = s.id
          BY <1>3, <1>13, <4>8
        <5> QED BY <1>3, <4>6, <5>1
      <4>9. CASE s \in Produced(u)' /\ s.id \in Issued(f.cmd, v)
        <5>1. CASE f.cmd.issues = "host"
          BY <1>13, <1>17, <3>2, <5>1, IdFacts
        <5>2. CASE f.cmd.issues = "bank"
          <6>1. s.id = BankId /\ 0 < h.val.next["bank"]
            BY <1>17, <4>1, <4>3, <4>4, <4>9, <5>2 DEF Kinds
          <6> QED BY <6>1, IdFacts DEF Counts, Counted
        <5>3. CASE f.cmd.issues \in Counted
          <6>1. s.id = <<f.cmd.issues, v[HostId].next[f.cmd.issues]>>
            BY <1>17, <4>9, <5>3
          <6>2. f.cmd.issues \in Kinds /\ f.cmd.issues # "bank"
            BY <5>3 DEF Counted, Kinds
          <6>3. s.id[2] < h.val.next[s.id[1]] /\ s.id # BankId
            BY <4>1, <4>3, <4>4, <6>1, <6>2 DEF BankId
          <6> QED BY <6>3 DEF Counts
        <5> QED BY <1>17, <4>9, <5>1, <5>2, <5>3
      <4>10. s \in Produced(u)' => s.id \in Kept(f.cmd) \cup Issued(f.cmd, v)
        BY <1>4
      <4> QED BY <1>10, <4>7, <4>8, <4>9, <4>10
    <3>3. CASE HostId \in Issued(f.cmd, v)
      <4>1. f.cmd.issues = "host"
        BY <1>17, <3>3, IdFacts DEF Counted, HostId
      <4>2. s \in Produced(u)' => s.id = HostId
        BY <1>4, <1>17, <4>1 DEF Kept
      <4>3. s \in Existing(DOMAIN ledger) => s.id = GenesisId
        BY <2>1, <3>1, <4>1
      <4> QED BY <1>10, <4>2, <4>3, IdFacts DEF Counts, Counted
    <3> QED BY <3>1, <3>2, <3>3
  <2> QED BY <1>10, <2>2, <2>3
<1>20. GenesisIsAlone'
  <2> SUFFICES ASSUME NEW g \in Unconsumed(DOMAIN ledger)', g.id = GenesisId,
                      NEW s \in Existing(DOMAIN ledger)', s.base = g.base
               PROVE  s.id = GenesisId
    BY DEF GenesisIsAlone
  <2>1. g \notin Produced(u)'
    <3>1. GenesisId \notin Kept(f.cmd)
      BY DEF Kept
    <3>2. GenesisId \notin Issued(f.cmd, v)
      BY <1>17, IdFacts DEF Counted, GenesisId
    <3> QED BY <1>4, <3>1, <3>2
  <2>2. g \in Unconsumed(DOMAIN ledger) /\ g \notin Consumed(u)'
    BY <1>10, <2>1
  <2>3. \A x \in Existing(DOMAIN ledger) : x.base = g.base => x.id = GenesisId
    BY <1>2, <2>2 DEF GenesisIsAlone
  <2>4. s \notin Produced(u)'
    <3> SUFFICES ASSUME s \in Produced(u)'
                 PROVE  FALSE
      OBVIOUS
    <3>1. g.base = f.base
      BY <1>4
    <3>2. CASE f.cmd.issues = "host"
      <4>1. PICK p \in f.held : p.id = GenesisId
        BY <1>3, <1>17, <3>2
      <4>2. p = g
        BY <1>3, <2>2, <3>1, <4>1
      <4> QED BY <1>4, <1>17, <2>2, <3>2, <4>1, <4>2
    <3>3. CASE f.cmd.issues # "host"
      <4>1. PICK p \in f.held : p.id \in Involved(f.cmd)
        BY <1>3 DEF WellBehaved
      <4> QED BY <1>3, <1>17, <2>3, <3>1, <3>3, <4>1
    <3> QED BY <3>2, <3>3
  <2> QED BY <1>10, <2>3, <2>4
<1> QED BY <1>8, <1>11, <1>12, <1>15, <1>16, <1>19, <1>20 DEF LedgerIInv

(***************************************************************************)
(* Every step.                                                             *)
(***************************************************************************)

\* Nothing else touches the ledger.
LEMMA UnchangedLedger ==
    ASSUME UNCHANGED ledger
    PROVE  /\ \A t : /\ Produced(t)' = Produced(t) /\ Consumed(t)' = Consumed(t)
                     /\ BaseOf(t)' = BaseOf(t) /\ Created(t)' = Created(t)
           /\ \A T : /\ Unconsumed(T)' = Unconsumed(T) /\ Existing(T)' = Existing(T)
                     /\ Closed(T)' <=> Closed(T)
                     /\ UniqueIn(T)' <=> UniqueIn(T)
<1>1. \A t : BaseOf(t)' = BaseOf(t) /\ Consumed(t)' = Consumed(t)
  BY DEF BaseOf, Consumed
<1>2. \A t : Produced(t)' = Produced(t) /\ Created(t)' = Created(t)
  BY <1>1 DEF Produced, Created
<1>3. \A T : Unconsumed(T)' = Unconsumed(T) /\ Existing(T)' = Existing(T)
  BY <1>1, <1>2 DEF Unconsumed, Existing
<1>4. \A T : (Closed(T)' <=> Closed(T)) /\ (UniqueIn(T)' <=> UniqueIn(T))
  BY <1>3 DEF Closed, UniqueIn
<1> QED BY <1>1, <1>2, <1>3, <1>4

\* What the invariant says of the ledger stays true when it does not change.
LEMMA LedgerUntouched ==
    ASSUME LedgerIInv, UNCHANGED ledger
    PROVE  /\ Closed(DOMAIN ledger)' /\ UniqueFromAnywhere' /\ HostCounts'
           /\ GenesisIsAlone' /\ IssuedOnce'
           /\ ledger' \in Seq(Tx) /\ Len(ledger') <= MaxTx
           /\ \A t \in DOMAIN ledger' : BaseOf(t)' \in DOMAIN ledger'
<1>1. Closed(DOMAIN ledger)' /\ UniqueFromAnywhere'
  BY UnchangedLedger DEF LedgerIInv, VaultsAreClosed, UniqueFromAnywhere
<1>2. Unconsumed(DOMAIN ledger)' = Unconsumed(DOMAIN ledger) /\
      Existing(DOMAIN ledger)' = Existing(DOMAIN ledger)
  BY UnchangedLedger DEF Unconsumed, Existing
<1>3. HostCounts' /\ GenesisIsAlone'
  BY <1>2 DEF LedgerIInv, HostCounts, GenesisIsAlone, Counts
<1>4. IssuedOnce'
  BY UnchangedLedger DEF LedgerIInv, IssuedOnce
<1> QED BY <1>1, <1>3, <1>4, UnchangedLedger DEF LedgerIInv, WellTyped

\* What a vault finds exists.
LEMMA FoundExists ==
    ASSUME LedgerAssumptions, WellTyped, NEW n \in Node, NEW s \in Unconsumed(vault[n])
    PROVE  s \in Existing(DOMAIN ledger) /\ s \in State
<1>1. vault[n] \subseteq DOMAIN ledger
  BY DEF WellTyped
<1>2. s \in Existing(DOMAIN ledger)
  BY <1>1 DEF Unconsumed, Existing
<1> QED BY <1>2, ExistingAreStates

\* Flows that start, query or fail preserve the invariant.
LEMMA FlowStep ==
    ASSUME LedgerAssumptions, LedgerIInv, UNCHANGED <<ledger, vault>>,
           \A f \in flows' \ flows :
              f \in Flow /\ \A s \in f.held : s \in Existing(DOMAIN ledger) /\ s.base = f.base
    PROVE  LedgerIInv'
<1>1. Existing(DOMAIN ledger)' = Existing(DOMAIN ledger)
  BY UnchangedLedger DEF Existing
<1>2. WellTyped'
  BY LedgerUntouched DEF LedgerIInv, WellTyped
<1>3. FlowsHoldStates'
  BY <1>1 DEF LedgerIInv, FlowsHoldStates
<1>4. VaultsAreClosed'
  BY LedgerUntouched, UnchangedLedger DEF LedgerIInv, VaultsAreClosed
<1> QED BY <1>2, <1>3, <1>4, LedgerUntouched DEF LedgerIInv

\* A participant that records a transaction, with all it rests on, preserves it.
LEMMA RecordStep ==
    ASSUME LedgerIInv, NEW n \in Node, NEW t \in DOMAIN ledger, Record(n, t)
    PROVE  LedgerIInv'
<1>1. /\ UNCHANGED <<ledger, flows>>
      /\ vault' = [vault EXCEPT ![n] = @ \cup {t}]
      /\ {s.tx : s \in ledger[t].held} \subseteq vault[n]
  BY DEF Record, Resolved
<1>2. WellTyped'
  BY <1>1, LedgerUntouched DEF LedgerIInv, WellTyped
<1>3. FlowsHoldStates'
  BY <1>1, UnchangedLedger DEF LedgerIInv, FlowsHoldStates, Existing
<1>4. ASSUME NEW m \in Node
      PROVE  Closed(vault[m])'
  <2>1. Closed(vault[m]) /\ vault \in [Node -> SUBSET (DOMAIN ledger)]
    BY DEF LedgerIInv, VaultsAreClosed, WellTyped
  <2>2. CASE m # n
    <3>1. vault'[m] = vault[m]
      BY <1>1, <2>1, <2>2
    <3> QED BY <1>1, <2>1, <3>1 DEF Closed
  <2>3. CASE m = n
    <3>1. vault'[m] = vault[n] \cup {t}
      BY <1>1, <2>1, <2>3
    <3> QED BY <1>1, <2>1, <2>3, <3>1 DEF Closed
  <2> QED BY <2>2, <2>3
<1>5. VaultsAreClosed'
  BY <1>1, <1>4, LedgerUntouched DEF VaultsAreClosed
<1> QED BY <1>1, <1>2, <1>3, <1>5, LedgerUntouched DEF LedgerIInv

\* Every step preserves the invariant.
LEMMA LedgerStep ==
    ASSUME LedgerAssumptions, LedgerIInv, [LedgerNext]_ledgerVars
    PROVE  LedgerIInv'
<1>1. CASE CreateGenesis
  BY <1>1, GenesisStep
<1>2. ASSUME NEW n \in Node, NEW s \in Unconsumed(vault[n]), NEW c \in Commands,
             Start(n, s, c)
      PROVE  LedgerIInv'
  <2>1. s \in Existing(DOMAIN ledger) /\ s \in State
    BY FoundExists DEF LedgerIInv
  <2>2. [node |-> n, base |-> s.base, cmd |-> c, held |-> {s}] \in Flow
    BY <2>1 DEF Flow, State
  <2>3. \A f \in flows' \ flows :
           /\ f = [node |-> n, base |-> s.base, cmd |-> c, held |-> {s}]
           /\ f.base = s.base /\ f.held = {s}
    BY <1>2 DEF Start
  <2>4. \A f \in flows' \ flows :
           f \in Flow /\ \A r \in f.held : r \in Existing(DOMAIN ledger) /\ r.base = f.base
    BY <2>1, <2>2, <2>3
  <2>5. UNCHANGED <<ledger, vault>>
    BY <1>2 DEF Start
  <2> QED BY <2>4, <2>5, FlowStep
<1>3. ASSUME NEW f \in flows, NEW s \in Unconsumed(vault[f.node]), Query(f, s)
      PROVE  LedgerIInv'
  <2>1. f \in Flow /\ f.node \in Node
    BY DEF LedgerIInv, WellTyped, Flow
  <2>2. s \in Existing(DOMAIN ledger) /\ s \in State
    BY <2>1, FoundExists DEF LedgerIInv
  <2>3. [f EXCEPT !.held = @ \cup {s}] \in Flow
    BY <2>1, <2>2 DEF Flow
  <2>4. \A r \in f.held \cup {s} : r \in Existing(DOMAIN ledger) /\ r.base = f.base
    BY <1>3, <2>2 DEF LedgerIInv, FlowsHoldStates, Query
  <2>5. /\ [f EXCEPT !.held = @ \cup {s}].held = f.held \cup {s}
        /\ [f EXCEPT !.held = @ \cup {s}].base = f.base
    BY <2>1 DEF Flow
  <2> QED BY <1>3, <2>3, <2>4, <2>5, FlowStep DEF Query
<1>4. ASSUME NEW f \in flows, Notarise(f)
      PROVE  LedgerIInv'
  BY <1>4, NotariseStep
<1>5. ASSUME NEW f \in flows, Fail(f)
      PROVE  LedgerIInv'
  BY <1>5, FlowStep DEF Fail
<1>6. ASSUME NEW n \in Node, NEW t \in DOMAIN ledger, Record(n, t)
      PROVE  LedgerIInv'
  BY <1>6, RecordStep
<1>7. CASE UNCHANGED ledgerVars
  BY <1>7, FlowStep DEF ledgerVars
<1> QED BY <1>1, <1>2, <1>3, <1>4, <1>5, <1>6, <1>7 DEF LedgerNext

\* The empty ledger satisfies the invariant.
LEMMA LedgerStart ==
    ASSUME LedgerAssumptions, LedgerInit
    PROVE  LedgerIInv
<1>1. /\ ledger \in Seq(Tx) /\ Len(ledger) = 0 /\ DOMAIN ledger = {}
      /\ vault = [n \in Node |-> {}] /\ flows = {}
  BY EmptySeq, LenProperties DEF LedgerInit
<1>2. WellTyped
  BY <1>1 DEF WellTyped, LedgerAssumptions, LedgerBoundsAreNat
<1>3. VaultsAreClosed /\ FlowsHoldStates /\ IssuedOnce
  BY <1>1 DEF VaultsAreClosed, Closed, FlowsHoldStates, IssuedOnce
<1>4. UniqueFromAnywhere /\ HostCounts /\ GenesisIsAlone
  BY <1>1 DEF UniqueFromAnywhere, UniqueIn, HostCounts, GenesisIsAlone, Unconsumed
<1> QED BY <1>2, <1>3, <1>4 DEF LedgerIInv

\* The inductive invariant of the ledger holds in every reachable state.
LEMMA LedgerInvariant ==
    ASSUME LedgerAssumptions
    PROVE  LedgerSpec => []LedgerIInv
<1>1. LedgerInit => LedgerIInv
  BY LedgerStart
<1>2. LedgerIInv /\ [LedgerNext]_ledgerVars => LedgerIInv'
  BY LedgerStep
<1> QED BY <1>1, <1>2, PTL DEF LedgerSpec

\* The ledger, the vaults and the flows keep their types.
THEOREM LedgerTypeCorrect ==
    ASSUME LedgerAssumptions
    PROVE  LedgerSpec => []LedgerTypeOK
<1>1. LedgerIInv => LedgerTypeOK
  <2> SUFFICES ASSUME LedgerIInv
               PROVE  LedgerTypeOK
    OBVIOUS
  <2>1. \A t \in DOMAIN ledger : ledger[t] \in Tx
    BY LenProperties DEF LedgerIInv, WellTyped
  <2>2. ASSUME NEW t \in DOMAIN ledger
        PROVE  /\ ledger[t].base \in Bases \cup {0}
               /\ ledger[t].cmd \in Commands \cup {GenesisCreate}
               /\ ledger[t].held \subseteq State
               /\ DOMAIN ledger[t].outs \subseteq Id
               /\ \A i \in DOMAIN ledger[t].outs : ledger[t].outs[i] \in Value
    <3>1. PICK I \in SUBSET Id : ledger[t].outs \in [I -> Value]
      BY <2>1 DEF Tx
    <3> QED BY <2>1, <3>1 DEF Tx
  <2> QED BY <2>2 DEF LedgerTypeOK, LedgerIInv, WellTyped
<1> QED BY <1>1, LedgerInvariant, PTL

\* Whatever vaults have recorded so far and flows have read from them, on the
\* ledger and in every vault an identifier names one unconsumed state.
THEOREM IdentifiersAreUnique ==
    ASSUME LedgerAssumptions
    PROVE  LedgerSpec => []IdsAreUnique
<1>1. LedgerIInv => IdsAreUnique
  <2> SUFFICES ASSUME LedgerIInv
               PROVE  IdsAreUnique
    OBVIOUS
  <2>1. UniqueIn(DOMAIN ledger)
    BY DEF LedgerIInv, VaultsAreClosed, UniqueFromAnywhere
  <2>2. \A n \in Node : UniqueIn(vault[n])
    BY DEF LedgerIInv, WellTyped, VaultsAreClosed, UniqueFromAnywhere
  <2> QED BY <2>1, <2>2 DEF IdsAreUnique
<1> QED BY <1>1, LedgerInvariant, PTL

\* No race of flows makes a Genesis have two Hosts, a Host two banks, or two
\* clients, connections or channels of one identifier.
THEOREM IdentifiersAreIssuedOnce ==
    ASSUME LedgerAssumptions
    PROVE  LedgerSpec => []IssuedOnce
<1>1. LedgerIInv => IssuedOnce
  BY DEF LedgerIInv
<1> QED BY <1>1, LedgerInvariant, PTL

(***************************************************************************)
(* The ledger implements HostStates.                                       *)
(***************************************************************************)
\* The commands of HostStates are those of CordaLedger.
LEMMA SameCommands ==
    /\ Hosts!Id = Id /\ Hosts!Commands = Commands /\ Hosts!GenesisId = GenesisId
    /\ Hosts!GenesisCreate = GenesisCreate
    /\ \A i : Hosts!Fresh(i) = Fresh(i)
    /\ \A c : Hosts!Involved(c) = Involved(c)
    /\ \A c, v : /\ Hosts!Linked(c, v) <=> Linked(c, v)
                 /\ Hosts!CanIssue(c, v) <=> CanIssue(c, v)
                 /\ Hosts!Issued(c, v) = Issued(c, v)
                 /\ Hosts!Outputs(c, v) = Outputs(c, v)
<1>1. /\ Hosts!Id = Id /\ Hosts!GenesisId = GenesisId
      /\ Hosts!HostId = HostId /\ Hosts!BankId = BankId
      /\ Hosts!ClientId = ClientId /\ Hosts!ConnId = ConnId /\ Hosts!ChanId = ChanId
      /\ \A q, t, i, u : Hosts!Command(q, t, i, u) = Command(q, t, i, u)
      /\ \A i : Hosts!Fresh(i) = Fresh(i)
      /\ \A c : Hosts!Involved(c) = Involved(c) /\ Hosts!Kept(c) = Kept(c)
  BY DEF Id, GenesisId, HostId, BankId, ClientId, ConnId, ChanId, Command, Fresh,
         Zero, Kinds, Involved, Kept, Hosts!Id, Hosts!GenesisId,
         Hosts!HostId, Hosts!BankId, Hosts!ClientId, Hosts!ConnId,
         Hosts!ChanId, Hosts!Command, Hosts!Fresh, Hosts!Zero,
         Hosts!Kinds, Hosts!Involved, Hosts!Kept
<1>2. Hosts!GenesisCreate = GenesisCreate /\ Hosts!Commands = Commands
  BY DEF GenesisCreate, Hosts!GenesisCreate, Commands, HostCreate, BankCreate, FundAllocate, ClientCreate, ConnOpen,
         ConnReuse, ConnStep, ChanOpenInit, ChanOpenTry, ChanReuse,
         ChanStep, ChanCloseInit, SendTransfer, RelayTransfer,
         GenesisId, HostId, BankId, ClientId, ConnId, ChanId, Command,
         Hosts!Commands, Hosts!HostCreate, Hosts!BankCreate,
         Hosts!FundAllocate, Hosts!ClientCreate, Hosts!ConnOpen,
         Hosts!ConnReuse, Hosts!ConnStep, Hosts!ChanOpenInit,
         Hosts!ChanOpenTry, Hosts!ChanReuse, Hosts!ChanStep,
         Hosts!ChanCloseInit, Hosts!SendTransfer, Hosts!RelayTransfer,
         Hosts!GenesisId, Hosts!HostId, Hosts!BankId, Hosts!ClientId,
         Hosts!ConnId, Hosts!ChanId, Hosts!Command
<1>3. \A c, v : /\ Hosts!Linked(c, v) <=> Linked(c, v)
                /\ Hosts!CanIssue(c, v) <=> CanIssue(c, v)
                /\ Hosts!Issued(c, v) = Issued(c, v)
  BY <1>1 DEF Linked, CanIssue, Issued, Hosts!Linked, Hosts!CanIssue, Hosts!Issued
<1>4. \A c, i, x : Hosts!Changed(c, i, x) = Changed(c, i, x)
  BY <1>1 DEF Changed, Hosts!Changed
<1>5. \A c, v : Hosts!Outputs(c, v) = Outputs(c, v)
  BY <1>1, <1>3, <1>4 DEF Outputs, Hosts!Outputs
<1> QED BY <1>1, <1>2, <1>3, <1>5

\* The value of the one state of a name, among states of different names.
LEMMA ValueInFacts ==
    ASSUME NEW S, NEW b, NEW i,
           \A r, s \in S : r.base = s.base /\ r.id = s.id => r = s
    PROVE  \A s \in S : s.base = b /\ s.id = i => ValueIn(S, b, i) = s.val
<1> SUFFICES ASSUME NEW s \in S, s.base = b, s.id = i
             PROVE  ValueIn(S, b, i) = s.val
  OBVIOUS
<1>1. {r \in S : r.base = b /\ r.id = i} = {s}
  OBVIOUS
<1> QED BY <1>1 DEF ValueIn

\* An identifier that no state of S has is absent.
LEMMA NoValueIn ==
    ASSUME NEW S, NEW b, NEW i, \A s \in S : ~(s.base = b /\ s.id = i)
    PROVE  ValueIn(S, b, i) = [absent |-> TRUE]
<1>1. {r \in S : r.base = b /\ r.id = i} = {}
  OBVIOUS
<1> QED BY <1>1 DEF ValueIn

\* A value depends on the states of its identifier only.
LEMMA ValueInSame ==
    ASSUME NEW S, NEW R, NEW b, NEW i,
           {s \in S : s.base = b /\ s.id = i} = {s \in R : s.base = b /\ s.id = i}
    PROVE  ValueIn(S, b, i) = ValueIn(R, b, i)
<1> DEFINE Pick(found) == IF found = {} THEN [absent |-> TRUE]
                          ELSE (CHOOSE s \in found : TRUE).val
           A == {s \in S : s.base = b /\ s.id = i}
           B == {s \in R : s.base = b /\ s.id = i}
<1>1. ValueIn(S, b, i) = Pick(A) /\ ValueIn(R, b, i) = Pick(B)
  BY DEF ValueIn
<1>2. A = B
  OBVIOUS
<1> HIDE DEF A, B, Pick
<1> QED BY <1>1, <1>2

\* What HostStates calls log, of this ledger.
LogOf == [t \in DOMAIN ledger |-> [base |-> BaseOf(t), cmd |-> ledger[t].cmd,
                                   value |-> ValueOf(ledger[t].held)]]

\* Notarising a transaction logs its command.
LEMMA LogAppended ==
    ASSUME ledger \in Seq(Tx), NEW tx \in Tx, NEW u, Appended(u, tx)
    PROVE  LogOf' = Append(LogOf, [base |-> BaseOf(u)', cmd |-> tx.cmd,
                                   value |-> ValueOf(tx.held)])
<1> DEFINE Entry(t) == [base |-> BaseOf(t), cmd |-> ledger[t].cmd,
                        value |-> ValueOf(ledger[t].held)]
           e == [base |-> BaseOf(u)', cmd |-> tx.cmd, value |-> ValueOf(tx.held)]
           S == {Entry(t) : t \in DOMAIN ledger} \cup {e}
<1>1. /\ Len(ledger) \in Nat /\ u = Len(ledger) + 1
      /\ DOMAIN ledger = 1..Len(ledger)
      /\ DOMAIN ledger' = DOMAIN ledger \cup {u}
      /\ u \notin DOMAIN ledger
      /\ ledger'[u] = tx
      /\ \A t \in DOMAIN ledger : ledger'[t] = ledger[t] /\ BaseOf(t)' = BaseOf(t)
  BY AppendFacts, LenProperties DEF Appended
<1>2. LogOf \in [1..Len(ledger) -> S]
  BY <1>1 DEF LogOf
<1>3. LogOf \in Seq(S) /\ Len(LogOf) = Len(ledger)
  <2> HIDE DEF S
  <2> QED BY <1>1, <1>2
<1>4. /\ Append(LogOf, e) \in Seq(S) /\ Len(Append(LogOf, e)) = u
      /\ \A t \in 1..Len(ledger) : Append(LogOf, e)[t] = LogOf[t]
      /\ Append(LogOf, e)[u] = e
  <2>1. e \in S
    OBVIOUS
  <2> HIDE DEF S, e
  <2> QED BY <1>1, <1>3, <2>1, AppendProperties
<1>5. LogOf' \in [1..u -> S] /\ LogOf'[u] = e /\ \A t \in DOMAIN ledger : LogOf'[t] = LogOf[t]
  <2>1. DOMAIN LogOf' = DOMAIN ledger'
    BY DEF LogOf
  <2>2. \A t \in DOMAIN ledger : LogOf'[t] = Entry(t) /\ LogOf[t] = Entry(t)
    BY <1>1 DEF LogOf
  <2>3. LogOf'[u] = e
    BY <1>1 DEF LogOf
  <2>4. LogOf' = [t \in DOMAIN ledger' |-> LogOf'[t]]
    BY DEF LogOf
  <2>5. DOMAIN ledger' = 1..u
    BY <1>1
  <2> HIDE DEF Entry, e
  <2>6. \A t \in 1..u : LogOf'[t] \in S
    BY <1>1, <2>2, <2>3, <2>5
  <2> HIDE DEF S
  <2> QED BY <2>2, <2>3, <2>4, <2>5, <2>6
<1>6. LogOf' \in Seq(S) /\ Len(LogOf') = u
  <2> HIDE DEF S, e
  <2> QED BY <1>1, <1>5
<1> HIDE DEF S, e
<1>7. LogOf' = Append(LogOf, e)
  BY <1>1, <1>4, <1>5, <1>6, SeqEqual
<1> QED BY <1>7 DEF e

\* What holds of the states before and after a transaction.
LEMMA StatesAreDistinct ==
    ASSUME LedgerIInv
    PROVE  \A r, s \in Unconsumed(DOMAIN ledger) : r.base = s.base /\ r.id = s.id => r = s
BY DEF LedgerIInv, VaultsAreClosed, UniqueFromAnywhere, UniqueIn

\* Notarising replaces what is consumed by what is produced.
LEMMA CurrentAppended ==
    ASSUME LedgerIInv, NEW tx \in Tx, NEW u, Appended(u, tx),
           tx.held \subseteq Existing(DOMAIN ledger)
    PROVE  Unconsumed(DOMAIN ledger)' =
              (Unconsumed(DOMAIN ledger) \ Consumed(u)') \cup Produced(u)'
<1>1. \A T : T = DOMAIN ledger \cup {u} =>
         Unconsumed(T)' = (Unconsumed(DOMAIN ledger) \ Consumed(u)') \cup Produced(u)'
  BY UnconsumedAppended DEF LedgerIInv, WellTyped, VaultsAreClosed
<1>2. DOMAIN ledger' = DOMAIN ledger \cup {u}
  BY AppendFacts DEF LedgerIInv, WellTyped
<1> QED BY <1>1, <1>2 DEF Unconsumed

\* createGenesis is a step of HostStates.
LEMMA GenesisIsCreated ==
    ASSUME LedgerAssumptions, LedgerIInv, CreateGenesis
    PROVE  Hosts!HostsNext
<1>1. PICK u : u = Len(ledger) + 1
  OBVIOUS
<1>2. Appended(u, GenesisTx) /\ Len(ledger) < MaxTx
  BY <1>1 DEF CreateGenesis, Sign, GenesisTx, Appended
<1>3. /\ GenesisTx \in Tx /\ GenesisTx.held = {} /\ GenesisTx.cmd = GenesisCreate
      /\ BaseOf(u)' = u
      /\ Consumed(u)' = {}
      /\ Produced(u)' = {[tx |-> u, base |-> u, id |-> GenesisId, val |-> Fresh(GenesisId)]}
      /\ \A i : Unused(u, i)
  BY <1>2, GenesisFacts DEF LedgerIInv, GenesisTx
<1>4. u \in Bases
  BY <1>1, <1>2, LenProperties
     DEF LedgerIInv, WellTyped, Bases, LedgerAssumptions, LedgerBoundsAreNat
<1> DEFINE cur == Unconsumed(DOMAIN ledger)
           new == [tx |-> u, base |-> u, id |-> GenesisId, val |-> Fresh(GenesisId)]
<1>5. cur' = cur \cup {new}
  BY <1>2, <1>3, CurrentAppended
<1>6. \A s \in cur : s.base # u
  BY <1>3 DEF Unused, Unconsumed, Existing
<1>7. /\ \A r, s \in cur : r.base = s.base /\ r.id = s.id => r = s
      /\ CurrentState = [b \in Bases |-> [i \in Id |-> ValueIn(cur, b, i)]]
      /\ CurrentState' = [b \in Bases |-> [i \in Id |-> ValueIn(cur', b, i)]]
  BY StatesAreDistinct DEF CurrentState
<1> HIDE DEF cur
<1>8. \A i \in Id : CurrentState[u][i] = [absent |-> TRUE]
  BY <1>4, <1>6, <1>7, NoValueIn
<1>9. /\ new.base = u /\ new.id = GenesisId /\ new.val = Fresh(GenesisId)
  OBVIOUS
<1> HIDE DEF new
<1>10. \A r, s \in cur' : r.base = s.base /\ r.id = s.id => r = s
  BY <1>5, <1>6, <1>7, <1>9
<1>11. ASSUME NEW b \in Bases, NEW i \in Id
       PROVE  CurrentState'[b][i] = IF b = u /\ i = GenesisId THEN Fresh(GenesisId)
                                    ELSE CurrentState[b][i]
  <2>1. CASE b = u /\ i = GenesisId
    <3>1. ValueIn(cur', b, i) = new.val
      BY <1>5, <1>9, <1>10, <2>1, ValueInFacts
    <3> QED BY <1>7, <1>9, <2>1, <3>1
  <2>2. CASE ~(b = u /\ i = GenesisId)
    <3>1. {s \in cur' : s.base = b /\ s.id = i} = {s \in cur : s.base = b /\ s.id = i}
      BY <1>5, <1>9, <2>2
    <3>2. ValueIn(cur', b, i) = ValueIn(cur, b, i)
      BY <3>1, ValueInSame
    <3> QED BY <1>7, <2>2, <3>2
  <2> QED BY <2>1, <2>2
<1>12. CurrentState' = [CurrentState EXCEPT ![u][GenesisId] = Fresh(GenesisId)]
  <2>1. CurrentState' = [b \in Bases |-> [i \in Id |-> CurrentState'[b][i]]]
    BY <1>7
  <2>2. [CurrentState EXCEPT ![u][GenesisId] = Fresh(GenesisId)] =
           [b \in Bases |-> [i \in Id |-> IF b = u /\ i = GenesisId THEN Fresh(GenesisId)
                                          ELSE CurrentState[b][i]]]
    BY <1>4, <1>7, IdFacts
  <2> QED BY <1>11, <2>1, <2>2
<1>13. LogOf' = Append(LogOf, [base |-> u, cmd |-> GenesisCreate, value |-> <<>>])
  <2>1. ValueOf({}) = <<>>
    BY DEF ValueOf, Identifiers
  <2> QED BY <1>2, <1>3, <2>1, LogAppended DEF LedgerIInv, WellTyped
<1>14. Hosts!CreateGenesis(u)
  BY <1>8, <1>12, <1>13, SameCommands
     DEF Hosts!CreateGenesis, Hosts!Absent, Hosts!Log, LogOf
<1> QED BY <1>4, <1>14 DEF Hosts!HostsNext

\* A transaction that the notary signs is a command of HostStates on current values.
LEMMA FlowExecutes ==
    ASSUME LedgerAssumptions, LedgerIInv, NEW f \in flows, Notarise(f)
    PROVE  Hosts!HostsNext
<1>1. PICK u : u = Len(ledger) + 1
  OBVIOUS
<1> DEFINE v == ValueOf(f.held)
           out == Outputs(f.cmd, v)
           cur == Unconsumed(DOMAIN ledger)
<1>2. /\ f.cmd \in Commands /\ WellBehaved(f.cmd)
      /\ f.held \subseteq cur /\ f.held \subseteq Existing(DOMAIN ledger)
      /\ f.held \subseteq State
      /\ \A s \in f.held : s.base = f.base /\ s.id \in Involved(f.cmd)
      /\ \A i \in Involved(f.cmd) : \E s \in f.held : s.id = i
      /\ v \in [Involved(f.cmd) -> Value]
      /\ \A s \in f.held : v[s.id] = s.val
  BY HeldFacts
<1>3. /\ FlowTx(f) \in Tx
      /\ Appended(u, FlowTx(f))
      /\ BaseOf(u)' = f.base
      /\ Consumed(u)' = {s \in f.held : s.id \in f.cmd.takes}
      /\ Produced(u)' = {[tx |-> u, base |-> f.base, id |-> i, val |-> out[i]] :
                            i \in Kept(f.cmd) \cup Issued(f.cmd, v)}
      /\ \A i \in Issued(f.cmd, v) : Unused(f.base, i)
  BY <1>1, FlowTxFacts
<1>4. CanIssue(f.cmd, v) /\ Linked(f.cmd, v)
  BY DEF Notarise
<1>5. f.base \in Bases
  BY DEF LedgerIInv, WellTyped, Flow
<1>6. cur' = (cur \ Consumed(u)') \cup Produced(u)'
  BY <1>2, <1>3, CurrentAppended DEF FlowTx
<1>7. /\ \A r, s \in cur : r.base = s.base /\ r.id = s.id => r = s
      /\ \A r, s \in cur' : r.base = s.base /\ r.id = s.id => r = s
  <2>1. LedgerIInv'
    BY NotariseStep
  <2>2. \A r, s \in cur' : r.base = s.base /\ r.id = s.id => r = s
    BY <2>1 DEF LedgerIInv, VaultsAreClosed, UniqueFromAnywhere, UniqueIn
  <2> QED BY <2>2, StatesAreDistinct
<1>8. /\ CurrentState = [b \in Bases |-> [i \in Id |-> ValueIn(cur, b, i)]]
      /\ CurrentState' = [b \in Bases |-> [i \in Id |-> ValueIn(cur', b, i)]]
  BY DEF CurrentState
<1>9. DOMAIN out = Kept(f.cmd) \cup Issued(f.cmd, v)
  BY <1>2, OutputFacts
<1>10. \A s \in cur : s \in Existing(DOMAIN ledger)
  BY DEF Unconsumed, Existing
<1>11. LogOf' = Append(LogOf, [base |-> f.base, cmd |-> f.cmd, value |-> v])
  BY <1>3, LogAppended DEF FlowTx, LedgerIInv, WellTyped
<1> HIDE DEF v, out, cur
<1>12. \A i \in Involved(f.cmd) : CurrentState[f.base][i] = v[i]
  <2> SUFFICES ASSUME NEW i \in Involved(f.cmd)
               PROVE  CurrentState[f.base][i] = v[i]
    OBVIOUS
  <2>1. PICK s \in f.held : s.id = i
    BY <1>2
  <2>2. ValueIn(cur, f.base, i) = s.val
    BY <1>2, <1>7, <2>1, ValueInFacts
  <2>3. i \in Id
    BY <1>2 DEF WellBehaved
  <2> QED BY <1>2, <1>5, <1>8, <2>1, <2>2, <2>3
<1>13. v = [i \in Involved(f.cmd) |-> CurrentState[f.base][i]]
  BY <1>2, <1>12
<1>14. \A i \in Involved(f.cmd) : CurrentState[f.base][i] # [absent |-> TRUE]
  <2>1. \A x \in Value : x # [absent |-> TRUE]
    BY DEF Value
  <2> QED BY <1>2, <1>12, <2>1
<1>15. \A i \in Issued(f.cmd, v) : CurrentState[f.base][i] = [absent |-> TRUE]
  <2> SUFFICES ASSUME NEW i \in Issued(f.cmd, v)
               PROVE  CurrentState[f.base][i] = [absent |-> TRUE]
    OBVIOUS
  <2>1. \A s \in cur : ~(s.base = f.base /\ s.id = i)
    BY <1>3, <1>10 DEF Unused
  <2>2. ValueIn(cur, f.base, i) = [absent |-> TRUE]
    BY <2>1, NoValueIn
  <2>3. i \in Id
    BY <1>2, <1>4, IssuedFacts DEF LedgerAssumptions
  <2> QED BY <1>5, <1>8, <2>2, <2>3
<1>16. ASSUME NEW i \in Id
       PROVE  CurrentState'[f.base][i] =
                 IF i \in DOMAIN out THEN out[i]
                 ELSE IF i \in f.cmd.takes THEN [absent |-> TRUE]
                 ELSE CurrentState[f.base][i]
  <2>1. CurrentState'[f.base][i] = ValueIn(cur', f.base, i)
    BY <1>5, <1>8
  <2>2. CASE i \in DOMAIN out
    <3> DEFINE s == [tx |-> u, base |-> f.base, id |-> i, val |-> out[i]]
    <3>1. s \in cur'
      BY <1>3, <1>6, <1>9, <2>2
    <3>2. s.base = f.base /\ s.id = i /\ s.val = out[i]
      OBVIOUS
    <3> HIDE DEF s
    <3>3. ValueIn(cur', f.base, i) = s.val
      BY <1>7, <3>1, <3>2, ValueInFacts
    <3> QED BY <2>1, <2>2, <3>2, <3>3
  <2>3. CASE i \notin DOMAIN out /\ i \in f.cmd.takes
    <3>1. PICK p \in f.held : p.id = i
      BY <1>2, <2>3 DEF WellBehaved
    <3>2. \A s \in cur \ Consumed(u)' : ~(s.base = f.base /\ s.id = i)
      BY <1>2, <1>3, <1>7, <2>3, <3>1
    <3>3. \A s \in Produced(u)' : s.id # i
      BY <1>3, <1>9, <2>3
    <3>4. \A s \in cur' : ~(s.base = f.base /\ s.id = i)
      BY <1>6, <3>2, <3>3
    <3>5. ValueIn(cur', f.base, i) = [absent |-> TRUE]
      BY <3>4, NoValueIn
    <3> QED BY <2>1, <2>3, <3>5
  <2>4. CASE i \notin DOMAIN out /\ i \notin f.cmd.takes
    <3>1. \A s \in Produced(u)' : s.id # i
      BY <1>3, <1>9, <2>4
    <3>2. \A s \in Consumed(u)' : s.id # i
      BY <1>3, <2>4
    <3>3. {s \in cur' : s.base = f.base /\ s.id = i} = {s \in cur : s.base = f.base /\ s.id = i}
      BY <1>6, <3>1, <3>2
    <3>4. ValueIn(cur', f.base, i) = ValueIn(cur, f.base, i)
      BY <3>3, ValueInSame
    <3> QED BY <1>5, <1>8, <2>1, <2>4, <3>4
  <2> QED BY <2>2, <2>3, <2>4
<1>17. ASSUME NEW b \in Bases \ {f.base}, NEW i \in Id
       PROVE  CurrentState'[b][i] = CurrentState[b][i]
  <2>1. \A s \in Produced(u)' \cup Consumed(u)' : s.base = f.base
    BY <1>2, <1>3
  <2>2. {s \in cur' : s.base = b /\ s.id = i} = {s \in cur : s.base = b /\ s.id = i}
    BY <1>6, <2>1
  <2>3. ValueIn(cur', b, i) = ValueIn(cur, b, i)
    BY <2>2, ValueInSame
  <2> QED BY <1>8, <2>3
<1>18. CurrentState' = [CurrentState EXCEPT ![f.base] =
                          [i \in Id |-> IF i \in DOMAIN out THEN out[i]
                                        ELSE IF i \in f.cmd.takes THEN [absent |-> TRUE]
                                        ELSE CurrentState[f.base][i]]]
  <2> DEFINE row == [i \in Id |-> IF i \in DOMAIN out THEN out[i]
                                  ELSE IF i \in f.cmd.takes THEN [absent |-> TRUE]
                                  ELSE CurrentState[f.base][i]]
  <2>1. CurrentState' = [b \in Bases |-> CurrentState'[b]] /\
        CurrentState = [b \in Bases |-> CurrentState[b]]
    BY <1>8
  <2>2. CurrentState'[f.base] = row
    <3>1. CurrentState'[f.base] = [i \in Id |-> CurrentState'[f.base][i]]
      BY <1>5, <1>8
    <3> QED BY <1>16, <3>1
  <2>3. ASSUME NEW b \in Bases \ {f.base}
        PROVE  CurrentState'[b] = CurrentState[b]
    <3>1. CurrentState'[b] = [i \in Id |-> CurrentState'[b][i]] /\
          CurrentState[b] = [i \in Id |-> CurrentState[b][i]]
      BY <1>8
    <3> QED BY <1>17, <3>1
  <2> HIDE DEF row
  <2>4. [CurrentState EXCEPT ![f.base] = row] =
           [b \in Bases |-> IF b = f.base THEN row ELSE CurrentState[b]]
    BY <2>1
  <2>5. CurrentState' = [CurrentState EXCEPT ![f.base] = row]
    BY <2>1, <2>2, <2>3, <2>4
  <2> QED BY <2>5 DEF row
<1>19. Hosts!Execute(f.base, f.cmd)
  BY <1>4, <1>11, <1>13, <1>14, <1>15, <1>18, SameCommands
     DEF Hosts!Execute, Hosts!Absent, Hosts!Log, LogOf, out
<1> QED BY <1>2, <1>5, <1>19, SameCommands DEF Hosts!HostsNext

\* The nodes execute the commands of a Host one at a time, each on the current
\* values of all the states it involves: what the handlers take for granted.
THEOREM LedgerExecutesSerially ==
    ASSUME LedgerAssumptions
    PROVE  LedgerSpec => ExecutedSerially
<1>1. LedgerIInv /\ [LedgerNext]_ledgerVars => (ledger' # ledger => Hosts!HostsNext)
  <2> SUFFICES ASSUME LedgerIInv, LedgerNext, ledger' # ledger
               PROVE  Hosts!HostsNext
    BY DEF ledgerVars
  <2>1. CreateGenesis \/ \E f \in flows : Notarise(f)
    BY DEF LedgerNext, Start, Query, Fail, Record
  <2> QED BY <2>1, GenesisIsCreated, FlowExecutes
<1> QED BY <1>1, LedgerInvariant, PTL DEF LedgerSpec, ExecutedSerially

\* As a refinement: the ledger of transactions implements the map of states.
THEOREM LedgerImplementsHosts ==
    ASSUME LedgerAssumptions
    PROVE  LedgerSpec => Hosts!HostsSpec
<1>1. LedgerInit => Hosts!HostsInit
  <2> SUFFICES ASSUME LedgerInit
               PROVE  Hosts!HostsInit
    OBVIOUS
  <2>1. DOMAIN ledger = {}
    BY EmptySeq, LenProperties DEF LedgerInit
  <2>2. \A b \in Bases, i \in Id : CurrentState[b][i] = [absent |-> TRUE]
    <3>1. Unconsumed(DOMAIN ledger) = {}
      BY <2>1 DEF Unconsumed
    <3> QED BY <3>1, NoValueIn DEF CurrentState
  <2>3. CurrentState = [b \in Bases |-> [i \in Id |-> [absent |-> TRUE]]]
    BY <2>2 DEF CurrentState
  <2>4. LogOf = <<>>
    BY <2>1 DEF LogOf
  <2> QED BY <2>3, <2>4, SameCommands DEF Hosts!HostsInit, Hosts!Absent, LogOf
<1>2. LedgerIInv /\ [LedgerNext]_ledgerVars => [Hosts!HostsNext]_(Hosts!hostVars)
  <2> SUFFICES ASSUME LedgerIInv, [LedgerNext]_ledgerVars
               PROVE  Hosts!HostsNext \/ UNCHANGED Hosts!hostVars
    OBVIOUS
  <2>1. CASE UNCHANGED ledger
    <3>1. CurrentState' = CurrentState
      BY <2>1, UnchangedLedger DEF CurrentState, Unconsumed
    <3>2. LogOf' = LogOf
      BY <2>1, UnchangedLedger DEF LogOf
    <3> QED BY <3>1, <3>2 DEF Hosts!hostVars, LogOf
  <2>2. CASE ledger' # ledger
    <3>1. CreateGenesis \/ \E f \in flows : Notarise(f)
      BY <2>2 DEF LedgerNext, ledgerVars, Start, Query, Fail, Record
    <3> QED BY <3>1, GenesisIsCreated, FlowExecutes
  <2> QED BY <2>1, <2>2
<1> QED BY <1>1, <1>2, LedgerInvariant, PTL DEF LedgerSpec, Hosts!HostsSpec
===========================================================================
