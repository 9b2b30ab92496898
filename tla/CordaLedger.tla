---------------------------- MODULE CordaLedger ----------------------------
(***************************************************************************)
(* How a command of IbcCommands is executed.  A flow on some node queries  *)
(* its vault for one state after another, computes the outputs from what   *)
(* it found, and hands the transaction to the notary.  Meanwhile flows of  *)
(* this and of other nodes do the same, and a vault learns of a notarised  *)
(* transaction only some time later.                                       *)
(*                                                                         *)
(* ledger is what the notary has signed, in its order; a transaction's     *)
(* place in it stands for its hash.  vault is, for each participant, the   *)
(* transactions it has recorded; flows are those under way.                *)
(***************************************************************************)
EXTENDS IbcCommands, FiniteSets

CONSTANTS
    Node,                     \* the participants of every Genesis
    MaxGenesis,               \* bound on the Geneses
    MaxTx,                    \* bound on the notarised transactions
    MaxFlows                  \* bound on the flows under way at one time

ASSUME LedgerBoundsAreNat == MaxGenesis \in Nat /\ MaxTx \in Nat /\ MaxFlows \in Nat

VARIABLES ledger, vault, flows

ledgerVars == <<ledger, vault, flows>>

Bases == 1..MaxTx

(***************************************************************************)
(* States.  A state carries the transaction that produced it, its base     *)
(* identifier (the transaction of its Genesis), its identifier and value.  *)
(***************************************************************************)

BaseOf(t) == IF ledger[t].cmd = GenesisCreate THEN t ELSE ledger[t].base

Produced(t) ==
    {[tx |-> t, base |-> BaseOf(t), id |-> i, val |-> ledger[t].outs[i]] :
        i \in DOMAIN ledger[t].outs}

Consumed(t) == {s \in ledger[t].held : s.id \in ledger[t].cmd.takes}

\* What is left of the states of the transactions T.
Unconsumed(T) == (UNION {Produced(t) : t \in T}) \ (UNION {Consumed(t) : t \in T})

Identifiers(held) == {s.id : s \in held}
ValueOf(held) == [i \in Identifiers(held) |-> (CHOOSE s \in held : s.id = i).val]

LedgerInit ==
    /\ ledger = <<>>
    /\ vault = [n \in Node |-> {}]
    /\ flows = {}

(***************************************************************************)
(* The notary.                                                             *)
(***************************************************************************)

\* Mutant: only what is consumed is looked at, not the references.
NotaryChecksInputs(f) ==
    {s \in f.held : s.id \in f.cmd.takes} \subseteq Unconsumed(DOMAIN ledger)

\* Inputs and reference states must both be unconsumed.
NotaryAccepts(f) == f.held \subseteq Unconsumed(DOMAIN ledger)

Sign(tx) ==
    /\ Len(ledger) < MaxTx                                       \* MaxTx
    /\ ledger' = Append(ledger, tx)

(***************************************************************************)
(* Flows.                                                                  *)
(***************************************************************************)

\* A Genesis is made of nothing, so there is nothing for the notary to refuse.
CreateGenesis ==
    /\ Len(SelectSeq(ledger, LAMBDA tx : tx.cmd = GenesisCreate)) < MaxGenesis
    /\ Sign([base |-> 0, cmd |-> GenesisCreate, held |-> {},
             outs |-> [i \in {GenesisId} |-> Fresh(GenesisId)]])
    /\ UNCHANGED <<vault, flows>>

\* The first query of a flow finds s in the node's vault.
Start(n, s, c) ==
    /\ Cardinality(flows) < MaxFlows /\ Len(ledger) < MaxTx      \* MaxFlows, MaxTx
    /\ s.id = c.queries[1]
    /\ flows' = flows \cup {[node |-> n, base |-> s.base, cmd |-> c, held |-> {s}]}
    /\ UNCHANGED <<ledger, vault>>

\* A later query; the vault may have changed since the last one.
Query(f, s) ==
    /\ Cardinality(f.held) < Len(f.cmd.queries)
    /\ s.base = f.base
    /\ s.id = f.cmd.queries[Cardinality(f.held) + 1]
    /\ flows' = (flows \ {f}) \cup {[f EXCEPT !.held = @ \cup {s}]}
    /\ UNCHANGED <<ledger, vault>>

\* The handler runs on what was found, in the flow and again in the contract,
\* and the notary signs.
Notarise(f) ==
    LET value == ValueOf(f.held) IN
    /\ Identifiers(f.held) = Involved(f.cmd)
    /\ Linked(f.cmd, value)
    /\ CanIssue(f.cmd, value)
    /\ NotaryAccepts(f)
    /\ Sign([base |-> f.base, cmd |-> f.cmd, held |-> f.held,
             outs |-> Outputs(f.cmd, value)])
    /\ flows' = flows \ {f}
    /\ UNCHANGED vault

\* A query finds nothing, the handler or the notary refuses, the node stops.
Fail(f) ==
    /\ flows' = flows \ {f}
    /\ UNCHANGED <<ledger, vault>>

\* Mutant: transactions are recorded as they arrive.
RecordedBefore(n, t) == TRUE

\* What a transaction takes and refers to is resolved first.
Resolved(n, t) == {s.tx : s \in ledger[t].held} \subseteq vault[n]

\* FinalityFlow: each participant, the initiator included, records the
\* transaction after the notary has signed it.
Record(n, t) ==
    /\ t \notin vault[n]
    /\ Resolved(n, t)
    /\ vault' = [vault EXCEPT ![n] = @ \cup {t}]
    /\ UNCHANGED <<ledger, flows>>

LedgerNext ==
    \/ CreateGenesis
    \/ \E n \in Node : \E s \in Unconsumed(vault[n]), c \in Commands : Start(n, s, c)
    \/ \E f \in flows : \E s \in Unconsumed(vault[f.node]) : Query(f, s)
    \/ \E f \in flows : Notarise(f) \/ Fail(f)
    \/ \E n \in Node, t \in DOMAIN ledger : Record(n, t)

LedgerSpec == LedgerInit /\ [][LedgerNext]_ledgerVars

(***************************************************************************)
(* Properties.                                                             *)
(***************************************************************************)

State == [tx: Bases, base: Bases, id: Id, val: Value]
Flow == [node: Node, base: Bases, cmd: Commands, held: SUBSET State]

\* Type invariant: the outputs of a transaction are values of identifiers.
LedgerTypeOK ==
    /\ Len(ledger) <= MaxTx
    /\ \A t \in DOMAIN ledger :
          /\ ledger[t].base \in Bases \cup {0}
          /\ ledger[t].cmd \in Commands \cup {GenesisCreate}
          /\ ledger[t].held \subseteq State
          /\ DOMAIN ledger[t].outs \subseteq Id
          /\ \A i \in DOMAIN ledger[t].outs : ledger[t].outs[i] \in Value
    /\ vault \in [Node -> SUBSET (DOMAIN ledger)]
    /\ flows \subseteq Flow

\* At most one state per base identifier and identifier is unconsumed.
UniqueIn(T) ==
    \A r, s \in Unconsumed(T) : r.base = s.base /\ r.id = s.id => r = s

\* Identifiers are unique: on the ledger, and in whatever part of it a vault
\* has recorded, so that queryIbcState never finds two states of one name.
IdsAreUnique == UniqueIn(DOMAIN ledger) /\ \A n \in Node : UniqueIn(vault[n])

Created(t) ==
    {<<BaseOf(t), i>> : i \in DOMAIN ledger[t].outs \ ledger[t].cmd.takes}

\* An identifier is issued once: no two transactions bring the same one into
\* being, so that a Genesis has one Host for good, and the Host one bank.
IssuedOnce ==
    \A t, u \in DOMAIN ledger : t # u => Created(t) \cap Created(u) = {}

\* The value of a state among those given.
ValueIn(states, b, i) ==
    LET found == {s \in states : s.base = b /\ s.id = i} IN
    IF found = {} THEN [absent |-> TRUE] ELSE (CHOOSE s \in found : TRUE).val

CurrentState ==
    LET current == Unconsumed(DOMAIN ledger) IN
    [b \in Bases |-> [i \in Id |-> ValueIn(current, b, i)]]

Hosts == INSTANCE HostStates WITH
    Base <- Bases,
    state <- CurrentState,
    log <- [t \in DOMAIN ledger |->
              [base |-> BaseOf(t), cmd |-> ledger[t].cmd,
               value |-> ValueOf(ledger[t].held)]]

\* The ledger is a serial execution of the commands, each on the values that
\* were current when the notary signed it, however stale the vaults were.
ExecutedSerially == [][ledger' # ledger => Hosts!HostsNext]_ledgerVars
=============================================================================
