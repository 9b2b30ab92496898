------------------------------ MODULE MCLedger ------------------------------
(***************************************************************************)
(* CordaLedger for TLC, started from a ledger on which a Host with a bank, *)
(* a client and a connection has been set up, one after the other, and     *)
(* which every vault has recorded.  Nothing tells the nodes apart.         *)
(***************************************************************************)
EXTENDS CordaLedger, TLC

CONSTANTS m, n

Symmetry == Permutations({m, n})

SetUp == <<HostCreate, ClientCreate, ConnOpen, BankCreate>>

\* The unconsumed states after k steps of the set-up, and the transactions.
After[k \in 0..Len(SetUp)] ==
    IF k = 0
    THEN [txs |-> <<[base |-> 0, cmd |-> GenesisCreate, held |-> {},
                     outs |-> GenesisId :> Fresh(GenesisId)]>>,
          states |-> {[tx |-> 1, base |-> 1, id |-> GenesisId, val |-> Fresh(GenesisId)]}]
    ELSE LET cmd == CHOOSE c \in SetUp[k] : TRUE
             held == {s \in After[k - 1].states : s.id \in Involved(cmd)}
             outs == Outputs(cmd, ValueOf(held))
         IN  [txs |-> Append(After[k - 1].txs,
                             [base |-> 1, cmd |-> cmd, held |-> held, outs |-> outs]),
              states |-> {s \in After[k - 1].states : s.id \notin cmd.takes} \cup
                         {[tx |-> k + 1, base |-> 1, id |-> i, val |-> outs[i]] :
                             i \in DOMAIN outs}]

SetUpInit ==
    /\ ledger = After[Len(SetUp)].txs
    /\ vault = [x \in Node |-> DOMAIN ledger]
    /\ flows = {}

SetUpSpec == SetUpInit /\ [][LedgerNext]_ledgerVars
=============================================================================
