----------------------------- MODULE HostStates -----------------------------
(***************************************************************************)
(* What the handlers are written for: a Host and its states are a map from *)
(* identifiers to values, and a command reads and writes current values in *)
(* one step.  IbcConnection, IbcChannel and the transfer modules take this *)
(* for granted; CordaLedger implements it.                                 *)
(***************************************************************************)
EXTENDS IbcCommands

CONSTANT Base                 \* base identifiers: references to a Genesis

VARIABLES
    state,                    \* the current value of each state, or Absent
    log                       \* what was executed so far, and on which values

hostVars == <<state, log>>

Absent == [absent |-> TRUE]

HostsInit ==
    /\ state = [b \in Base |-> [i \in Id |-> Absent]]
    /\ log = <<>>

Log(b, c, value) == log' = Append(log, [base |-> b, cmd |-> c, value |-> value])

\* Anybody may create a Genesis under a base identifier never used.
CreateGenesis(b) ==
    /\ \A i \in Id : state[b][i] = Absent
    /\ state' = [state EXCEPT ![b][GenesisId] = Fresh(GenesisId)]
    /\ Log(b, GenesisCreate, <<>>)

\* An identifier that is issued has no state yet.
Execute(b, c) ==
    LET value == [i \in Involved(c) |-> state[b][i]]
        out == Outputs(c, value)
    IN  /\ \A i \in Involved(c) : state[b][i] # Absent
        /\ Linked(c, value)
        /\ CanIssue(c, value)
        /\ \A i \in Issued(c, value) : state[b][i] = Absent
        /\ state' = [state EXCEPT ![b] = [i \in Id |->
                        IF i \in DOMAIN out THEN out[i]
                        ELSE IF i \in c.takes THEN Absent
                        ELSE state[b][i]]]
        /\ Log(b, c, value)

HostsNext == \E b \in Base : CreateGenesis(b) \/ \E c \in Commands : Execute(b, c)

HostsSpec == HostsInit /\ [][HostsNext]_hostVars
=============================================================================
