--------------------------- MODULE CommandLedger ---------------------------
(***************************************************************************)
(* What the command protocol promises, without clocks, leases, queues or   *)
(* messages.  The node takes a command into its ledger at most once, in    *)
(* the order of the revisions it expects; the control plane decides the    *)
(* outcome of a command at most once, and decides for success only what is *)
(* in the ledger; and what is told to the workflow is what was decided.    *)
(***************************************************************************)
EXTENDS AgentProtocol

VARIABLES
    ledger,      \* keys the node has taken as successes
    level,       \* the revision of each resource
    outcome,     \* what the control plane decided, by key
    told         \* what the workflow was told, by command

ledgerVars == <<ledger, level, outcome, told>>

LedgerInit ==
    /\ ledger = {}
    /\ level = [r \in Resources |-> 0]
    /\ outcome = [k \in Keys |-> "open"]
    /\ told = [c \in Commands |-> "open"]

\* Inspections leave the level alone; any other command must find its prior.
Take(c) ==
    /\ Key[c] \notin ledger
    /\ ledger' = ledger \cup {Key[c]}
    /\ \/ c \in Inspections /\ UNCHANGED level
       \/ /\ c \notin Inspections
          /\ level[Resource[c]] = Prior[c]
          /\ level' = [level EXCEPT ![Resource[c]] = Prior[c] + 1]
    /\ UNCHANGED <<outcome, told>>

Decide(c, status) ==
    /\ outcome[Key[c]] = "open"
    /\ status = "succeeded" => Key[c] \in ledger
    /\ outcome' = [outcome EXCEPT ![Key[c]] = status]
    /\ UNCHANGED <<ledger, level, told>>

Tell(c) ==
    /\ told[c] = "open"
    /\ outcome[Key[c]] # "open"
    /\ told' = [told EXCEPT ![c] = outcome[Key[c]]]
    /\ UNCHANGED <<ledger, level, outcome>>

LedgerNext ==
    \E c \in Commands :
        \/ Take(c)
        \/ \E status \in {"succeeded", "failed"} : Decide(c, status)
        \/ Tell(c)

LedgerSpec == LedgerInit /\ [][LedgerNext]_ledgerVars
=============================================================================
