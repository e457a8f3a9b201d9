----------------------------- MODULE StepLedger -----------------------------
(***************************************************************************)
(* What the signed steps of a workflow promise, without leases, attempts,  *)
(* requests or clocks.  The steps are attested and completed one after the *)
(* other; each has one outcome, which stays; and a step that was not       *)
(* attested before the workflow is cancelled never takes effect on record. *)
(***************************************************************************)
EXTENDS Naturals

CONSTANTS Lengths, Attestations, Unattested

VARIABLES
    outcome,     \* what is on record of the effect of each step
    done,        \* the steps that are completed
    halted       \* a cancellation stands

ledgerVars == <<outcome, done, halted>>

Ordinals == DOMAIN outcome
Before(n) == {m \in Ordinals : m < n}

LedgerInit ==
    /\ \E k \in Lengths : outcome = [n \in 1..k |-> Unattested]
    /\ done = {}
    /\ halted = FALSE

Attest(n) ==
    /\ ~halted
    /\ outcome[n] = Unattested
    /\ Before(n) \subseteq done
    /\ \E o \in Attestations : outcome' = [outcome EXCEPT ![n] = o]
    /\ UNCHANGED <<done, halted>>

Finish(n) ==
    /\ ~halted
    /\ n \notin done
    /\ outcome[n] # Unattested
    /\ Before(n) \subseteq done
    /\ done' = done \cup {n}
    /\ UNCHANGED <<outcome, halted>>

Halt ==
    /\ ~halted
    /\ halted' = TRUE
    /\ UNCHANGED <<outcome, done>>

LedgerNext ==
    \/ \E n \in Ordinals : Attest(n) \/ Finish(n)
    \/ Halt

LedgerSpec == LedgerInit /\ [][LedgerNext]_ledgerVars
=============================================================================
