--------------------------- MODULE WorkflowSteps ---------------------------
(***************************************************************************)
(* One accepted operation and the signed steps of its workflow             *)
(* (packages/lifecycle-termination-workflow, -d1 and migration 0019, with  *)
(* the driver in workers/workflows): a claim on each step under a lease,   *)
(* evidence of the step's effect, the completion that moves the            *)
(* cancellation facts on, the observation of a claim whose lease ran out,  *)
(* and the cancellation that competes with all of it.                      *)
(*                                                                         *)
(* Every D1 batch is one atomic step; between two of them a request may    *)
(* crash, stall or be given up by the workflow while it runs on.  A claim  *)
(* id is fresh for each attempt, so the attempt number stands for the      *)
(* lease.  What a step does is left open here: an effect may have any      *)
(* outcome, an observation may say anything.                               *)
(***************************************************************************)
EXTENDS Naturals

CONSTANTS
    Types,       \* workflow types
    Last,        \* the number of steps of each type
    Destructive, \* its destructive steps, by ordinal
    Policy,      \* its cancellation policy
    Outcomes,    \* what evidence of an effect may say
    Requests,    \* bound: requests of the workflow in flight at a time
    Tries        \* bound: calls that may fail, over all steps, until the workflow
                 \* ends with an error; the code retries each step five times

Policies == {"between-steps", "before-destructive-step"}
Findings == Outcomes \cup {"not-applied", "unknown"}
Nothing == "none"

ASSUME StepsAssumption ==
    /\ Last \in [Types -> Nat \ {0}]
    /\ Destructive \in [Types -> SUBSET Nat]
    /\ Policy \in [Types -> Policies]
    /\ Outcomes \cap {"not-applied", "unknown", Nothing} = {}
    /\ Tries \in Nat \ {0}

VARIABLES
    type,         \* the workflow type of the operation
    operation,    \* operations.status
    facts,        \* operation_cancellation_facts
    step,         \* operation_cancellation_step_receipts, by ordinal
    effect,       \* operation_cancellation_step_effect_receipts
    cancellation, \* operation_cancellation_requests
    workflow,     \* the workflow instance
    handler       \* what each request at the API is doing

stepVars == <<type, operation, facts, step, effect, cancellation, workflow, handler>>

Ordinals == 1..Last[type]
OwnPhase == Policy[type]
Status == {"queued", "running", "waiting_external", "cancelling", "cancelled", "succeeded"}
Live == {"queued", "running", "waiting_external"}

Facts == [phase: Policies \cup {"step-running", "destructive-step-running", "terminal"},
          active: Nat, revision: Nat]
Row == [state: {"absent", "running", "completed", "cancelled"}, attempt: Nat,
        live: BOOLEAN, revision: Nat]
NoRow == [state |-> "absent", attempt |-> 0, live |-> FALSE, revision |-> 0]
Evidence == [attempt: Nat, outcome: Outcomes]
NoEvidence == [attempt |-> 0, outcome |-> Nothing]
Instance == [at: Nat, state: {"running", "complete", "errored", "terminated"},
             waiting: SUBSET Requests, tries: Nat]
Stages == {"received", "claiming", "observing", "resolving", "executing",
           "recording", "completing", "finalizing"}
Handler == [pc: Stages, ordinal: Nat, attempt: Nat, revision: Nat,
            outcome: Findings \cup {Nothing}]
AtRest == [pc |-> "idle"]

StepsTypeOK ==
    /\ type \in Types
    /\ operation \in Status
    /\ facts \in Facts
    /\ step \in [Ordinals -> Row]
    /\ effect \in [Ordinals -> Evidence \cup {NoEvidence}]
    /\ cancellation \in {"none", "requested", "cancelled"}
    /\ workflow \in Instance
    /\ handler \in [Requests -> Handler \cup {AtRest}]

StepsInit ==
    /\ type \in Types
    /\ operation = "queued"
    /\ facts = [phase |-> OwnPhase, active |-> 0, revision |-> 1]
    /\ step = [n \in Ordinals |-> NoRow]
    /\ effect = [n \in Ordinals |-> NoEvidence]
    /\ cancellation = "none"
    /\ workflow = [at |-> 1, state |-> "running", waiting |-> {}, tries |-> Tries]
    /\ handler = [r \in Requests |-> AtRest]

At(r, pc) == handler[r].pc = pc
Ordinal(r) == handler[r].ordinal
StepOf(r) == step[Ordinal(r)]
EffectOf(r) == effect[Ordinal(r)]

Enter(r, pc, attempt, revision, outcome) ==
    handler' = [handler EXCEPT ![r] =
                  [pc |-> pc, ordinal |-> Ordinal(r), attempt |-> attempt,
                   revision |-> revision, outcome |-> outcome]]
GoTo(r, pc, attempt) == Enter(r, pc, attempt, 0, Nothing)

-----------------------------------------------------------------------------
(* The workflow: one call after the other *)

\* The instance after it learnt how a call ended; it returns on a cancellation.
Learned(status) ==
    CASE status = "done" /\ workflow.at < Last[type] ->
           [workflow EXCEPT !.at = workflow.at + 1, !.waiting = {}]
      [] status = "done" /\ workflow.at >= Last[type] ->
           [workflow EXCEPT !.state = "complete", !.waiting = {}]
      [] status = "cancelled" ->
           [workflow EXCEPT !.state = "complete", !.waiting = {}]
      [] status = "failed" ->
           [workflow EXCEPT !.state = IF workflow.tries > 1 THEN "running" ELSE "errored",
                            !.waiting = {}, !.tries = workflow.tries - 1]

\* The answer reaches the workflow, unless it no longer waits for this request.
Answer(r, status) ==
    /\ handler' = [handler EXCEPT ![r] = AtRest]
    /\ workflow' = IF r \in workflow.waiting THEN Learned(status) ELSE workflow

\* The claim that counts as expired for a request.  isExpired compares with the
\* time the request started: a lease that runs out later is still held for it.
Expired(n) ==
    IF step[n].state = "running" /\ ~step[n].live /\ effect[n] = NoEvidence
    THEN step[n].attempt ELSE 0

Call(r) ==
    /\ workflow.state = "running"
    /\ workflow.waiting = {}
    /\ At(r, "idle")
    /\ workflow' = [workflow EXCEPT !.waiting = {r}]
    /\ handler' = [handler EXCEPT ![r] =
                     [pc |-> "received", ordinal |-> workflow.at,
                      attempt |-> Expired(workflow.at), revision |-> 0,
                      outcome |-> Nothing]]
    /\ UNCHANGED <<type, operation, facts, step, effect, cancellation>>

\* The timeout of a step: the request is not stopped by it.
GiveUp(r) ==
    /\ r \in workflow.waiting
    /\ workflow' = Learned("failed")
    /\ UNCHANGED <<type, operation, facts, step, effect, cancellation, handler>>

\* A crash of the request, a lost answer or any error of D1 or a provider.
Crash(r) ==
    /\ ~At(r, "idle")
    /\ Answer(r, "failed")
    /\ UNCHANGED <<type, operation, facts, step, effect, cancellation>>

-----------------------------------------------------------------------------
(* The claim *)

CancellationStands == cancellation # "none" \/ operation \in {"cancelling", "cancelled"}

\* The row exists: the dispositions of claimStep that need no write.
FollowRow(r) ==
    \/ StepOf(r).state = "completed" /\ Answer(r, "done")
    \/ /\ StepOf(r).state = "cancelled"
       /\ GoTo(r, "finalizing", 0) /\ UNCHANGED workflow
    \/ /\ StepOf(r).state = "running"
       /\ EffectOf(r) # NoEvidence
       /\ GoTo(r, "completing", StepOf(r).attempt) /\ UNCHANGED workflow
    \/ /\ StepOf(r).state = "running"
       /\ EffectOf(r) = NoEvidence
       /\ handler[r].attempt = StepOf(r).attempt
       /\ GoTo(r, "observing", StepOf(r).attempt) /\ UNCHANGED workflow
    \/ /\ StepOf(r).state = "running"
       /\ EffectOf(r) = NoEvidence
       /\ handler[r].attempt # StepOf(r).attempt
       /\ Answer(r, "failed")

ReadClaim(r) ==
    /\ At(r, "received")
    /\ \/ StepOf(r) # NoRow /\ FollowRow(r)
       \/ /\ StepOf(r) = NoRow
          /\ CancellationStands
          /\ GoTo(r, "finalizing", 0) /\ UNCHANGED workflow
       \/ /\ StepOf(r) = NoRow
          /\ ~CancellationStands
          /\ facts.phase # OwnPhase
          /\ Answer(r, "failed")
       \/ /\ StepOf(r) = NoRow
          /\ ~CancellationStands
          /\ facts.phase = OwnPhase
          /\ Enter(r, "claiming", handler[r].attempt, facts.revision, Nothing)
          /\ UNCHANGED workflow
    /\ UNCHANGED <<type, operation, facts, step, effect, cancellation>>

\* The guards of the claim's batch and of its trigger.
Claimable(r) ==
    /\ StepOf(r) = NoRow
    /\ facts.revision = handler[r].revision
    /\ facts.phase \in Policies
    /\ cancellation = "none"
    /\ operation \in Live

RunningPhase(n) ==
    IF n \in Destructive[type] THEN "destructive-step-running" ELSE "step-running"

Claim(r) ==
    /\ At(r, "claiming")
    /\ \/ /\ Claimable(r)
          /\ facts' = [phase |-> RunningPhase(Ordinal(r)), active |-> Ordinal(r),
                       revision |-> facts.revision + 1]
          /\ operation' = "running"
          /\ step' = [step EXCEPT ![Ordinal(r)] =
                        [state |-> "running", attempt |-> 1, live |-> TRUE,
                         revision |-> facts.revision + 1]]
          /\ GoTo(r, "executing", 1) /\ UNCHANGED workflow
       \/ /\ ~Claimable(r)
          /\ StepOf(r) # NoRow
          /\ FollowRow(r)
          /\ UNCHANGED <<facts, operation, step>>
       \/ /\ ~Claimable(r)
          /\ StepOf(r) = NoRow
          /\ \/ cancellation # "none" /\ GoTo(r, "finalizing", 0) /\ UNCHANGED workflow
             \/ cancellation = "none" /\ Answer(r, "failed")
          /\ UNCHANGED <<facts, operation, step>>
    /\ UNCHANGED <<type, effect, cancellation>>

-----------------------------------------------------------------------------
(* From the claim to the completion *)

Attested(r, outcome) == [attempt |-> StepOf(r).attempt, outcome |-> outcome]

\* A claim that had no effect passes to a new attempt.
NextAttempt(row) == [row EXCEPT !.attempt = row.attempt + 1, !.live = TRUE]

\* resolveExpiredStepClaim, with what the observation said.
Resolve(r) ==
    /\ At(r, "resolving")
    /\ \/ /\ StepOf(r).state = "completed"
          /\ Answer(r, "done") /\ UNCHANGED <<step, effect>>
       \/ /\ StepOf(r).state = "cancelled"
          /\ GoTo(r, "finalizing", 0) /\ UNCHANGED <<workflow, step, effect>>
       \/ /\ StepOf(r).state = "running"
          /\ StepOf(r).attempt # handler[r].attempt
          /\ Answer(r, "failed") /\ UNCHANGED <<step, effect>>
       \/ /\ StepOf(r).state = "running"
          /\ StepOf(r).attempt = handler[r].attempt
          /\ \/ /\ EffectOf(r) # NoEvidence
                /\ GoTo(r, "completing", StepOf(r).attempt)
                /\ UNCHANGED <<workflow, step, effect>>
             \/ /\ EffectOf(r) = NoEvidence
                /\ handler[r].outcome = "unknown"
                /\ Answer(r, "failed") /\ UNCHANGED <<step, effect>>
             \/ /\ EffectOf(r) = NoEvidence
                /\ handler[r].outcome \in Outcomes
                /\ effect' = [effect EXCEPT ![Ordinal(r)] = Attested(r, handler[r].outcome)]
                /\ GoTo(r, "completing", StepOf(r).attempt)
                /\ UNCHANGED <<workflow, step>>
             \/ /\ EffectOf(r) = NoEvidence
                /\ handler[r].outcome = "not-applied"
                /\ step' = [step EXCEPT ![Ordinal(r)] = NextAttempt(StepOf(r))]
                /\ GoTo(r, "executing", NextAttempt(StepOf(r)).attempt)
                /\ UNCHANGED <<workflow, effect>>
    /\ UNCHANGED <<type, operation, facts, cancellation>>

HoldsLease(r) == StepOf(r).state = "running" /\ StepOf(r).attempt = handler[r].attempt

\* Mutant: evidence is taken from any claimant, and replaces what is there.
RecordAnyEffect(r) ==
    /\ At(r, "recording")
    /\ effect' = [effect EXCEPT ![Ordinal(r)] = Attested(r, handler[r].outcome)]
    /\ GoTo(r, "completing", handler[r].attempt)
    /\ UNCHANGED <<type, operation, facts, step, cancellation, workflow>>

\* recordStepEffectReceipt: only for the lease, and only once.
RecordEffect(r) ==
    /\ At(r, "recording")
    /\ \/ /\ HoldsLease(r)
          /\ EffectOf(r) \in {NoEvidence, Attested(r, handler[r].outcome)}
          /\ effect' = [effect EXCEPT ![Ordinal(r)] = Attested(r, handler[r].outcome)]
          /\ GoTo(r, "completing", handler[r].attempt) /\ UNCHANGED workflow
       \/ /\ ~ /\ HoldsLease(r)
               /\ EffectOf(r) \in {NoEvidence, Attested(r, handler[r].outcome)}
          /\ Answer(r, "failed") /\ UNCHANGED effect
    /\ UNCHANGED <<type, operation, facts, step, cancellation>>

PhaseAfter(n) ==
    IF operation = "succeeded" THEN "terminal"
    ELSE IF n \in Destructive[type] THEN "destructive-step-running" ELSE OwnPhase

Completable(r) ==
    /\ HoldsLease(r)
    /\ ~CancellationStands
    /\ EffectOf(r) # NoEvidence
    /\ facts.revision = StepOf(r).revision

Complete(r) ==
    /\ At(r, "completing")
    /\ \/ /\ Completable(r)
          /\ facts' = [phase |-> PhaseAfter(Ordinal(r)), active |-> 0,
                       revision |-> facts.revision + 1]
          /\ step' = [step EXCEPT ![Ordinal(r)].state = "completed",
                                  ![Ordinal(r)].live = FALSE]
          /\ Answer(r, "done")
       \/ /\ ~Completable(r)
          /\ \/ /\ StepOf(r).state = "completed"
                /\ StepOf(r).attempt = handler[r].attempt
                /\ Answer(r, "done")
             \/ /\ ~(StepOf(r).state = "completed" /\ StepOf(r).attempt = handler[r].attempt)
                /\ Answer(r, "failed")
          /\ UNCHANGED <<facts, step>>
    /\ UNCHANGED <<type, operation, effect, cancellation>>

-----------------------------------------------------------------------------
(* The cancellation *)

\* Mutant: a cancellation is accepted whatever step is running.
CancellableAnyTime == cancellation = "none" /\ operation \in Live

\* The operation is live, and between two steps before any destructive one.
Cancellable ==
    /\ cancellation = "none"
    /\ operation \in Live
    /\ facts.phase = OwnPhase

RequestCancellation ==
    /\ Cancellable
    /\ operation' = "cancelling"
    /\ cancellation' = "requested"
    /\ UNCHANGED <<type, facts, step, effect, workflow, handler>>

\* The signal, or a repetition of it, reaches the workflow instance; requests
\* that are in flight at the API run on.
TerminateWorkflow ==
    /\ cancellation = "requested"
    /\ workflow.state = "running"
    /\ workflow' = [workflow EXCEPT !.state = "terminated", !.waiting = {}]
    /\ UNCHANGED <<type, operation, facts, step, effect, cancellation, handler>>

\* finalizeCancellation, which only a step that finds itself cancelled calls.
FinalizeCancellation(r) ==
    /\ At(r, "finalizing")
    /\ \/ /\ cancellation = "requested"
          /\ operation = "cancelling"
          /\ operation' = "cancelled"
          /\ cancellation' = "cancelled"
          /\ facts' = IF \E n \in Ordinals : step[n].state = "running" THEN facts
                      ELSE [phase |-> "terminal", active |-> 0,
                            revision |-> facts.revision + 1]
          /\ step' = [n \in Ordinals |->
                        IF step[n].state # "running" THEN step[n]
                        ELSE [step[n] EXCEPT !.state = "cancelled", !.live = FALSE]]
          /\ Answer(r, "cancelled")
       \/ /\ cancellation = "cancelled"
          /\ Answer(r, "cancelled")
          /\ UNCHANGED <<operation, cancellation, facts, step>>
       \/ /\ cancellation = "none" \/ (cancellation = "requested" /\ operation # "cancelling")
          /\ Answer(r, "failed")
          /\ UNCHANGED <<operation, cancellation, facts, step>>
    /\ UNCHANGED <<type, effect>>

-----------------------------------------------------------------------------
(* Effects, left open, and time *)

\* An effect or an observation moves the status of a live operation.
Progress ==
    /\ \/ UNCHANGED operation
       \/ operation \in Live /\ operation' \in {"running", "waiting_external", "succeeded"}
    /\ UNCHANGED <<type, facts, step, effect, cancellation>>

EffectReturns(r, outcome) == Enter(r, "recording", handler[r].attempt, 0, outcome)
ObserverReturns(r, finding) == Enter(r, "resolving", handler[r].attempt, 0, finding)

Effect(r) ==
    /\ Progress
    /\ \/ /\ At(r, "executing") \/ At(r, "observing")
          /\ \/ Answer(r, "failed")
             \/ UNCHANGED <<handler, workflow>>
       \/ /\ At(r, "executing")
          /\ \E outcome \in Outcomes : EffectReturns(r, outcome)
          /\ UNCHANGED workflow
       \/ /\ At(r, "observing")
          /\ \E finding \in Findings : ObserverReturns(r, finding)
          /\ UNCHANGED workflow

\* A lease is looked at only as long as there is no evidence.
LeaseLapses(n) ==
    /\ step[n].state = "running"
    /\ step[n].live
    /\ effect[n] = NoEvidence
    /\ step' = [step EXCEPT ![n].live = FALSE]
    /\ UNCHANGED <<type, operation, facts, effect, cancellation, workflow, handler>>

\* What a request does by itself around the effect of its step.
FenceStep(r) ==
    \/ ReadClaim(r) \/ Claim(r) \/ Resolve(r) \/ RecordEffect(r) \/ Complete(r)
    \/ FinalizeCancellation(r)

StepsNext ==
    \/ \E r \in Requests : Call(r) \/ GiveUp(r) \/ Crash(r) \/ FenceStep(r) \/ Effect(r)
    \/ \E n \in Ordinals : LeaseLapses(n)
    \/ RequestCancellation
    \/ TerminateWorkflow

StepsSpec == StepsInit /\ [][StepsNext]_stepVars

-----------------------------------------------------------------------------
(* Properties *)

\* The signed steps implement the ledger: a step is attested when evidence of
\* its effect is stored, finished when it is completed, and a request to cancel
\* halts the workflow, whichever requests run on and whatever they observe.
StepRecord == INSTANCE StepLedger WITH
    Lengths <- {Last[t] : t \in Types},
    Attestations <- Outcomes,
    Unattested <- Nothing,
    outcome <- [n \in Ordinals |-> effect[n].outcome],
    done <- {n \in Ordinals : step[n].state = "completed"},
    halted <- cancellation # "none"
ImplementsStepLedger == StepRecord!LedgerSpec
=============================================================================
