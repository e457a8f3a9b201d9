------------------------ MODULE WorkflowStepsProofs ------------------------
(***************************************************************************)
(* The signed steps implement their ledger, for every workflow type, every *)
(* number of requests and any behaviour of the effects.                    *)
(*                                                                         *)
(* The invariant has two parts.  RowsOK is about what is stored: at most   *)
(* one step runs, the facts name it, no cancellation stands while it runs, *)
(* and the steps before it are completed.  FlowOK is about who calls: the  *)
(* workflow and every request, a stalled one included, are at a step whose *)
(* predecessors are completed, and only a request of the step the workflow *)
(* is at can move it on.                                                   *)
(***************************************************************************)
EXTENDS WorkflowSteps, TLAPS

Predecessors(n) == 1..(n - 1)
Completed(n) == step[n].state = "completed"
RunningPhases == {"step-running", "destructive-step-running"}

RowsOK ==
    /\ type \in Types
    /\ operation \in Status
    /\ facts \in Facts
    /\ step \in [Ordinals -> Row]
    /\ effect \in [Ordinals -> Evidence \cup {NoEvidence}]
    /\ cancellation \in {"none", "requested", "cancelled"}
    /\ \A n \in Ordinals : step[n].state = "running" =>
          cancellation = "none" /\ facts.active = n /\ facts.phase = RunningPhase(n)
    /\ \A n \in Ordinals : step[n].state \in {"running", "completed"} =>
          \A m \in Predecessors(n) : Completed(m)

FlowOK ==
    /\ workflow \in Instance
    /\ handler \in [Requests -> Handler \cup {AtRest}]
    /\ workflow.at \in Ordinals
    /\ workflow.state = "running" => workflow.tries # 0
    /\ workflow.waiting # {} => workflow.state = "running"
    /\ \A m \in Predecessors(workflow.at) : Completed(m)
    /\ \A r \in workflow.waiting : handler[r] # AtRest /\ Ordinal(r) = workflow.at
    /\ \A r \in Requests : handler[r] # AtRest =>
          /\ Ordinal(r) \in Ordinals
          /\ \A m \in Predecessors(Ordinal(r)) : Completed(m)
    /\ \A r \in Requests : At(r, "recording") => handler[r].outcome \in Outcomes

StepsInv == RowsOK /\ FlowOK

\* What never changes back, and what every step leaves alone.
Keeps ==
    /\ type' = type
    /\ \A n \in Ordinals : Completed(n) => step'[n].state = "completed"

LEMMA OrdinalsTyped ==
    ASSUME type \in Types
    PROVE  Last[type] \in Nat \ {0} /\ 1 \in Ordinals /\ Ordinals \subseteq Nat \ {0}
  BY StepsAssumption, SMT DEF StepsAssumption, Ordinals

LEMMA PredecessorsAreOrdinals ==
    ASSUME type \in Types, NEW n \in Ordinals, NEW m \in Predecessors(n)
    PROVE  m \in Ordinals
  BY OrdinalsTyped, SMT DEF Ordinals, Predecessors

\* A request that is at some stage is not at rest.
LEMMA Busy ==
    ASSUME FlowOK, NEW r \in Requests, handler[r].pc # "idle"
    PROVE  handler[r] \in Handler /\ handler[r] # AtRest
  BY SMT DEF FlowOK, AtRest

\* A request that moves on within its step leaves the flow in order.
LEMMA EnterFlows ==
    ASSUME FlowOK, Keeps, type \in Types,
           NEW r \in Requests, handler[r].pc # "idle",
           NEW pc \in Stages, NEW a \in Nat, NEW v \in Nat,
           NEW o \in Findings \cup {Nothing},
           pc = "recording" => o \in Outcomes,
           Enter(r, pc, a, v, o), workflow' = workflow
    PROVE  FlowOK'
<1>1. handler[r] \in Handler /\ handler[r] # AtRest
  BY Busy
<1> DEFINE h == [pc |-> pc, ordinal |-> Ordinal(r), attempt |-> a,
                 revision |-> v, outcome |-> o]
<1>2. h \in Handler /\ h # AtRest /\ h.ordinal = Ordinal(r)
  BY <1>1, SMT DEF Handler, AtRest, Ordinal
<1>3. handler' \in [Requests -> Handler \cup {AtRest}]
  BY <1>2 DEF FlowOK, Enter
<1>4. /\ handler'[r] = h
      /\ \A q \in Requests \ {r} : handler'[q] = handler[q]
  BY DEF FlowOK, Enter
<1>5. Ordinals' = Ordinals
  BY DEF Keeps, Ordinals
<1>6. \A n \in Ordinals : (\A m \in Predecessors(n) : Completed(m)) =>
          \A m \in Predecessors(n) : Completed(m)'
  <2> SUFFICES ASSUME NEW n \in Ordinals, NEW m \in Predecessors(n), Completed(m)
               PROVE  Completed(m)'
    OBVIOUS
  <2>1. m \in Ordinals
    BY PredecessorsAreOrdinals
  <2> QED
    BY <2>1 DEF Keeps, Completed
<1>7. \A q \in Requests : handler'[q] # AtRest => handler[q] # AtRest /\ Ordinal(q)' = Ordinal(q)
  BY <1>1, <1>2, <1>4 DEF Ordinal
<1>8. \A q \in workflow.waiting : handler'[q] # AtRest
  BY <1>2, <1>4 DEF FlowOK, Instance
<1>9. \A q \in Requests : At(q, "recording")' => handler'[q].outcome \in Outcomes
  BY <1>4 DEF FlowOK, At
<1> QED
  BY <1>3, <1>5, <1>6, <1>7, <1>8, <1>9 DEF FlowOK, Instance

\* What the workflow makes of an answer it waits for keeps its own bounds.
LEMMA LearnedIsInOrder ==
    ASSUME FlowOK, type \in Types, workflow.state = "running",
           NEW status \in {"done", "cancelled", "failed"}
    PROVE  /\ Learned(status) \in Instance
           /\ Learned(status).waiting = {}
           /\ Learned(status).state = "running" => Learned(status).tries # 0
           /\ Learned(status).at \in Ordinals
           /\ Learned(status).at # workflow.at =>
                Learned(status).at = workflow.at + 1 /\ status = "done"
<1>1. /\ workflow \in [at: Nat, state: {"running", "complete", "errored", "terminated"},
                       waiting: SUBSET Requests, tries: Nat]
      /\ workflow.tries # 0
      /\ workflow.at \in 1..Last[type]
      /\ Last[type] \in Nat
  BY OrdinalsTyped DEF FlowOK, Instance, Ordinals
<1>2. CASE status = "done" /\ workflow.at < Last[type]
  <2>1. Learned(status) = [workflow EXCEPT !.at = workflow.at + 1, !.waiting = {}]
    BY <1>1, <1>2, SMT DEF Learned
  <2>2. workflow.at + 1 \in Nat /\ workflow.at + 1 \in 1..Last[type]
    BY <1>1, <1>2, SMT
  <2>3. Learned(status) = [at |-> workflow.at + 1, state |-> workflow.state,
                           waiting |-> {}, tries |-> workflow.tries]
    BY <1>1, <2>1
  <2>4. Learned(status) \in Instance
    BY <1>1, <2>2, <2>3 DEF Instance
  <2> QED
    BY <1>1, <1>2, <2>2, <2>3, <2>4 DEF Ordinals
<1>3. CASE status = "done" /\ ~(workflow.at < Last[type])
  <2>1. Learned(status) = [workflow EXCEPT !.state = "complete", !.waiting = {}]
    BY <1>1, <1>3, SMT DEF Learned
  <2>2. Learned(status) \in Instance
    BY <1>1, <2>1 DEF Instance
  <2> QED
    BY <1>1, <1>3, <2>1, <2>2 DEF Ordinals, Instance
<1>4. CASE status = "cancelled"
  <2>1. Learned(status) = [workflow EXCEPT !.state = "complete", !.waiting = {}]
    BY <1>1, <1>4, SMT DEF Learned
  <2>2. Learned(status) \in Instance
    BY <1>1, <2>1 DEF Instance
  <2> QED
    BY <1>1, <1>4, <2>1, <2>2 DEF Ordinals, Instance
<1>5. CASE status = "failed"
  <2>1. Learned(status) = 
          [workflow EXCEPT !.state = IF workflow.tries > 1 THEN "running" ELSE "errored",
                           !.waiting = {}, !.tries = workflow.tries - 1]
    BY <1>1, <1>5, SMT DEF Learned
  <2>2. /\ workflow.tries - 1 \in Nat
        /\ workflow.tries > 1 => workflow.tries - 1 # 0
    BY <1>1, SMT
  <2>3. Learned(status) =
          [at |-> workflow.at,
           state |-> IF workflow.tries > 1 THEN "running" ELSE "errored",
           waiting |-> {}, tries |-> workflow.tries - 1]
    BY <1>1, <2>1
  <2>4. Learned(status) \in Instance
    BY <1>1, <2>2, <2>3 DEF Instance
  <2> QED
    BY <1>1, <1>5, <2>2, <2>3, <2>4 DEF Ordinals
<1> QED
  BY <1>2, <1>3, <1>4, <1>5

\* A request that answers leaves the flow in order, if what it calls done is.
LEMMA AnswerFlows ==
    ASSUME FlowOK, Keeps, type \in Types, NEW r \in Requests,
           handler[r].pc # "idle",
           NEW status \in {"done", "cancelled", "failed"},
           status = "done" => step'[Ordinal(r)].state = "completed",
           Answer(r, status)
    PROVE  FlowOK'
<1>1. handler[r] \in Handler /\ handler[r] # AtRest
  BY Busy
<1>2. /\ handler' \in [Requests -> Handler \cup {AtRest}]
      /\ handler'[r] = AtRest
      /\ \A q \in Requests \ {r} : handler'[q] = handler[q]
  BY DEF FlowOK, Answer
<1>3. Ordinals' = Ordinals
  BY DEF Keeps, Ordinals
<1>4. \A n \in Ordinals : (\A m \in Predecessors(n) : Completed(m)) =>
          \A m \in Predecessors(n) : Completed(m)'
  BY PredecessorsAreOrdinals DEF Keeps, Completed
<1>5. \A q \in Requests : handler'[q] # AtRest => handler[q] # AtRest /\ Ordinal(q)' = Ordinal(q)
  BY <1>1, <1>2 DEF Ordinal
<1>6. \A q \in Requests : At(q, "recording")' => handler'[q].outcome \in Outcomes
  BY <1>2 DEF FlowOK, At, AtRest
<1>7. CASE r \notin workflow.waiting
  <2>1. workflow' = workflow
    BY <1>7 DEF Answer
  <2>2. \A q \in workflow.waiting : handler'[q] # AtRest /\ Ordinal(q)' = workflow.at
    BY <1>2, <1>7 DEF FlowOK, Instance, Ordinal
  <2> QED
    BY <1>2, <1>3, <1>4, <1>5, <1>6, <2>1, <2>2 DEF FlowOK
<1>8. CASE r \in workflow.waiting
  <2>1. workflow.state = "running" /\ Ordinal(r) = workflow.at
    BY <1>8 DEF FlowOK
  <2>2. workflow' = Learned(status)
    BY <1>8 DEF Answer
  <2>3. /\ workflow' \in Instance
        /\ workflow'.waiting = {}
        /\ workflow'.state = "running" => workflow'.tries # 0
        /\ workflow'.at \in Ordinals
        /\ workflow'.at # workflow.at =>
             workflow'.at = workflow.at + 1 /\ status = "done"
    BY <2>1, <2>2, LearnedIsInOrder
  <2>4. \A m \in Predecessors(workflow'.at) : Completed(m)'
    <3>1. CASE workflow'.at = workflow.at
      BY <1>4, <2>3, <3>1 DEF FlowOK
    <3>2. CASE workflow'.at # workflow.at
      <4>1. workflow'.at = workflow.at + 1 /\ step'[workflow.at].state = "completed"
        BY <2>1, <2>3, <3>2
      <4>2. workflow.at \in Nat
        BY OrdinalsTyped DEF FlowOK
      <4>3. \A m \in Predecessors(workflow'.at) : m \in Predecessors(workflow.at) \/ m = workflow.at
        BY <4>1, <4>2, SMT DEF Predecessors
      <4>4. \A m \in Predecessors(workflow.at) : Completed(m)'
        BY <1>4 DEF FlowOK
      <4> QED
        BY <4>1, <4>3, <4>4 DEF Completed
    <3> QED
      BY <3>1, <3>2
  <2> QED
    BY <1>2, <1>3, <1>4, <1>5, <1>6, <2>3, <2>4 DEF FlowOK
<1> QED
  BY <1>7, <1>8

-----------------------------------------------------------------------------
(* One lemma per action *)

\* The step a request is at, and what is stored of it.
LEMMA StepTyped ==
    ASSUME StepsInv, NEW r \in Requests, handler[r].pc # "idle"
    PROVE  /\ handler[r] \in Handler /\ handler[r] # AtRest
           /\ Ordinal(r) \in Ordinals /\ Ordinal(r) \in Nat
           /\ StepOf(r) \in Row /\ StepOf(r).attempt \in Nat
           /\ EffectOf(r) \in Evidence \cup {NoEvidence}
  BY Busy, OrdinalsTyped DEF StepsInv, RowsOK, FlowOK, StepOf, EffectOf, Row

\* A row stays one when a claim passes on, and when its lease runs out.
LEMMA NewAttempt ==
    ASSUME NEW row \in Row, NEW b \in BOOLEAN
    PROVE  LET next == [row EXCEPT !.attempt = row.attempt + 1, !.live = b]
           IN  next \in Row /\ next.state = row.state /\ next.attempt \in Nat
<1>1. row.attempt + 1 \in Nat
  BY DEF Row
<1> QED
  BY <1>1 DEF Row

LEMMA NewLease ==
    ASSUME NEW row \in Row, NEW b \in BOOLEAN
    PROVE  [row EXCEPT !.live = b] \in Row /\ [row EXCEPT !.live = b].state = row.state
  BY DEF Row

LEMMA Unmoved ==
    ASSUME StepsInv, UNCHANGED <<type, step>>
    PROVE  Keeps /\ type \in Types
  BY DEF StepsInv, RowsOK, Keeps, Completed

LEMMA CallKeeps ==
    ASSUME StepsInv, NEW r \in Requests, Call(r)
    PROVE  StepsInv'
<1>1. RowsOK'
  BY DEF Call, StepsInv, RowsOK, Ordinals, Completed, Predecessors, RunningPhase
<1>2. /\ handler' = [handler EXCEPT ![r] =
                       [pc |-> "received", ordinal |-> workflow.at,
                        attempt |-> Expired(workflow.at), revision |-> 0,
                        outcome |-> Nothing]]
      /\ workflow' = [workflow EXCEPT !.waiting = {r}]
      /\ UNCHANGED <<type, step>>
      /\ workflow.state = "running"
  BY DEF Call
<1>3. Expired(workflow.at) \in Nat
  BY DEF StepsInv, RowsOK, FlowOK, Expired, Row
<1>4. workflow.at \in Nat /\ workflow.at \in Ordinals
  BY OrdinalsTyped DEF StepsInv, RowsOK, FlowOK
<1> DEFINE h == [pc |-> "received", ordinal |-> workflow.at,
                 attempt |-> Expired(workflow.at), revision |-> 0, outcome |-> Nothing]
<1>5. h \in Handler /\ h # AtRest
  BY <1>3, <1>4, SMT DEF Handler, Stages, AtRest
<1>6. /\ handler' \in [Requests -> Handler \cup {AtRest}]
      /\ handler'[r] = h
      /\ \A q \in Requests \ {r} : handler'[q] = handler[q]
  BY <1>2, <1>5 DEF StepsInv, FlowOK
<1>7. /\ workflow' \in Instance
      /\ workflow'.at = workflow.at /\ workflow'.waiting = {r}
      /\ workflow'.state = "running" /\ workflow'.tries # 0
  BY <1>2 DEF StepsInv, FlowOK, Instance
<1>8. FlowOK'
  <2>1. Ordinals' = Ordinals /\ \A m : Completed(m)' <=> Completed(m)
    BY <1>2 DEF Ordinals, Completed
  <2>2. handler'[r] # AtRest /\ Ordinal(r)' = workflow'.at
    BY <1>5, <1>6, <1>7 DEF Ordinal
  <2>3. \A q \in Requests : handler'[q] # AtRest =>
           /\ Ordinal(q)' \in Ordinals
           /\ \A m \in Predecessors(Ordinal(q)') : Completed(m)'
    BY <1>4, <1>6, <1>7, <2>1, <2>2 DEF StepsInv, FlowOK, Ordinal
  <2>4. \A q \in Requests : At(q, "recording")' => handler'[q].outcome \in Outcomes
    BY <1>6 DEF StepsInv, FlowOK, At
  <2> QED
    BY <1>4, <1>6, <1>7, <2>1, <2>2, <2>3, <2>4 DEF StepsInv, FlowOK
<1> QED
  BY <1>1, <1>8 DEF StepsInv

LEMMA GiveUpKeeps ==
    ASSUME StepsInv, NEW r \in Requests, GiveUp(r)
    PROVE  StepsInv'
<1>1. RowsOK'
  BY DEF GiveUp, StepsInv, RowsOK, Ordinals, Completed, Predecessors, RunningPhase
<1>2. /\ workflow' = Learned("failed") /\ workflow.state = "running"
      /\ UNCHANGED <<type, step, handler>> /\ type \in Types
  BY DEF GiveUp, StepsInv, RowsOK, FlowOK
<1>3. /\ workflow' \in Instance
      /\ workflow'.waiting = {}
      /\ workflow'.state = "running" => workflow'.tries # 0
      /\ workflow'.at = workflow.at
  BY <1>2, LearnedIsInOrder DEF StepsInv
<1> QED
  BY <1>1, <1>2, <1>3 DEF StepsInv, FlowOK, Ordinals, Completed, Ordinal, At

LEMMA TerminateWorkflowKeeps ==
    ASSUME StepsInv, TerminateWorkflow
    PROVE  StepsInv'
<1>1. RowsOK'
  BY DEF TerminateWorkflow, StepsInv, RowsOK, Ordinals, Completed, Predecessors
<1>2. /\ workflow' \in Instance /\ workflow'.waiting = {}
      /\ workflow'.state = "terminated" /\ workflow'.at = workflow.at
      /\ UNCHANGED <<type, step, handler>>
  BY DEF TerminateWorkflow, StepsInv, FlowOK, Instance
<1> QED
  BY <1>1, <1>2 DEF StepsInv, FlowOK, Ordinals, Completed, Ordinal, At

LEMMA CrashKeeps ==
    ASSUME StepsInv, NEW r \in Requests, Crash(r)
    PROVE  StepsInv'
<1>1. RowsOK'
  BY DEF Crash, StepsInv, RowsOK, Ordinals, Completed, Predecessors, RunningPhase
<1>2. FlowOK'
  BY Unmoved, AnswerFlows DEF Crash, StepsInv, At
<1> QED
  BY <1>1, <1>2 DEF StepsInv

LEMMA FollowRowFlows ==
    ASSUME StepsInv, NEW r \in Requests, handler[r].pc # "idle",
           FollowRow(r), UNCHANGED <<type, step>>
    PROVE  FlowOK'
<1>1. FlowOK /\ Keeps /\ type \in Types
  BY Unmoved DEF StepsInv
<1>2. StepOf(r).attempt \in Nat
  BY StepTyped
<1>3. \A status \in {"done", "failed"} :
         Answer(r, status) /\ (status = "done" => StepOf(r).state = "completed") => FlowOK'
  BY <1>1, AnswerFlows DEF StepOf
<1>4. \A pc \in {"finalizing", "completing", "observing"}, a \in Nat :
         GoTo(r, pc, a) /\ UNCHANGED workflow => FlowOK'
  BY <1>1, EnterFlows DEF GoTo, Stages
<1> QED
  BY <1>2, <1>3, <1>4 DEF FollowRow

LEMMA ReadClaimKeeps ==
    ASSUME StepsInv, NEW r \in Requests, ReadClaim(r)
    PROVE  StepsInv'
<1>1. RowsOK'
  BY DEF ReadClaim, StepsInv, RowsOK, Ordinals, Completed, Predecessors, RunningPhase
<1>2. handler[r].pc # "idle" /\ UNCHANGED <<type, step>>
  BY DEF ReadClaim, At
<1>3. FlowOK /\ Keeps /\ type \in Types
  BY <1>2, Unmoved DEF StepsInv
<1>4. facts.revision \in Nat /\ handler[r].attempt \in Nat
  BY <1>2, Busy DEF StepsInv, RowsOK, Facts, Handler
<1>5. CASE FollowRow(r)
  BY <1>1, <1>2, <1>5, FollowRowFlows DEF StepsInv
<1>6. CASE GoTo(r, "finalizing", 0) /\ UNCHANGED workflow
  BY <1>1, <1>2, <1>3, <1>6, EnterFlows DEF GoTo, Stages, StepsInv
<1>7. CASE Answer(r, "failed")
  BY <1>1, <1>2, <1>3, <1>7, AnswerFlows DEF StepsInv
<1>8. CASE Enter(r, "claiming", handler[r].attempt, facts.revision, Nothing) /\ UNCHANGED workflow
  BY <1>1, <1>2, <1>3, <1>4, <1>8, EnterFlows DEF Stages, StepsInv
<1> QED
  BY <1>5, <1>6, <1>7, <1>8 DEF ReadClaim

\* A claim makes its step the only one that runs, while no cancellation stands.
LEMMA ClaimKeeps ==
    ASSUME StepsInv, NEW r \in Requests, Claim(r)
    PROVE  StepsInv'
<1>1. handler[r].pc # "idle" /\ type' = type /\ effect' = effect /\ cancellation' = cancellation
  BY DEF Claim, At
<1>2. /\ Ordinal(r) \in Ordinals /\ Ordinal(r) \in Nat
      /\ handler[r] # AtRest /\ StepOf(r) = step[Ordinal(r)]
  BY <1>1, StepTyped DEF StepOf
<1>3. CASE /\ Claimable(r)
           /\ facts' = [phase |-> RunningPhase(Ordinal(r)), active |-> Ordinal(r),
                        revision |-> facts.revision + 1]
           /\ operation' = "running"
           /\ step' = [step EXCEPT ![Ordinal(r)] =
                         [state |-> "running", attempt |-> 1, live |-> TRUE,
                          revision |-> facts.revision + 1]]
           /\ GoTo(r, "executing", 1) /\ UNCHANGED workflow
  <2>1. facts.revision + 1 \in Nat
    BY DEF StepsInv, RowsOK, Facts
  <2> DEFINE row == [state |-> "running", attempt |-> 1, live |-> TRUE,
                     revision |-> facts.revision + 1]
  <2>2. row \in Row
    BY <2>1 DEF Row
  <2>3. /\ step' \in [Ordinals -> Row]
        /\ step'[Ordinal(r)] = row
        /\ \A n \in Ordinals \ {Ordinal(r)} : step'[n] = step[n]
    BY <1>2, <1>3, <2>2 DEF StepsInv, RowsOK
  <2>4. facts' \in Facts /\ facts'.active = Ordinal(r) /\ facts'.phase \in RunningPhases
    BY <1>2, <1>3, <2>1 DEF Facts, RunningPhase, RunningPhases
  <2>5. \A n \in Ordinals : step[n].state # "running"
    BY <1>3 DEF Claimable, StepsInv, RowsOK, RunningPhases, Policies, RunningPhase
  <2>6. ~Completed(Ordinal(r))
    BY <1>2, <1>3 DEF Claimable, NoRow, Completed
  <2>7. Keeps /\ Ordinals' = Ordinals
    BY <1>1, <2>3, <2>6 DEF Keeps, Completed, Ordinals
  <2>8. \A m \in Predecessors(Ordinal(r)) : Completed(m)
    BY <1>2 DEF StepsInv, FlowOK
  <2>9. \A n \in Ordinals : step'[n].state \in {"running", "completed"} =>
           \A m \in Predecessors(n) : Completed(m)'
    <3>1. \A n \in Ordinals : step'[n].state \in {"running", "completed"} =>
             \A m \in Predecessors(n) : Completed(m)
      BY <2>3, <2>8 DEF StepsInv, RowsOK
    <3> QED
      BY <3>1, <2>7, PredecessorsAreOrdinals DEF Keeps, Completed, StepsInv, RowsOK
  <2>10. RowsOK'
    BY <1>1, <1>3, <2>3, <2>4, <2>5, <2>7, <2>9 DEF Claimable, StepsInv, RowsOK, Status,
     RunningPhase
  <2>11. FlowOK'
    BY <1>1, <1>3, <2>7, EnterFlows DEF GoTo, Stages, StepsInv, RowsOK
  <2> QED
    BY <2>10, <2>11 DEF StepsInv
<1>4. CASE UNCHANGED <<facts, operation, step>>
  <2>1. RowsOK'
    BY <1>1, <1>4 DEF StepsInv, RowsOK, Ordinals, Completed, Predecessors, RunningPhase
  <2>2. FlowOK /\ Keeps /\ type \in Types
    BY <1>1, <1>4, Unmoved DEF StepsInv
  <2>3. \/ FollowRow(r) \/ Answer(r, "failed")
        \/ GoTo(r, "finalizing", 0) /\ UNCHANGED workflow
        \/ GoTo(r, "executing", 1) /\ UNCHANGED workflow
    BY DEF Claim
  <2>4. CASE FollowRow(r)
    BY <1>1, <1>4, <2>1, <2>4, FollowRowFlows DEF StepsInv
  <2>5. CASE Answer(r, "failed")
    BY <1>1, <2>1, <2>2, <2>5, AnswerFlows DEF StepsInv
  <2>6. CASE GoTo(r, "finalizing", 0) /\ UNCHANGED workflow
    BY <1>1, <2>1, <2>2, <2>6, EnterFlows DEF GoTo, Stages, StepsInv
  <2>7. CASE GoTo(r, "executing", 1) /\ UNCHANGED workflow
    BY <1>1, <2>1, <2>2, <2>7, EnterFlows DEF GoTo, Stages, StepsInv
  <2> QED
    BY <2>3, <2>4, <2>5, <2>6, <2>7
<1> QED
  BY <1>3, <1>4 DEF Claim

LEMMA ResolveKeeps ==
    ASSUME StepsInv, NEW r \in Requests, Resolve(r)
    PROVE  StepsInv'
<1>1. /\ handler[r].pc # "idle"
      /\ UNCHANGED <<type, operation, facts, cancellation>>
  BY DEF Resolve, At
<1>2. /\ Ordinal(r) \in Ordinals /\ handler[r] # AtRest
      /\ StepOf(r) \in Row /\ StepOf(r).attempt \in Nat
      /\ EffectOf(r) = effect[Ordinal(r)] /\ StepOf(r) = step[Ordinal(r)]
  BY <1>1, StepTyped DEF StepOf, EffectOf
<1>3. CASE step' = step
  <2>1. FlowOK /\ Keeps /\ type \in Types
    BY <1>1, <1>3, Unmoved DEF StepsInv
  <2>2. effect' \in [Ordinals -> Evidence \cup {NoEvidence}]
    <3>1. CASE effect' = effect
      BY <3>1 DEF StepsInv, RowsOK
    <3>2. CASE /\ handler[r].outcome \in Outcomes
               /\ effect' = [effect EXCEPT ![Ordinal(r)] = Attested(r, handler[r].outcome)]
      <4>1. Attested(r, handler[r].outcome) \in Evidence
        BY <1>2, <3>2 DEF Attested, Evidence
      <4> QED
        BY <3>2, <4>1 DEF StepsInv, RowsOK
    <3> QED
      BY <1>3, <3>1, <3>2 DEF Resolve
  <2>3. RowsOK'
    BY <1>1, <1>3, <2>2 DEF StepsInv, RowsOK, Ordinals, Completed, Predecessors,
     RunningPhase
  <2>4. CASE StepOf(r).state = "completed" /\ Answer(r, "done")
    BY <1>1, <1>2, <1>3, <2>1, <2>3, <2>4, AnswerFlows DEF StepsInv
  <2>5. CASE Answer(r, "failed")
    BY <1>1, <2>1, <2>3, <2>5, AnswerFlows DEF StepsInv
  <2>6. CASE GoTo(r, "finalizing", 0) /\ UNCHANGED workflow
    BY <1>1, <2>1, <2>3, <2>6, EnterFlows DEF GoTo, Stages, StepsInv
  <2>7. CASE GoTo(r, "completing", StepOf(r).attempt) /\ UNCHANGED workflow
    BY <1>1, <1>2, <2>1, <2>3, <2>7, EnterFlows DEF GoTo, Stages, StepsInv
  <2>8. CASE GoTo(r, "executing", NextAttempt(StepOf(r)).attempt) /\ UNCHANGED workflow
    <3>1. NextAttempt(StepOf(r)).attempt \in Nat
      BY <1>2 DEF NextAttempt, Row
    <3> QED
      BY <1>1, <2>1, <2>3, <2>8, <3>1, EnterFlows DEF GoTo, Stages, StepsInv
  <2> QED
    BY <1>3, <2>4, <2>5, <2>6, <2>7, <2>8 DEF Resolve
<1>4. CASE /\ StepOf(r).state = "running"
           /\ step' = [step EXCEPT ![Ordinal(r)] = NextAttempt(StepOf(r))]
           /\ GoTo(r, "executing", NextAttempt(StepOf(r)).attempt)
           /\ UNCHANGED <<workflow, effect>>
  <2>1. /\ NextAttempt(StepOf(r)) \in Row
        /\ NextAttempt(StepOf(r)).state = "running"
        /\ NextAttempt(StepOf(r)).attempt \in Nat
    BY <1>2, <1>4, NewAttempt DEF NextAttempt
  <2>2. /\ step' \in [Ordinals -> Row]
        /\ \A n \in Ordinals : step'[n].state = step[n].state
    BY <1>2, <1>4, <2>1 DEF StepsInv, RowsOK
  <2>3. Keeps /\ Ordinals' = Ordinals
    BY <1>1, <2>2 DEF Keeps, Completed, Ordinals
  <2>4. \A n \in Ordinals : step'[n].state \in {"running", "completed"} =>
           \A m \in Predecessors(n) : Completed(m)'
    BY <2>2, PredecessorsAreOrdinals DEF StepsInv, RowsOK, Completed
  <2>5. RowsOK'
    BY <1>1, <1>4, <2>2, <2>3, <2>4 DEF StepsInv, RowsOK, RunningPhase
  <2>6. FlowOK'
    BY <1>1, <1>4, <2>1, <2>3, EnterFlows DEF GoTo, Stages, StepsInv, RowsOK
  <2> QED
    BY <2>5, <2>6 DEF StepsInv
<1> QED
  BY <1>3, <1>4 DEF Resolve

LEMMA RecordEffectKeeps ==
    ASSUME StepsInv, NEW r \in Requests, RecordEffect(r)
    PROVE  StepsInv'
<1>1. /\ handler[r].pc # "idle"
      /\ UNCHANGED <<type, operation, facts, step, cancellation>>
  BY DEF RecordEffect, At
<1>2. /\ Ordinal(r) \in Ordinals /\ handler[r] # AtRest
      /\ StepOf(r).attempt \in Nat /\ handler[r].attempt \in Nat
      /\ handler[r].outcome \in Outcomes
  BY <1>1, StepTyped, Busy DEF StepsInv, FlowOK, RecordEffect, Handler
<1>3. effect' \in [Ordinals -> Evidence \cup {NoEvidence}]
  <2>1. Attested(r, handler[r].outcome) \in Evidence
    BY <1>2 DEF Attested, Evidence
  <2> QED
    BY <2>1 DEF RecordEffect, StepsInv, RowsOK
<1>4. RowsOK'
  BY <1>1, <1>3 DEF StepsInv, RowsOK, Ordinals, Completed, Predecessors, RunningPhase
<1>5. FlowOK /\ Keeps /\ type \in Types
  BY <1>1, Unmoved DEF StepsInv
<1>6. CASE GoTo(r, "completing", handler[r].attempt) /\ UNCHANGED workflow
  BY <1>1, <1>2, <1>4, <1>5, <1>6, EnterFlows DEF GoTo, Stages, StepsInv
<1>7. CASE Answer(r, "failed")
  BY <1>1, <1>4, <1>5, <1>7, AnswerFlows DEF StepsInv
<1> QED
  BY <1>6, <1>7 DEF RecordEffect

\* A completion ends the only step that runs.
LEMMA CompleteKeeps ==
    ASSUME StepsInv, NEW r \in Requests, Complete(r)
    PROVE  StepsInv'
<1>1. /\ handler[r].pc # "idle"
      /\ UNCHANGED <<type, operation, effect, cancellation>>
  BY DEF Complete, At
<1>2. /\ Ordinal(r) \in Ordinals /\ handler[r] # AtRest
      /\ StepOf(r) \in Row /\ StepOf(r) = step[Ordinal(r)]
  BY <1>1, StepTyped DEF StepOf
<1>3. CASE /\ Completable(r)
           /\ facts' = [phase |-> PhaseAfter(Ordinal(r)), active |-> 0,
                        revision |-> facts.revision + 1]
           /\ step' = [step EXCEPT ![Ordinal(r)].state = "completed",
                                   ![Ordinal(r)].live = FALSE]
           /\ Answer(r, "done")
  <2>1. StepOf(r).state = "running" /\ facts.active = Ordinal(r)
    BY <1>2, <1>3 DEF Completable, HoldsLease, StepsInv, RowsOK
  <2>2. /\ step' \in [Ordinals -> Row]
        /\ step'[Ordinal(r)].state = "completed"
        /\ \A n \in Ordinals \ {Ordinal(r)} : step'[n] = step[n]
    BY <1>2, <1>3 DEF StepsInv, RowsOK, Row
  <2>3. facts' \in Facts
    <3>1. facts.revision + 1 \in Nat /\ OwnPhase \in Policies
      BY StepsAssumption DEF StepsInv, RowsOK, Facts, OwnPhase, StepsAssumption
    <3> QED
      BY <1>3, <3>1 DEF Facts, PhaseAfter
  <2>4. \A n \in Ordinals : step'[n].state # "running"
    BY <1>2, <2>1, <2>2 DEF StepsInv, RowsOK
  <2>5. Keeps /\ Ordinals' = Ordinals
    BY <1>1, <2>2 DEF Keeps, Completed, Ordinals
  <2>6. \A n \in Ordinals : step'[n].state \in {"running", "completed"} =>
           \A m \in Predecessors(n) : Completed(m)'
    <3>1. \A n \in Ordinals : step'[n].state \in {"running", "completed"} =>
             \A m \in Predecessors(n) : Completed(m)
      BY <1>2, <2>1, <2>2 DEF StepsInv, RowsOK
    <3> QED
      BY <3>1, <2>5, PredecessorsAreOrdinals DEF Keeps, Completed, StepsInv, RowsOK
  <2>7. RowsOK'
    BY <1>1, <2>2, <2>3, <2>4, <2>5, <2>6 DEF StepsInv, RowsOK
  <2>8. FlowOK'
    BY <1>1, <1>3, <2>2, <2>5, AnswerFlows DEF StepsInv, RowsOK
  <2> QED
    BY <2>7, <2>8 DEF StepsInv
<1>4. CASE UNCHANGED <<facts, step>>
  <2>1. RowsOK'
    BY <1>1, <1>4 DEF StepsInv, RowsOK, Ordinals, Completed, Predecessors, RunningPhase
  <2>2. FlowOK /\ Keeps /\ type \in Types
    BY <1>1, <1>4, Unmoved DEF StepsInv
  <2>3. CASE StepOf(r).state = "completed" /\ Answer(r, "done")
    BY <1>1, <1>2, <1>4, <2>1, <2>2, <2>3, AnswerFlows DEF StepsInv
  <2>4. CASE Answer(r, "failed")
    BY <1>1, <2>1, <2>2, <2>4, AnswerFlows DEF StepsInv
  <2>5. CASE Completable(r) /\ step' = [step EXCEPT ![Ordinal(r)].state = "completed",
                                                   ![Ordinal(r)].live = FALSE]
    <3>1. step'[Ordinal(r)].state = "completed" /\ StepOf(r).state = "running"
      BY <1>2, <2>5 DEF Completable, HoldsLease, StepsInv, RowsOK, Row
    <3> QED
      BY <1>2, <1>4, <3>1
  <2> QED
    BY <2>3, <2>4, <2>5 DEF Complete
<1> QED
  BY <1>3, <1>4 DEF Complete

\* A cancellation is accepted between two steps only: nothing runs then.
LEMMA RequestCancellationKeeps ==
    ASSUME StepsInv, RequestCancellation
    PROVE  StepsInv'
<1>1. UNCHANGED <<type, facts, step, effect, workflow, handler>>
  BY DEF RequestCancellation
<1>2. facts.phase \in Policies
  BY StepsAssumption
     DEF RequestCancellation, Cancellable, OwnPhase, StepsAssumption, StepsInv, RowsOK
<1>3. \A n \in Ordinals : step[n].state # "running"
  BY <1>2 DEF StepsInv, RowsOK, Policies, RunningPhases, RunningPhase
<1>4. RowsOK'
  BY <1>1, <1>3 DEF RequestCancellation, StepsInv, RowsOK, Status, Ordinals, Completed
<1>5. FlowOK'
  BY <1>1 DEF StepsInv, FlowOK, Ordinals, Completed, Ordinal, At
<1> QED
  BY <1>4, <1>5 DEF StepsInv

LEMMA FinalizeCancellationKeeps ==
    ASSUME StepsInv, NEW r \in Requests, FinalizeCancellation(r)
    PROVE  StepsInv'
<1>1. /\ handler[r].pc # "idle" /\ UNCHANGED <<type, effect>>
      /\ Answer(r, "cancelled") \/ Answer(r, "failed")
  BY DEF FinalizeCancellation, At
<1>2. CASE UNCHANGED <<operation, cancellation, facts, step>>
  <2>1. RowsOK'
    BY <1>1, <1>2 DEF StepsInv, RowsOK, Ordinals, Completed, Predecessors, RunningPhase
  <2>2. FlowOK /\ Keeps /\ type \in Types
    BY <1>1, <1>2, Unmoved DEF StepsInv
  <2> QED
    BY <1>1, <2>1, <2>2, AnswerFlows DEF StepsInv
<1>3. CASE /\ cancellation = "requested"
           /\ operation' = "cancelled"
           /\ cancellation' = "cancelled"
           /\ facts' = IF \E n \in Ordinals : step[n].state = "running" THEN facts
                       ELSE [phase |-> "terminal", active |-> 0,
                             revision |-> facts.revision + 1]
           /\ step' = [n \in Ordinals |->
                         IF step[n].state # "running" THEN step[n]
                         ELSE [step[n] EXCEPT !.state = "cancelled", !.live = FALSE]]
  <2>1. \A n \in Ordinals : step[n].state # "running"
    BY <1>3 DEF StepsInv, RowsOK
  <2>2. \A n \in Ordinals : step'[n] = step[n]
    BY <1>3, <2>1
  <2>3. step' \in [Ordinals -> Row]
    BY <1>3, <2>1 DEF StepsInv, RowsOK
  <2>4. facts' \in Facts
    <3>1. facts' = [phase |-> "terminal", active |-> 0, revision |-> facts.revision + 1]
      BY <1>3, <2>1
    <3>2. facts.revision + 1 \in Nat
      BY DEF StepsInv, RowsOK, Facts
    <3> QED
      BY <3>1, <3>2 DEF Facts
  <2>5. Keeps /\ Ordinals' = Ordinals
    BY <1>1, <2>2 DEF Keeps, Completed, Ordinals
  <2>6. \A n \in Ordinals : step'[n].state \in {"running", "completed"} =>
           \A m \in Predecessors(n) : Completed(m)'
    BY <2>2, PredecessorsAreOrdinals DEF StepsInv, RowsOK, Completed
  <2>7. RowsOK'
    BY <1>1, <1>3, <2>1, <2>2, <2>3, <2>4, <2>5, <2>6 DEF StepsInv, RowsOK, Status
  <2> QED
    BY <1>1, <2>5, <2>7, AnswerFlows DEF StepsInv, RowsOK
<1> QED
  BY <1>2, <1>3 DEF FinalizeCancellation

LEMMA EffectKeeps ==
    ASSUME StepsInv, NEW r \in Requests, Effect(r)
    PROVE  StepsInv'
<1>1. RowsOK'
  BY DEF Effect, Progress, StepsInv, RowsOK, Status, Ordinals, Completed, Predecessors,
     RunningPhase
<1>2. UNCHANGED <<type, step>> /\ FlowOK /\ Keeps /\ type \in Types
  <2>1. UNCHANGED <<type, step>>
    BY DEF Effect, Progress
  <2> QED
    BY <2>1, Unmoved DEF StepsInv
<1>3. CASE handler[r].pc # "idle" /\ Answer(r, "failed")
  BY <1>1, <1>2, <1>3, AnswerFlows DEF StepsInv
<1>4. CASE UNCHANGED <<handler, workflow>>
  BY <1>1, <1>2, <1>4 DEF StepsInv, FlowOK, Ordinals, Completed, Ordinal, At
<1>5. ASSUME At(r, "executing"), NEW outcome \in Outcomes, EffectReturns(r, outcome),
             UNCHANGED workflow
      PROVE  StepsInv'
  <2>1. handler[r].pc # "idle" /\ handler[r].attempt \in Nat
    BY <1>5, Busy DEF At, StepsInv, Handler
  <2> QED
    BY <1>1, <1>2, <1>5, <2>1, EnterFlows DEF EffectReturns, Findings, Stages, StepsInv
<1>6. ASSUME At(r, "observing"), NEW finding \in Findings, ObserverReturns(r, finding),
             UNCHANGED workflow
      PROVE  StepsInv'
  <2>1. handler[r].pc # "idle" /\ handler[r].attempt \in Nat
    BY <1>6, Busy DEF At, StepsInv, Handler
  <2> QED
    BY <1>1, <1>2, <1>6, <2>1, EnterFlows DEF ObserverReturns, Stages, StepsInv
<1> QED
  BY <1>3, <1>4, <1>5, <1>6 DEF Effect, At

LEMMA LeaseLapsesKeeps ==
    ASSUME StepsInv, NEW n \in Ordinals, LeaseLapses(n)
    PROVE  StepsInv'
<1>1. UNCHANGED <<type, operation, facts, effect, cancellation, workflow, handler>>
  BY DEF LeaseLapses
<1>2. /\ step' \in [Ordinals -> Row]
      /\ \A k \in Ordinals : step'[k].state = step[k].state
  <2>1. step[n] \in Row /\ step' = [step EXCEPT ![n] = [step[n] EXCEPT !.live = FALSE]]
    BY DEF LeaseLapses, StepsInv, RowsOK
  <2>2. /\ [step[n] EXCEPT !.live = FALSE] \in Row
        /\ [step[n] EXCEPT !.live = FALSE].state = step[n].state
    BY <2>1, NewLease
  <2> QED
    BY <2>1, <2>2 DEF StepsInv, RowsOK
<1>3. Ordinals' = Ordinals
  BY <1>1 DEF Ordinals
<1>4. \A k \in Ordinals : Completed(k)' <=> Completed(k)
  BY <1>2 DEF Completed
<1>5. RowsOK'
  BY <1>1, <1>2, <1>3, <1>4, PredecessorsAreOrdinals DEF StepsInv, RowsOK, RunningPhase
<1>6. FlowOK'
  BY <1>1, <1>3, <1>4, PredecessorsAreOrdinals DEF StepsInv, RowsOK, FlowOK, Ordinal, At
<1> QED
  BY <1>5, <1>6 DEF StepsInv

-----------------------------------------------------------------------------
(* The invariant *)

LEMMA StepsInitEstablishes == StepsInit => StepsInv
<1> SUFFICES ASSUME StepsInit PROVE StepsInv
  OBVIOUS
<1>1. /\ type \in Types /\ Last[type] \in Nat \ {0} /\ 1 \in Ordinals
      /\ OwnPhase \in Policies /\ Tries \in Nat \ {0}
  BY OrdinalsTyped, StepsAssumption DEF StepsInit, OwnPhase, StepsAssumption
<1>2. NoRow \in Row
  BY DEF NoRow, Row
<1>3. facts \in Facts /\ operation \in Status
  BY <1>1 DEF StepsInit, Facts, Status
<1>4. RowsOK
  BY <1>1, <1>2, <1>3 DEF StepsInit, RowsOK, NoRow
<1>5. workflow \in Instance
  BY <1>1 DEF StepsInit, Instance
<1>6. Predecessors(1) = {}
  BY SMT DEF Predecessors
<1>7. FlowOK
  BY <1>1, <1>5, <1>6 DEF StepsInit, FlowOK, At, AtRest
<1> QED
  BY <1>4, <1>7 DEF StepsInv

LEMMA StepsNextPreserves == StepsInv /\ [StepsNext]_stepVars => StepsInv'
<1> SUFFICES ASSUME StepsInv, [StepsNext]_stepVars PROVE StepsInv'
  OBVIOUS
<1>1. ASSUME NEW r \in Requests, Call(r) \/ GiveUp(r) \/ Crash(r) \/ Effect(r)
      PROVE  StepsInv'
  BY <1>1, CallKeeps, GiveUpKeeps, CrashKeeps, EffectKeeps
<1>2. ASSUME NEW r \in Requests, FenceStep(r) PROVE StepsInv'
  BY <1>2, ReadClaimKeeps, ClaimKeeps, ResolveKeeps, RecordEffectKeeps, CompleteKeeps,
     FinalizeCancellationKeeps DEF FenceStep
<1>3. ASSUME NEW n \in Ordinals, LeaseLapses(n) PROVE StepsInv'
  BY <1>3, LeaseLapsesKeeps
<1>4. CASE RequestCancellation \/ TerminateWorkflow
  BY <1>4, RequestCancellationKeeps, TerminateWorkflowKeeps
<1>5. CASE UNCHANGED stepVars
  BY <1>5 DEF stepVars, StepsInv, RowsOK, FlowOK, Ordinals, Completed, Predecessors,
              Ordinal, At, RunningPhase
<1> QED
  BY <1>1, <1>2, <1>3, <1>4, <1>5 DEF StepsNext

\* Step rows, effect receipts, cancellation facts and the requests in flight agree
\* in every reachable state, whatever the effects of the steps are.
THEOREM StepsInvHolds == StepsSpec => []StepsInv
<1>1. StepsInit => StepsInv
  BY StepsInitEstablishes
<1>2. StepsInv /\ [StepsNext]_stepVars => StepsInv'
  BY StepsNextPreserves
<1> QED
  BY <1>1, <1>2, PTL DEF StepsSpec

-----------------------------------------------------------------------------
(* The refinement *)

\* What the ledger does not see.
LEMMA Stutters ==
    ASSUME type' = type,
           \A n \in Ordinals : effect'[n].outcome = effect[n].outcome,
           \A n \in Ordinals : Completed(n)' <=> Completed(n),
           (cancellation' # "none") <=> (cancellation # "none")
    PROVE  UNCHANGED StepRecord!ledgerVars
<1>1. Ordinals' = Ordinals
  BY DEF Ordinals
<1>2. [n \in Ordinals |-> effect[n].outcome]' = [n \in Ordinals |-> effect[n].outcome]
  BY <1>1
<1>3. {n \in Ordinals : step[n].state = "completed"}' = {n \in Ordinals : step[n].state = "completed"}
  BY <1>1 DEF Completed
<1>4. (cancellation # "none")' = (cancellation # "none")
  OBVIOUS
<1> QED
  BY <1>2, <1>3, <1>4 DEF StepRecord!ledgerVars

\* Evidence that is stored for a step that runs is an attestation.
LEMMA EvidenceAttests ==
    ASSUME StepsInv, NEW n \in Ordinals, NEW o \in Outcomes, NEW a \in Nat,
           step[n].state = "running", effect[n] = NoEvidence,
           effect' = [effect EXCEPT ![n] = [attempt |-> a, outcome |-> o]],
           UNCHANGED <<type, step, cancellation>>
    PROVE  StepRecord!LedgerNext
<1> DEFINE out == [k \in Ordinals |-> effect[k].outcome]
           fin == {k \in Ordinals : step[k].state = "completed"}
           stands == cancellation # "none"
<1>1. /\ Ordinals' = Ordinals /\ fin' = fin /\ stands' = stands /\ ~stands
      /\ DOMAIN out = Ordinals
  BY DEF Ordinals, StepsInv, RowsOK
<1>2. out' = [out EXCEPT ![n] = o] /\ out[n] = Nothing
  <2>1. /\ effect'[n].outcome = o
        /\ \A k \in Ordinals \ {n} : effect'[k] = effect[k]
    BY DEF StepsInv, RowsOK
  <2>2. out' = [k \in Ordinals |-> effect'[k].outcome]
    BY <1>1
  <2>3. out' = [k \in Ordinals |-> IF k = n THEN o ELSE effect[k].outcome]
    BY <2>1, <2>2
  <2>4. [out EXCEPT ![n] = o] = [k \in Ordinals |-> IF k = n THEN o ELSE effect[k].outcome]
    OBVIOUS
  <2>5. out[n] = Nothing
    BY DEF NoEvidence
  <2> HIDE DEF out
  <2> QED
    BY <2>3, <2>4, <2>5
<1>3. {m \in Ordinals : m < n} \subseteq fin
  <2>1. \A m \in Ordinals : m < n => m \in Predecessors(n)
    BY OrdinalsTyped, SMT DEF StepsInv, RowsOK, Predecessors
  <2> QED
    BY <2>1 DEF StepsInv, RowsOK, Completed
<1>4. StepRecord!Attest(n)
  BY <1>1, <1>2, <1>3
     DEF StepRecord!Attest, StepRecord!Before, StepRecord!Ordinals
<1> QED
  BY <1>1, <1>4 DEF StepRecord!LedgerNext, StepRecord!Ordinals

LEMMA CompletionFinishes ==
    ASSUME StepsInv, NEW r \in Requests, At(r, "completing"), Completable(r),
           step' = [step EXCEPT ![Ordinal(r)].state = "completed",
                                ![Ordinal(r)].live = FALSE],
           UNCHANGED <<type, effect, cancellation>>
    PROVE  StepRecord!LedgerNext
<1> PICK n \in Ordinals : n = Ordinal(r)
  BY StepTyped DEF At
<1> DEFINE out == [k \in Ordinals |-> effect[k].outcome]
           fin == {k \in Ordinals : step[k].state = "completed"}
           stands == cancellation # "none"
<1>1. /\ n \in Ordinals /\ StepOf(r) = step[n] /\ EffectOf(r) = effect[n]
      /\ step[n] \in Row /\ effect[n] \in Evidence
      /\ step[n].state = "running"
  BY StepTyped DEF At, StepOf, EffectOf, Completable, HoldsLease
<1>2. /\ Ordinals' = Ordinals /\ out' = out /\ stands' = stands /\ ~stands
      /\ DOMAIN out = Ordinals
  BY <1>1 DEF Ordinals, StepsInv, RowsOK
<1>3. /\ step'[n].state = "completed"
      /\ \A k \in Ordinals \ {n} : step'[k] = step[k]
  BY <1>1 DEF StepsInv, RowsOK, Row
<1>4. fin' = fin \cup {n} /\ n \notin fin
  BY <1>1, <1>2, <1>3
<1>5. out[n] # Nothing
  BY <1>1, StepsAssumption DEF StepsAssumption, Evidence
<1>6. {m \in Ordinals : m < n} \subseteq fin
  <2>1. \A m \in Ordinals : m < n => m \in Predecessors(n)
    BY <1>1, OrdinalsTyped, SMT DEF StepsInv, RowsOK, Predecessors
  <2> QED
    BY <1>1, <2>1 DEF StepsInv, RowsOK, Completed
<1>7. StepRecord!Finish(n)
  BY <1>2, <1>4, <1>5, <1>6
     DEF StepRecord!Finish, StepRecord!Before, StepRecord!Ordinals
<1> QED
  BY <1>1, <1>2, <1>7 DEF StepRecord!LedgerNext, StepRecord!Ordinals

LEMMA CancellationHalts ==
    ASSUME StepsInv, RequestCancellation
    PROVE  StepRecord!LedgerNext
<1> DEFINE out == [k \in Ordinals |-> effect[k].outcome]
           fin == {k \in Ordinals : step[k].state = "completed"}
           stands == cancellation # "none"
<1>1. out' = out /\ fin' = fin /\ ~stands /\ stands'
  BY DEF RequestCancellation, Cancellable, Ordinals
<1>2. StepRecord!Halt
  BY <1>1 DEF StepRecord!Halt
<1> QED
  BY <1>2 DEF StepRecord!LedgerNext

\* A request that leaves steps, evidence and the cancellation as they are.
LEMMA QuietStutters ==
    ASSUME UNCHANGED <<type, step, effect, cancellation>>
    PROVE  UNCHANGED StepRecord!ledgerVars
  BY Stutters DEF Completed

LEMMA FenceStepImplements ==
    ASSUME StepsInv, NEW r \in Requests, FenceStep(r)
    PROVE  StepRecord!LedgerNext \/ UNCHANGED StepRecord!ledgerVars
<1>1. CASE ReadClaim(r)
  BY <1>1, QuietStutters DEF ReadClaim
<1>2. CASE Claim(r)
  <2>1. handler[r].pc # "idle" /\ UNCHANGED <<type, effect, cancellation>>
    BY <1>2 DEF Claim, At
  <2>2. CASE UNCHANGED step
    BY <2>1, <2>2, QuietStutters
  <2>3. CASE /\ Claimable(r)
             /\ step' = [step EXCEPT ![Ordinal(r)] =
                           [state |-> "running", attempt |-> 1, live |-> TRUE,
                            revision |-> facts.revision + 1]]
    <3>1. Ordinal(r) \in Ordinals /\ step[Ordinal(r)].state = "absent"
      BY <2>1, <2>3, StepTyped DEF Claimable, StepOf, NoRow
    <3>2. \A n \in Ordinals : Completed(n)' <=> Completed(n)
      BY <2>3, <3>1 DEF StepsInv, RowsOK, Completed
    <3> QED
      BY <2>1, <3>2, Stutters
  <2> QED
    BY <1>2, <2>2, <2>3 DEF Claim
<1>3. CASE Resolve(r)
  <2>1. handler[r].pc # "idle" /\ UNCHANGED <<type, cancellation>>
    BY <1>3 DEF Resolve, At
  <2>2. /\ Ordinal(r) \in Ordinals /\ StepOf(r) = step[Ordinal(r)]
        /\ EffectOf(r) = effect[Ordinal(r)] /\ StepOf(r).attempt \in Nat
        /\ StepOf(r) \in Row
    BY <2>1, StepTyped DEF StepOf, EffectOf
  <2>3. CASE UNCHANGED <<step, effect>>
    BY <2>1, <2>3, QuietStutters
  <2>4. CASE /\ StepOf(r).state = "running"
             /\ EffectOf(r) = NoEvidence
             /\ handler[r].outcome \in Outcomes
             /\ effect' = [effect EXCEPT ![Ordinal(r)] = Attested(r, handler[r].outcome)]
             /\ UNCHANGED step
    BY <2>1, <2>2, <2>4, EvidenceAttests DEF Attested
  <2>5. CASE /\ step' = [step EXCEPT ![Ordinal(r)] = NextAttempt(StepOf(r))]
             /\ UNCHANGED effect
    <3>1. NextAttempt(StepOf(r)).state = StepOf(r).state
      BY <2>2, NewAttempt DEF NextAttempt
    <3>2. \A n \in Ordinals : Completed(n)' <=> Completed(n)
      BY <2>2, <2>5, <3>1 DEF StepsInv, RowsOK, Completed
    <3> QED
      BY <2>1, <2>5, <3>2, Stutters
  <2> QED
    BY <1>3, <2>3, <2>4, <2>5 DEF Resolve
<1>4. CASE RecordEffect(r)
  <2>1. handler[r].pc # "idle" /\ UNCHANGED <<type, step, cancellation>>
    BY <1>4 DEF RecordEffect, At
  <2>2. /\ Ordinal(r) \in Ordinals /\ StepOf(r) = step[Ordinal(r)]
        /\ EffectOf(r) = effect[Ordinal(r)] /\ StepOf(r).attempt \in Nat
        /\ handler[r].outcome \in Outcomes
    BY <1>4, <2>1, StepTyped DEF RecordEffect, StepsInv, FlowOK, StepOf, EffectOf
  <2>3. CASE UNCHANGED effect
    BY <2>1, <2>3, QuietStutters
  <2>4. CASE /\ HoldsLease(r)
             /\ EffectOf(r) \in {NoEvidence, Attested(r, handler[r].outcome)}
             /\ effect' = [effect EXCEPT ![Ordinal(r)] = Attested(r, handler[r].outcome)]
    <3>1. CASE EffectOf(r) = NoEvidence
      BY <2>1, <2>2, <2>4, <3>1, EvidenceAttests DEF Attested, HoldsLease
    <3>2. CASE EffectOf(r) = Attested(r, handler[r].outcome)
      <4>1. effect' = effect
        BY <2>2, <2>4, <3>2 DEF StepsInv, RowsOK
      <4> QED
        BY <2>1, <4>1, QuietStutters
    <3> QED
      BY <2>4, <3>1, <3>2
  <2> QED
    BY <1>4, <2>3, <2>4 DEF RecordEffect
<1>5. CASE Complete(r)
  <2>1. At(r, "completing") /\ UNCHANGED <<type, effect, cancellation>>
    BY <1>5 DEF Complete
  <2>2. CASE UNCHANGED step
    BY <2>1, <2>2, QuietStutters
  <2>3. CASE /\ Completable(r)
             /\ step' = [step EXCEPT ![Ordinal(r)].state = "completed",
                                     ![Ordinal(r)].live = FALSE]
    BY <2>1, <2>3, CompletionFinishes
  <2> QED
    BY <1>5, <2>2, <2>3 DEF Complete
<1>6. CASE FinalizeCancellation(r)
  <2>1. UNCHANGED <<type, effect>>
    BY <1>6 DEF FinalizeCancellation
  <2>2. CASE UNCHANGED <<cancellation, step>>
    BY <2>1, <2>2, QuietStutters
  <2>3. CASE /\ cancellation = "requested"
             /\ cancellation' = "cancelled"
             /\ step' = [n \in Ordinals |->
                           IF step[n].state # "running" THEN step[n]
                           ELSE [step[n] EXCEPT !.state = "cancelled", !.live = FALSE]]
    <3>1. \A n \in Ordinals : step'[n] = step[n]
      BY <2>3 DEF StepsInv, RowsOK
    <3> QED
      BY <2>1, <2>3, <3>1, Stutters DEF Completed
  <2> QED
    BY <1>6, <2>2, <2>3 DEF FinalizeCancellation
<1> QED
  BY <1>1, <1>2, <1>3, <1>4, <1>5, <1>6 DEF FenceStep

LEMMA StepsImplementLedger ==
    StepsInv /\ [StepsNext]_stepVars =>
        StepRecord!LedgerNext \/ UNCHANGED StepRecord!ledgerVars
<1> SUFFICES ASSUME StepsInv, [StepsNext]_stepVars
             PROVE  StepRecord!LedgerNext \/ UNCHANGED StepRecord!ledgerVars
  OBVIOUS
<1>1. ASSUME NEW r \in Requests, Call(r) \/ GiveUp(r) \/ Crash(r) \/ Effect(r)
      PROVE  UNCHANGED StepRecord!ledgerVars
  BY <1>1, QuietStutters DEF Call, GiveUp, Crash, Effect, Progress
<1>2. ASSUME NEW n \in Ordinals, LeaseLapses(n)
      PROVE  UNCHANGED StepRecord!ledgerVars
  <2>1. UNCHANGED <<type, effect, cancellation>>
    BY <1>2 DEF LeaseLapses
  <2>2. \A k \in Ordinals : Completed(k)' <=> Completed(k)
    <3>1. step[n] \in Row /\ step' = [step EXCEPT ![n] = [step[n] EXCEPT !.live = FALSE]]
      BY <1>2 DEF LeaseLapses, StepsInv, RowsOK
    <3>2. [step[n] EXCEPT !.live = FALSE].state = step[n].state
      BY <3>1, NewLease
    <3> QED
      BY <3>1, <3>2 DEF StepsInv, RowsOK, Completed
  <2> QED
    BY <2>1, <2>2, Stutters
<1>3. CASE TerminateWorkflow
  BY <1>3, QuietStutters DEF TerminateWorkflow
<1>4. CASE UNCHANGED stepVars
  BY <1>4, QuietStutters DEF stepVars
<1> QED
  BY <1>1, <1>2, <1>3, <1>4, FenceStepImplements, CancellationHalts DEF StepsNext

LEMMA StepsStartLedger == StepsInit => StepRecord!LedgerInit
<1> SUFFICES ASSUME StepsInit PROVE StepRecord!LedgerInit
  OBVIOUS
<1>1. [n \in Ordinals |-> effect[n].outcome] = [n \in 1..Last[type] |-> Nothing]
  BY DEF StepsInit, Ordinals, NoEvidence
<1>2. Last[type] \in {Last[t] : t \in Types}
  BY DEF StepsInit
<1>3. {n \in Ordinals : step[n].state = "completed"} = {}
  BY DEF StepsInit, NoRow
<1>4. (cancellation # "none") = FALSE
  BY DEF StepsInit
<1> QED
  BY <1>1, <1>2, <1>3, <1>4 DEF StepRecord!LedgerInit

\* The signed steps implement the ledger: whichever requests run on after their
\* lease or the workflow has ended, crash, or read what is no longer so, steps
\* are attested and completed in order, each once, and none is attested under a
\* cancellation (the claim, receipt and completion guards of migration 0019).
THEOREM StepsRefineLedger == StepsSpec => ImplementsStepLedger
<1>1. StepsInit => StepRecord!LedgerInit
  BY StepsStartLedger
<1>2. StepsInv /\ [StepsNext]_stepVars => [StepRecord!LedgerNext]_StepRecord!ledgerVars
  BY StepsImplementLedger
<1> QED
  BY <1>1, <1>2, StepsInvHolds, PTL DEF StepsSpec, ImplementsStepLedger, StepRecord!LedgerSpec

\* At most one step of the workflow runs, and no cancellation stands while it
\* does: the facts a claim and a cancellation compete for admit one of them.
AtMostOneRuns ==
    \A n \in Ordinals : step[n].state = "running" =>
        /\ cancellation = "none"
        /\ \A m \in Ordinals : step[m].state = "running" => m = n

THEOREM OneStepRuns == StepsSpec => []AtMostOneRuns
<1>1. StepsInv => AtMostOneRuns
  BY DEF StepsInv, RowsOK, AtMostOneRuns
<1> QED
  BY <1>1, StepsInvHolds, PTL

\* The stored rows, the facts, the workflow instance and the requests keep
\* their types.
THEOREM StepsTypeCorrect == StepsSpec => []StepsTypeOK
<1>1. StepsInv => StepsTypeOK
  BY DEF StepsInv, RowsOK, FlowOK, StepsTypeOK
<1> QED
  BY <1>1, StepsInvHolds, PTL

-----------------------------------------------------------------------------
(* How a workflow ends *)

\* A workflow that is complete went through all its steps, or was cancelled:
\* whatever request answered it, and however late.
CompleteMeansDone ==
    workflow.state = "complete" =>
        (\A n \in Ordinals : Completed(n)) \/ cancellation = "cancelled"

\* The part of it that a step can disturb.
EndIsReached ==
    workflow.state = "complete" => Completed(Last[type]) \/ cancellation = "cancelled"

\* An answer completes the workflow only if it is the one of the last step.
LEMMA AnswerCompletes ==
    ASSUME StepsInv, NEW r \in Requests, NEW status \in {"done", "cancelled", "failed"},
           Answer(r, status), workflow.state # "complete", workflow'.state = "complete"
    PROVE  status = "cancelled" \/ (status = "done" /\ Ordinal(r) = Last[type])
<1>1. r \in workflow.waiting /\ workflow' = Learned(status)
  BY DEF Answer
<1>2. /\ workflow \in Instance /\ workflow.state = "running"
      /\ workflow.at \in Ordinals /\ Ordinal(r) = workflow.at
  BY <1>1 DEF StepsInv, FlowOK
<1>3. workflow.at \in Nat /\ Last[type] \in Nat /\ workflow.at <= Last[type]
  BY <1>2, OrdinalsTyped DEF StepsInv, RowsOK, Ordinals
<1>4. CASE status = "done"
  <2>1. workflow.at >= Last[type]
    BY <1>1, <1>2, <1>3, <1>4 DEF Learned, Instance
  <2>. QED BY <1>2, <1>3, <1>4, <2>1
<1>5. CASE status = "failed"
  BY <1>1, <1>2, <1>5 DEF Learned, Instance
<1>. QED BY <1>4, <1>5

\* Nobody tells the workflow of a step that is not completed, or of a
\* cancellation that is not final.
LEMMA WorkflowCompletes ==
    ASSUME StepsInv, [StepsNext]_stepVars,
           workflow.state # "complete", workflow'.state = "complete"
    PROVE  step'[Last[type]].state = "completed" \/ cancellation' = "cancelled"
<1>. DEFINE Goal == step'[Last[type]].state = "completed" \/ cancellation' = "cancelled"
<1>1. ASSUME NEW r \in Requests, NEW status \in {"done", "cancelled", "failed"},
             Answer(r, status),
             status = "done" => step'[Ordinal(r)].state = "completed",
             status = "cancelled" => cancellation' = "cancelled"
      PROVE  Goal
  BY <1>1, AnswerCompletes
<1>2. ASSUME NEW r \in Requests, FollowRow(r), UNCHANGED step PROVE Goal
  BY <1>1, <1>2 DEF FollowRow, StepOf
<1>3. ASSUME NEW r \in Requests, FenceStep(r) PROVE Goal
  <2>1. CASE ReadClaim(r)
    BY <1>1, <1>2, <2>1 DEF ReadClaim
  <2>2. CASE Claim(r)
    BY <1>1, <1>2, <2>2 DEF Claim
  <2>3. CASE Resolve(r)
    BY <1>1, <2>3 DEF Resolve, StepOf
  <2>4. CASE RecordEffect(r)
    BY <1>1, <2>4 DEF RecordEffect
  <2>5. CASE Complete(r)
    <3>1. CASE Completable(r) /\ Answer(r, "done")
                /\ step' = [step EXCEPT ![Ordinal(r)].state = "completed",
                                        ![Ordinal(r)].live = FALSE]
      <4>1. Ordinal(r) \in Ordinals /\ step[Ordinal(r)] \in Row
        BY <2>5, StepTyped DEF Complete, At, StepOf
      <4>2. step'[Ordinal(r)].state = "completed"
        BY <3>1, <4>1 DEF StepsInv, RowsOK, Row
      <4>. QED BY <1>1, <3>1, <4>2
    <3>2. CASE UNCHANGED step /\ StepOf(r).state = "completed" /\ Answer(r, "done")
      BY <1>1, <3>2 DEF StepOf
    <3>3. CASE Answer(r, "failed")
      BY <1>1, <3>3
    <3>. QED BY <2>5, <3>1, <3>2, <3>3 DEF Complete
  <2>6. CASE FinalizeCancellation(r)
    BY <1>1, <2>6 DEF FinalizeCancellation
  <2>. QED BY <1>3, <2>1, <2>2, <2>3, <2>4, <2>5, <2>6 DEF FenceStep
<1>4. ASSUME NEW r \in Requests, Crash(r) \/ Effect(r) PROVE Goal
  BY <1>1, <1>4 DEF Crash, Effect
<1>5. ASSUME NEW r \in Requests, Call(r) \/ GiveUp(r) PROVE FALSE
  <2>1. workflow \in Instance
    BY DEF StepsInv, FlowOK
  <2>. QED BY <1>5, <2>1 DEF Call, GiveUp, Learned, Instance
<1>6. ~TerminateWorkflow
  <2>1. workflow \in Instance
    BY DEF StepsInv, FlowOK
  <2>. QED BY <2>1 DEF TerminateWorkflow, Instance
<1>. QED BY <1>3, <1>4, <1>5, <1>6
         DEF StepsNext, LeaseLapses, RequestCancellation, stepVars

\* What is completed stays so, and a cancellation that is final too.
LEMMA EndsStay ==
    ASSUME StepsInv, [StepsNext]_stepVars
    PROVE  /\ type' = type
           /\ \A n \in Ordinals : Completed(n) => step'[n].state = "completed"
           /\ cancellation = "cancelled" => cancellation' = "cancelled"
<1>1. type' = type /\ (cancellation = "cancelled" => cancellation' = "cancelled")
  BY DEF StepsNext, Call, GiveUp, Crash, FenceStep, Effect, Progress, LeaseLapses,
         RequestCancellation, Cancellable, TerminateWorkflow, ReadClaim, Claim, Resolve,
         RecordEffect, Complete, FinalizeCancellation, stepVars
<1>. DEFINE fin == {n \in Ordinals : step[n].state = "completed"}
<1>2. fin \subseteq fin'
  BY StepsImplementLedger
     DEF StepRecord!LedgerNext, StepRecord!Attest, StepRecord!Finish, StepRecord!Halt,
         StepRecord!ledgerVars
<1>3. \A n \in Ordinals : n \in fin => n \in fin'
  BY <1>2
<1>. QED BY <1>1, <1>3 DEF Completed

\* The workflow calls itself complete only after its last step, or a cancellation.
THEOREM CompleteWorkflowsAreDone == StepsSpec => []CompleteMeansDone
<1>1. StepsInit => EndIsReached
  BY DEF StepsInit, EndIsReached
<1>2. StepsInv /\ EndIsReached /\ [StepsNext]_stepVars => EndIsReached'
  <2>. SUFFICES ASSUME StepsInv, EndIsReached, [StepsNext]_stepVars,
                       workflow'.state = "complete"
                PROVE  step'[Last[type]].state = "completed" \/ cancellation' = "cancelled"
    BY EndsStay DEF EndIsReached, Completed
  <2>1. Last[type] \in Ordinals
    BY OrdinalsTyped DEF StepsInv, RowsOK, Ordinals
  <2>. QED BY <2>1, EndsStay, WorkflowCompletes DEF EndIsReached
<1>3. StepsInv /\ EndIsReached => CompleteMeansDone
  <2>. SUFFICES ASSUME StepsInv, Completed(Last[type]), NEW n \in Ordinals
                PROVE  Completed(n)
    BY DEF EndIsReached, CompleteMeansDone
  <2>1. Last[type] \in Ordinals /\ (n = Last[type] \/ n \in Predecessors(Last[type]))
    BY OrdinalsTyped DEF StepsInv, RowsOK, Ordinals, Predecessors
  <2>. QED BY <2>1 DEF StepsInv, RowsOK, Completed
<1>. QED BY <1>1, <1>2, <1>3, StepsInvHolds, PTL DEF StepsSpec

-----------------------------------------------------------------------------
(* What follows a destructive step *)

Begun(n) == step[n].state \in {"running", "completed"}
Closing == {"destructive-step-running", "terminal"}
DestructiveOrdinals == Destructive[type] \cap Ordinals

\* No step behind a destructive one is ever claimed: the completion of that step
\* leaves the phase where mayClaimStep refuses every claim.
DestructionIsLast ==
    \A m \in DestructiveOrdinals, n \in Ordinals : m < n => ~Begun(n)

\* A destructive step that was claimed shuts the phase behind it.
DestructionShuts ==
    \A m \in DestructiveOrdinals :
        Begun(m) => /\ facts.phase \in Closing
                    /\ \A n \in Ordinals : m < n => ~Begun(n)

\* A step of the system leaves rows and phase, claims a step or completes one.
LEMMA RowMoves ==
    ASSUME StepsInv, [StepsNext]_stepVars
    PROVE  \/ /\ \A n \in Ordinals : step'[n].state = step[n].state
              /\ facts' = facts \/ facts'.phase = "terminal"
           \/ \E n \in Ordinals :
                /\ step[n].state = "absent"
                /\ facts.phase \in Policies
                /\ facts'.phase = RunningPhase(n)
                /\ \A k \in Ordinals \ {n} : step'[k] = step[k]
                /\ \A k \in Predecessors(n) : Completed(k)
           \/ \E n \in Ordinals :
                /\ step[n].state = "running"
                /\ facts'.phase = "terminal" \/ facts'.phase = PhaseAfter(n)
                /\ \A k \in Ordinals \ {n} : step'[k] = step[k]
<1>. DEFINE Same == /\ \A n \in Ordinals : step'[n].state = step[n].state
                    /\ facts' = facts \/ facts'.phase = "terminal"
            Claims == \E n \in Ordinals :
                        /\ step[n].state = "absent"
                        /\ facts.phase \in Policies
                        /\ facts'.phase = RunningPhase(n)
                        /\ \A k \in Ordinals \ {n} : step'[k] = step[k]
                        /\ \A k \in Predecessors(n) : Completed(k)
            Completes == \E n \in Ordinals :
                           /\ step[n].state = "running"
                           /\ facts'.phase = "terminal" \/ facts'.phase = PhaseAfter(n)
                           /\ \A k \in Ordinals \ {n} : step'[k] = step[k]
            Goal == Same \/ Claims \/ Completes
<1>0. step \in [Ordinals -> Row]
  BY DEF StepsInv, RowsOK
<1>1. CASE UNCHANGED <<step, facts>>
  BY <1>1
<1>2. ASSUME NEW r \in Requests, Claim(r) PROVE Goal
  <2>1. CASE UNCHANGED <<step, facts>>
    BY <2>1
  <2>2. CASE /\ Claimable(r)
             /\ facts' = [phase |-> RunningPhase(Ordinal(r)), active |-> Ordinal(r),
                          revision |-> facts.revision + 1]
             /\ step' = [step EXCEPT ![Ordinal(r)] =
                           [state |-> "running", attempt |-> 1, live |-> TRUE,
                            revision |-> facts.revision + 1]]
    <3>1. Ordinal(r) \in Ordinals /\ handler[r] # AtRest
      BY <1>2, StepTyped DEF Claim, At
    <3>2. /\ step[Ordinal(r)].state = "absent"
          /\ facts.phase \in Policies
          /\ facts'.phase = RunningPhase(Ordinal(r))
      BY <2>2 DEF Claimable, StepOf, NoRow
    <3>3. \A k \in Ordinals \ {Ordinal(r)} : step'[k] = step[k]
      BY <1>0, <2>2, <3>1
    <3>4. \A k \in Predecessors(Ordinal(r)) : Completed(k)
      BY <3>1 DEF StepsInv, FlowOK
    <3>5. Claims
      BY <3>1, <3>2, <3>3, <3>4
    <3>. QED BY <3>5
  <2>. QED BY <1>2, <2>1, <2>2 DEF Claim
<1>3. ASSUME NEW r \in Requests, Complete(r) PROVE Goal
  <2>1. CASE UNCHANGED <<step, facts>>
    BY <2>1
  <2>2. CASE /\ Completable(r)
             /\ facts' = [phase |-> PhaseAfter(Ordinal(r)), active |-> 0,
                          revision |-> facts.revision + 1]
             /\ step' = [step EXCEPT ![Ordinal(r)].state = "completed",
                                     ![Ordinal(r)].live = FALSE]
    <3>1. Ordinal(r) \in Ordinals
      BY <1>3, StepTyped DEF Complete, At
    <3>2. step[Ordinal(r)].state = "running" /\ facts'.phase = PhaseAfter(Ordinal(r))
      BY <2>2 DEF Completable, HoldsLease, StepOf
    <3>3. \A k \in Ordinals \ {Ordinal(r)} : step'[k] = step[k]
      BY <1>0, <2>2, <3>1
    <3>4. Completes
      BY <3>1, <3>2, <3>3
    <3>. QED BY <3>4
  <2>. QED BY <1>3, <2>1, <2>2 DEF Complete
<1>4. ASSUME NEW r \in Requests, Resolve(r) PROVE Goal
  <2>1. CASE UNCHANGED <<step, facts>>
    BY <2>1
  <2>2. CASE facts' = facts /\ step' = [step EXCEPT ![Ordinal(r)] = NextAttempt(StepOf(r))]
    <3>1. Ordinal(r) \in Ordinals /\ StepOf(r) \in Row /\ StepOf(r) = step[Ordinal(r)]
      BY <1>4, StepTyped DEF Resolve, At, StepOf
    <3>2. NextAttempt(StepOf(r)).state = StepOf(r).state
      BY <3>1, NewAttempt DEF NextAttempt
    <3>. QED BY <1>0, <2>2, <3>1, <3>2
  <2>. QED BY <1>4, <2>1, <2>2 DEF Resolve
<1>5. ASSUME NEW r \in Requests, FinalizeCancellation(r) PROVE Goal
  <2>1. CASE UNCHANGED <<step, facts>>
    BY <2>1
  <2>2. CASE /\ cancellation = "requested"
             /\ facts' = IF \E n \in Ordinals : step[n].state = "running" THEN facts
                         ELSE [phase |-> "terminal", active |-> 0,
                               revision |-> facts.revision + 1]
             /\ step' = [n \in Ordinals |->
                           IF step[n].state # "running" THEN step[n]
                           ELSE [step[n] EXCEPT !.state = "cancelled", !.live = FALSE]]
    <3>1. \A n \in Ordinals : step[n].state # "running"
      BY <2>2 DEF StepsInv, RowsOK
    <3>. QED BY <2>2, <3>1
  <2>. QED BY <1>5, <2>1, <2>2 DEF FinalizeCancellation
<1>6. ASSUME NEW n \in Ordinals, LeaseLapses(n) PROVE Goal
  <2>1. step[n] \in Row /\ step' = [step EXCEPT ![n] = [step[n] EXCEPT !.live = FALSE]]
    BY <1>0, <1>6 DEF LeaseLapses
  <2>2. [step[n] EXCEPT !.live = FALSE].state = step[n].state
    BY <2>1, NewLease
  <2>. QED BY <1>0, <1>6, <2>1, <2>2 DEF LeaseLapses
<1>7. ASSUME NEW r \in Requests, Call(r) \/ GiveUp(r) \/ Crash(r) \/ Effect(r) PROVE Goal
  <2>1. UNCHANGED <<step, facts>>
    BY <1>7 DEF Call, GiveUp, Crash, Effect, Progress
  <2>. QED BY <1>1, <2>1
<1>8. ASSUME NEW r \in Requests, ReadClaim(r) \/ RecordEffect(r) PROVE Goal
  <2>1. UNCHANGED <<step, facts>>
    BY <1>8 DEF ReadClaim, RecordEffect
  <2>. QED BY <1>1, <2>1
<1>9. ASSUME RequestCancellation \/ TerminateWorkflow \/ UNCHANGED stepVars PROVE Goal
  <2>1. UNCHANGED <<step, facts>>
    BY <1>9 DEF RequestCancellation, TerminateWorkflow, stepVars
  <2>. QED BY <1>1, <2>1
<1>10. ASSUME NEW r \in Requests, FenceStep(r) PROVE Goal
  <2>. HIDE DEF Goal
  <2>. QED BY <1>2, <1>3, <1>4, <1>5, <1>8, <1>10 DEF FenceStep
<1>11. Goal
  <2>. HIDE DEF Goal
  <2>. QED BY <1>6, <1>7, <1>9, <1>10 DEF StepsNext
<1>. QED BY <1>11

\* Neither a claim nor a completion opens the phase again.
LEMMA DestructionShutsStays ==
    ASSUME StepsInv, DestructionShuts, [StepsNext]_stepVars PROVE DestructionShuts'
<1>1. type' = type
  BY EndsStay
<1>2. SUFFICES ASSUME NEW m \in DestructiveOrdinals, Begun(m)'
               PROVE  /\ facts'.phase \in Closing
                      /\ \A n \in Ordinals : m < n => ~Begun(n)'
  BY <1>1 DEF DestructionShuts, DestructiveOrdinals, Ordinals, Closing
<1>3. /\ m \in Ordinals /\ m \in Destructive[type] /\ m \in Nat
      /\ \A n \in Ordinals : n \in Nat /\ (m < n => m \in Predecessors(n))
  BY OrdinalsTyped, SMT DEF StepsInv, RowsOK, DestructiveOrdinals, Predecessors
<1>4. Begun(m) => /\ facts.phase \in Closing
                  /\ \A n \in Ordinals : m < n => ~Begun(n)
  BY DEF DestructionShuts
<1>5. CASE /\ \A n \in Ordinals : step'[n].state = step[n].state
           /\ facts' = facts \/ facts'.phase = "terminal"
  BY <1>2, <1>3, <1>4, <1>5 DEF Begun, Closing
<1>6. ASSUME NEW n \in Ordinals,
             step[n].state = "absent",
             facts.phase \in Policies,
             facts'.phase = RunningPhase(n),
             \A k \in Ordinals \ {n} : step'[k] = step[k]
      PROVE  /\ facts'.phase \in Closing
             /\ \A k \in Ordinals : m < k => ~Begun(k)'
  <2>1. ~Begun(m)
    BY <1>4, <1>6 DEF Closing, Policies
  <2>2. n = m
    BY <1>2, <1>3, <1>6, <2>1 DEF Begun
  <2>3. facts'.phase \in Closing
    BY <1>3, <1>6, <2>2 DEF RunningPhase, Closing
  <2>4. \A k \in Ordinals : m < k => ~Begun(k)
    BY <1>3, <2>1 DEF StepsInv, RowsOK, Begun, Completed
  <2>5. \A k \in Ordinals : m < k => k # n /\ step'[k] = step[k]
    BY <1>3, <1>6, <2>2
  <2>. QED BY <2>3, <2>4, <2>5 DEF Begun
<1>7. ASSUME NEW n \in Ordinals,
             step[n].state = "running",
             facts'.phase = "terminal" \/ facts'.phase = PhaseAfter(n),
             \A k \in Ordinals \ {n} : step'[k] = step[k]
      PROVE  /\ facts'.phase \in Closing
             /\ \A k \in Ordinals : m < k => ~Begun(k)'
  <2>1. Begun(m)
    BY <1>2, <1>3, <1>7 DEF Begun
  <2>2. facts.phase \in Closing /\ \A k \in Ordinals : m < k => ~Begun(k)
    BY <1>4, <2>1
  <2>3. n \in Destructive[type]
    BY <1>7, <2>2 DEF StepsInv, RowsOK, RunningPhase, Closing
  <2>4. facts'.phase \in Closing
    BY <1>7, <2>3 DEF PhaseAfter, Closing
  <2>5. \A k \in Ordinals : m < k => k # n /\ step'[k] = step[k]
    BY <1>7, <2>2 DEF Begun
  <2>. QED BY <2>2, <2>4, <2>5 DEF Begun
<1>. QED BY <1>5, <1>6, <1>7, RowMoves

\* The steps a workflow has behind its destructive one never begin.
THEOREM NothingFollowsDestruction == StepsSpec => []DestructionIsLast
<1>1. StepsInit => DestructionShuts
  BY DEF StepsInit, DestructionShuts, DestructiveOrdinals, Begun, NoRow
<1>2. StepsInv /\ DestructionShuts /\ [StepsNext]_stepVars => DestructionShuts'
  BY DestructionShutsStays
<1>3. StepsInv /\ DestructionShuts => DestructionIsLast
  <2>. SUFFICES ASSUME StepsInv, DestructionShuts, NEW m \in DestructiveOrdinals,
                       NEW n \in Ordinals, m < n, Begun(n)
                PROVE  FALSE
    BY DEF DestructionIsLast
  <2>1. m \in Ordinals /\ m \in Predecessors(n)
    BY OrdinalsTyped, SMT DEF StepsInv, RowsOK, DestructiveOrdinals, Predecessors
  <2>2. Completed(m)
    BY <2>1 DEF StepsInv, RowsOK, Begun
  <2>. QED BY <2>2 DEF DestructionShuts, Begun, Completed
<1>. QED BY <1>1, <1>2, <1>3, StepsInvHolds, PTL DEF StepsSpec
=============================================================================
