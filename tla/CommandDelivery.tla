-------------------------- MODULE CommandDelivery --------------------------
(***************************************************************************)
(* One command from the workflow step that wants it to the receipt that    *)
(* proves it: the step of a game workflow (game-lifecycle-runtime.ts,      *)
(* dispatchCommand), its delivery row in D1, the node's coordinator, the   *)
(* agent, the HTTP route that takes the agent's results, and the audit     *)
(* receipt that route commits (recordCommandResult).                       *)
(*                                                                         *)
(* The parties talk by calls whose request or response can be lost.  A     *)
(* step has one request at a time that it waits for; one that it gave up   *)
(* runs on beside its retry, and so does a request of the agent.  The      *)
(* agent processes are the pollers of the coordinator, the steps are its   *)
(* callers.                                                                *)
(***************************************************************************)
EXTENDS NodeCoordinator, AgentCommands

CONSTANTS
    MaxFaults    \* bound: crashes, losses and client timeouts in one behaviour

ASSUME DeliveryAssumption ==
    /\ MaxFaults \in Nat
    /\ Pollers = Processes
    /\ Callers = Commands
    /\ \A c, d \in Commands : Key[c] = Key[d] => c = d
    /\ Stamps = 1..(MaxFaults + 4)   \* more than the results of one command

VARIABLES
    delivery,    \* game_command_deliveries, by command
    dispatch,    \* where the request is that the step of each command waits for
    late,        \* requests that a step gave up and that run on
    posts,       \* result requests between the agent and their last statement
    receipt,     \* agent_machine_audit_receipts of kind command-result, by key
    faults       \* faults so far

cloudVars == <<delivery, dispatch, late, receipt>>
vars == <<coordinatorVars, agentVars, cloudVars, posts, faults>>

NoDelivery == [state |-> "absent", result |-> NoResult]
Delivery == [state: {"absent", "pending", "delivered", "completed", "failed"},
             result: Result \cup {NoResult}]
Step(pc) == [pc |-> pc]
Done(result) == [pc |-> "done", result |-> result]
Late == [command: Commands, nr: 1..MaxFaults,
         pc: {"start", "insert", "enqueue", "mark", "ask"}]
Post == [result: Result, from: Processes, awaited: BOOLEAN,
         stage: {"sent", "accepted", "bound"}]

TypeOK ==
    /\ CoordinatorTypeOK
    /\ AgentTypeOK
    /\ delivery \in [Commands -> Delivery]
    /\ dispatch \in [Commands ->
          [pc: {"start", "insert", "enqueue", "mark", "ask", "await",
                "refused", "abandoned"}]
          \cup [pc: {"done"}, result: Result]]
    /\ late \subseteq Late
    /\ posts \subseteq Post
    /\ receipt \in [Keys -> Result \cup {NoResult}]
    /\ faults \in 0..MaxFaults

Init ==
    /\ CoordinatorInit
    /\ AgentInit
    /\ delivery = [c \in Commands |-> NoDelivery]
    /\ dispatch = [c \in Commands |-> Step("start")]
    /\ late = {}
    /\ posts = {}
    /\ receipt = [k \in Keys |-> NoResult]
    /\ faults = 0

Fault == faults < MaxFaults /\ faults' = faults + 1

\* Mutant: the status itself.
DeliveryStateIsStatus(status) == status

\* The terminal state of a delivery row.
DeliveryState(status) == IF status = "succeeded" THEN "completed" ELSE "failed"

-----------------------------------------------------------------------------
(* The workflow step: dispatchCommand *)

StepAt(c, pc) == dispatch[c].pc = pc
Move(c, next) == dispatch' = [dispatch EXCEPT ![c] = next]

\* The workflow retries a step that failed, until it gives up.
Retry(c) == Move(c, Step("start")) \/ Move(c, Step("abandoned"))

\* A terminal row is adopted, a live one is delivered again, and only a step
\* without a row minds that the accepted payload has expired.
ReadDelivery(c) ==
    /\ StepAt(c, "start")
    /\ \/ /\ delivery[c].state \in {"completed", "failed"}
          /\ Move(c, Done(delivery[c].result))
       \/ /\ delivery[c].state \in {"pending", "delivered"}
          /\ Move(c, Step("enqueue"))
       \/ /\ delivery[c].state = "absent"
          /\ c \notin elapsed
          /\ Move(c, Step("insert"))
       \/ /\ delivery[c].state = "absent"
          /\ c \in elapsed
          /\ Move(c, Step("refused"))
    /\ UNCHANGED <<coordinatorVars, agentVars, delivery, late, receipt, posts, faults>>

\* A row that another request inserted meanwhile has another time of issue,
\* hence another fingerprint: command-delivery-fence.
InsertDelivery(c) ==
    /\ StepAt(c, "insert")
    /\ \/ /\ delivery[c].state = "absent"
          /\ delivery' = [delivery EXCEPT ![c].state = "pending"]
          /\ Move(c, Step("enqueue"))
       \/ /\ delivery[c].state # "absent"
          /\ Retry(c)
          /\ UNCHANGED delivery
    /\ UNCHANGED <<coordinatorVars, agentVars, late, receipt, posts, faults>>

EnqueueCommand(c) ==
    /\ StepAt(c, "enqueue")
    /\ Enqueue(c)
    /\ Move(c, Step("mark"))
    /\ UNCHANGED <<agentVars, delivery, late, receipt, posts, faults>>

\* updateDelivery does not look at the state it replaces, and keeps the result.
Delivered(c) == [delivery EXCEPT ![c].state = "delivered"]
Settled(c, result) ==
    [delivery EXCEPT ![c] = [state |-> DeliveryState(result.status), result |-> result]]

MarkDelivered(c) ==
    /\ StepAt(c, "mark")
    /\ delivery' = Delivered(c)
    /\ Move(c, Step("ask"))
    /\ UNCHANGED <<coordinatorVars, agentVars, late, receipt, posts, faults>>

AskResult(c) ==
    /\ StepAt(c, "ask")
    /\ WaitForCommandResult(c, Key[c])
    /\ Move(c, Step("await"))
    /\ UNCHANGED <<agentVars, delivery, late, receipt, posts, faults>>

\* command-result-pending: nobody answered in time.
ResultPending(c) ==
    /\ StepAt(c, "await")
    /\ call[c] = Answer(NoResult)
    /\ TakeResult(c)
    /\ Retry(c)
    /\ UNCHANGED <<agentVars, delivery, late, receipt, posts, faults>>

SettleDelivery(c) ==
    /\ StepAt(c, "await")
    /\ TakeResult(c)
    /\ call[c].value # NoResult
    /\ delivery' = Settled(c, call[c].value)
    /\ Move(c, Done(call[c].value))
    /\ UNCHANGED <<agentVars, late, receipt, posts, faults>>

\* Mutant: a failed call is not retried.
CallFailureIgnored(c) == FALSE

\* The call to the coordinator failed under it.
CallFailed(c) ==
    /\ StepAt(c, "await")
    /\ call[c] = Idle
    /\ Retry(c)
    /\ UNCHANGED <<coordinatorVars, agentVars, delivery, late, receipt, posts, faults>>

\* The step waits no longer than two minutes, or its request breaks off, its
\* last call done or not.  The request may run on from there, or never again.
StepGivesUp(c) ==
    /\ dispatch[c].pc \in {"start", "insert", "enqueue", "mark", "ask", "await"}
    /\ Fault
    /\ Retry(c)
    /\ late' = late \cup
                 {[command |-> c, nr |-> faults + 1,
                   pc |-> IF StepAt(c, "await") THEN "ask" ELSE dispatch[c].pc]}
    /\ call' = [call EXCEPT ![c] = Idle]
    /\ UNCHANGED <<row, issued, watermark, elapsed, poll, agentVars, delivery,
                   receipt, posts>>

DispatchStep(c) ==
    \/ ReadDelivery(c) \/ InsertDelivery(c) \/ EnqueueCommand(c)
    \/ MarkDelivered(c) \/ AskResult(c) \/ ResultPending(c)
    \/ SettleDelivery(c) \/ CallFailed(c)

-----------------------------------------------------------------------------
(* Requests that were given up: nobody takes their answer *)

LateMove(m, pc) == late' = (late \ {m}) \cup {[m EXCEPT !.pc = pc]}
LateEnd(m) == late' = late \ {m}

LateRead(m) ==
    /\ m.pc = "start"
    /\ \/ /\ delivery[m.command].state \in {"completed", "failed"}
          /\ LateEnd(m)
       \/ /\ delivery[m.command].state \in {"pending", "delivered"}
          /\ LateMove(m, "enqueue")
       \/ /\ delivery[m.command].state = "absent"
          /\ IF m.command \in elapsed THEN LateEnd(m) ELSE LateMove(m, "insert")
    /\ UNCHANGED <<coordinatorVars, agentVars, delivery, dispatch, receipt, posts, faults>>

LateInsert(m) ==
    /\ m.pc = "insert"
    /\ \/ /\ delivery[m.command].state = "absent"
          /\ delivery' = [delivery EXCEPT ![m.command].state = "pending"]
          /\ LateMove(m, "enqueue")
       \/ /\ delivery[m.command].state # "absent"
          /\ LateEnd(m)
          /\ UNCHANGED delivery
    /\ UNCHANGED <<coordinatorVars, agentVars, dispatch, receipt, posts, faults>>

LateEnqueue(m) ==
    /\ m.pc = "enqueue"
    /\ Enqueue(m.command)
    /\ LateMove(m, "mark")
    /\ UNCHANGED <<agentVars, delivery, dispatch, receipt, posts, faults>>

LateMark(m) ==
    /\ m.pc = "mark"
    /\ delivery' = Delivered(m.command)
    /\ LateMove(m, "ask")
    /\ UNCHANGED <<coordinatorVars, agentVars, dispatch, receipt, posts, faults>>

\* It asks, or is woken, when there is a result; else it ends unseen.
LateSettle(m) ==
    /\ m.pc = "ask"
    /\ ReadResult(Key[m.command]) # NoResult
    /\ delivery' = Settled(m.command, ReadResult(Key[m.command]))
    /\ LateEnd(m)
    /\ UNCHANGED <<coordinatorVars, agentVars, dispatch, receipt, posts, faults>>

LateStep == \E m \in late : \/ LateRead(m) \/ LateInsert(m) \/ LateEnqueue(m)
                            \/ LateMark(m) \/ LateSettle(m)

-----------------------------------------------------------------------------
(* The agent and its polls *)

\* completedAt tells two handlings of one command apart; a stamp no result of
\* the command still carries stands for a later time.
UsedStamps(k) ==
    {m.result.completedAt : m \in {n \in posts : n.result.key = k}}
    \cup {row[j].result.completedAt : j \in {i \in {k} : row[i].status \in Terminal}}
    \cup {claim[j].result.completedAt : j \in {i \in {k} : claim[i].state = "completed"}}

FreshStamp(k, s) == /\ s \notin UsedStamps(k)
                    /\ \A t \in Stamps : t < s => t \in UsedStamps(k)

\* The agent is between commands: its last request was answered or given up.
Free(p) == At(p, "idle") /\ \A m \in posts : m.from = p => ~m.awaited

Poll(p) ==
    /\ Free(p)
    /\ WaitForCommand(p)
    /\ UNCHANGED <<agentVars, cloudVars, posts, faults>>

TakePolled(p) ==
    /\ TakeCommand(p)
    /\ \/ /\ poll[p].value \in Commands
          /\ \E s \in Stamps : /\ FreshStamp(Key[poll[p].value], s)
                               /\ Receive(p, poll[p].value, s)
       \/ poll[p].value = Empty /\ UNCHANGED agentVars
    /\ UNCHANGED <<cloudVars, posts, faults>>

LosePolled(p) ==
    /\ Fault
    /\ poll[p].state = "answered"
    /\ TakeCommand(p)
    /\ UNCHANGED <<agentVars, cloudVars, posts>>

Handle(p) ==
    /\ HandlerStep(p)
    /\ UNCHANGED <<coordinatorVars, cloudVars, posts, faults>>

KeepLease(p) ==
    /\ Renew(p)
    /\ UNCHANGED <<coordinatorVars, cloudVars, posts, faults>>

PostResult(p) ==
    /\ Acknowledge(p)
    /\ posts' = posts \cup {[result |-> handler[p].result, from |-> p,
                             awaited |-> TRUE, stage |-> "sent"]}
    /\ UNCHANGED <<coordinatorVars, cloudVars, faults>>

Abandon(p) == {IF m.from = p THEN [m EXCEPT !.awaited = FALSE] ELSE m : m \in posts}

AgentCrash(p) ==
    /\ Fault
    /\ ~Free(p)
    /\ handler' = [handler EXCEPT ![p] = AtRest]
    /\ poll' = [poll EXCEPT ![p] = Idle]
    /\ posts' = Abandon(p)
    /\ UNCHANGED <<row, issued, watermark, elapsed, call, claim, revision,
                   lapsed, applied, cloudVars>>

\* The agent stops waiting; its request may still arrive.
ClientTimeout(p) ==
    /\ Fault
    /\ Abandon(p) # posts
    /\ posts' = Abandon(p)
    /\ UNCHANGED <<coordinatorVars, agentVars, cloudVars>>

-----------------------------------------------------------------------------
(* The route POST .../commands/:commandId/result *)

\* Mutant: the answer of the coordinator is not looked at.
NeverRefused(m) == FALSE

Refused(m) == ResultAnswer(m.result) = "refused"

\* The coordinator first: a result it neither accepts nor replays is a 409.
DeliverPost(m) ==
    /\ m.stage = "sent"
    /\ AcceptCommandResult(m.result)
    /\ posts' = IF Refused(m) THEN posts \ {m}
                ELSE (posts \ {m}) \cup {[m EXCEPT !.stage = "accepted"]}
    /\ UNCHANGED <<agentVars, cloudVars, faults>>

RowOf(m) == CHOOSE c \in Commands : Key[c] = m.result.key
Recordable(m) == delivery[RowOf(m)].state \in {"pending", "delivered"}

\* Then recordCommandResult: an existing receipt answers, the state decides.
ReadBinding(m) ==
    /\ m.stage = "accepted"
    /\ posts' = IF receipt[m.result.key] = NoResult /\ Recordable(m)
                THEN (posts \ {m}) \cup {[m EXCEPT !.stage = "bound"]}
                ELSE posts \ {m}
    /\ UNCHANGED <<coordinatorVars, agentVars, cloudVars, faults>>

\* One batch: the guarded delivery update and the receipt, whose insert the
\* evidence trigger aborts unless the row is now in the matching state.
CommitReceipt(m) ==
    /\ m.stage = "bound"
    /\ LET state == DeliveryState(m.result.status)
           updated == IF Recordable(m) THEN Settled(RowOf(m), m.result) ELSE delivery
       IN  IF receipt[m.result.key] = NoResult /\ updated[RowOf(m)].state = state
           THEN /\ delivery' = updated
                /\ receipt' = [receipt EXCEPT ![m.result.key] = m.result]
           ELSE UNCHANGED <<delivery, receipt>>
    /\ posts' = posts \ {m}
    /\ UNCHANGED <<coordinatorVars, agentVars, dispatch, late, faults>>

LosePost(m) ==
    /\ Fault
    /\ posts' = posts \ {m}
    /\ UNCHANGED <<coordinatorVars, agentVars, cloudVars>>

RouteStep == \E m \in posts : DeliverPost(m) \/ ReadBinding(m) \/ CommitReceipt(m)

-----------------------------------------------------------------------------
(* Time, timeouts and isolate restarts *)

Timeout ==
    /\ \/ \E p \in Processes : PollTimeout(p)
       \/ \E c \in Commands : ResultTimeout(c)
    /\ UNCHANGED <<agentVars, cloudVars, posts, faults>>

CoordinatorRestart ==
    /\ Fault
    /\ IsolateRestart
    /\ UNCHANGED <<agentVars, cloudVars, posts>>

LeaseRunsOut ==
    /\ \E k \in Keys : LeaseLapses(k)
    /\ UNCHANGED <<coordinatorVars, cloudVars, posts, faults>>

Expiry ==
    /\ \/ \E c \in Expiring : Elapse(c) /\ UNCHANGED agentVars
       \/ \E c \in Expiring : Lapse(c) /\ UNCHANGED coordinatorVars
    /\ UNCHANGED <<cloudVars, posts, faults>>

Next ==
    \/ \E c \in Commands : DispatchStep(c) \/ StepGivesUp(c)
    \/ \E p \in Processes : \/ Poll(p) \/ TakePolled(p) \/ LosePolled(p)
                            \/ Handle(p) \/ KeepLease(p) \/ PostResult(p)
                            \/ AgentCrash(p) \/ ClientTimeout(p)
    \/ LateStep
    \/ RouteStep
    \/ \E m \in posts : LosePost(m)
    \/ Timeout \/ CoordinatorRestart \/ LeaseRunsOut \/ Expiry

\* Parties that run keep running, requests in flight are served, leases and
\* waits run out.  Nothing is assumed of expiry and of requests that were given
\* up, and faults are finitely many.
Fairness ==
    /\ \A c \in Commands : WF_vars(DispatchStep(c))
    /\ \A p \in Processes : /\ WF_vars(Poll(p))
                            /\ WF_vars(TakePolled(p))
                            /\ WF_vars(Handle(p))
                            /\ WF_vars(PostResult(p))
    /\ WF_vars(RouteStep)
    /\ WF_vars(Timeout)
    /\ WF_vars(LeaseRunsOut)

Spec == Init /\ [][Next]_vars
FairSpec == Spec /\ Fairness

-----------------------------------------------------------------------------
(* Properties *)

\* A request that was given up has marked the row and not settled it again.
MarkedLate(c) == \E m \in late : m.command = c /\ m.pc = "ask"

\* Every place that records how a command ended records the result the
\* coordinator stored: the delivery row, also when it was taken back to
\* delivered, the audit receipt and the answer of the workflow step.  A step
\* that is done has left its result in the row, and the row terminal but for a
\* request it gave up (updateDelivery, recordCommandResult).
OutcomesAgree ==
    \A c \in Commands :
        LET stored_result == ReadResult(Key[c])
        IN  /\ delivery[c].state \in {"completed", "failed"} =>
                 /\ delivery[c].result = stored_result
                 /\ delivery[c].state = DeliveryState(stored_result.status)
            /\ delivery[c].result # NoResult => delivery[c].result = stored_result
            /\ receipt[Key[c]] # NoResult => receipt[Key[c]] = stored_result
            /\ StepAt(c, "done") =>
                 /\ dispatch[c].result = stored_result
                 /\ delivery[c].result = stored_result
                 /\ delivery[c].state \in {"completed", "failed"} \/ MarkedLate(c)

\* The control plane calls a command a success only if the node stored it as
\* one and its effects happened there.
SuccessHasReceipt ==
    \A k \in Keys : row[k].status = "succeeded" =>
        /\ Success(k)
        /\ row[k].command \in applied

\* The node is changed in the order of the queue: when a command takes
\* effect, no command enqueued before it is still waiting for its turn.
EffectsInOrder ==
    [][\A p \in Processes :
         At(p, "executing") /\ handler'[p].pc = "executed"
         => \A k \in Keys : row[k].status = "queued"
                              => row[k].sequence >= row[Key[Cmd(p)]].sequence]_vars

\* Once the control plane has decided how a command ended, the node is no
\* longer changed for it: no redelivery, late answer or restart repeats it.
NoEffectAfterOutcome ==
    [][\A p \in Processes :
         At(p, "executing") /\ handler'[p].pc = "executed"
         => row[Key[Cmd(p)]].status \notin Terminal]_vars

\* A queued command does not stay queued: it gets a result, or it expires.
QueuedSettles ==
    \A k \in Keys : row[k].status = "queued" ~> row[k].status # "queued"

\* A workflow step learns the outcome that was decided, unless it has ended
\* without one: given up, or told that the command expired before it was sent.
StepLearns ==
    \A c \in Commands : row[Key[c]].status \in Terminal
                         ~> dispatch[c].pc \in {"done", "abandoned", "refused"}

\* The route commits the delivery transition and the receipt of a result the
\* coordinator accepts or replays; a result it has to refuse is never audited.
AcceptedResultIsRecordable ==
    \A m \in posts : m.stage = "accepted" =>
        receipt[m.result.key] = m.result \/ Recordable(m)

\* The protocol implements the ledger: a command is taken when the agent
\* stores its success, decided when the coordinator stores a result, and told
\* when the workflow step ends with it.
Ledger == INSTANCE CommandLedger WITH
    ledger <- {k \in Keys : Success(k)},
    level <- revision,
    outcome <- [k \in Keys |-> IF row[k].status \in Terminal
                               THEN row[k].status ELSE "open"],
    told <- [c \in Commands |-> IF StepAt(c, "done")
                                THEN IF dispatch[c].result.status = "succeeded"
                                     THEN "succeeded" ELSE "failed"
                                ELSE "open"]
ImplementsLedger == Ledger!LedgerSpec
=============================================================================
