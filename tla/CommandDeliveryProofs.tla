----------------------- MODULE CommandDeliveryProofs -----------------------
(***************************************************************************)
(* The composed protocol, for every set of commands and agent processes    *)
(* and every number of faults.  The invariants of the coordinator and of   *)
(* the agent hold in the composition because each of its steps is a step   *)
(* of both, or one of a client that leaves; DeliveryInv adds what is in    *)
(* flight between the parties, and what the cloud has stored of it.        *)
(***************************************************************************)
EXTENDS CommandDelivery, NodeCoordinatorProofs, AgentCommandsProofs

TerminalDelivery == {"completed", "failed"}

\* The status of a decided row is the one its result asks for.
RowsFollowResults ==
    \A k \in Keys : row[k].status \in Terminal =>
        row[k].status = IF row[k].result.status = "succeeded" THEN "succeeded"
                                                              ELSE "failed"

SequencesAreIssued == \A k \in Keys : row[k] # NoRow => row[k].sequence <= issued

\* A process answers for the command it works on.
AnswersAreOwn ==
    \A p \in Processes : At(p, "answering") => handler[p].result.key = Key[Cmd(p)]

\* A success on its way has its receipt, and a request the coordinator let
\* through carries the result the coordinator stored.
PostsAreBacked ==
    \A m \in posts :
        /\ m.result.status = "succeeded" => Success(m.result.key)
        /\ m.stage # "sent" => /\ row[m.result.key].status \in Terminal
                               /\ row[m.result.key].result = m.result

\* A workflow step waits for, and is answered about, its own command.
CallsAreOwn ==
    \A c \in Commands :
        /\ call[c].state = "waiting" => call[c].key = Key[c]
        /\ call[c].state = "answered" /\ call[c].value # NoResult
             => call[c].value.key = Key[c]

\* The cloud calls a command decided only if the coordinator did.
CloudFollows ==
    \A c \in Commands :
        delivery[c].state \in TerminalDelivery \/ receipt[Key[c]] # NoResult
        => row[Key[c]].status \in Terminal

\* A command that was handed out is known, and no queued command precedes it.
HandedOut(c) ==
    \/ \E p \in Processes : poll[p] = Answer(c)
    \/ \E p \in Processes : ~At(p, "idle") /\ Cmd(p) = c
InTurn(c) ==
    /\ row[Key[c]] # NoRow
    /\ \A k \in Keys : row[k].status = "queued"
                         => row[k].sequence >= row[Key[c]].sequence
TurnsAreKept == \A c \in Commands : HandedOut(c) => InTurn(c)

DeliveryInv ==
    /\ TypeOK
    /\ CoordinatorInv
    /\ AgentInv
    /\ RowsFollowResults
    /\ SequencesAreIssued
    /\ AnswersAreOwn
    /\ PostsAreBacked
    /\ CallsAreOwn
    /\ CloudFollows
    /\ OutcomesAgree
    /\ SuccessHasReceipt
    /\ TurnsAreKept

\* Keys name commands, and the clients of the two parts are the ones here.
LEMMA PartsFit ==
    /\ Key \in [Commands -> Keys]
    /\ Pollers = Processes
    /\ Callers = Commands
    /\ \A c, d \in Commands : Key[c] = Key[d] => c = d
    /\ Expiring \subseteq Commands
    /\ Empty \notin Commands
    /\ Posted \subseteq Result
BY ProtocolAssumption, DeliveryAssumption, AgentAssumption, CoordinatorAssumption

\* The initial state satisfies the inductive invariant.
LEMMA DeliveryInitInv == Init => DeliveryInv
<1>. SUFFICES ASSUME Init PROVE DeliveryInv
  OBVIOUS
<1>. USE PartsFit
<1>1. CoordinatorInv /\ AgentInv
  BY CoordinatorInitInv, AgentInitInv DEF Init
<1>2. TypeOK
  BY <1>1, DeliveryAssumption
     DEF Init, TypeOK, CoordinatorInv, AgentInv, NoDelivery, Delivery, Step
<1>3. /\ \A k \in Keys : row[k] = NoRow /\ claim[k] = NoClaim /\ receipt[k] = NoResult
      /\ \A p \in Processes : handler[p] = AtRest /\ poll[p] = Idle
      /\ \A c \in Commands : /\ call[c] = Idle /\ delivery[c] = NoDelivery
                             /\ dispatch[c].pc = "start"
      /\ posts = {}
  BY DEF Init, CoordinatorInit, AgentInit, Step
<1>4. RowsFollowResults /\ SequencesAreIssued /\ SuccessHasReceipt
  BY <1>3 DEF RowsFollowResults, SequencesAreIssued, SuccessHasReceipt, NoRow, Terminal
<1>5. AnswersAreOwn /\ PostsAreBacked /\ CallsAreOwn /\ TurnsAreKept
  BY <1>3 DEF AnswersAreOwn, PostsAreBacked, CallsAreOwn, TurnsAreKept, HandedOut, At,
              AtRest, Idle, Answer
<1>6. CloudFollows /\ OutcomesAgree
  BY <1>3 DEF CloudFollows, OutcomesAgree, TerminalDelivery, StepAt, NoDelivery
<1>. QED BY <1>1, <1>2, <1>4, <1>5, <1>6 DEF DeliveryInv

-----------------------------------------------------------------------------
(* Every step is a step of the parts *)

\* A client of the coordinator ends, and what it waited for ends with it.
ClientsLeave ==
    /\ UNCHANGED <<row, issued, watermark, elapsed>>
    /\ poll' \in [Pollers -> {Idle} \cup {poll[p] : p \in Pollers}]
    /\ call' \in [Callers -> {Idle} \cup {call[w] : w \in Callers}]
    /\ \A p \in Pollers : poll'[p] \in {poll[p], Idle}
    /\ \A w \in Callers : call'[w] \in {call[w], Idle}

\* The steps of the coordinator that take no result.
OwnStep ==
    \/ \E c \in Commands : Enqueue(c) \/ Elapse(c)
    \/ \E p \in Pollers : WaitForCommand(p) \/ PollTimeout(p) \/ TakeCommand(p)
    \/ \E w \in Callers : \/ WaitForCommandResult(w, Key[w])
                          \/ ResultTimeout(w) \/ TakeResult(w)
    \/ IsolateRestart

\* The coordinator stores the result of a request that reached it.
StorePost == \E m \in posts : m.stage = "sent" /\ Store(m.result)

\* A request that was given up writes the delivery row of its command, enqueues
\* the command, and nothing else.
LEMMA LateSteps ==
    ASSUME TypeOK, LateStep
    PROVE  /\ UNCHANGED <<agentVars, dispatch, receipt, posts, faults>>
           /\ \/ UNCHANGED coordinatorVars
              \/ /\ UNCHANGED delivery
                 /\ \E m \in late : /\ m.command \in Commands
                                   /\ m.pc = "enqueue"
                                   /\ Enqueue(m.command)
BY DEF LateStep, LateRead, LateInsert, LateEnqueue, LateMark, LateSettle, TypeOK, Late

\* For the agent, a step of the composition is one of its own or none.
LEMMA StepsOfAgent ==
    ASSUME TypeOK, [Next]_vars PROVE [AgentNext]_agentVars
<1>. USE PartsFit
<1>1. ASSUME NEW c \in Commands, DispatchStep(c) \/ StepGivesUp(c)
      PROVE  UNCHANGED agentVars
  BY <1>1 DEF DispatchStep, StepGivesUp, ReadDelivery, InsertDelivery, EnqueueCommand,
              MarkDelivered, AskResult, ResultPending, SettleDelivery, CallFailed,
              agentVars
<1>2. ASSUME NEW p \in Processes, Poll(p) \/ LosePolled(p) \/ ClientTimeout(p)
      PROVE  UNCHANGED agentVars
  BY <1>2 DEF Poll, LosePolled, ClientTimeout
<1>3. ASSUME NEW p \in Processes, TakePolled(p)
      PROVE  [AgentNext]_agentVars
  BY <1>3 DEF TakePolled, AgentNext
<1>4. ASSUME NEW p \in Processes, Handle(p) \/ KeepLease(p) \/ PostResult(p)
      PROVE  AgentNext
  BY <1>4 DEF Handle, KeepLease, PostResult, AgentNext
<1>5. ASSUME NEW p \in Processes, AgentCrash(p)
      PROVE  [AgentNext]_agentVars
  <2>1. CASE At(p, "idle")
    <3>1. handler[p] = AtRest
      BY <2>1 DEF TypeOK, AgentTypeOK, Handler, AtRest, At
    <3>. QED BY <3>1, <1>5 DEF AgentCrash, TypeOK, AgentTypeOK, agentVars
  <2>2. CASE ~At(p, "idle")
    BY <1>5, <2>2 DEF AgentCrash, Crash, Rest, AgentNext
  <2>. QED BY <2>1, <2>2
<1>6. ASSUME RouteStep \/ (\E m \in posts : LosePost(m)) \/ Timeout \/ CoordinatorRestart
      PROVE  UNCHANGED agentVars
  BY <1>6 DEF RouteStep, DeliverPost, ReadBinding, CommitReceipt, LosePost, Timeout,
              CoordinatorRestart
<1>7. ASSUME LeaseRunsOut \/ Expiry PROVE [AgentNext]_agentVars
  BY <1>7 DEF LeaseRunsOut, Expiry, AgentNext
<1>8. ASSUME UNCHANGED vars PROVE UNCHANGED agentVars
  BY <1>8 DEF vars
<1>. QED BY <1>1, <1>2, <1>3, <1>4, <1>5, <1>6, <1>7, <1>8, LateSteps DEF Next

\* For the coordinator, a step is one of its own, a result from the route, the
\* end of a client, or none.
LEMMA StepsOfCoordinator ==
    ASSUME TypeOK, [Next]_vars
    PROVE  [OwnStep]_coordinatorVars \/ StorePost \/ ClientsLeave
<1>. USE PartsFit
<1>. DEFINE Goal == [OwnStep]_coordinatorVars \/ StorePost \/ ClientsLeave
<1>1. ASSUME NEW c \in Commands, DispatchStep(c) PROVE Goal
  <2>1. CASE ReadDelivery(c) \/ InsertDelivery(c) \/ MarkDelivered(c) \/ CallFailed(c)
    BY <2>1 DEF ReadDelivery, InsertDelivery, MarkDelivered, CallFailed
  <2>2. CASE EnqueueCommand(c)
    BY <2>2 DEF EnqueueCommand, OwnStep
  <2>3. CASE AskResult(c)
    BY <2>3 DEF AskResult, OwnStep
  <2>4. CASE ResultPending(c) \/ SettleDelivery(c)
    BY <2>4 DEF ResultPending, SettleDelivery, OwnStep
  <2>. QED BY <1>1, <2>1, <2>2, <2>3, <2>4 DEF DispatchStep
<1>2. ASSUME NEW c \in Commands, StepGivesUp(c) PROVE Goal
  BY <1>2 DEF StepGivesUp, ClientsLeave, TypeOK, CoordinatorTypeOK
<1>3. ASSUME NEW p \in Processes, Poll(p) \/ TakePolled(p) \/ LosePolled(p) PROVE Goal
  BY <1>3 DEF Poll, TakePolled, LosePolled, OwnStep
<1>4. ASSUME NEW p \in Processes,
             Handle(p) \/ KeepLease(p) \/ PostResult(p) \/ ClientTimeout(p)
      PROVE  Goal
  BY <1>4 DEF Handle, KeepLease, PostResult, ClientTimeout
<1>5. ASSUME NEW p \in Processes, AgentCrash(p) PROVE Goal
  BY <1>5 DEF AgentCrash, ClientsLeave, TypeOK, CoordinatorTypeOK
<1>6. ASSUME NEW m \in posts, DeliverPost(m) PROVE Goal
  BY <1>6 DEF DeliverPost, AcceptCommandResult, StorePost
<1>7. ASSUME NEW m \in posts, ReadBinding(m) \/ CommitReceipt(m) \/ LosePost(m)
      PROVE  Goal
  BY <1>7 DEF ReadBinding, CommitReceipt, LosePost
<1>8. ASSUME Timeout \/ CoordinatorRestart PROVE Goal
  BY <1>8 DEF Timeout, CoordinatorRestart, OwnStep
<1>9. ASSUME LeaseRunsOut \/ Expiry PROVE Goal
  BY <1>9 DEF LeaseRunsOut, Expiry, OwnStep
<1>10. ASSUME UNCHANGED vars PROVE Goal
  BY <1>10 DEF vars
<1>11. ASSUME LateStep PROVE Goal
  BY <1>11, LateSteps DEF OwnStep
<1>. QED BY <1>1, <1>2, <1>3, <1>4, <1>5, <1>6, <1>7, <1>8, <1>9, <1>10, <1>11
         DEF Next, RouteStep

\* Clients that leave keep the coordinator's invariant: nobody new waits, and
\* nobody is told anything.
LEMMA LeavingPreserves ==
    ASSUME CoordinatorInv, ClientsLeave PROVE CoordinatorInv'
<1>. USE DEF ClientsLeave
<1>1. CoordinatorTypeOK'
  BY DEF CoordinatorInv, CoordinatorTypeOK
<1>2. RowsAreFiled' /\ WatermarkIsContiguousPrefix'
  BY DEF CoordinatorInv, RowsAreFiled, WatermarkIsContiguousPrefix, CompletedSequences
<1>3. NoLostWakeup'
  <2>1. (\E p \in Pollers : poll'[p] = Waiting) => \E p \in Pollers : poll[p] = Waiting
    BY DEF Idle, Waiting
  <2>2. \A w \in Callers, k \in Keys : call'[w] = WaitingFor(k) => call[w] = WaitingFor(k)
    BY DEF Idle, WaitingFor
  <2>. QED BY <2>1, <2>2 DEF CoordinatorInv, NoLostWakeup, Queued
<1>4. AnswersAreTerminal'
  <2>1. \A w \in Callers : call'[w].state = "answered" => call'[w] = call[w]
    BY DEF Idle
  <2>. QED BY <2>1 DEF CoordinatorInv, AnswersAreTerminal
<1>. QED BY <1>1, <1>2, <1>3, <1>4 DEF CoordinatorInv

\* The invariants of the parts hold in the composition.
LEMMA PartsPreserved ==
    ASSUME DeliveryInv, [Next]_vars PROVE CoordinatorInv' /\ AgentInv'
<1>1. AgentInv'
  BY StepsOfAgent, AgentInvInductive DEF DeliveryInv
<1>2. CoordinatorInv'
  <2>1. CASE [OwnStep]_coordinatorVars
    <3>1. [CoordinatorNext]_coordinatorVars
      BY <2>1, PartsFit DEF OwnStep, CoordinatorNext
    <3>. QED BY <3>1, CoordinatorInvInductive DEF DeliveryInv
  <2>2. CASE StorePost
    BY <2>2, StorePreserves DEF DeliveryInv, TypeOK, StorePost, Post
  <2>3. CASE ClientsLeave
    BY <2>3, LeavingPreserves DEF DeliveryInv
  <2>. QED BY <2>1, <2>2, <2>3, StepsOfCoordinator DEF DeliveryInv
<1>. QED BY <1>1, <1>2
-----------------------------------------------------------------------------
(* What a step does to a row, to a claim and to a request *)

\* A row only moves forward: a decided one stays, a known one keeps its command
\* and place, a queued one that is new is the last of the queue, and a row is
\* decided by the result of a request.
LEMMA RowSteps ==
    ASSUME DeliveryInv, [Next]_vars, NEW k \in Keys
    PROVE  /\ row[k].status \in Terminal => row'[k] = row[k]
           /\ row[k] # NoRow => /\ row'[k] # NoRow
                                /\ row'[k].sequence = row[k].sequence
                                /\ row'[k].command = row[k].command
           /\ row'[k].status = "queued" /\ row'[k] # row[k]
                => row[k] = NoRow /\ row'[k].sequence = issued + 1
           /\ row'[k] # NoRow => row'[k].sequence <= issued'
           /\ row'[k].status \in Terminal /\ row[k].status \notin Terminal
                => \E m \in posts :
                     /\ m.stage = "sent"
                     /\ m.result.key = k
                     /\ row'[k].result = m.result
                     /\ row'[k].status = IF m.result.status = "succeeded"
                                         THEN "succeeded" ELSE "failed"
<1>. USE PartsFit, SentinelsAreDistinct
<1>. DEFINE Goal ==
           /\ row[k].status \in Terminal => row'[k] = row[k]
           /\ row[k] # NoRow => /\ row'[k] # NoRow
                                /\ row'[k].sequence = row[k].sequence
                                /\ row'[k].command = row[k].command
           /\ row'[k].status = "queued" /\ row'[k] # row[k]
                => row[k] = NoRow /\ row'[k].sequence = issued + 1
           /\ row'[k] # NoRow => row'[k].sequence <= issued'
           /\ row'[k].status \in Terminal /\ row[k].status \notin Terminal
                => \E m \in posts :
                     /\ m.stage = "sent"
                     /\ m.result.key = k
                     /\ row'[k].result = m.result
                     /\ row'[k].status = IF m.result.status = "succeeded"
                                         THEN "succeeded" ELSE "failed"
<1>0. /\ row \in [Keys -> Row \cup {NoRow}]
      /\ issued \in Nat
      /\ row[k] # NoRow => row[k].sequence \in Nat /\ row[k].sequence <= issued
  BY DEF DeliveryInv, SequencesAreIssued, CoordinatorInv, CoordinatorTypeOK, Row
<1>1. CASE UNCHANGED <<row, issued>>
  BY <1>0, <1>1
<1>2. ASSUME NEW c \in Commands, Enqueue(c) PROVE Goal
  <2>1. CASE Insert(c)
    <3>1. row[Key[c]] = NoRow
      BY <2>1 DEF Insert, EnqueueAnswer
    <3>2. CASE k = Key[c]
      BY <1>0, <2>1, <3>1, <3>2 DEF Insert, NextSequence, Terminal, NoRow
    <3>3. CASE k # Key[c]
      BY <1>0, <2>1, <3>3 DEF Insert
    <3>. QED BY <3>2, <3>3
  <2>2. CASE UNCHANGED coordinatorVars
    BY <1>1, <2>2 DEF coordinatorVars
  <2>. QED BY <1>2, <2>1, <2>2 DEF Enqueue
<1>3. ASSUME NEW p \in Pollers, WaitForCommand(p) PROVE Goal
  <2>1. /\ issued' = issued
        /\ row'[k] = IF k \in Queued \ Pending
                     THEN [row[k] EXCEPT !.status = "expired"] ELSE row[k]
    BY <1>3 DEF WaitForCommand, DrainedRows
  <2>2. CASE k \in Queued \ Pending
    <3>1. row[k] \in Row /\ row[k].status = "queued"
      BY <1>0, <2>2 DEF Queued, NoRow
    <3>2. /\ row'[k] \in Row
          /\ row'[k].status = "expired"
          /\ row'[k].sequence = row[k].sequence
          /\ row'[k].command = row[k].command
      BY <2>1, <2>2, <3>1 DEF Row
    <3>. QED BY <1>0, <2>1, <3>1, <3>2 DEF Terminal
  <2>3. CASE k \notin Queued \ Pending
    BY <1>0, <2>1, <2>3
  <2>. QED BY <2>2, <2>3
<1>4. CASE StorePost
  <2>1. PICK m \in posts : m.stage = "sent" /\ Store(m.result)
    BY <1>4 DEF StorePost
  <2>2. m.result.key \in Keys
    BY DEF DeliveryInv, TypeOK, Post, Result
  <2>3. /\ row[m.result.key] \in Row
        /\ row[m.result.key].status \notin Terminal
        /\ issued' = issued
    BY <1>0, <2>1, <2>2 DEF Store, ResultAnswer, Applicable
  <2>4. CASE k = m.result.key
    <3>1. /\ row'[k].status = (IF m.result.status = "succeeded" THEN "succeeded"
                                                                ELSE "failed")
          /\ row'[k].result = m.result
          /\ row'[k].sequence = row[k].sequence
          /\ row'[k].command = row[k].command
      BY <1>0, <2>1, <2>3, <2>4 DEF Store, Row
    <3>. QED BY <1>0, <2>1, <2>3, <2>4, <3>1 DEF NoRow
  <2>5. CASE k # m.result.key
    BY <1>0, <2>1, <2>3, <2>5 DEF Store
  <2>. QED BY <2>4, <2>5
<1>. QED
  BY <1>1, <1>2, <1>3, <1>4, StepsOfCoordinator
  DEF DeliveryInv, OwnStep, ClientsLeave, coordinatorVars, Elapse, PollTimeout, TakeCommand,
      WaitForCommandResult, ResultTimeout, TakeResult, IsolateRestart

\* A receipt of the agent stays.
LEMMA SuccessesStay ==
    ASSUME DeliveryInv, [Next]_vars, NEW k \in Keys, Success(k)
    PROVE  Success(k)' /\ claim'[k] = claim[k]
<1>1. [AgentNext]_agentVars
  BY StepsOfAgent DEF DeliveryInv
<1>2. claim'[k] = claim[k]
  BY <1>1, ReceiptsStay DEF DeliveryInv, Success, agentVars
<1>. QED BY <1>2 DEF Success, Receipt

\* A request comes from a process that answers, or goes on: its result stays,
\* and the coordinator has stored it before its next statement runs.
LEMMA PostSteps ==
    ASSUME DeliveryInv, [Next]_vars, NEW n \in posts'
    PROVE  \/ /\ n.stage = "sent"
              /\ \E p \in Processes : At(p, "answering") /\ n.result = handler[p].result
           \/ \E m \in posts : n.result = m.result /\ n.stage = m.stage
           \/ \E m \in posts : /\ n.result = m.result
                               /\ m.stage = "sent"
                               /\ DeliverPost(m) /\ ~Refused(m)
           \/ \E m \in posts : n.result = m.result /\ m.stage = "accepted"
<1>. DEFINE Goal ==
           \/ /\ n.stage = "sent"
              /\ \E p \in Processes : At(p, "answering") /\ n.result = handler[p].result
           \/ \E m \in posts : n.result = m.result /\ n.stage = m.stage
           \/ \E m \in posts : /\ n.result = m.result
                               /\ m.stage = "sent"
                               /\ DeliverPost(m) /\ ~Refused(m)
           \/ \E m \in posts : n.result = m.result /\ m.stage = "accepted"
<1>0. \A m \in posts : m \in Post
  BY DEF DeliveryInv, TypeOK
<1>1. CASE UNCHANGED posts
  BY <1>1
<1>2. ASSUME NEW p \in Processes, posts' = Abandon(p) PROVE Goal
  BY <1>0, <1>2 DEF Abandon, Post
<1>3. ASSUME NEW p \in Processes, PostResult(p) PROVE Goal
  BY <1>3 DEF PostResult, Acknowledge
<1>4. ASSUME NEW m \in posts, DeliverPost(m) PROVE Goal
  BY <1>0, <1>4 DEF DeliverPost, Post
<1>5. ASSUME NEW m \in posts, ReadBinding(m) \/ CommitReceipt(m) \/ LosePost(m) PROVE Goal
  BY <1>0, <1>5 DEF ReadBinding, CommitReceipt, LosePost, Post
<1>6. ASSUME NEW p \in Processes,
             \/ Poll(p) \/ TakePolled(p) \/ LosePolled(p) \/ Handle(p) \/ KeepLease(p)
             \/ AgentCrash(p) \/ ClientTimeout(p)
      PROVE  Goal
  BY <1>1, <1>2, <1>6 DEF Poll, TakePolled, LosePolled, Handle, KeepLease, AgentCrash,
                          ClientTimeout
<1>7. ASSUME NEW c \in Commands, DispatchStep(c) \/ StepGivesUp(c) PROVE Goal
  BY <1>1, <1>7 DEF DispatchStep, StepGivesUp, ReadDelivery, InsertDelivery,
                    EnqueueCommand, MarkDelivered, AskResult, ResultPending,
                    SettleDelivery, CallFailed
<1>8. ASSUME Timeout \/ CoordinatorRestart \/ LeaseRunsOut \/ Expiry \/ UNCHANGED vars
      PROVE  Goal
  BY <1>1, <1>8 DEF Timeout, CoordinatorRestart, LeaseRunsOut, Expiry, vars
<1>9. ASSUME LateStep PROVE Goal
  BY <1>1, <1>9, LateSteps DEF DeliveryInv
<1>. QED BY <1>3, <1>4, <1>5, <1>6, <1>7, <1>8, <1>9 DEF Next, RouteStep
-----------------------------------------------------------------------------
(* The conjuncts of the invariant, one after the other *)

\* Types.
LEMMA TypesPreserved ==
    ASSUME DeliveryInv, [Next]_vars PROVE TypeOK'
<1>. USE PartsFit
<1>. DEFINE CloudTyped ==
       /\ delivery \in [Commands -> Delivery]
       /\ dispatch \in [Commands ->
             [pc: {"start", "insert", "enqueue", "mark", "ask", "await",
                   "refused", "abandoned"}]
             \cup [pc: {"done"}, result: Result]]
       /\ late \subseteq Late
       /\ posts \subseteq Post
       /\ receipt \in [Keys -> Result \cup {NoResult}]
       /\ faults \in 0..MaxFaults
<1>0. CloudTyped /\ CoordinatorTypeOK /\ AgentTypeOK /\ MaxFaults \in Nat
  BY DeliveryAssumption DEF DeliveryInv, TypeOK
<1>1. CoordinatorTypeOK' /\ AgentTypeOK'
  BY PartsPreserved DEF CoordinatorInv, AgentInv
<1>2. Fault => faults' \in 0..MaxFaults
  BY <1>0 DEF Fault
<1>3. \A m \in posts : m \in Post /\ m.result \in Result /\ m.result.key \in Keys
  BY <1>0 DEF Post, Result
<1>4. ASSUME NEW c \in Commands, DispatchStep(c) PROVE CloudTyped'
  <2>1. CASE ReadDelivery(c)
    <3>1. CASE delivery[c].state \in TerminalDelivery
      <4>1. row[Key[c]].status \in Terminal /\ delivery[c].result = row[Key[c]].result
        BY <3>1 DEF DeliveryInv, CloudFollows, OutcomesAgree, TerminalDelivery, ReadResult
      <4>2. delivery[c].result \in Result
        BY <4>1 DEF DeliveryInv, CoordinatorInv, RowsAreFiled, NoRow, Terminal
      <4>. QED BY <1>0, <2>1, <3>1, <4>2
           DEF ReadDelivery, Move, Step, Done, TerminalDelivery
    <3>2. CASE delivery[c].state \notin TerminalDelivery
      BY <1>0, <2>1, <3>2 DEF ReadDelivery, Move, Step, TerminalDelivery
    <3>. QED BY <3>1, <3>2
  <2>2. CASE InsertDelivery(c)
    <3>1. delivery' \in [Commands -> Delivery]
      BY <1>0, <2>2 DEF InsertDelivery, Delivery
    <3>. QED BY <1>0, <2>2, <3>1 DEF InsertDelivery, Retry, Move, Step
  <2>5. CASE MarkDelivered(c)
    <3>1. delivery' \in [Commands -> Delivery]
      BY <1>0, <2>5 DEF MarkDelivered, Delivered, Delivery
    <3>. QED BY <1>0, <2>5, <3>1 DEF MarkDelivered, Move, Step
  <2>3. CASE EnqueueCommand(c) \/ AskResult(c) \/ ResultPending(c) \/ CallFailed(c)
    BY <1>0, <2>3 DEF EnqueueCommand, AskResult, ResultPending, CallFailed, Retry, Move, Step
  <2>4. CASE SettleDelivery(c)
    <3>1. call[c].value \in Result
      BY <1>0, <2>4 DEF SettleDelivery, TakeResult, CoordinatorTypeOK, Idle
    <3>. QED BY <1>0, <2>4, <3>1 DEF SettleDelivery, Settled, Move, Done, Delivery,
                                     DeliveryState
  <2>. QED BY <1>4, <2>1, <2>2, <2>3, <2>4, <2>5 DEF DispatchStep
<1>5. ASSUME NEW c \in Commands, StepGivesUp(c) PROVE CloudTyped'
  <2>1. faults + 1 \in 1..MaxFaults
    BY <1>0, <1>5 DEF StepGivesUp, Fault
  <2>2. late' \subseteq Late
    BY <1>0, <1>5, <2>1 DEF StepGivesUp, StepAt, Late
  <2>. QED BY <1>0, <1>2, <1>5, <2>2 DEF StepGivesUp, Retry, Move, Step
<1>6. ASSUME NEW p \in Processes, Abandon(p) \subseteq Post
      PROVE  AgentCrash(p) \/ ClientTimeout(p) => CloudTyped'
  BY <1>0, <1>2, <1>6 DEF AgentCrash, ClientTimeout, cloudVars
<1>7. \A p \in Processes : Abandon(p) \subseteq Post
  BY <1>3 DEF Abandon, Post
<1>8. ASSUME NEW p \in Processes, PostResult(p) PROVE CloudTyped'
  <2>1. handler[p].result \in Result
    BY <1>0, <1>8 DEF PostResult, Acknowledge, At, AgentTypeOK, Handler, AtRest
  <2>2. [result |-> handler[p].result, from |-> p, awaited |-> TRUE,
         stage |-> "sent"] \in Post
    BY <2>1, Zenon DEF Post
  <2>. QED BY <1>0, <1>8, <2>2, Zenon DEF PostResult, cloudVars
<1>9. ASSUME NEW p \in Processes,
             Poll(p) \/ TakePolled(p) \/ LosePolled(p) \/ Handle(p) \/ KeepLease(p)
      PROVE  CloudTyped'
  BY <1>0, <1>2, <1>9 DEF Poll, TakePolled, LosePolled, Handle, KeepLease, cloudVars
<1>10. ASSUME NEW m \in posts, DeliverPost(m) \/ ReadBinding(m) \/ LosePost(m)
       PROVE  CloudTyped'
  BY <1>0, <1>2, <1>3, <1>10 DEF DeliverPost, ReadBinding, LosePost, cloudVars, Post
<1>11. ASSUME NEW m \in posts, CommitReceipt(m) PROVE CloudTyped'
  BY <1>0, <1>3, <1>11 DEF CommitReceipt, Settled, Delivery, DeliveryState
<1>12. ASSUME Timeout \/ CoordinatorRestart \/ LeaseRunsOut \/ Expiry \/ UNCHANGED vars
       PROVE  CloudTyped'
  BY <1>0, <1>2, <1>12 DEF Timeout, CoordinatorRestart, LeaseRunsOut, Expiry, cloudVars, vars
<1>13. ASSUME NEW m \in late, \/ LateRead(m) \/ LateInsert(m) \/ LateEnqueue(m)
                                \/ LateMark(m) \/ LateSettle(m)
       PROVE  CloudTyped'
  <2>1. \A pc \in {"insert", "enqueue", "mark", "ask"} : [m EXCEPT !.pc = pc] \in Late
    BY <1>0 DEF Late
  <2>2. late' \subseteq Late
    BY <1>0, <1>13, <2>1
       DEF LateRead, LateInsert, LateEnqueue, LateMark, LateSettle, LateMove, LateEnd
  <2>3. m.command \in Commands
    BY <1>0 DEF Late
  <2>4. ASSUME LateSettle(m) PROVE ReadResult(Key[m.command]) \in Result
    BY <2>3, <2>4
       DEF LateSettle, ReadResult, DeliveryInv, CoordinatorInv, RowsAreFiled, NoRow, Terminal
  <2>5. delivery' \in [Commands -> Delivery]
    BY <1>0, <1>13, <2>3, <2>4
       DEF LateRead, LateInsert, LateEnqueue, LateMark, LateSettle, Delivered, Settled,
           Delivery, DeliveryState
  <2>. QED BY <1>0, <1>13, <2>2, <2>5
           DEF LateRead, LateInsert, LateEnqueue, LateMark, LateSettle
<1>14. CloudTyped'
  BY <1>4, <1>5, <1>6, <1>7, <1>8, <1>9, <1>10, <1>11, <1>12, <1>13
  DEF Next, RouteStep, LateStep
<1>. QED BY <1>1, <1>14 DEF TypeOK

\* Rows follow their results, and their sequences were issued.
LEMMA RowsPreserved ==
    ASSUME DeliveryInv, [Next]_vars
    PROVE  RowsFollowResults' /\ SequencesAreIssued'
<1>1. RowsFollowResults'
  BY RowSteps DEF DeliveryInv, RowsFollowResults
<1>2. SequencesAreIssued'
  BY RowSteps DEF SequencesAreIssued
<1>. QED BY <1>1, <1>2

\* An answer is for the command its process works on: a rejection names it, a
\* replayed receipt is filed under it, and a stored result was its own.
LEMMA AnswersPreserved ==
    ASSUME DeliveryInv, [Next]_vars PROVE AnswersAreOwn'
<1>. USE PartsFit
<1>0. AgentTypeOK /\ AnswersAreOwn /\ ClaimsAreFiled /\ CarriedResultsAreSound
  BY DEF DeliveryInv, AgentInv
<1>1. SUFFICES ASSUME NEW p \in Processes, handler'[p] # handler[p],
                      handler'[p].pc = "answering"
               PROVE  handler'[p].result.key = Key[handler'[p].command]
  BY <1>0 DEF AnswersAreOwn, At, Cmd
<1>2. AgentNext
  BY <1>1, StepsOfAgent DEF DeliveryInv, agentVars
<1>3. PICK q \in Processes :
        \/ \E c \in Commands, stamp \in Stamps : Receive(q, c, stamp)
        \/ HandlerStep(q) \/ Renew(q) \/ Acknowledge(q) \/ Crash(q)
  BY <1>1, <1>2 DEF AgentNext, LeaseLapses, Lapse
<1>4. /\ ~At(q, "idle") => Cmd(q) \in Commands /\ Key[Cmd(q)] \in Keys
      /\ handler'[q] = handler[q] \/ p = q
  BY <1>0, <1>1, <1>3, BusyProcess
     DEF HandlerStep, Receive, RefuseEnvelope, TakeClaim, AnswerFromClaim, Validate, Apply,
         ExecutionSucceeds, ExecutionFails, UpdateResponsePending, Complete,
         CompletionFails, Renew, Acknowledge, Crash, GoTo, Carry, Rest, Reject,
         AgentTypeOK
<1>5. CASE RefuseEnvelope(q) \/ CompletionFails(q)
  BY <1>0, <1>1, <1>4, <1>5
     DEF RefuseEnvelope, CompletionFails, Reject, Carry, RejectedResult, AgentTypeOK
<1>6. CASE AnswerFromClaim(q)
  <2>1. CASE Reject(q, "payload-mismatch")
    BY <1>0, <1>1, <1>4, <2>1 DEF Reject, Carry, RejectedResult, AgentTypeOK
  <2>2. CASE /\ HasReceipt(q) /\ ClaimOf(q) # NoClaim
             /\ Carry(q, "answering", [ClaimOf(q).result EXCEPT !.duplicate = TRUE])
    <3>1. ClaimOf(q).result \in Result /\ ClaimOf(q).result.key = Key[Cmd(q)]
      BY <1>0, <1>4, <1>6, <2>2
         DEF ClaimsAreFiled, ClaimOf, HasReceipt, Receipt, AnswerFromClaim, At
    <3>2. [ClaimOf(q).result EXCEPT !.duplicate = TRUE].key = Key[Cmd(q)]
      BY <3>1 DEF Result
    <3>. QED BY <1>0, <1>1, <1>4, <2>2, <3>2 DEF Carry, AgentTypeOK
  <2>3. CASE Rest(q)
    BY <1>0, <1>1, <1>4, <2>3 DEF Rest, AtRest, AgentTypeOK
  <2>. QED BY <1>6, <2>1, <2>2, <2>3 DEF AnswerFromClaim
<1>7. CASE Complete(q)
  BY <1>0, <1>1, <1>4, <1>7 DEF Complete, Carry, CarriedResultsAreSound, AgentTypeOK
<1>8. CASE \/ \E c \in Commands, stamp \in Stamps : Receive(q, c, stamp)
           \/ TakeClaim(q) \/ Validate(q) \/ Apply(q) \/ ExecutionSucceeds(q)
           \/ ExecutionFails(q) \/ UpdateResponsePending(q) \/ Renew(q)
           \/ Acknowledge(q) \/ Crash(q)
  BY <1>0, <1>1, <1>4, <1>8
     DEF Receive, TakeClaim, Validate, Apply, ExecutionSucceeds, ExecutionFails,
         UpdateResponsePending, Renew, Acknowledge, Crash, GoTo, Carry, Rest, AtRest,
         AgentTypeOK
<1>. QED BY <1>3, <1>5, <1>6, <1>7, <1>8 DEF HandlerStep

\* Requests stay backed: receipts and decided rows stay.
LEMMA PostsPreserved ==
    ASSUME DeliveryInv, [Next]_vars PROVE PostsAreBacked'
<1>. SUFFICES ASSUME NEW n \in posts'
              PROVE  /\ n.result.status = "succeeded" => Success(n.result.key)'
                     /\ n.stage # "sent" => /\ row'[n.result.key].status \in Terminal
                                            /\ row'[n.result.key].result = n.result
  BY DEF PostsAreBacked
<1>1. CASE n.stage = "sent"
           /\ \E p \in Processes : At(p, "answering") /\ n.result = handler[p].result
  <2>1. PICK p \in Processes : At(p, "answering") /\ n.result = handler[p].result
    BY <1>1
  <2>2. n.result.status = "succeeded" => Success(n.result.key)
    BY <2>1 DEF DeliveryInv, AgentInv, SuccessWasApplied, AnswersAreOwn
  <2>3. Cmd(p) \in Commands /\ n.result.key \in Keys
    BY <2>1, BusyProcess DEF DeliveryInv, AgentInv, AnswersAreOwn, At
  <2>. QED BY <1>1, <2>2, <2>3, SuccessesStay
<1>2. ASSUME NEW m \in posts, n.result = m.result
      PROVE  /\ m.result.key \in Keys
             /\ n.result.status = "succeeded" => Success(n.result.key)'
             /\ m.stage # "sent" => /\ row'[n.result.key].status \in Terminal
                                    /\ row'[n.result.key].result = n.result
  <2>1. m.result.key \in Keys
    BY DEF DeliveryInv, TypeOK, Post, Result
  <2>. QED BY <1>2, <2>1, SuccessesStay, RowSteps DEF DeliveryInv, PostsAreBacked
<1>3. CASE \E m \in posts : n.result = m.result /\ n.stage = m.stage
  BY <1>2, <1>3
<1>4. ASSUME NEW m \in posts, n.result = m.result, m.stage = "sent",
             DeliverPost(m), ~Refused(m)
      PROVE  row'[n.result.key].status \in Terminal /\ row'[n.result.key].result = n.result
  <2>1. m.result.key \in Keys
    BY <1>2, <1>4
  <2>2. row \in [Keys -> Row \cup {NoRow}]
    BY DEF DeliveryInv, CoordinatorInv, CoordinatorTypeOK
  <2>3. CASE Store(m.result)
    <3>1. row[m.result.key] \in Row
      BY <2>1, <2>2, <2>3 DEF Store, ResultAnswer, Applicable
    <3>. QED BY <1>4, <2>1, <2>2, <2>3, <3>1 DEF Store, Terminal, Row
  <2>4. CASE ResultAnswer(m.result) # "accepted" /\ UNCHANGED coordinatorVars
    <3>1. ResultAnswer(m.result) = "replayed"
      BY <1>4, <2>4 DEF Refused, ResultAnswer
    <3>. QED BY <1>4, <2>4, <3>1 DEF ResultAnswer, coordinatorVars
  <2>. QED BY <1>4, <2>3, <2>4 DEF DeliverPost, AcceptCommandResult
<1>. QED BY <1>1, <1>2, <1>3, <1>4, PostSteps
\* A workflow step asks about its own command, and the coordinator answers
\* with the result it filed under that key.
LEMMA CallsPreserved ==
    ASSUME DeliveryInv, [Next]_vars PROVE CallsAreOwn'
<1>. USE PartsFit, SentinelsAreDistinct
<1>0. /\ CallsAreOwn
      /\ CoordinatorTypeOK
      /\ \A k \in Keys : ReadResult(k) # NoResult => ReadResult(k).key = k
  BY DEF DeliveryInv, CoordinatorInv, RowsAreFiled, ReadResult, NoRow, Terminal
<1>. SUFFICES ASSUME NEW c \in Commands, call'[c] # call[c]
              PROVE  /\ call'[c].state = "waiting" => call'[c].key = Key[c]
                     /\ call'[c].state = "answered" /\ call'[c].value # NoResult
                          => call'[c].value.key = Key[c]
  BY <1>0 DEF CallsAreOwn
<1>1. CASE StorePost
  <2>1. PICK m \in posts : Store(m.result)
    BY <1>1 DEF StorePost
  <2>2. call[c] = WaitingFor(m.result.key) /\ call'[c] = Answer(m.result)
    BY <1>0, <2>1 DEF Store, CoordinatorTypeOK
  <2>. QED BY <1>0, <2>2 DEF CallsAreOwn, WaitingFor, Answer
<1>2. CASE \/ ClientsLeave \/ IsolateRestart
           \/ \E w \in Callers : TakeResult(w)
  BY <1>0, <1>2 DEF ClientsLeave, IsolateRestart, TakeResult, CoordinatorTypeOK, Idle
<1>3. ASSUME NEW w \in Callers, WaitForCommandResult(w, Key[w]) \/ ResultTimeout(w)
      PROVE  \/ call'[c] = WaitingFor(Key[c])
             \/ call'[c] = Answer(ReadResult(Key[c]))
  BY <1>0, <1>3 DEF WaitForCommandResult, ResultTimeout, CoordinatorTypeOK, CallsAreOwn,
                    WaitingFor
<1>4. CASE \/ call'[c] = WaitingFor(Key[c])
           \/ call'[c] = Answer(ReadResult(Key[c]))
  BY <1>0, <1>4 DEF WaitingFor, Answer
<1>. QED
  BY <1>1, <1>2, <1>3, <1>4, StepsOfCoordinator
  DEF DeliveryInv, OwnStep, coordinatorVars, Enqueue, Insert, Elapse, WaitForCommand,
      PollTimeout, TakeCommand

\* A command the control plane calls a success was stored as one by the node,
\* which had applied it.
LEMMA SuccessesPreserved ==
    ASSUME DeliveryInv, [Next]_vars PROVE SuccessHasReceipt'
<1>. USE PartsFit
<1>. SUFFICES ASSUME NEW k \in Keys, row'[k].status = "succeeded"
              PROVE  Success(k)' /\ row'[k].command \in applied'
  BY DEF SuccessHasReceipt
<1>1. Success(k)
  BY RowSteps DEF DeliveryInv, SuccessHasReceipt, PostsAreBacked, Terminal
<1>2. Success(k)' /\ claim'[k] = claim[k]
  BY <1>1, SuccessesStay
<1>3. claim'[k].command \in applied' /\ Key[claim'[k].command] = k
  BY <1>2, PartsPreserved DEF AgentInv, SuccessWasApplied, ClaimsAreFiled, Success, Receipt,
                              NoClaim
<1>4. Key[row'[k].command] = k /\ row'[k].command \in Commands
  BY PartsPreserved DEF CoordinatorInv, CoordinatorTypeOK, RowsAreFiled, NoRow, Row
<1>5. claim'[k].command \in Commands
  BY <1>3, PartsPreserved DEF AgentInv, AgentTypeOK
<1>. QED BY <1>2, <1>3, <1>4, <1>5

\* The step of a command goes on, ends with what it learnt, or leaves the cloud
\* alone.
StepMoves(c) ==
    /\ receipt'[Key[c]] = receipt[Key[c]]
    /\ \/ /\ delivery'[c].state \notin TerminalDelivery
          /\ delivery'[c].result = delivery[c].result
          /\ dispatch'[c].pc # "done" /\ dispatch[c].pc # "done"
       \/ /\ delivery'[c] = delivery[c]
          /\ \/ dispatch'[c] = dispatch[c]
             \/ dispatch'[c].pc # "done" /\ dispatch[c].pc # "done"
             \/ /\ dispatch[c].pc # "done"
                /\ delivery[c].state \in TerminalDelivery
                /\ dispatch'[c] = Done(delivery[c].result)
       \/ /\ dispatch[c].pc # "done"
          /\ call[c].state = "answered" /\ call[c].value # NoResult
          /\ delivery'[c] = [state |-> DeliveryState(call[c].value.status),
                             result |-> call[c].value]
          /\ dispatch'[c] = Done(call[c].value)

\* A request of the command that was given up writes its delivery row.
LateMoves(c) ==
    /\ receipt'[Key[c]] = receipt[Key[c]]
    /\ dispatch'[c] = dispatch[c]
    /\ \/ /\ delivery[c].state = "absent"
          /\ delivery'[c].state = "pending"
          /\ delivery'[c].result = delivery[c].result
       \/ /\ \E m \in late : m.command = c /\ m.pc = "mark"
          /\ MarkedLate(c)'
          /\ delivery'[c].state = "delivered"
          /\ delivery'[c].result = delivery[c].result
       \/ /\ \E m \in late : m.command = c /\ m.pc = "ask"
          /\ ReadResult(Key[c]) # NoResult
          /\ delivery'[c] = [state |-> DeliveryState(ReadResult(Key[c]).status),
                             result |-> ReadResult(Key[c])]

\* The route commits the receipt, and the row if that is still open.
RouteMoves(c) ==
    /\ dispatch'[c] = dispatch[c]
    /\ \E m \in posts :
         /\ m.stage = "bound"
         /\ m.result.key = Key[c]
         /\ receipt'[Key[c]] = m.result
         /\ \/ /\ delivery[c].state \in TerminalDelivery
               /\ delivery'[c] = delivery[c]
            \/ /\ delivery[c].state \notin TerminalDelivery
               /\ delivery'[c] = [state |-> DeliveryState(m.result.status),
                                  result |-> m.result]

\* What a step does to what the cloud has of one command.
LEMMA CloudSteps ==
    ASSUME DeliveryInv, [Next]_vars, NEW c \in Commands
    PROVE  StepMoves(c) \/ LateMoves(c) \/ RouteMoves(c)
<1>. USE PartsFit
<1>. DEFINE Goal == StepMoves(c) \/ LateMoves(c) \/ RouteMoves(c)
<1>0. TypeOK
  BY DEF DeliveryInv
<1>1. CASE UNCHANGED <<delivery, receipt>> /\ dispatch' = dispatch
  BY <1>1 DEF StepMoves
<1>2. ASSUME NEW d \in Commands, DispatchStep(d) \/ StepGivesUp(d) PROVE Goal
  <2>1. CASE d # c
    BY <1>0, <1>2, <2>1
       DEF StepMoves, Delivered, Settled,
            DispatchStep, StepGivesUp, ReadDelivery, InsertDelivery, EnqueueCommand,
           MarkDelivered, AskResult, ResultPending, SettleDelivery, CallFailed, Retry, Move, TypeOK
  <2>2. CASE d = c
    <3>1. CASE ReadDelivery(c)
      BY <1>0, <3>1 DEF ReadDelivery, Move, StepAt, Step, TypeOK, TerminalDelivery, StepMoves
    <3>2. CASE InsertDelivery(c) \/ MarkDelivered(c)
      <4>1. \/ delivery' = delivery
            \/ /\ delivery'[c].state \in {"pending", "delivered"}
               /\ delivery'[c].result = delivery[c].result
        BY <1>0, <3>2 DEF InsertDelivery, MarkDelivered, Delivered, TypeOK, Delivery
      <4>2. /\ receipt' = receipt
            /\ dispatch[c].pc # "done"
            /\ dispatch'[c].pc # "done"
        BY <1>0, <3>2 DEF InsertDelivery, MarkDelivered, Retry, Move, StepAt, Step, TypeOK
      <4>. QED BY <4>1, <4>2 DEF TerminalDelivery, StepMoves
    <3>3. CASE EnqueueCommand(c) \/ AskResult(c) \/ ResultPending(c) \/ CallFailed(c)
               \/ StepGivesUp(c)
      BY <1>0, <3>3 DEF EnqueueCommand, AskResult, ResultPending, CallFailed, StepGivesUp,
                        Retry, Move, StepAt, Step, TypeOK, StepMoves
    <3>4. CASE SettleDelivery(c)
      BY <1>0, <3>4 DEF SettleDelivery, Settled, TakeResult, Move, StepAt, TypeOK, StepMoves
    <3>. QED BY <1>2, <2>2, <3>1, <3>2, <3>3, <3>4 DEF DispatchStep
  <2>. QED BY <2>1, <2>2
<1>3. ASSUME NEW m \in posts, CommitReceipt(m) PROVE Goal
  <2>1. m.stage = "bound" /\ m.result.key \in Keys
    BY <1>0, <1>3 DEF CommitReceipt, TypeOK, Post, Result
  <2>2. row[m.result.key].status \in Terminal
    BY <2>1 DEF DeliveryInv, PostsAreBacked
  <2>3. PICK d \in Commands : Key[d] = m.result.key
    BY <2>1, <2>2 DEF DeliveryInv, CoordinatorInv, CoordinatorTypeOK, RowsAreFiled, NoRow,
                      Row, Terminal
  <2>4. RowOf(m) = d
    BY <2>3 DEF RowOf
  <2>5. DeliveryState(m.result.status) \in TerminalDelivery
    BY DEF DeliveryState, TerminalDelivery
  <2>6. CASE c # d
    BY <1>0, <1>3, <2>3, <2>4, <2>6 DEF CommitReceipt, Settled, TypeOK, StepMoves
  <2>7. CASE c = d
    BY <1>0, <1>3, <2>1, <2>3, <2>4, <2>5, <2>7
       DEF CommitReceipt, Settled, TypeOK, Recordable, TerminalDelivery, StepMoves, RouteMoves
  <2>. QED BY <2>6, <2>7
<1>4. ASSUME NEW m \in posts, DeliverPost(m) \/ ReadBinding(m) \/ LosePost(m) PROVE Goal
  BY <1>1, <1>4 DEF DeliverPost, ReadBinding, LosePost, cloudVars
<1>5. ASSUME NEW p \in Processes,
             \/ Poll(p) \/ TakePolled(p) \/ LosePolled(p) \/ Handle(p) \/ KeepLease(p)
             \/ PostResult(p) \/ AgentCrash(p) \/ ClientTimeout(p)
      PROVE  Goal
  BY <1>1, <1>5 DEF Poll, TakePolled, LosePolled, Handle, KeepLease, PostResult, AgentCrash,
                    ClientTimeout, cloudVars
<1>6. ASSUME Timeout \/ CoordinatorRestart \/ LeaseRunsOut \/ Expiry \/ UNCHANGED vars
      PROVE  Goal
  BY <1>1, <1>6 DEF Timeout, CoordinatorRestart, LeaseRunsOut, Expiry, vars, cloudVars
<1>7. ASSUME NEW m \in late, \/ LateRead(m) \/ LateInsert(m) \/ LateEnqueue(m)
                               \/ LateMark(m) \/ LateSettle(m)
      PROVE  Goal
  <2>1. m.command \in Commands
    BY <1>0 DEF TypeOK, Late
  <2>2. CASE LateRead(m) \/ LateEnqueue(m)
    BY <1>1, <2>2 DEF LateRead, LateEnqueue
  <2>3. UNCHANGED <<dispatch, receipt>>
    BY <1>7 DEF LateRead, LateInsert, LateEnqueue, LateMark, LateSettle
  <2>4. CASE (LateInsert(m) \/ LateMark(m) \/ LateSettle(m)) /\ m.command # c
    <3>1. delivery'[c] = delivery[c]
      BY <1>0, <2>1, <2>4 DEF LateInsert, LateMark, LateSettle, Delivered, Settled, TypeOK
    <3>. QED BY <2>3, <3>1 DEF StepMoves
  <2>5. CASE LateInsert(m) /\ m.command = c
    BY <1>0, <2>3, <2>5 DEF LateInsert, TypeOK, Delivery, StepMoves, LateMoves
  <2>6. CASE LateMark(m) /\ m.command = c
    <3>1. MarkedLate(c)'
      <4>1. [m EXCEPT !.pc = "ask"] \in late'
        BY <2>6 DEF LateMark, LateMove
      <4>2. m \in Late
        BY <1>0 DEF TypeOK
      <4>. QED BY <2>6, <4>1, <4>2 DEF MarkedLate, Late
    <3>. QED BY <1>0, <2>3, <2>6, <3>1 DEF LateMark, Delivered, TypeOK, Delivery, LateMoves
  <2>7. CASE LateSettle(m) /\ m.command = c
    BY <1>0, <2>3, <2>7 DEF LateSettle, Settled, TypeOK, LateMoves
  <2>. QED BY <1>7, <2>2, <2>4, <2>5, <2>6, <2>7
<1>. QED BY <1>2, <1>3, <1>4, <1>5, <1>6, <1>7 DEF Next, RouteStep, LateStep

\* A request that has marked a row stays until it has settled the row again.
LEMMA MarksAreSettled ==
    ASSUME DeliveryInv, [Next]_vars, NEW c \in Commands, MarkedLate(c)
    PROVE  MarkedLate(c)' \/ delivery'[c].state \in TerminalDelivery
<1>. USE PartsFit
<1>1. PICK n \in late : n.command = c /\ n.pc = "ask"
  BY DEF MarkedLate
<1>2. CASE n \in late'
  BY <1>1, <1>2 DEF MarkedLate
<1>3. ASSUME NEW m \in late, \/ LateRead(m) \/ LateInsert(m) \/ LateEnqueue(m)
                               \/ LateMark(m) \/ LateSettle(m)
      PROVE  n \in late' \/ delivery'[c].state \in TerminalDelivery
  <2>1. CASE n # m
    BY <1>3, <2>1 DEF LateRead, LateInsert, LateEnqueue, LateMark, LateSettle, LateMove, LateEnd
  <2>2. CASE n = m
    <3>1. LateSettle(m) /\ delivery \in [Commands -> Delivery]
      BY <1>1, <1>3, <2>2 DEF LateRead, LateInsert, LateEnqueue, LateMark, DeliveryInv, TypeOK
    <3>. QED BY <1>1, <2>2, <3>1 DEF LateSettle, Settled, DeliveryState, TerminalDelivery
  <2>. QED BY <2>1, <2>2
<1>4. ASSUME NEW d \in Commands, DispatchStep(d) \/ StepGivesUp(d) PROVE late \subseteq late'
  BY <1>4 DEF DispatchStep, StepGivesUp, ReadDelivery, InsertDelivery, EnqueueCommand,
              MarkDelivered, AskResult, ResultPending, SettleDelivery, CallFailed
<1>5. ASSUME NEW m \in posts, \/ DeliverPost(m) \/ ReadBinding(m) \/ CommitReceipt(m)
                               \/ LosePost(m)
      PROVE  UNCHANGED late
  BY <1>5 DEF DeliverPost, ReadBinding, CommitReceipt, LosePost, cloudVars
<1>6. ASSUME NEW p \in Processes,
             \/ Poll(p) \/ TakePolled(p) \/ LosePolled(p) \/ Handle(p) \/ KeepLease(p)
             \/ PostResult(p) \/ AgentCrash(p) \/ ClientTimeout(p)
      PROVE  UNCHANGED late
  BY <1>6 DEF Poll, TakePolled, LosePolled, Handle, KeepLease, PostResult, AgentCrash,
              ClientTimeout, cloudVars
<1>7. ASSUME Timeout \/ CoordinatorRestart \/ LeaseRunsOut \/ Expiry \/ UNCHANGED vars
      PROVE  UNCHANGED late
  BY <1>7 DEF Timeout, CoordinatorRestart, LeaseRunsOut, Expiry, vars, cloudVars
<1>. QED BY <1>2, <1>3, <1>4, <1>5, <1>6, <1>7 DEF Next, RouteStep, LateStep

\* The places that record how a command ended agree, and none is ahead of the
\* coordinator: a terminal row of the coordinator is final, so what was copied
\* from it stays right.
LEMMA OutcomesPreserved ==
    ASSUME DeliveryInv, [Next]_vars PROVE CloudFollows' /\ OutcomesAgree'
<1>. USE PartsFit, SentinelsAreDistinct
<1>. SUFFICES ASSUME NEW c \in Commands
              PROVE  /\ delivery'[c].state \in TerminalDelivery
                           \/ receipt'[Key[c]] # NoResult
                        => row'[Key[c]].status \in Terminal
                     /\ delivery'[c].state \in TerminalDelivery =>
                          /\ delivery'[c].result = ReadResult(Key[c])'
                          /\ delivery'[c].state
                               = DeliveryState(ReadResult(Key[c])'.status)
                     /\ delivery'[c].result # NoResult
                          => delivery'[c].result = ReadResult(Key[c])'
                     /\ receipt'[Key[c]] # NoResult
                          => receipt'[Key[c]] = ReadResult(Key[c])'
                     /\ dispatch'[c].pc = "done" =>
                          /\ dispatch'[c].result = ReadResult(Key[c])'
                          /\ delivery'[c].result = ReadResult(Key[c])'
                          /\ delivery'[c].state \in TerminalDelivery \/ MarkedLate(c)'
  BY DEF CloudFollows, OutcomesAgree, StepAt, TerminalDelivery, DeliveryState, MarkedLate
<1>1. /\ delivery[c].state \in TerminalDelivery \/ receipt[Key[c]] # NoResult
           => row[Key[c]].status \in Terminal
      /\ delivery[c].state \in TerminalDelivery =>
           /\ delivery[c].result = ReadResult(Key[c])
           /\ delivery[c].state = DeliveryState(ReadResult(Key[c]).status)
      /\ delivery[c].result # NoResult => /\ row[Key[c]].status \in Terminal
                                          /\ delivery[c].result = ReadResult(Key[c])
      /\ receipt[Key[c]] # NoResult => receipt[Key[c]] = ReadResult(Key[c])
  BY DEF DeliveryInv, CloudFollows, OutcomesAgree, TerminalDelivery, ReadResult
<1>2. dispatch[c].pc = "done" =>
        /\ row[Key[c]].status \in Terminal
        /\ dispatch[c].result = ReadResult(Key[c])
        /\ delivery[c].result = ReadResult(Key[c])
        /\ delivery[c].state \in TerminalDelivery \/ MarkedLate(c)
  <2>1. SUFFICES ASSUME dispatch[c].pc = "done"
                 PROVE  /\ row[Key[c]].status \in Terminal
                        /\ dispatch[c].result = ReadResult(Key[c])
                        /\ delivery[c].result = ReadResult(Key[c])
                        /\ delivery[c].state \in TerminalDelivery \/ MarkedLate(c)
    OBVIOUS
  <2>2. dispatch[c].result = ReadResult(Key[c]) /\ dispatch[c].result \in Result
    BY <2>1 DEF DeliveryInv, OutcomesAgree, StepAt, TypeOK
  <2>3. delivery[c].result = ReadResult(Key[c])
    BY <2>1 DEF DeliveryInv, OutcomesAgree, StepAt
  <2>4. delivery[c].state \in TerminalDelivery \/ MarkedLate(c)
    BY <2>1 DEF DeliveryInv, OutcomesAgree, StepAt, TerminalDelivery
  <2>. QED BY <2>2, <2>3, <2>4 DEF ReadResult
<1>3. row[Key[c]].status \in Terminal
        => row'[Key[c]].status \in Terminal /\ ReadResult(Key[c])' = ReadResult(Key[c])
  BY RowSteps DEF ReadResult
<1>4. MarkedLate(c) => MarkedLate(c)' \/ delivery'[c].state \in TerminalDelivery
  BY MarksAreSettled
<1>5. ASSUME NEW res, res = ReadResult(Key[c]), row[Key[c]].status \in Terminal,
             delivery'[c] = [state |-> DeliveryState(res.status), result |-> res]
      PROVE  /\ row'[Key[c]].status \in Terminal
             /\ delivery'[c].state \in TerminalDelivery
             /\ delivery'[c].result = ReadResult(Key[c])'
             /\ delivery'[c].state = DeliveryState(ReadResult(Key[c])'.status)
  BY <1>3, <1>5 DEF DeliveryState, TerminalDelivery
<1>6. CASE StepMoves(c)
  <2>1. CASE /\ receipt'[Key[c]] = receipt[Key[c]]
             /\ delivery'[c].state \notin TerminalDelivery
             /\ delivery'[c].result = delivery[c].result
             /\ dispatch'[c].pc # "done"
    BY <1>1, <1>3, <2>1
  <2>2. CASE /\ receipt'[Key[c]] = receipt[Key[c]]
             /\ delivery'[c] = delivery[c]
             /\ \/ dispatch'[c] = dispatch[c]
                \/ dispatch'[c].pc # "done"
                \/ /\ delivery[c].state \in TerminalDelivery
                   /\ dispatch'[c] = Done(delivery[c].result)
    BY <1>1, <1>2, <1>3, <1>4, <2>2 DEF Done
  <2>3. CASE /\ receipt'[Key[c]] = receipt[Key[c]]
             /\ call[c].state = "answered"
             /\ call[c].value # NoResult
             /\ delivery'[c] = [state |-> DeliveryState(call[c].value.status),
                                result |-> call[c].value]
             /\ dispatch'[c] = Done(call[c].value)
    <3>1. call[c].value.key = Key[c]
      BY <2>3 DEF DeliveryInv, CallsAreOwn
    <3>2. row[Key[c]].status \in Terminal /\ row[Key[c]].result = call[c].value
      BY <2>3, <3>1 DEF DeliveryInv, CoordinatorInv, AnswersAreTerminal
    <3>3. ReadResult(Key[c]) = call[c].value
      BY <3>2 DEF ReadResult
    <3>. QED BY <1>1, <1>3, <1>5, <2>3, <3>2, <3>3 DEF Done
  <2>. QED BY <1>6, <2>1, <2>2, <2>3 DEF StepMoves
<1>7. CASE LateMoves(c)
  <2>1. receipt'[Key[c]] = receipt[Key[c]] /\ dispatch'[c] = dispatch[c]
    BY <1>7 DEF LateMoves
  <2>2. CASE /\ delivery[c].state \notin TerminalDelivery \/ MarkedLate(c)'
             /\ delivery'[c].state \notin TerminalDelivery
             /\ delivery'[c].result = delivery[c].result
    BY <1>1, <1>2, <1>3, <1>4, <2>1, <2>2
  <2>3. CASE /\ ReadResult(Key[c]) # NoResult
             /\ delivery'[c] = [state |-> DeliveryState(ReadResult(Key[c]).status),
                                result |-> ReadResult(Key[c])]
    <3>1. row[Key[c]].status \in Terminal
      BY <2>3 DEF ReadResult
    <3>. QED BY <1>1, <1>2, <1>3, <1>5, <2>1, <2>3, <3>1
  <2>. QED BY <1>7, <2>2, <2>3 DEF LateMoves, TerminalDelivery
<1>8. CASE RouteMoves(c)
  <2>1. PICK m \in posts :
          /\ m.stage = "bound"
          /\ m.result.key = Key[c]
          /\ receipt'[Key[c]] = m.result
          /\ dispatch'[c] = dispatch[c]
          /\ \/ /\ delivery[c].state \in TerminalDelivery
                /\ delivery'[c] = delivery[c]
             \/ delivery'[c] = [state |-> DeliveryState(m.result.status),
                                result |-> m.result]
    BY <1>8 DEF RouteMoves
  <2>2. row[Key[c]].status \in Terminal /\ ReadResult(Key[c]) = m.result
    BY <2>1 DEF DeliveryInv, PostsAreBacked, ReadResult
  <2>3. receipt'[Key[c]] = ReadResult(Key[c])'
    BY <1>3, <2>1, <2>2
  <2>. QED BY <1>1, <1>2, <1>3, <1>5, <2>1, <2>2, <2>3
<1>. QED BY <1>6, <1>7, <1>8, CloudSteps

\* A command is handed out when it is the head of the queue, or when it arrives
\* while an agent waits, which it does only at an empty queue; from the poll it
\* passes to the process that takes it.
LEMMA HandOuts ==
    ASSUME DeliveryInv, [Next]_vars, NEW c \in Commands, HandedOut(c)'
    PROVE  HandedOut(c) \/ InTurn(c)'
<1>. USE PartsFit, SentinelsAreDistinct
<1>0. /\ CoordinatorTypeOK
      /\ AgentTypeOK
      /\ RowsAreFiled
      /\ NoLostWakeup
  BY DEF DeliveryInv, CoordinatorInv, AgentInv
<1>1. ASSUME NEW p \in Processes, poll'[p] = Answer(c), poll[p] # Answer(c)
      PROVE  InTurn(c)'
  <2>0. poll'[p] # Idle /\ poll'[p] # Waiting /\ Answer(c) # Answer(Empty)
    BY <1>1 DEF Answer, Idle, Waiting
  <2>1. ASSUME NEW d \in Commands, Insert(d) PROVE InTurn(c)'
    <3>1. poll[p] = Waiting /\ poll'[p] = Answer(d)
      BY <1>1, <2>1 DEF Insert, WakePolls
    <3>2. d = c
      BY <1>1, <3>1 DEF Answer
    <3>3. Queued = {}
      BY <1>0, <3>1 DEF NoLostWakeup
    <3>4. row' = [row EXCEPT ![Key[c]] =
                    [status |-> "queued", command |-> c,
                     sequence |-> NextSequence, result |-> NoResult]]
      BY <2>1, <3>2 DEF Insert
    <3>5. /\ row'[Key[c]] # NoRow
          /\ \A k \in Keys : row'[k].status = "queued" => k = Key[c]
      BY <1>0, <3>3, <3>4 DEF Queued, NoRow, CoordinatorTypeOK
    <3>6. row'[Key[c]].sequence \in Nat
      BY <1>0, <3>4 DEF NextSequence, CoordinatorTypeOK
    <3>. QED BY <3>5, <3>6 DEF InTurn
  <2>2. ASSUME NEW q \in Pollers, WaitForCommand(q) PROVE InTurn(c)'
    <3>1. PICK k \in Keys : IsHead(k) /\ poll'[p] = Answer(row[k].command)
      BY <1>0, <1>1, <2>0, <2>2 DEF WaitForCommand, CoordinatorTypeOK
    <3>2. row[k].command = c /\ k = Key[c]
      BY <1>0, <1>1, <3>1 DEF Answer, IsHead, Pending, Queued, RowsAreFiled, NoRow
    <3>3. row' = DrainedRows /\ Key[c] \in Pending
      BY <2>2, <3>1, <3>2 DEF WaitForCommand, IsHead
    <3>4. row'[Key[c]] = row[Key[c]] /\ row[Key[c]] \in Row
      BY <1>0, <3>3 DEF DrainedRows, Pending, Queued, NoRow, CoordinatorTypeOK
    <3>5. ASSUME NEW j \in Keys, row'[j].status = "queued"
          PROVE  j \in Pending /\ row'[j] = row[j]
      <4>1. CASE j \in Queued \ Pending
        <5>1. row[j] \in Row
          BY <1>0, <4>1 DEF Queued, NoRow, CoordinatorTypeOK
        <5>2. row'[j].status = "expired"
          BY <3>3, <4>1, <5>1 DEF DrainedRows, Row
        <5>. QED BY <3>5, <5>2
      <4>2. CASE j \notin Queued \ Pending
        BY <3>3, <3>5, <4>2 DEF DrainedRows, Queued
      <4>. QED BY <4>1, <4>2
    <3>6. \A j \in Keys : row'[j].status = "queued"
                            => row'[j].sequence >= row'[Key[c]].sequence
      <4>1. \A j \in Pending : row[Key[c]].sequence <= row[j].sequence
        BY <3>1, <3>2 DEF IsHead
      <4>2. \A j \in Pending : row[j].sequence \in Nat
        BY <1>0 DEF Pending, Queued, CoordinatorTypeOK, Row, NoRow
      <4>3. row[Key[c]].sequence \in Nat
        BY <3>4 DEF Row
      <4>. QED BY <3>4, <3>5, <4>1, <4>2, <4>3
    <3>. QED BY <3>4, <3>6 DEF InTurn
  <2>3. ~ \E q \in Pollers : PollTimeout(q) \/ TakeCommand(q)
    BY <1>0, <1>1, <2>0 DEF PollTimeout, TakeCommand, CoordinatorTypeOK
  <2>4. ~ IsolateRestart /\ ~ ClientsLeave
    BY <1>0, <1>1, <2>0 DEF IsolateRestart, ClientsLeave, CoordinatorTypeOK
  <2>. QED BY <1>1, <2>1, <2>2, <2>3, <2>4, StepsOfCoordinator
       DEF DeliveryInv, OwnStep, Enqueue, StorePost, Store, coordinatorVars, Elapse,
           WaitForCommandResult, ResultTimeout, TakeResult
<1>2. ASSUME NEW p \in Processes, ~At(p, "idle")', Cmd(p)' = c,
             At(p, "idle") \/ Cmd(p) # c
      PROVE  HandedOut(c)
  <2>1. ASSUME NEW q \in Processes, TakePolled(q), handler' # handler
        PROVE  HandedOut(c)
    <3>1. PICK s \in Stamps : Receive(q, poll[q].value, s)
      BY <2>1 DEF TakePolled, agentVars
    <3>2. p = q /\ poll[q].value = c
      BY <1>0, <1>2, <3>1 DEF Receive, AgentTypeOK, At, Cmd
    <3>3. poll[q].state = "answered"
      BY <2>1 DEF TakePolled, TakeCommand
    <3>4. poll[q] = Answer(c)
      BY <1>0, <3>2, <3>3 DEF CoordinatorTypeOK, Answer, Idle, Waiting
    <3>. QED BY <3>4 DEF HandedOut
  <2>2. ASSUME NEW q \in Processes, HandlerStep(q) \/ Renew(q) \/ Acknowledge(q)
        PROVE  FALSE
    <3>1. \/ UNCHANGED handler
          \/ handler' = [handler EXCEPT ![q] = AtRest]
          \/ /\ ~At(q, "idle")
             /\ \E h : h.command = Cmd(q) /\ handler' = [handler EXCEPT ![q] = h]
      <4>1. CASE RefuseEnvelope(q) \/ AnswerFromClaim(q) \/ CompletionFails(q)
        BY <4>1 DEF RefuseEnvelope, AnswerFromClaim, CompletionFails, Reject, Carry, Rest, At
      <4>2. CASE TakeClaim(q) \/ Validate(q) \/ Apply(q) \/ ExecutionSucceeds(q)
        BY <4>2 DEF TakeClaim, Validate, Apply, ExecutionSucceeds, GoTo, Carry, At
      <4>3. CASE ExecutionFails(q) \/ UpdateResponsePending(q) \/ Complete(q)
        BY <4>3 DEF ExecutionFails, UpdateResponsePending, Complete, Working, Carry, Rest, At
      <4>4. CASE Renew(q) \/ Acknowledge(q)
        BY <4>4 DEF Renew, Acknowledge, Rest
      <4>. QED BY <2>2, <4>1, <4>2, <4>3, <4>4 DEF HandlerStep
    <3>. QED BY <1>0, <1>2, <3>1 DEF AgentTypeOK, At, Cmd, AtRest
  <2>3. ASSUME NEW q \in Processes, AgentCrash(q) PROVE FALSE
    BY <1>0, <1>2, <2>3 DEF AgentCrash, AtRest, At, Cmd, AgentTypeOK
  <2>4. CASE UNCHANGED handler
    BY <1>2, <2>4 DEF At, Cmd
  <2>5. ASSUME NEW d \in Commands, DispatchStep(d) \/ StepGivesUp(d)
        PROVE  UNCHANGED handler
    BY <2>5 DEF DispatchStep, StepGivesUp, ReadDelivery, InsertDelivery, EnqueueCommand,
                MarkDelivered, AskResult, ResultPending, SettleDelivery, CallFailed,
                agentVars
  <2>6. ASSUME NEW q \in Processes, Poll(q) \/ LosePolled(q) \/ ClientTimeout(q)
        PROVE  UNCHANGED handler
    BY <2>6 DEF Poll, LosePolled, ClientTimeout, agentVars
  <2>7. ASSUME NEW m \in posts,
               DeliverPost(m) \/ ReadBinding(m) \/ CommitReceipt(m) \/ LosePost(m)
        PROVE  UNCHANGED handler
    BY <2>7 DEF DeliverPost, ReadBinding, CommitReceipt, LosePost, agentVars
  <2>8. ASSUME Timeout \/ CoordinatorRestart \/ LeaseRunsOut \/ Expiry \/ UNCHANGED vars
        PROVE  UNCHANGED handler
    BY <2>8 DEF Timeout, CoordinatorRestart, LeaseRunsOut, Expiry, LeaseLapses, Lapse, vars,
                agentVars
  <2>9. ASSUME LateStep PROVE UNCHANGED handler
    BY <2>9, LateSteps DEF DeliveryInv, agentVars
  <2>. QED BY <2>1, <2>2, <2>3, <2>4, <2>5, <2>6, <2>7, <2>8, <2>9
           DEF Next, RouteStep, Handle, KeepLease, PostResult
<1>3. \/ \E p \in Processes : poll'[p] = Answer(c)
      \/ \E p \in Processes : ~At(p, "idle")' /\ Cmd(p)' = c
  BY DEF HandedOut
<1>. QED BY <1>1, <1>2, <1>3 DEF HandedOut

\* A command in turn stays in turn: later commands take later places.
LEMMA TurnsPreserved ==
    ASSUME DeliveryInv, [Next]_vars PROVE TurnsAreKept'
<1>. USE PartsFit
<1>1. SUFFICES ASSUME NEW c \in Commands, InTurn(c) PROVE InTurn(c)'
  BY HandOuts DEF DeliveryInv, TurnsAreKept
<1>2. /\ row'[Key[c]] # NoRow
      /\ row'[Key[c]].sequence = row[Key[c]].sequence
      /\ row[Key[c]].sequence \in Nat
      /\ row[Key[c]].sequence <= issued
      /\ issued \in Nat
  BY <1>1, RowSteps
     DEF InTurn, DeliveryInv, SequencesAreIssued, CoordinatorInv, CoordinatorTypeOK, Row
<1>3. ASSUME NEW k \in Keys, row'[k].status = "queued"
      PROVE  row'[k].sequence >= row'[Key[c]].sequence
  <2>1. CASE row'[k] = row[k]
    BY <1>1, <1>2, <1>3, <2>1 DEF InTurn
  <2>2. CASE row'[k] # row[k]
    <3>1. row'[k].sequence = issued + 1
      BY <1>3, <2>2, RowSteps
    <3>. QED BY <1>2, <3>1
  <2>. QED BY <2>1, <2>2
<1>. QED BY <1>2, <1>3 DEF InTurn
\* DeliveryInv is inductive.
LEMMA DeliveryStepInv ==
    ASSUME DeliveryInv, [Next]_vars PROVE DeliveryInv'
BY PartsPreserved, TypesPreserved, RowsPreserved, AnswersPreserved, PostsPreserved,
   CallsPreserved, SuccessesPreserved, OutcomesPreserved, TurnsPreserved
DEF DeliveryInv

-----------------------------------------------------------------------------
(* The theorems *)

\* The inductive invariant holds in every reachable state.
THEOREM DeliveryInvHolds == Spec => []DeliveryInv
<1>1. DeliveryInv /\ [Next]_vars => DeliveryInv'
  BY DeliveryStepInv
<1>. QED BY <1>1, DeliveryInitInv, PTL DEF Spec

\* Type correctness of the four parties and of what is between them.
THEOREM DeliveryTypes == Spec => []TypeOK
<1>1. DeliveryInv => TypeOK
  BY DEF DeliveryInv
<1>. QED BY <1>1, DeliveryInvHolds, PTL

\* The delivery row, the audit receipt and the workflow step never disagree
\* with the coordinator about how a command ended.
THEOREM OutcomesAlwaysAgree == Spec => []OutcomesAgree
<1>1. DeliveryInv => OutcomesAgree
  BY DEF DeliveryInv
<1>. QED BY <1>1, DeliveryInvHolds, PTL

\* The control plane never calls a command a success that the node did not
\* apply and store as one.
THEOREM SuccessesHaveReceipts == Spec => []SuccessHasReceipt
<1>1. DeliveryInv => SuccessHasReceipt
  BY DEF DeliveryInv
<1>. QED BY <1>1, DeliveryInvHolds, PTL

\* The guarantees of the coordinator and of the agent, with each other for an
\* environment: the watermark, the wake-ups, the durable answers, the single
\* success of a revision and the revisions table.
THEOREM PartsKeepTheirPromises ==
    Spec => []/\ WatermarkIsContiguousPrefix
              /\ NoLostWakeup
              /\ AnswersAreDurable
              /\ OneSuccessPerRevision
              /\ RevisionIsLatestReceipt
<1>1. DeliveryInv => /\ WatermarkIsContiguousPrefix
                     /\ NoLostWakeup
                     /\ AnswersAreDurable
                     /\ OneSuccessPerRevision
                     /\ RevisionIsLatestReceipt
  BY DEF DeliveryInv, CoordinatorInv, AgentInv, AnswersAreTerminal, AnswersAreDurable
<1>. QED BY <1>1, DeliveryInvHolds, PTL

\* The node is changed in the order of the queue, with any number of agent
\* processes, restarts and lost messages.
THEOREM EffectsStayInOrder == Spec => EffectsInOrder
<1>1. ASSUME DeliveryInv, [Next]_vars
      PROVE  [\A p \in Processes :
                At(p, "executing") /\ handler'[p].pc = "executed"
                => \A k \in Keys : row[k].status = "queued"
                                     => row[k].sequence >= row[Key[Cmd(p)]].sequence]_vars
  <2>1. SUFFICES ASSUME NEW p \in Processes, At(p, "executing")
                 PROVE  InTurn(Cmd(p))
    BY DEF InTurn
  <2>2. Cmd(p) \in Commands /\ ~At(p, "idle")
    BY <1>1, <2>1, BusyProcess DEF DeliveryInv, AgentInv, At
  <2>. QED BY <1>1, <2>2 DEF DeliveryInv, TurnsAreKept, HandedOut
<1>. QED BY <1>1, DeliveryInvHolds, PTL DEF Spec, EffectsInOrder
-----------------------------------------------------------------------------
(* The protocol implements the ledger *)

Ledgered == {k \in Keys : Success(k)}
Outcomes == [k \in Keys |-> IF row[k].status \in Terminal THEN row[k].status ELSE "open"]
Tellings == [c \in Commands |-> IF StepAt(c, "done")
                                THEN IF dispatch[c].result.status = "succeeded"
                                     THEN "succeeded" ELSE "failed"
                                ELSE "open"]

\* A step of the agent takes one command into the ledger, or none.
LEMMA AgentTakes ==
    ASSUME DeliveryInv, [AgentNext]_agentVars
    PROVE  \/ Ledgered' = Ledgered /\ UNCHANGED revision
           \/ \E c \in Commands :
                /\ Key[c] \in Keys \ Ledgered
                /\ Ledgered' = Ledgered \cup {Key[c]}
                /\ \/ c \in Inspections /\ UNCHANGED revision
                   \/ /\ c \notin Inspections
                      /\ revision[Resource[c]] = Prior[c]
                      /\ revision' = [revision EXCEPT ![Resource[c]] = Prior[c] + 1]
<1>. USE ProtocolAssumption
<1>0. AgentTypeOK /\ AgentInv
  BY DEF DeliveryInv, AgentInv
<1>1. CASE UNCHANGED <<claim, revision>>
  BY <1>1 DEF Ledgered, Success, Receipt
<1>2. ASSUME UNCHANGED revision,
             \A k \in Keys : Receipt(k) \/ Receipt(k)' => claim'[k] = claim[k]
      PROVE  Ledgered' = Ledgered
  BY <1>2 DEF Ledgered, Success, Receipt
<1>3. ASSUME NEW p \in Processes, TakeClaim(p) PROVE UNCHANGED revision /\ Ledgered' = Ledgered
  BY <1>0, <1>2, <1>3 DEF TakeClaim, Claimable, ClaimOf, Receipt, NoClaim, AgentTypeOK
<1>4. ASSUME NEW p \in Processes, Renew(p) PROVE UNCHANGED revision /\ Ledgered' = Ledgered
  BY <1>0, <1>2, <1>4 DEF Renew, Holds, ClaimOf, Receipt, NoClaim, Claim, AgentTypeOK
<1>5. ASSUME NEW j \in Keys, LeaseLapses(j) PROVE UNCHANGED revision /\ Ledgered' = Ledgered
  BY <1>0, <1>2, <1>5 DEF LeaseLapses, Receipt, NoClaim, Claim, AgentTypeOK
<1>6. ASSUME NEW p \in Processes, Complete(p)
      PROVE  \/ Ledgered' = Ledgered /\ UNCHANGED revision
             \/ \E c \in Commands :
                  /\ Key[c] \in Keys \ Ledgered
                  /\ Ledgered' = Ledgered \cup {Key[c]}
                  /\ \/ c \in Inspections /\ UNCHANGED revision
                     \/ /\ c \notin Inspections
                        /\ revision[Resource[c]] = Prior[c]
                        /\ revision' = [revision EXCEPT ![Resource[c]] = Prior[c] + 1]
  <2>1. PICK c \in Commands, res \in Result : c = Cmd(p) /\ res = handler[p].result
    BY <1>0, <1>6, CompleteFacts, BusyProcess DEF Complete, At
  <2>2. /\ Key[c] \in Keys
        /\ claim[Key[c]].state = "in_progress"
        /\ claim'[Key[c]].state = "completed"
        /\ claim'[Key[c]].result = res
        /\ \A j \in Keys \ {Key[c]} : claim'[j] = claim[j]
    BY <1>0, <1>6, <2>1, CompleteFacts
  <2>3. /\ Advances(res) => /\ Prior[c] \in Nat
                            /\ Prior[c] = revision[Resource[c]]
                            /\ revision' = [revision EXCEPT ![Resource[c]] = Prior[c] + 1]
        /\ ~Advances(res) => revision' = revision
    BY <1>0, <1>6, <2>1, CompleteFacts
  <2>4. Key[c] \notin Ledgered
    BY <2>2 DEF Ledgered, Success, Receipt
  <2>5. CASE res.status = "succeeded"
    <3>1. Ledgered' = Ledgered \cup {Key[c]}
      BY <2>2, <2>5 DEF Ledgered, Success, Receipt
    <3>2. res.revision = NextRevision(c)
      BY <1>0, <1>6, <2>1, <2>5 DEF Complete, AgentInv, CarriedResultsAreSound
    <3>3. Advances(res) <=> c \notin Inspections
      BY <2>5, <3>2 DEF Advances, NextRevision, NoRevision
    <3>. QED BY <2>2, <2>3, <2>4, <3>1, <3>3
  <2>6. CASE res.status # "succeeded"
    <3>1. Ledgered' = Ledgered
      BY <2>2, <2>6 DEF Ledgered, Success, Receipt
    <3>. QED BY <2>3, <2>6, <3>1 DEF Advances
  <2>. QED BY <2>5, <2>6
<1>. QED
  BY <1>1, <1>3, <1>4, <1>5, <1>6
  DEF AgentNext, HandlerStep, Receive, RefuseEnvelope, AnswerFromClaim, Validate, Apply,
      ExecutionSucceeds, ExecutionFails, UpdateResponsePending, CompletionFails,
      Acknowledge, Crash, Lapse, agentVars

\* A step of the coordinator that takes no result decides nothing.
LEMMA OwnStepsDecideNothing ==
    ASSUME DeliveryInv, [OwnStep]_coordinatorVars \/ ClientsLeave
    PROVE  Outcomes' = Outcomes
<1>. USE PartsFit
<1>0. row \in [Keys -> Row \cup {NoRow}]
  BY DEF DeliveryInv, CoordinatorInv, CoordinatorTypeOK
<1>1. CASE UNCHANGED row
  BY <1>1 DEF Outcomes
<1>2. ASSUME NEW k \in Keys, row'[k] # row[k]
      PROVE  row[k].status \notin Terminal /\ row'[k].status \notin Terminal
  <2>1. ASSUME NEW c \in Commands, Insert(c)
        PROVE  row[k].status \notin Terminal /\ row'[k].status \notin Terminal
    BY <1>0, <1>2, <2>1 DEF Insert, EnqueueAnswer, NoRow, Terminal
  <2>2. ASSUME NEW p \in Pollers, WaitForCommand(p)
        PROVE  row[k].status \notin Terminal /\ row'[k].status \notin Terminal
    <3>1. row[k] \in Row /\ row[k].status = "queued"
      BY <1>0, <1>2, <2>2 DEF WaitForCommand, DrainedRows, Queued, NoRow
    <3>2. row'[k] = [row[k] EXCEPT !.status = "expired"]
      BY <1>2, <2>2 DEF WaitForCommand, DrainedRows
    <3>3. row'[k].status = "expired"
      BY <3>1, <3>2 DEF Row
    <3>. QED BY <3>1, <3>3 DEF Terminal
  <2>. QED
    BY <1>2, <2>1, <2>2
    DEF OwnStep, ClientsLeave, coordinatorVars, Enqueue, Elapse, PollTimeout, TakeCommand,
        WaitForCommandResult, ResultTimeout, TakeResult, IsolateRestart
<1>. QED BY <1>2 DEF Outcomes

\* A step of the composition moves the ledger, the outcomes or the tellings,
\* and never two of them.
LEMMA LedgerMoves ==
    ASSUME DeliveryInv, [Next]_vars
    PROVE  \/ UNCHANGED <<row, dispatch>>
           \/ UNCHANGED <<claim, revision, dispatch>>
                /\ ([OwnStep]_coordinatorVars \/ ClientsLeave \/ StorePost)
           \/ UNCHANGED <<claim, revision>> /\ Outcomes' = Outcomes
                /\ \E c \in Commands : DispatchStep(c) \/ StepGivesUp(c)
<1>. USE PartsFit
<1>0. TypeOK
  BY DEF DeliveryInv
<1>1. ASSUME NEW c \in Commands, DispatchStep(c) \/ StepGivesUp(c)
      PROVE  Outcomes' = Outcomes
  <2>1. CASE EnqueueCommand(c)
    <3>1. [OwnStep]_coordinatorVars
      BY <2>1 DEF EnqueueCommand, OwnStep
    <3>. QED BY <3>1, OwnStepsDecideNothing
  <2>2. CASE ~EnqueueCommand(c)
    <3>1. UNCHANGED row
      BY <1>1, <2>2
         DEF DispatchStep, StepGivesUp, ReadDelivery, InsertDelivery, MarkDelivered, AskResult,
             WaitForCommandResult, ResultPending, SettleDelivery, TakeResult, CallFailed,
             coordinatorVars
    <3>. QED BY <3>1 DEF Outcomes
  <2>. QED BY <2>1, <2>2
<1>2. ASSUME NEW c \in Commands, DispatchStep(c) \/ StepGivesUp(c)
      PROVE  UNCHANGED <<claim, revision>>
  BY <1>2 DEF DispatchStep, StepGivesUp, ReadDelivery, InsertDelivery, EnqueueCommand,
              MarkDelivered, AskResult, ResultPending, SettleDelivery, CallFailed, agentVars
<1>3. ASSUME NEW p \in Processes,
             \/ Poll(p) \/ TakePolled(p) \/ LosePolled(p) \/ AgentCrash(p)
             \/ ClientTimeout(p)
      PROVE  UNCHANGED <<claim, revision, dispatch>>
  BY <1>3 DEF Poll, TakePolled, LosePolled, AgentCrash, ClientTimeout, Receive, agentVars,
              cloudVars
<1>4. ASSUME NEW p \in Processes, Handle(p) \/ KeepLease(p) \/ PostResult(p)
      PROVE  UNCHANGED <<row, dispatch>>
  BY <1>4 DEF Handle, KeepLease, PostResult, coordinatorVars, cloudVars
<1>5. ASSUME NEW m \in posts,
             DeliverPost(m) \/ ReadBinding(m) \/ CommitReceipt(m) \/ LosePost(m)
      PROVE  UNCHANGED <<claim, revision, dispatch>>
  BY <1>5 DEF DeliverPost, ReadBinding, CommitReceipt, LosePost, agentVars, cloudVars
<1>6. ASSUME Timeout \/ CoordinatorRestart \/ Expiry \/ UNCHANGED vars
      PROVE  UNCHANGED <<claim, revision, dispatch>>
  BY <1>6 DEF Timeout, CoordinatorRestart, Expiry, Lapse, vars, agentVars, cloudVars
<1>7. LeaseRunsOut => UNCHANGED <<row, dispatch>>
  BY DEF LeaseRunsOut, coordinatorVars, cloudVars
<1>8. [OwnStep]_coordinatorVars \/ ClientsLeave \/ StorePost
  BY <1>0, StepsOfCoordinator
<1>9. LateStep => UNCHANGED <<claim, revision, dispatch>>
  BY <1>0, LateSteps DEF agentVars
<1>. QED BY <1>1, <1>2, <1>3, <1>4, <1>5, <1>6, <1>7, <1>8, <1>9 DEF Next, RouteStep
\* A workflow step is told at its end, what was decided before.
LEMMA StepsAreTold ==
    ASSUME DeliveryInv, [Next]_vars, Outcomes' = Outcomes, NEW c \in Commands,
           DispatchStep(c) \/ StepGivesUp(c)
    PROVE  \/ Tellings' = Tellings
           \/ /\ Tellings[c] = "open"
              /\ Outcomes[Key[c]] # "open"
              /\ Tellings' = [Tellings EXCEPT ![c] = Outcomes[Key[c]]]
<1>. USE PartsFit
<1>1. \A d \in Commands \ {c} : dispatch'[d] = dispatch[d]
  BY DEF DeliveryInv, TypeOK, DispatchStep, StepGivesUp, ReadDelivery, InsertDelivery,
         EnqueueCommand, MarkDelivered, AskResult, ResultPending, SettleDelivery, CallFailed,
         Retry, Move
<1>2. dispatch[c].pc = "done" => dispatch'[c] = dispatch[c]
  BY CloudSteps DEF StepMoves, LateMoves, RouteMoves
<1>3. ASSUME dispatch[c].pc # "done", dispatch'[c].pc = "done"
      PROVE  /\ Tellings[c] = "open"
             /\ Tellings'[c] = Outcomes[Key[c]]
             /\ Outcomes[Key[c]] # "open"
  <2>1. /\ row'[Key[c]].status \in Terminal
        /\ dispatch'[c].result = row'[Key[c]].result
    <3>1. dispatch'[c].result = ReadResult(Key[c])' /\ dispatch'[c].result \in Result
      BY <1>3, OutcomesPreserved, TypesPreserved DEF OutcomesAgree, StepAt, TypeOK
    <3>. QED BY <3>1, SentinelsAreDistinct DEF ReadResult
  <2>2. row'[Key[c]].status = IF dispatch'[c].result.status = "succeeded" THEN "succeeded"
                                                                       ELSE "failed"
    BY <2>1, RowsPreserved DEF RowsFollowResults
  <2>3. Outcomes'[Key[c]] = row'[Key[c]].status
    BY <2>1 DEF Outcomes
  <2>. QED BY <1>3, <2>1, <2>2, <2>3 DEF Tellings, StepAt, Terminal
<1>4. \A d \in Commands \ {c} : Tellings'[d] = Tellings[d]
  BY <1>1 DEF Tellings, StepAt
<1>5. CASE dispatch[c].pc # "done" /\ dispatch'[c].pc = "done"
  <2>1. Tellings' = [Tellings EXCEPT ![c] = Outcomes[Key[c]]]
    BY <1>3, <1>4, <1>5 DEF Tellings
  <2>. QED BY <1>3, <1>5, <2>1
<1>6. CASE ~(dispatch[c].pc # "done" /\ dispatch'[c].pc = "done")
  <2>1. Tellings'[c] = Tellings[c]
    BY <1>2, <1>6 DEF Tellings, StepAt
  <2>2. \A d \in Commands : Tellings'[d] = Tellings[d]
    BY <1>4, <2>1
  <2>. QED BY <2>2 DEF Tellings
<1>. QED BY <1>5, <1>6

\* The result of a request decides one command, for success only with the
\* receipt of the node.
LEMMA PostsDecide ==
    ASSUME DeliveryInv, [Next]_vars, StorePost
    PROVE  \E c \in Commands, status \in {"succeeded", "failed"} :
              /\ Outcomes[Key[c]] = "open"
              /\ status = "succeeded" => Key[c] \in Ledgered
              /\ Outcomes' = [Outcomes EXCEPT ![Key[c]] = status]
<1>. USE PartsFit
<1>1. PICK m \in posts : m.stage = "sent" /\ Store(m.result)
  BY DEF StorePost
<1>2. m.result.key \in Keys /\ row \in [Keys -> Row \cup {NoRow}]
  BY DEF DeliveryInv, TypeOK, Post, Result, CoordinatorInv, CoordinatorTypeOK
<1>3. /\ row[m.result.key] \in Row
      /\ row[m.result.key] # NoRow
      /\ row[m.result.key].status \notin Terminal
  BY <1>1, <1>2 DEF Store, ResultAnswer, Applicable
<1>4. PICK c \in Commands : Key[c] = m.result.key
  BY <1>2, <1>3 DEF DeliveryInv, CoordinatorInv, RowsAreFiled, Row
<1>5. PICK status \in {"succeeded", "failed"} :
        status = IF m.result.status = "succeeded" THEN "succeeded" ELSE "failed"
  OBVIOUS
<1>6. /\ row'[Key[c]].status = status
      /\ \A k \in Keys \ {Key[c]} : row'[k] = row[k]
  BY <1>1, <1>2, <1>3, <1>4, <1>5 DEF Store, Row
<1>7. Outcomes' = [Outcomes EXCEPT ![Key[c]] = status]
  BY <1>2, <1>4, <1>5, <1>6 DEF Outcomes, Terminal
<1>8. Outcomes[Key[c]] = "open"
  BY <1>3, <1>4 DEF Outcomes
<1>9. status = "succeeded" => Key[c] \in Ledgered
  BY <1>2, <1>4, <1>5 DEF DeliveryInv, PostsAreBacked, Ledgered
<1>. QED BY <1>7, <1>8, <1>9

\* Every step of the protocol is a step of the ledger, or none that it sees.
LEMMA StepImplementsLedger ==
    ASSUME DeliveryInv, [Next]_vars
    PROVE  Ledger!LedgerNext \/ UNCHANGED Ledger!ledgerVars
<1>. USE DEF Ledgered, Outcomes, Tellings
<1>1. CASE UNCHANGED <<row, dispatch>>
  <2>1. Outcomes' = Outcomes /\ Tellings' = Tellings
    BY <1>1 DEF StepAt
  <2>2. [AgentNext]_agentVars
    BY StepsOfAgent DEF DeliveryInv
  <2>3. CASE Ledgered' = Ledgered /\ UNCHANGED revision
    BY <2>1, <2>3 DEF Ledger!ledgerVars
  <2>4. ASSUME NEW c \in Commands,
               Key[c] \in Keys \ Ledgered,
               Ledgered' = Ledgered \cup {Key[c]},
               \/ c \in Inspections /\ UNCHANGED revision
               \/ /\ c \notin Inspections
                  /\ revision[Resource[c]] = Prior[c]
                  /\ revision' = [revision EXCEPT ![Resource[c]] = Prior[c] + 1]
        PROVE  Ledger!Take(c)
    BY <2>1, <2>4 DEF Ledger!Take
  <2>. QED BY <2>2, <2>3, <2>4, AgentTakes DEF Ledger!LedgerNext
<1>2. CASE UNCHANGED <<claim, revision, dispatch>>
             /\ ([OwnStep]_coordinatorVars \/ ClientsLeave \/ StorePost)
  <2>1. UNCHANGED revision /\ Ledgered' = Ledgered /\ Tellings' = Tellings
    BY <1>2 DEF Success, Receipt, StepAt
  <2>2. CASE [OwnStep]_coordinatorVars \/ ClientsLeave
    <3>1. Outcomes' = Outcomes
      BY <2>2, OwnStepsDecideNothing
    <3>. QED BY <2>1, <3>1 DEF Ledger!ledgerVars
  <2>3. CASE StorePost
    <3>1. PICK c \in Commands, status \in {"succeeded", "failed"} :
              /\ Outcomes[Key[c]] = "open"
              /\ status = "succeeded" => Key[c] \in Ledgered
              /\ Outcomes' = [Outcomes EXCEPT ![Key[c]] = status]
      BY <2>3, PostsDecide
    <3>2. Ledger!Decide(c, status)
      BY <2>1, <3>1 DEF Ledger!Decide
    <3>. QED BY <3>2 DEF Ledger!LedgerNext
  <2>. QED BY <1>2, <2>2, <2>3
<1>3. CASE UNCHANGED <<claim, revision>> /\ Outcomes' = Outcomes
             /\ \E c \in Commands : DispatchStep(c) \/ StepGivesUp(c)
  <2>1. PICK c \in Commands : DispatchStep(c) \/ StepGivesUp(c)
    BY <1>3
  <2>2. UNCHANGED revision /\ Ledgered' = Ledgered /\ Outcomes' = Outcomes
    BY <1>3 DEF Success, Receipt
  <2>3. CASE Tellings' = Tellings
    BY <2>2, <2>3 DEF Ledger!ledgerVars
  <2>4. CASE /\ Tellings[c] = "open"
             /\ Outcomes[Key[c]] # "open"
             /\ Tellings' = [Tellings EXCEPT ![c] = Outcomes[Key[c]]]
    <3>1. Ledger!Tell(c)
      BY <2>2, <2>4 DEF Ledger!Tell
    <3>. QED BY <3>1 DEF Ledger!LedgerNext
  <2>. QED BY <2>1, <2>2, <2>3, <2>4, StepsAreTold
<1>. QED BY <1>1, <1>2, <1>3, LedgerMoves

\* The protocol starts as the ledger does.
LEMMA StartsAsLedger == Init => Ledger!LedgerInit
BY DEF Init, CoordinatorInit, AgentInit, NoRow, NoClaim, NoDelivery, Step, StepAt, Terminal,
       Success, Receipt, Ledger!LedgerInit

\* The protocol implements the ledger: whatever is lost, repeated, late or
\* restarted, a command enters the ledger once and at the revision it expects,
\* is decided once, for success only from the ledger, and the workflow is told
\* what was decided.
THEOREM ProtocolRefinesLedger == Spec => ImplementsLedger
<1>1. DeliveryInv /\ [Next]_vars => [Ledger!LedgerNext]_Ledger!ledgerVars
  BY StepImplementsLedger
<1>. QED BY <1>1, StartsAsLedger, DeliveryInvHolds, PTL
         DEF Spec, ImplementsLedger, Ledger!LedgerSpec

-----------------------------------------------------------------------------
(* One agent process: nothing is repeated after its outcome *)

\* A node runs one agent, and what it is sent names the revision it expects:
\* the success of a command that does not cannot be stored (complete).
OneAgent ==
    /\ \A p, q \in Processes : p = q
    /\ \A c \in Commands : c \in Inspections \/ Prior[c] # NoRevision

\* The process has a claim and has not stored its result.
Unstored(p) == handler[p].pc \in {"claimed", "executing", "executed", "storing"}

\* Some handling of the command came to an answer.
Answered(c) ==
    \/ row[Key[c]].status \in Terminal
    \/ \E m \in posts : m.result.key = Key[c]
    \/ \E p \in Processes : At(p, "answering") /\ Cmd(p) = c

\* An answer is a receipt, or a refusal that every later handling repeats.
AnswersHaveReason == \A c \in Commands : Answered(c) => Receipt(Key[c]) \/ c \in lapsed

\* A process that works on a command holds its claim, and was not answered for.
HandlingIsFirst == \A p \in Processes : Unstored(p) => Holds(p) /\ ~Answered(Cmd(p))

\* The revision a process compared is still the current one when it is done.
FenceWillPass ==
    \A p \in Processes :
        \/ At(p, "executing") \/ At(p, "executed")
        \/ At(p, "storing") /\ handler[p].result.status = "succeeded"
        => Prior[Cmd(p)] = NoRevision \/ Prior[Cmd(p)] = CurrentRevision(p)

OneAgentInv == AnswersHaveReason /\ HandlingIsFirst /\ FenceWillPass

\* A command is answered by a process first; from there the answer travels.
LEMMA AnswerSources ==
    ASSUME DeliveryInv, [Next]_vars, NEW c \in Commands, Answered(c)'
    PROVE  \/ Answered(c)
           \/ \E p \in Processes : /\ handler'[p] # handler[p]
                                   /\ handler'[p].pc = "answering"
                                   /\ handler'[p].command = c
<1>. USE PartsFit
<1>1. CASE row'[Key[c]].status \in Terminal
  BY <1>1, RowSteps DEF Answered
<1>2. ASSUME NEW n \in posts', n.result.key = Key[c] PROVE Answered(c)
  <2>1. ASSUME NEW p \in Processes, At(p, "answering"), n.result = handler[p].result
        PROVE  Answered(c)
    <3>1. Cmd(p) \in Commands
      BY <2>1, BusyProcess DEF At, DeliveryInv, AgentInv
    <3>2. Cmd(p) = c
      BY <1>2, <2>1, <3>1 DEF DeliveryInv, AnswersAreOwn
    <3>. QED BY <2>1, <3>2 DEF Answered
  <2>2. ASSUME NEW m \in posts, n.result = m.result PROVE Answered(c)
    BY <1>2, <2>2 DEF Answered
  <2>. QED BY <2>1, <2>2, PostSteps
<1>3. ASSUME NEW p \in Processes, handler'[p].pc = "answering", handler'[p].command = c
      PROVE  \/ Answered(c)
             \/ handler'[p] # handler[p]
  BY <1>3 DEF Answered, At, Cmd
<1>. QED BY <1>1, <1>2, <1>3 DEF Answered, At, Cmd

\* With one agent, complete never rolls back.
LEMMA CompletionSucceeds ==
    ASSUME DeliveryInv, OneAgent, OneAgentInv, NEW p \in Processes, At(p, "storing")
    PROVE  CanComplete(p)
<1>1. Holds(p)
  BY DEF OneAgentInv, HandlingIsFirst, Unstored, At
<1>2. ASSUME Advances(handler[p].result) PROVE Monotonic(p)
  <2>1. /\ Cmd(p) \in Commands /\ Prior[Cmd(p)] \in Nat \cup {NoRevision}
        /\ handler[p].result.status = "succeeded"
        /\ handler[p].result.revision = NextRevision(Cmd(p))
    BY <1>2, BusyProcess, ProtocolAssumption
       DEF Advances, DeliveryInv, AgentInv, CarriedResultsAreSound, At
  <2>2. Cmd(p) \notin Inspections
    BY <1>2, <2>1 DEF Advances, NextRevision
  <2>3. Prior[Cmd(p)] \in Nat /\ Prior[Cmd(p)] = CurrentRevision(p)
    BY <2>1, <2>2 DEF OneAgent, OneAgentInv, FenceWillPass
  <2>. QED BY <2>1, <2>2, <2>3 DEF Monotonic, NextRevision, NoRevision
<1>. QED BY <1>1, <1>2 DEF CanComplete

\* A process answers from a receipt, refuses an expired command, or stores its
\* result first.
LEMMA AnswersGetReason ==
    ASSUME DeliveryInv, OneAgent, OneAgentInv, AgentNext, NEW p \in Processes,
           handler'[p] # handler[p], handler'[p].pc = "answering"
    PROVE  LET c == handler'[p].command
           IN  claim'[Key[c]].state = "completed" \/ c \in lapsed'
<1>. USE PartsFit
<1>. DEFINE c == handler'[p].command
<1>0. AgentTypeOK /\ ClaimsAreFiled
  BY DEF DeliveryInv, AgentInv
<1>1. PICK q \in Processes :
        \/ \E d \in Commands, stamp \in Stamps : Receive(q, d, stamp)
        \/ HandlerStep(q) \/ Renew(q) \/ Acknowledge(q) \/ Crash(q)
  BY DEF AgentNext, LeaseLapses, Lapse
<1>2. q = p
  BY DEF OneAgent
<1>3. CASE RefuseEnvelope(p)
  BY <1>0, <1>3 DEF RefuseEnvelope, Reject, Carry, AgentTypeOK
<1>4. CASE AnswerFromClaim(p)
  <2>1. Cmd(p) \in Commands /\ Key[Cmd(p)] \in Keys
    BY <1>0, <1>4, BusyProcess DEF AnswerFromClaim, At
  <2>2. ClaimOf(p).command \in Commands /\ Key[ClaimOf(p).command] = Key[Cmd(p)]
    BY <1>0, <1>4, <2>1 DEF AnswerFromClaim, ClaimOf, ClaimsAreFiled, AgentTypeOK, Claim
  <2>3. ClaimOf(p).command = Cmd(p)
    BY <2>1, <2>2
  <2>4. ClaimOf(p).state = "completed" /\ c = Cmd(p)
    BY <1>0, <1>4, <2>3 DEF AnswerFromClaim, HasReceipt, Carry, Rest, AtRest, AgentTypeOK
  <2>. QED BY <1>4, <2>4 DEF AnswerFromClaim, ClaimOf
<1>5. CASE Complete(p)
  <2>1. c = Cmd(p)
    BY <1>0, <1>5 DEF Complete, Carry, AgentTypeOK
  <2>2. claim'[Key[Cmd(p)]].state = "completed"
    BY <1>5, CompleteFacts DEF DeliveryInv
  <2>. QED BY <2>1, <2>2
<1>6. ~CompletionFails(p)
  BY CompletionSucceeds DEF CompletionFails
<1>. HIDE DEF c
<1>. QED BY <1>0, <1>1, <1>2, <1>3, <1>4, <1>5, <1>6
     DEF HandlerStep, Receive, TakeClaim, Validate, Apply, ExecutionSucceeds,
         ExecutionFails, UpdateResponsePending, Renew, Acknowledge, Crash, GoTo, Carry,
         Rest, AtRest, AgentTypeOK

\* Who works on a command after a step has taken its claim in it, or worked on
\* it before; and holds it as the only process there is.
LEMMA WorkGoesOn ==
    ASSUME DeliveryInv, OneAgent, OneAgentInv, [AgentNext]_agentVars,
           NEW p \in Processes, handler'[p].pc \in {"claimed", "executing", "executed", "storing"}
    PROVE  /\ Holds(p)'
           /\ \/ TakeClaim(p) /\ handler'[p].command = Cmd(p)
              \/ Unstored(p) /\ handler'[p].command = Cmd(p)
<1>. USE PartsFit
<1>0. AgentTypeOK
  BY DEF DeliveryInv, AgentInv
<1>1. CASE UNCHANGED <<claim, handler>>
  BY <1>1 DEF OneAgentInv, HandlingIsFirst, Unstored, Holds, ClaimOf, Cmd
<1>2. ASSUME NEW j \in Keys, claim[j].state = "in_progress", NEW live \in BOOLEAN,
             claim' = [claim EXCEPT ![j].live = live], UNCHANGED handler
      PROVE  Unstored(p) /\ handler'[p].command = Cmd(p) /\ Holds(p)'
  <2>1. Unstored(p) /\ Holds(p)
    BY <1>2 DEF OneAgentInv, HandlingIsFirst, Unstored
  <2>2. claim[j] \in Claim /\ Key[Cmd(p)] \in Keys
    BY <1>0, <1>2, <2>1, BusyProcess DEF AgentTypeOK, NoClaim, Unstored, At
  <2>3. \A k \in Keys : /\ claim'[k].state = claim[k].state
                        /\ claim'[k].command = claim[k].command
                        /\ claim'[k].holder = claim[k].holder
    BY <1>0, <1>2, <2>2 DEF AgentTypeOK, Claim
  <2>. QED BY <1>2, <2>1, <2>2, <2>3 DEF Holds, ClaimOf, Cmd
<1>3. ASSUME NEW j \in Keys, LeaseLapses(j)
      PROVE  Unstored(p) /\ handler'[p].command = Cmd(p) /\ Holds(p)'
  BY <1>2, <1>3 DEF LeaseLapses
<1>4. ASSUME NEW q \in Processes,
             \/ \E d \in Commands, stamp \in Stamps : Receive(q, d, stamp)
             \/ HandlerStep(q) \/ Acknowledge(q) \/ Crash(q)
      PROVE  /\ Holds(p)'
             /\ \/ TakeClaim(p) /\ handler'[p].command = Cmd(p)
                \/ Unstored(p) /\ handler'[p].command = Cmd(p)
  <2>1. q = p
    BY DEF OneAgent
  <2>2. CASE TakeClaim(p)
    <3>1. Key[Cmd(p)] \in Keys
      BY <1>0, <2>2, BusyProcess DEF TakeClaim, At
    <3>2. handler'[p].command = Cmd(p)
      BY <1>0, <2>2 DEF TakeClaim, GoTo, AgentTypeOK
    <3>. QED BY <1>0, <2>2, <3>1, <3>2 DEF TakeClaim, Holds, ClaimOf, Cmd, AgentTypeOK
  <2>3. CASE Validate(p) \/ Apply(p) \/ ExecutionSucceeds(p) \/ ExecutionFails(p)
    <3>1. UNCHANGED claim /\ Unstored(p) /\ handler'[p].command = Cmd(p)
      BY <1>0, <2>3 DEF Validate, Apply, ExecutionSucceeds, ExecutionFails, Working, Unstored,
                        At, GoTo, Carry, AgentTypeOK
    <3>. QED BY <3>1 DEF OneAgentInv, HandlingIsFirst, Holds, ClaimOf, Cmd
  <2>4. ~(\/ \E d \in Commands, stamp \in Stamps : Receive(p, d, stamp)
          \/ RefuseEnvelope(p) \/ AnswerFromClaim(p) \/ UpdateResponsePending(p)
          \/ Complete(p) \/ CompletionFails(p) \/ Acknowledge(p) \/ Crash(p))
    BY <1>0 DEF Receive, RefuseEnvelope, AnswerFromClaim, UpdateResponsePending, Complete,
                CompletionFails, Acknowledge, Crash, Reject, Carry, Rest, AtRest, AgentTypeOK
  <2>. QED BY <1>4, <2>1, <2>2, <2>3, <2>4 DEF HandlerStep
<1>5. ASSUME NEW q \in Processes, Renew(q)
      PROVE  Unstored(p) /\ handler'[p].command = Cmd(p) /\ Holds(p)'
  <2>1. Key[Cmd(q)] \in Keys /\ claim[Key[Cmd(q)]].state = "in_progress"
    BY <1>0, <1>5, BusyProcess DEF Renew, Working, Holds, ClaimOf, At
  <2>. QED BY <1>2, <1>5, <2>1 DEF Renew
<1>. QED BY <1>1, <1>3, <1>4, <1>5 DEF AgentNext, agentVars, Lapse

\* The fence: a revision moves only when a handling ends.
LEMMA FenceStays ==
    ASSUME DeliveryInv, OneAgent, OneAgentInv, [AgentNext]_agentVars
    PROVE  FenceWillPass'
<1>. USE PartsFit
<1>. DEFINE Past(h) == \/ h.pc \in {"executing", "executed"}
                       \/ h.pc = "storing" /\ h.result.status = "succeeded"
<1>0. AgentTypeOK
  BY DEF DeliveryInv, AgentInv
<1>1. SUFFICES ASSUME NEW p \in Processes, Past(handler'[p])
               PROVE  LET c == handler'[p].command
                      IN  Prior[c] = NoRevision \/ Prior[c] = revision'[Resource[c]]
  BY DEF FenceWillPass, CurrentRevision, At, Cmd
<1>2. CASE UNCHANGED <<handler, revision>>
  BY <1>1, <1>2 DEF OneAgentInv, FenceWillPass, CurrentRevision, At, Cmd
<1>3. ASSUME NEW q \in Processes,
             \/ \E d \in Commands, stamp \in Stamps : Receive(q, d, stamp)
             \/ HandlerStep(q) \/ Acknowledge(q) \/ Crash(q)
      PROVE  LET c == handler'[p].command
             IN  Prior[c] = NoRevision \/ Prior[c] = revision'[Resource[c]]
  <2>1. q = p
    BY DEF OneAgent
  <2>2. CASE Validate(p)
    BY <1>0, <1>1, <2>2 DEF Validate, RevisionConflict, CurrentRevision, Outcome, GoTo, Carry,
                            AgentTypeOK
  <2>3. CASE Apply(p) \/ ExecutionSucceeds(p)
    BY <1>0, <1>1, <2>3 DEF Apply, ExecutionSucceeds, OneAgentInv, FenceWillPass, At,
                            CurrentRevision, GoTo, Carry, AgentTypeOK, Cmd
  <2>4. ~(\/ \E d \in Commands, stamp \in Stamps : Receive(p, d, stamp)
          \/ RefuseEnvelope(p) \/ TakeClaim(p) \/ AnswerFromClaim(p)
          \/ UpdateResponsePending(p) \/ ExecutionFails(p)
          \/ Complete(p) \/ CompletionFails(p) \/ Acknowledge(p) \/ Crash(p))
    BY <1>0, <1>1 DEF Receive, RefuseEnvelope, TakeClaim, AnswerFromClaim, UpdateResponsePending,
                ExecutionFails, Failed, Outcome, Complete, CompletionFails, Acknowledge, Crash,
                GoTo, Reject, Carry, Rest, AtRest, AgentTypeOK
  <2>. QED BY <1>3, <2>1, <2>2, <2>3, <2>4 DEF HandlerStep
<1>. QED BY <1>2, <1>3 DEF AgentNext, agentVars, Renew, LeaseLapses, Lapse

\* Every step of the protocol keeps the invariant of the single agent.
LEMMA OneAgentStep ==
    ASSUME DeliveryInv, OneAgent, OneAgentInv, [Next]_vars PROVE OneAgentInv'
<1>. USE PartsFit
<1>1. [AgentNext]_agentVars /\ AgentTypeOK
  BY StepsOfAgent DEF DeliveryInv, AgentInv
<1>2. FenceWillPass'
  BY <1>1, FenceStays
<1>3. ASSUME NEW c \in Commands, Answered(c)' PROVE Receipt(Key[c])' \/ c \in lapsed'
  <2>1. CASE Answered(c)
    <3>1. CASE c \in lapsed
      BY <1>1, <3>1 DEF AgentNext, HandlerStep, Receive, RefuseEnvelope, TakeClaim,
           AnswerFromClaim, Validate, Apply, ExecutionSucceeds, ExecutionFails,
           UpdateResponsePending, Complete, CompletionFails, Renew, Acknowledge, Crash,
           LeaseLapses, Lapse, agentVars
    <3>2. CASE Receipt(Key[c])
      BY <1>1, <3>2, ReceiptsStay DEF DeliveryInv, Receipt, agentVars
    <3>. QED BY <2>1, <3>1, <3>2 DEF OneAgentInv, AnswersHaveReason
  <2>2. ASSUME NEW p \in Processes, handler'[p] # handler[p],
               handler'[p].pc = "answering", handler'[p].command = c
        PROVE  Receipt(Key[c])' \/ c \in lapsed'
    <3>1. AgentNext
      BY <1>1, <2>2 DEF agentVars
    <3>. QED BY <2>2, <3>1, AnswersGetReason DEF Receipt
  <2>. QED BY <1>3, <2>1, <2>2, AnswerSources
<1>4. ASSUME NEW p \in Processes, Unstored(p)' PROVE (Holds(p) /\ ~Answered(Cmd(p)))'
  <2>1. /\ Holds(p)'
        /\ TakeClaim(p) \/ Unstored(p)
        /\ handler'[p].command = Cmd(p)
    BY <1>1, <1>4, WorkGoesOn DEF Unstored
  <2>2. PICK c \in Commands : c = Cmd(p)
    BY <1>1, <2>1, BusyProcess DEF TakeClaim, Unstored, At
  <2>3. ~Answered(c)
    <3>1. CASE TakeClaim(p)
      BY <2>2, <3>1 DEF TakeClaim, Claimable, ClaimOf, NoClaim, Receipt, OneAgentInv,
                        AnswersHaveReason
    <3>2. CASE Unstored(p)
      BY <2>2, <3>2 DEF OneAgentInv, HandlingIsFirst
    <3>. QED BY <2>1, <3>1, <3>2
  <2>4. \A q \in Processes : handler'[q].pc # "answering"
    BY <1>4 DEF OneAgent, Unstored
  <2>5. ~Answered(c)'
    BY <2>3, <2>4, AnswerSources
  <2>6. Cmd(p)' = c
    BY <2>1, <2>2 DEF Cmd
  <2>7. ~Answered(Cmd(p))'
    BY <2>5, <2>6 DEF Answered
  <2>. QED BY <2>1, <2>7
<1>. QED BY <1>2, <1>3, <1>4 DEF OneAgentInv, AnswersHaveReason, HandlingIsFirst

\* With one agent process, its invariant holds in every reachable state.
THEOREM OneAgentInvHolds == OneAgent /\ Spec => []OneAgentInv
<1>0. OneAgent => OneAgent'
  BY DEF OneAgent
<1>1. Init => OneAgentInv
  <2>1. ASSUME Init
        PROVE  /\ \A p \in Processes : handler[p].pc = "idle"
               /\ \A k \in Keys : row[k].status = "absent"
               /\ posts = {}
    BY <2>1 DEF Init, CoordinatorInit, AgentInit, AtRest, NoRow
  <2>. QED BY <2>1, PartsFit DEF OneAgentInv, AnswersHaveReason, HandlingIsFirst, FenceWillPass,
                                 Answered, Unstored, At, Terminal
<1>2. OneAgent /\ DeliveryInv /\ OneAgentInv /\ [Next]_vars => OneAgentInv'
  BY OneAgentStep
<1>. QED BY <1>0, <1>1, <1>2, DeliveryInvHolds, PTL DEF Spec

\* With one agent process on the node, and for every number of commands and
\* faults, the node is not changed for a command whose outcome is decided.
THEOREM OneAgentRepeatsNothing == OneAgent /\ Spec => NoEffectAfterOutcome
<1>1. OneAgentInv
      => [\A p \in Processes :
            At(p, "executing") /\ handler'[p].pc = "executed"
            => row[Key[Cmd(p)]].status \notin Terminal]_vars
  BY DEF OneAgentInv, HandlingIsFirst, Unstored, Answered, At
<1>. QED BY <1>1, OneAgentInvHolds, PTL DEF NoEffectAfterOutcome

\* With one agent process on the node, a command whose effects were applied is
\* always stored: the transaction of complete never finds its claim taken over
\* or its revision overtaken, so the effects are never left without a receipt.
THEOREM OneAgentStoresWhatItDid ==
    OneAgent /\ Spec => [](\A p \in Processes : At(p, "storing") => CanComplete(p))
<1>0. OneAgent => OneAgent'
  BY DEF OneAgent
<1>1. OneAgent /\ DeliveryInv /\ OneAgentInv
        => \A p \in Processes : At(p, "storing") => CanComplete(p)
  BY CompletionSucceeds
<1>. QED BY <1>0, <1>1, OneAgentInvHolds, DeliveryInvHolds, PTL

-----------------------------------------------------------------------------
(* What the workflow step leaves behind *)

\* A request of the command's step, given up or not, is about to enqueue it.
AboutToEnqueue(c) ==
    \/ StepAt(c, "enqueue")
    \/ \E m \in late : m.command = c /\ m.pc = "enqueue"

\* A command is enqueued after its delivery row is inserted, and no row of the
\* table is ever deleted.
KnownHasDelivery ==
    \A c \in Commands :
        AboutToEnqueue(c) \/ row[Key[c]] # NoRow => delivery[c].state # "absent"

\* A command the coordinator did not know is enqueued by its workflow step.
LEMMA RowsComeFromSteps ==
    ASSUME DeliveryInv, [Next]_vars, NEW c \in Commands,
           row[Key[c]] = NoRow, row'[Key[c]] # NoRow
    PROVE  AboutToEnqueue(c)
<1>. USE PartsFit, SentinelsAreDistinct
<1>0. TypeOK /\ row \in [Keys -> Row \cup {NoRow}]
  BY DEF DeliveryInv, TypeOK, CoordinatorTypeOK
<1>1. CASE UNCHANGED row
  BY <1>1
<1>2. ASSUME NEW d \in Commands, DispatchStep(d) \/ StepGivesUp(d)
      PROVE  AboutToEnqueue(c)
  <2>1. CASE EnqueueCommand(d)
    <3>1. CASE d = c
      BY <2>1, <3>1 DEF EnqueueCommand, AboutToEnqueue
    <3>2. CASE d # c
      <4>1. row'[Key[c]] = row[Key[c]]
        BY <1>0, <2>1, <3>2 DEF EnqueueCommand, Enqueue, Insert, coordinatorVars
      <4>. QED BY <4>1
    <3>. QED BY <3>1, <3>2
  <2>2. CASE ~EnqueueCommand(d)
    BY <1>1, <1>2, <2>2
       DEF DispatchStep, StepGivesUp, ReadDelivery, InsertDelivery, MarkDelivered, AskResult,
           ResultPending, SettleDelivery, CallFailed, WaitForCommandResult, TakeResult,
           coordinatorVars
  <2>. QED BY <2>1, <2>2
<1>3. ASSUME NEW m \in posts, DeliverPost(m) PROVE FALSE
  <2>1. m.result.key \in Keys
    BY <1>0 DEF TypeOK, Post, Result
  <2>2. CASE Store(m.result)
    <3>1. row[m.result.key] # NoRow
      BY <2>2 DEF Store, ResultAnswer, Applicable
    <3>2. row'[Key[c]] = row[Key[c]]
      BY <1>0, <2>1, <2>2, <3>1 DEF Store
    <3>. QED BY <3>2
  <2>3. CASE UNCHANGED coordinatorVars
    BY <2>3 DEF coordinatorVars
  <2>. QED BY <1>3, <2>2, <2>3 DEF DeliverPost, AcceptCommandResult
<1>4. ASSUME NEW p \in Processes, Poll(p) PROVE FALSE
  <2>1. Key[c] \notin Queued
    BY DEF Queued, NoRow
  <2>2. row'[Key[c]] = row[Key[c]]
    BY <1>4, <2>1 DEF Poll, WaitForCommand, DrainedRows
  <2>. QED BY <2>2
<1>5. ASSUME NEW p \in Processes,
             \/ TakePolled(p) \/ LosePolled(p) \/ Handle(p) \/ KeepLease(p)
             \/ PostResult(p) \/ AgentCrash(p) \/ ClientTimeout(p)
      PROVE  UNCHANGED row
  BY <1>5 DEF TakePolled, LosePolled, Handle, KeepLease, PostResult, AgentCrash,
              ClientTimeout, TakeCommand, coordinatorVars
<1>6. ASSUME NEW m \in posts, ReadBinding(m) \/ CommitReceipt(m) \/ LosePost(m)
      PROVE  UNCHANGED row
  BY <1>6 DEF ReadBinding, CommitReceipt, LosePost, coordinatorVars
<1>7. ASSUME Timeout \/ CoordinatorRestart \/ LeaseRunsOut \/ Expiry \/ UNCHANGED vars
      PROVE  UNCHANGED row
  BY <1>7 DEF Timeout, PollTimeout, ResultTimeout, CoordinatorRestart, IsolateRestart,
              LeaseRunsOut, Expiry, Elapse, vars, coordinatorVars
<1>8. ASSUME LateStep PROVE AboutToEnqueue(c)
  <2>1. PICK m \in late : m.command \in Commands /\ m.pc = "enqueue" /\ Enqueue(m.command)
    BY <1>0, <1>1, <1>8, LateSteps DEF coordinatorVars
  <2>2. CASE m.command = c
    BY <2>1, <2>2 DEF AboutToEnqueue
  <2>3. CASE m.command # c
    <3>1. row'[Key[c]] = row[Key[c]]
      BY <1>0, <2>1, <2>3 DEF Enqueue, Insert, coordinatorVars
    <3>. QED BY <3>1
  <2>. QED BY <2>2, <2>3
<1>. QED BY <1>1, <1>2, <1>3, <1>4, <1>5, <1>6, <1>7, <1>8 DEF Next, RouteStep

\* A delivery row that exists keeps existing, and a request comes to enqueue its
\* command only with one.
LEMMA DeliveriesStay ==
    ASSUME DeliveryInv, [Next]_vars, NEW c \in Commands
    PROVE  /\ delivery[c].state # "absent" => delivery'[c].state # "absent"
           /\ AboutToEnqueue(c)'
                => AboutToEnqueue(c) \/ delivery'[c].state # "absent"
<1>. USE PartsFit
<1>. DEFINE Goal ==
           /\ delivery[c].state # "absent" => delivery'[c].state # "absent"
           /\ AboutToEnqueue(c)'
                => AboutToEnqueue(c) \/ delivery'[c].state # "absent"
<1>0. TypeOK
  BY DEF DeliveryInv
<1>1. CASE UNCHANGED <<dispatch, late, delivery>>
  BY <1>1 DEF AboutToEnqueue, StepAt
<1>2. ASSUME NEW d \in Commands, DispatchStep(d) \/ StepGivesUp(d) PROVE Goal
  <2>1. CASE d # c
    BY <1>0, <1>2, <2>1
       DEF AboutToEnqueue, StepAt, Delivered, Settled,
            DispatchStep, StepGivesUp, ReadDelivery, InsertDelivery, EnqueueCommand,
           MarkDelivered, AskResult, ResultPending, SettleDelivery, CallFailed, Retry, Move, TypeOK
  <2>2. CASE d = c
    <3>1. CASE ReadDelivery(c)
      BY <1>0, <3>1 DEF ReadDelivery, Move, Step, Done, TypeOK, AboutToEnqueue, StepAt
    <3>2. CASE InsertDelivery(c) \/ MarkDelivered(c)
      <4>1. delivery'[c].state # "absent"
        BY <1>0, <3>2 DEF InsertDelivery, MarkDelivered, Delivered, TypeOK, Delivery
      <4>. QED BY <4>1
    <3>3. CASE EnqueueCommand(c) \/ AskResult(c) \/ ResultPending(c) \/ CallFailed(c)
               \/ StepGivesUp(c)
      BY <1>0, <3>3 DEF EnqueueCommand, AskResult, ResultPending, CallFailed, StepGivesUp,
                        Retry, Move, Step, TypeOK, AboutToEnqueue, StepAt
    <3>4. CASE SettleDelivery(c)
      BY <1>0, <3>4 DEF SettleDelivery, Settled, Move, Done, DeliveryState, TypeOK,
                        AboutToEnqueue, StepAt
    <3>. QED BY <1>2, <2>2, <3>1, <3>2, <3>3, <3>4 DEF DispatchStep
  <2>. QED BY <2>1, <2>2
<1>3. ASSUME NEW m \in posts, CommitReceipt(m) PROVE Goal
  BY <1>0, <1>3 DEF CommitReceipt, Settled, TypeOK, DeliveryState, AboutToEnqueue, StepAt
<1>4. ASSUME NEW m \in posts, DeliverPost(m) \/ ReadBinding(m) \/ LosePost(m) PROVE Goal
  BY <1>1, <1>4 DEF DeliverPost, ReadBinding, LosePost, cloudVars
<1>5. ASSUME NEW p \in Processes,
             \/ Poll(p) \/ TakePolled(p) \/ LosePolled(p) \/ Handle(p) \/ KeepLease(p)
             \/ PostResult(p) \/ AgentCrash(p) \/ ClientTimeout(p)
      PROVE  Goal
  BY <1>1, <1>5 DEF Poll, TakePolled, LosePolled, Handle, KeepLease, PostResult, AgentCrash,
                    ClientTimeout, cloudVars
<1>6. ASSUME Timeout \/ CoordinatorRestart \/ LeaseRunsOut \/ Expiry \/ UNCHANGED vars
      PROVE  Goal
  BY <1>1, <1>6 DEF Timeout, CoordinatorRestart, LeaseRunsOut, Expiry, vars, cloudVars
<1>7. ASSUME NEW m \in late, \/ LateRead(m) \/ LateInsert(m) \/ LateEnqueue(m)
                               \/ LateMark(m) \/ LateSettle(m)
      PROVE  Goal
  <2>1. m.command \in Commands /\ m \in Late /\ UNCHANGED dispatch
    BY <1>0, <1>7 DEF TypeOK, Late, LateRead, LateInsert, LateEnqueue, LateMark, LateSettle
  <2>2. delivery[c].state # "absent" => delivery'[c].state # "absent"
    BY <1>0, <1>7, <2>1
       DEF LateRead, LateInsert, LateEnqueue, LateMark, LateSettle, Delivered, Settled,
           DeliveryState, TypeOK, Delivery
  <2>3. ASSUME NEW n \in late', n.command = c, n.pc = "enqueue", n \notin late
        PROVE  delivery'[c].state # "absent"
    <3>1. m.command = c /\ (LateRead(m) \/ LateInsert(m))
      BY <1>7, <2>1, <2>3 DEF LateRead, LateInsert, LateEnqueue, LateMark, LateSettle,
                              LateMove, LateEnd, Late
    <3>. QED BY <1>0, <2>1, <2>3, <3>1
             DEF LateRead, LateInsert, LateMove, LateEnd, TypeOK, Delivery, Late
  <2>. QED BY <2>1, <2>2, <2>3 DEF AboutToEnqueue, StepAt
<1>. QED BY <1>2, <1>3, <1>4, <1>5, <1>6, <1>7 DEF Next, RouteStep, LateStep

\* The batch of recordCommandResult updates the row of a result it can still
\* record; if it cannot, the row already holds exactly that result: the receipt
\* is missing, but the outcome it would have proved is the one on record.
UnrecordableIsSettled ==
    \A m \in posts :
        m.stage # "sent" =>
          \/ Recordable(m)
          \/ delivery[RowOf(m)] = [state |-> DeliveryState(m.result.status),
                                   result |-> m.result]

\* What a workflow step was told is final: no redelivery, late result or
\* restart changes its answer, the result its delivery row carries or the
\* coordinator's row of the command again.  The state of the delivery row moves
\* only for a request that the step gave up: to delivered, and from there to
\* the outcome that was told.
ToldStays ==
    [][\A c \in Commands :
         StepAt(c, "done") =>
            /\ dispatch'[c] = dispatch[c]
            /\ row'[Key[c]] = row[Key[c]]
            /\ delivery'[c].result = dispatch[c].result
            /\ \/ delivery'[c] = delivery[c]
               \/ /\ \E m \in late : m.command = c /\ m.pc \in {"mark", "ask"}
                  /\ delivery'[c].state
                       \in {"delivered", DeliveryState(dispatch[c].result.status)}]_vars

\* A command that the coordinator knows has a delivery row.
LEMMA KnownAlwaysHaveDelivery == Spec => []KnownHasDelivery
<1>1. Init => KnownHasDelivery
  <2>1. ASSUME Init
        PROVE  /\ \A c \in Commands : dispatch[c].pc = "start"
               /\ \A k \in Keys : row[k] = NoRow
               /\ late = {}
    BY <2>1 DEF Init, CoordinatorInit, Step
  <2>. QED BY <2>1, PartsFit DEF KnownHasDelivery, AboutToEnqueue, StepAt
<1>2. DeliveryInv /\ KnownHasDelivery /\ [Next]_vars => KnownHasDelivery'
  <2>1. SUFFICES ASSUME DeliveryInv, KnownHasDelivery, [Next]_vars, NEW c \in Commands,
                        AboutToEnqueue(c)' \/ row'[Key[c]] # NoRow
                 PROVE  delivery'[c].state # "absent"
    BY DEF KnownHasDelivery, AboutToEnqueue, StepAt
  <2>2. \/ AboutToEnqueue(c)' /\ ~AboutToEnqueue(c)
        \/ AboutToEnqueue(c)
        \/ row[Key[c]] # NoRow
    BY <2>1, RowsComeFromSteps
  <2>. QED BY <2>1, <2>2, DeliveriesStay DEF KnownHasDelivery
<1>. QED BY <1>1, <1>2, DeliveryInvHolds, PTL DEF Spec

\* A result the receipt of which cannot be committed is on record all the same.
THEOREM UnrecordedResultsAreSettled == Spec => []UnrecordableIsSettled
<1>1. DeliveryInv /\ KnownHasDelivery => UnrecordableIsSettled
  <2>. SUFFICES ASSUME DeliveryInv, KnownHasDelivery, NEW m \in posts, m.stage # "sent"
                PROVE  \/ Recordable(m)
                       \/ delivery[RowOf(m)] = [state |-> DeliveryState(m.result.status),
                                                result |-> m.result]
    BY DEF UnrecordableIsSettled
  <2>1. /\ m.result.key \in Keys
        /\ row[m.result.key].status \in Terminal
        /\ row[m.result.key].result = m.result
    BY DEF DeliveryInv, PostsAreBacked, TypeOK, Post, Result
  <2>2. PICK c \in Commands : Key[c] = m.result.key
    BY <2>1 DEF DeliveryInv, CoordinatorInv, CoordinatorTypeOK, RowsAreFiled, NoRow,
                      Row, Terminal
  <2>3. RowOf(m) = c
    BY <2>2, PartsFit DEF RowOf
  <2>4. delivery[c] \in Delivery /\ delivery[c].state # "absent"
    BY <2>1, <2>2 DEF KnownHasDelivery, NoRow, Terminal, DeliveryInv, TypeOK
  <2>5. CASE delivery[c].state \in {"completed", "failed"}
    <3>1. /\ delivery[c].result = m.result
          /\ delivery[c].state = DeliveryState(m.result.status)
      BY <2>1, <2>2, <2>5 DEF DeliveryInv, OutcomesAgree, ReadResult
    <3>. QED BY <2>3, <2>4, <3>1 DEF Delivery
  <2>. QED BY <2>3, <2>4, <2>5 DEF Recordable, Delivery
<1>. QED BY <1>1, DeliveryInvHolds, KnownAlwaysHaveDelivery, PTL

\* Once told, a workflow step keeps its answer, and so does every row but for
\* the state that a request it gave up writes.
THEOREM ToldIsFinal == Spec => ToldStays
<1>1. ASSUME DeliveryInv, KnownHasDelivery, [Next]_vars
      PROVE  [\A c \in Commands :
                StepAt(c, "done") =>
                   /\ dispatch'[c] = dispatch[c]
                   /\ row'[Key[c]] = row[Key[c]]
                   /\ delivery'[c].result = dispatch[c].result
                   /\ \/ delivery'[c] = delivery[c]
                      \/ /\ \E m \in late : m.command = c /\ m.pc \in {"mark", "ask"}
                         /\ delivery'[c].state
                              \in {"delivered", DeliveryState(dispatch[c].result.status)}]_vars
  <2>. SUFFICES ASSUME NEW c \in Commands, StepAt(c, "done")
                PROVE  /\ dispatch'[c] = dispatch[c]
                       /\ row'[Key[c]] = row[Key[c]]
                       /\ delivery'[c].result = dispatch[c].result
                       /\ \/ delivery'[c] = delivery[c]
                          \/ /\ \E m \in late : m.command = c /\ m.pc \in {"mark", "ask"}
                             /\ delivery'[c].state
                                  \in {"delivered", DeliveryState(dispatch[c].result.status)}
    OBVIOUS
  <2>1. /\ dispatch[c].result = ReadResult(Key[c])
        /\ delivery[c].result = ReadResult(Key[c])
        /\ delivery[c].state \in TerminalDelivery \/ MarkedLate(c)
    BY <1>1 DEF DeliveryInv, OutcomesAgree, TerminalDelivery
  <2>2. row[Key[c]].status \in Terminal
    <3>1. dispatch[c].result \in Result
      BY <1>1 DEF DeliveryInv, TypeOK, StepAt
    <3>. QED BY <2>1, <3>1, SentinelsAreDistinct DEF ReadResult
  <2>3. row'[Key[c]] = row[Key[c]]
    BY <1>1, <2>2, RowSteps, PartsFit
  <2>4. delivery[c].state # "absent"
    BY <1>1, <2>2, PartsFit DEF KnownHasDelivery, NoRow, Terminal
  <2>5. CASE StepMoves(c)
    BY <2>1, <2>3, <2>5 DEF StepMoves, StepAt
  <2>6. CASE LateMoves(c)
    BY <2>1, <2>3, <2>4, <2>6 DEF LateMoves
  <2>7. CASE RouteMoves(c)
    <3>1. PICK m \in posts :
            /\ m.stage = "bound"
            /\ m.result.key = Key[c]
            /\ \/ delivery'[c] = delivery[c]
               \/ /\ delivery[c].state \notin TerminalDelivery
                  /\ delivery'[c] = [state |-> DeliveryState(m.result.status),
                                     result |-> m.result]
      BY <2>7 DEF RouteMoves
    <3>2. ReadResult(Key[c]) = m.result
      BY <1>1, <3>1 DEF DeliveryInv, PostsAreBacked, ReadResult
    <3>3. MarkedLate(c) => \E n \in late : n.command = c /\ n.pc \in {"mark", "ask"}
      BY DEF MarkedLate
    <3>4. dispatch'[c] = dispatch[c]
      BY <2>7 DEF RouteMoves
    <3>. QED BY <2>1, <2>3, <3>1, <3>2, <3>3, <3>4
  <2>. QED BY <1>1, <2>5, <2>6, <2>7, CloudSteps
<1>. QED BY <1>1, DeliveryInvHolds, KnownAlwaysHaveDelivery, PTL DEF Spec, ToldStays
=============================================================================
