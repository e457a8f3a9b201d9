----------------------- MODULE NodeCoordinatorProofs -----------------------
(***************************************************************************)
(* The coordinator's guarantees for every set of commands, polls, callers  *)
(* and posted results.  CoordinatorInv strengthens the checked invariants  *)
(* with what binds a stored row to its key and a terminal row to a result  *)
(* of that key; it is inductive.                                           *)
(***************************************************************************)
EXTENDS NodeCoordinator, TLAPS

\* A row is filed under the key of its command, and a terminal row has a
\* result of the same key.
RowsAreFiled ==
    \A k \in Keys : row[k] # NoRow =>
        /\ Key[row[k].command] = k
        /\ row[k].status \in Terminal => /\ row[k].result \in Result
                                         /\ row[k].result.key = k

\* An answered caller holds the result of a row that is terminal.
AnswersAreTerminal ==
    \A w \in Callers : call[w].state = "answered" /\ call[w].value # NoResult
        => /\ call[w].value \in Result
           /\ row[call[w].value.key].status \in Terminal
           /\ row[call[w].value.key].result = call[w].value

CoordinatorInv ==
    /\ CoordinatorTypeOK
    /\ RowsAreFiled
    /\ WatermarkIsContiguousPrefix
    /\ NoLostWakeup
    /\ AnswersAreTerminal

\* The sentinels are outside the types they complete.
LEMMA SentinelsAreDistinct ==
    /\ NoResult \notin Result
    /\ NoRow \notin Row
    /\ \A r \in Row : r.status # "absent"
BY DEF NoResult, Result, NoRow, Row, Status

\* The initial state satisfies the inductive invariant.
LEMMA CoordinatorInitInv ==
    ASSUME CoordinatorInit PROVE CoordinatorInv
BY ProtocolAssumption
   DEF CoordinatorInit, CoordinatorInv, CoordinatorTypeOK, RowsAreFiled,
       WatermarkIsContiguousPrefix, NoLostWakeup, AnswersAreTerminal, NoRow,
       Idle, Waiting, WaitingFor, Terminal, CompletedSequences, Queued

\* A row that is terminal is left as it is by every step (enqueue,
\* drainQueuedCommands and acceptCommandResult).
LEMMA TerminalRowsStay ==
    ASSUME CoordinatorTypeOK, CoordinatorNext, NEW k \in Keys,
           row[k].status \in Terminal
    PROVE  row'[k] = row[k]
<1>1. ASSUME NEW c \in Commands, Enqueue(c) PROVE row'[k] = row[k]
  <2>1. row[k] # NoRow
    BY DEF NoRow, Terminal
  <2>2. CASE Insert(c)
    BY <2>1, <2>2 DEF Insert, EnqueueAnswer, CoordinatorTypeOK
  <2>3. CASE EnqueueAnswer(c) # "queued" /\ UNCHANGED coordinatorVars
    BY <2>3 DEF coordinatorVars
  <2>. QED BY <1>1, <2>2, <2>3 DEF Enqueue
<1>2. ASSUME NEW p \in Pollers, WaitForCommand(p) PROVE row'[k] = row[k]
  BY <1>2 DEF WaitForCommand, DrainedRows, Queued, Pending, Terminal
<1>3. ASSUME NEW r \in Posted, AcceptCommandResult(r) PROVE row'[k] = row[k]
  <2>1. CASE Store(r)
    <3>1. row[r.key].status \notin Terminal
      BY <2>1 DEF Store, ResultAnswer
    <3>. QED BY <2>1, <3>1 DEF Store, CoordinatorTypeOK
  <2>2. CASE ResultAnswer(r) # "accepted" /\ UNCHANGED coordinatorVars
    BY <2>2 DEF coordinatorVars
  <2>. QED BY <1>3, <2>1, <2>2 DEF AcceptCommandResult
<1>. QED BY <1>1, <1>2, <1>3
     DEF CoordinatorNext, Elapse, PollTimeout, TakeCommand, ResultTimeout,
         TakeResult, WaitForCommandResult, IsolateRestart

-----------------------------------------------------------------------------
(* Steps that change rows *)

\* Enqueueing preserves the invariant: a new row is queued, so it changes no
\* completed sequence, and it leaves no poll waiting.
LEMMA InsertPreserves ==
    ASSUME CoordinatorInv, NEW c \in Commands, Insert(c)
    PROVE  CoordinatorInv'
<1>. USE ProtocolAssumption
<1>1. Key[c] \in Keys /\ row[Key[c]] = NoRow
  BY DEF Insert, EnqueueAnswer
<1>2. CoordinatorTypeOK'
  <2>1. [status |-> "queued", command |-> c, sequence |-> NextSequence,
         result |-> NoResult] \in Row
    BY DEF CoordinatorInv, CoordinatorTypeOK, Row, NextSequence
  <2>. QED BY <1>1, <2>1
       DEF CoordinatorInv, CoordinatorTypeOK, Insert, NextSequence, WakePolls, Answer
<1>3. RowsAreFiled'
  BY <1>1 DEF CoordinatorInv, CoordinatorTypeOK, RowsAreFiled, Insert, NextSequence, Terminal
<1>4. CompletedSequences(row)' = CompletedSequences(row)
  BY <1>1 DEF CoordinatorInv, CoordinatorTypeOK, CompletedSequences, Insert,
              Terminal, NoRow
<1>5. WatermarkIsContiguousPrefix'
  BY <1>4 DEF CoordinatorInv, WatermarkIsContiguousPrefix, Insert
<1>6. NoLostWakeup'
  BY <1>1 DEF CoordinatorInv, CoordinatorTypeOK, NoLostWakeup, Insert, WakePolls, Answer,
              Waiting, Terminal, NoRow, Queued
<1>7. AnswersAreTerminal'
  BY <1>1 DEF CoordinatorInv, CoordinatorTypeOK, AnswersAreTerminal, Insert,
              Terminal, NoRow, Result
<1>. QED BY <1>2, <1>3, <1>5, <1>6, <1>7 DEF CoordinatorInv

\* A poll preserves the invariant: draining turns queued rows into expired
\* ones and touches no terminal row.
LEMMA WaitForCommandPreserves ==
    ASSUME CoordinatorInv, NEW p \in Pollers, WaitForCommand(p)
    PROVE  CoordinatorInv'
<1>1. \A k \in Keys : /\ row'[k] = row[k] \/ row[k].status = "queued"
                      /\ row[k].status = "queued" => row[k] \in Row
                      /\ row'[k].status = "queued" => k \in Pending
  BY DEF WaitForCommand, DrainedRows, Queued, Pending, CoordinatorInv,
         CoordinatorTypeOK, NoRow
<1>2. ASSUME NEW k \in Keys, row[k].status = "queued", row'[k] # row[k]
      PROVE  /\ row'[k] \in Row
             /\ row'[k].status = "expired"
             /\ row'[k].command = row[k].command
  BY <1>1, <1>2 DEF WaitForCommand, DrainedRows, Row
<1>3. CoordinatorTypeOK'
  <2>1. row' \in [Keys -> Row \cup {NoRow}]
    BY <1>1, <1>2 DEF WaitForCommand, DrainedRows, CoordinatorInv, CoordinatorTypeOK
  <2>2. \A k \in Keys : IsHead(k) => row[k].command \in Commands
    BY <1>1 DEF IsHead, Pending, Queued, Row
  <2>3. poll' \in [Pollers -> {Idle, Waiting}
             \cup [state: {"answered"}, value: Commands \cup {Empty}]]
    BY <2>2 DEF WaitForCommand, CoordinatorInv, CoordinatorTypeOK, Answer
  <2>. QED BY <2>1, <2>3 DEF WaitForCommand, CoordinatorInv, CoordinatorTypeOK
<1>4. RowsAreFiled'
  BY <1>1, <1>2 DEF CoordinatorInv, RowsAreFiled, Terminal, NoRow
<1>5. \A k \in Keys : /\ row'[k].status \in Terminal <=> row[k].status \in Terminal
                      /\ row[k].status \in Terminal => row'[k] = row[k]
  BY <1>1, <1>2 DEF Terminal
<1>6. WatermarkIsContiguousPrefix'
  BY <1>5 DEF CoordinatorInv, WatermarkIsContiguousPrefix, CompletedSequences,
              WaitForCommand
<1>7. NoLostWakeup'
  <2>1. ASSUME NEW q \in Pollers, poll'[q] = Waiting PROVE Queued' = {}
    <3>1. poll[q] = Waiting \/ Pending = {}
      BY <2>1 DEF WaitForCommand, CoordinatorInv, CoordinatorTypeOK, Answer, Waiting
    <3>2. Queued = {} => Pending = {}
      BY DEF Pending
    <3>. QED BY <1>1, <3>1, <3>2 DEF CoordinatorInv, NoLostWakeup, Queued
  <2>. QED BY <1>5, <2>1 DEF CoordinatorInv, NoLostWakeup, WaitForCommand
<1>8. AnswersAreTerminal'
  BY <1>5 DEF CoordinatorInv, AnswersAreTerminal, WaitForCommand, Result
<1>. QED BY <1>3, <1>4, <1>6, <1>7, <1>8 DEF CoordinatorInv

\* Storing a result preserves the invariant: the watermark moves over exactly
\* the sequences that are now completed, and no caller of the result waits on.
LEMMA StorePreserves ==
    ASSUME CoordinatorInv, NEW r \in Result, Store(r)
    PROVE  CoordinatorInv'
<1>1. /\ r.key \in Keys
      /\ row[r.key] \in Row
      /\ row[r.key].status \notin Terminal
      /\ r # NoResult
  BY SentinelsAreDistinct
     DEF Store, ResultAnswer, Applicable, CoordinatorInv, CoordinatorTypeOK, Result
<1>2. /\ row'[r.key] \in Row
      /\ row'[r.key].status \in Terminal
      /\ row'[r.key].command = row[r.key].command
      /\ row'[r.key].sequence = row[r.key].sequence
      /\ row'[r.key].result = r
  BY <1>1 DEF Store, CoordinatorInv, CoordinatorTypeOK, Row, Terminal
<1>3. /\ \A k \in Keys \ {r.key} : row'[k] = row[k]
      /\ row' = [k \in Keys |-> row'[k]]
  BY <1>1 DEF Store, CoordinatorInv, CoordinatorTypeOK
<1>4. PICK n \in watermark..issued :
          /\ \A i \in (watermark + 1)..n : i \in CompletedSequences(row')
          /\ n + 1 \notin CompletedSequences(row')
          /\ watermark' = n
  BY DEF Store, ContiguousResultWatermark
<1>5. CoordinatorTypeOK'
  <2>1. row' \in [Keys -> Row \cup {NoRow}]
    BY <1>2, <1>3 DEF CoordinatorInv, CoordinatorTypeOK
  <2>2. call' \in [Callers -> {Idle} \cup [state: {"waiting"}, key: Keys]
             \cup [state: {"answered"}, value: Result \cup {NoResult}]]
    BY DEF Store, CoordinatorInv, CoordinatorTypeOK, Answer
  <2>. QED BY <2>1, <2>2, <1>4 DEF Store, CoordinatorInv, CoordinatorTypeOK
<1>6. RowsAreFiled'
  BY <1>1, <1>2, <1>3, SentinelsAreDistinct DEF CoordinatorInv, RowsAreFiled
<1>7. CompletedSequences(row) \subseteq CompletedSequences(row')
  BY <1>1, <1>3 DEF CompletedSequences
<1>8. WatermarkIsContiguousPrefix'
  <2>1. watermark \in Nat /\ issued \in Nat
    BY DEF CoordinatorInv, CoordinatorTypeOK
  <2>2. (1..watermark') \subseteq CompletedSequences(row')
    BY <1>4, <1>7, <2>1 DEF CoordinatorInv, WatermarkIsContiguousPrefix
  <2>3. watermark' + 1 \notin CompletedSequences(row')
    BY <1>4
  <2>. QED BY <2>2, <2>3 DEF WatermarkIsContiguousPrefix, CompletedSequences
<1>9. NoLostWakeup'
  <2>1. Queued' \subseteq Queued
    BY <1>2, <1>3 DEF Queued, Terminal
  <2>2. ASSUME NEW w \in Callers, NEW k \in Keys, call'[w] = WaitingFor(k)
        PROVE  row'[k].status \notin Terminal
    <3>1. call[w] = WaitingFor(k) /\ k # r.key
      BY <2>2 DEF Store, CoordinatorInv, CoordinatorTypeOK, WaitingFor, Answer
    <3>. QED BY <1>3, <3>1 DEF CoordinatorInv, NoLostWakeup
  <2>. QED BY <2>1, <2>2 DEF CoordinatorInv, NoLostWakeup, Store
<1>10. AnswersAreTerminal'
  <2>. SUFFICES ASSUME NEW w \in Callers, call'[w].state = "answered",
                       call'[w].value # NoResult
                PROVE  /\ call'[w].value \in Result
                       /\ row'[call'[w].value.key].status \in Terminal
                       /\ row'[call'[w].value.key].result = call'[w].value
    BY DEF AnswersAreTerminal
  <2>1. CASE call[w] = WaitingFor(r.key)
    BY <1>2, <2>1 DEF Store, Answer, CoordinatorInv, CoordinatorTypeOK
  <2>2. CASE call[w] # WaitingFor(r.key)
    <3>1. call'[w] = call[w]
      BY <2>2 DEF Store
    <3>. QED BY <1>1, <1>3, <3>1 DEF CoordinatorInv, AnswersAreTerminal, Result
  <2>. QED BY <2>1, <2>2
<1>. QED BY <1>5, <1>6, <1>8, <1>9, <1>10 DEF CoordinatorInv

-----------------------------------------------------------------------------
(* Steps that leave the rows alone *)

\* A caller that asks is answered with the stored terminal result or waits for
\* one that is not there yet, and a timeout reads the same row.
LEMMA ResultCallsPreserve ==
    ASSUME CoordinatorInv, NEW w \in Callers, NEW k \in Keys,
           WaitForCommandResult(w, k) \/ ResultTimeout(w)
    PROVE  CoordinatorInv'
<1>1. \A j \in Keys :
         /\ ReadResult(j) \in Result \cup {NoResult}
         /\ ReadResult(j) = NoResult => row[j].status \notin Terminal
         /\ ReadResult(j) # NoResult => /\ row[j].status \in Terminal
                                        /\ row[j].result = ReadResult(j)
                                        /\ ReadResult(j).key = j
  BY SentinelsAreDistinct
     DEF ReadResult, CoordinatorInv, RowsAreFiled, Terminal, NoRow
<1>2. /\ UNCHANGED <<row, issued, watermark, elapsed, poll>>
      /\ \A v \in Callers \ {w} : call'[v] = call[v]
      /\ \E j \in Keys : \/ call'[w] = Answer(ReadResult(j))
                         \/ /\ call'[w] = WaitingFor(j)
                            /\ ReadResult(j) = NoResult
      /\ call' = [v \in Callers |-> call'[v]]
  BY DEF WaitForCommandResult, ResultTimeout, CoordinatorInv, CoordinatorTypeOK
<1>3. CoordinatorTypeOK'
  BY <1>1, <1>2 DEF CoordinatorInv, CoordinatorTypeOK, Answer, WaitingFor
<1>4. RowsAreFiled' /\ WatermarkIsContiguousPrefix'
  BY <1>2 DEF CoordinatorInv, RowsAreFiled, WatermarkIsContiguousPrefix,
              CompletedSequences
<1>5. NoLostWakeup'
  BY <1>1, <1>2 DEF CoordinatorInv, NoLostWakeup, Queued, Answer, WaitingFor
<1>6. AnswersAreTerminal'
  BY <1>1, <1>2 DEF CoordinatorInv, AnswersAreTerminal, Answer, WaitingFor
<1>. QED BY <1>3, <1>4, <1>5, <1>6 DEF CoordinatorInv

\* Polls that end, clients that take their answers, the clock and an isolate
\* restart preserve the invariant: nobody starts to wait in them.
LEMMA EnvironmentPreserves ==
    ASSUME CoordinatorInv,
           \/ \E p \in Pollers : PollTimeout(p) \/ TakeCommand(p)
           \/ \E w \in Callers : TakeResult(w)
           \/ \E c \in Commands : Elapse(c)
           \/ IsolateRestart
           \/ UNCHANGED coordinatorVars
    PROVE  CoordinatorInv'
<1>1. /\ UNCHANGED <<row, issued, watermark>>
      /\ elapsed' \subseteq Commands
      /\ \A p \in Pollers : \/ poll'[p] \in {poll[p], Idle}
                            \/ poll'[p] = Answer(Empty)
      /\ poll' = [p \in Pollers |-> poll'[p]]
      /\ \A w \in Callers : call'[w] \in {call[w], Idle}
      /\ call' = [w \in Callers |-> call'[w]]
  BY DEF PollTimeout, TakeCommand, TakeResult, Elapse, IsolateRestart,
         coordinatorVars, CoordinatorInv, CoordinatorTypeOK
<1>2. CoordinatorTypeOK'
  BY <1>1 DEF CoordinatorInv, CoordinatorTypeOK, Answer
<1>3. RowsAreFiled' /\ WatermarkIsContiguousPrefix'
  BY <1>1 DEF CoordinatorInv, RowsAreFiled, WatermarkIsContiguousPrefix,
              CompletedSequences
<1>4. NoLostWakeup'
  BY <1>1 DEF CoordinatorInv, NoLostWakeup, Queued, Idle, Waiting, WaitingFor,
              Answer
<1>5. AnswersAreTerminal'
  BY <1>1 DEF CoordinatorInv, AnswersAreTerminal, Idle
<1>. QED BY <1>2, <1>3, <1>4, <1>5 DEF CoordinatorInv

-----------------------------------------------------------------------------
(* Theorems *)

\* The invariant is inductive.
LEMMA CoordinatorInvInductive ==
    ASSUME CoordinatorInv, [CoordinatorNext]_coordinatorVars
    PROVE  CoordinatorInv'
<1>1. ASSUME NEW c \in Commands, Enqueue(c) PROVE CoordinatorInv'
  BY <1>1, InsertPreserves, EnvironmentPreserves DEF Enqueue
<1>2. ASSUME NEW p \in Pollers, WaitForCommand(p) PROVE CoordinatorInv'
  BY <1>2, WaitForCommandPreserves
<1>3. ASSUME NEW r \in Posted, AcceptCommandResult(r) PROVE CoordinatorInv'
  BY <1>3, StorePreserves, EnvironmentPreserves, CoordinatorAssumption
     DEF AcceptCommandResult
<1>4. ASSUME NEW w \in Callers, NEW k \in Keys, WaitForCommandResult(w, k)
      PROVE  CoordinatorInv'
  BY <1>4, ResultCallsPreserve
<1>5. ASSUME NEW w \in Callers, ResultTimeout(w) PROVE CoordinatorInv'
  <2>1. PICK k \in Keys : call[w] = WaitingFor(k)
    BY <1>5 DEF ResultTimeout
  <2>. QED BY <1>5, ResultCallsPreserve
<1>. QED BY <1>1, <1>2, <1>3, <1>4, <1>5, EnvironmentPreserves
     DEF CoordinatorNext

\* Every reachable state of the coordinator satisfies the invariant.
THEOREM CoordinatorInvHolds == CoordinatorSpec => []CoordinatorInv
<1>1. CoordinatorInit => CoordinatorInv
  BY CoordinatorInitInv
<1>2. CoordinatorInv /\ [CoordinatorNext]_coordinatorVars => CoordinatorInv'
  BY CoordinatorInvInductive
<1>. QED BY <1>1, <1>2, PTL DEF CoordinatorSpec

\* Whatever is enqueued, polled, posted and awaited, the tables of the
\* coordinator and the answers it owes keep their types.
THEOREM CoordinatorTypeCorrect == CoordinatorSpec => []CoordinatorTypeOK
<1>1. CoordinatorInv => CoordinatorTypeOK
  BY DEF CoordinatorInv
<1>. QED BY <1>1, CoordinatorInvHolds, PTL

\* last_result_sequence counts the unbroken prefix of finished commands, for
\* any number of commands and any order of results.
THEOREM WatermarkIsExact == CoordinatorSpec => []WatermarkIsContiguousPrefix
<1>1. CoordinatorInv => WatermarkIsContiguousPrefix
  BY DEF CoordinatorInv
<1>. QED BY <1>1, CoordinatorInvHolds, PTL

\* No poll and no result caller waits for what is already there.
THEOREM WaitersAreWoken == CoordinatorSpec => []NoLostWakeup
<1>1. CoordinatorInv => NoLostWakeup
  BY DEF CoordinatorInv
<1>. QED BY <1>1, CoordinatorInvHolds, PTL

\* A result that a caller was given is the one in the table.
THEOREM AnswersStay == CoordinatorSpec => []AnswersAreDurable
<1>1. CoordinatorInv => AnswersAreDurable
  BY DEF CoordinatorInv, AnswersAreTerminal, AnswersAreDurable
<1>. QED BY <1>1, CoordinatorInvHolds, PTL

\* No step replaces a stored result.
THEOREM FirstResultWins == CoordinatorSpec => ResultIsFinal
<1>1. CoordinatorInv /\ [CoordinatorNext]_coordinatorVars
      => [\A k \in Keys : row[k].status \in Terminal
            => row'[k] = row[k]]_coordinatorVars
  BY TerminalRowsStay DEF CoordinatorInv
<1>. QED BY <1>1, CoordinatorInvHolds, PTL DEF CoordinatorSpec, ResultIsFinal

\* What a step hands to a poll is the oldest command still queued: a poll that
\* enqueue wakes found nothing queued before it.
LEMMA StepDeliversOldest ==
    ASSUME CoordinatorInv, CoordinatorInv', CoordinatorNext,
           NEW p \in Pollers, NEW k \in Keys, NEW j \in Keys,
           poll'[p] # poll[p], row'[k].status # "absent",
           poll'[p] = Answer(row'[k].command), row'[j].status = "queued"
    PROVE  row'[j].sequence >= row'[k].sequence
<1>. USE ProtocolAssumption, CoordinatorAssumption
<1>1. /\ row'[k] \in Row /\ row'[j] \in Row
      /\ Key[row'[k].command] = k /\ Key[row'[j].command] = j
      /\ row'[k].command \in Commands
  BY DEF CoordinatorInv, CoordinatorTypeOK, RowsAreFiled, NoRow, Row
<1>2. ASSUME NEW c \in Commands, Insert(c) PROVE row'[j].sequence >= row'[k].sequence
  <2>1. poll[p] = Waiting /\ row'[k].command = c
    BY <1>2 DEF Insert, WakePolls, CoordinatorInv, CoordinatorTypeOK, Answer
  <2>2. j = k
    BY <1>1, <1>2, <2>1
       DEF Insert, CoordinatorInv, CoordinatorTypeOK, NoLostWakeup, Queued
  <2>. QED BY <1>1, <2>2 DEF Row
<1>3. ASSUME NEW q \in Pollers, WaitForCommand(q)
      PROVE  row'[j].sequence >= row'[k].sequence
  <2>0. poll'[p] # Waiting
    BY DEF Answer, Waiting
  <2>1. PICK h \in Keys : IsHead(h) /\ poll'[p] = Answer(row[h].command)
    <3>1. p = q
      BY <1>3 DEF WaitForCommand, CoordinatorInv, CoordinatorTypeOK
    <3>2. PICK h \in Keys : IsHead(h) /\ poll' = [poll EXCEPT ![q] = Answer(row[h].command)]
      BY <1>3, <2>0, <3>1 DEF WaitForCommand, CoordinatorInv, CoordinatorTypeOK
    <3>. QED BY <3>1, <3>2 DEF CoordinatorInv, CoordinatorTypeOK
  <2>2. h = k
    <3>1. row[h] # NoRow /\ row[h].command = row'[k].command
      BY <2>1 DEF IsHead, Pending, Queued, NoRow, Answer
    <3>. QED BY <1>1, <3>1 DEF CoordinatorInv, RowsAreFiled
  <2>3. row'[k] = row[k] /\ row'[j] = row[j] /\ j \in Pending
    BY <1>1, <1>3, <2>1, <2>2
       DEF WaitForCommand, DrainedRows, IsHead, Pending, Queued, CoordinatorInv,
           CoordinatorTypeOK, NoRow
  <2>. QED BY <1>1, <2>1, <2>2, <2>3 DEF IsHead, Row
<1>4. ASSUME \/ \E q \in Pollers : PollTimeout(q) \/ TakeCommand(q)
             \/ IsolateRestart
             \/ UNCHANGED poll
      PROVE  FALSE
  BY <1>1, <1>4 DEF PollTimeout, TakeCommand, IsolateRestart, CoordinatorInv,
                    CoordinatorTypeOK, Answer, Idle
<1>. QED BY <1>2, <1>3, <1>4
     DEF CoordinatorNext, Enqueue, AcceptCommandResult, Store, Elapse,
         WaitForCommandResult, ResultTimeout, TakeResult, coordinatorVars

\* Commands leave the queue in the order they entered it.
THEOREM PollsDeliverInOrder == CoordinatorSpec => DeliveredInOrder
<1>1. ASSUME CoordinatorInv, CoordinatorInv', [CoordinatorNext]_coordinatorVars
      PROVE  [\A p \in Pollers, k \in Keys :
               /\ poll'[p] # poll[p]
               /\ row'[k].status # "absent"
               /\ poll'[p] = Answer(row'[k].command)
               => \A j \in Keys : row'[j].status = "queued"
                    => row'[j].sequence >= row'[k].sequence]_coordinatorVars
  BY <1>1, StepDeliversOldest
<1>. QED BY <1>1, CoordinatorInvHolds, PTL DEF CoordinatorSpec, DeliveredInOrder
=============================================================================
