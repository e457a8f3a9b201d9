--------------------------- MODULE NodeCoordinator ---------------------------
(***************************************************************************)
(* The Durable Object that serializes the commands of one node             *)
(* (workers/realtime/src/index.ts, NodeCoordinatorDO).                     *)
(*                                                                         *)
(* Its SQLite tables survive an isolate restart; the waiters of            *)
(* waitForCommand and waitForCommandResult are promises in memory and do   *)
(* not.  An operation is one atomic step: after ensureIdentity nothing in  *)
(* it awaits.  The wall clock is abstracted to the set of commands whose   *)
(* expiresAt it has passed.                                                *)
(***************************************************************************)
EXTENDS AgentProtocol

CONSTANTS
    Pollers,     \* long polls of the agent: GET .../commands
    Callers,     \* callers of waitForCommandResult
    Posted       \* results that clients post

Empty == "none"       \* a poll or a call that ends without a value

ASSUME CoordinatorAssumption ==
    /\ Posted \subseteq Result
    /\ Empty \notin Commands

VARIABLES
    row,         \* the commands table, by key
    issued,      \* the last AUTOINCREMENT sequence
    watermark,   \* agent_state.last_result_sequence
    elapsed,     \* commands with expiresAt <= the coordinator's clock
    poll,        \* what each poll waits for or was answered
    call         \* what each result caller waits for or was answered

stored == <<row, issued, watermark>>
memory == <<poll, call>>
coordinatorVars == <<row, issued, watermark, elapsed, poll, call>>

NoRow == [status |-> "absent"]
Row == [status: {"queued", "expired", "succeeded", "failed"},
        command: Commands, sequence: Nat \ {0},
        result: Result \cup {NoResult}]

Terminal == {"succeeded", "failed"}
Answer(value) == [state |-> "answered", value |-> value]
Idle == [state |-> "idle"]
Waiting == [state |-> "waiting"]
WaitingFor(k) == [state |-> "waiting", key |-> k]

CoordinatorTypeOK ==
    /\ row \in [Keys -> Row \cup {NoRow}]
    /\ issued \in Nat
    /\ watermark \in Nat
    /\ elapsed \subseteq Commands
    /\ poll \in [Pollers -> {Idle, Waiting}
             \cup [state: {"answered"}, value: Commands \cup {Empty}]]
    /\ call \in [Callers -> {Idle} \cup [state: {"waiting"}, key: Keys]
             \cup [state: {"answered"}, value: Result \cup {NoResult}]]

CoordinatorInit ==
    /\ row = [k \in Keys |-> NoRow]
    /\ issued = 0
    /\ watermark = 0
    /\ elapsed = {}
    /\ poll = [p \in Pollers |-> Idle]
    /\ call = [w \in Callers |-> Idle]

-----------------------------------------------------------------------------
(* Enqueueing *)

\* What enqueue answers: a replay finds the stored payload, a mismatch throws.
EnqueueAnswer(c) ==
    IF row[Key[c]] = NoRow THEN "queued"
    ELSE IF row[Key[c]].command = c THEN "replayed" ELSE "mismatch"

\* Mutants: sequences from zero; the command goes to the sockets only.
SequenceFromZero == issued
WakeNobody(c) == poll

\* AUTOINCREMENT.
NextSequence == issued + 1

\* Every waiting poll resolves with the same command.
WakePolls(c) == [p \in Pollers |-> IF poll[p] = Waiting THEN Answer(c) ELSE poll[p]]

\* A new command takes the next sequence and wakes every waiting poll.
Insert(c) ==
    /\ EnqueueAnswer(c) = "queued"
    /\ issued' = issued + 1
    /\ row' = [row EXCEPT ![Key[c]] =
                 [status |-> "queued", command |-> c,
                  sequence |-> NextSequence, result |-> NoResult]]
    /\ poll' = WakePolls(c)
    /\ UNCHANGED <<watermark, elapsed, call>>

Enqueue(c) ==
    \/ Insert(c)
    \/ EnqueueAnswer(c) # "queued" /\ UNCHANGED coordinatorVars

-----------------------------------------------------------------------------
(* Polling *)

Queued == {k \in Keys : row[k].status = "queued"}
Pending == {k \in Queued : row[k].command \notin elapsed}

\* Mutant: expiry does not look at the status it replaces.
DrainedWithoutStatus ==
    [k \in Keys |-> IF row[k] # NoRow /\ row[k].command \in elapsed
                    THEN [row[k] EXCEPT !.status = "expired"] ELSE row[k]]

\* The rows after drainQueuedCommands has expired the overdue ones.
DrainedRows ==
    [k \in Keys |-> IF k \in Queued \ Pending
                    THEN [row[k] EXCEPT !.status = "expired"] ELSE row[k]]

\* Mutant: the query has no ORDER BY.
IsAnyPending(k) == k \in Pending

\* The oldest pending command: redelivered until it has a result.
IsHead(k) == /\ k \in Pending
             /\ \A j \in Pending : row[k].sequence <= row[j].sequence

WaitForCommand(p) ==
    /\ poll[p] = Idle
    /\ row' = DrainedRows
    /\ \/ \E k \in Keys : /\ IsHead(k)
                          /\ poll' = [poll EXCEPT ![p] = Answer(row[k].command)]
       \/ Pending = {} /\ poll' = [poll EXCEPT ![p] = Waiting]
    /\ UNCHANGED <<issued, watermark, elapsed, call>>

PollTimeout(p) ==
    /\ poll[p] = Waiting
    /\ poll' = [poll EXCEPT ![p] = Answer(Empty)]
    /\ UNCHANGED <<row, issued, watermark, elapsed, call>>

-----------------------------------------------------------------------------
(* Results *)

CompletedSequences(rows) ==
    {rows[k].sequence : k \in {j \in Keys : rows[j].status \in Terminal}}

\* Mutant: the highest completed sequence.
HighestResultWatermark(n, previous, completed) ==
    n \in completed /\ \A i \in completed : i <= n

\* Is n what is reached from the previous watermark without a gap?
ContiguousResultWatermark(n, previous, completed) ==
    /\ \A i \in (previous + 1)..n : i \in completed
    /\ n + 1 \notin completed

\* The command is known here and r is a result it can have.
Applicable(r) == row[r.key] # NoRow /\ ValidCommandResult(row[r.key].command, r)

\* Mutant: a second result replaces the first.
LastResultWins(r) ==
    IF ~Applicable(r) THEN "refused"
    ELSE IF row[r.key].result = r THEN "replayed" ELSE "accepted"

\* What acceptCommandResult makes of r: a terminal row only replays its own.
ResultAnswer(r) ==
    IF ~Applicable(r) THEN "refused"
    ELSE IF row[r.key].status \notin Terminal THEN "accepted"
    ELSE IF row[r.key].result = r THEN "replayed" ELSE "refused"

\* The first valid result of a command that has none, expired or not, is final.
Store(r) ==
    /\ ResultAnswer(r) = "accepted"
    /\ row' = [row EXCEPT
                 ![r.key].status = IF r.status = "succeeded" THEN "succeeded"
                                                              ELSE "failed",
                 ![r.key].result = r]
    /\ \E n \in watermark..issued :
          /\ ContiguousResultWatermark(n, watermark, CompletedSequences(row'))
          /\ watermark' = n
    /\ call' = [w \in Callers |-> IF call[w] = WaitingFor(r.key)
                                  THEN Answer(r) ELSE call[w]]
    /\ UNCHANGED <<issued, elapsed, poll>>

AcceptCommandResult(r) ==
    \/ Store(r)
    \/ ResultAnswer(r) # "accepted" /\ UNCHANGED coordinatorVars

\* The stored terminal result of k, if there is one.
ReadResult(k) ==
    IF row[k].status \in Terminal THEN row[k].result ELSE NoResult

WaitForCommandResult(w, k) ==
    /\ call[w] = Idle
    /\ call' = [call EXCEPT ![w] = IF ReadResult(k) # NoResult
                                   THEN Answer(ReadResult(k)) ELSE WaitingFor(k)]
    /\ UNCHANGED <<row, issued, watermark, elapsed, poll>>

ResultTimeout(w) ==
    /\ \E k \in Keys : /\ call[w] = WaitingFor(k)
                       /\ call' = [call EXCEPT ![w] = Answer(ReadResult(k))]
    /\ UNCHANGED <<row, issued, watermark, elapsed, poll>>

-----------------------------------------------------------------------------
(* The environment: the clock, the isolate, and clients that take answers *)

Elapse(c) ==
    /\ c \notin elapsed
    /\ elapsed' = elapsed \cup {c}
    /\ UNCHANGED <<row, issued, watermark, poll, call>>

\* The isolate is evicted: storage stays, every waiting client sees a failure.
IsolateRestart ==
    /\ poll' = [p \in Pollers |-> IF poll[p] = Waiting THEN Idle ELSE poll[p]]
    /\ call' = [w \in Callers |-> IF call[w].state = "waiting" THEN Idle ELSE call[w]]
    /\ memory' # memory
    /\ UNCHANGED <<row, issued, watermark, elapsed>>

TakeCommand(p) ==
    /\ poll[p].state = "answered"
    /\ poll' = [poll EXCEPT ![p] = Idle]
    /\ UNCHANGED <<row, issued, watermark, elapsed, call>>

TakeResult(w) ==
    /\ call[w].state = "answered"
    /\ call' = [call EXCEPT ![w] = Idle]
    /\ UNCHANGED <<row, issued, watermark, elapsed, poll>>

CoordinatorNext ==
    \/ \E c \in Commands : Enqueue(c) \/ Elapse(c)
    \/ \E p \in Pollers : WaitForCommand(p) \/ PollTimeout(p) \/ TakeCommand(p)
    \/ \E r \in Posted : AcceptCommandResult(r)
    \/ \E w \in Callers, k \in Keys : WaitForCommandResult(w, k)
    \/ \E w \in Callers : ResultTimeout(w) \/ TakeResult(w)
    \/ IsolateRestart

CoordinatorSpec == CoordinatorInit /\ [][CoordinatorNext]_coordinatorVars

-----------------------------------------------------------------------------
(* Properties *)

\* The watermark is exactly the length of the prefix of sequences that have a
\* result: it claims no missing result and it is never behind one that closes
\* the gap, whatever the order results arrive in (acceptCommandResult).
WatermarkIsContiguousPrefix ==
    /\ (1..watermark) \subseteq CompletedSequences(row)
    /\ watermark + 1 \notin CompletedSequences(row)

\* Nobody sleeps through work: while a poll waits, no command is queued, and
\* while a caller waits for a result, none is stored (the checks before the
\* waiters are registered, and the wake-ups of enqueue and
\* acceptCommandResult).
NoLostWakeup ==
    /\ (\E p \in Pollers : poll[p] = Waiting) => Queued = {}
    /\ \A w \in Callers, k \in Keys :
          call[w] = WaitingFor(k) => row[k].status \notin Terminal

\* What a caller was told is the durable result, so a retry after a lost
\* response or an isolate restart is told the same.
AnswersAreDurable ==
    \A w \in Callers : call[w].state = "answered" /\ call[w].value # NoResult
        => row[call[w].value.key].result = call[w].value

\* The first accepted result of a command is its last: neither a late second
\* result, nor expiry, nor a replayed enqueue disturbs it.
ResultIsFinal ==
    [][\A k \in Keys : row[k].status \in Terminal => row'[k] = row[k]]_coordinatorVars

\* A poll never overtakes: when it is handed a command, every command enqueued
\* earlier has a result or has expired.
DeliveredInOrder ==
    [][\A p \in Pollers, k \in Keys :
         /\ poll'[p] # poll[p]
         /\ row'[k].status # "absent"
         /\ poll'[p] = Answer(row'[k].command)
         => \A j \in Keys : row'[j].status = "queued"
                              => row'[j].sequence >= row'[k].sequence]_coordinatorVars
=============================================================================
