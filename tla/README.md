# Gridora: a verification project

Gridora is a control plane for game servers: an API and workflows on Cloudflare
Workers, Durable Objects and D1, and an agent on every node that executes signed
commands. These TLA+ modules model the parts of it where order, failure and
retries decide whether the system is right, TLC checks them on small instances,
and TLAPS proves their safety properties for every instance.

Contents: [the system](#the-system) ·
[modules](#modules-and-how-they-correspond-to-the-code) ·
[runs](#runs) · [bounds](#bounds) · [fairness](#fairness) ·
[proofs](#proofs) · [findings](#findings) ·
[known divergences](#known-divergences) · [not modelled](#what-is-not-modelled) ·
[plan](#plan)

## The system

| part | state it keeps | operations | talks to |
|---|---|---|---|
| **Node coordinator** (`workers/realtime/src/index.ts`, `NodeCoordinatorDO`) | SQLite: `commands` (status, body, result, sequence), `agent_state` (watermark); in memory: waiters | `enqueue`, `drainQueuedCommands`/`waitForCommand`, `acceptCommandResult`, `waitForCommandResult` | API routes and workflow steps by RPC |
| **Agent** (`apps/agent/src`) | SQLite file: `commands` (claim, lease, receipt), `revisions` | poll, `handleCommand` (`claim`, validate, execute, `renew`, `complete`), `acknowledge` | API by HTTP; Docker, plugins, files |
| **Game command dispatch** (`apps/api/src/game-lifecycle-runtime.ts`) | D1 `game_command_deliveries` | `dispatchCommand`: read, insert, enqueue, mark delivered, await, settle | coordinator, D1 |
| **Result route and machine audit** (`apps/api/src/index.ts`, `packages/agent-observation-d1`) | D1 `agent_machine_audit_receipts`, and the delivery row again | `POST …/result`: `acceptCommandResult`, then `recordCommandResult` | coordinator, D1 |
| **Outbox** (`packages/db-d1`, `workers/queue-consumers`) | D1 `outbox` rows with leases | `claimPending`, publish, `markDelivered`, `markFailed`, `markTerminalFailed` | queues, organization events |
| **Organization events** (`OrganizationEventsDO`) | SQLite: the last 100 events | `publish` with dedupe by event ID | dashboard sockets |
| **Resource operation lock** (`ResourceOperationDO`) | SQLite: one leased lock, idempotency reservations | `requestCancellation`; `acquire`, `renew`, `release` and the reservations have no caller | API routes |
| **Live log stream** (`workers/realtime/src/live-log-stream.ts`) | SQLite: tickets, retained events, archives, authorization generations; sockets | `initialize`, `claimTicket`, `fetch`, `publish`, `synchronize…`, `alarm` | API, telemetry queue, outbox consumer |
| **Authentication objects** | SQLite / storage: nonces, windows, intents | claim, allow, issue, consume | API routes |
| **Telemetry spool and ingestion** (`packages/agent-telemetry`, `apps/api/src/telemetry-runtime.ts`) | agent: a file with log entries and the prepared payload; D1: archives, epoch watermarks, receipts, pending publications | `append`, `publishOnce`; `ingest`, `enqueuePendingPublication` | agent to API by HTTP; telemetry queue, R2 |
| **Lifecycle termination** (`packages/lifecycle-termination-*`, `apps/api/src/node-termination-execution-runtime.ts`, `provider-retirement-transports`, `workers/workflows`) | D1: operation, cancellation facts, step and effect receipts, cancellation request, node run, rebuild bootstrap, affected servers, audit operations | signed steps: `claimStep`, `resolveExpiredStepClaim`, `recordStepEffectReceipt`, `completeStep`, `finalizeCancellation`; `requestCancellation`; of a node: `completeNodeDrain`, `revokeNodeCredentials`, `claimNodeProviderDestructiveAction`, `prepareNodeRebuildBootstrap`, the two `recordNodeProvider…` | a Workflow instance by signed HTTP, providers, forced clean-up of game servers |
| **Other workflows** (game lifecycle, provisioning, backups, node power; `workers/workflows`, `packages/*-execution`, `*-workflow`, `orchestration`) | D1 operations and step receipts | steps with retries and compensation | all of the above, providers |
| **Observations, policies, orphans, scheduling, organizations, audit export** (`packages/*`) | D1, R2 | ingestion, reductions, reconciliations | agent, providers |

`PROJECT.json` lists every component with its sources and what is modelled of it.

### How a command travels

A workflow step writes a delivery row, enqueues a signed command in the node's
coordinator and waits for the result. The agent long-polls the coordinator, which
hands out the *oldest queued* command again and again until it has a result. The
agent claims the command in a local file under a lease, checks the expected
revision, executes, and stores the result (the *receipt*) together with the new
revision in one transaction. It posts the result to a route that gives it to the
coordinator first and then writes the delivery row and an audit receipt in D1. The
coordinator wakes the workflow step, which writes the same delivery row.

### What is hard about it, and what makes it right

* **Coordinator.** Waiters in memory, rows on disk, restarts between the two; expiry
  against late results; results out of order. *Right if* nobody sleeps through work,
  results are final, polls never overtake, and the watermark is the completed prefix.
* **Agent.** The effect and the receipt cannot be atomic; leases run out while a
  process is only slow; revisions are read long before they are compared. *Right if*
  no two commands that expect one revision both succeed, receipts are final, and a
  success is answered only for what was applied.
* **Dispatch, route and audit.** Two writers of one row; every request may be lost,
  late or duplicated; every party may crash between two calls. *Right if* all records
  of an outcome agree, effects are not repeated once an outcome is known, and every
  command and every step ends.
* **Outbox and organization events.** Leases shared by a page of rows, redelivery
  against a dedupe window. *Right if* nothing delivered was not published, final
  states are final, and everything is published in the end.
* **Telemetry and live logs.** Requests outlive the agent's patience, and a replay must
  finish what they began; archives are published at least once, in any order, under
  a retry limit; the object that broadcasts forgets; viewers come back with old
  cursors; authorization facts arrive late and repeated. *Right if* the agent drops
  only what is accepted and enqueued, the stream is contiguous, nothing is broadcast
  twice, viewers are told what they missed, and a closed fence never reopens.
* **Lifecycle termination.** A step is claimed, has its effect, is attested and is
  completed in four transactions with the provider in between; its request may outlive
  the lease and the patience of the workflow, and a cancellation competes with all of
  it. *Right if* the provider is asked once, only on an empty node and never after a
  cancellation, every step is attested once and what it attests is so.
* **Other workflows.** Order of steps, compensation, adoption after lost responses. *Right
  if* a retry adopts what was done and a failed operation is compensated.

## Modules and how they correspond to the code

| module | models | variables |
|---|---|---|
| `AgentProtocol` | `packages/agent-protocol`, `coordinator-invariants.ts`, `rejectedResult` | none: commands, keys, results, `ValidCommandResult`, `NextRevision` |
| `NodeCoordinator` | `NodeCoordinatorDO` | `row` (commands table), `issued` (AUTOINCREMENT), `watermark`, `elapsed` (commands past `expiresAt`), `poll`, `call` (waiters and answers) |
| `AgentCommands` | `processor.ts`, `file-command-state.ts`, `runtime.ts` | `claim`, `revision` (the SQLite file), `handler` (what each process does), `lapsed` (expiry by the agent's clock), `applied` (effects on the node) |
| `CommandDelivery` | `dispatchCommand`, the result route and `recordCommandResult`, composed with the two modules above | `delivery`, `dispatch`, `late` (requests that a step gave up), `posts` (result requests in flight), `receipt`, `faults` |
| `CommandLedger` | the abstract promise of the protocol | `ledger`, `level`, `outcome`, `told` |
| `EventDelivery` | the abstract promise of the outbox | `status`, `published`, `remediated`, `log` |
| `Outbox` | `claimPending`, the marks, `publishOutbox`, `deliverClaimedOutboxEvent`, `OrganizationEventsDO.publish` | `row` (the table), `order` (of `created_at`), `task` (what each run does with each event), `published`, `remediated`, `log` (broadcasts), `faults` |
| `LogFeed` | the abstract promise of a log stream | `written`, `accepted`, `offered`, `acked`, `live`, `shown` |
| `LogPublication` | `makeDurableTelemetryPublisher`, `ingest` and `enqueuePendingPublication`, the telemetry queue's consumer, `LiveLogStreamDO.publish` and `fetch` | `written`, `acked`, `pending`, `awaited` (the agent's spool), `ingest` (requests at work), `watermark`, `receipts`, `enqueued` (D1), `queue`, `sent`, `dead` (telemetry queue), `stream` (the object's tables), `unsent`, `broadcasts`, `aged`, `viewer`, `faults` |
| `StepLedger` | the abstract promise of signed steps | `outcome`, `done`, `halted` |
| `WorkflowSteps` | `executeSignedTerminationWorkflowStep`, the step repository, `requestCancellation`, `finalizeCancellation`, `GridoraTerminationWorkflow.run`; what a step does is left open | `type`, `operation`, `facts`, `step`, `effect`, `cancellation` (D1), `workflow` (the instance), `handler` (what each request at the API is doing) |
| `NodeTermination` | the effects of those steps for a node: executor and observer, the node run's repository, the provider transports | `terms` (what was accepted), `run`, `retirement`, `bootstrap`, `audited`, `active`, `pending`, `unsaved`, `credentials` (D1), `instance`, `posts` (the provider), `work` (what each request learnt so far) |
| `NodeCoordinatorProofs`, `AgentCommandsProofs`, `CommandDeliveryProofs`, `OutboxProofs`, `LogPublicationProofs`, `WorkflowStepsProofs`, `NodeTerminationProofs` | theorems and proofs | |
| `MC*` | instances for TLC | |

`CommandDelivery` *extends* `NodeCoordinator` and `AgentCommands` and reuses their
actions: an agent process is a poller of the coordinator, a workflow step is a
caller of `waitForCommandResult`, a post of a result is `AcceptCommandResult`.
`NodeTermination` *extends* `WorkflowSteps`: it takes over the actions of claim,
evidence, completion and cancellation, and replaces the open `Effect` by what the
executor and the observer do. `NodeSpec` implements `StepsSpec`, and that implements
`StepLedger`. `Outbox` implements `EventDelivery`, and `LogPublication` `LogFeed`: every
protocol but the coordinator and the agent, which are implemented together, has its
abstract specification, free of leases, requests, pages and failures.

Modelling decisions a reader should know:

* **One action per atomic step.** A method of a Durable Object that does not await
  after `ensureIdentity` is one action; so is a SQLite transaction of the agent and
  a D1 batch. Between two such steps anything may happen, a crash included.
* **Keys.** Every producer derives a command ID and its idempotency key from one
  digest, so a key stands for both. Two commands with one key are the payload
  mismatch that the coordinator and the agent refuse.
* **Clocks** are sets: the commands whose expiry a clock has passed (`elapsed` for
  the coordinator, `lapsed` for the agent: the two clocks are independent) and the
  claims whose lease still runs (`live`). An expiry or a lapse may happen between any
  two steps.
* **Claim tokens** are the names of the claiming processes. A process handles one
  command at a time, and a claim it takes again after its own lease ran out belongs
  to a new handling, since a crash has ended the old one.
* **`completedAt`** is an element of `Stamps`; in `CommandDelivery` a new handling
  gets a stamp no result of that command still carries. The code's rejection of an
  error reads the clock once more; the model keeps the handling's stamp.
* **Executors** report the revision `NextRevision`: `(prior ?? 0) + 1`
  (`executor.ts:35`), also for `deployment.apply`, whose spec carries the same number
  (`packages/game-lifecycle-execution/src/index.ts`, `makeDeploymentSpec`), and null
  for `health.inspect`. Of the effect only *that* it happened is kept (`applied`).
* **The delivery row's `result_json`.** The route stores a copy with a redacted
  message; messages are not modelled.
* **A retried step** starts again from `readDelivery`; a step whose retries are used
  up is `abandoned` (`Retry`).
* **Requests that a step gave up.** After two minutes, or when its request breaks off,
  the step is retried (`workflow-plan.ts:57`, `StepGivesUp`), and the request runs on at
  the API beside the retry: it becomes a member of `late`, goes through the same reads
  and writes (`LateRead` to `LateSettle`), with the unguarded `updateDelivery` among
  them, and nobody takes its answer. A request that died, or that ended without a
  result, is one that takes no further step. What a request given up while it waited for
  the result does afterwards is `LateSettle`, at a time when there is a result; its
  waiter in the coordinator, which only wakes it, is not kept.
* Signatures, decoding failures, scopes of organization and node, and errors of the
  storage itself are left out: they refuse before any state changes.

* **Outbox runs.** A worker is one call of `publishOutbox`; its name stands for the
  worker ID and the lease token, which are fresh for every call. When a run crashes
  or the write of a mark fails, the row keeps a lease with a token nobody will ever
  present: its holder becomes `Nobody`. `lease_until` and `available_at` are reduced
  to whether the clock has passed them (`live`, `due`). A page is published five at
  a time in the code; the model allows any order and overlap within the page.
* **Terminal failures of the outbox** are two: an invitation the mail service refuses,
  after a person was asked to help (`Refuse`), and an audit export whose row or payload
  breaks its contract, before it is sent and without a call for help (`Reject`,
  `toAuditExportQueueEvent`). Which exports do so is the constant `Invalid`: it depends
  on nothing but the row, so it is so in every run. An export that keeps its contract is
  an event like any other. Every other failure, a payload that cannot be decoded
  included, is retried (`Flaky`, or a fault).
* **Log publication** follows one stream of one deployment epoch. An archive is the
  range of its sequence numbers; an upload's lease, reservation, bytes and digests
  are left out, and a refusal on their account is a fault of the request, after which
  the agent retries. `Commit` is the D1 batch together with the triggers that abort it
  unless the archive follows the watermark (migration 0049). The spool's capacity is
  the bound of the run, and its entries are numbered without holes: `append` checks
  that against the entry before, and nothing in the repository but tests calls it yet.
* **The stream object** runs a transaction, then waits for the storage to flush, then
  broadcasts; only that wait lets other calls in, so the broadcast of one archive is
  one step, and archives are flushed in the order of their commits. Time is `aged`:
  everything up to that number is older than ten minutes. Byte limits trim like the
  count does. A viewer's `seen` are the entries it was shown and the ones a gap or a
  truncation frame told it about; its cursor is the latest entry it was shown.
* **Steps of a workflow.** A claim has a fresh claim ID and the number of its attempt;
  the number stands for both. `isExpired` compares with the time a request started, so
  a request remembers on arrival whether the claim it will find had run out then
  (`Expired`). `FollowRow` is what `claimStep` answers when the row exists. A failed
  call, a lost answer and the ten minutes of the workflow all end in `Learned`; a
  request that is given up runs on. `cancelOperation` and its audit are one action;
  the termination of the workflow instance, which may be repeated, is another. The
  completion's refusals and the triggers behind them are one guard (`Completable`), and
  so are the claim's (`Claimable`).
* **Reads and batches of a node run.** Where the code reads counts and then commits a
  batch whose trigger counts again (the claim of the provider action), the model has
  one atomic step with the stricter guard. The drain has no such trigger, so its read
  and its commit are two steps (`ReadDrain`, `CommitDrain`). `audited` is the set of
  audit operations, whose identifiers derive from operation and kind: a batch that
  inserts one again fails.
* **Providers.** `instance` is what the provider would tell of the node's instance; a
  request may change it or come to nothing, and the provider acts in its own time.
  Contabo's secure wipe and its cancellation, two calls in a row of which the second
  ends the contract, are one `Post`; a node of which only the wipe succeeded reads as
  *ambiguous*, like one that nothing happened to. A missing or a wrongly configured
  provider binding is the failure of the request.
* **Servers of a node.** New placements and new moves are refused while a node is not
  *ready*, but a move prepared before goes on (`MoveGoesOn`): its cut-over and its
  roll-back look at no node's state, so a server may leave a node that drains, or
  arrive at it. Any server of the run may have such a move when the lifecycle is
  accepted. A deployment ends, and an affected row is resolved, by the forced clean-up
  of a failed node alone (`ForcedCleanup`): no other code sets a deployment to
  *deleted*, and `markAffectedServerResolved` has no caller. What happens after a
  cancellation was finalised, or a leave-drain made the node ready again, is not followed. A required backup may still be taken while the node drains (`unsaved`); its
  later deletion by retention is not modelled.
* **The telemetry queue** promises no order; `InOrder` makes it hand out its oldest
  message first, where a property needs that.

## Runs

| run | instance | what it shows |
|---|---|---|
| `coordinator` | `NodeCoordinator` alone, any client | the queue loses, overtakes and overwrites nothing under interleaved enqueues, polls, results, expiry and restarts |
| `agent` | two processes, four commands: two with one expected revision, a malformed one, a self-update; one expires | no lost update of a revision, receipts are final, successes are real, and after a receipt only a process that was stalled in an execution may still change the node |
| `agent_unfenced` | one command without an expected revision | *violated*: see the findings |
| `delivery` | whole protocol, two dependent commands, one fault | effects in order; implements `CommandLedger`: a command is taken under the revision it expects, decided once, told as decided |
| `faults` | whole protocol, one command, two faults, fairness | all records of an outcome agree, whatever a request that the step gave up writes later; a success has its receipt and nothing is applied after an outcome when several failures of several parties meet; the command settles, and a step learns the result unless it has ended without it: given up, or told that its command expired before it was sent |
| `delivery_audit` | whole protocol, no fault | *violated*: see the findings |
| `outbox` | two broadcasts, a mail that fails for ever and an audit export that breaks its contract, two runs, one fault, fairness | implements `EventDelivery`: an event is settled once, by a publication, by the remediation of a mail, or unpublished because it breaks its contract; nobody is robbed of a lease that runs; broadcasts keep their distance; healthy events settle |
| `log_publication` | three entries, two overlapping requests, any queue order, one fault | implements `LogFeed`: nothing is shown or dropped from the spool before it was accepted, and nothing is shown twice; no holes; no archive is forgotten when retries run out and the object restarts |
| `log_viewers` | one viewer, five entries, three retained, a backlog of one | whatever a viewer misses over reconnections and trims is announced |
| `log_progress` | ordered queue, two retries and two faults, fairness | the spool drains; the live stream follows what was accepted |
| `termination` | drain, leave-drain, rebuild and retirement at either provider, forced or not, one server with or without its backup and a move under way, two requests, two failed calls | the provider is asked once, never after a cancellation, and on a node that was found empty and to which only a move under way can bring a server; what is attested is so; implements `StepLedger` |
| `termination_credentials` | the same with one request | *violated*: see the findings |

Every property has a mutant of the code in `PROJECT.json` under which its run finds
it violated; the mutants stand next to the definitions they replace.

## Bounds

* **Commands and processes.** Two commands are enough for order (one overtakes the
  other), for the revision fence (both expect the same one) and for a key conflict;
  two processes for a stolen claim.
* **`Stamps`** are the values of `completedAt`. In the agent's own runs one or two are
  enough: two results of one command that differ in nothing else. In the protocol's
  runs every new handling takes a stamp that no result of the command still carries,
  and there are enough of them that a handling always finds one.
* **`Posted`**, in the coordinator's own run, is the set of results its clients may
  post: successes and failures, a second answer that contradicts the first, and a
  success at a revision that is not valid for its command. In the protocol's runs it is
  empty, because results come from the agent.
* **`Expiring`** names the commands whose expiry may be reached in a run; the others
  live longer than the run. In `delivery` none expires, since expiry and a late request
  together are more states than two commands bear; they meet in `faults`, and the proofs
  hold for any expiry. A second, different result of one command comes of an expiry: that
  the first one stands is shown by `coordinator` and `faults`, and for the ledger by the
  proof (`ProtocolRefinesLedger`).
* **`MaxFaults`** bounds crashes, restarts, lost and abandoned requests and leases
  that run out under a living process. One fault in the run with two commands, two
  in the run with one: every recovery path is entered, and a recovery is itself
  interrupted. One fault is what it takes for a late request to mark a row that its
  retry has settled. The safety of these runs is proved for any number.
* **Outbox.** `Page` is 2 of 4 events, so a claim may leave something behind;
  `Retained` is 1 with two broadcasts, so the window is passed; `MaxFaults` is 1: a
  crash, a lost mark, a lost answer or a lease that a run outlives, each of which makes
  two runs meet at one row. One event fails for ever, fewer than a page: with a page of
  them progress is lost (see the known divergences). Two runs are enough for a takeover, and a third would only repeat one.
* **Log publication.** Batches of two of three entries, so a batch may be full, short
  or cut while others are appended; two requests, so one the agent gave up on meets
  its replay; `Retained` 3 and `Backlog` 1 under five entries, so that events are
  trimmed by number and the backlog is cut; `MaxRetries` is 1 where dead
  letters matter (refusals of archives that come too early use retries up as well),
  and covers the two faults where the stream has to follow. One fault is little; the
  safety of these runs is proved for any number.
* **Termination.** `Requests` is 2: one that the workflow gave up on or that lost its
  lease runs on beside its successor. `Tries` counts the calls that may fail before the
  workflow ends with an error, 2 over all steps instead of six for each: a step may
  crash and be found running, then be observed or executed again. `Servers` is 1: every
  guard asks whether any server is left. The safety of this run is proved for any
  number of each. The run ends when the workflow has ended, so it has no deadlock
  check.
* Symmetry is used for processes, callers and requests, and only in runs without
  liveness properties.

## Fairness

Liveness is checked under weak fairness only:

* a party that can take its next step takes it: the agent loop polls again after
  every error (`runtime.ts`), Workflows run a step until it ends or its retries are
  used up, a request that was received is served;
* timers run out: the long poll, the result wait, leases nobody renews, backoffs;
* the agent loop publishes again after every failure (`main.ts`), the API and the
  consumer finish what they began, the queue delivers and storage flushes;
* the cron trigger starts `publishOutbox` again and again (`scheduled`), and a run that
  goes on publishes and marks its page; which event of it comes next is open;
* of a request that a workflow step gave up, nothing is assumed: it may stop anywhere.

The termination of a node has no liveness property: its workflow ends with an error
after enough failed calls, and the steps behind the destructive one never complete (see
the known divergences). Nothing is assumed about expiry, crashes, lost answers or failing publications; they
are bounded by `MaxFaults`, so in every behaviour they end. Without such an end no
retry protocol makes progress.

## Proofs

TLAPS checks these for every set of commands, keys, processes, events and runs, and
every bound, the composition of coordinator, agent and cloud included. Every safety
property of a passing run is proved, one of them (`NoEffectAfterOutcome`) for one agent
process, as its run has it; liveness is only model-checked.

* **`NodeCoordinatorProofs`.** `CoordinatorInv` = types ∧ `RowsAreFiled` (a row stands
  under the key of its command, and a terminal one has a result of that key) ∧ `WatermarkIsContiguousPrefix` ∧ `NoLostWakeup`
  ∧ `AnswersAreTerminal` (an answer given is the stored result of a terminal row).
  The strengthening is needed because the watermark is recomputed from the sequences
  of terminal rows, and durable answers follow only if such rows are never touched.
* **`AgentCommandsProofs`.** `AgentInv` = types ∧ `ClaimsAreFiled` (a claim stands
  under its command's key, and a success records the revision after the expected one) ∧ `CarriedResultsAreSound` (what a process is about to
  store or send) ∧ `RevisionIsLatestReceipt` ∧ `OneSuccessPerRevision` ∧
  `SuccessWasApplied`. No two successes for one revision follows from the second to
  last but one: a success advances the revision its receipt records, and the fence
  compares with exactly that; that in turn needs every revision up to the current one to
  have its success, which `RevisionIsLatestReceipt` says as well. `HandlingIsOpen`, an invariant of its own, says that who
  took a claim and has not stored its result does not hold a receipt; hence effects
  precede receipts, but for those of a process that lost its claim.
* **`CommandDeliveryProofs`.** Every step of the composition is a step of the agent or
  none, and a step of the coordinator, the storing of a result that a request brought,
  or the end of a client; so the invariants of both parts carry over. `DeliveryInv` adds
  what is in flight: `AnswersAreOwn` and `PostsAreBacked` (an answer is for its command,
  a success on its way has its receipt, and what the coordinator let through is what it
  stored), `CallsAreOwn`, `CloudFollows` (D1 calls nothing decided that the coordinator
  does not), `RowsFollowResults`, and for the order `SequencesAreIssued` and
  `TurnsAreKept` (no queued command precedes one that was handed out). The writers
  of a delivery row, requests that a step gave up among them, agree because each carries
  the one result the coordinator stored; `OutcomesAgree` leaves such a request the state
  *delivered* of a row that was settled, and nothing else. The lemma
  `KnownAlwaysHaveDelivery` says that whatever the coordinator knows has a delivery row.
  The ledger follows: it enters a command with the agent's receipt, decides it with the
  coordinator's row and tells it with the workflow step. That nothing is applied after an
  outcome needs `OneAgent`: one process, and commands that are inspections or name the
  revision they expect. Then `OneAgentInv` holds: whatever was answered has a receipt or
  is expired for good, so a handling that took a claim is the first to come to an
  answer, and its completion never rolls back. With a second process, or without an
  expected revision (finding 1), an outcome may precede an effect. Under the same
  hypothesis `OneAgentStoresWhatItDid` says that whatever an execution reports can be
  stored, so nothing else is needed for finding 1. `UnrecordedResultsAreSettled` bounds
  finding 2: when the receipt of an accepted result can no longer be committed, the
  delivery row already holds exactly that result. `ToldIsFinal` says that what a step
  was told, the result in its delivery row and the coordinator's row never change again,
  and that the state of the delivery row moves only for a request the step gave up.
* **`OutboxProofs`.** `OutboxInv` = types ∧ `TasksAreBacked` (what a run is about to
  write happened, or its event breaks the contract of its kind) ∧ `SettledRowsAreBacked` ∧ `BroadcastsSpaced`. The distance of
  repeated broadcasts is proved from the definition of the window alone. The refinement
  of `EventDelivery` maps the states of a row to what is owed for it: a mark is `Settle`,
  and one of a run whose lease another took over changes nothing, because `HoldersWork`
  ties the lease to the run that works under it.
* **`LogPublicationProofs`.** `PublicationInv` = types ∧ `SpoolInv` ∧ `MessageInv` ∧
  `StreamInv`. `SpoolInv`: requests and receipts are of the pending batch or of
  acknowledged ones, and the watermark stands at the end of the one or the other; so
  an archive that follows the watermark *is* the pending one, and an old request can
  neither accept nor acknowledge anything else. `MessageInv`: a message a consumer
  works on lies behind the stream, whose last number is behind the watermark.
  `StreamInv`: archives waiting for their broadcast are apart from each other and
  above everything that was broadcast, which does not mention the memory of archives:
  trimming it costs retries, never a second broadcast. Trims keep contiguity because
  the newest of a set are upward closed. `ViewersInv` adds that every number from the
  first unsent one to the end of the stream waits for its broadcast (`UnsentReachesEnd`),
  and that a connected viewer has been shown or told of everything from its first entry
  to the end, except what still waits; a backlog is a page of what is retained, and what
  lies between the cursor and the page is what the gap and truncation frames announce.
  The refinement of `LogFeed` maps D1's watermark to what is accepted, the archives
  marked enqueued to what was offered and the broadcasts to what was shown; that an
  acknowledgement is a `LetGo` needs the receipts to cover every number up to the
  watermark (`LiveDataIsDurable`).
* **`WorkflowStepsProofs`.** `StepsInv` = types ∧ `RowsOK` (at most one step runs, all
  before it are completed, the facts name it with its own phase and revision, and no
  cancellation stands) ∧ `FlowOK` (what a request was told about a row, and where the
  workflow stands, was so). Evidence is stored only for a running step, whose facts no
  cancellation can have touched since it was claimed: that is the whole of the step
  mapping to `StepLedger`, with `Attest` under `RecordEffect` and `Resolve`, `Finish`
  under `Complete` and `Halt` under `RequestCancellation`. `CompleteWorkflowsAreDone`: a
  workflow that calls itself complete has completed every step, unless its cancellation
  is final. `NothingFollowsDestruction`: no step behind a destructive one ever begins. Its
  invariant, `DestructionShuts`, says that the phase is *destructive-step-running* or
  *terminal* as soon as the destructive step was claimed, and `RowMoves` that only a
  claim, which such a phase refuses, could leave it.
* **`NodeTerminationProofs`.** `NodeInv` = `StepsInv` ∧ types ∧ `OneClaim` (who is about
  to ask the provider is alone, holds the claim of the provider action and is the first
  to ask; the claim stands only without a cancellation, in the phase that admits none,
  and on a node with no server but those that moves have brought since) ∧ `Told` (what a request carries and what is attested is so)
  ∧ `Records` (so is what the run stores). The claim of the provider action, an audit
  operation that can be inserted once, is what makes the request unique: leases do not,
  since a stalled request asks after its lease ran out. `NodeRefinesSteps` maps every
  action of a node to the open `Effect` of its step, so the ledger is inherited, and so are
  the theorems about the end of a workflow: `RebuildsNeverFinish` says that a rebuild or a
  retirement that calls itself complete was cancelled. `RevocationsFollowClaims` bounds
  finding 3: a drain never revokes credentials, and a rebuild only after the provider
  claim on an emptied node.

Assumptions are those of the modules (`ProtocolAssumption`, `CoordinatorAssumption`,
`AgentAssumption`, `OutboxAssumption`, `PublicationAssumption`, `StepsAssumption`): they relate constants and fix no sizes.
`NodeAssumption` says that the workflow types of `WorkflowSteps` are the four of a node.

What the proofs do not cover: progress, which is shown on the instances only, and the
properties of the runs that expect a violation, of which the theorems above only say how
far they can fail.

## Findings

1. **A success without an expected revision cannot be stored** (`agent_unfenced`).
   `complete` in `file-command-state.ts:100` rolls back every success whose command
   has `expectedPriorRevision` null, after the effect happened, and the agent answers
   *rejected*. The control plane sends such commands and counts such results as valid.
2. **An accepted result may become unrecordable** (`delivery_audit`). The workflow
   step that the coordinator wakes can settle the delivery row before the route reads
   it; the route then answers 409 and the audit receipt is never written, although the
   comment at `apps/api/src/index.ts:3047` promises one atomic unit.

3. **Credentials are revoked although the drain is blocked** (`termination_credentials`).
   A drain that is not forced and finds a server commits *blocked*, but the executor
   returns a receipt for whatever was committed, so the step completes and the
   retirement goes on to revoke the credentials of a node whose servers run. PRODUCT.md
   says a drain completes only when no deployment remains or it is forced. The claim of
   the provider action refuses such a node, so no instance is lost.

## Known divergences

Met while modelling, in the code as modelled, without a run of their own:

* **Duplicates after expiry.** `processor.ts:43` checks the expiry before the receipt, so
  a duplicate of a completed command that comes too late is answered *rejected*;
  PRODUCT.md:1926 says the agent returns the prior result.
* **A settled delivery row is reopened.** `updateDelivery`
  (`game-lifecycle-runtime.ts:779-810`) does not look at the state it replaces, so a
  request of `dispatchCommand` that its step gave up can mark a row *delivered* (950)
  that the retry has settled, after the step is done. The row keeps the result, and the
  request settles it again unless it dies before. Until then whoever asks for a
  *completed* row is refused: the release of ports asks for that of the step `remove`
  (1376-1395). `OutcomesAgree` and `ToldIsFinal` say that no more than this happens.
* **A page of events that always fail.** A claim takes the oldest events that are due
  (`db-d1/src/index.ts:3430`), a page with a failure ends `drainOutbox`, and the backoff
  is at most 256 s (`queue-consumers/src/index.ts:617-619`), over at the next run of the
  cron trigger ten minutes later. Fifty events that always fail keep every other event
  from being published. With as many failing events as a page TLC finds
  `HealthyEventsSettle` violated.
* **A stream that begins in the middle.** A stream object without state accepts the
  first archive it is given, wherever it begins (`live-log-stream.ts:454`); the archives
  before it are refused as overlaps on every delivery and become dead letters, and live
  viewers never see their entries. The model has this; no property excludes it: the
  stream is contiguous, the archives are accounted for as dead letters, and
  `StreamFollows` is checked with a queue that keeps its order.
* **Steps behind the destructive one.** `completeStep` leaves the phase at
  `destructive-step-running` (`lifecycle-termination-d1/src/index.ts:3031-3039`), while
  `mayClaimStep` (2448-2450) claims only in the phase of the policy. `bootstrap-node`,
  `verify-agent` and `cleanup-networking` can therefore not be claimed, and no rebuild or
  retirement completes; both are proved (`NothingFollowsDestruction`, `RebuildsNeverFinish`).
* **Moves arrive at a drained node.** `cutoverMove` and `rollbackMove`
  (`game-lifecycle-runtime.ts:2043`, `2149`) check no node's state, and neither
  `acceptNodeLifecycle` nor the trigger `node_lifecycle_provider_destructive_guard` looks
  at moves. A server whose move was prepared before the lifecycle was accepted can come
  to a node that is attested as drained, also after its provider was asked to rebuild or
  delete it. `ProviderActsOnEmptyNode` and `EvidenceIsTrue` say exactly that and no more;
  without their exception for `Moved` TLC finds both violated.
* **Deleted servers keep their deployment.** Only the forced clean-up of a failed node
  (`game-lifecycle-runtime.ts:1213`) sets a deployment to *deleted*; the deletion of a
  server releases its ports and leaves it. ADR 0052 counts on deployments that were
  "moved or actually deleted"; such a node drains only by force, and its provider
  action stays refused.
* **A rebuild that never happened.** After a crash between `prepareNodeRebuildBootstrap`
  and the request, the observer finds the old instance *active* and attests
  `provider-rebuild-active`; nothing tells the old instance from a rebuilt one.
* **Retirements that stay.** An OVH retirement whose request never reached the provider
  is observed as *delete-requested* and never sent again; a claim of the provider
  action that was refused (a missing backup) is not tried again, because its observer
  never says *not-applied*; a state seen twice with another in between cannot be stored
  again, since its audit operation exists.
* **Cancelled drains.** The node run of a cancelled operation stays as it was, and an
  index admits one active run for each node (migration 0019, line 365). The executor of
  a step is the only one to finalise a cancellation: when the workflow was terminated
  between two calls, the operation stays *cancelling*. A retirement that is cancelled
  after the revocation leaves a node without credentials.

## What is not modelled

* Components marked `not_modelled` in `PROJECT.json`, each with its reason there:
  provider clients, cryptography, formats and user interfaces for good; the others
  because they come later in the plan.
* The lock of `ResourceOperationDO`: nothing acquires it, so it protects nothing, and
  `requestCancellation` always answers that no holder was signalled. Clients would
  have to be invented. The same holds for `acknowledge` and `reservePort` of the
  coordinator.
* Of the modelled components: signatures and decoding, scopes of organization and
  node, message texts, storage errors, of log publication also health samples, the
  upload to R2 with its leases and cleanup, permanent refusals (a sample older than a
  day, a stopped deployment), tickets and authorization of viewers, the effect of a command beyond *that* it
  happened, and WebSocket delivery to agents; of lifecycle termination the guards of an
  acceptance, the envelope and signature of a call, the delivery of a cancellation to
  holders of locks (`recordCancellationSignal`), the tokens of a rebuild, tunnels and the
  deletion of an organization, whose steps run under `WorkflowSteps` as well but whose
  effects are not filled in.
* The share of the sources that is mapped is small because the repository is large:
  most of its lines are schemas, decoding, SQL texts, HTTP handlers and user interface
  around the protocols.

## Plan

In this order; each module brings its MC module, its runs and, where the last column
says so, a proof.

| module | what it will say | composes | proof |
|---|---|---|---|
| `OrganizationDeletion` | inventory, external and database deletions of an organization under the same signed steps (`lifecycle-termination-d1`) | `WorkflowSteps` | deletion after the inventory is empty |
| `GameOperation` | order of a game operation's steps, several commands under one expected revision, compensation that stops at its first failure (`game-lifecycle-execution`, `orchestration`) | `CommandDelivery` abstractly, by `CommandLedger` | – |
| `LiveLogAccess` | authorization generations, tickets, sockets: a fence never reopens, stale sockets close (`live-log-stream.ts`, migration 0049) | `Outbox` as the carrier of facts | fence monotonicity |
| `AuthObjects` | replay guard, rate limit and one-time intents with retried requests | – | at most one consumption |
| `ProvisionSteps` | node provisioning with provider receipts and uncertain creates | – | at most one machine per step |
| `BackupLeases`, `ArchiveUploads`, `SelfUpdate`, `Orphans`, `Policies` | leases and cleanup of backups, leases and cleanup of log archives, crash-safe file swaps, two-observation confirmation, policy revisions | – | later |
| `Placement` | the scheduler against a reference definition over bounded inputs | – | – |
