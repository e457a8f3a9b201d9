------------------------------- MODULE Outbox -------------------------------
(***************************************************************************)
(* The transactional outbox: rows of the D1 table outbox, claimed in pages *)
(* under a lease (packages/db-d1), published and marked one by one         *)
(* (workers/queue-consumers), and the organization's event object that     *)
(* drops what it broadcast recently (OrganizationEventsDO).                *)
(*                                                                         *)
(* A worker is one run of publishOutbox with a worker ID and a lease token *)
(* of its own; its name stands for both.  Runs start at any time: by a     *)
(* wakeup message, by the loop of drainOutbox and by the cron trigger.     *)
(* Every statement on the table is one step, so is a call of the event     *)
(* object; a run may crash between any two.  Times are abstracted to what  *)
(* the clock has passed: lease_until (live) and available_at (due).        *)
(***************************************************************************)
EXTENDS Naturals, Sequences, FiniteSets

Nobody == "nobody"

CONSTANTS
    Events,      \* outbox events, each written by one transaction
    Broadcasts,  \* events published to the organization's event object
    Mails,       \* invitations, which the mail service may refuse for good
    Invalid,     \* audit exports whose row or payload breaks their contract
    Flaky,       \* events whose publication fails, and is retried, every time
    Workers,     \* runs of publishOutbox at one time
    Page,        \* how many rows a run claims (50)
    Retained,    \* how many broadcasts the event object remembers (100)
    MaxFaults    \* bound: crashes, lost answers and leases lost by live runs

ASSUME OutboxAssumption ==
    /\ Broadcasts \subseteq Events /\ Mails \subseteq Events
    /\ Invalid \subseteq Events /\ Flaky \subseteq Events
    /\ Broadcasts \cap Mails = {}
    /\ Invalid \cap (Broadcasts \cup Mails \cup Flaky) = {}
    /\ Nobody \notin Workers
    /\ Page \in Nat /\ Retained \in Nat /\ MaxFaults \in Nat

VARIABLES
    row,         \* the outbox table
    order,       \* events in the order of created_at
    task,        \* task[w][e]: what run w is doing with event e
    published,   \* events whose publication took effect at least once
    remediated,  \* refused invitations that were handed to a person
    log,         \* what the event object broadcast
    faults

outboxVars == <<row, order, task, published, remediated, log, faults>>

Settled == {"delivered", "failed_terminal"}
RowStates == {"absent", "pending", "publishing", "failed"} \cup Settled
Row == [state: RowStates,
        holder: Workers \cup {Nobody}, live: BOOLEAN, due: BOOLEAN]
\* A row without a lease.
Released(state, due) ==
    [state |-> state, holder |-> Nobody, live |-> FALSE, due |-> due]
Unwritten == Released("absent", FALSE)

OutboxTypeOK ==
    /\ row \in [Events -> Row]
    /\ order \in Seq(Events)
    /\ task \in [Workers -> [Events -> {"none", "claimed", "sent", "broken", "refused"}]]
    /\ published \subseteq Events
    /\ remediated \subseteq Mails
    /\ log \in Seq(Broadcasts)
    /\ faults \in 0 .. MaxFaults

OutboxInit ==
    /\ row = [e \in Events |-> Unwritten]
    /\ order = <<>>
    /\ task = [w \in Workers |-> [e \in Events |-> "none"]]
    /\ published = {} /\ remediated = {}
    /\ log = <<>>
    /\ faults = 0

NoFault == faults' = faults
Fault == faults < MaxFaults /\ faults' = faults + 1

-----------------------------------------------------------------------------
(* The table.                                                              *)

\* A transaction writes an event next to its domain change.
AppendEvent(e) ==
    /\ row[e].state = "absent"
    /\ row' = [row EXCEPT ![e] = Released("pending", TRUE)]
    /\ order' = Append(order, e)
    /\ NoFault
    /\ UNCHANGED <<task, published, remediated, log>>

\* Mutants: rows under a lease that runs; no row that was ever claimed.
ClaimableUnderLease(e) ==
    row[e].state \in {"pending", "failed", "publishing"} /\ row[e].due
ClaimableOnce(e) == row[e].state \in {"pending", "failed"} /\ row[e].due

\* What claimPending selects: what is due, and what a lapsed lease left behind.
Claimable(e) ==
    \/ row[e].state \in {"pending", "failed"} /\ row[e].due
    \/ row[e].state = "publishing" /\ ~row[e].live

Older(f, e) ==
    \E i, j \in DOMAIN order : i < j /\ order[i] = f /\ order[j] = e

\* The oldest Page of the claimable events.
Batch ==
    {e \in Events :
       /\ Claimable(e)
       /\ Cardinality({f \in Events : Claimable(f) /\ Older(f, e)}) < Page}

\* publishOutbox claims a page in one statement; each run takes one page.
ClaimPending(w) ==
    /\ \A e \in Events : task[w][e] = "none"
    /\ Batch # {}
    /\ row' = [e \in Events |->
                 IF e \in Batch
                 THEN [row[e] EXCEPT !.state = "publishing", !.holder = w, !.live = TRUE]
                 ELSE row[e]]
    /\ task' = [task EXCEPT ![w] = [e \in Events |->
                                      IF e \in Batch THEN "claimed" ELSE "none"]]
    /\ NoFault
    /\ UNCHANGED <<order, published, remediated, log>>

\* Every mark is fenced by the state, the worker and the lease token.
Holds(w, e) == row[e].state = "publishing" /\ row[e].holder = w

\* Mutant: the lease is not checked.
MarkUnfenced(w, e, state, due) ==
    /\ row' = [row EXCEPT ![e] = Released(state, due)]
    /\ task' = [task EXCEPT ![w][e] = "none"]
    /\ NoFault
    /\ UNCHANGED <<order, published, remediated, log>>

\* A mark of a run that lost the lease changes nothing: ConflictError.
Mark(w, e, state, due) ==
    /\ row' = [row EXCEPT ![e] = IF Holds(w, e) THEN Released(state, due) ELSE @]
    /\ task' = [task EXCEPT ![w][e] = "none"]
    /\ NoFault
    /\ UNCHANGED <<order, published, remediated, log>>

\* Mutant: delivered before it is published.
MarkDeliveredFirst(w, e) ==
    /\ task[w][e] \in {"claimed", "sent"}
    /\ Mark(w, e, "delivered", row[e].due)

MarkDelivered(w, e) ==
    /\ task[w][e] = "sent"
    /\ Mark(w, e, "delivered", row[e].due)

\* The row becomes available again when its backoff is over.
MarkFailed(w, e) ==
    /\ task[w][e] = "broken"
    /\ Mark(w, e, "failed", FALSE)

\* Mutant: the state as the node image steps spell it.
MarkTerminalMisspelt(w, e) ==
    /\ task[w][e] = "refused"
    /\ Mark(w, e, "failed-terminal", row[e].due)

MarkTerminalFailed(w, e) ==
    /\ task[w][e] = "refused"
    /\ Mark(w, e, "failed_terminal", row[e].due)

-----------------------------------------------------------------------------
(* Publication.                                                            *)

\* Mutant: one broadcast less is remembered.
RememberedOneLess == {log[i] : i \in {j \in DOMAIN log : j + Retained > Len(log) + 1}}

\* The last Retained broadcasts, which the event object keeps in its table.
Remembered == {log[i] : i \in {j \in DOMAIN log : j + Retained > Len(log)}}

\* The effect of publishOutboxEvent: a message, a mail or a broadcast, which
\* the event object ignores when it remembers the event.
TakeEffect(e) ==
    /\ published' = published \cup {e}
    /\ log' = IF e \in Broadcasts /\ e \notin Remembered THEN Append(log, e) ELSE log
    /\ UNCHANGED remediated

Publish(w, e) ==
    /\ task[w][e] = "claimed"
    /\ e \notin Flaky \cup Invalid
    /\ TakeEffect(e)
    /\ task' = [task EXCEPT ![w][e] = "sent"]
    /\ NoFault
    /\ UNCHANGED <<row, order>>

\* A person is asked to help with an address the mail service refuses.
Remediate(e) ==
    /\ e \in Mails
    /\ remediated' = remediated \cup {e}
    /\ UNCHANGED <<published, log>>

\* The publication failed, or it took effect and its answer, or a later call
\* of the same publication, failed.
PublishFails(w, e) ==
    /\ task[w][e] = "claimed"
    /\ e \notin Invalid
    /\ task' = [task EXCEPT ![w][e] = "broken"]
    /\ \/ Fault /\ (TakeEffect(e) \/ Remediate(e))
       \/ /\ IF e \in Flaky THEN NoFault ELSE Fault
          /\ UNCHANGED <<published, remediated, log>>
    /\ UNCHANGED <<row, order>>

\* The mail service refuses the address for good, and the failure is terminal.
Refuse(w, e) ==
    /\ task[w][e] = "claimed"
    /\ Remediate(e)
    /\ task' = [task EXCEPT ![w][e] = "refused"]
    /\ NoFault
    /\ UNCHANGED <<row, order>>

\* An audit export that breaks its contract fails for good before it is sent,
\* and nobody is asked to help.
Reject(w, e) ==
    /\ task[w][e] = "claimed"
    /\ e \in Invalid
    /\ task' = [task EXCEPT ![w][e] = "refused"]
    /\ NoFault
    /\ UNCHANGED <<row, order, published, remediated, log>>

-----------------------------------------------------------------------------
(* Time and failures.                                                      *)

\* A run ends for good in the middle of its page; nobody has its token now.
Crash(w) ==
    /\ \E e \in Events : task[w][e] # "none"
    /\ Fault
    /\ task' = [task EXCEPT ![w] = [e \in Events |-> "none"]]
    /\ row' = [e \in Events |->
                 IF Holds(w, e) THEN [row[e] EXCEPT !.holder = Nobody] ELSE row[e]]
    /\ UNCHANGED <<order, published, remediated, log>>

\* The write of a mark fails: the row keeps a lease that nobody will present.
MarkIsLost(w, e) ==
    /\ task[w][e] \in {"sent", "broken", "refused"}
    /\ Fault
    /\ task' = [task EXCEPT ![w][e] = "none"]
    /\ row' = [row EXCEPT ![e] = IF Holds(w, e) THEN [@ EXCEPT !.holder = Nobody] ELSE @]
    /\ UNCHANGED <<order, published, remediated, log>>

LeaseRunsOut(e) ==
    /\ row[e].state = "publishing" /\ row[e].live
    /\ IF row[e].holder = Nobody THEN NoFault ELSE Fault
    /\ row' = [row EXCEPT ![e].live = FALSE]
    /\ UNCHANGED <<order, task, published, remediated, log>>

BecomeDue(e) ==
    /\ row[e].state = "failed" /\ ~row[e].due
    /\ row' = [row EXCEPT ![e].due = TRUE]
    /\ NoFault
    /\ UNCHANGED <<order, task, published, remediated, log>>

-----------------------------------------------------------------------------
\* deliverClaimedOutboxEvent: publish, then mark.
WorkOn(w, e) ==
    \/ Publish(w, e) \/ PublishFails(w, e) \/ Refuse(w, e) \/ Reject(w, e)
    \/ MarkDelivered(w, e) \/ MarkFailed(w, e) \/ MarkTerminalFailed(w, e)

OutboxNext ==
    \/ \E e \in Events : AppendEvent(e) \/ LeaseRunsOut(e) \/ BecomeDue(e)
    \/ \E w \in Workers :
         \/ ClaimPending(w)
         \/ Crash(w)
         \/ \E e \in Events : WorkOn(w, e) \/ MarkIsLost(w, e)

OutboxSpec == OutboxInit /\ [][OutboxNext]_outboxVars

\* The cron trigger starts runs again and again, a run that goes on finishes
\* its page, and time passes.  Nothing is assumed of failures.
OutboxFairness ==
    /\ WF_outboxVars(\E w \in Workers : ClaimPending(w))
    /\ \A w \in Workers : WF_outboxVars(\E e \in Events : WorkOn(w, e))
    /\ \A e \in Events :
         WF_outboxVars(BecomeDue(e) \/ (row[e].holder = Nobody /\ LeaseRunsOut(e)))

FairOutboxSpec == OutboxSpec /\ OutboxFairness

-----------------------------------------------------------------------------
(* Properties.                                                             *)

\* A settled row says what happened: delivered only after a publication took
\* effect, terminally failed only after a person was asked to help or because
\* the event breaks the contract of its kind, and then it was never sent; also
\* when runs overlap on one row (queue-consumers, deliverClaimedOutboxEvent).
SettledRowsAreBacked ==
    \A e \in Events :
      /\ row[e].state = "delivered" => e \in published
      /\ row[e].state = "failed_terminal" => e \in remediated \cup Invalid
      /\ e \in Invalid => e \notin published

\* A settled row stays as it is: a run that lost its lease cannot reopen or
\* overwrite what the next holder settled (db-d1, markDelivered, markFailed).
SettledRowsAreFinal ==
    [][\A e \in Events : row[e].state \in Settled => row'[e] = row[e]]_outboxVars

\* A row as its event stands: retries and leases do not count.
Standing(state) == IF state \in Settled \cup {"absent"} THEN state ELSE "owed"
Standings == [e \in Events |-> Standing(row[e].state)]

Delivery == INSTANCE EventDelivery WITH status <- Standings

\* The outbox implements the delivery of events: whatever runs overlap, crash,
\* lose their lease or their answers, only what a transaction wrote and its
\* contract admits is published, and an event settles once, as what happened
\* to it (queue-consumers, deliverClaimedOutboxEvent, toAuditExportQueueEvent;
\* db-d1, markDelivered, markFailed, markTerminalFailed).
ImplementsEventDelivery == Delivery!DeliverySpec

\* The dashboards see an event again only after more others than the event
\* object remembers, however often it is published (OrganizationEventsDO).
BroadcastsSpaced ==
    \A i, j \in DOMAIN log : i < j /\ log[i] = log[j] => j - i > Retained

\* No run takes over an event from a run that still works on it under a lease
\* that runs: two deliveries overlap only after a lease ran out, and a row the
\* run has marked is nobody's (claimPending, markDelivered).
NoTakeoverUnderLease ==
    [][\A w \in Workers, e \in Events :
         /\ task[w][e] # "none" /\ Holds(w, e) /\ row[e].live
         /\ row'[e].holder # w
         => task'[w][e] = "none"]_outboxVars

\* In the end every event that was written and can be delivered is settled,
\* although crashed runs hold leases, one that breaks its contract is given up,
\* and fewer events than a page fail for ever at the head of the order
\* (queue-consumers, scheduled; PRODUCT.md 21.6: reconciliation retries
\* undelivered events).
HealthyEventsSettle ==
    <>[](\A e \in Events \ Flaky : row[e].state \in Settled \cup {"absent"})
=============================================================================
