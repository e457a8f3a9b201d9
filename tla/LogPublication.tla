--------------------------- MODULE LogPublication ---------------------------
(***************************************************************************)
(* One log stream of one deployment epoch, from the agent to the screen:   *)
(* the agent's durable spool (packages/agent-telemetry), the ingestion     *)
(* that commits an archive and its pending publication in D1 and puts it   *)
(* on a queue (apps/api, telemetry-runtime), the queue consumer (workers/  *)
(* queue-consumers) and the stream object that keeps the last events and   *)
(* feeds the viewers (workers/realtime, LiveLogStreamDO).                  *)
(*                                                                         *)
(* An archive is the range of sequence numbers of its entries.  Requests   *)
(* the agent gave up on run on; the queue delivers at least once, in any   *)
(* order, a bounded number of times; the stream object loses what it did   *)
(* not yet broadcast, and its sockets, when it restarts.                   *)
(***************************************************************************)
EXTENDS Naturals, FiniteSets, FiniteSetsExt

NoRequest == "none"

CONSTANTS
    Ingests,     \* telemetry requests at one time
    Viewers,
    BatchLimit,  \* entries in one batch (512)
    Retained,    \* events, and archives, the stream object keeps (512)
    Backlog,     \* events a connecting viewer is given (128)
    MaxRetries,  \* how often the queue redelivers a message (5)
    InOrder,     \* the queue hands out its oldest message first
    MaxWritten,  \* bound: log entries
    MaxFaults    \* bound: timeouts, lost answers, failed calls and restarts

ASSUME PublicationAssumption ==
    /\ BatchLimit \in Nat \ {0} /\ Retained \in Nat \ {0} /\ Backlog \in Nat \ {0}
    /\ MaxRetries \in Nat /\ MaxWritten \in Nat /\ MaxFaults \in Nat
    /\ InOrder \in BOOLEAN
    /\ NoRequest \notin Ingests

VARIABLES
    written,    \* the last entry appended to the spool
    acked,      \* the last entry removed from it
    pending,    \* the prepared batch the spool holds, exactly as it was sent
    awaited,    \* the request the agent waits for
    ingest,     \* the requests the API works on
    watermark,  \* D1: last accepted sequence number of the epoch
    receipts,   \* D1: accepted archives
    enqueued,   \* D1: the publications marked enqueued
    queue,      \* messages of the telemetry queue
    sent,       \* how many messages were sent
    dead,       \* archives whose message ran out of retries
    stream,     \* the stream object's tables
    unsent,     \* archives it committed and did not broadcast yet
    broadcasts, \* sequence numbers it broadcast
    aged,       \* the last sequence number past the retention time
    viewer,
    faults

agentSide == <<written, acked, pending, awaited>>
database == <<watermark, receipts, enqueued>>
queueSide == <<queue, sent, dead>>
streamSide == <<stream, unsent, broadcasts, aged, viewer>>
publicationVars == <<agentSide, ingest, database, queueSide, streamSide, faults>>

Archive == {a \in [first: Nat \ {0}, last: Nat \ {0}] : a.first <= a.last}
Span(a) == a.first .. a.last
None == [first |-> 0, last |-> 0]
\* What a request holds of an archive: nothing, or the archive.
AtRest == [pc |-> "idle", archive |-> None]
PastCommit == {"read", "send", "mark", "reply"}
Message == [id: Nat, archive: Archive, attempts: Nat,
            phase: {"waiting", "calling", "answered"}]

\* seen: sequence numbers that were shown, or announced as lost, since the
\* viewer connected without a cursor, which is the greatest one shown.
Viewer == [on: BOOLEAN, cursor: Nat, start: Nat, seen: SUBSET Nat]

PublicationTypeOK ==
    /\ written \in Nat /\ acked \in Nat
    /\ pending \in Archive \cup {None}
    /\ awaited \in Ingests \cup {NoRequest}
    /\ ingest \in [Ingests -> [pc: {"idle", "lookup", "upload"} \cup PastCommit,
                               archive: Archive \cup {None}]]
    /\ \A r \in Ingests : ingest[r].pc # "idle" => ingest[r].archive \in Archive
    /\ watermark \in Nat /\ sent \in Nat /\ aged \in Nat
    /\ receipts \subseteq Archive /\ enqueued \subseteq receipts /\ dead \subseteq receipts
    /\ queue \subseteq Message
    /\ stream \in [last: Nat, events: SUBSET Nat, archives: SUBSET Archive]
    /\ unsent \subseteq Archive
    /\ broadcasts \subseteq Nat
    /\ viewer \in [Viewers -> Viewer]
    /\ faults \in 0 .. MaxFaults

PublicationInit ==
    /\ written = 0 /\ acked = 0 /\ pending = None /\ awaited = NoRequest
    /\ ingest = [r \in Ingests |-> AtRest]
    /\ watermark = 0 /\ receipts = {} /\ enqueued = {}
    /\ queue = {} /\ sent = 0 /\ dead = {}
    /\ stream = [last |-> 0, events |-> {}, archives |-> {}]
    /\ unsent = {} /\ broadcasts = {} /\ aged = 0
    /\ viewer = [v \in Viewers |-> [on |-> FALSE, cursor |-> 0, start |-> 0, seen |-> {}]]
    /\ faults = 0

NoFault == faults' = faults
Fault == faults < MaxFaults /\ faults' = faults + 1

-----------------------------------------------------------------------------
(* The agent.                                                              *)

AppendEntry ==
    /\ written < MaxWritten
    /\ written' = written + 1
    /\ NoFault
    /\ UNCHANGED <<acked, pending, awaited, ingest, database, queueSide, streamSide>>

\* The next batch is the head of the spool, at most BatchLimit entries long.
NextBatch ==
    [first |-> acked + 1,
     last |-> IF written - acked > BatchLimit THEN acked + BatchLimit ELSE written]

\* Mutant: the batch is cut anew for every attempt.
CutAnew == NextBatch

\* A batch that was prepared stays as it is until it is acknowledged.
Prepared == IF pending # None THEN pending ELSE NextBatch

\* Mutant: also when the spool is empty.
PublishEvenEmpty(r) ==
    /\ awaited = NoRequest /\ ingest[r].pc = "idle"
    /\ pending' = Prepared
    /\ awaited' = r
    /\ ingest' = [ingest EXCEPT ![r] = [pc |-> "lookup", archive |-> Prepared]]
    /\ NoFault
    /\ UNCHANGED <<written, acked, database, queueSide, streamSide>>

\* publishOnce: the payload is durable before it is sent.  (Health samples
\* without logs are left out: they publish nothing.)
PublishOnce(r) ==
    /\ awaited = NoRequest /\ ingest[r].pc = "idle"
    /\ written > acked
    /\ pending' = Prepared
    /\ awaited' = r
    /\ ingest' = [ingest EXCEPT ![r] = [pc |-> "lookup", archive |-> Prepared]]
    /\ NoFault
    /\ UNCHANGED <<written, acked, database, queueSide, streamSide>>

\* The receipt names the range of the pending payload, which leaves the spool
\* together with its entries.  The answer to a request given up is dropped.
Acknowledge(r) ==
    /\ ingest[r].pc = "reply"
    /\ ingest' = [ingest EXCEPT ![r] = AtRest]
    /\ IF awaited = r
       THEN /\ acked' = pending.last /\ pending' = None /\ awaited' = NoRequest
       ELSE UNCHANGED <<acked, pending, awaited>>
    /\ NoFault
    /\ UNCHANGED <<written, database, queueSide, streamSide>>

\* The agent's ten seconds are over, or the agent restarts.
GiveUp ==
    /\ awaited # NoRequest
    /\ Fault
    /\ awaited' = NoRequest
    /\ UNCHANGED <<written, acked, pending, ingest, database, queueSide, streamSide>>

-----------------------------------------------------------------------------
(* Ingestion.                                                              *)

GoTo(r, pc) == ingest' = [ingest EXCEPT ![r].pc = pc]

\* Mutants: a replay is answered without a look at its publication; an archive
\* is published before it is accepted.
ReplayForgets(r) ==
    /\ ingest[r].pc = "lookup"
    /\ GoTo(r, IF ingest[r].archive \in receipts THEN "reply" ELSE "upload")
    /\ NoFault
    /\ UNCHANGED <<agentSide, database, queueSide, streamSide>>
PublishesFirst(r) ==
    /\ ingest[r].pc = "lookup"
    /\ GoTo(r, IF ingest[r].archive \in receipts THEN "read" ELSE "send")
    /\ NoFault
    /\ UNCHANGED <<agentSide, database, queueSide, streamSide>>

\* A payload that has a receipt only makes sure of its publication.
FindReceipt(r) ==
    /\ ingest[r].pc = "lookup"
    /\ GoTo(r, IF ingest[r].archive \in receipts THEN "read" ELSE "upload")
    /\ NoFault
    /\ UNCHANGED <<agentSide, database, queueSide, streamSide>>

\* One D1 batch: archive, watermark, receipt and pending publication.  The
\* triggers abort it unless the archive follows the watermark; a request that
\* lost the race then finds the receipt of the other.
Commit(r) ==
    LET a == ingest[r].archive IN
    /\ ingest[r].pc = "upload"
    /\ \/ /\ a \notin receipts /\ a.first = watermark + 1
          /\ receipts' = receipts \cup {a} /\ watermark' = a.last
          /\ GoTo(r, "read")
       \/ /\ a \in receipts
          /\ GoTo(r, "read")
          /\ UNCHANGED <<receipts, watermark>>
    /\ NoFault
    /\ UNCHANGED <<agentSide, enqueued, queueSide, streamSide>>

ReadPublication(r) ==
    /\ ingest[r].pc = "read"
    /\ GoTo(r, IF ingest[r].archive \in enqueued THEN "reply" ELSE "send")
    /\ NoFault
    /\ UNCHANGED <<agentSide, database, queueSide, streamSide>>

Send(r) ==
    /\ ingest[r].pc = "send"
    /\ queue' = queue \cup {[id |-> sent, archive |-> ingest[r].archive,
                             attempts |-> 0, phase |-> "waiting"]}
    /\ sent' = sent + 1
    /\ GoTo(r, "mark")
    /\ NoFault
    /\ UNCHANGED <<agentSide, database, dead, streamSide>>

MarkEnqueued(r) ==
    /\ ingest[r].pc = "mark"
    /\ enqueued' = enqueued \cup {ingest[r].archive}
    /\ GoTo(r, "reply")
    /\ NoFault
    /\ UNCHANGED <<agentSide, watermark, receipts, queueSide, streamSide>>

\* The archive does not follow what was accepted.
Conflicts(a) == a \notin receipts /\ a.first # watermark + 1

\* A call fails, an upload lease is held by another request, the archive is a
\* conflict, or the worker stops: the agent gets an error, or nothing, and
\* retries the same payload.
IngestFails(r) ==
    /\ ingest[r].pc # "idle"
    /\ IF ingest[r].pc = "upload" /\ Conflicts(ingest[r].archive) THEN NoFault ELSE Fault
    /\ ingest' = [ingest EXCEPT ![r] = AtRest]
    /\ awaited' = IF awaited = r THEN NoRequest ELSE awaited
    /\ UNCHANGED <<written, acked, pending, database, queueSide, streamSide>>

-----------------------------------------------------------------------------
(* The queue and the stream object.                                        *)

Newest(S, n) == {k \in S : Cardinality({j \in S : j > k}) < n}
Oldest(S, n) == {k \in S : Cardinality({j \in S : j < k}) < n}

\* trimEvents and trimArchives: what is too old and what is too much.
Trim(events) == Newest({k \in events : k > aged}, Retained)
TrimArchives(archives) ==
    LET young == {a \in archives : a.first > aged}
    IN  {a \in young : Cardinality({b \in young : b.first > a.first}) < Retained}

\* Delivered before: by its identity, or, when that is forgotten, by its
\* entries.
Replayed(a) ==
    \/ a \in stream.archives
    \/ a.last <= stream.last /\ Span(a) \subseteq stream.events

\* Mutants: no check for gaps; no check for overlaps.
FollowsOrSkips(a) == stream.last = 0 \/ a.first > stream.last
FollowsOrOverlaps(a) == stream.last = 0 \/ a.first <= stream.last + 1

\* The first archive starts the stream wherever it begins.
Follows(a) == stream.last = 0 \/ a.first = stream.last + 1

Redelivered(m) == [m EXCEPT !.phase = "waiting", !.attempts = @ + 1]

\* Mutant: no dead letters.
RetryOrDrop(m) ==
    /\ queue' = (queue \ {m}) \cup
                  (IF m.attempts < MaxRetries THEN {Redelivered(m)} ELSE {})
    /\ UNCHANGED <<sent, dead>>

\* A message goes back to the queue, or to the dead letters.
Retry(m) ==
    /\ queue' = (queue \ {m}) \cup
                  (IF m.attempts < MaxRetries THEN {Redelivered(m)} ELSE {})
    /\ dead' = IF m.attempts < MaxRetries THEN dead ELSE dead \cup {m.archive}
    /\ UNCHANGED sent

Answer(m, phase) ==
    /\ queue' = (queue \ {m}) \cup {[m EXCEPT !.phase = phase]}
    /\ UNCHANGED <<sent, dead>>

\* LiveLogStreamDO.publish up to the end of its transaction: new entries are
\* stored, a replay is answered at once, and anything else is refused.
Publish(m) ==
    LET a == m.archive IN
    /\ m.phase = "waiting"
    /\ InOrder => \A n \in queue : m.id <= n.id
    /\ \/ /\ Replayed(a)
          /\ Answer(m, "answered")
          /\ UNCHANGED <<stream, unsent>>
       \/ /\ ~Replayed(a) /\ Follows(a)
          /\ stream' = [last |-> a.last, events |-> Trim(stream.events \cup Span(a)),
                        archives |-> TrimArchives(stream.archives \cup {a})]
          /\ unsent' = unsent \cup {a}
          /\ Answer(m, "calling")
       \/ /\ ~Replayed(a) /\ ~Follows(a)
          /\ Retry(m)
          /\ UNCHANGED <<stream, unsent>>
    /\ NoFault
    /\ UNCHANGED <<agentSide, ingest, database, broadcasts, aged, viewer>>

\* What viewer v sees of archive a, up to the frame at which it is closed.
See(v, a, upto) ==
    IF ~viewer[v].on THEN viewer[v]
    ELSE [on |-> upto = a.last,
          cursor |-> IF upto >= a.first /\ upto > viewer[v].cursor
                     THEN upto ELSE viewer[v].cursor,
          start |-> IF viewer[v].start = 0 /\ upto >= a.first
                    THEN a.first ELSE viewer[v].start,
          seen |-> viewer[v].seen \cup (a.first .. upto)]

\* The storage is flushed, oldest commit first, and every viewer gets the
\* entries; one that cannot take a frame is closed before it.
Broadcast(a) ==
    /\ a \in unsent
    /\ \A b \in unsent : a.first <= b.first
    /\ unsent' = unsent \ {a}
    /\ broadcasts' = broadcasts \cup Span(a)
    /\ \E upto \in [Viewers -> (a.first - 1) .. a.last] :
         viewer' = [v \in Viewers |-> See(v, a, upto[v])]
    /\ NoFault
    /\ UNCHANGED <<agentSide, ingest, database, queueSide, stream, aged>>

\* publish returns after the broadcast; the consumer acknowledges the message.
Ack(m) ==
    /\ \/ m.phase = "answered"
       \/ m.phase = "calling" /\ m.archive \notin unsent
    /\ queue' = queue \ {m}
    /\ NoFault
    /\ UNCHANGED <<agentSide, ingest, database, sent, dead, streamSide>>

\* Catalog or bucket fail, an answer is lost, or the consumer stops.
ConsumerFails(m) ==
    /\ Fault
    /\ Retry(m)
    /\ UNCHANGED <<agentSide, ingest, database, streamSide>>

\* The object restarts: calls fail, sockets close, nothing more is broadcast.
StreamRestarts ==
    /\ Fault
    /\ queue' = {m \in queue : m.phase # "calling"} \cup
                {Redelivered(m) : m \in {n \in queue : n.phase = "calling" /\ n.attempts < MaxRetries}}
    /\ dead' = dead \cup {m.archive : m \in {n \in queue : n.phase = "calling" /\ n.attempts >= MaxRetries}}
    /\ unsent' = {}
    /\ viewer' = [v \in Viewers |-> [viewer[v] EXCEPT !.on = FALSE]]
    /\ UNCHANGED <<agentSide, ingest, database, sent, stream, broadcasts, aged>>

\* Ten minutes pass for the events of the oldest archives.
Age ==
    /\ \E a \in receipts : a.last > aged /\ a.last <= stream.last /\ aged' = a.last
    /\ NoFault
    /\ UNCHANGED <<agentSide, ingest, database, queueSide, stream, unsent, broadcasts, viewer>>

-----------------------------------------------------------------------------
(* Viewers.                                                                *)

\* loadBacklog reads one row more than it will show, to know of more.
Rows(after) ==
    IF after = 0 THEN Newest(Trim(stream.events), Backlog + 1)
    ELSE Oldest({k \in Trim(stream.events) : k > after}, Backlog + 1)

\* Mutant: a gap of one entry is overlooked.
ReplayGapTooLate(after) ==
    IF after = 0 THEN {}
    ELSE IF Rows(after) # {}
         THEN IF Min(Rows(after)) > after + 2 THEN after + 1 .. Min(Rows(after)) - 1 ELSE {}
         ELSE after + 1 .. stream.last

\* replayGap: what the viewer is told it missed before the backlog.
ReplayGap(after) ==
    IF after = 0 THEN {}
    ELSE IF Rows(after) # {} THEN after + 1 .. Min(Rows(after)) - 1
         ELSE after + 1 .. stream.last

\* boundedLiveLogBacklog: a viewer told of a truncation knows that anything
\* after its cursor may be missing.
Truncated(after) ==
    IF Cardinality(Rows(after)) > Backlog /\ after # 0 THEN after + 1 .. stream.last ELSE {}

\* A viewer connects, with the cursor of what it was shown before or anew; it
\* is closed at the first frame it cannot take.
Connect(v, after) ==
    LET items == Newest(Rows(after), Backlog)
        old == IF after = 0 THEN {} ELSE viewer[v].seen
    IN  /\ ~viewer[v].on
        /\ \E n \in items \cup {after} :
             LET shown == {k \in items : k <= n} IN
             viewer' = [viewer EXCEPT ![v] =
               [on |-> shown = items,
                cursor |-> n,
                start |-> IF after = 0 /\ shown # {} THEN Min(shown)
                          ELSE IF after = 0 THEN 0 ELSE @.start,
                seen |-> old \cup shown \cup ReplayGap(after) \cup Truncated(after)]]
        /\ stream' = [stream EXCEPT !.events = Trim(@)]
        /\ NoFault
        /\ UNCHANGED <<agentSide, ingest, database, queueSide, unsent, broadcasts, aged>>

-----------------------------------------------------------------------------
PublicationNext ==
    \/ AppendEntry \/ GiveUp \/ StreamRestarts \/ Age
    \/ \E r \in Ingests :
         \/ PublishOnce(r) \/ FindReceipt(r) \/ Commit(r) \/ ReadPublication(r)
         \/ Send(r) \/ MarkEnqueued(r) \/ Acknowledge(r) \/ IngestFails(r)
    \/ \E m \in queue : Publish(m) \/ Ack(m) \/ ConsumerFails(m)
    \/ \E a \in unsent : Broadcast(a)
    \/ \E v \in Viewers : Connect(v, 0) \/ Connect(v, viewer[v].cursor)

PublicationSpec == PublicationInit /\ [][PublicationNext]_publicationVars

\* Every party takes the step it can take: the agent loop publishes again, the
\* API and the consumer serve what they got, the queue delivers and storage
\* flushes.  Nothing is assumed of failures, viewers and retention.
PublicationFairness ==
    /\ WF_publicationVars(\E r \in Ingests : PublishOnce(r))
    /\ \A r \in Ingests :
         WF_publicationVars(\/ FindReceipt(r) \/ Commit(r) \/ ReadPublication(r)
                            \/ Send(r) \/ MarkEnqueued(r) \/ Acknowledge(r))
    /\ WF_publicationVars(\E m \in queue : Publish(m) \/ Ack(m))
    /\ WF_publicationVars(\E a \in unsent : Broadcast(a))

FairPublicationSpec == PublicationSpec /\ PublicationFairness

-----------------------------------------------------------------------------
(* Properties.                                                             *)

\* Nothing is shown live that D1 has not accepted for good: messages and the
\* stream stay behind the watermark (ADR 0066: the queue receives an archive
\* after D1 commits).  The accepted archives cover everything up to the
\* watermark, and none of it twice.
LiveDataIsDurable ==
    /\ \A m \in queue : m.archive \in receipts
    /\ stream.last <= watermark
    /\ \A a \in receipts : a.last <= watermark
    /\ \A k \in 1 .. watermark : \E a \in receipts : k \in Span(a)
    /\ \A a, b \in receipts : a = b \/ a.last < b.first \/ b.last < a.first

\* What the stream object keeps ends at its last sequence number and has no
\* hole, whatever order archives come in and whatever is trimmed (publish,
\* trimEvents).
EventsContiguous ==
    \A k \in stream.events : k \in 1 .. stream.last /\ k .. stream.last \subseteq stream.events

\* Nothing is broadcast twice, and broadcasts go upwards, although messages are
\* sent and delivered repeatedly and the memory of archives is bounded (ADR
\* 0066: a retry or a lost response cannot broadcast the same archive twice).
BroadcastsAscend ==
    [][\A a \in unsent : a \notin unsent' =>
         \A k \in Span(a) \cap broadcasts' : k > 0 /\ \A j \in broadcasts : j < k]_publicationVars

\* What the agent removed from its spool is accepted and on the queue: only
\* the agent's retries bring a pending publication there (telemetry-runtime,
\* enqueuePendingPublication).
AckedIsEnqueued ==
    /\ acked <= watermark
    /\ \A a \in receipts : a.last <= acked => a \in enqueued

\* A publication marked enqueued is not forgotten: its message waits or works,
\* ran out of retries, or the stream has gone past it.
EnqueuedIsAccountedFor ==
    \A a \in enqueued :
      \/ \E m \in queue : m.archive = a
      \/ a \in dead
      \/ a.last <= stream.last

\* Between the first entry it was shown and the latest, a viewer was shown
\* every entry or told that some are missing, over any number of restarts,
\* closed sockets and reconnections (ADR 0053: reconnect cursors report gaps
\* or a truncated backlog).
NoSilentLoss ==
    \A v \in Viewers :
      viewer[v].start > 0 => viewer[v].start .. viewer[v].cursor \subseteq viewer[v].seen

\* What is on record of the log, seen as a feed: D1's watermark says what is
\* accepted, the publications marked enqueued what is offered.
Feed == INSTANCE LogFeed WITH
    accepted <- watermark,
    offered <- UNION {Span(a) : a \in enqueued},
    live <- stream.last,
    shown <- broadcasts

\* Publication implements the feed, whatever is sent, delivered or accepted
\* twice, late or in another order, refused, forgotten, trimmed or restarted
\* (ADR 0066: one archive is broadcast at most once; ADR 0070: the spool keeps
\* what is not accepted).
ImplementsFeed == Feed!FeedSpec

\* What the spool holds is accepted and acknowledged in the end, although
\* requests the agent gave up on go on (publishOnce, ADR 0070).
SpoolDrains == \A k \in 1 .. MaxWritten : written >= k ~> acked >= k

\* With a queue that keeps the order and failures that spare its retries, the
\* live stream follows what D1 accepted.
StreamFollows == \A k \in 1 .. MaxWritten : watermark >= k ~> stream.last >= k
=============================================================================
