------------------------ MODULE LogPublicationProofs ------------------------
(***************************************************************************)
(* The guarantees of log publication for any number of requests, viewers,  *)
(* entries and failures, and any limits.  PublicationInv consists of types *)
(* and three parts: what the spool, the requests and D1 know of each other *)
(* (SpoolInv), what becomes of a message (MessageInv) and the order of     *)
(* what the stream object keeps, has to broadcast and has broadcast        *)
(* (StreamInv).                                                            *)
(***************************************************************************)
EXTENDS LogPublication, FiniteSetTheorems, WellFoundedInduction, TLAPS

\* A request past the commit holds an accepted archive, and one that replies
\* an enqueued one.  Requests and receipts are of the pending batch or of
\* batches the agent acknowledged; the watermark is at the one or the other,
\* and all of it was written.
SpoolInv ==
    /\ \A r \in Ingests :
         /\ ingest[r].pc \in PastCommit => ingest[r].archive \in receipts
         /\ ingest[r].pc = "reply" => ingest[r].archive \in enqueued
         /\ ingest[r].pc # "idle" =>
              ingest[r].archive.last <= acked \/ ingest[r].archive = pending
    /\ acked <= written
    /\ pending # None => pending.first = acked + 1 /\ pending.last <= written
    /\ awaited # NoRequest => /\ ingest[awaited].pc # "idle"
                              /\ ingest[awaited].archive = pending
                              /\ pending # None
    /\ \A a \in receipts : a.last <= acked \/ a = pending
    /\ watermark = acked \/ (pending \in receipts /\ watermark = pending.last)
    /\ AckedIsEnqueued

\* A message that was taken belongs to a part of the stream that was reached,
\* and so does an archive the stream object remembers.
MessageInv ==
    /\ LiveDataIsDurable
    /\ \A m \in queue : m.phase # "waiting" => m.archive.last <= stream.last
    /\ \A a \in stream.archives : a.last <= stream.last
    /\ \A r \in Ingests :
         ingest[r].pc = "mark" =>
           \/ \E m \in queue : m.archive = ingest[r].archive
           \/ ingest[r].archive \in dead
           \/ ingest[r].archive.last <= stream.last
    /\ EnqueuedIsAccountedFor

\* Archives to broadcast are apart from each other and above what was broadcast.
StreamInv ==
    /\ EventsContiguous
    /\ \A k \in broadcasts : k <= stream.last
    /\ \A a \in unsent : /\ a.last <= stream.last
                         /\ \A k \in broadcasts : k < a.first
                         /\ \A b \in unsent : a = b \/ a.last < b.first \/ b.last < a.first

PublicationInv ==
    /\ PublicationTypeOK
    /\ SpoolInv
    /\ MessageInv
    /\ StreamInv

-----------------------------------------------------------------------------
\* A set of numbers that is not empty has a least one.
LEMMA LeastNumber ==
    ASSUME NEW S, S \subseteq Nat, S # {} PROVE Min(S) \in S /\ \A k \in S : Min(S) <= k
<1>1. PICK x \in S : \A y \in S : ~(<<y, x>> \in OpToRel(<, Nat))
  BY WFMin, NatLessThanWellFounded
<1>2. \A y \in S : x <= y
  <2>. SUFFICES ASSUME NEW y \in S, ~(x <= y) PROVE FALSE
    OBVIOUS
  <2>1. y \in Nat /\ x \in Nat /\ y < x
    OBVIOUS
  <2>2. <<y, x>> \in OpToRel(<, Nat)
    BY <2>1 DEF OpToRel
  <2>. QED BY <1>1, <2>2
<1>. QED BY <1>2 DEF Min

\* Keeping the newest leaves no hole (trimEvents).
LEMMA NewestIsUpwardClosed ==
    ASSUME NEW S, IsFiniteSet(S), S \subseteq Nat, NEW n \in Nat
    PROVE  /\ Newest(S, n) \subseteq S
           /\ \A k \in Newest(S, n), j \in S : k <= j => j \in Newest(S, n)
<1>1. Newest(S, n) \subseteq S
  BY DEF Newest
<1>2. ASSUME NEW k \in Newest(S, n), NEW j \in S, k <= j PROVE j \in Newest(S, n)
  <2>. DEFINE AboveK == {x \in S : x > k}
              AboveJ == {x \in S : x > j}
  <2>1. AboveK \in SUBSET S /\ AboveJ \in SUBSET AboveK
    <3>1. k \in Nat /\ j \in Nat /\ k <= j
      BY <1>1, <1>2
    <3>2. \A x \in S : x > j => x > k
      BY <3>1
    <3>. QED BY <3>2
  <2>2. IsFiniteSet(AboveK)
    <3>. HIDE DEF AboveK, AboveJ
    <3>. QED BY <2>1, FS_Subset
  <2>3. /\ Cardinality(AboveJ) <= Cardinality(AboveK)
        /\ Cardinality(AboveJ) \in Nat /\ Cardinality(AboveK) \in Nat
    <3>. HIDE DEF AboveK, AboveJ
    <3>. QED BY <2>1, <2>2, FS_Subset, FS_CardinalityType
  <2>4. Cardinality(AboveK) < n
    BY DEF Newest
  <2>5. Cardinality(AboveJ) < n
    <3>. HIDE DEF AboveK, AboveJ
    <3>. QED BY <2>3, <2>4
  <2>. QED BY <2>5 DEF Newest
<1>. QED BY <1>1, <1>2

\* Trimmed events are events, and without holes if they had none before.
LEMMA TrimKeepsContiguity ==
    ASSUME NEW events, NEW last \in Nat, events \subseteq 1 .. last, aged \in Nat,
           \A k \in events : k .. last \subseteq events
    PROVE  /\ Trim(events) \subseteq events
           /\ \A k \in Trim(events) : k .. last \subseteq Trim(events)
<1>. DEFINE young == {k \in events : k > aged}
<1>1. young \in SUBSET (1 .. last) /\ young \subseteq Nat /\ young \subseteq events
  <2>1. \A k \in events : k \in 1 .. last /\ k \in Nat
    OBVIOUS
  <2>. QED BY <2>1
<1>2. IsFiniteSet(young)
  <2>1. IsFiniteSet(1 .. last)
    BY FS_Interval
  <2>. HIDE DEF young
  <2>. QED BY <1>1, <2>1, FS_Subset
<1>3. /\ Newest(young, Retained) \subseteq young
      /\ \A k \in Newest(young, Retained), j \in young :
           k <= j => j \in Newest(young, Retained)
  <2>. HIDE DEF young
  <2>. QED BY <1>1, <1>2, NewestIsUpwardClosed, PublicationAssumption
<1>4. ASSUME NEW k \in Newest(young, Retained), NEW j \in k .. last
      PROVE  j \in Newest(young, Retained)
  <2>1. k \in young
    BY <1>3
  <2>2. j \in events /\ j > aged /\ j >= k
    BY <2>1
  <2>3. j \in young
    BY <2>2
  <2>. QED BY <1>3, <2>2, <2>3
<1>. QED BY <1>1, <1>3, <1>4 DEF Trim

-----------------------------------------------------------------------------
LEMMA StartsRight == PublicationInit => PublicationInv
<1>. SUFFICES ASSUME PublicationInit PROVE PublicationInv
  OBVIOUS
<1>1. PublicationTypeOK
  <2>1. viewer \in [Viewers -> Viewer]
    BY DEF PublicationInit, Viewer
  <2>2. stream \in [last: Nat, events: SUBSET Nat, archives: SUBSET Archive]
    BY DEF PublicationInit
  <2>. QED BY <2>1, <2>2, PublicationAssumption
         DEF PublicationInit, PublicationTypeOK, AtRest
<1>2. SpoolInv
  BY DEF PublicationInit, SpoolInv, AckedIsEnqueued, AtRest, PastCommit
<1>3. MessageInv
  BY DEF PublicationInit, MessageInv, LiveDataIsDurable, EnqueuedIsAccountedFor, AtRest
<1>4. StreamInv
  BY DEF PublicationInit, StreamInv, EventsContiguous
<1>. QED BY <1>1, <1>2, <1>3, <1>4 DEF PublicationInv

\* What a request sends: the pending batch, or the first entries of the spool.
LEMMA PreparedIsABatch ==
    ASSUME PublicationTypeOK, SpoolInv, written > acked
    PROVE  /\ Prepared \in Archive /\ Prepared.first = acked + 1 /\ Prepared # None
           /\ Prepared.last <= written
<1>1. CASE pending # None
  BY <1>1 DEF PublicationTypeOK, SpoolInv, Prepared
<1>2. CASE pending = None
  <2>1. NextBatch.first \in Nat \ {0} /\ NextBatch.last \in Nat \ {0}
        /\ NextBatch.first <= NextBatch.last /\ NextBatch.first = acked + 1
        /\ NextBatch.last <= written
    BY PublicationAssumption DEF PublicationTypeOK, NextBatch
  <2>2. NextBatch \in [first: Nat \ {0}, last: Nat \ {0}]
    BY <2>1 DEF NextBatch
  <2>. QED BY <1>2, <2>1, <2>2 DEF Prepared, Archive, None
<1>. QED BY <1>1, <1>2

\* The events after a trim are numbers.
LEMMA TrimmedEvents == ASSUME NEW events, events \subseteq Nat PROVE Trim(events) \subseteq Nat
BY DEF Trim, Newest

\* What a message becomes.
LEMMA MessageSteps ==
    ASSUME NEW m \in Message
    PROVE  /\ Redelivered(m) \in Message /\ Redelivered(m).archive = m.archive
           /\ Redelivered(m).phase = "waiting"
           /\ \A phase \in {"calling", "answered"} :
                /\ [m EXCEPT !.phase = phase] \in Message
                /\ [m EXCEPT !.phase = phase].archive = m.archive
                /\ [m EXCEPT !.phase = phase].phase = phase
<1>1. m.attempts \in Nat /\ m.id \in Nat /\ m.archive \in Archive
  BY DEF Message
<1>2. Redelivered(m) = [id |-> m.id, archive |-> m.archive, attempts |-> m.attempts + 1,
                        phase |-> "waiting"]
  <2>1. Redelivered(m) = [m EXCEPT !.phase = "waiting", !.attempts = m.attempts + 1]
    BY DEF Redelivered
  <2>. QED BY <2>1 DEF Message
<1>3. \A phase \in {"calling", "answered"} :
        [m EXCEPT !.phase = phase] = [id |-> m.id, archive |-> m.archive,
                                      attempts |-> m.attempts, phase |-> phase]
  BY DEF Message
<1>. QED BY <1>1, <1>2, <1>3 DEF Message

\* A request that goes on keeps its archive, and the others stay.
LEMMA Going ==
    ASSUME PublicationTypeOK, NEW r \in Ingests, ingest[r].pc # "idle",
           NEW pc \in {"upload"} \cup PastCommit, GoTo(r, pc)
    PROVE  /\ ingest' \in [Ingests -> [pc: {"idle", "lookup", "upload"} \cup PastCommit,
                                       archive: Archive \cup {None}]]
           /\ ingest'[r].pc = pc /\ ingest[r].archive \in Archive
           /\ \A q \in Ingests : /\ ingest'[q].archive = ingest[q].archive
                                 /\ q # r => ingest'[q] = ingest[q]
                                 /\ ingest'[q].pc # "idle" => ingest'[q].archive \in Archive
                                 /\ ingest'[q].pc # "idle" <=> ingest[q].pc # "idle"
<1>1. /\ ingest \in [Ingests -> [pc: {"idle", "lookup", "upload"} \cup PastCommit,
                                 archive: Archive \cup {None}]]
      /\ \A q \in Ingests : ingest[q].pc # "idle" => ingest[q].archive \in Archive
      /\ ingest' = [ingest EXCEPT ![r] = [ingest[r] EXCEPT !.pc = pc]]
  BY DEF PublicationTypeOK, GoTo
<1>2. pc # "idle"
  BY DEF PastCommit
<1>3. [ingest[r] EXCEPT !.pc = pc] = [pc |-> pc, archive |-> ingest[r].archive]
  BY <1>1
<1>4. ingest' = [ingest EXCEPT ![r] = [pc |-> pc, archive |-> ingest[r].archive]]
  BY <1>1, <1>3
<1>. QED BY <1>1, <1>2, <1>4

\* A request that ends.
LEMMA Resting ==
    ASSUME PublicationTypeOK, NEW r \in Ingests, ingest' = [ingest EXCEPT ![r] = AtRest]
    PROVE  /\ ingest' \in [Ingests -> [pc: {"idle", "lookup", "upload"} \cup PastCommit,
                                       archive: Archive \cup {None}]]
           /\ ingest'[r].pc = "idle"
           /\ \A q \in Ingests : /\ q # r => ingest'[q] = ingest[q]
                                 /\ ingest'[q].pc # "idle" => ingest'[q].archive \in Archive
BY DEF PublicationTypeOK, AtRest

\* A message that goes back, or to the dead letters.
LEMMA Retrying ==
    ASSUME PublicationTypeOK, LiveDataIsDurable, NEW m \in queue, Retry(m)
    PROVE  /\ queue' \subseteq Message /\ dead' \subseteq receipts /\ dead \subseteq dead'
           /\ queue \ {m} \subseteq queue'
           /\ \A n \in queue' : n \in queue \/ (n.phase = "waiting" /\ n.archive = m.archive)
           /\ m.archive \in dead' \/ \E n \in queue' : n.archive = m.archive
<1>1. m \in Message /\ queue \subseteq Message /\ m.archive \in receipts /\ dead \subseteq receipts
  BY DEF PublicationTypeOK, LiveDataIsDurable
<1>2. Redelivered(m) \in Message /\ Redelivered(m).archive = m.archive
      /\ Redelivered(m).phase = "waiting"
  BY <1>1, MessageSteps
<1>3. CASE m.attempts < MaxRetries
  BY <1>1, <1>2, <1>3 DEF Retry
<1>4. CASE ~(m.attempts < MaxRetries)
  BY <1>1, <1>2, <1>4 DEF Retry
<1>. QED BY <1>3, <1>4

\* A message that is answered, or taken.
LEMMA Answering ==
    ASSUME PublicationTypeOK, NEW m \in queue, NEW phase \in {"calling", "answered"},
           Answer(m, phase)
    PROVE  /\ queue' \subseteq Message /\ dead' = dead
           /\ queue \ {m} \subseteq queue'
           /\ \A n \in queue' : n \in queue \/ (n.phase = phase /\ n.archive = m.archive)
           /\ \E n \in queue' : n.archive = m.archive
<1>1. m \in Message /\ queue \subseteq Message
  BY DEF PublicationTypeOK
<1>2. /\ [m EXCEPT !.phase = phase] \in Message
      /\ [m EXCEPT !.phase = phase].archive = m.archive
      /\ [m EXCEPT !.phase = phase].phase = phase
  BY <1>1, MessageSteps
<1>3. queue' = (queue \ {m}) \cup {[m EXCEPT !.phase = phase]} /\ dead' = dead
  BY DEF Answer
<1>. QED BY <1>1, <1>2, <1>3

\* A restart of the stream object sends the messages it worked on back.
LEMMA Restarting ==
    ASSUME PublicationTypeOK, LiveDataIsDurable, StreamRestarts
    PROVE  /\ queue' \subseteq Message /\ dead' \subseteq receipts /\ dead \subseteq dead'
           /\ \A n \in queue' : n \in queue \/
                (n.phase = "waiting" /\ \E m \in queue : n.archive = m.archive)
           /\ \A m \in queue : m.archive \in dead' \/ \E n \in queue' : n.archive = m.archive
<1>1. queue \subseteq Message /\ dead \subseteq receipts /\ \A m \in queue : m.archive \in receipts
  BY DEF PublicationTypeOK, LiveDataIsDurable
<1>2. \A m \in queue : /\ Redelivered(m) \in Message /\ Redelivered(m).archive = m.archive
                       /\ Redelivered(m).phase = "waiting"
  BY <1>1, MessageSteps
<1>3. ASSUME NEW m \in queue
      PROVE  m.archive \in dead' \/ \E n \in queue' : n.archive = m.archive
  <2>1. CASE m.phase # "calling"
    BY <2>1 DEF StreamRestarts
  <2>2. CASE m.phase = "calling" /\ m.attempts < MaxRetries
    BY <1>2, <2>2 DEF StreamRestarts
  <2>3. CASE m.phase = "calling" /\ ~(m.attempts < MaxRetries)
    <3>1. m.attempts >= MaxRetries
      BY <1>1, <2>3, PublicationAssumption DEF Message
    <3>. QED BY <2>3, <3>1 DEF StreamRestarts
  <2>. QED BY <2>1, <2>2, <2>3
<1>4. \A n \in queue' : n \in queue \/
        \E m \in queue : n = Redelivered(m)
  BY DEF StreamRestarts
<1>5. dead \subseteq dead' /\ \A a \in dead' : a \in dead \/ \E m \in queue : a = m.archive
  BY DEF StreamRestarts
<1>. QED BY <1>1, <1>2, <1>3, <1>4, <1>5

-----------------------------------------------------------------------------
\* What a viewer sees is what it saw and the entries of an archive.
LEMMA SeeingKeepsTypes ==
    ASSUME NEW v \in Viewers, viewer[v] \in Viewer, NEW a \in Archive,
           NEW upto \in (a.first - 1) .. a.last
    PROVE  See(v, a, upto) \in Viewer
<1>1. /\ upto \in Nat /\ a.first \in Nat /\ viewer[v].cursor \in Nat /\ viewer[v].start \in Nat
      /\ viewer[v].seen \cup (a.first .. upto) \subseteq Nat
  BY DEF Archive, Viewer
<1>2. CASE ~viewer[v].on
  BY <1>2 DEF See
<1>3. CASE viewer[v].on
  <2>1. See(v, a, upto).cursor \in Nat /\ See(v, a, upto).start \in Nat
        /\ See(v, a, upto).on \in BOOLEAN /\ See(v, a, upto).seen \in SUBSET Nat
    BY <1>1, <1>3 DEF See
  <2>2. See(v, a, upto) = [on |-> See(v, a, upto).on, cursor |-> See(v, a, upto).cursor,
                           start |-> See(v, a, upto).start, seen |-> See(v, a, upto).seen]
    BY <1>3 DEF See
  <2>. QED BY <2>1, <2>2 DEF Viewer
<1>. QED BY <1>2, <1>3

\* A connection gives the viewer numbers.
LEMMA ConnectingKeepsTypes ==
    ASSUME PublicationTypeOK, NEW v \in Viewers, NEW after \in Nat, Connect(v, after)
    PROVE  viewer' \in [Viewers -> Viewer]
<1>. DEFINE items == Newest(Rows(after), Backlog)
            old == IF after = 0 THEN {} ELSE viewer[v].seen
            shown(n) == {k \in items : k <= n}
<1>1. PICK n \in items \cup {after} :
        viewer' = [viewer EXCEPT ![v] =
          [on |-> shown(n) = items,
           cursor |-> n,
           start |-> IF after = 0 /\ shown(n) # {} THEN Min(shown(n))
                     ELSE IF after = 0 THEN 0 ELSE @.start,
           seen |-> old \cup shown(n) \cup ReplayGap(after) \cup Truncated(after)]]
  BY DEF Connect
<1>2. Rows(after) \subseteq Nat
  <2>1. Trim(stream.events) \subseteq Nat
    BY TrimmedEvents DEF PublicationTypeOK
  <2>. QED BY <2>1 DEF Rows, Newest, Oldest
<1>3. items \subseteq Nat /\ n \in Nat /\ shown(n) \subseteq Nat
  BY <1>2 DEF Newest
<1>4. shown(n) # {} => Min(shown(n)) \in Nat
  BY <1>3, LeastNumber
<1>5. viewer \in [Viewers -> Viewer] /\ viewer[v].start \in Nat /\ old \subseteq Nat
      /\ stream.last \in Nat
  BY DEF PublicationTypeOK, Viewer
<1>6. ReplayGap(after) \subseteq Nat
  <2>1. Rows(after) # {} => Min(Rows(after)) \in Nat
    BY <1>2, LeastNumber
  <2>. QED BY <1>5, <2>1 DEF ReplayGap
<1>7. Truncated(after) \subseteq Nat
  BY <1>5 DEF Truncated
<1>. DEFINE start == IF after = 0 /\ shown(n) # {} THEN Min(shown(n))
                     ELSE IF after = 0 THEN 0 ELSE viewer[v].start
            seen == old \cup shown(n) \cup ReplayGap(after) \cup Truncated(after)
<1>8. start \in Nat /\ seen \in SUBSET Nat
  BY <1>3, <1>4, <1>5, <1>6, <1>7
<1>9. viewer' = [viewer EXCEPT ![v] =
        [on |-> shown(n) = items, cursor |-> n, start |-> start, seen |-> seen]]
  BY <1>1
<1>10. [on |-> shown(n) = items, cursor |-> n, start |-> start, seen |-> seen] \in Viewer
  <2>1. n \in Nat
    BY <1>3
  <2>2. (shown(n) = items) \in BOOLEAN
    OBVIOUS
  <2>. HIDE DEF start, seen, items, shown
  <2>. QED BY <1>8, <2>1, <2>2 DEF Viewer
<1>. HIDE DEF start, seen, items, shown
<1>. QED BY <1>5, <1>9, <1>10

LEMMA StepKeepsTypes == ASSUME PublicationInv, PublicationNext PROVE PublicationTypeOK'
<1>. USE DEF agentSide, database, queueSide, streamSide
<1>0. PublicationTypeOK /\ SpoolInv /\ LiveDataIsDurable
  BY DEF PublicationInv, MessageInv
<1>1. CASE AppendEntry
  BY <1>0, <1>1 DEF PublicationTypeOK, AppendEntry, NoFault
<1>2. CASE GiveUp
  <2>1. faults' \in 0 .. MaxFaults
    BY <1>0, <1>2, PublicationAssumption DEF PublicationTypeOK, GiveUp, Fault
  <2>. QED BY <1>0, <1>2, <2>1 DEF PublicationTypeOK, GiveUp
<1>3. CASE StreamRestarts
  <2>1. faults' \in 0 .. MaxFaults
    BY <1>0, <1>3, PublicationAssumption DEF PublicationTypeOK, StreamRestarts, Fault
  <2>2. viewer' \in [Viewers -> Viewer]
    BY <1>0, <1>3 DEF PublicationTypeOK, StreamRestarts, Viewer
  <2>3. queue' \subseteq Message /\ dead' \subseteq receipts
    BY <1>0, <1>3, Restarting
  <2>. QED BY <1>0, <1>3, <2>1, <2>2, <2>3 DEF PublicationTypeOK, StreamRestarts
<1>4. CASE Age
  <2>1. aged' \in Nat
    BY <1>0, <1>4 DEF PublicationTypeOK, Age, Archive
  <2>. QED BY <1>0, <1>4, <2>1 DEF PublicationTypeOK, Age, NoFault
<1>5. ASSUME NEW r \in Ingests,
             \/ PublishOnce(r) \/ FindReceipt(r) \/ Commit(r) \/ ReadPublication(r)
             \/ Send(r) \/ MarkEnqueued(r) \/ Acknowledge(r) \/ IngestFails(r)
      PROVE  PublicationTypeOK'
  <2>1. CASE PublishOnce(r)
    <3>1. Prepared \in Archive
      BY <1>0, <2>1, PreparedIsABatch DEF PublishOnce
    <3>2. /\ ingest' \in [Ingests -> [pc: {"idle", "lookup", "upload"} \cup PastCommit,
                                      archive: Archive \cup {None}]]
          /\ \A q \in Ingests : ingest'[q].pc # "idle" => ingest'[q].archive \in Archive
      BY <1>0, <2>1, <3>1 DEF PublicationTypeOK, PublishOnce
    <3>. QED BY <1>0, <2>1, <3>1, <3>2 DEF PublicationTypeOK, PublishOnce, NoFault
  <2>2. CASE FindReceipt(r) \/ ReadPublication(r)
    <3>1. /\ ingest[r].pc # "idle"
          /\ \E pc \in {"upload"} \cup PastCommit : GoTo(r, pc)
      BY <2>2 DEF FindReceipt, ReadPublication, PastCommit
    <3>2. /\ ingest' \in [Ingests -> [pc: {"idle", "lookup", "upload"} \cup PastCommit,
                                      archive: Archive \cup {None}]]
          /\ \A q \in Ingests : ingest'[q].pc # "idle" => ingest'[q].archive \in Archive
      BY <1>0, <3>1, Going
    <3>. QED BY <1>0, <2>2, <3>2 DEF PublicationTypeOK, FindReceipt, ReadPublication, NoFault
  <2>3. CASE Commit(r)
    <3>1. ingest[r].pc # "idle" /\ GoTo(r, "read")
      BY <2>3 DEF Commit
    <3>2. /\ ingest' \in [Ingests -> [pc: {"idle", "lookup", "upload"} \cup PastCommit,
                                      archive: Archive \cup {None}]]
          /\ \A q \in Ingests : ingest'[q].pc # "idle" => ingest'[q].archive \in Archive
          /\ ingest[r].archive \in Archive
      BY <1>0, <3>1, Going DEF PastCommit
    <3>3. /\ watermark' \in Nat /\ receipts' \subseteq Archive
          /\ enqueued' \subseteq receipts' /\ dead' \subseteq receipts'
      BY <1>0, <2>3, <3>2 DEF PublicationTypeOK, Commit, Archive
    <3>. QED BY <1>0, <2>3, <3>2, <3>3 DEF PublicationTypeOK, Commit, NoFault
  <2>4. CASE Send(r)
    <3>1. ingest[r].pc # "idle" /\ GoTo(r, "mark")
      BY <2>4 DEF Send
    <3>2. /\ ingest' \in [Ingests -> [pc: {"idle", "lookup", "upload"} \cup PastCommit,
                                      archive: Archive \cup {None}]]
          /\ \A q \in Ingests : ingest'[q].pc # "idle" => ingest'[q].archive \in Archive
          /\ ingest[r].archive \in Archive
      BY <1>0, <3>1, Going DEF PastCommit
    <3>3. queue' \subseteq Message /\ sent' \in Nat
      BY <1>0, <2>4, <3>2 DEF PublicationTypeOK, Send, Message
    <3>. QED BY <1>0, <2>4, <3>2, <3>3 DEF PublicationTypeOK, Send, NoFault
  <2>5. CASE MarkEnqueued(r)
    <3>1. ingest[r].pc # "idle" /\ GoTo(r, "reply") /\ ingest[r].archive \in receipts
      BY <1>0, <2>5 DEF MarkEnqueued, SpoolInv, PastCommit
    <3>2. /\ ingest' \in [Ingests -> [pc: {"idle", "lookup", "upload"} \cup PastCommit,
                                      archive: Archive \cup {None}]]
          /\ \A q \in Ingests : ingest'[q].pc # "idle" => ingest'[q].archive \in Archive
      BY <1>0, <3>1, Going DEF PastCommit
    <3>. QED BY <1>0, <2>5, <3>1, <3>2 DEF PublicationTypeOK, MarkEnqueued, NoFault
  <2>6. CASE Acknowledge(r)
    <3>1. /\ ingest' \in [Ingests -> [pc: {"idle", "lookup", "upload"} \cup PastCommit,
                                      archive: Archive \cup {None}]]
          /\ \A q \in Ingests : ingest'[q].pc # "idle" => ingest'[q].archive \in Archive
      <4>1. ingest' = [ingest EXCEPT ![r] = AtRest]
        BY <2>6 DEF Acknowledge
      <4>. QED BY <1>0, <4>1, Resting DEF AtRest
    <3>2. acked' \in Nat /\ pending' \in Archive \cup {None} /\ awaited' \in Ingests \cup {NoRequest}
      BY <1>0, <2>6, PublicationAssumption DEF PublicationTypeOK, SpoolInv, Acknowledge, Archive
    <3>. QED BY <1>0, <2>6, <3>1, <3>2 DEF PublicationTypeOK, Acknowledge, NoFault
  <2>7. CASE IngestFails(r)
    <3>1. /\ ingest' \in [Ingests -> [pc: {"idle", "lookup", "upload"} \cup PastCommit,
                                      archive: Archive \cup {None}]]
          /\ \A q \in Ingests : ingest'[q].pc # "idle" => ingest'[q].archive \in Archive
      <4>1. ingest' = [ingest EXCEPT ![r] = AtRest]
        BY <2>7 DEF IngestFails
      <4>. QED BY <1>0, <4>1, Resting DEF AtRest
    <3>2. faults' \in 0 .. MaxFaults
      BY <1>0, <2>7, PublicationAssumption DEF PublicationTypeOK, IngestFails, Fault, NoFault
    <3>. QED BY <1>0, <2>7, <3>1, <3>2 DEF PublicationTypeOK, IngestFails
  <2>. QED BY <1>5, <2>1, <2>2, <2>3, <2>4, <2>5, <2>6, <2>7
<1>6. ASSUME NEW m \in queue, Publish(m) \/ Ack(m) \/ ConsumerFails(m)
      PROVE  PublicationTypeOK'
  <2>0. m \in Message /\ m.archive \in Archive
    BY <1>0 DEF PublicationTypeOK, Message
  <2>1. CASE Publish(m)
    <3>1. stream' \in [last: Nat, events: SUBSET Nat, archives: SUBSET Archive]
          /\ unsent' \subseteq Archive
      <4>1. CASE UNCHANGED <<stream, unsent>>
        BY <1>0, <4>1 DEF PublicationTypeOK
      <4>2. CASE stream' = [last |-> m.archive.last,
                            events |-> Trim(stream.events \cup Span(m.archive)),
                            archives |-> TrimArchives(stream.archives \cup {m.archive})]
                 /\ unsent' = unsent \cup {m.archive}
        <5>1. stream.events \cup Span(m.archive) \subseteq Nat /\ m.archive.last \in Nat
          BY <1>0, <2>0 DEF PublicationTypeOK, Span, Archive
        <5>2. Trim(stream.events \cup Span(m.archive)) \subseteq Nat
          BY <5>1, TrimmedEvents
        <5>3. TrimArchives(stream.archives \cup {m.archive}) \subseteq Archive
          BY <1>0, <2>0 DEF PublicationTypeOK, TrimArchives
        <5>. QED BY <1>0, <2>0, <4>2, <5>1, <5>2, <5>3 DEF PublicationTypeOK
      <4>. QED BY <2>1, <4>1, <4>2 DEF Publish
    <3>2. queue' \subseteq Message /\ dead' \subseteq receipts /\ sent' \in Nat
      <4>1. CASE Retry(m)
        BY <1>0, <4>1, Retrying DEF Retry, PublicationTypeOK
      <4>2. ASSUME NEW phase \in {"calling", "answered"}, Answer(m, phase)
            PROVE  queue' \subseteq Message /\ dead' \subseteq receipts /\ sent' \in Nat
        BY <1>0, <4>2, Answering DEF Answer, PublicationTypeOK
      <4>. QED BY <2>1, <4>1, <4>2 DEF Publish
    <3>. QED BY <1>0, <2>1, <3>1, <3>2 DEF PublicationTypeOK, Publish, NoFault
  <2>2. CASE Ack(m)
    BY <1>0, <2>2 DEF PublicationTypeOK, Ack, NoFault
  <2>3. CASE ConsumerFails(m)
    <3>1. queue' \subseteq Message /\ dead' \subseteq receipts /\ sent' \in Nat
      BY <1>0, <2>3, Retrying DEF ConsumerFails, Retry, PublicationTypeOK
    <3>2. faults' \in 0 .. MaxFaults
      BY <1>0, <2>3, PublicationAssumption DEF PublicationTypeOK, ConsumerFails, Fault
    <3>. QED BY <1>0, <2>3, <3>1, <3>2 DEF PublicationTypeOK, ConsumerFails
  <2>. QED BY <1>6, <2>1, <2>2, <2>3
<1>7. ASSUME NEW a \in unsent, Broadcast(a) PROVE PublicationTypeOK'
  <2>1. a \in Archive /\ broadcasts' \subseteq Nat
    <3>1. a \in Archive /\ broadcasts \subseteq Nat
      BY <1>0 DEF PublicationTypeOK
    <3>2. Span(a) \subseteq Nat
      BY <3>1 DEF Span, Archive
    <3>. QED BY <1>7, <3>1, <3>2 DEF Broadcast
  <2>2. viewer' \in [Viewers -> Viewer]
    <3>1. PICK upto \in [Viewers -> (a.first - 1) .. a.last] :
            viewer' = [v \in Viewers |-> See(v, a, upto[v])]
      BY <1>7 DEF Broadcast
    <3>2. \A v \in Viewers : See(v, a, upto[v]) \in Viewer
      BY <1>0, <2>1, SeeingKeepsTypes DEF PublicationTypeOK
    <3>. QED BY <3>1, <3>2
  <2>. QED BY <1>0, <1>7, <2>1, <2>2 DEF PublicationTypeOK, Broadcast, NoFault
<1>8. ASSUME NEW v \in Viewers, NEW after \in Nat, Connect(v, after) PROVE PublicationTypeOK'
  <2>1. viewer' \in [Viewers -> Viewer]
    BY <1>0, <1>8, ConnectingKeepsTypes
  <2>2. stream' \in [last: Nat, events: SUBSET Nat, archives: SUBSET Archive]
    <3>1. Trim(stream.events) \subseteq Nat
      BY <1>0, TrimmedEvents DEF PublicationTypeOK
    <3>. QED BY <1>0, <1>8, <3>1 DEF PublicationTypeOK, Connect
  <2>. QED BY <1>0, <1>8, <2>1, <2>2 DEF PublicationTypeOK, Connect, NoFault
<1>9. \A v \in Viewers : viewer[v].cursor \in Nat
  BY <1>0 DEF PublicationTypeOK, Viewer
<1>. QED BY <1>1, <1>2, <1>3, <1>4, <1>5, <1>6, <1>7, <1>8, <1>9 DEF PublicationNext

-----------------------------------------------------------------------------
\* The spool's part of a step changes with the agent, the requests and D1 only.
LEMMA SpoolUnchanged ==
    ASSUME SpoolInv, PublicationTypeOK, written' \in Nat, written <= written',
           UNCHANGED <<acked, pending, awaited, ingest, watermark, receipts, enqueued>>
    PROVE  SpoolInv'
<1>1. acked <= written' /\ (pending # None => pending.last <= written')
  BY DEF SpoolInv, PublicationTypeOK, Archive
<1>. QED BY <1>1 DEF SpoolInv, AckedIsEnqueued

LEMMA StepKeepsSpool == ASSUME PublicationInv, PublicationNext PROVE SpoolInv'
<1>. USE DEF agentSide, database, queueSide, streamSide
<1>0. PublicationTypeOK /\ SpoolInv /\ \A a \in receipts : a.last <= watermark
  BY DEF PublicationInv, MessageInv, LiveDataIsDurable
<1>t. /\ acked \in Nat /\ written \in Nat /\ watermark \in Nat
      /\ pending \in Archive \cup {None} /\ receipts \subseteq Archive
      /\ \A a \in Archive : a.first \in Nat \ {0} /\ a.last \in Nat /\ a.first <= a.last
      /\ None \notin Archive
      /\ \A r \in Ingests : ingest[r].pc # "idle" => ingest[r].archive \in Archive
  BY <1>0 DEF PublicationTypeOK, Archive, None
<1>1. CASE \/ AppendEntry \/ StreamRestarts \/ Age
           \/ \E m \in queue : Publish(m) \/ Ack(m) \/ ConsumerFails(m)
           \/ \E a \in unsent : Broadcast(a)
           \/ \E v \in Viewers : Connect(v, 0) \/ Connect(v, viewer[v].cursor)
  <2>1. UNCHANGED <<acked, pending, awaited, ingest, watermark, receipts, enqueued>>
    BY <1>1 DEF AppendEntry, StreamRestarts, Age, Publish, Ack, ConsumerFails, Broadcast, Connect
  <2>2. written' \in Nat /\ written <= written'
    <3>1. written' = written \/ written' = written + 1
      BY <1>1 DEF AppendEntry, StreamRestarts, Age, Publish, Ack, ConsumerFails, Broadcast, Connect
    <3>. QED BY <1>t, <3>1
  <2>. QED BY <1>0, <2>1, <2>2, SpoolUnchanged
<1>2. CASE GiveUp
  BY <1>0, <1>2 DEF SpoolInv, AckedIsEnqueued, GiveUp
<1>3. ASSUME NEW r \in Ingests, PublishOnce(r) PROVE SpoolInv'
  <2>1. /\ Prepared \in Archive /\ Prepared.first = acked + 1 /\ Prepared # None
        /\ Prepared.last <= written
    BY <1>0, <1>3, PreparedIsABatch DEF PublishOnce
  <2>2. /\ ingest'[r] = [pc |-> "lookup", archive |-> Prepared]
        /\ \A q \in Ingests \ {r} : ingest'[q] = ingest[q]
    BY <1>0, <1>3 DEF PublicationTypeOK, PublishOnce
  <2>3. pending' = Prepared /\ (pending # None => Prepared = pending)
    BY <1>3 DEF PublishOnce, Prepared
  <2>4. \A a \in receipts : a.last <= acked \/ a = pending'
    BY <1>0, <1>t, <2>3 DEF SpoolInv
  <2>5. watermark = acked \/ (pending' \in receipts /\ watermark = pending'.last)
    BY <1>0, <1>t, <2>3 DEF SpoolInv
  <2>6. \A q \in Ingests :
          /\ ingest'[q].pc \in PastCommit => ingest'[q].archive \in receipts
          /\ ingest'[q].pc = "reply" => ingest'[q].archive \in enqueued
          /\ ingest'[q].pc # "idle" => ingest'[q].archive.last <= acked \/ ingest'[q].archive = pending'
    BY <1>0, <1>t, <2>2, <2>3 DEF SpoolInv, PastCommit
  <2>. QED BY <1>0, <1>3, <2>1, <2>2, <2>3, <2>4, <2>5, <2>6 DEF SpoolInv, AckedIsEnqueued, PublishOnce
<1>4. ASSUME NEW r \in Ingests, Acknowledge(r) PROVE SpoolInv'
  <2>1. ingest'[r].pc = "idle" /\ \A q \in Ingests \ {r} : ingest'[q] = ingest[q]
    BY <1>0, <1>4 DEF PublicationTypeOK, Acknowledge, AtRest
  <2>2. CASE awaited = r
    <3>1. /\ pending # None /\ pending \in enqueued /\ pending \in receipts
          /\ pending.first = acked + 1 /\ pending.last > acked
      BY <1>0, <1>t, <1>4, <2>2, PublicationAssumption
      DEF SpoolInv, Acknowledge, PublicationTypeOK, PastCommit
    <3>2. watermark = pending.last
      BY <1>0, <1>t, <3>1 DEF SpoolInv, AckedIsEnqueued
    <3>3. acked' = pending.last /\ pending' = None /\ awaited' = NoRequest
      BY <1>4, <2>2 DEF Acknowledge
    <3>4. \A a \in receipts : a.last <= acked' /\ a \in enqueued
      <4>1. \A a \in receipts : (a.last <= acked /\ a \in enqueued) \/ a = pending
        BY <1>0 DEF SpoolInv, AckedIsEnqueued
      <4>2. \A a \in receipts : a.last \in Nat /\ pending.last \in Nat
        BY <1>t, <3>1
      <4>. QED BY <1>t, <3>1, <3>3, <4>1, <4>2
    <3>5. \A q \in Ingests :
            /\ ingest'[q].pc \in PastCommit => ingest'[q].archive \in receipts
            /\ ingest'[q].pc = "reply" => ingest'[q].archive \in enqueued
            /\ ingest'[q].pc # "idle" => ingest'[q].archive.last <= acked'
      BY <1>0, <1>t, <2>1, <3>1, <3>3 DEF SpoolInv, PastCommit
    <3>6. acked' <= written' /\ written' = written /\ acked' = watermark'
      BY <1>0, <1>4, <3>1, <3>2, <3>3 DEF SpoolInv, Acknowledge
    <3>7. AckedIsEnqueued'
      BY <1>4, <1>t, <3>4, <3>6 DEF AckedIsEnqueued, Acknowledge
    <3>. QED BY <1>4, <3>3, <3>4, <3>5, <3>6, <3>7 DEF SpoolInv, Acknowledge
  <2>3. CASE awaited # r
    <3>1. \A q \in Ingests :
            /\ ingest'[q].pc \in PastCommit => ingest'[q].archive \in receipts
            /\ ingest'[q].pc = "reply" => ingest'[q].archive \in enqueued
            /\ ingest'[q].pc # "idle" => ingest'[q].archive.last <= acked \/ ingest'[q].archive = pending
      BY <1>0, <2>1 DEF SpoolInv, PastCommit
    <3>2. awaited # NoRequest => ingest'[awaited] = ingest[awaited]
      BY <1>0, <2>1, <2>3 DEF PublicationTypeOK
    <3>. QED BY <1>0, <1>4, <2>3, <3>1, <3>2 DEF SpoolInv, AckedIsEnqueued, Acknowledge
  <2>. QED BY <2>2, <2>3
<1>5. ASSUME NEW r \in Ingests, IngestFails(r) PROVE SpoolInv'
  <2>1. ingest'[r].pc = "idle" /\ \A q \in Ingests \ {r} : ingest'[q] = ingest[q]
    BY <1>0, <1>5 DEF PublicationTypeOK, IngestFails, AtRest
  <2>2. \A q \in Ingests :
          /\ ingest'[q].pc \in PastCommit => ingest'[q].archive \in receipts
          /\ ingest'[q].pc = "reply" => ingest'[q].archive \in enqueued
          /\ ingest'[q].pc # "idle" => ingest'[q].archive.last <= acked \/ ingest'[q].archive = pending
    BY <1>0, <2>1 DEF SpoolInv, PastCommit
  <2>3. awaited' # NoRequest => awaited' = awaited /\ ingest'[awaited] = ingest[awaited]
    BY <1>0, <1>5, <2>1 DEF PublicationTypeOK, IngestFails
  <2>. QED BY <1>0, <1>5, <2>2, <2>3 DEF SpoolInv, AckedIsEnqueued, IngestFails
<1>6. ASSUME NEW r \in Ingests, ingest[r].pc # "idle", NEW pc \in {"upload"} \cup PastCommit,
             GoTo(r, pc), UNCHANGED agentSide,
             receipts \subseteq receipts', enqueued \subseteq enqueued',
             pc \in PastCommit => ingest[r].archive \in receipts',
             pc = "reply" => ingest[r].archive \in enqueued',
             \A a \in receipts' : a.last <= acked \/ a = pending,
             watermark' = acked \/ (pending \in receipts' /\ watermark' = pending.last),
             AckedIsEnqueued'
      PROVE  SpoolInv'
  <2>1. /\ ingest'[r].pc = pc
        /\ \A q \in Ingests : /\ ingest'[q].archive = ingest[q].archive
                              /\ q # r => ingest'[q] = ingest[q]
                              /\ ingest'[q].pc # "idle" <=> ingest[q].pc # "idle"
    BY <1>0, <1>6, Going
  <2>2. \A q \in Ingests :
          /\ ingest'[q].pc \in PastCommit => ingest'[q].archive \in receipts'
          /\ ingest'[q].pc = "reply" => ingest'[q].archive \in enqueued'
          /\ ingest'[q].pc # "idle" => ingest'[q].archive.last <= acked \/ ingest'[q].archive = pending
    BY <1>0, <1>6, <2>1 DEF SpoolInv
  <2>3. awaited # NoRequest => /\ ingest'[awaited].pc # "idle"
                               /\ ingest'[awaited].archive = ingest[awaited].archive
    BY <1>0, <2>1 DEF SpoolInv, PublicationTypeOK
  <2>. QED BY <1>0, <1>6, <2>2, <2>3 DEF SpoolInv
<1>7. ASSUME NEW r \in Ingests, FindReceipt(r) \/ ReadPublication(r) \/ Send(r) PROVE SpoolInv'
  <2>1. ingest[r].pc # "idle" /\ UNCHANGED <<acked, pending, awaited, watermark, receipts, enqueued>>
    BY <1>7 DEF FindReceipt, ReadPublication, Send
  <2>2. AckedIsEnqueued'
    BY <1>0, <2>1 DEF SpoolInv, AckedIsEnqueued
  <2>3. \E pc \in {"upload"} \cup PastCommit :
          /\ GoTo(r, pc) /\ UNCHANGED agentSide
          /\ pc \in PastCommit => ingest[r].archive \in receipts
          /\ pc = "reply" => ingest[r].archive \in enqueued
    BY <1>0, <1>7 DEF FindReceipt, ReadPublication, Send, SpoolInv, PastCommit
  <2>. QED BY <1>0, <1>6, <2>1, <2>2, <2>3 DEF SpoolInv
<1>8. ASSUME NEW r \in Ingests, MarkEnqueued(r) PROVE SpoolInv'
  <2>1. /\ ingest[r].pc # "idle" /\ UNCHANGED <<acked, pending, awaited, watermark, receipts>>
        /\ enqueued' = enqueued \cup {ingest[r].archive} /\ GoTo(r, "reply")
        /\ UNCHANGED agentSide
    BY <1>8 DEF MarkEnqueued
  <2>2. AckedIsEnqueued'
    BY <1>0, <2>1 DEF SpoolInv, AckedIsEnqueued
  <2>3. ingest[r].archive \in receipts
    BY <1>0, <1>8 DEF MarkEnqueued, SpoolInv, PastCommit
  <2>4. "reply" \in {"upload"} \cup PastCommit
    BY DEF PastCommit
  <2>. QED BY <1>0, <1>6, <2>1, <2>2, <2>3, <2>4 DEF SpoolInv
<1>9. ASSUME NEW r \in Ingests, Commit(r) PROVE SpoolInv'
  <2>. DEFINE a == ingest[r].archive
  <2>1. /\ ingest[r].pc # "idle" /\ a \in Archive
        /\ GoTo(r, "read") /\ UNCHANGED <<agentSide, enqueued>>
    BY <1>t, <1>9 DEF Commit
  <2>2. "read" \in {"upload"} \cup PastCommit /\ "read" # "reply"
    BY DEF PastCommit
  <2>3. CASE a \in receipts /\ UNCHANGED <<receipts, watermark>>
    <3>1. AckedIsEnqueued'
      BY <1>0, <2>1, <2>3 DEF SpoolInv, AckedIsEnqueued
    <3>. QED BY <1>0, <1>6, <2>1, <2>2, <2>3, <3>1 DEF SpoolInv
  <2>4. CASE /\ a \notin receipts /\ a.first = watermark + 1
             /\ receipts' = receipts \cup {a} /\ watermark' = a.last
    <3>1. acked <= watermark
      BY <1>0 DEF SpoolInv, AckedIsEnqueued
    <3>2. a = pending
      BY <1>0, <1>t, <2>1, <2>4, <3>1 DEF SpoolInv
    <3>3. a.last > acked
      BY <1>t, <2>1, <2>4, <3>1
    <3>4. AckedIsEnqueued'
      BY <1>0, <1>t, <2>1, <2>4, <3>3 DEF SpoolInv, AckedIsEnqueued
    <3>5. \A b \in receipts' : b.last <= acked \/ b = pending
      BY <1>0, <2>4, <3>2 DEF SpoolInv
    <3>6. pending \in receipts' /\ watermark' = pending.last /\ a \in receipts'
          /\ receipts \subseteq receipts' /\ enqueued \subseteq enqueued'
      BY <2>1, <2>4, <3>2
    <3>. QED BY <1>6, <2>1, <2>2, <3>4, <3>5, <3>6
  <2>. QED BY <1>9, <2>3, <2>4 DEF Commit
<1>. QED BY <1>1, <1>2, <1>3, <1>4, <1>5, <1>7, <1>8, <1>9 DEF PublicationNext

-----------------------------------------------------------------------------
\* What may be said of an archive that was sent.
Accounted(a) ==
    \/ \E m \in queue : m.archive = a
    \/ a \in dead
    \/ a.last <= stream.last

\* A step of the queue, the consumer or the stream object forgets no archive,
\* sends none that was not sent, and takes the stream forward.
QueueStep ==
    /\ \A n \in queue' : \E m \in queue : n.archive = m.archive
    /\ \A n \in queue' : n.phase # "waiting" => n.archive.last <= stream'.last
    /\ stream.last <= stream'.last /\ stream'.last <= watermark
    /\ \A a \in stream'.archives : a.last <= stream'.last
    /\ \A a \in Archive : Accounted(a) => Accounted(a)'

LEMMA StepOfQueue ==
    ASSUME PublicationInv,
           \/ StreamRestarts
           \/ \E m \in queue : Publish(m) \/ Ack(m) \/ ConsumerFails(m)
           \/ \E v \in Viewers : Connect(v, 0) \/ Connect(v, viewer[v].cursor)
    PROVE  QueueStep
<1>. USE DEF queueSide, streamSide, database
<1>0. /\ PublicationTypeOK /\ LiveDataIsDurable /\ queue \subseteq Message
      /\ stream.last \in Nat /\ watermark \in Nat /\ stream.last <= watermark
      /\ \A a \in Archive : a.first \in Nat \ {0} /\ a.last \in Nat /\ a.first <= a.last
      /\ \A m \in queue : m.archive \in receipts /\ m.archive \in Archive
      /\ \A m \in queue : m.phase # "waiting" => m.archive.last <= stream.last
      /\ \A a \in stream.archives : a.last <= stream.last
      /\ \A a \in receipts : a.last <= watermark
  BY DEF PublicationInv, PublicationTypeOK, MessageInv, LiveDataIsDurable, Archive, Message
<1>1. ASSUME UNCHANGED stream,
             \A n \in queue' : n \in queue \/ (n.phase = "waiting" /\ \E m \in queue : n.archive = m.archive),
             dead \subseteq dead',
             \A m \in queue : \/ m.archive \in dead' \/ m.archive.last <= stream.last
                              \/ \E n \in queue' : n.archive = m.archive
      PROVE  QueueStep
  BY <1>0, <1>1 DEF QueueStep, Accounted
<1>2. CASE StreamRestarts
  <2>1. /\ dead \subseteq dead'
        /\ \A n \in queue' : n \in queue \/ (n.phase = "waiting" /\ \E m \in queue : n.archive = m.archive)
        /\ \A m \in queue : m.archive \in dead' \/ \E n \in queue' : n.archive = m.archive
    BY <1>0, <1>2, Restarting
  <2>. QED BY <1>1, <1>2, <2>1 DEF StreamRestarts
<1>3. ASSUME NEW m \in queue, Retry(m), UNCHANGED stream PROVE QueueStep
  <2>1. /\ dead \subseteq dead'
        /\ queue \ {m} \subseteq queue'
        /\ \A n \in queue' : n \in queue \/ (n.phase = "waiting" /\ n.archive = m.archive)
        /\ m.archive \in dead' \/ \E n \in queue' : n.archive = m.archive
    BY <1>0, <1>3, Retrying
  <2>. QED BY <1>1, <1>3, <2>1
<1>4. ASSUME NEW m \in queue, Ack(m) PROVE QueueStep
  <2>1. /\ m.archive.last <= stream.last /\ queue' = queue \ {m}
        /\ UNCHANGED <<dead, stream>>
    BY <1>0, <1>4 DEF Ack
  <2>. QED BY <1>1, <2>1
<1>5. ASSUME NEW m \in queue, NEW phase \in {"calling", "answered"}, Answer(m, phase),
             stream'.last \in Nat, stream.last <= stream'.last, stream'.last <= watermark,
             m.archive.last <= stream'.last,
             \A a \in stream'.archives : a \in Archive /\ a.last <= stream'.last
      PROVE  QueueStep
  <2>1. /\ dead' = dead
        /\ queue \ {m} \subseteq queue'
        /\ \A n \in queue' : n \in queue \/ (n.phase = phase /\ n.archive = m.archive)
        /\ \E n \in queue' : n.archive = m.archive
    BY <1>0, <1>5, Answering
  <2>2. \A n \in queue' : \E k \in queue : n.archive = k.archive
    BY <1>5, <2>1
  <2>3. \A n \in queue' : n.phase # "waiting" => n.archive.last <= stream'.last
    <3>1. \A n \in queue : n.phase # "waiting" => n.archive.last <= stream'.last
      BY <1>0, <1>5
    <3>. QED BY <1>5, <2>1, <3>1
  <2>4. \A a \in Archive : Accounted(a) => Accounted(a)'
    <3>1. \A a \in Archive : a.last <= stream.last => a.last <= stream'.last
      BY <1>0, <1>5
    <3>. QED BY <2>1, <3>1 DEF Accounted
  <2>. QED BY <1>5, <2>2, <2>3, <2>4 DEF QueueStep
<1>6. ASSUME NEW m \in queue, Publish(m) PROVE QueueStep
  <2>. DEFINE a == m.archive
  <2>1. CASE Replayed(a) /\ Answer(m, "answered") /\ UNCHANGED stream
    <3>1. a.last <= stream.last
      BY <1>0, <2>1 DEF Replayed
    <3>. QED BY <1>0, <1>5, <2>1, <3>1 DEF PublicationTypeOK
  <2>2. CASE /\ Follows(a) /\ Answer(m, "calling")
             /\ stream' = [last |-> a.last, events |-> Trim(stream.events \cup Span(a)),
                           archives |-> TrimArchives(stream.archives \cup {a})]
    <3>1. stream'.last = a.last /\ a.last \in Nat /\ a.last <= watermark /\ stream.last <= a.last
      BY <1>0, <2>2 DEF Follows
    <3>2. \A b \in stream'.archives : b \in stream.archives \/ b = a
      BY <2>2 DEF TrimArchives
    <3>3. \A b \in stream'.archives : b \in Archive /\ b.last <= stream'.last
      BY <1>0, <3>1, <3>2 DEF PublicationTypeOK
    <3>4. /\ stream'.last \in Nat /\ stream.last <= stream'.last
          /\ stream'.last <= watermark /\ m.archive.last <= stream'.last
      BY <1>0, <3>1
    <3>5. Answer(m, "calling")
      BY <2>2
    <3>. HIDE DEF a
    <3>. QED BY <1>5, <3>3, <3>4, <3>5
  <2>. QED BY <1>3, <1>6, <2>1, <2>2 DEF Publish
<1>7. ASSUME NEW v \in Viewers, NEW after, Connect(v, after) PROVE QueueStep
  <2>1. UNCHANGED <<queue, dead>> /\ stream'.last = stream.last
        /\ stream'.archives = stream.archives
    BY <1>0, <1>7 DEF Connect, PublicationTypeOK
  <2>. QED BY <1>0, <2>1 DEF QueueStep, Accounted
<1>8. ASSUME NEW m \in queue, ConsumerFails(m) PROVE QueueStep
  BY <1>3, <1>8 DEF ConsumerFails
<1>. QED BY <1>2, <1>4, <1>6, <1>7, <1>8

LEMMA StepKeepsMessages == ASSUME PublicationInv, PublicationNext PROVE MessageInv'
<1>. USE DEF agentSide, database, queueSide, streamSide
<1>0. /\ PublicationTypeOK /\ SpoolInv /\ MessageInv /\ LiveDataIsDurable
      /\ stream.last \in Nat /\ watermark \in Nat
      /\ \A a \in Archive : a.first \in Nat \ {0} /\ a.last \in Nat /\ a.first <= a.last
      /\ receipts \subseteq Archive
      /\ \A r \in Ingests : ingest[r].pc # "idle" => ingest[r].archive \in Archive
  BY DEF PublicationInv, PublicationTypeOK, MessageInv, Archive
<1>1. CASE \/ StreamRestarts
           \/ \E m \in queue : Publish(m) \/ Ack(m) \/ ConsumerFails(m)
           \/ \E v \in Viewers : Connect(v, 0) \/ Connect(v, viewer[v].cursor)
  <2>1. QueueStep
    BY <1>1, StepOfQueue
  <2>2. UNCHANGED <<ingest, watermark, receipts, enqueued>>
    BY <1>1 DEF StreamRestarts, Publish, Ack, ConsumerFails, Connect
  <2>3. LiveDataIsDurable'
    BY <1>0, <2>1, <2>2 DEF LiveDataIsDurable, QueueStep
  <2>4. \A r \in Ingests : ingest[r].pc = "mark" => Accounted(ingest[r].archive)'
    <3>1. \A r \in Ingests : ingest[r].pc = "mark" => Accounted(ingest[r].archive)
      BY <1>0 DEF MessageInv, Accounted
    <3>. QED BY <1>0, <2>1, <2>2, <3>1 DEF QueueStep, Accounted
  <2>5. \A a \in enqueued : Accounted(a)'
    <3>1. \A a \in enqueued : Accounted(a) /\ a \in Archive
      BY <1>0 DEF MessageInv, EnqueuedIsAccountedFor, Accounted, PublicationTypeOK
    <3>. QED BY <2>1, <3>1 DEF QueueStep
  <2>. QED BY <2>1, <2>2, <2>3, <2>4, <2>5 DEF MessageInv, QueueStep, EnqueuedIsAccountedFor, Accounted
<1>2. ASSUME UNCHANGED <<queue, dead, stream, receipts, enqueued, watermark>>,
             \A r \in Ingests : ingest'[r].pc = "mark" => ingest'[r] = ingest[r]
      PROVE  MessageInv'
  BY <1>0, <1>2 DEF MessageInv, LiveDataIsDurable, EnqueuedIsAccountedFor
<1>3. CASE AppendEntry \/ GiveUp \/ Age \/ \E a \in unsent : Broadcast(a)
  BY <1>2, <1>3 DEF AppendEntry, GiveUp, Age, Broadcast
<1>4. ASSUME NEW r \in Ingests, PublishOnce(r) \/ Acknowledge(r) \/ IngestFails(r)
      PROVE  MessageInv'
  <2>1. ingest'[r].pc # "mark" /\ \A q \in Ingests \ {r} : ingest'[q] = ingest[q]
    BY <1>0, <1>4 DEF PublicationTypeOK, PublishOnce, Acknowledge, IngestFails, AtRest
  <2>. QED BY <1>2, <1>4, <2>1 DEF PublishOnce, Acknowledge, IngestFails
<1>5. ASSUME NEW r \in Ingests, FindReceipt(r) \/ ReadPublication(r) PROVE MessageInv'
  <2>1. /\ ingest[r].pc # "idle"
        /\ \E pc \in {"upload", "read", "reply", "send"} : GoTo(r, pc)
    BY <1>5 DEF FindReceipt, ReadPublication
  <2>2. ingest'[r].pc # "mark" /\ \A q \in Ingests \ {r} : ingest'[q] = ingest[q]
    BY <1>0, <2>1, Going DEF PastCommit
  <2>. QED BY <1>2, <1>5, <2>2 DEF FindReceipt, ReadPublication
<1>6. ASSUME NEW r \in Ingests, Commit(r) PROVE MessageInv'
  <2>1. ingest[r].pc # "idle" /\ GoTo(r, "read") /\ UNCHANGED <<queue, dead, stream, enqueued>>
    BY <1>6 DEF Commit
  <2>2. ingest'[r].pc # "mark" /\ \A q \in Ingests \ {r} : ingest'[q] = ingest[q]
    BY <1>0, <2>1, Going DEF PastCommit
  <2>3. /\ receipts \subseteq receipts' /\ watermark <= watermark' /\ watermark' \in Nat
        /\ \A a \in receipts' : a.last <= watermark'
    BY <1>0, <1>6 DEF Commit, LiveDataIsDurable
  <2>4. /\ \A k \in 1 .. watermark' : \E a \in receipts' : k \in Span(a)
        /\ \A a, b \in receipts' : a = b \/ a.last < b.first \/ b.last < a.first
    <3>1. CASE UNCHANGED <<receipts, watermark>>
      BY <1>0, <3>1 DEF LiveDataIsDurable
    <3>2. CASE /\ ingest[r].archive.first = watermark + 1
               /\ receipts' = receipts \cup {ingest[r].archive}
               /\ watermark' = ingest[r].archive.last
      <4>. DEFINE a == ingest[r].archive
      <4>1. a \in Archive
        BY <1>0, <2>1
      <4>. HIDE DEF a
      <4>2. a.first = watermark + 1 /\ receipts' = receipts \cup {a} /\ watermark' = a.last
        BY <3>2 DEF a
      <4>3. \A k \in 1 .. a.last : k \in 1 .. watermark \/ k \in Span(a)
        BY <1>0, <4>1, <4>2 DEF Span
      <4>4. \A b \in receipts : b.last < a.first
        BY <1>0, <4>1, <4>2 DEF LiveDataIsDurable
      <4>5. \A k \in 1 .. watermark : \E b \in receipts : k \in Span(b)
        BY <1>0 DEF LiveDataIsDurable
      <4>6. \A b, c \in receipts : b = c \/ b.last < c.first \/ c.last < b.first
        BY <1>0 DEF LiveDataIsDurable
      <4>7. \A k \in 1 .. watermark' : \E b \in receipts' : k \in Span(b)
        BY <4>2, <4>3, <4>5
      <4>. QED BY <4>2, <4>4, <4>6, <4>7
    <3>. QED BY <1>6, <3>1, <3>2 DEF Commit
  <2>5. LiveDataIsDurable'
    BY <1>0, <2>1, <2>3, <2>4 DEF LiveDataIsDurable
  <2>. QED BY <1>0, <2>1, <2>2, <2>5 DEF MessageInv, EnqueuedIsAccountedFor
<1>7. ASSUME NEW r \in Ingests, Send(r) PROVE MessageInv'
  <2>. DEFINE new == [id |-> sent, archive |-> ingest[r].archive, attempts |-> 0, phase |-> "waiting"]
  <2>1. /\ ingest[r].pc = "send" /\ GoTo(r, "mark") /\ queue' = queue \cup {new}
        /\ UNCHANGED <<dead, stream, receipts, enqueued, watermark>>
    BY <1>7 DEF Send
  <2>2. /\ ingest'[r].archive = ingest[r].archive
        /\ \A q \in Ingests \ {r} : ingest'[q] = ingest[q]
    BY <1>0, <2>1, Going DEF PastCommit
  <2>3. new.archive = ingest[r].archive /\ new.phase = "waiting" /\ ingest[r].archive \in receipts
    BY <1>0, <2>1 DEF SpoolInv, PastCommit
  <2>4. LiveDataIsDurable'
    BY <1>0, <2>1, <2>3 DEF LiveDataIsDurable
  <2>5. EnqueuedIsAccountedFor'
    BY <1>0, <2>1 DEF MessageInv, EnqueuedIsAccountedFor
  <2>6. \A m \in queue' : m.phase # "waiting" => m.archive.last <= stream'.last
    BY <1>0, <2>1, <2>3 DEF MessageInv
  <2>7. \A q \in Ingests :
          ingest'[q].pc = "mark" =>
            \/ \E m \in queue' : m.archive = ingest'[q].archive
            \/ ingest'[q].archive \in dead
            \/ ingest'[q].archive.last <= stream.last
    BY <1>0, <2>1, <2>2, <2>3 DEF MessageInv
  <2>. QED BY <1>0, <2>1, <2>4, <2>5, <2>6, <2>7 DEF MessageInv
<1>8. ASSUME NEW r \in Ingests, MarkEnqueued(r) PROVE MessageInv'
  <2>1. /\ ingest[r].pc = "mark" /\ GoTo(r, "reply")
        /\ enqueued' = enqueued \cup {ingest[r].archive}
        /\ UNCHANGED <<queue, dead, stream, receipts, watermark>>
    BY <1>8 DEF MarkEnqueued
  <2>2. ingest'[r].pc = "reply" /\ \A q \in Ingests \ {r} : ingest'[q] = ingest[q]
    BY <1>0, <2>1, Going DEF PastCommit
  <2>3. EnqueuedIsAccountedFor'
    BY <1>0, <2>1 DEF MessageInv, EnqueuedIsAccountedFor
  <2>. QED BY <1>0, <2>1, <2>2, <2>3 DEF MessageInv, LiveDataIsDurable
<1>. QED BY <1>1, <1>3, <1>4, <1>5, <1>6, <1>7, <1>8 DEF PublicationNext

-----------------------------------------------------------------------------
LEMMA StepKeepsStream == ASSUME PublicationInv, PublicationNext PROVE StreamInv'
<1>. USE DEF agentSide, database, queueSide, streamSide
<1>0. /\ PublicationTypeOK /\ StreamInv /\ queue \subseteq Message
      /\ stream.last \in Nat /\ aged \in Nat /\ broadcasts \subseteq Nat /\ unsent \subseteq Archive
      /\ \A a \in Archive : a.first \in Nat \ {0} /\ a.last \in Nat /\ a.first <= a.last
      /\ stream.events \subseteq 1 .. stream.last
      /\ \A k \in stream.events : k .. stream.last \subseteq stream.events
  BY DEF PublicationInv, PublicationTypeOK, StreamInv, EventsContiguous, Archive
<1>1. ASSUME stream'.last = stream.last, stream'.events = stream.events,
             broadcasts' = broadcasts, unsent' \subseteq unsent
      PROVE  StreamInv'
  <2>1. EventsContiguous'
    BY <1>0, <1>1 DEF StreamInv, EventsContiguous
  <2>. QED BY <1>0, <1>1, <2>1 DEF StreamInv
<1>2. CASE \/ AppendEntry \/ GiveUp \/ StreamRestarts \/ Age
           \/ \E r \in Ingests :
                \/ PublishOnce(r) \/ FindReceipt(r) \/ Commit(r) \/ ReadPublication(r)
                \/ Send(r) \/ MarkEnqueued(r) \/ Acknowledge(r) \/ IngestFails(r)
           \/ \E m \in queue : Ack(m) \/ ConsumerFails(m)
  <2>1. UNCHANGED <<stream, broadcasts>> /\ unsent' \subseteq unsent
    <3>1. CASE \/ AppendEntry \/ GiveUp \/ StreamRestarts \/ Age
      BY <3>1 DEF AppendEntry, GiveUp, StreamRestarts, Age
    <3>2. CASE \E r \in Ingests :
                 \/ PublishOnce(r) \/ FindReceipt(r) \/ Commit(r) \/ ReadPublication(r)
                 \/ Send(r) \/ MarkEnqueued(r) \/ Acknowledge(r) \/ IngestFails(r)
      BY <3>2 DEF PublishOnce, FindReceipt, Commit, ReadPublication, Send, MarkEnqueued,
                  Acknowledge, IngestFails
    <3>3. CASE \E m \in queue : Ack(m) \/ ConsumerFails(m)
      BY <3>3 DEF Ack, ConsumerFails
    <3>. QED BY <1>2, <3>1, <3>2, <3>3
  <2>. QED BY <1>1, <2>1
<1>3. ASSUME NEW v \in Viewers, NEW after, Connect(v, after) PROVE StreamInv'
  <2>1. /\ stream'.last = stream.last /\ stream'.events = Trim(stream.events)
        /\ broadcasts' = broadcasts /\ unsent' = unsent
    BY <1>0, <1>3 DEF Connect, PublicationTypeOK
  <2>2. /\ Trim(stream.events) \subseteq stream.events
        /\ \A k \in Trim(stream.events) : k .. stream.last \subseteq Trim(stream.events)
    BY <1>0, TrimKeepsContiguity
  <2>3. EventsContiguous'
    BY <1>0, <2>1, <2>2 DEF EventsContiguous
  <2>. QED BY <1>0, <2>1, <2>3 DEF StreamInv
<1>4. ASSUME NEW a \in unsent, Broadcast(a) PROVE StreamInv'
  <2>1. /\ UNCHANGED stream /\ unsent' = unsent \ {a} /\ broadcasts' = broadcasts \cup Span(a)
        /\ \A b \in unsent : a.first <= b.first
    BY <1>4 DEF Broadcast
  <2>2. a \in Archive /\ a.last <= stream.last
    BY <1>0 DEF StreamInv
  <2>3. \A k \in broadcasts' : k <= stream.last
    <3>1. \A k \in Span(a) : k <= stream.last
      BY <1>0, <2>2 DEF Span
    <3>. QED BY <1>0, <2>1, <3>1 DEF StreamInv
  <2>4. ASSUME NEW b \in unsent \ {a} PROVE \A k \in broadcasts' : k < b.first
    <3>1. a.last < b.first
      BY <1>0, <2>1, <2>2 DEF StreamInv
    <3>2. \A k \in Span(a) : k < b.first
      BY <1>0, <2>2, <3>1 DEF Span
    <3>. QED BY <1>0, <2>1, <3>2 DEF StreamInv
  <2>5. EventsContiguous'
    BY <1>0, <2>1 DEF StreamInv, EventsContiguous
  <2>. QED BY <1>0, <2>1, <2>3, <2>4, <2>5 DEF StreamInv
<1>5. ASSUME NEW m \in queue, Publish(m) PROVE StreamInv'
  <2>. DEFINE a == m.archive
              events == stream.events \cup Span(a)
  <2>1. CASE UNCHANGED <<stream, unsent>>
    BY <1>1, <1>5, <2>1 DEF Publish
  <2>2. CASE /\ Follows(a) /\ unsent' = unsent \cup {a}
             /\ stream' = [last |-> a.last, events |-> Trim(events),
                           archives |-> TrimArchives(stream.archives \cup {a})]
    <3>1. /\ a \in Archive /\ broadcasts' = broadcasts
          /\ stream'.last = a.last /\ stream'.events = Trim(events)
      BY <1>0, <1>5, <2>2 DEF Message, Publish
    <3>2. stream.last < a.first /\ stream.last <= a.last
      BY <1>0, <2>2, <3>1 DEF Follows
    <3>3. \A k \in broadcasts : k < a.first /\ k <= a.last
      <4>1. \A k \in broadcasts : k <= stream.last /\ k \in Nat
        BY <1>0 DEF StreamInv
      <4>. QED BY <1>0, <3>1, <3>2, <4>1
    <3>4. \A b \in unsent : b.last < a.first /\ b.last <= a.last
      <4>1. \A b \in unsent : b.last <= stream.last /\ b.last \in Nat
        BY <1>0 DEF StreamInv
      <4>. QED BY <1>0, <3>1, <3>2, <4>1
    <3>5. events \subseteq 1 .. a.last /\ \A k \in events : k .. a.last \subseteq events
      <4>1. \A k \in stream.events : k \in 1 .. a.last
        BY <1>0, <3>1, <3>2
      <4>2. \A k \in Span(a) : k \in 1 .. a.last /\ k .. a.last \subseteq Span(a)
        BY <1>0, <3>1 DEF Span
      <4>3. ASSUME NEW k \in stream.events, NEW j \in k .. a.last PROVE j \in events
        <5>1. stream.last # 0 /\ k \in Nat /\ j \in Nat
          BY <1>0
        <5>2. a.first = stream.last + 1
          BY <2>2, <5>1 DEF Follows
        <5>3. CASE j <= stream.last
          BY <1>0, <5>1, <5>3
        <5>4. CASE j > stream.last
          <6>1. j \in a.first .. a.last
            BY <1>0, <3>1, <5>1, <5>2, <5>4
          <6>. QED BY <6>1 DEF Span
        <5>. QED BY <1>0, <5>1, <5>3, <5>4
      <4>. QED BY <4>1, <4>2, <4>3
    <3>6. /\ Trim(events) \subseteq events
          /\ \A k \in Trim(events) : k .. a.last \subseteq Trim(events)
      <4>1. a.last \in Nat
        BY <1>0, <3>1
      <4>. HIDE DEF events, a
      <4>. QED BY <1>0, <3>5, <4>1, TrimKeepsContiguity
    <3>7. EventsContiguous'
      <4>. HIDE DEF events, a
      <4>. QED BY <3>1, <3>5, <3>6 DEF EventsContiguous
    <3>8. a.last <= a.last
      BY <1>0, <3>1
    <3>9. \A b \in unsent' : \A c \in unsent' : b = c \/ b.last < c.first \/ c.last < b.first
      <4>. HIDE DEF a
      <4>. QED BY <1>0, <2>2, <3>4 DEF StreamInv
    <3>10. \A b \in unsent' : b.last <= a.last /\ \A k \in broadcasts : k < b.first
      <4>. HIDE DEF a
      <4>. QED BY <1>0, <2>2, <3>3, <3>4, <3>8 DEF StreamInv
    <3>. QED
      <4>. HIDE DEF a
      <4>. QED BY <3>1, <3>3, <3>7, <3>9, <3>10 DEF StreamInv
  <2>. QED BY <1>5, <2>1, <2>2 DEF Publish
<1>. QED BY <1>2, <1>3, <1>4, <1>5 DEF PublicationNext

\* A step that changes nothing changes nothing of this.
LEMMA StutterKeeps == ASSUME PublicationInv, UNCHANGED publicationVars PROVE PublicationInv'
<1>1. UNCHANGED <<written, acked, pending, awaited, ingest, watermark, receipts, enqueued, queue,
                  sent, dead, stream, unsent, broadcasts, aged, viewer, faults>>
  BY DEF publicationVars, agentSide, database, queueSide, streamSide
<1>2. PublicationTypeOK'
  BY <1>1 DEF PublicationInv, PublicationTypeOK
<1>3. SpoolInv'
  BY <1>1, SpoolUnchanged DEF PublicationInv, PublicationTypeOK
<1>4. MessageInv'
  BY <1>1 DEF PublicationInv, MessageInv, LiveDataIsDurable, EnqueuedIsAccountedFor
<1>5. StreamInv'
  BY <1>1 DEF PublicationInv, StreamInv, EventsContiguous
<1>. QED BY <1>2, <1>3, <1>4, <1>5 DEF PublicationInv

\* The invariant all of the guarantees below follow from.
THEOREM PublicationInvHolds == PublicationSpec => []PublicationInv
<1>1. ASSUME PublicationInv, [PublicationNext]_publicationVars PROVE PublicationInv'
  BY <1>1, StepKeepsTypes, StepKeepsSpool, StepKeepsMessages, StepKeepsStream, StutterKeeps
  DEF PublicationInv
<1>. QED BY <1>1, StartsRight, PTL DEF PublicationSpec

\* Types, for any number of requests, viewers, entries and failures.
THEOREM PublicationTypes == PublicationSpec => []PublicationTypeOK
<1>1. PublicationInv => PublicationTypeOK
  BY DEF PublicationInv
<1>. QED BY <1>1, PublicationInvHolds, PTL

\* Nothing is on the queue or shown live before D1 accepted it.
THEOREM LiveDataStaysDurable == PublicationSpec => []LiveDataIsDurable
<1>1. PublicationInv => LiveDataIsDurable
  BY DEF PublicationInv, MessageInv
<1>. QED BY <1>1, PublicationInvHolds, PTL

\* The stream object's events have no hole, whatever comes and whatever is
\* trimmed.
THEOREM EventsStayContiguous == PublicationSpec => []EventsContiguous
<1>1. PublicationInv => EventsContiguous
  BY DEF PublicationInv, StreamInv
<1>. QED BY <1>1, PublicationInvHolds, PTL

\* The agent forgets only what is accepted and marked enqueued.
THEOREM AckedStaysEnqueued == PublicationSpec => []AckedIsEnqueued
<1>1. PublicationInv => AckedIsEnqueued
  BY DEF PublicationInv, SpoolInv
<1>. QED BY <1>1, PublicationInvHolds, PTL

\* What is marked enqueued is on the queue, dead or behind the stream.
THEOREM EnqueuedStaysAccountedFor == PublicationSpec => []EnqueuedIsAccountedFor
<1>1. PublicationInv => EnqueuedIsAccountedFor
  BY DEF PublicationInv, MessageInv
<1>. QED BY <1>1, PublicationInvHolds, PTL

\* Steps of the feed, for the steps of the publication that are not stutters.
LEMMA CommitIsAccepted ==
    ASSUME PublicationInv, NEW r \in Ingests, Commit(r)
    PROVE  Feed!FeedNext \/ UNCHANGED Feed!feedVars
<1>. USE DEF agentSide, queueSide, streamSide
<1>. DEFINE a == ingest[r].archive
<1>0. /\ SpoolInv /\ watermark \in Nat /\ written \in Nat /\ acked \in Nat
      /\ pending \in Archive \cup {None} /\ a \in Archive /\ ingest[r].pc # "idle"
      /\ \A b \in Archive : b.first \in Nat \ {0} /\ b.last \in Nat /\ b.first <= b.last
  BY DEF PublicationInv, PublicationTypeOK, Commit, Archive
<1>1. UNCHANGED <<written, enqueued, acked, stream, broadcasts>>
  BY DEF Commit
<1>2. CASE UNCHANGED watermark
  BY <1>1, <1>2 DEF Feed!feedVars
<1>3. CASE a.first = watermark + 1 /\ watermark' = a.last
  <2>1. acked <= watermark
    BY <1>0 DEF SpoolInv, AckedIsEnqueued
  <2>2. a = pending /\ pending # None
    <3>1. ~(a.last <= acked)
      BY <1>0, <1>3, <2>1
    <3>. QED BY <1>0, <3>1 DEF SpoolInv, None, Archive
  <2>3. watermark' \in watermark + 1 .. written
    <3>1. a.last <= written
      BY <1>0, <2>2 DEF SpoolInv
    <3>. QED BY <1>0, <1>3, <3>1
  <2>4. Feed!Accept
    BY <1>1, <2>3 DEF Feed!Accept
  <2>. QED BY <2>4 DEF Feed!FeedNext
<1>. QED BY <1>2, <1>3 DEF Commit

LEMMA MarkIsOffered ==
    ASSUME PublicationInv, NEW r \in Ingests, MarkEnqueued(r)
    PROVE  Feed!FeedNext
<1>. USE DEF agentSide, queueSide, streamSide
<1>. DEFINE a == ingest[r].archive
<1>1. a \in Archive /\ a \in receipts /\ a.last <= watermark /\ watermark \in Nat
  BY DEF PublicationInv, PublicationTypeOK, SpoolInv, MessageInv, LiveDataIsDurable, MarkEnqueued,
         PastCommit
<1>2. /\ enqueued' = enqueued \cup {a}
      /\ UNCHANGED <<written, watermark, acked, stream, broadcasts>>
  BY DEF MarkEnqueued
<1>3. a.first \in 1 .. watermark /\ a.last \in 1 .. watermark
  BY <1>1 DEF Archive
<1>4. UNION {Span(b) : b \in enqueued'} = (UNION {Span(b) : b \in enqueued}) \cup Span(a)
  <2>. HIDE DEF a
  <2>1. \A x : x \in UNION {Span(b) : b \in enqueued'} <=> \E b \in enqueued' : x \in Span(b)
    OBVIOUS
  <2>2. \A x : x \in UNION {Span(b) : b \in enqueued} <=> \E b \in enqueued : x \in Span(b)
    OBVIOUS
  <2>. QED BY <1>2, <2>1, <2>2
<1>5. Feed!Offer
  <2>. HIDE DEF a
  <2>1. Span(a) = a.first .. a.last
    BY DEF Span
  <2>2. (UNION {Span(b) : b \in enqueued})'
          = (UNION {Span(b) : b \in enqueued}) \cup (a.first .. a.last)
    BY <1>4, <2>1
  <2>. QED BY <1>2, <1>3, <2>2 DEF Feed!Offer
<1>. QED BY <1>5 DEF Feed!FeedNext

LEMMA AcknowledgeIsLetGo ==
    ASSUME PublicationInv, NEW r \in Ingests, Acknowledge(r)
    PROVE  Feed!FeedNext \/ UNCHANGED Feed!feedVars
<1>. USE DEF database, queueSide, streamSide
<1>0. /\ SpoolInv /\ LiveDataIsDurable /\ PublicationTypeOK
      /\ UNCHANGED <<written, watermark, enqueued, stream, broadcasts>>
  BY DEF PublicationInv, MessageInv, Acknowledge
<1>1. CASE awaited # r
  <2>1. UNCHANGED acked
    BY <1>1 DEF Acknowledge
  <2>. QED BY <1>0, <2>1 DEF Feed!feedVars
<1>2. CASE awaited = r
  <2>1. /\ acked' = pending.last /\ pending # None /\ pending.first = acked + 1
        /\ pending \in enqueued /\ pending \in receipts
    BY <1>0, <1>2, PublicationAssumption DEF Acknowledge, SpoolInv, PastCommit
  <2>2. pending \in Archive /\ acked \in Nat /\ watermark \in Nat /\ pending.last <= watermark
    BY <1>0, <2>1 DEF PublicationTypeOK, LiveDataIsDurable
  <2>3. acked' \in acked + 1 .. watermark
    BY <2>1, <2>2 DEF Archive
  <2>4. ASSUME NEW k \in 1 .. acked' PROVE k \in UNION {Span(b) : b \in enqueued}
    <3>1. k \in 1 .. watermark
      BY <2>2, <2>3, <2>4
    <3>2. PICK b \in receipts : k \in Span(b)
      BY <1>0, <3>1 DEF LiveDataIsDurable
    <3>3. b \in enqueued
      BY <1>0, <2>1 DEF SpoolInv, AckedIsEnqueued
    <3>. QED BY <3>2, <3>3
  <2>5. Feed!LetGo
    BY <1>0, <2>3, <2>4 DEF Feed!LetGo
  <2>. QED BY <2>5 DEF Feed!FeedNext
<1>. QED BY <1>1, <1>2

LEMMA PublishFollows ==
    ASSUME PublicationInv, NEW m \in queue, Publish(m)
    PROVE  Feed!FeedNext \/ UNCHANGED Feed!feedVars
<1>. USE DEF agentSide, database
<1>. DEFINE a == m.archive
<1>0. /\ a \in Archive /\ a.last <= watermark /\ watermark \in Nat /\ stream.last \in Nat
      /\ UNCHANGED <<written, watermark, enqueued, acked, broadcasts>>
  BY DEF PublicationInv, PublicationTypeOK, MessageInv, LiveDataIsDurable, Message, Publish
<1>1. CASE UNCHANGED stream
  BY <1>0, <1>1 DEF Feed!feedVars
<1>2. CASE /\ Follows(a)
           /\ stream' = [last |-> a.last, events |-> Trim(stream.events \cup Span(a)),
                         archives |-> TrimArchives(stream.archives \cup {a})]
  <2>1. stream'.last \in stream.last + 1 .. watermark
    <3>1. stream'.last = a.last /\ a.first \in Nat \ {0} /\ a.last \in Nat /\ a.first <= a.last
      BY <1>0, <1>2 DEF Archive
    <3>2. stream.last + 1 <= a.first
      BY <1>0, <1>2, <3>1 DEF Follows
    <3>. HIDE DEF a
    <3>. QED BY <1>0, <3>1, <3>2
  <2>2. Feed!Follow
    BY <1>0, <2>1 DEF Feed!Follow
  <2>. QED BY <2>2 DEF Feed!FeedNext
<1>. QED BY <1>1, <1>2 DEF Publish

LEMMA BroadcastShows ==
    ASSUME PublicationInv, NEW a \in unsent, Broadcast(a)
    PROVE  Feed!FeedNext
<1>. USE DEF agentSide, database
<1>1. /\ a \in Archive /\ a.last <= stream.last /\ stream.last \in Nat
      /\ \A k \in broadcasts : k < a.first
  BY DEF PublicationInv, PublicationTypeOK, StreamInv
<1>2. /\ UNCHANGED <<written, watermark, enqueued, acked, stream>>
      /\ broadcasts' = broadcasts \cup (a.first .. a.last)
  BY DEF Broadcast, Span
<1>3. a.first \in 1 .. stream.last /\ a.last \in 1 .. stream.last
  BY <1>1 DEF Archive
<1>4. Feed!Show
  BY <1>1, <1>2, <1>3 DEF Feed!Show
<1>. QED BY <1>4 DEF Feed!FeedNext

\* Every step of the publication is a step of the feed or leaves it alone.
LEMMA StepsImplementFeed ==
    ASSUME PublicationInv, [PublicationNext]_publicationVars
    PROVE  [Feed!FeedNext]_Feed!feedVars
<1>. USE DEF agentSide, database, queueSide, streamSide
<1>1. ASSUME UNCHANGED <<written, watermark, enqueued, acked, broadcasts>>, stream'.last = stream.last
      PROVE  UNCHANGED Feed!feedVars
  BY <1>1 DEF Feed!feedVars
<1>2. CASE AppendEntry
  <2>1. Feed!Write
    BY <1>2 DEF AppendEntry, Feed!Write
  <2>. QED BY <2>1 DEF Feed!FeedNext
<1>3. CASE GiveUp \/ StreamRestarts \/ Age \/ \E m \in queue : Ack(m) \/ ConsumerFails(m)
  BY <1>1, <1>3 DEF GiveUp, StreamRestarts, Age, Ack, ConsumerFails
<1>4. ASSUME NEW r \in Ingests,
             \/ PublishOnce(r) \/ FindReceipt(r) \/ ReadPublication(r) \/ Send(r) \/ IngestFails(r)
      PROVE  UNCHANGED Feed!feedVars
  BY <1>1, <1>4 DEF PublishOnce, FindReceipt, ReadPublication, Send, IngestFails
<1>5. ASSUME NEW v \in Viewers, NEW after, Connect(v, after) PROVE UNCHANGED Feed!feedVars
  <2>1. stream'.last = stream.last
    BY <1>5 DEF Connect, PublicationInv, PublicationTypeOK
  <2>. QED BY <1>1, <1>5, <2>1 DEF Connect
<1>6. CASE UNCHANGED publicationVars
  BY <1>1, <1>6 DEF publicationVars
<1>. QED
  BY <1>2, <1>3, <1>4, <1>5, <1>6, CommitIsAccepted, MarkIsOffered, AcknowledgeIsLetGo,
     PublishFollows, BroadcastShows
  DEF PublicationNext

\* Log publication implements the feed: whatever is repeated, late, refused,
\* forgotten or restarted, entries are accepted in order and without a gap, the
\* spool keeps what is not accepted and offered, and the live stream shows only
\* accepted entries, each at most once and upwards.
THEOREM PublicationRefinesFeed == PublicationSpec => ImplementsFeed
<1>1. PublicationInit => Feed!FeedInit
  BY DEF PublicationInit, Feed!FeedInit
<1>. QED
  BY <1>1, StepsImplementFeed, PublicationInvHolds, PTL
  DEF PublicationSpec, ImplementsFeed, Feed!FeedSpec

\* Nothing is broadcast twice or out of order.
THEOREM BroadcastsAlwaysAscend == PublicationSpec => BroadcastsAscend
<1>1. ASSUME PublicationInv, [PublicationNext]_publicationVars
      PROVE  [\A a \in unsent : a \notin unsent' =>
                \A k \in Span(a) \cap broadcasts' :
                  k > 0 /\ \A j \in broadcasts : j < k]_publicationVars
  <2>. USE DEF agentSide, database, queueSide, streamSide
  <2>. SUFFICES ASSUME PublicationNext, NEW a \in unsent, a \notin unsent',
                       NEW k \in Span(a) \cap broadcasts'
                PROVE  k > 0 /\ \A j \in broadcasts : j < k
    BY <1>1
  <2>1. /\ a.first \in Nat \ {0} /\ a.last \in Nat /\ broadcasts \subseteq Nat
        /\ \A j \in broadcasts : j < a.first
    BY <1>1 DEF PublicationInv, PublicationTypeOK, StreamInv, Archive
  <2>2. k \in Nat /\ k >= a.first
    BY <2>1 DEF Span
  <2>. QED BY <2>1, <2>2
<1>. QED BY <1>1, PublicationInvHolds, PTL DEF PublicationSpec, BroadcastsAscend

-----------------------------------------------------------------------------
(* What viewers were shown                                                 *)

\* What waits for its broadcast reaches to the end of the stream.
UnsentReachesEnd ==
    \A a \in unsent : \A k \in a.first .. stream.last : \E b \in unsent : k \in Span(b)

\* A connected viewer was shown everything up to the end of the stream, or
\* will be by the broadcasts to come.
ViewersInv ==
    /\ UnsentReachesEnd
    /\ \A v \in Viewers :
         /\ viewer[v].start <= stream.last
         /\ viewer[v].start = 0 => viewer[v].cursor = 0
         /\ viewer[v].on /\ viewer[v].start > 0 =>
              \A k \in viewer[v].start .. stream.last :
                k \in viewer[v].seen \/ \E a \in unsent : k \in Span(a)
    /\ NoSilentLoss
\* Keeping the oldest keeps what is older (loadBacklog).
LEMMA OldestIsDownwardClosed ==
    ASSUME NEW S, IsFiniteSet(S), S \subseteq Nat, NEW n \in Nat
    PROVE  /\ Oldest(S, n) \subseteq S
           /\ \A k \in Oldest(S, n), j \in S : j <= k => j \in Oldest(S, n)
<1>1. Oldest(S, n) \subseteq S
  BY DEF Oldest
<1>2. ASSUME NEW k \in Oldest(S, n), NEW j \in S, j <= k PROVE j \in Oldest(S, n)
  <2>. DEFINE BelowK == {x \in S : x < k}
              BelowJ == {x \in S : x < j}
  <2>1. BelowK \in SUBSET S /\ BelowJ \in SUBSET BelowK
    <3>1. k \in Nat /\ j \in Nat /\ j <= k
      BY <1>1, <1>2
    <3>2. \A x \in S : x < j => x < k
      BY <3>1
    <3>. QED BY <3>2
  <2>2. IsFiniteSet(BelowK)
    <3>. HIDE DEF BelowK, BelowJ
    <3>. QED BY <2>1, FS_Subset
  <2>3. /\ Cardinality(BelowJ) <= Cardinality(BelowK)
        /\ Cardinality(BelowJ) \in Nat /\ Cardinality(BelowK) \in Nat
    <3>. HIDE DEF BelowK, BelowJ
    <3>. QED BY <2>1, <2>2, FS_Subset, FS_CardinalityType
  <2>4. Cardinality(BelowK) < n
    BY DEF Oldest
  <2>5. Cardinality(BelowJ) < n
    <3>. HIDE DEF BelowK, BelowJ
    <3>. QED BY <2>3, <2>4
  <2>. QED BY <2>5 DEF Oldest
<1>. QED BY <1>1, <1>2

\* A set that is small enough is kept as a whole.
LEMMA SmallSetsAreKept ==
    ASSUME NEW S, IsFiniteSet(S), S \subseteq Nat, NEW n \in Nat, Cardinality(S) <= n
    PROVE  Newest(S, n) = S
<1>1. ASSUME NEW k \in S PROVE k \in Newest(S, n)
  <2>. DEFINE Above == {x \in S : x > k}
  <2>1. Above \in SUBSET (S \ {k}) /\ Above \in SUBSET S
    BY <1>1
  <2>2. /\ Cardinality(S \ {k}) = Cardinality(S) - 1
        /\ IsFiniteSet(S \ {k})
        /\ Cardinality(S) \in Nat
    BY <1>1, FS_RemoveElement, FS_CardinalityType
  <2>3. Cardinality(Above) <= Cardinality(S \ {k}) /\ Cardinality(Above) \in Nat
    <3>. HIDE DEF Above
    <3>. QED BY <2>1, <2>2, FS_Subset, FS_CardinalityType
  <2>4. Cardinality(Above) < n
    <3>. HIDE DEF Above
    <3>. QED BY <2>2, <2>3
  <2>. QED BY <2>4 DEF Newest
<1>. QED BY <1>1 DEF Newest

\* Fewer rows than were asked for are all rows: the query left out none.
LEMMA ShortPagesAreComplete ==
    ASSUME NEW S, IsFiniteSet(S), S \subseteq Nat, NEW n \in Nat,
           Cardinality(Oldest(S, n)) < n
    PROVE  Oldest(S, n) = S
<1>. DEFINE Page == Oldest(S, n)
            Left == S \ Page
<1>1. Page \subseteq S /\ IsFiniteSet(Page) /\ Cardinality(Page) \in Nat
  <2>1. Page \in SUBSET S
    BY DEF Oldest
  <2>. HIDE DEF Page
  <2>. QED BY <2>1, FS_Subset, FS_CardinalityType
<1>2. SUFFICES ASSUME Left # {} PROVE FALSE
  BY <1>1
<1>3. Min(Left) \in Left /\ \A k \in Left : Min(Left) <= k
  BY <1>2, LeastNumber
<1>. DEFINE x == Min(Left)
            Below == {j \in S : j < x}
<1>4. Below \in SUBSET Page
  <2>1. ASSUME NEW j \in Below PROVE j \in Page
    <3>1. j \in S /\ j < x /\ j \in Nat /\ x \in Nat
      BY <1>3
    <3>2. j \notin Left
      <4>. HIDE DEF Left
      <4>. QED BY <1>3, <3>1
    <3>. QED BY <3>1, <3>2
  <2>. QED BY <2>1
<1>5. Cardinality(Below) <= Cardinality(Page) /\ Cardinality(Below) \in Nat
  <2>. HIDE DEF Below, Page
  <2>. QED BY <1>1, <1>4, FS_Subset, FS_CardinalityType
<1>6. ~(Cardinality(Below) < n)
  <2>1. x \in S /\ x \notin Oldest(S, n)
    BY <1>3
  <2>. QED BY <2>1 DEF Oldest
<1>7. Cardinality(Page) < n
  OBVIOUS
<1>. HIDE DEF Page, Below
<1>. QED BY <1>1, <1>5, <1>6, <1>7

\* The events a connection reads: what is left after a trim, without holes.
LEMMA TrimmedStream ==
    ASSUME PublicationInv
    PROVE  /\ Trim(stream.events) \in SUBSET (1 .. stream.last)
           /\ Trim(stream.events) \subseteq Nat
           /\ IsFiniteSet(Trim(stream.events))
           /\ \A k \in Trim(stream.events) : k .. stream.last \subseteq Trim(stream.events)
           /\ stream.last \in Nat
<1>1. /\ stream.events \subseteq 1 .. stream.last
      /\ \A k \in stream.events : k .. stream.last \subseteq stream.events
      /\ stream.last \in Nat /\ aged \in Nat
  BY DEF PublicationInv, PublicationTypeOK, StreamInv, EventsContiguous
<1>2. /\ Trim(stream.events) \subseteq stream.events
      /\ \A k \in Trim(stream.events) : k .. stream.last \subseteq Trim(stream.events)
  BY <1>1, TrimKeepsContiguity
<1>3. Trim(stream.events) \in SUBSET (1 .. stream.last)
  BY <1>1, <1>2
<1>4. IsFiniteSet(1 .. stream.last) /\ 1 .. stream.last \subseteq Nat
  BY <1>1, FS_Interval
<1>. QED BY <1>1, <1>2, <1>3, <1>4, FS_Subset

\* A viewer without a cursor is shown the end of the stream.
LEMMA FirstBacklog ==
    ASSUME PublicationInv
    PROVE  LET items == Newest(Rows(0), Backlog)
           IN  /\ items \subseteq 1 .. stream.last
               /\ \A k \in items : k .. stream.last \subseteq items
<1>. DEFINE T == Trim(stream.events)
            R == Newest(T, Backlog + 1)
            items == Newest(R, Backlog)
<1>1. /\ T \in SUBSET (1 .. stream.last) /\ T \subseteq Nat /\ IsFiniteSet(T)
      /\ \A k \in T : k .. stream.last \subseteq T
      /\ stream.last \in Nat /\ Backlog \in Nat /\ Backlog + 1 \in Nat
  BY TrimmedStream, PublicationAssumption
<1>2. Rows(0) = R
  BY DEF Rows
<1>. HIDE DEF T
<1>3. R \subseteq T /\ \A k \in R, j \in T : k <= j => j \in R
  BY <1>1, NewestIsUpwardClosed
<1>4. R \in SUBSET T /\ R \subseteq Nat /\ IsFiniteSet(R)
  BY <1>1, <1>3, FS_Subset
<1>. HIDE DEF R
<1>5. items \subseteq R /\ \A k \in items, j \in R : k <= j => j \in items
  BY <1>1, <1>4, NewestIsUpwardClosed
<1>6. ASSUME NEW k \in items, NEW j \in k .. stream.last PROVE j \in items
  <2>1. k \in R /\ k \in T /\ k \in Nat
    BY <1>3, <1>4, <1>5
  <2>2. j \in T /\ k <= j
    BY <1>1, <2>1
  <2>. QED BY <1>3, <1>5, <2>1, <2>2
<1>. QED BY <1>1, <1>2, <1>3, <1>5, <1>6

\* A viewer that comes back is shown every entry after its cursor, or told of
\* it: by the gap before the backlog, or by the truncation of the backlog.
LEMMA NextBacklog ==
    ASSUME PublicationInv, NEW after \in Nat \ {0}
    PROVE  LET items == Newest(Rows(after), Backlog)
           IN  /\ items \subseteq 1 .. stream.last
               /\ \A k \in items : k > after
               /\ \A k \in after + 1 .. stream.last :
                    k \in items \cup ReplayGap(after) \cup Truncated(after)
<1>. DEFINE T == Trim(stream.events)
            S == {k \in T : k > after}
            R == Oldest(S, Backlog + 1)
            items == Newest(R, Backlog)
<1>1. /\ T \in SUBSET (1 .. stream.last) /\ T \subseteq Nat /\ IsFiniteSet(T)
      /\ \A k \in T : k .. stream.last \subseteq T
      /\ stream.last \in Nat /\ Backlog \in Nat /\ Backlog + 1 \in Nat
  BY TrimmedStream, PublicationAssumption
<1>2. Rows(after) = R
  BY DEF Rows
<1>3. S \in SUBSET T /\ S \subseteq Nat /\ \A k \in S : k > after
  BY <1>1
<1>4. IsFiniteSet(S)
  <2>. HIDE DEF S, T
  <2>. QED BY <1>1, <1>3, FS_Subset
<1>5. R \subseteq S /\ R \in SUBSET S
  BY DEF Oldest
<1>6. IsFiniteSet(R) /\ R \subseteq Nat /\ Cardinality(R) \in Nat
  <2>. HIDE DEF S, R
  <2>. QED BY <1>3, <1>4, <1>5, FS_Subset, FS_CardinalityType
<1>7. items \subseteq R
  BY DEF Newest
<1>8. CASE R = {}
  <2>1. ReplayGap(after) = after + 1 .. stream.last
    BY <1>2, <1>8 DEF ReplayGap
  <2>. QED BY <1>2, <1>7, <1>8, <2>1
<1>9. CASE R # {} /\ Cardinality(R) > Backlog
  <2>1. Truncated(after) = after + 1 .. stream.last
    BY <1>2, <1>9 DEF Truncated
  <2>2. items \subseteq 1 .. stream.last /\ \A k \in items : k > after
    BY <1>1, <1>3, <1>5, <1>7
  <2>. QED BY <1>2, <2>1, <2>2
<1>10. CASE R # {} /\ ~(Cardinality(R) > Backlog)
  <2>1. Cardinality(R) <= Backlog /\ Cardinality(R) < Backlog + 1
    BY <1>1, <1>6, <1>10
  <2>2. items = R
    <3>. HIDE DEF R
    <3>. QED BY <1>1, <1>6, <2>1, SmallSetsAreKept
  <2>3. R = S
    <3>. HIDE DEF S
    <3>. QED BY <1>1, <1>3, <1>4, <2>1, ShortPagesAreComplete
  <2>4. Min(R) \in R
    <3>. HIDE DEF R
    <3>. QED BY <1>6, <1>10, LeastNumber
  <2>5. ReplayGap(after) = after + 1 .. Min(R) - 1
    BY <1>2, <1>10 DEF ReplayGap
  <2>6. ASSUME NEW k \in after + 1 .. stream.last PROVE k \in items \cup ReplayGap(after)
    <3>1. Min(R) \in T /\ Min(R) \in Nat
      BY <1>1, <1>5, <2>4
    <3>2. CASE k < Min(R)
      BY <2>5, <3>1, <3>2
    <3>3. CASE ~(k < Min(R))
      <4>1. k \in Min(R) .. stream.last
        <5>. HIDE DEF R, T
        <5>. QED BY <1>1, <3>1, <3>3
      <4>2. k \in T /\ k > after
        BY <1>1, <3>1, <4>1
      <4>. QED BY <2>2, <2>3, <4>2
    <3>. QED BY <3>2, <3>3
  <2>7. items \subseteq 1 .. stream.last /\ \A k \in items : k > after
    BY <1>1, <1>3, <1>5, <1>7
  <2>. QED BY <1>2, <2>6, <2>7
<1>. QED BY <1>8, <1>9, <1>10
\* A connection leaves no silent loss: what a viewer is shown follows what it
\* had, but for what it is told of.
LEMMA ConnectingKeepsViewers ==
    ASSUME PublicationInv, ViewersInv, NEW v \in Viewers, NEW after \in {0, viewer[v].cursor},
           Connect(v, after)
    PROVE  ViewersInv'
<1>. DEFINE items == Newest(Rows(after), Backlog)
            old == IF after = 0 THEN {} ELSE viewer[v].seen
            shown(n) == {k \in items : k <= n}
<1>0. /\ viewer \in [Viewers -> Viewer]
      /\ stream \in [last: Nat, events: SUBSET Nat, archives: SUBSET Archive]
      /\ viewer[v].cursor \in Nat /\ viewer[v].start \in Nat /\ after \in Nat
      /\ stream.last \in Nat
  BY DEF PublicationInv, PublicationTypeOK, Viewer
<1>1. PICK n \in items \cup {after} :
        viewer' = [viewer EXCEPT ![v] =
          [on |-> shown(n) = items,
           cursor |-> n,
           start |-> IF after = 0 /\ shown(n) # {} THEN Min(shown(n))
                     ELSE IF after = 0 THEN 0 ELSE viewer[v].start,
           seen |-> old \cup shown(n) \cup ReplayGap(after) \cup Truncated(after)]]
  BY DEF Connect
<1>2. stream'.last = stream.last /\ unsent' = unsent
  BY <1>0 DEF Connect
<1>3. \A w \in Viewers : w # v => viewer'[w] = viewer[w]
  BY <1>0, <1>1
<1>. DEFINE now == viewer'[v]
<1>4. /\ now.on = (shown(n) = items)
      /\ now.cursor = n
      /\ now.start = IF after = 0 /\ shown(n) # {} THEN Min(shown(n))
                     ELSE IF after = 0 THEN 0 ELSE viewer[v].start
      /\ now.seen = old \cup shown(n) \cup ReplayGap(after) \cup Truncated(after)
  BY <1>0, <1>1
<1>5. SUFFICES /\ now.start <= stream.last
               /\ now.start = 0 => now.cursor = 0
               /\ now.on /\ now.start > 0 => \A k \in now.start .. stream.last : k \in now.seen
               /\ now.start > 0 => now.start .. now.cursor \subseteq now.seen
  BY <1>2, <1>3 DEF ViewersInv, UnsentReachesEnd, NoSilentLoss
<1>. HIDE DEF now
<1>6. CASE after = 0
  <2>1. items \subseteq 1 .. stream.last /\ \A k \in items : k .. stream.last \subseteq items
    BY <1>6, FirstBacklog
  <2>2. CASE n \notin items
    <3>1. n = 0 /\ shown(n) = {}
      BY <1>0, <1>6, <2>1, <2>2
    <3>2. now.start = 0 /\ now.cursor = 0
      BY <1>4, <1>6, <3>1
    <3>. QED BY <1>0, <3>2
  <2>3. CASE n \in items
    <3>1. /\ n \in shown(n) /\ shown(n) \subseteq items /\ shown(n) \subseteq Nat
          /\ n \in Nat
      BY <1>0, <2>1, <2>3
    <3>2. /\ Min(shown(n)) \in shown(n)
          /\ \A k \in shown(n) : Min(shown(n)) <= k
      <4>. HIDE DEF shown
      <4>. QED BY <3>1, LeastNumber
    <3>3. now.start = Min(shown(n))
      BY <1>4, <1>6, <3>1
    <3>4. /\ now.start \in items /\ now.start <= n
          /\ now.start \in 1 .. stream.last
      BY <2>1, <3>1, <3>2, <3>3
    <3>5. \A k \in now.start .. stream.last : k \in items
      BY <2>1, <3>4
    <3>6. \A k \in now.start .. n : k \in shown(n)
      <4>1. n <= stream.last
        BY <1>0, <2>1, <2>3
      <4>. QED BY <1>0, <3>1, <3>4, <3>5, <4>1
    <3>7. now.on => shown(n) = items
      BY <1>4
    <3>8. shown(n) \subseteq now.seen /\ now.cursor = n
      BY <1>4
    <3>9. now.on => \A k \in now.start .. stream.last : k \in now.seen
      BY <3>5, <3>7, <3>8
    <3>10. now.start .. now.cursor \subseteq now.seen
      BY <3>6, <3>8
    <3>11. now.start <= stream.last /\ now.start # 0
      <4>. HIDE DEF items, shown
      <4>. QED BY <1>0, <3>4
    <3>. HIDE DEF items, shown
    <3>. QED BY <3>9, <3>10, <3>11
  <2>. QED BY <2>2, <2>3
<1>7. CASE after # 0
  <2>1. after = viewer[v].cursor /\ after \in Nat \ {0}
    BY <1>0, <1>7
  <2>2. /\ items \subseteq 1 .. stream.last
        /\ \A k \in items : k > after
        /\ \A k \in after + 1 .. stream.last :
             k \in items \cup ReplayGap(after) \cup Truncated(after)
    BY <2>1, NextBacklog
  <2>3. /\ now.start = viewer[v].start /\ viewer[v].start # 0
        /\ viewer[v].start <= stream.last
        /\ viewer[v].start .. after \subseteq viewer[v].seen
    BY <1>0, <1>4, <1>7, <2>1 DEF ViewersInv, NoSilentLoss
  <2>4. viewer[v].seen \subseteq now.seen /\ shown(n) \subseteq now.seen
        /\ ReplayGap(after) \subseteq now.seen /\ Truncated(after) \subseteq now.seen
    BY <1>4, <1>7
  <2>5. ASSUME NEW k \in now.start .. now.cursor PROVE k \in now.seen
    <3>1. CASE k <= after
      BY <1>0, <2>1, <2>3, <2>4, <3>1
    <3>2. CASE ~(k <= after)
      <4>1. n \in items
        BY <1>0, <1>4, <2>1, <2>3, <3>2
      <4>2. n \in Nat /\ n <= stream.last
        BY <1>0, <2>2, <4>1
      <4>3. k \in after + 1 .. stream.last /\ k <= n
        BY <1>0, <1>4, <2>1, <2>3, <3>2, <4>2
      <4>. QED BY <2>2, <2>4, <4>3
    <3>. QED BY <3>1, <3>2
  <2>6. ASSUME now.on, NEW k \in now.start .. stream.last PROVE k \in now.seen
    <3>1. CASE k <= after
      BY <1>0, <2>1, <2>3, <2>4, <3>1
    <3>2. CASE ~(k <= after)
      <4>1. k \in after + 1 .. stream.last
        BY <1>0, <2>1, <2>3, <3>2
      <4>. QED BY <1>4, <2>2, <2>4, <2>6, <4>1
    <3>. QED BY <3>1, <3>2
  <2>. QED BY <1>0, <2>3, <2>5, <2>6
<1>. QED BY <1>6, <1>7

\* A broadcast takes the oldest archive, so that a viewer that takes all of it
\* is shown what follows, and one that is closed on the way misses only what
\* comes after its cursor.
LEMMA BroadcastingKeepsViewers ==
    ASSUME PublicationInv, ViewersInv, NEW a \in unsent, Broadcast(a)
    PROVE  ViewersInv'
<1>0. /\ viewer \in [Viewers -> Viewer]
      /\ a \in Archive /\ unsent \subseteq Archive /\ stream.last \in Nat
      /\ a.first \in Nat \ {0} /\ a.last \in Nat /\ a.first <= a.last /\ a.last <= stream.last
      /\ \A b \in unsent : b.first \in Nat /\ b.last \in Nat /\ a.first <= b.first
      /\ \A b \in unsent : b.first <= b.last
      /\ \A b \in unsent : a = b \/ a.last < b.first \/ b.last < a.first
  BY DEF PublicationInv, PublicationTypeOK, StreamInv, Archive, Broadcast
<1>1. /\ unsent' = unsent \ {a} /\ stream' = stream
      /\ \A b \in unsent' : a.last < b.first
  BY <1>0 DEF Broadcast
<1>2. UnsentReachesEnd'
  BY <1>0, <1>1 DEF ViewersInv, UnsentReachesEnd, Span
<1>3. PICK upto \in [Viewers -> (a.first - 1) .. a.last] :
        viewer' = [v \in Viewers |-> See(v, a, upto[v])]
  BY DEF Broadcast
<1>4. SUFFICES ASSUME NEW v \in Viewers
               PROVE  /\ viewer'[v].start <= stream.last
                      /\ viewer'[v].start = 0 => viewer'[v].cursor = 0
                      /\ viewer'[v].on /\ viewer'[v].start > 0 =>
                           \A k \in viewer'[v].start .. stream.last :
                             k \in viewer'[v].seen \/ \E b \in unsent' : k \in Span(b)
                      /\ viewer'[v].start > 0
                           => viewer'[v].start .. viewer'[v].cursor \subseteq viewer'[v].seen
  BY <1>1, <1>2 DEF ViewersInv, NoSilentLoss
<1>5. /\ viewer[v].start \in Nat /\ viewer[v].cursor \in Nat
      /\ viewer[v].start <= stream.last
      /\ viewer[v].start = 0 => viewer[v].cursor = 0
      /\ viewer[v].on /\ viewer[v].start > 0 =>
           \A k \in viewer[v].start .. stream.last :
             k \in viewer[v].seen \/ \E b \in unsent : k \in Span(b)
      /\ viewer[v].start > 0 => viewer[v].start .. viewer[v].cursor \subseteq viewer[v].seen
  BY <1>0 DEF ViewersInv, NoSilentLoss, Viewer
<1>6. CASE ~viewer[v].on
  <2>1. viewer'[v] = viewer[v]
    BY <1>3, <1>6 DEF See
  <2>. QED BY <1>5, <1>6, <2>1
<1>7. CASE viewer[v].on
  <2>. DEFINE u == upto[v]
              was == viewer[v]
              now == viewer'[v]
  <2>1. u \in (a.first - 1) .. a.last /\ u \in Nat
    BY <1>0, <1>3
  <2>2. /\ now.on = (u = a.last)
        /\ now.cursor = IF u >= a.first /\ u > was.cursor THEN u ELSE was.cursor
        /\ now.start = IF was.start = 0 /\ u >= a.first THEN a.first ELSE was.start
        /\ now.seen = was.seen \cup (a.first .. u)
    BY <1>3, <1>7 DEF See
  <2>. HIDE DEF now, was, u
  <2>3. CASE was.start = 0
    <3>1. was.cursor = 0
      BY <1>5, <2>3 DEF was
    <3>2. CASE u >= a.first
      <4>1. now.start = a.first /\ now.cursor = u
        BY <1>0, <2>1, <2>2, <2>3, <3>1, <3>2
      <4>2. ASSUME now.on, NEW k \in a.first .. stream.last
            PROVE  k \in now.seen \/ \E b \in unsent' : k \in Span(b)
        <5>1. CASE k <= a.last
          <6>1. u = a.last
            BY <2>2, <4>2
          <6>2. k \in a.first .. u
            BY <1>0, <4>2, <5>1, <6>1
          <6>. QED BY <2>2, <6>2
        <5>2. CASE ~(k <= a.last)
          <6>1. PICK b \in unsent : k \in Span(b)
            BY <1>0, <4>2 DEF ViewersInv, UnsentReachesEnd
          <6>2. b # a
            BY <1>0, <5>2, <6>1 DEF Span
          <6>. QED BY <1>1, <6>1, <6>2
        <5>. QED BY <5>1, <5>2
      <4>. QED BY <1>0, <2>1, <2>2, <4>1, <4>2 DEF now
    <3>3. CASE ~(u >= a.first)
      <4>1. now.start = 0 /\ now.cursor = 0
        BY <2>2, <2>3, <3>1, <3>3
      <4>. QED BY <1>0, <4>1 DEF now
    <3>. QED BY <3>2, <3>3
  <2>4. CASE was.start # 0
    <3>1. /\ was.start \in Nat /\ was.cursor \in Nat /\ was.start > 0
          /\ was.start <= stream.last
          /\ now.start = was.start
          /\ \A k \in was.start .. stream.last :
                k \in was.seen \/ \E b \in unsent : k \in Span(b)
          /\ was.start .. was.cursor \subseteq was.seen
      BY <1>5, <1>7, <2>2, <2>4 DEF was
    <3>2. ASSUME now.on, NEW k \in was.start .. stream.last
          PROVE  k \in now.seen \/ \E b \in unsent' : k \in Span(b)
      <4>1. a.first .. u = Span(a)
        BY <2>2, <3>2 DEF Span
      <4>. QED BY <1>1, <2>2, <3>1, <4>1
    <3>3. ASSUME NEW k \in was.start .. now.cursor PROVE k \in now.seen
      <4>1. CASE k <= was.cursor
        BY <2>2, <3>1, <4>1
      <4>2. CASE ~(k <= was.cursor)
        <5>1. now.cursor = u /\ u >= a.first /\ k <= u
          BY <2>1, <2>2, <3>1, <4>2
        <5>2. k \in was.start .. stream.last
          BY <1>0, <2>1, <3>1, <5>1
        <5>3. CASE k \in was.seen
          BY <2>2, <5>3
        <5>4. ASSUME NEW b \in unsent, k \in Span(b) PROVE k \in a.first .. u
          BY <1>0, <2>1, <5>1, <5>2, <5>4 DEF Span
        <5>. QED BY <2>2, <3>1, <5>2, <5>3, <5>4
      <4>. QED BY <4>1, <4>2
    <3>. QED BY <3>1, <3>2, <3>3 DEF now
  <2>. QED BY <2>3, <2>4
<1>. QED BY <1>6, <1>7

\* An archive that is published follows the stream, and waits for its broadcast.
LEMMA PublishingKeepsViewers ==
    ASSUME PublicationInv, ViewersInv, NEW m \in queue, Publish(m)
    PROVE  ViewersInv'
<1>. DEFINE a == m.archive
<1>0. /\ viewer \in [Viewers -> Viewer]
      /\ unsent \subseteq Archive /\ stream.last \in Nat
      /\ a \in Archive /\ a.first \in Nat \ {0} /\ a.last \in Nat /\ a.first <= a.last
      /\ \A b \in unsent : /\ b.first \in Nat \ {0} /\ b.last \in Nat /\ b.first <= b.last
                           /\ b.last <= stream.last
      /\ \A v \in Viewers : viewer[v].start \in Nat /\ viewer[v].cursor \in Nat
  BY DEF PublicationInv, PublicationTypeOK, StreamInv, Archive, Message, Viewer
<1>1. viewer' = viewer
  BY DEF Publish
<1>2. CASE UNCHANGED <<stream, unsent>>
  BY <1>1, <1>2 DEF ViewersInv, UnsentReachesEnd, NoSilentLoss
<1>3. CASE Follows(a) /\ stream'.last = a.last /\ unsent' = unsent \cup {a}
  <2>1. CASE stream.last = 0
    <3>1. unsent = {} /\ \A v \in Viewers : viewer[v].start = 0
      BY <1>0, <2>1 DEF ViewersInv
    <3>. QED BY <1>0, <1>1, <1>3, <3>1 DEF ViewersInv, UnsentReachesEnd, NoSilentLoss, Span
  <2>2. CASE stream.last # 0
    <3>1. a.first = stream.last + 1
      BY <1>3, <2>2 DEF Follows
    <3>2. \A k \in Nat : k <= a.last => k <= stream.last \/ k \in Span(a)
      BY <1>0, <3>1 DEF Span
    <3>3. UnsentReachesEnd'
      BY <1>0, <1>3, <3>2 DEF ViewersInv, UnsentReachesEnd, Span
    <3>4. \A v \in Viewers : viewer[v].start <= a.last
      BY <1>0, <3>1 DEF ViewersInv
    <3>5. ASSUME NEW v \in Viewers, viewer[v].on, viewer[v].start > 0,
                 NEW k \in viewer[v].start .. a.last
          PROVE  k \in viewer[v].seen \/ \E b \in unsent' : k \in Span(b)
      BY <1>0, <1>3, <3>2, <3>5 DEF ViewersInv
    <3>. QED BY <1>1, <1>3, <3>3, <3>4, <3>5 DEF ViewersInv, NoSilentLoss
  <2>. QED BY <2>1, <2>2
<1>. QED BY <1>2, <1>3 DEF Publish

\* No step loses an entry silently.
LEMMA StepKeepsViewers ==
    ASSUME PublicationInv, ViewersInv, [PublicationNext]_publicationVars PROVE ViewersInv'
<1>. USE DEF agentSide, database, queueSide, streamSide
<1>1. CASE UNCHANGED <<viewer, stream, unsent>>
  BY <1>1 DEF ViewersInv, UnsentReachesEnd, NoSilentLoss
<1>2. CASE StreamRestarts
  <2>1. viewer \in [Viewers -> Viewer]
    BY DEF PublicationInv, PublicationTypeOK
  <2>2. /\ unsent' = {} /\ stream' = stream
        /\ \A v \in Viewers : /\ viewer'[v].on = FALSE
                              /\ viewer'[v].start = viewer[v].start
                              /\ viewer'[v].cursor = viewer[v].cursor
                              /\ viewer'[v].seen = viewer[v].seen
    BY <1>2, <2>1 DEF StreamRestarts, Viewer
  <2>. QED BY <2>2 DEF ViewersInv, UnsentReachesEnd, NoSilentLoss
<1>3. CASE \E m \in queue : Publish(m)
  BY <1>3, PublishingKeepsViewers
<1>4. CASE \E a \in unsent : Broadcast(a)
  BY <1>4, BroadcastingKeepsViewers
<1>5. CASE \E v \in Viewers : Connect(v, 0) \/ Connect(v, viewer[v].cursor)
  BY <1>5, ConnectingKeepsViewers
<1>. QED
  BY <1>1, <1>2, <1>3, <1>4, <1>5
  DEF PublicationNext, publicationVars, AppendEntry, GiveUp, Age, PublishOnce, FindReceipt,
      Commit, ReadPublication, Send, MarkEnqueued, Acknowledge, IngestFails, Ack,
      ConsumerFails

\* Between the first entry it was shown and the latest, a viewer was shown
\* every entry or told that some are missing, for any number of viewers,
\* restarts and reconnections and for any retention and backlog.
THEOREM NothingIsLostSilently == PublicationSpec => []NoSilentLoss
<1>1. PublicationInit => ViewersInv
  BY DEF PublicationInit, ViewersInv, UnsentReachesEnd, NoSilentLoss
<1>2. ViewersInv => NoSilentLoss
  BY DEF ViewersInv
<1>. QED BY <1>1, <1>2, StepKeepsViewers, PublicationInvHolds, PTL DEF PublicationSpec
=============================================================================
