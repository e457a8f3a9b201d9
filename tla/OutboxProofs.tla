---------------------------- MODULE OutboxProofs ----------------------------
(***************************************************************************)
(* The guarantees of the outbox for every set of events and runs, every    *)
(* page size and every number of remembered broadcasts.  OutboxInv         *)
(* strengthens SettledRowsAreBacked with what a run knows before it marks  *)
(* a row, and with which rows runs hold and work on; it is inductive.      *)
(***************************************************************************)
EXTENDS Outbox, TLAPS

\* A run is about to mark a row delivered, or failed for good, only after the
\* publication took effect, or a person was asked to help, or the event was
\* found to break its contract.
TasksAreBacked ==
    \A w \in Workers, e \in Events :
      /\ task[w][e] = "sent" => e \in published
      /\ task[w][e] = "refused" => e \in remediated \cup Invalid

\* A run works on written events only, and on every row whose lease it holds.
HoldersWork ==
    \A w \in Workers, e \in Events :
      /\ row[e].holder = w => row[e].state = "publishing" /\ task[w][e] # "none"
      /\ task[w][e] # "none" => row[e].state # "absent"

OutboxInv ==
    /\ OutboxTypeOK
    /\ TasksAreBacked
    /\ SettledRowsAreBacked
    /\ BroadcastsSpaced

\* The initial state satisfies the inductive invariant.
LEMMA OutboxInitInv ==
    ASSUME OutboxInit PROVE OutboxInv
BY OutboxAssumption
   DEF OutboxInit, OutboxInv, OutboxTypeOK, TasksAreBacked, SettledRowsAreBacked,
       BroadcastsSpaced, Unwritten, Released, Row, RowStates,
       Settled

\* A row stays a row when one of its columns changes, and the others stay.
LEMMA RowUpdates ==
    ASSUME NEW r \in Row PROVE
    /\ \A s \in RowStates : [r EXCEPT !.state = s] \in Row
    /\ \A h \in Workers \cup {Nobody} : /\ [r EXCEPT !.holder = h] \in Row
                                       /\ [r EXCEPT !.holder = h].state = r.state
    /\ \A b \in BOOLEAN : /\ [r EXCEPT !.live = b] \in Row
                         /\ [r EXCEPT !.due = b] \in Row
                         /\ [r EXCEPT !.live = b].state = r.state
                         /\ [r EXCEPT !.live = b].holder = r.holder
                         /\ [r EXCEPT !.due = b].state = r.state
                         /\ [r EXCEPT !.due = b].holder = r.holder
    /\ \A s \in RowStates : [r EXCEPT !.state = s].state = s
BY DEF Row

\* A publication keeps equal broadcasts apart (OrganizationEventsDO.publish).
LEMMA TakeEffectKeepsSpacing ==
    ASSUME log \in Seq(Broadcasts), published \subseteq Events, BroadcastsSpaced,
           NEW e \in Events, TakeEffect(e)
    PROVE  /\ log' \in Seq(Broadcasts)
           /\ BroadcastsSpaced'
           /\ published' = published \cup {e}
           /\ UNCHANGED remediated
<1>1. published' = published \cup {e} /\ UNCHANGED remediated
  BY DEF TakeEffect
<1>2. CASE e \in Broadcasts /\ e \notin Remembered
  <2>1. log' = Append(log, e)
    BY <1>2 DEF TakeEffect
  <2>2. log' \in Seq(Broadcasts) /\ Len(log') = Len(log) + 1 /\ Len(log) \in Nat
    BY <1>2, <2>1
  <2>3. SUFFICES ASSUME NEW i \in DOMAIN log', NEW j \in DOMAIN log',
                        i < j, log'[i] = log'[j]
                 PROVE  j - i > Retained
    BY <1>1, <2>2 DEF BroadcastsSpaced
  <2>4. i \in DOMAIN log /\ log'[i] = log[i] /\ i \in Nat /\ j \in Nat
    BY <2>1, <2>2, <2>3
  <2>5. CASE j = Len(log')
    <3>0. log'[j] = e
      BY <2>1, <2>2, <2>5
    <3>1. log[i] = e
      BY <2>3, <2>4, <3>0
    <3>2. ~(i + Retained > Len(log))
      BY <1>2, <2>4, <3>1 DEF Remembered
    <3>. QED BY <2>2, <2>4, <2>5, <3>2, OutboxAssumption
  <2>6. CASE j # Len(log')
    <3>1. j \in DOMAIN log /\ log'[j] = log[j]
      BY <2>1, <2>2, <2>3, <2>6
    <3>. QED BY <2>3, <2>4, <3>1 DEF BroadcastsSpaced
  <2>. QED BY <2>5, <2>6
<1>3. CASE ~(e \in Broadcasts /\ e \notin Remembered)
  BY <1>1, <1>3 DEF TakeEffect, BroadcastsSpaced
<1>. QED BY <1>1, <1>2, <1>3

\* Every step preserves the inductive invariant.
LEMMA OutboxStepInv ==
    ASSUME OutboxInv, [OutboxNext]_outboxVars PROVE OutboxInv'
<1>. USE OutboxAssumption DEF OutboxInv
<1>1. ASSUME NEW e \in Events, AppendEvent(e) PROVE OutboxInv'
  <2>1. row' \in [Events -> Row] /\ order' \in Seq(Events)
    BY <1>1 DEF AppendEvent, OutboxTypeOK, Row, RowStates, Settled, Released
  <2>2. OutboxTypeOK'
    BY <1>1, <2>1 DEF AppendEvent, OutboxTypeOK, NoFault
  <2>3. TasksAreBacked' /\ BroadcastsSpaced'
    BY <1>1 DEF AppendEvent, TasksAreBacked, BroadcastsSpaced
  <2>4. SettledRowsAreBacked'
    BY <1>1 DEF AppendEvent, SettledRowsAreBacked, OutboxTypeOK, Released
  <2>. QED BY <2>2, <2>3, <2>4
<1>2. ASSUME NEW e \in Events, LeaseRunsOut(e) \/ BecomeDue(e) PROVE OutboxInv'
  <2>0. row[e] \in Row
    BY DEF OutboxTypeOK
  <2>1. row' \in [Events -> Row] /\ \A f \in Events : row'[f].state = row[f].state
    <3>1. CASE row' = [row EXCEPT ![e] = [row[e] EXCEPT !.live = FALSE]]
      BY <2>0, <3>1, RowUpdates DEF OutboxTypeOK
    <3>2. CASE row' = [row EXCEPT ![e] = [row[e] EXCEPT !.due = TRUE]]
      BY <2>0, <3>2, RowUpdates DEF OutboxTypeOK
    <3>. QED BY <1>2, <3>1, <3>2 DEF LeaseRunsOut, BecomeDue
  <2>2. faults' \in 0 .. MaxFaults
    BY <1>2 DEF LeaseRunsOut, BecomeDue, OutboxTypeOK, Fault, NoFault
  <2>3. OutboxTypeOK'
    BY <1>2, <2>1, <2>2 DEF LeaseRunsOut, BecomeDue, OutboxTypeOK
  <2>4. TasksAreBacked' /\ BroadcastsSpaced'
    BY <1>2 DEF LeaseRunsOut, BecomeDue, TasksAreBacked, BroadcastsSpaced
  <2>5. SettledRowsAreBacked'
    BY <1>2, <2>1 DEF LeaseRunsOut, BecomeDue, SettledRowsAreBacked
  <2>. QED BY <2>3, <2>4, <2>5
<1>3. ASSUME NEW w \in Workers, ClaimPending(w) PROVE OutboxInv'
  <2>1. row' \in [Events -> Row]
    <3>1. ASSUME NEW e \in Events
          PROVE  [row[e] EXCEPT !.state = "publishing", !.holder = w, !.live = TRUE] \in Row
      BY DEF OutboxTypeOK, Row, RowStates
    <3>. QED BY <1>3, <3>1 DEF ClaimPending, OutboxTypeOK
  <2>2. OutboxTypeOK'
    BY <1>3, <2>1 DEF ClaimPending, OutboxTypeOK, NoFault
  <2>3. TasksAreBacked' /\ BroadcastsSpaced'
    BY <1>3 DEF ClaimPending, TasksAreBacked, BroadcastsSpaced, OutboxTypeOK
  <2>4. SettledRowsAreBacked'
    <3>1. ASSUME NEW e \in Events
          PROVE  row'[e] = row[e] \/ row'[e].state = "publishing"
      <4>1. row[e] \in Row
        BY DEF OutboxTypeOK
      <4>2. [row[e] EXCEPT !.state = "publishing", !.holder = w, !.live = TRUE].state
            = "publishing"
        BY <4>1 DEF Row
      <4>3. CASE e \in Batch
        BY <1>3, <4>2, <4>3 DEF ClaimPending
      <4>4. CASE e \notin Batch
        BY <1>3, <4>4 DEF ClaimPending
      <4>. QED BY <4>3, <4>4
    <3>. QED BY <1>3, <3>1 DEF ClaimPending, SettledRowsAreBacked
  <2>. QED BY <2>2, <2>3, <2>4
<1>4. ASSUME NEW w \in Workers, Crash(w) PROVE OutboxInv'
  <2>1. row' \in [Events -> Row] /\ \A e \in Events : row'[e].state = row[e].state
    BY <1>4, RowUpdates DEF Crash, OutboxTypeOK
  <2>2. OutboxTypeOK'
    BY <1>4, <2>1 DEF Crash, OutboxTypeOK, Fault
  <2>3. TasksAreBacked' /\ BroadcastsSpaced'
    BY <1>4 DEF Crash, TasksAreBacked, BroadcastsSpaced, OutboxTypeOK
  <2>4. SettledRowsAreBacked'
    BY <1>4, <2>1 DEF Crash, SettledRowsAreBacked
  <2>. QED BY <2>2, <2>3, <2>4
<1>5. ASSUME NEW w \in Workers, NEW e \in Events,
             Publish(w, e) \/ PublishFails(w, e) \/ Refuse(w, e) \/ Reject(w, e)
      PROVE  OutboxInv'
  <2>1. /\ log' \in Seq(Broadcasts)
        /\ BroadcastsSpaced'
        /\ published \subseteq published' /\ published' \subseteq Events
        /\ remediated \subseteq remediated' /\ remediated' \subseteq Mails
        /\ \A f \in Invalid : f \notin published'
    <3>0. \A f \in Invalid : f \notin published
      BY OutboxAssumption DEF SettledRowsAreBacked
    <3>1. CASE TakeEffect(e) /\ e \notin Invalid
      BY <3>0, <3>1, TakeEffectKeepsSpacing DEF OutboxTypeOK
    <3>2. CASE Remediate(e)
      BY <3>0, <3>2 DEF Remediate, OutboxTypeOK, BroadcastsSpaced
    <3>3. CASE UNCHANGED <<published, remediated, log>>
      BY <3>0, <3>3 DEF OutboxTypeOK, BroadcastsSpaced
    <3>. QED BY <1>5, <3>1, <3>2, <3>3 DEF Publish, PublishFails, Refuse, Reject
  <2>2. PICK t \in {"sent", "broken", "refused"} :
          /\ task' = [task EXCEPT ![w][e] = t]
          /\ t = "sent" => e \in published'
          /\ t = "refused" => e \in remediated' \cup Invalid
          /\ UNCHANGED <<row, order>>
    <3>1. CASE Publish(w, e)
      BY <3>1 DEF Publish, TakeEffect
    <3>2. CASE PublishFails(w, e)
      BY <3>2 DEF PublishFails
    <3>3. CASE Refuse(w, e)
      BY <3>3 DEF Refuse, Remediate
    <3>4. CASE Reject(w, e)
      BY <3>4 DEF Reject
    <3>. QED BY <1>5, <3>1, <3>2, <3>3, <3>4
  <2>3. faults' \in 0 .. MaxFaults
    BY <1>5 DEF Publish, PublishFails, Refuse, Reject, Fault, NoFault, OutboxTypeOK
  <2>4. OutboxTypeOK'
    BY <2>1, <2>2, <2>3 DEF OutboxTypeOK
  <2>5. TasksAreBacked'
    BY <2>1, <2>2 DEF TasksAreBacked, OutboxTypeOK
  <2>6. SettledRowsAreBacked'
    BY <2>1, <2>2 DEF SettledRowsAreBacked, OutboxTypeOK
  <2>. QED BY <2>1, <2>4, <2>5, <2>6
<1>6. ASSUME NEW w \in Workers, NEW e \in Events,
             \/ MarkDelivered(w, e) \/ MarkFailed(w, e)
             \/ MarkTerminalFailed(w, e) \/ MarkIsLost(w, e)
      PROVE  OutboxInv'
  <2>1. row' \in [Events -> Row]
    <3>1. row[e] \in Row /\ row[e].due \in BOOLEAN
      BY DEF OutboxTypeOK, Row
    <3>2. ASSUME NEW s \in RowStates, NEW d \in BOOLEAN PROVE Released(s, d) \in Row
      BY DEF Released, Row
    <3>3. CASE MarkIsLost(w, e)
      <4>1. [row[e] EXCEPT !.holder = Nobody] \in Row
        BY <3>1, RowUpdates
      <4>. QED BY <3>3, <4>1 DEF MarkIsLost, OutboxTypeOK
    <3>4. ASSUME NEW s \in RowStates, NEW d \in BOOLEAN, Mark(w, e, s, d)
          PROVE  row' \in [Events -> Row]
      BY <3>1, <3>2, <3>4 DEF Mark, OutboxTypeOK
    <3>. QED BY <1>6, <3>1, <3>3, <3>4
             DEF MarkDelivered, MarkFailed, MarkTerminalFailed, RowStates, Settled
  <2>2. /\ task' = [task EXCEPT ![w][e] = "none"]
        /\ UNCHANGED <<order, published, remediated, log>>
        /\ faults' \in 0 .. MaxFaults
    <3>1. CASE MarkIsLost(w, e)
      BY <3>1 DEF MarkIsLost, OutboxTypeOK, Fault
    <3>2. ASSUME NEW s, NEW d, Mark(w, e, s, d)
          PROVE  /\ task' = [task EXCEPT ![w][e] = "none"]
                 /\ UNCHANGED <<order, published, remediated, log>>
                 /\ faults' = faults
      BY <3>2 DEF Mark, NoFault
    <3>. QED BY <1>6, <3>1, <3>2
             DEF MarkDelivered, MarkFailed, MarkTerminalFailed, OutboxTypeOK
  <2>3. OutboxTypeOK'
    BY <2>1, <2>2 DEF OutboxTypeOK
  <2>4. TasksAreBacked' /\ BroadcastsSpaced'
    BY <2>2 DEF TasksAreBacked, BroadcastsSpaced, OutboxTypeOK
  <2>5. SettledRowsAreBacked'
    <3>1. row[e] \in Row /\ \A f \in Events \ {e} : row'[f] = row[f]
      BY <1>6 DEF MarkDelivered, MarkFailed, MarkTerminalFailed, MarkIsLost, Mark,
                  OutboxTypeOK
    <3>2. /\ row'[e].state = "delivered" => row[e].state = "delivered" \/ task[w][e] = "sent"
          /\ row'[e].state = "failed_terminal"
             => row[e].state = "failed_terminal" \/ task[w][e] = "refused"
      <4>1. CASE MarkIsLost(w, e)
        BY <3>1, <4>1, RowUpdates DEF MarkIsLost, OutboxTypeOK
      <4>2. CASE MarkDelivered(w, e)
        BY <3>1, <4>2 DEF MarkDelivered, Mark, Released, OutboxTypeOK
      <4>3. CASE MarkFailed(w, e)
        BY <3>1, <4>3 DEF MarkFailed, Mark, Released, OutboxTypeOK
      <4>4. CASE MarkTerminalFailed(w, e)
        BY <3>1, <4>4 DEF MarkTerminalFailed, Mark, Released, OutboxTypeOK
      <4>. QED BY <1>6, <4>1, <4>2, <4>3, <4>4
    <3>. QED BY <2>2, <3>1, <3>2 DEF SettledRowsAreBacked, TasksAreBacked
  <2>. QED BY <2>3, <2>4, <2>5
<1>7. ASSUME UNCHANGED outboxVars PROVE OutboxInv'
  BY <1>7 DEF outboxVars, OutboxTypeOK, TasksAreBacked, SettledRowsAreBacked,
              BroadcastsSpaced
<1>. QED BY <1>1, <1>2, <1>3, <1>4, <1>5, <1>6, <1>7 DEF OutboxNext, WorkOn

\* Type correctness, settled rows that say what happened, and broadcasts kept
\* apart, for every reachable state.
THEOREM OutboxIsCorrect ==
    OutboxSpec => [](OutboxTypeOK /\ SettledRowsAreBacked /\ BroadcastsSpaced)
<1>1. OutboxInv => OutboxTypeOK /\ SettledRowsAreBacked /\ BroadcastsSpaced
  BY DEF OutboxInv
<1>. QED BY <1>1, OutboxInitInv, OutboxStepInv, PTL DEF OutboxSpec

\* The rows, the order, the tasks of the runs and the log keep their types.
THEOREM OutboxTypes == OutboxSpec => []OutboxTypeOK
<1>. QED BY OutboxIsCorrect, PTL

\* A broadcast that is repeated is repeated only after the events object has
\* forgotten it, whatever runs overlap or crash.
THEOREM BroadcastsStaySpaced == OutboxSpec => []BroadcastsSpaced
<1>. QED BY OutboxIsCorrect, PTL

\* No step changes a settled row, and none takes a row from a run that works
\* on it under a lease that runs.
LEMMA OutboxStepKeepsRows ==
    ASSUME OutboxTypeOK, [OutboxNext]_outboxVars, NEW e \in Events
    PROVE  /\ row[e].state \in Settled => row'[e] = row[e]
           /\ \A w \in Workers :
                /\ task[w][e] # "none" /\ Holds(w, e) /\ row[e].live
                /\ row'[e].holder # w
                => task'[w][e] = "none"
<1>. DEFINE Kept == /\ row[e].state \in Settled => row'[e] = row[e]
                    /\ \A w \in Workers :
                         /\ task[w][e] # "none" /\ Holds(w, e) /\ row[e].live
                         /\ row'[e].holder # w
                         => task'[w][e] = "none"
<1>. USE DEF Settled, Holds, OutboxTypeOK
<1>1. ASSUME NEW f \in Events, AppendEvent(f) \/ LeaseRunsOut(f) \/ BecomeDue(f)
      PROVE  Kept
  <2>1. CASE AppendEvent(f)
    BY <2>1 DEF AppendEvent
  <2>2. CASE row' = [row EXCEPT ![f] = [row[f] EXCEPT !.live = FALSE]]
             /\ row[f].state = "publishing"
    BY <2>2, RowUpdates
  <2>3. CASE row' = [row EXCEPT ![f] = [row[f] EXCEPT !.due = TRUE]]
             /\ row[f].state = "failed"
    BY <2>3, RowUpdates
  <2>. QED BY <1>1, <2>1, <2>2, <2>3 DEF LeaseRunsOut, BecomeDue
<1>2. ASSUME NEW v \in Workers, ClaimPending(v) PROVE Kept
  BY <1>2 DEF ClaimPending, Batch, Claimable
<1>3. ASSUME NEW v \in Workers, Crash(v) PROVE Kept
  BY <1>3 DEF Crash
<1>4. ASSUME NEW v \in Workers, NEW f \in Events,
             Publish(v, f) \/ PublishFails(v, f) \/ Refuse(v, f) \/ Reject(v, f)
      PROVE  Kept
  BY <1>4 DEF Publish, PublishFails, Refuse, Reject
<1>5. ASSUME NEW v \in Workers, NEW f \in Events,
             \/ MarkDelivered(v, f) \/ MarkFailed(v, f)
             \/ MarkTerminalFailed(v, f) \/ MarkIsLost(v, f)
      PROVE  Kept
  <2>1. CASE MarkIsLost(v, f)
    BY <2>1 DEF MarkIsLost
  <2>2. ASSUME NEW s, NEW d, Mark(v, f, s, d) PROVE Kept
    BY <2>2 DEF Mark
  <2>. QED BY <1>5, <2>1, <2>2 DEF MarkDelivered, MarkFailed, MarkTerminalFailed
<1>6. ASSUME UNCHANGED outboxVars PROVE Kept
  BY <1>6 DEF outboxVars
<1>. QED BY <1>1, <1>2, <1>3, <1>4, <1>5, <1>6 DEF OutboxNext, WorkOn

-----------------------------------------------------------------------------
LEMMA HoldersInit == ASSUME OutboxInit PROVE HoldersWork
BY OutboxAssumption DEF OutboxInit, HoldersWork, Unwritten, Released

\* Whoever claims a page works on all of it; whoever marks, crashes or loses a
\* mark lets go of the row.
LEMMA HoldersStep ==
    ASSUME OutboxTypeOK, HoldersWork, [OutboxNext]_outboxVars PROVE HoldersWork'
<1>. USE OutboxAssumption DEF OutboxTypeOK
<1>1. ASSUME NEW e \in Events, AppendEvent(e) PROVE HoldersWork'
  BY <1>1 DEF AppendEvent, HoldersWork, Released
<1>2. ASSUME NEW e \in Events, LeaseRunsOut(e) \/ BecomeDue(e) PROVE HoldersWork'
  <2>1. \A f \in Events : row'[f].state = row[f].state /\ row'[f].holder = row[f].holder
    <3>1. CASE row' = [row EXCEPT ![e] = [row[e] EXCEPT !.live = FALSE]]
      BY <3>1, RowUpdates
    <3>2. CASE row' = [row EXCEPT ![e] = [row[e] EXCEPT !.due = TRUE]]
      BY <3>2, RowUpdates
    <3>. QED BY <1>2, <3>1, <3>2 DEF LeaseRunsOut, BecomeDue
  <2>. QED BY <1>2, <2>1 DEF LeaseRunsOut, BecomeDue, HoldersWork
<1>3. ASSUME NEW v \in Workers, ClaimPending(v) PROVE HoldersWork'
  <2>1. ASSUME NEW e \in Batch
        PROVE  /\ row'[e].state = "publishing" /\ row'[e].holder = v /\ task'[v][e] = "claimed"
    <3>1. e \in Events /\ row[e] \in Row
      BY DEF Batch
    <3>2. /\ [row[e] EXCEPT !.state = "publishing", !.holder = v, !.live = TRUE].state = "publishing"
          /\ [row[e] EXCEPT !.state = "publishing", !.holder = v, !.live = TRUE].holder = v
      BY <3>1 DEF Row
    <3>. QED BY <1>3, <3>1, <3>2 DEF ClaimPending
  <2>2. ASSUME NEW e \in Events \ Batch PROVE row'[e] = row[e] /\ task'[v][e] = "none" /\ task[v][e] = "none"
    BY <1>3 DEF ClaimPending
  <2>3. \A w \in Workers \ {v} : task'[w] = task[w]
    BY <1>3 DEF ClaimPending
  <2>. QED BY <2>1, <2>2, <2>3 DEF HoldersWork
<1>4. ASSUME NEW v \in Workers, Crash(v) PROVE HoldersWork'
  <2>1. /\ \A e \in Events : task'[v][e] = "none"
        /\ \A w \in Workers \ {v} : task'[w] = task[w]
    BY <1>4 DEF Crash
  <2>2. ASSUME NEW e \in Events
        PROVE  /\ row'[e].state = row[e].state
               /\ row'[e].holder = row[e].holder \/ row'[e].holder = Nobody
               /\ row'[e].holder # v
    <3>1. CASE Holds(v, e)
      <4>1. row'[e] = [row[e] EXCEPT !.holder = Nobody]
        BY <1>4, <3>1 DEF Crash
      <4>. QED BY <4>1, RowUpdates DEF Row
    <3>2. CASE ~Holds(v, e)
      BY <1>4, <3>2 DEF Crash, Holds, HoldersWork
    <3>. QED BY <3>1, <3>2
  <2>3. ASSUME NEW w \in Workers \ {v}, NEW e \in Events
        PROVE  /\ row'[e].holder = w => row'[e].state = "publishing" /\ task'[w][e] # "none"
               /\ task'[w][e] # "none" => row'[e].state # "absent"
    BY <2>1, <2>2 DEF HoldersWork
  <2>. QED BY <2>1, <2>2, <2>3 DEF HoldersWork
<1>5. ASSUME NEW v \in Workers, NEW f \in Events,
             Publish(v, f) \/ PublishFails(v, f) \/ Refuse(v, f) \/ Reject(v, f)
      PROVE  HoldersWork'
  <2>1. /\ UNCHANGED row /\ task[v][f] # "none"
        /\ \E t \in {"sent", "broken", "refused"} : task' = [task EXCEPT ![v][f] = t]
    BY <1>5 DEF Publish, PublishFails, Refuse, Reject
  <2>2. \A w \in Workers, e \in Events : task'[w][e] # "none" <=> task[w][e] # "none"
    BY <2>1
  <2>. QED BY <2>1, <2>2 DEF HoldersWork
<1>6. ASSUME NEW v \in Workers, NEW f \in Events,
             \/ MarkDelivered(v, f) \/ MarkFailed(v, f)
             \/ MarkTerminalFailed(v, f) \/ MarkIsLost(v, f)
      PROVE  HoldersWork'
  <2>1. task' = [task EXCEPT ![v][f] = "none"] /\ task[v][f] # "none"
    BY <1>6 DEF MarkDelivered, MarkFailed, MarkTerminalFailed, MarkIsLost, Mark
  <2>2. /\ \A e \in Events \ {f} : row'[e] = row[e]
        /\ row'[f].holder # v
        /\ row'[f].holder = Nobody \/ row'[f] = row[f]
        /\ row'[f].state # "absent"
    <3>1. row[f].state # "absent" /\ row[f] \in Row
      BY <2>1 DEF HoldersWork
    <3>2. CASE MarkIsLost(v, f)
      <4>1. /\ [row[f] EXCEPT !.holder = Nobody].holder = Nobody
            /\ [row[f] EXCEPT !.holder = Nobody].state = row[f].state
        BY <3>1 DEF Row
      <4>. QED BY <3>1, <3>2, <4>1 DEF MarkIsLost, Holds, HoldersWork
    <3>3. ASSUME NEW s \in RowStates \ {"absent"}, NEW d, Mark(v, f, s, d)
          PROVE  /\ \A e \in Events \ {f} : row'[e] = row[e]
                 /\ row'[f].holder # v
                 /\ row'[f].holder = Nobody \/ row'[f] = row[f]
                 /\ row'[f].state # "absent"
      BY <3>1, <3>3 DEF Mark, Holds, HoldersWork, Released
    <3>. QED BY <1>6, <3>2, <3>3
             DEF MarkDelivered, MarkFailed, MarkTerminalFailed, RowStates, Settled
  <2>. QED BY <2>1, <2>2 DEF HoldersWork
<1>7. ASSUME UNCHANGED outboxVars PROVE HoldersWork'
  BY <1>7 DEF outboxVars, HoldersWork
<1>. QED BY <1>1, <1>2, <1>3, <1>4, <1>5, <1>6, <1>7 DEF OutboxNext, WorkOn

\* A run works on every row that it holds and on no row that was not written:
\* a row nobody works on is one whose lease only time can end.
THEOREM HoldersAlwaysWork == OutboxSpec => []HoldersWork
<1>1. OutboxTypeOK /\ HoldersWork /\ [OutboxNext]_outboxVars => HoldersWork'
  BY HoldersStep
<1>. QED BY <1>1, HoldersInit, OutboxTypes, PTL DEF OutboxSpec

-----------------------------------------------------------------------------
\* Retries, leases and pages are invisible to the delivery of events.
LEMMA QuietRows ==
    ASSUME \A e \in Events : Standing(row'[e].state) = Standing(row[e].state),
           UNCHANGED <<published, remediated, log>>
    PROVE  UNCHANGED Delivery!deliveryVars
<1>1. Standings' = Standings
  BY DEF Standings
<1>. QED BY <1>1 DEF Delivery!deliveryVars

\* A mark that is not refused settles an event that is owed.
LEMMA MarksSettle ==
    ASSUME OutboxInv, HoldersWork, NEW w \in Workers, NEW e \in Events,
           MarkDelivered(w, e) \/ MarkFailed(w, e) \/ MarkTerminalFailed(w, e)
    PROVE  Delivery!DeliveryNext \/ UNCHANGED Delivery!deliveryVars
<1>. USE DEF OutboxInv, OutboxTypeOK
<1>1. UNCHANGED <<published, remediated, log>>
  BY DEF MarkDelivered, MarkFailed, MarkTerminalFailed, Mark
<1>2. CASE ~Holds(w, e)
  <2>1. \A f \in Events : row'[f] = row[f]
    BY <1>2 DEF MarkDelivered, MarkFailed, MarkTerminalFailed, Mark
  <2>. QED BY <1>1, <2>1, QuietRows
<1>3. ASSUME NEW s \in RowStates, NEW d, Mark(w, e, s, d), Holds(w, e)
      PROVE  /\ row'[e].state = s
             /\ Standings[e] = "owed"
             /\ Standings' = [Standings EXCEPT ![e] = Standing(s)]
  <2>1. row' = [row EXCEPT ![e] = Released(s, d)] /\ row[e].state = "publishing"
    BY <1>3 DEF Mark, Holds
  <2>2. row'[e].state = s /\ \A f \in Events \ {e} : row'[f].state = row[f].state
    BY <2>1 DEF Released
  <2>3. Standings[e] = "owed"
    BY <2>1 DEF Standings, Standing, Settled
  <2>. QED BY <2>2, <2>3 DEF Standings
<1>4. CASE MarkDelivered(w, e) /\ Holds(w, e)
  <2>1. e \in published
    BY <1>4 DEF MarkDelivered, TasksAreBacked
  <2>2. Standings[e] = "owed" /\ Standings' = [Standings EXCEPT ![e] = "delivered"]
    BY <1>3, <1>4 DEF MarkDelivered, RowStates, Settled, Standing
  <2>3. Delivery!Settle(e)
    BY <1>1, <2>1, <2>2 DEF Delivery!Settle
  <2>. QED BY <2>3 DEF Delivery!DeliveryNext
<1>5. CASE MarkTerminalFailed(w, e) /\ Holds(w, e)
  <2>1. e \in remediated \cup Invalid
    BY <1>5 DEF MarkTerminalFailed, TasksAreBacked
  <2>2. Standings[e] = "owed" /\ Standings' = [Standings EXCEPT ![e] = "failed_terminal"]
    BY <1>3, <1>5 DEF MarkTerminalFailed, RowStates, Settled, Standing
  <2>3. Delivery!Settle(e)
    BY <1>1, <2>1, <2>2 DEF Delivery!Settle
  <2>. QED BY <2>3 DEF Delivery!DeliveryNext
<1>6. CASE MarkFailed(w, e) /\ Holds(w, e)
  <2>0. Mark(w, e, "failed", FALSE) /\ "failed" \in RowStates /\ Standing("failed") = "owed"
    BY <1>6 DEF MarkFailed, RowStates, Settled, Standing
  <2>1. Standings[e] = "owed" /\ Standings' = [Standings EXCEPT ![e] = "owed"]
    BY <1>3, <1>6, <2>0
  <2>2. Standings' = Standings
    BY <2>1 DEF Standings
  <2>. QED BY <1>1, <2>2 DEF Delivery!deliveryVars
<1>. QED BY <1>2, <1>4, <1>5, <1>6

\* A publication, or a call for help, is of an event that was written.
LEMMA EffectsAreOfWrittenEvents ==
    ASSUME OutboxInv, HoldersWork, NEW w \in Workers, NEW e \in Events,
           Publish(w, e) \/ PublishFails(w, e) \/ Refuse(w, e) \/ Reject(w, e)
    PROVE  Delivery!DeliveryNext \/ UNCHANGED Delivery!deliveryVars
<1>1. UNCHANGED Standings /\ task[w][e] = "claimed"
  BY DEF Publish, PublishFails, Refuse, Reject, Standings
<1>2. Standings[e] # "absent"
  BY <1>1 DEF HoldersWork, Standings, Standing, Settled
<1>3. CASE TakeEffect(e) /\ e \notin Invalid
  <2>1. ASSUME e \in Broadcasts, e \notin Remembered PROVE Delivery!Fresh(e)
    <3>1. ASSUME NEW i \in DOMAIN log, log[i] = e PROVE i + Retained <= Len(log)
      <4>1. ~(i + Retained > Len(log))
        BY <2>1, <3>1 DEF Remembered
      <4>2. i \in Nat /\ Len(log) \in Nat
        BY DEF OutboxInv, OutboxTypeOK
      <4>. QED BY <4>1, <4>2, OutboxAssumption
    <3>. QED BY <3>1 DEF Delivery!Fresh
  <2>2. \/ e \in Broadcasts /\ Delivery!Fresh(e) /\ log' = Append(log, e)
        \/ UNCHANGED log
    BY <1>3, <2>1 DEF TakeEffect
  <2>3. Delivery!Publish(e)
    BY <1>1, <1>2, <1>3, <2>2 DEF Delivery!Publish, TakeEffect
  <2>. QED BY <2>3 DEF Delivery!DeliveryNext
<1>4. CASE Remediate(e) /\ e \notin Invalid
  <2>1. Delivery!AskForHelp(e)
    BY <1>1, <1>2, <1>4 DEF Delivery!AskForHelp, Remediate
  <2>. QED BY <2>1 DEF Delivery!DeliveryNext
<1>5. CASE UNCHANGED <<published, remediated, log>>
  BY <1>1, <1>5 DEF Delivery!deliveryVars
<1>. QED BY <1>3, <1>4, <1>5, OutboxAssumption
         DEF Publish, PublishFails, Refuse, Reject, Remediate

\* Every step of the outbox is a step of the delivery or leaves it alone.
LEMMA OutboxStepsDeliver ==
    ASSUME OutboxInv, HoldersWork, [OutboxNext]_outboxVars
    PROVE  [Delivery!DeliveryNext]_Delivery!deliveryVars
<1>. USE DEF OutboxInv, OutboxTypeOK
<1>1. ASSUME NEW e \in Events, AppendEvent(e) PROVE Delivery!DeliveryNext
  <2>1. Standings[e] = "absent"
    BY <1>1 DEF AppendEvent, Standings, Standing
  <2>2. Standings' = [Standings EXCEPT ![e] = "owed"]
    <3>1. row' = [row EXCEPT ![e] = Released("pending", TRUE)]
      BY <1>1 DEF AppendEvent
    <3>2. Standing(row'[e].state) = "owed" /\ \A f \in Events \ {e} : row'[f] = row[f]
      BY <3>1 DEF Released, Standing, Settled
    <3>. QED BY <3>2 DEF Standings
  <2>3. Delivery!Write(e)
    BY <1>1, <2>1, <2>2 DEF AppendEvent, Delivery!Write
  <2>. QED BY <2>3 DEF Delivery!DeliveryNext
<1>2. ASSUME UNCHANGED <<published, remediated, log>>,
             \A e \in Events : row'[e].state = row[e].state
      PROVE  UNCHANGED Delivery!deliveryVars
  BY <1>2, QuietRows
<1>3. ASSUME NEW e \in Events, LeaseRunsOut(e) \/ BecomeDue(e)
      PROVE  UNCHANGED Delivery!deliveryVars
  <2>1. CASE row' = [row EXCEPT ![e] = [row[e] EXCEPT !.live = FALSE]]
    BY <1>2, <1>3, <2>1, RowUpdates DEF LeaseRunsOut, BecomeDue
  <2>2. CASE row' = [row EXCEPT ![e] = [row[e] EXCEPT !.due = TRUE]]
    BY <1>2, <1>3, <2>2, RowUpdates DEF LeaseRunsOut, BecomeDue
  <2>. QED BY <1>3, <2>1, <2>2 DEF LeaseRunsOut, BecomeDue
<1>4. ASSUME NEW w \in Workers, ClaimPending(w) PROVE UNCHANGED Delivery!deliveryVars
  <2>1. ASSUME NEW e \in Batch PROVE Standing(row'[e].state) = Standing(row[e].state)
    <3>1. e \in Events /\ row[e] \in Row /\ row[e].state \in {"pending", "failed", "publishing"}
      BY DEF Batch, Claimable
    <3>2. row'[e].state = "publishing"
      <4>1. [row[e] EXCEPT !.state = "publishing", !.holder = w, !.live = TRUE].state = "publishing"
        BY <3>1 DEF Row
      <4>. QED BY <1>4, <3>1, <4>1 DEF ClaimPending
    <3>. QED BY <3>1, <3>2 DEF Standing, Settled
  <2>2. ASSUME NEW e \in Events \ Batch PROVE row'[e] = row[e]
    BY <1>4 DEF ClaimPending
  <2>. QED BY <1>4, <2>1, <2>2, QuietRows DEF ClaimPending
<1>5. ASSUME NEW w \in Workers, Crash(w) PROVE UNCHANGED Delivery!deliveryVars
  <2>1. \A e \in Events : row'[e].state = row[e].state
    BY <1>5, RowUpdates DEF Crash
  <2>. QED BY <1>2, <1>5, <2>1 DEF Crash
<1>6. ASSUME NEW w \in Workers, NEW e \in Events, MarkIsLost(w, e)
      PROVE  UNCHANGED Delivery!deliveryVars
  <2>1. \A f \in Events : row'[f].state = row[f].state
    BY <1>6, RowUpdates DEF MarkIsLost
  <2>. QED BY <1>2, <1>6, <2>1 DEF MarkIsLost
<1>7. CASE UNCHANGED outboxVars
  BY <1>2, <1>7 DEF outboxVars
<1>. QED
  BY <1>1, <1>3, <1>4, <1>5, <1>6, <1>7, MarksSettle, EffectsAreOfWrittenEvents DEF OutboxNext, WorkOn

\* The outbox implements the delivery of events: an event that was written is
\* owed until it is delivered, after a publication, or given up, after a person
\* was asked to help or because it breaks the contract of its kind and was not
\* published, and that is final, however runs overlap and crash.
THEOREM OutboxRefinesDelivery == OutboxSpec => ImplementsEventDelivery
<1>1. OutboxInit => Delivery!DeliveryInit
  BY DEF OutboxInit, Delivery!DeliveryInit, Standings, Standing, Unwritten, Released
<1>2. OutboxInv /\ [OutboxNext]_outboxVars => OutboxInv'
  BY OutboxStepInv
<1>3. OutboxInv /\ HoldersWork /\ [OutboxNext]_outboxVars
        => [Delivery!DeliveryNext]_Delivery!deliveryVars
  BY OutboxStepsDeliver
<1>. QED
  BY <1>1, <1>2, <1>3, OutboxInitInv, HoldersAlwaysWork, PTL
  DEF OutboxSpec, ImplementsEventDelivery, Delivery!DeliverySpec

\* Settled rows are final, and a lease that runs keeps other runs away.
THEOREM OutboxLeasesHold ==
    OutboxSpec => SettledRowsAreFinal /\ NoTakeoverUnderLease
<1>1. OutboxInv /\ [OutboxNext]_outboxVars
      => [\A e \in Events : row[e].state \in Settled => row'[e] = row[e]]_outboxVars
  BY OutboxStepKeepsRows DEF OutboxInv
<1>2. OutboxInv /\ [OutboxNext]_outboxVars
      => [\A w \in Workers, e \in Events :
            /\ task[w][e] # "none" /\ Holds(w, e) /\ row[e].live
            /\ row'[e].holder # w
            => task'[w][e] = "none"]_outboxVars
  BY OutboxStepKeepsRows DEF OutboxInv
<1>. QED BY <1>1, <1>2, OutboxInitInv, OutboxStepInv, PTL
         DEF OutboxSpec, SettledRowsAreFinal, NoTakeoverUnderLease
=============================================================================
