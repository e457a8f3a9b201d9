-------------------------- MODULE NodeTermination --------------------------
(***************************************************************************)
(* The drain, the rebuild and the retirement of a node: what the signed    *)
(* steps of WorkflowSteps do (apps/api/node-termination-execution-runtime  *)
(* and the node run of packages/lifecycle-termination-d1), against a       *)
(* provider whose answers get lost, moves that were under way when the     *)
(* node's lifecycle was accepted, and the clean-up of a failed node.       *)
(*                                                                         *)
(* A request reads, commits, asks the provider and reads it in steps of    *)
(* its own, so that another request, a lapsed lease, a crash or a server   *)
(* that moves can come in between.  The steps after the destructive one   *)
(* (bootstrap-node, verify-agent, cleanup-networking) have no effect here: *)
(* the phase of the facts never lets them be claimed.                      *)
(***************************************************************************)
EXTENDS WorkflowSteps, Sequences

CONSTANT Servers

VARIABLES
    terms,       \* what was accepted: force, and the provider of a retirement
    run,         \* node_lifecycle_runs.state
    retirement,  \* node_lifecycle_runs.provider_retirement_state
    bootstrap,   \* node_lifecycle_rebuild_bootstraps.state
    audited,     \* the kinds of audit operation stored, each at most once
    active,      \* servers with a deployment on the node
    move,        \* how far a move of the server to or from the node has come
    pending,     \* affected servers not resolved
    unsaved,     \* affected servers whose required backup is missing
    credentials, \* the node has credentials
    instance,    \* the provider's instance
    posts,       \* destructive requests sent to the provider
    work         \* what each request learnt or did in its step so far

nodeVars == <<terms, run, retirement, bootstrap, audited, active, move,
              pending, unsaved, credentials, instance, posts, work>>
vars == <<stepVars, nodeVars>>

NodeTypes == {"drain-node", "leave-drain", "rebuild-node", "retire-node"}
Standalone == {"drain-node", "leave-drain"}
StepNames == [t \in NodeTypes |->
    CASE t = "rebuild-node" ->
           <<"drain-node", "verify-backups", "rebuild-provider-instance",
             "bootstrap-node", "verify-agent">>
      [] t = "retire-node" ->
           <<"drain-node", "verify-retention-policy", "revoke-node-credentials",
             "delete-provider-instance", "cleanup-networking">>
      [] OTHER -> <<"complete-node-drain">>]
NodeLast == [t \in NodeTypes |-> Len(StepNames[t])]
NodeDestructive == [t \in NodeTypes |->
    {n \in 1..Len(StepNames[t]) :
        StepNames[t][n] \in {"rebuild-provider-instance", "delete-provider-instance"}}]
NodePolicy == [t \in NodeTypes |->
    IF t \in Standalone THEN "between-steps" ELSE "before-destructive-step"]

DrainTargets == {"completed", "drained", "drained-forced", "blocked"}
Ended == {"deleted-confirmed", "contract-ended"}
Retirements == Ended \cup {"delete-requested", "cancel-scheduled", "ambiguous"}
MovePhases == {"none", "prepared", "cutover", "settled"}
Readings == {"active", "rebuilding", "unknown"}
NodeOutcomes == DrainTargets \cup Ended \cup
    {"preconditions-pending", "credentials-revoked", "provider-rebuild-active"}

ASSUME NodeAssumption ==
    /\ Types = NodeTypes /\ Last = NodeLast /\ Destructive = NodeDestructive
    /\ Policy = NodePolicy /\ Outcomes = NodeOutcomes

\* Only a retirement tells the providers apart.
ProvidersFor(t) == IF t = "retire-node" THEN {"ovhcloud", "contabo"} ELSE {Nothing}

TerminationTypeOK ==
    /\ StepsTypeOK
    /\ terms \in [force: BOOLEAN, provider: ProvidersFor(type)]
    /\ run \in DrainTargets \cup {"accepted", "draining", "rebuilding", "awaiting-agent",
                                  "retiring", "awaiting-provider-confirmation",
                                  "cancel-scheduled"}
    /\ retirement \in Retirements \cup {"not-started"}
    /\ bootstrap \in {Nothing, "prepared", "provider-rebuilding", "awaiting-agent", "blocked"}
    /\ move \in [Servers -> MovePhases]
    /\ active \in SUBSET Servers /\ pending \in SUBSET Servers /\ unsaved \in SUBSET Servers
    /\ credentials \in BOOLEAN
    /\ instance \in {"present", "leaving", "gone", "rebuilding", "rebuilt"}
    /\ posts \in Nat
    /\ work \in [Requests -> DrainTargets \cup Retirements \cup Readings
                             \cup {Nothing, "claimed", "prepared", "reading"}]

\* acceptNodeLifecycle: every server on the node is an affected one.  It does not
\* ask for moves: one that was prepared while both nodes were ready goes on.
NodeInit ==
    /\ StepsInit
    /\ terms \in [force: BOOLEAN, provider: ProvidersFor(type)]
    /\ run = IF type = "leave-drain" THEN "accepted" ELSE "draining"
    /\ retirement = "not-started"
    /\ bootstrap = Nothing
    /\ audited = {}
    /\ active \in SUBSET Servers
    /\ move \in [Servers -> {"none", "prepared"}]
    /\ pending = active
    /\ unsaved \in IF type \in Standalone THEN {{}} ELSE {{}, active}
    /\ credentials = TRUE
    /\ instance = "present"
    /\ posts = 0
    /\ work = [r \in Requests |-> Nothing]

Executes(r, name) == At(r, "executing") /\ StepNames[type][Ordinal(r)] = name
Observes(r, name) == At(r, "observing") /\ StepNames[type][Ordinal(r)] = name
ExecutesDrain(r) == Executes(r, "drain-node") \/ Executes(r, "complete-node-drain")
ObservesDrain(r) == Observes(r, "drain-node") \/ Observes(r, "complete-node-drain")

Learns(r, w) == work' = [work EXCEPT ![r] = w]
\* The request goes on in its step, leaves it with a result, or fails.
Continues(r, w) == Learns(r, w) /\ UNCHANGED <<handler, workflow>>
Returns(r, outcome) ==
    /\ IF At(r, "executing") THEN EffectReturns(r, outcome) ELSE ObserverReturns(r, outcome)
    /\ Learns(r, Nothing)
    /\ UNCHANGED workflow
Fails(r) == Answer(r, "failed") /\ Learns(r, Nothing)
\* An effect that is not proven: the executor fails, the observer does not know.
Unproven(r) == IF At(r, "executing") THEN Fails(r) ELSE Returns(r, "unknown")

OperationMoves(status) == operation' = IF operation \in Live THEN status ELSE operation
Unsettled == UNCHANGED <<type, facts, step, effect, cancellation, terms, move>>

-----------------------------------------------------------------------------
(* The drain and the checkpoints before the provider *)

DrainTarget ==
    IF type = "leave-drain" THEN "completed"
    ELSE IF active \cup pending = {} \/ terms.force
         THEN IF type \in Standalone THEN "completed"
              ELSE IF active \cup pending = {} THEN "drained" ELSE "drained-forced"
         ELSE "blocked"

ReadDrain(r) ==
    /\ ExecutesDrain(r)
    /\ work[r] = Nothing
    /\ \/ run = "completed" /\ Returns(r, "completed")
       \/ run # "completed" /\ Continues(r, DrainTarget)
    /\ Unsettled
    /\ UNCHANGED <<operation, run, retirement, bootstrap, audited, active, pending,
                   unsaved, credentials, instance, posts>>

RunDrained(target) ==
    IF run \in {"accepted", "draining", "blocked", "drained-forced"} THEN target ELSE run
DrainStatus(target) ==
    CASE target = "completed" -> "succeeded"
      [] target = "blocked" -> "waiting_external"
      [] OTHER -> "running"

\* A kind of audit operation is inserted once; a second time fails the batch,
\* after which a run that is where it should be is adopted.
CommitDrain(r) ==
    /\ ExecutesDrain(r)
    /\ work[r] \in DrainTargets
    /\ \/ /\ <<"drain", work[r]>> \notin audited
          /\ audited' = audited \cup {<<"drain", work[r]>>}
          /\ run' = RunDrained(work[r])
          /\ OperationMoves(DrainStatus(work[r]))
       \/ /\ <<"drain", work[r]>> \in audited
          /\ UNCHANGED <<audited, run, operation>>
    /\ IF run' = work[r] THEN Returns(r, run') ELSE Fails(r)
    /\ Unsettled
    /\ UNCHANGED <<retirement, bootstrap, active, pending, unsaved, credentials,
                   instance, posts>>

ObserveDrain(r) ==
    /\ ObservesDrain(r)
    /\ Returns(r, IF run \in DrainTargets THEN run ELSE "not-applied")
    /\ Unsettled
    /\ UNCHANGED <<operation, run, retirement, bootstrap, audited, active, pending,
                   unsaved, credentials, instance, posts>>

Checkpoint(r) ==
    /\ \/ Executes(r, "verify-backups") \/ Executes(r, "verify-retention-policy")
       \/ Observes(r, "verify-backups") \/ Observes(r, "verify-retention-policy")
    /\ Returns(r, IF At(r, "executing") THEN "preconditions-pending" ELSE "not-applied")
    /\ Unsettled
    /\ UNCHANGED <<operation, run, retirement, bootstrap, audited, active, pending,
                   unsaved, credentials, instance, posts>>

RevokeCredentials(r) ==
    /\ \/ /\ Executes(r, "revoke-node-credentials")
          /\ credentials' = FALSE
          /\ audited' = audited \cup {<<"credentials", "revoked">>}
          /\ Returns(r, "credentials-revoked")
       \/ /\ Observes(r, "revoke-node-credentials")
          /\ Returns(r, "not-applied")
          /\ UNCHANGED <<credentials, audited>>
    /\ Unsettled
    /\ UNCHANGED <<operation, run, retirement, bootstrap, active, pending, unsaved,
                   instance, posts>>

-----------------------------------------------------------------------------
(* The destructive step *)

\* No server on the node, none to resolve, and the required backups are there.
Clear == active = {} /\ pending = {} /\ unsaved = {}

\* Mutant: the claim relies on the drain that went before.
AdmissibleOnceDrained == run \in {"drained", "drained-forced"} /\ ~CancellationStands

ProviderAdmissible ==
    /\ run \in {"drained", "drained-forced"}
    /\ <<"provider-action", "claimed">> \notin audited
    /\ ~CancellationStands
    /\ facts.phase = "destructive-step-running"
    /\ Clear

\* claimNodeProviderDestructiveAction.
ClaimProvider(r) ==
    IF ProviderAdmissible
    THEN /\ run' = IF type = "rebuild-node" THEN "rebuilding" ELSE "retiring"
         /\ OperationMoves("running")
         /\ audited' = audited \cup {<<"provider-action", "claimed">>}
         /\ Continues(r, "claimed")
    ELSE Fails(r) /\ UNCHANGED <<run, operation, audited>>

\* A run that is past its claim, or blocked, is only read.
OnlyRead == {"retiring", "awaiting-provider-confirmation", "cancel-scheduled", "blocked"}

\* The executor of a rebuild would adopt the claim or the bootstrap of an earlier
\* attempt; it never finds one, since its observer sends no claim back to it.
StartProvider(r) ==
    /\ work[r] = Nothing
    /\ \/ Executes(r, "rebuild-provider-instance") /\ ClaimProvider(r)
       \/ /\ Executes(r, "delete-provider-instance")
          /\ run \notin OnlyRead
          /\ ClaimProvider(r)
       \/ /\ Executes(r, "delete-provider-instance")
          /\ run \in OnlyRead
          /\ Continues(r, "reading")
          /\ UNCHANGED <<run, operation, audited>>
    /\ Unsettled
    /\ UNCHANGED <<retirement, bootstrap, active, pending, unsaved, credentials,
                   instance, posts>>

\* prepareNodeRebuildBootstrap, behind the guards of its insert.
PrepareRebuild(r) ==
    /\ Executes(r, "rebuild-provider-instance")
    /\ work[r] = "claimed"
    /\ \/ /\ run = "rebuilding" /\ operation = "running"
          /\ bootstrap' = "prepared"
          /\ credentials' = FALSE
          /\ audited' = audited \cup {<<"rebuild-bootstrap", "prepared">>}
          /\ Continues(r, "prepared")
       \/ /\ ~(run = "rebuilding" /\ operation = "running")
          /\ Fails(r)
          /\ UNCHANGED <<bootstrap, credentials, audited>>
    /\ Unsettled
    /\ UNCHANGED <<operation, run, retirement, active, pending, unsaved, instance, posts>>

\* Mutant: a request whose answer is lost is sent again.
PostUntilAnswered(r) ==
    /\ Executes(r, "rebuild-provider-instance") /\ work[r] = "prepared"
    /\ instance' \in {"present", "rebuilding"}
    /\ posts' = posts + 1
    /\ \/ Continues(r, "reading")
       \/ instance' = "rebuilding" /\ Continues(r, "prepared")
    /\ Unsettled
    /\ UNCHANGED <<operation, run, retirement, bootstrap, audited, active, pending,
                   unsaved, credentials>>

\* The request to the provider, of which nothing may come; its answer, or its
\* error, is not believed but read again.  Only the schedule Contabo answers is.
Post(r) ==
    /\ \/ /\ Executes(r, "rebuild-provider-instance")
          /\ work[r] = "prepared"
          /\ instance' \in {"present", "rebuilding"}
       \/ /\ Executes(r, "delete-provider-instance")
          /\ work[r] = "claimed"
          /\ instance' \in {"present", "leaving"}
    /\ posts' = posts + 1
    /\ \/ Continues(r, "reading")
       \/ /\ terms.provider = "contabo" /\ instance' = "leaving"
          /\ Continues(r, "cancel-scheduled")
    /\ Unsettled
    /\ UNCHANGED <<operation, run, retirement, bootstrap, audited, active, pending,
                   unsaved, credentials>>

\* Mutant: a scheduled cancellation counts as the end of the contract.
ScheduledIsEnded ==
    IF instance \in {"leaving", "gone"}
    THEN IF terms.provider = "ovhcloud" THEN "deleted-confirmed" ELSE "contract-ended"
    ELSE IF terms.provider = "ovhcloud" THEN "delete-requested" ELSE "ambiguous"

RetirementSeen ==
    CASE instance = "gone" ->
           IF terms.provider = "ovhcloud" THEN "deleted-confirmed" ELSE "contract-ended"
      [] instance = "leaving" /\ terms.provider = "contabo" -> "cancel-scheduled"
      [] instance # "gone" /\ terms.provider = "ovhcloud" -> "delete-requested"
      [] OTHER -> "ambiguous"
RebuildSeen ==
    IF instance = "rebuilding" THEN "rebuilding" ELSE "active"

\* Contabo is read before it is asked as well.
ReadProvider(r) ==
    /\ \/ /\ \/ Executes(r, "delete-provider-instance") /\ work[r] = "reading"
             \/ /\ Observes(r, "delete-provider-instance") /\ work[r] = Nothing
                /\ retirement \notin Ended
          /\ Continues(r, RetirementSeen)
       \/ /\ \/ Executes(r, "delete-provider-instance") /\ work[r] = "reading"
             \/ /\ Executes(r, "delete-provider-instance") /\ work[r] = "claimed"
                /\ terms.provider = "contabo"
             \/ /\ Observes(r, "delete-provider-instance") /\ work[r] = Nothing
                /\ retirement \notin Ended
          /\ Continues(r, "ambiguous")
       \/ /\ \/ Executes(r, "rebuild-provider-instance") /\ work[r] = "reading"
             \/ /\ Observes(r, "rebuild-provider-instance") /\ work[r] = Nothing
                /\ bootstrap # "awaiting-agent"
          /\ \E seen \in {RebuildSeen, "unknown"} : Continues(r, seen)
    /\ Unsettled
    /\ UNCHANGED <<operation, run, retirement, bootstrap, audited, active, pending,
                   unsaved, credentials, instance, posts>>

\* The observer finds the end of the destructive step on record.
AdoptProvider(r) ==
    /\ \/ /\ Observes(r, "delete-provider-instance")
          /\ work[r] = Nothing
          /\ retirement \in Ended
          /\ Returns(r, retirement)
       \/ /\ Observes(r, "rebuild-provider-instance")
          /\ work[r] = Nothing
          /\ bootstrap = "awaiting-agent"
          /\ Returns(r, "provider-rebuild-active")
    /\ Unsettled
    /\ UNCHANGED <<operation, run, retirement, bootstrap, audited, active, pending,
                   unsaved, credentials, instance, posts>>

\* Mutant: the provider's state lands in the run's own column.
RunTakesProviderState(seen) == seen

RunRetired(seen) ==
    CASE seen = "cancel-scheduled" -> "cancel-scheduled"
      [] seen = "ambiguous" -> "blocked"
      [] seen = "delete-requested" -> "awaiting-provider-confirmation"
      [] seen \in Ended -> "retiring"

\* The batch fails on an audit kind seen before, and on the guard of a run that
\* turns to 'retiring'.
RetirementRecordable(seen) ==
    /\ <<"provider-retirement", seen>> \notin audited
    /\ run \in OnlyRead \ {"retiring"} /\ RunRetired(seen) = "retiring" => Clear

\* recordNodeProviderRetirement.
RecordRetirement(r) ==
    /\ Executes(r, "delete-provider-instance") \/ Observes(r, "delete-provider-instance")
    /\ work[r] \in Retirements
    /\ \/ /\ RetirementRecordable(work[r])
          /\ audited' = audited \cup {<<"provider-retirement", work[r]>>}
          /\ OperationMoves(IF work[r] \in {"cancel-scheduled", "ambiguous"}
                            THEN "waiting_external" ELSE "running")
          /\ run' = IF run \in OnlyRead THEN RunRetired(work[r]) ELSE run
          /\ retirement' = IF run \in OnlyRead THEN work[r] ELSE retirement
       \/ /\ ~RetirementRecordable(work[r])
          /\ UNCHANGED <<audited, operation, run, retirement>>
    /\ \/ retirement' = work[r] /\ work[r] \in Ended /\ Returns(r, work[r])
       \/ retirement' = work[r] /\ work[r] \notin Ended /\ Unproven(r)
       \/ retirement' # work[r] /\ Fails(r)
    /\ Unsettled
    /\ UNCHANGED <<bootstrap, active, pending, unsaved, credentials, instance, posts>>

BootstrapAfter(seen) ==
    CASE seen = "active" -> "awaiting-agent"
      [] seen = "rebuilding" -> "provider-rebuilding"
      [] seen = "unknown" -> "blocked"

RebuildRecordable(target) ==
    /\ <<"provider-rebuild", target>> \notin audited
    /\ bootstrap = "awaiting-agent" => target # "provider-rebuilding"

\* recordNodeProviderRebuildObservation.
RecordRebuild(r) ==
    /\ Executes(r, "rebuild-provider-instance") \/ Observes(r, "rebuild-provider-instance")
    /\ work[r] \in Readings
    /\ LET target == BootstrapAfter(work[r]) IN
       \/ /\ bootstrap \in {target, "blocked"}
          /\ IF bootstrap = "awaiting-agent" THEN Returns(r, "provider-rebuild-active")
             ELSE Unproven(r)
          /\ UNCHANGED <<audited, operation, run, bootstrap>>
       \/ /\ bootstrap \notin {Nothing, target, "blocked"}
          /\ RebuildRecordable(target)
          /\ audited' = audited \cup {<<"provider-rebuild", target>>}
          /\ bootstrap' = target
          /\ run' = IF run \notin {"rebuilding", "awaiting-agent"} THEN run
                    ELSE IF target = "awaiting-agent" THEN target ELSE "rebuilding"
          /\ OperationMoves(IF target = "blocked" THEN "waiting_external" ELSE "running")
          /\ IF target = "awaiting-agent" THEN Returns(r, "provider-rebuild-active")
             ELSE Unproven(r)
       \/ /\ bootstrap = Nothing \/ (bootstrap \notin {target, "blocked"}
                                     /\ ~RebuildRecordable(target))
          /\ Fails(r)
          /\ UNCHANGED <<audited, operation, run, bootstrap>>
    /\ Unsettled
    /\ UNCHANGED <<retirement, active, pending, unsaved, credentials, instance, posts>>

NodeEffect(r) ==
    \/ ReadDrain(r) \/ CommitDrain(r) \/ ObserveDrain(r)
    \/ Checkpoint(r) \/ RevokeCredentials(r)
    \/ StartProvider(r) \/ PrepareRebuild(r) \/ Post(r) \/ ReadProvider(r)
    \/ AdoptProvider(r) \/ RecordRetirement(r) \/ RecordRebuild(r)

-----------------------------------------------------------------------------
(* What happens around the workflow *)

\* The servers that a move has brought to the node or taken from it.
Moved == {s \in Servers : move[s] \in {"cutover", "settled"}}

Other(s) == IF s \in active THEN active \ {s} ELSE active \cup {s}

\* A prepared move cuts over, and what was cut over is released or rolled back,
\* whatever has become of the two nodes since; the affected row stays.  A server is
\* placed on a node, and its move prepared, only while the node is ready.
MoveGoesOn(s) ==
    /\ \/ /\ move[s] = "prepared"
          /\ \/ active' = Other(s) /\ move' = [move EXCEPT ![s] = "cutover"]
             \/ active' = active /\ move' = [move EXCEPT ![s] = "none"]
       \/ /\ move[s] = "cutover"
          /\ active' \in {active, Other(s)}
          /\ move' = [move EXCEPT ![s] = "settled"]
    /\ UNCHANGED <<stepVars, terms, run, retirement, bootstrap, audited, pending,
                   unsaved, credentials, instance, posts, work>>

\* The forced clean-up of a server on a failed node: nothing else ends a deployment
\* or resolves an affected row.  A server has one operation at a time.
ForcedCleanup(s) ==
    /\ type \notin Standalone
    /\ s \in active \cap pending
    /\ move[s] \in {"none", "settled"}
    /\ active' = active \ {s}
    /\ pending' = pending \ {s}
    /\ UNCHANGED <<stepVars, terms, run, retirement, bootstrap, audited, move, unsaved,
                   credentials, instance, posts, work>>

BackupTaken(s) ==
    /\ s \in unsaved
    /\ unsaved' = unsaved \ {s}
    /\ UNCHANGED <<stepVars, terms, run, retirement, bootstrap, audited, active, move,
                   pending, credentials, instance, posts, work>>

\* The provider acts on a request.
ProviderMoves ==
    /\ \/ instance = "leaving" /\ instance' = "gone"
       \/ instance = "rebuilding" /\ instance' = "rebuilt"
    /\ UNCHANGED <<stepVars, terms, run, retirement, bootstrap, audited, active, move,
                   pending, unsaved, credentials, posts, work>>

NodeStands == UNCHANGED <<terms, run, retirement, bootstrap, audited, active, move,
                          pending, unsaved, credentials, instance, posts>>

NodeNext ==
    \/ \E r \in Requests :
         \/ (Call(r) \/ GiveUp(r) \/ FenceStep(r)) /\ UNCHANGED nodeVars
         \/ Crash(r) /\ NodeStands /\ Learns(r, Nothing)
         \/ NodeEffect(r)
    \/ /\ \/ \E n \in Ordinals : LeaseLapses(n)
          \/ RequestCancellation
          \/ TerminateWorkflow
       /\ UNCHANGED nodeVars
    \/ \E s \in Servers : MoveGoesOn(s) \/ ForcedCleanup(s) \/ BackupTaken(s)
    \/ ProviderMoves

NodeSpec == NodeInit /\ [][NodeNext]_vars

-----------------------------------------------------------------------------
(* Properties *)

\* The provider gets at most one destructive request, whatever leases run out,
\* answers are lost and calls repeated: an observer of the step never sends it
\* back to be executed.
OneProviderMutation == posts <= 1

\* When the provider is asked, every affected server is resolved and its backup
\* there, forced or not, and a server that is on the node was brought by a move
\* that had been prepared before: nothing stops its cut-over or roll-back.
ProviderActsOnEmptyNode ==
    posts > 0 => active \subseteq Moved /\ pending = {} /\ unsaved = {}

\* What the evidence of a completed step says is so: a drained node has no server
\* but those moves brought, revoked credentials are gone, an ended contract left
\* no instance.
EvidenceIsTrue ==
    \A n \in Ordinals :
        /\ effect[n].outcome = "drained" => active \subseteq Moved
        /\ effect[n].outcome = "credentials-revoked" => ~credentials
        /\ effect[n].outcome \in Ended => instance = "gone"

\* A cancellation that is accepted was accepted before the provider was asked,
\* and keeps it from being asked.
CancelledBeforeProvider == cancellation # "none" => posts = 0

\* The credentials of a node are revoked only when no server is left on it or
\* an administrator forced its drain.
RevokedOnlyWhenDrained == ~credentials => active = {} \/ terms.force
=============================================================================
