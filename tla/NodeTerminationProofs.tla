----------------------- MODULE NodeTerminationProofs -----------------------
(***************************************************************************)
(* The node workflows are instances of the signed steps, for every number  *)
(* of servers, requests and failing calls, and what they do to a node and  *)
(* its provider is proved on top of the invariant of the steps.            *)
(*                                                                         *)
(* The invariant has three more parts.  OneClaim: whoever is about to ask  *)
(* the provider holds the one claim on record, which was given on an empty *)
(* node and closes the way to a cancellation.  Told: a request never       *)
(* carries, and the store never keeps, a word about the node that is not   *)
(* so.  Records: the same for the run itself.                              *)
(***************************************************************************)
EXTENDS NodeTermination, WorkflowStepsProofs

Works == DrainTargets \cup Retirements \cup Readings
            \cup {Nothing, "claimed", "prepared", "reading"}
Runs == DrainTargets \cup {"accepted", "draining", "rebuilding", "awaiting-agent",
                           "retiring", "awaiting-provider-confirmation",
                           "cancel-scheduled"}

NodeTyped ==
    /\ terms \in [force: BOOLEAN, provider: ProvidersFor(type)]
    /\ run \in Runs
    /\ retirement \in Retirements \cup {"not-started"}
    /\ bootstrap \in {Nothing, "prepared", "provider-rebuilding", "awaiting-agent", "blocked"}
    /\ move \in [Servers -> MovePhases]
    /\ active \in SUBSET Servers /\ pending \in SUBSET Servers /\ unsaved \in SUBSET Servers
    /\ credentials \in BOOLEAN
    /\ instance \in {"present", "leaving", "gone", "rebuilding", "rebuilt"}

ActionClaimed == <<"provider-action", "claimed">> \in audited
Sending(r) == work[r] \in {"claimed", "prepared"}

\* No affected server is left, and no server that a move has not brought.
Resolved == active \subseteq Moved /\ pending = {} /\ unsaved = {}

OneClaim ==
    /\ posts \in {0, 1}
    /\ posts = 1 => ActionClaimed
    /\ \A r \in Requests : Sending(r) => ActionClaimed /\ posts = 0
    /\ \A r, q \in Requests : Sending(r) /\ Sending(q) => r = q
    /\ ActionClaimed => Resolved /\ cancellation = "none"
    /\ ActionClaimed => facts.phase \in {"destructive-step-running", "terminal"}

\* What a word about the node means.
Known(o) ==
    /\ o = "drained" => active \subseteq Moved
    /\ o = "credentials-revoked" => ~credentials
    /\ o \in Ended => instance = "gone"
KnownNext(o) ==
    /\ o = "drained" => active' \subseteq Moved'
    /\ o = "credentials-revoked" => ~credentials'
    /\ o \in Ended => instance' = "gone"

Told ==
    /\ work \in [Requests -> Works]
    /\ \A r \in Requests : Known(work[r])
    /\ \A r \in Requests : At(r, "recording") \/ At(r, "resolving") =>
          Known(handler[r].outcome)
    /\ \A n \in Ordinals : Known(effect[n].outcome)

Records ==
    /\ instance # "present" => posts = 1
    /\ Known(run) /\ Known(retirement)

NodeInv == StepsInv /\ NodeTyped /\ OneClaim /\ Told /\ Records

\* What is known of the node is lost by no action.
NodeSettles ==
    /\ active' \subseteq active \cup Moved' /\ Moved \subseteq Moved'
    /\ ~credentials => ~credentials'
    /\ instance = "gone" => instance' = "gone"

LEMMA KnownStays ==
    ASSUME NodeSettles, NEW o, Known(o)
    PROVE  KnownNext(o)
  BY DEF NodeSettles, Known, KnownNext

LEMMA NothingIsKnown ==
    /\ KnownNext(Nothing) /\ KnownNext("not-applied") /\ KnownNext("unknown")
    /\ KnownNext("preconditions-pending") /\ KnownNext("provider-rebuild-active")
    /\ KnownNext("claimed") /\ KnownNext("prepared") /\ KnownNext("reading")
    /\ \A o \in Readings : KnownNext(o)
    /\ \A o \in {"completed", "drained-forced", "blocked"} : KnownNext(o)
    /\ \A o \in Retirements \ Ended : KnownNext(o)
  BY DEF KnownNext, Nothing, Ended, Readings, Retirements

-----------------------------------------------------------------------------
(* How a request goes on *)

LEMMA ContinuesTells ==
    ASSUME NodeInv, NodeSettles, UNCHANGED <<type, effect>>,
           NEW r \in Requests, NEW w \in Works, KnownNext(w), Continues(r, w)
    PROVE  Told'
<1>1. /\ work' \in [Requests -> Works] /\ handler' = handler /\ Ordinals' = Ordinals
      /\ work'[r] = w /\ \A q \in Requests \ {r} : work'[q] = work[q]
  BY DEF Continues, Learns, NodeInv, Told, Ordinals
<1>2. \A q \in Requests : KnownNext(work'[q])
  BY <1>1, KnownStays DEF NodeInv, Told
<1>3. \A q \in Requests : handler'[q].pc \in {"recording", "resolving"} =>
          KnownNext(handler'[q].outcome)
  BY <1>1, KnownStays DEF NodeInv, Told, At
<1>4. \A n \in Ordinals : KnownNext(effect'[n].outcome)
  BY KnownStays DEF NodeInv, Told
<1> QED
  BY <1>1, <1>2, <1>3, <1>4 DEF Told, At, Known, KnownNext

LEMMA ReturnsTells ==
    ASSUME NodeInv, NodeSettles, UNCHANGED <<type, effect>>,
           NEW r \in Requests, NEW o, KnownNext(o), Returns(r, o)
    PROVE  Told' /\ work' = [work EXCEPT ![r] = Nothing]
<1>1. /\ work' = [work EXCEPT ![r] = Nothing] /\ Ordinals' = Ordinals
      /\ work' \in [Requests -> Works]
  BY DEF Returns, Learns, NodeInv, Told, Works, Ordinals
<1>2. PICK pc \in Stages :
         handler' = [handler EXCEPT ![r] =
                       [pc |-> pc, ordinal |-> Ordinal(r), attempt |-> handler[r].attempt,
                        revision |-> 0, outcome |-> o]]
  BY DEF Returns, EffectReturns, ObserverReturns, Enter, Stages
<1>3. /\ handler'[r].outcome = o
      /\ \A q \in Requests \ {r} : handler'[q] = handler[q]
  BY <1>2 DEF NodeInv, StepsInv, FlowOK
<1>4. \A q \in Requests : KnownNext(work'[q])
  BY <1>1, KnownStays, NothingIsKnown DEF NodeInv, Told
<1>5. \A q \in Requests : handler'[q].pc \in {"recording", "resolving"} =>
          KnownNext(handler'[q].outcome)
  BY <1>3, KnownStays DEF NodeInv, Told, At
<1>6. \A n \in Ordinals : KnownNext(effect'[n].outcome)
  BY KnownStays DEF NodeInv, Told
<1> QED
  BY <1>1, <1>4, <1>5, <1>6 DEF Told, At, Known, KnownNext

LEMMA FailsTells ==
    ASSUME NodeInv, NodeSettles, UNCHANGED <<type, effect>>,
           NEW r \in Requests, Fails(r)
    PROVE  Told' /\ work' = [work EXCEPT ![r] = Nothing]
<1>1. /\ work' = [work EXCEPT ![r] = Nothing] /\ Ordinals' = Ordinals
      /\ work' \in [Requests -> Works]
      /\ handler' = [handler EXCEPT ![r] = AtRest]
  BY DEF Fails, Answer, Learns, NodeInv, Told, Works, Ordinals
<1>2. \A q \in Requests : KnownNext(work'[q])
  BY <1>1, KnownStays, NothingIsKnown DEF NodeInv, Told
<1>3. \A q \in Requests : handler'[q].pc \in {"recording", "resolving"} =>
          KnownNext(handler'[q].outcome)
  BY <1>1, KnownStays DEF NodeInv, Told, At, AtRest, StepsInv, FlowOK
<1>4. \A n \in Ordinals : KnownNext(effect'[n].outcome)
  BY KnownStays DEF NodeInv, Told
<1> QED
  BY <1>1, <1>2, <1>3, <1>4 DEF Told, At, Known, KnownNext

\* What leaves the claim and the provider alone keeps OneClaim.
LEMMA ClaimStays ==
    ASSUME OneClaim, NEW r \in Requests, NEW w,
           work \in [Requests -> Works],
           work' = [work EXCEPT ![r] = w],
           w \in {"claimed", "prepared"} => Sending(r),
           ActionClaimed' <=> ActionClaimed,
           UNCHANGED <<posts, facts, cancellation>>,
           active' \subseteq active \cup Moved', Moved \subseteq Moved',
           pending' \subseteq pending, unsaved' \subseteq unsaved
    PROVE  OneClaim'
<1>1. \A q \in Requests : Sending(q)' => Sending(q)
  BY DEF Sending
<1>2. Resolved => Resolved'
  BY DEF Resolved
<1> QED
  BY <1>1, <1>2 DEF OneClaim

LEMMA AuditKinds ==
    /\ \A x : <<"drain", x>> # <<"provider-action", "claimed">>
    /\ \A x : <<"provider-retirement", x>> # <<"provider-action", "claimed">>
    /\ \A x : <<"provider-rebuild", x>> # <<"provider-action", "claimed">>
    /\ <<"credentials", "revoked">> # <<"provider-action", "claimed">>
    /\ <<"rebuild-bootstrap", "prepared">> # <<"provider-action", "claimed">>
  OBVIOUS

-----------------------------------------------------------------------------
(* One lemma per action of a step *)

NodeRest == NodeTyped /\ OneClaim /\ Told /\ Records

\* A request that only looks leaves the node as it is.
LEMMA Standing ==
    ASSUME NodeInv, UNCHANGED <<type, terms, run, retirement, bootstrap, active, move,
                                pending, unsaved, credentials, instance, posts>>
    PROVE  NodeTyped' /\ Records' /\ NodeSettles
  BY DEF NodeInv, NodeTyped, Records, Known, NodeSettles, Moved

LEMMA ReadDrainKeeps ==
    ASSUME NodeInv, NEW r \in Requests, ReadDrain(r)
    PROVE  NodeRest'
<1>1. NodeTyped' /\ Records' /\ NodeSettles
  BY Standing DEF ReadDrain, Unsettled
<1>2. \/ Returns(r, "completed")
      \/ Continues(r, DrainTarget) /\ DrainTarget \in DrainTargets /\ KnownNext(DrainTarget)
  BY DEF ReadDrain, DrainTarget, DrainTargets, KnownNext, Ended, NodeInv, NodeTyped
<1>3. UNCHANGED <<type, effect>>
  BY DEF ReadDrain, Unsettled
<1>4. /\ Told'
      /\ \E w \in DrainTargets \cup {Nothing} : work' = [work EXCEPT ![r] = w]
  <2>1. CASE Returns(r, "completed")
    BY <1>1, <1>3, <2>1, ReturnsTells, NothingIsKnown
  <2>2. CASE Continues(r, DrainTarget) /\ DrainTarget \in DrainTargets /\ KnownNext(DrainTarget)
    BY <1>1, <1>3, <2>2, ContinuesTells DEF Works, Continues, Learns
  <2> QED
    BY <1>2, <2>1, <2>2
<1>5. OneClaim'
  BY <1>4, ClaimStays
     DEF ReadDrain, Unsettled, NodeInv, Told, ActionClaimed, DrainTargets, Nothing, Moved
<1> QED
  BY <1>1, <1>4, <1>5 DEF NodeRest

LEMMA CommitDrainKeeps ==
    ASSUME NodeInv, NEW r \in Requests, CommitDrain(r)
    PROVE  NodeRest'
<1>1. /\ UNCHANGED <<type, effect, facts, cancellation, terms, retirement, bootstrap,
                     active, move, pending, unsaved, credentials, instance, posts>>
      /\ work[r] \in DrainTargets /\ Known(work[r])
  BY DEF CommitDrain, Unsettled, NodeInv, Told
<1>2. NodeSettles
  BY <1>1 DEF NodeSettles, Moved
<1>3. run' = run \/ run' = work[r]
  BY DEF CommitDrain, RunDrained
<1>4. run' \in Runs /\ KnownNext(run')
  BY <1>1, <1>2, <1>3, KnownStays DEF NodeInv, NodeTyped, Records, Runs
<1>5. NodeTyped' /\ Records'
  BY <1>1, <1>4 DEF NodeInv, NodeTyped, Records, Known, KnownNext, Moved
<1>6. Told' /\ work' = [work EXCEPT ![r] = Nothing]
  BY <1>1, <1>2, <1>4, ReturnsTells, FailsTells DEF CommitDrain
<1>7. ActionClaimed' <=> ActionClaimed
  BY AuditKinds DEF CommitDrain, ActionClaimed
<1>8. OneClaim'
  BY <1>1, <1>6, <1>7, ClaimStays DEF NodeInv, Told, Nothing, Moved
<1> QED
  BY <1>5, <1>6, <1>8 DEF NodeRest

LEMMA LooksKeep ==
    ASSUME NodeInv, NEW r \in Requests, ObserveDrain(r) \/ Checkpoint(r) \/ AdoptProvider(r)
    PROVE  NodeRest'
<1>1. UNCHANGED <<type, effect, facts, cancellation, terms, run, retirement, bootstrap,
                  audited, active, move, pending, unsaved, credentials, instance, posts>>
  BY DEF ObserveDrain, Checkpoint, AdoptProvider, Unsettled
<1>2. NodeTyped' /\ Records' /\ NodeSettles
  BY <1>1, Standing
<1>3. \/ Returns(r, run) \/ Returns(r, retirement)
      \/ Returns(r, "not-applied") \/ Returns(r, "preconditions-pending")
      \/ Returns(r, "provider-rebuild-active")
  BY DEF ObserveDrain, Checkpoint, AdoptProvider
<1>4. KnownNext(run) /\ KnownNext(retirement)
  BY <1>2, KnownStays DEF NodeInv, Records
<1>5. Told' /\ work' = [work EXCEPT ![r] = Nothing]
  BY <1>1, <1>2, <1>3, <1>4, ReturnsTells, NothingIsKnown
<1>6. OneClaim'
  BY <1>1, <1>5, ClaimStays DEF NodeInv, Told, ActionClaimed, Nothing, Moved
<1> QED
  BY <1>2, <1>5, <1>6 DEF NodeRest

LEMMA RevokeCredentialsKeeps ==
    ASSUME NodeInv, NEW r \in Requests, RevokeCredentials(r)
    PROVE  NodeRest'
<1>1. /\ UNCHANGED <<type, effect, facts, cancellation, terms, run, retirement, bootstrap,
                     active, move, pending, unsaved, instance, posts>>
      /\ (credentials' = credentials \/ credentials' = FALSE)
  BY DEF RevokeCredentials, Unsettled
<1>2. NodeTyped' /\ NodeSettles
  <2>1. credentials' \in BOOLEAN /\ (~credentials => ~credentials')
    <3>1. credentials \in BOOLEAN
      BY DEF NodeInv, NodeTyped
    <3>2. CASE credentials' = credentials
      BY <3>1, <3>2, Zenon
    <3>3. CASE credentials' = FALSE
      BY <3>3, Zenon
    <3> QED
      BY <1>1, <3>2, <3>3, Zenon
  <2>2. NodeTyped'
    BY <1>1, <2>1 DEF NodeInv, NodeTyped
  <2> QED
    BY <1>1, <2>1, <2>2 DEF NodeSettles, Moved
<1>3. Records'
  BY <1>1, <1>2, KnownStays DEF NodeInv, Records, Known, KnownNext
<1>4. Told' /\ work' = [work EXCEPT ![r] = Nothing]
  <2>1. CASE ~credentials' /\ Returns(r, "credentials-revoked")
    BY <1>1, <1>2, <2>1, ReturnsTells DEF KnownNext, Ended
  <2>2. CASE Returns(r, "not-applied")
    BY <1>1, <1>2, <2>2, ReturnsTells, NothingIsKnown
  <2> QED
    BY <2>1, <2>2 DEF RevokeCredentials
<1>5. ActionClaimed' <=> ActionClaimed
  BY AuditKinds DEF RevokeCredentials, ActionClaimed
<1>6. OneClaim'
  BY <1>1, <1>4, <1>5, ClaimStays DEF NodeInv, Told, Nothing, Moved
<1> QED
  BY <1>2, <1>3, <1>4, <1>6 DEF NodeRest

\* The claim is given once, on an empty node, and not under a cancellation.
LEMMA StartProviderKeeps ==
    ASSUME NodeInv, NEW r \in Requests, StartProvider(r)
    PROVE  NodeRest'
<1>1. UNCHANGED <<type, effect, facts, cancellation, terms, retirement, bootstrap,
                  active, move, pending, unsaved, credentials, instance, posts>>
  BY DEF StartProvider, Unsettled
<1>2. NodeSettles
  BY <1>1 DEF NodeSettles, Moved
<1>3. run' \in {run, "rebuilding", "retiring"}
  BY DEF StartProvider, ClaimProvider
<1>4. NodeTyped' /\ Records'
  BY <1>1, <1>3 DEF NodeInv, NodeTyped, Records, Known, Runs, Ended, Moved
<1>5. CASE /\ ProviderAdmissible
           /\ audited' = audited \cup {<<"provider-action", "claimed">>}
           /\ Continues(r, "claimed")
  <2>1. Told' /\ work' = [work EXCEPT ![r] = "claimed"]
    BY <1>1, <1>2, <1>5, ContinuesTells, NothingIsKnown DEF Works, Continues, Learns
  <2>2. /\ ActionClaimed' /\ ~ActionClaimed
        /\ Resolved' /\ cancellation' = "none" /\ facts'.phase = "destructive-step-running"
    BY <1>1, <1>5 DEF ActionClaimed, ProviderAdmissible, Clear, Resolved, CancellationStands
  <2>3. posts' = 0 /\ \A q \in Requests : ~Sending(q)
    BY <1>1, <2>2 DEF NodeInv, OneClaim
  <2>4. \A q \in Requests : Sending(q)' => q = r
    BY <2>1, <2>3 DEF NodeInv, Told, Sending
  <2>5. OneClaim'
    BY <2>2, <2>3, <2>4 DEF OneClaim
  <2> QED
    BY <1>4, <2>1, <2>5 DEF NodeRest
<1>6. CASE UNCHANGED audited /\ (Fails(r) \/ Continues(r, "reading"))
  <2>1. Told' /\ \E w \in {"reading", Nothing} : work' = [work EXCEPT ![r] = w]
    BY <1>1, <1>2, <1>6, ContinuesTells, FailsTells, NothingIsKnown
       DEF Works, Continues, Learns
  <2>2. OneClaim'
    BY <1>1, <1>6, <2>1, ClaimStays DEF NodeInv, Told, ActionClaimed, Nothing, Moved
  <2> QED
    BY <1>4, <2>1, <2>2 DEF NodeRest
<1> QED
  BY <1>5, <1>6 DEF StartProvider, ClaimProvider

LEMMA PrepareRebuildKeeps ==
    ASSUME NodeInv, NEW r \in Requests, PrepareRebuild(r)
    PROVE  NodeRest'
<1>1. /\ UNCHANGED <<type, effect, facts, cancellation, terms, run, retirement,
                     active, move, pending, unsaved, instance, posts>>
      /\ (credentials' = credentials \/ credentials' = FALSE) /\ bootstrap' \in {bootstrap, "prepared"}
      /\ work[r] = "claimed"
  BY DEF PrepareRebuild, Unsettled
<1>2. NodeTyped' /\ NodeSettles
  <2>1. credentials' \in BOOLEAN /\ (~credentials => ~credentials')
    <3>1. credentials \in BOOLEAN
      BY DEF NodeInv, NodeTyped
    <3>2. CASE credentials' = credentials
      BY <3>1, <3>2, Zenon
    <3>3. CASE credentials' = FALSE
      BY <3>3, Zenon
    <3> QED
      BY <1>1, <3>2, <3>3, Zenon
  <2>2. NodeTyped'
    BY <1>1, <2>1 DEF NodeInv, NodeTyped
  <2> QED
    BY <1>1, <2>1, <2>2 DEF NodeSettles, Moved
<1>3. Records'
  BY <1>1, <1>2, KnownStays DEF NodeInv, Records, Known, KnownNext
<1>4. Told' /\ \E w \in {"prepared", Nothing} : work' = [work EXCEPT ![r] = w]
  <2>1. CASE Continues(r, "prepared")
    BY <1>1, <1>2, <2>1, ContinuesTells, NothingIsKnown DEF Works, Continues, Learns
  <2>2. CASE Fails(r)
    BY <1>1, <1>2, <2>2, FailsTells
  <2> QED
    BY <2>1, <2>2 DEF PrepareRebuild
<1>5. ActionClaimed' <=> ActionClaimed
  BY AuditKinds DEF PrepareRebuild, ActionClaimed
<1>6. OneClaim'
  BY <1>1, <1>4, <1>5, ClaimStays DEF NodeInv, Told, Sending, Nothing, Moved
<1> QED
  BY <1>2, <1>3, <1>4, <1>6 DEF NodeRest

\* Who asks the provider holds the claim, and is the first to ask.
LEMMA PostKeeps ==
    ASSUME NodeInv, NEW r \in Requests, Post(r)
    PROVE  NodeRest'
<1>1. /\ UNCHANGED <<type, effect, facts, cancellation, terms, run, retirement, bootstrap,
                     audited, active, move, pending, unsaved, credentials>>
      /\ instance' \in {"present", "leaving", "rebuilding"} /\ posts' = posts + 1
      /\ Sending(r) /\ \E w \in {"reading", "cancel-scheduled"} : Continues(r, w)
  BY DEF Post, Unsettled, Sending
<1>2. PICK w \in {"reading", "cancel-scheduled"} : Continues(r, w)
  BY <1>1
<1>3. w \in Works /\ KnownNext(w)
  BY NothingIsKnown DEF Works, Retirements, Ended
<1>4. posts = 0 /\ ActionClaimed /\ instance = "present" /\ posts' = 1
  BY <1>1 DEF NodeInv, OneClaim, Records
<1>5. NodeTyped' /\ NodeSettles
  BY <1>1, <1>4 DEF NodeInv, NodeTyped, NodeSettles, Moved
<1>6. Records'
  BY <1>1, <1>4, <1>5, KnownStays DEF NodeInv, Records, Known, KnownNext
<1>7. Told' /\ work' = [work EXCEPT ![r] = w]
  BY <1>1, <1>2, <1>3, <1>5, ContinuesTells DEF Continues, Learns
<1>8. \A q \in Requests : ~Sending(q)'
  BY <1>1, <1>7 DEF NodeInv, OneClaim, Told, Sending
<1>9. OneClaim'
  BY <1>1, <1>4, <1>8 DEF NodeInv, OneClaim, ActionClaimed, Resolved, Moved
<1> QED
  BY <1>5, <1>6, <1>7, <1>9 DEF NodeRest

\* What is read of the provider is so, as long as nobody sends the instance back.
LEMMA ReadProviderKeeps ==
    ASSUME NodeInv, NEW r \in Requests, ReadProvider(r)
    PROVE  NodeRest'
<1>1. /\ UNCHANGED <<type, effect, facts, cancellation, terms, run, retirement, bootstrap,
                     audited, active, move, pending, unsaved, credentials, instance, posts>>
  BY DEF ReadProvider, Unsettled
<1>2. NodeTyped' /\ Records' /\ NodeSettles
  BY <1>1, Standing
<1>3. \E w \in Retirements \cup Readings : Continues(r, w) /\ KnownNext(w)
  <2>1. RetirementSeen \in Retirements /\ KnownNext(RetirementSeen)
    BY <1>1 DEF RetirementSeen, Retirements, Ended, KnownNext
  <2>2. "ambiguous" \in Retirements /\ KnownNext("ambiguous")
    BY NothingIsKnown DEF Retirements, Ended
  <2>3. \A seen \in {RebuildSeen, "unknown"} : seen \in Readings /\ KnownNext(seen)
    BY NothingIsKnown DEF RebuildSeen, Readings
  <2> QED
    BY <2>1, <2>2, <2>3 DEF ReadProvider
<1>4. PICK w \in Retirements \cup Readings : Continues(r, w) /\ KnownNext(w)
  BY <1>3
<1>5. Told' /\ work' = [work EXCEPT ![r] = w]
  BY <1>1, <1>2, <1>4, ContinuesTells DEF Works, Continues, Learns
<1>6. w \notin {"claimed", "prepared"}
  BY <1>4 DEF Retirements, Ended, Readings
<1>7. OneClaim'
  BY <1>1, <1>5, <1>6, ClaimStays DEF NodeInv, Told, ActionClaimed, Moved
<1> QED
  BY <1>2, <1>5, <1>7 DEF NodeRest

LEMMA RecordRetirementKeeps ==
    ASSUME NodeInv, NEW r \in Requests, RecordRetirement(r)
    PROVE  NodeRest'
<1>1. /\ UNCHANGED <<type, effect, facts, cancellation, terms, bootstrap, active, move, pending,
                     unsaved, credentials, instance, posts>>
      /\ work[r] \in Retirements /\ KnownNext(work[r])
  BY KnownStays DEF RecordRetirement, Unsettled, NodeInv, Told, KnownNext, Known, Moved
<1>2. NodeSettles
  BY <1>1 DEF NodeSettles, Moved
<1>3. /\ run' \in {run, "cancel-scheduled", "blocked", "awaiting-provider-confirmation",
                   "retiring"}
      /\ retirement' \in {retirement, work[r]}
  BY <1>1 DEF RecordRetirement, RunRetired, Retirements
<1>4. NodeTyped'
  BY <1>1, <1>3 DEF NodeInv, NodeTyped, Runs, DrainTargets
<1>5. Records'
  <2>1. KnownNext(run')
    BY <1>2, <1>3, KnownStays DEF NodeInv, Records, KnownNext, Ended
  <2>2. KnownNext(retirement')
    BY <1>1, <1>2, <1>3, KnownStays DEF NodeInv, Records
  <2> QED
    BY <1>1, <2>1, <2>2 DEF NodeInv, Records, Known, KnownNext
<1>6. Told' /\ work' = [work EXCEPT ![r] = Nothing]
  BY <1>1, <1>2, ReturnsTells, FailsTells, NothingIsKnown DEF RecordRetirement, Unproven
<1>7. ActionClaimed' <=> ActionClaimed
  BY AuditKinds DEF RecordRetirement, ActionClaimed
<1>8. OneClaim'
  BY <1>1, <1>6, <1>7, ClaimStays DEF NodeInv, Told, Nothing, Moved
<1> QED
  BY <1>4, <1>5, <1>6, <1>8 DEF NodeRest

LEMMA RecordRebuildKeeps ==
    ASSUME NodeInv, NEW r \in Requests, RecordRebuild(r)
    PROVE  NodeRest'
<1>1. /\ UNCHANGED <<type, effect, facts, cancellation, terms, retirement, active, move, pending,
                     unsaved, credentials, instance, posts>>
      /\ work[r] \in Readings
  BY DEF RecordRebuild, Unsettled
<1>2. NodeSettles
  BY <1>1 DEF NodeSettles, Moved
<1>3. /\ run' \in {run, "awaiting-agent", "rebuilding"}
      /\ bootstrap' \in {bootstrap, "awaiting-agent", "provider-rebuilding", "blocked"}
  BY <1>1 DEF RecordRebuild, BootstrapAfter, Readings
<1>4. NodeTyped'
  BY <1>1, <1>3 DEF NodeInv, NodeTyped, Runs
<1>5. Records'
  BY <1>1, <1>3 DEF NodeInv, Records, Known, Ended, Moved
<1>6. Told' /\ work' = [work EXCEPT ![r] = Nothing]
  BY <1>1, <1>2, ReturnsTells, FailsTells, NothingIsKnown DEF RecordRebuild, Unproven
<1>7. ActionClaimed' <=> ActionClaimed
  BY AuditKinds DEF RecordRebuild, ActionClaimed
<1>8. OneClaim'
  BY <1>1, <1>6, <1>7, ClaimStays DEF NodeInv, Told, Nothing, Moved
<1> QED
  BY <1>4, <1>5, <1>6, <1>8 DEF NodeRest

LEMMA NodeEffectKeeps ==
    ASSUME NodeInv, NEW r \in Requests, NodeEffect(r)
    PROVE  NodeRest'
  BY ReadDrainKeeps, CommitDrainKeeps, LooksKeep, RevokeCredentialsKeeps, StartProviderKeeps,
     PrepareRebuildKeeps, PostKeeps, ReadProviderKeeps, RecordRetirementKeeps,
     RecordRebuildKeeps DEF NodeEffect

-----------------------------------------------------------------------------
(* The node workflows are signed steps *)

\* What a request does in its step is one of the effects the steps leave open.
LEMMA NodeEffectIsEffect ==
    ASSUME NodeInv, NEW r \in Requests, NodeEffect(r)
    PROVE  Effect(r)
<1>1. At(r, "executing") \/ At(r, "observing")
  BY DEF NodeEffect, ReadDrain, CommitDrain, ObserveDrain, Checkpoint, RevokeCredentials,
         StartProvider, PrepareRebuild, Post, ReadProvider, AdoptProvider, RecordRetirement,
         RecordRebuild, Executes, Observes, ExecutesDrain, ObservesDrain
<1>2. Progress
  BY DEF NodeEffect, ReadDrain, CommitDrain, ObserveDrain, Checkpoint, RevokeCredentials,
         StartProvider, ClaimProvider, PrepareRebuild, Post, ReadProvider, AdoptProvider,
         RecordRetirement, RecordRebuild, Unsettled, OperationMoves, DrainStatus, Progress
<1>3. CASE Answer(r, "failed")
  BY <1>1, <1>2, <1>3 DEF Effect
<1>4. CASE UNCHANGED <<handler, workflow>>
  BY <1>1, <1>2, <1>4 DEF Effect
<1>5. ASSUME At(r, "executing"), NEW o \in Outcomes, Returns(r, o)
      PROVE  Effect(r)
  BY <1>2, <1>5 DEF Effect, Returns, EffectReturns
<1>6. ASSUME At(r, "observing"), NEW o \in Findings, Returns(r, o)
      PROVE  Effect(r)
  BY <1>2, <1>6 DEF Effect, Returns, At
<1>7. /\ DrainTargets \cup Ended \subseteq Outcomes
      /\ {"preconditions-pending", "credentials-revoked", "provider-rebuild-active"}
            \subseteq Outcomes
      /\ Outcomes \cup {"not-applied", "unknown"} \subseteq Findings
  BY NodeAssumption DEF NodeAssumption, NodeOutcomes, Findings
<1>8. \/ Answer(r, "failed") \/ UNCHANGED <<handler, workflow>>
      \/ At(r, "executing") /\ \E o \in Outcomes : Returns(r, o)
      \/ At(r, "observing") /\ \E o \in Findings : Returns(r, o)
  <2>1. CASE ReadDrain(r)
    BY <1>7, <2>1 DEF ReadDrain, ExecutesDrain, Executes, Continues, DrainTargets
  <2>2. CASE CommitDrain(r)
    BY <1>7, <2>2 DEF CommitDrain, ExecutesDrain, Executes, Fails
  <2>3. CASE ObserveDrain(r)
    BY <1>7, <2>3 DEF ObserveDrain, ObservesDrain, Observes
  <2>4. CASE Checkpoint(r)
    BY <1>7, <2>4 DEF Checkpoint, Executes, Observes, At
  <2>5. CASE RevokeCredentials(r)
    BY <1>7, <2>5 DEF RevokeCredentials, Executes, Observes
  <2>6. CASE AdoptProvider(r)
    BY <1>7, <2>6 DEF AdoptProvider, Observes
  <2>7. CASE RecordRetirement(r)
    BY <1>1, <1>7, <2>7 DEF RecordRetirement, Unproven, Fails
  <2>8. CASE RecordRebuild(r)
    BY <1>1, <1>7, <2>8 DEF RecordRebuild, Unproven, Fails
  <2>9. CASE StartProvider(r) \/ PrepareRebuild(r) \/ Post(r) \/ ReadProvider(r)
    BY <2>9 DEF StartProvider, ClaimProvider, PrepareRebuild, Post, ReadProvider, Continues,
                Fails
  <2> QED
    BY <2>1, <2>2, <2>3, <2>4, <2>5, <2>6, <2>7, <2>8, <2>9 DEF NodeEffect
<1> QED
  BY <1>3, <1>4, <1>5, <1>6, <1>8

LEMMA NodeStepIsStep ==
    ASSUME NodeInv, [NodeNext]_vars
    PROVE  [StepsNext]_stepVars
  BY NodeEffectIsEffect
     DEF NodeNext, StepsNext, MoveGoesOn, ForcedCleanup, BackupTaken,
         ProviderMoves, vars

-----------------------------------------------------------------------------
(* What the steps and the node do by themselves *)

\* Once the provider may be asked, no claim, completion or cancellation opens
\* the way to a cancellation again.
LEMMA PhaseStays ==
    ASSUME StepsInv, StepsInv', NEW r \in Requests,
           Call(r) \/ GiveUp(r) \/ FenceStep(r) \/ Crash(r),
           cancellation = "none", facts.phase \in {"destructive-step-running", "terminal"}
    PROVE  /\ cancellation' = "none"
           /\ facts'.phase \in {"destructive-step-running", "terminal"}
<1>1. facts.phase \notin Policies /\ OwnPhase \in Policies
  BY StepsAssumption DEF StepsAssumption, StepsInv, RowsOK, OwnPhase, Policies
<1>2. CASE Claim(r)
  BY <1>1, <1>2 DEF Claim, Claimable
<1>3. CASE Complete(r)
  <2>1. CASE UNCHANGED facts
    BY <1>3, <2>1 DEF Complete
  <2>2. CASE Completable(r) /\ facts'.phase = PhaseAfter(Ordinal(r))
    <3>1. Ordinal(r) \in Ordinals /\ step[Ordinal(r)].state = "running"
      BY <1>3, <2>2, StepTyped DEF Complete, At, Completable, HoldsLease, StepOf
    <3>2. Ordinal(r) \in Destructive[type]
      BY <3>1 DEF StepsInv, RowsOK, RunningPhase
    <3> QED
      BY <1>3, <2>2, <3>2 DEF Complete, PhaseAfter
  <2> QED
    BY <1>3, <2>1, <2>2 DEF Complete
<1>4. CASE FinalizeCancellation(r)
  BY <1>4 DEF FinalizeCancellation
<1>5. CASE Call(r) \/ GiveUp(r) \/ Crash(r) \/ ReadClaim(r) \/ Resolve(r) \/ RecordEffect(r)
  BY <1>5 DEF Call, GiveUp, Crash, ReadClaim, Resolve, RecordEffect
<1> QED
  BY <1>2, <1>3, <1>4, <1>5 DEF FenceStep

\* What a request says of its effect is put on record as it says it.
LEMMA StepsTell ==
    ASSUME StepsInv, NEW r \in Requests,
           Call(r) \/ GiveUp(r) \/ FenceStep(r) \/ Crash(r)
    PROVE  /\ \A q \in Requests : handler'[q].pc \in {"recording", "resolving"} =>
                handler'[q] = handler[q]
           /\ \A n \in Ordinals :
                \/ effect'[n] = effect[n]
                \/ /\ At(r, "recording") \/ At(r, "resolving")
                   /\ effect'[n].outcome = handler[r].outcome
<1>1. /\ handler \in [Requests -> Handler \cup {AtRest}]
      /\ effect \in [Ordinals -> Evidence \cup {NoEvidence}]
  BY DEF StepsInv, RowsOK, FlowOK
<1>2. \A q \in Requests : handler'[q].pc \in {"recording", "resolving"} =>
         handler'[q] = handler[q]
  <2>1. \/ UNCHANGED handler
        \/ handler' = [handler EXCEPT ![r] = AtRest]
        \/ \E pc \in Stages \ {"recording", "resolving"} : \E n, a, v, o :
             handler' = [handler EXCEPT ![r] =
                           [pc |-> pc, ordinal |-> n, attempt |-> a,
                            revision |-> v, outcome |-> o]]
    <3>1. CASE Call(r) \/ GiveUp(r) \/ Crash(r)
      BY <3>1 DEF Call, GiveUp, Crash, Answer, Stages
    <3>2. CASE ReadClaim(r) \/ Claim(r)
      BY <3>2 DEF ReadClaim, Claim, FollowRow, GoTo, Enter, Answer, Stages
    <3>3. CASE Resolve(r) \/ RecordEffect(r)
      BY <3>3 DEF Resolve, RecordEffect, GoTo, Enter, Answer, Stages
    <3>4. CASE Complete(r) \/ FinalizeCancellation(r)
      BY <3>4 DEF Complete, FinalizeCancellation, Answer
    <3> QED
      BY <3>1, <3>2, <3>3, <3>4 DEF FenceStep
  <2> QED
    BY <1>1, <2>1 DEF AtRest
<1>3. \A n \in Ordinals :
         \/ effect'[n] = effect[n]
         \/ /\ At(r, "recording") \/ At(r, "resolving")
            /\ effect'[n].outcome = handler[r].outcome
  <2>1. \/ UNCHANGED effect
        \/ /\ At(r, "recording") \/ At(r, "resolving")
           /\ effect' = [effect EXCEPT ![Ordinal(r)] = Attested(r, handler[r].outcome)]
    BY DEF Call, GiveUp, Crash, FenceStep, ReadClaim, Claim, Resolve, RecordEffect, Complete, FinalizeCancellation
  <2> QED
    BY <1>1, <2>1 DEF Attested
<1> QED
  BY <1>2, <1>3

LEMMA StepMovesKeep ==
    ASSUME NodeInv, StepsInv', NEW r \in Requests,
           Call(r) \/ GiveUp(r) \/ FenceStep(r) \/ Crash(r),
           NodeStands,
           UNCHANGED work \/ Learns(r, Nothing)
    PROVE  NodeRest'
<1>1. StepsInv /\ type' = type /\ Ordinals' = Ordinals
  BY DEF NodeInv, Call, GiveUp, Crash, FenceStep, ReadClaim, Claim, Resolve, RecordEffect,
         Complete, FinalizeCancellation, Ordinals
<1>2. NodeTyped' /\ Records' /\ NodeSettles
  BY <1>1, Standing DEF NodeStands
<1>3. /\ work' \in [Requests -> Works]
      /\ \A q \in Requests : work'[q] \in {work[q], Nothing}
  BY DEF Learns, NodeInv, Told, Works
<1>4. Told'
  <2>1. \A q \in Requests : KnownNext(work'[q])
    BY <1>2, <1>3, KnownStays, NothingIsKnown DEF NodeInv, Told
  <2>2. \A q \in Requests : handler'[q].pc \in {"recording", "resolving"} =>
           KnownNext(handler'[q].outcome)
    BY <1>1, <1>2, StepsTell, KnownStays DEF NodeInv, Told, At
  <2>3. \A n \in Ordinals : KnownNext(effect'[n].outcome)
    <3>1. \A n \in Ordinals : Known(effect'[n].outcome)
      BY <1>1, StepsTell DEF NodeInv, Told
    <3> QED
      BY <1>2, <3>1, KnownStays
  <2> QED
    BY <1>1, <1>3, <2>1, <2>2, <2>3 DEF Told, At, Known, KnownNext
<1>5. OneClaim'
  <2>1. \A q \in Requests : Sending(q)' => Sending(q)
    BY <1>3 DEF Sending, Nothing
  <2>2. ActionClaimed => /\ cancellation' = "none"
                        /\ facts'.phase \in {"destructive-step-running", "terminal"}
    BY <1>1, PhaseStays DEF NodeInv, OneClaim
  <2> QED
    BY <2>1, <2>2 DEF NodeInv, OneClaim, NodeStands, ActionClaimed, Resolved, Moved
<1> QED
  BY <1>2, <1>4, <1>5 DEF NodeRest

\* What happens without a request: a cancellation finds no claim.
LEMMA UnattendedKeep ==
    ASSUME NodeInv, UNCHANGED nodeVars,
           \/ RequestCancellation \/ TerminateWorkflow
           \/ \E n \in Ordinals : LeaseLapses(n)
           \/ UNCHANGED stepVars
    PROVE  NodeRest'
<1>1. /\ UNCHANGED <<type, handler, effect, facts>> /\ Ordinals' = Ordinals
      /\ cancellation' = cancellation \/ facts.phase = OwnPhase
  BY DEF RequestCancellation, Cancellable, TerminateWorkflow, LeaseLapses, stepVars, Ordinals
<1>2. NodeTyped' /\ Records'
  BY <1>1, Standing DEF nodeVars
<1>3. Told'
  BY <1>1 DEF nodeVars, NodeInv, Told, Known, At, Moved
<1>4. ActionClaimed => cancellation' = cancellation
  BY <1>1, StepsAssumption
     DEF NodeInv, OneClaim, StepsInv, RowsOK, StepsAssumption, OwnPhase, Policies
<1>5. OneClaim'
  BY <1>1, <1>4 DEF nodeVars, NodeInv, OneClaim, ActionClaimed, Sending, Resolved, Moved
<1> QED
  BY <1>2, <1>3, <1>5 DEF NodeRest

\* A move brings only itself, and remains one that has come through.
LEMMA MovesAreMoved ==
    ASSUME NodeInv, NEW s \in Servers, MoveGoesOn(s)
    PROVE  /\ active' \subseteq active \cup Moved' /\ Moved \subseteq Moved'
           /\ active' \in SUBSET Servers /\ move' \in [Servers -> MovePhases]
<1>1. /\ \A q \in active' : q \in active \/ q = s
      /\ active' # active => move'[s] \in {"cutover", "settled"}
      /\ active' = active \/ s \notin active \/ active' = active \ {s}
  BY DEF MoveGoesOn, Other, NodeInv, NodeTyped
<1>2. /\ move' \in [Servers -> MovePhases]
      /\ \A q \in Servers : move[q] \in {"cutover", "settled"} =>
            move'[q] \in {"cutover", "settled"}
  BY DEF MoveGoesOn, NodeInv, NodeTyped, MovePhases
<1> QED
  BY <1>1, <1>2 DEF Moved, NodeInv, NodeTyped

\* Moves, clean-ups, backups and the provider leave what is known so.
LEMMA SurroundingsKeep ==
    ASSUME NodeInv,
           \/ \E s \in Servers : MoveGoesOn(s) \/ ForcedCleanup(s) \/ BackupTaken(s)
           \/ ProviderMoves
    PROVE  NodeRest'
<1>1. /\ UNCHANGED <<type, effect, handler, facts, cancellation, terms, run, retirement,
                     bootstrap, audited, credentials, posts, work>>
      /\ active' \subseteq active \cup Moved' /\ Moved \subseteq Moved'
      /\ active' \in SUBSET Servers /\ move' \in [Servers -> MovePhases]
      /\ pending' \subseteq pending /\ unsaved' \subseteq unsaved
      /\ \/ instance' = instance
         \/ instance = "leaving" /\ instance' = "gone"
         \/ instance = "rebuilding" /\ instance' = "rebuilt"
  <2>1. CASE \E s \in Servers : MoveGoesOn(s)
    BY <2>1, MovesAreMoved DEF MoveGoesOn, stepVars
  <2>2. CASE \/ \E s \in Servers : ForcedCleanup(s) \/ BackupTaken(s)
             \/ ProviderMoves
    BY <2>2 DEF ForcedCleanup, BackupTaken, ProviderMoves, stepVars, Moved,
                NodeInv, NodeTyped
  <2> QED
    BY <2>1, <2>2
<1>2. NodeSettles
  BY <1>1 DEF NodeSettles
<1>3. NodeTyped'
  BY <1>1 DEF NodeInv, NodeTyped, Moved
<1>4. Records'
  BY <1>1, <1>2, KnownStays DEF NodeInv, Records, Known, KnownNext
<1>5. OneClaim'
  BY <1>1 DEF NodeInv, OneClaim, ActionClaimed, Sending, Resolved
<1>6. Told'
  <2>1. \A q \in Requests : KnownNext(work[q])
    BY <1>2, KnownStays DEF NodeInv, Told
  <2>2. \A q \in Requests : handler[q].pc \in {"recording", "resolving"} =>
           KnownNext(handler[q].outcome)
    BY <1>2, KnownStays DEF NodeInv, Told, At
  <2>3. \A n \in Ordinals : KnownNext(effect[n].outcome)
    BY <1>2, KnownStays DEF NodeInv, Told
  <2> QED
    BY <1>1, <2>1, <2>2, <2>3 DEF NodeInv, Told, At, Known, KnownNext, Ordinals
<1> QED
  BY <1>3, <1>4, <1>5, <1>6 DEF NodeRest

LEMMA NodeInitEstablishes == NodeInit => NodeInv
<1> SUFFICES ASSUME NodeInit PROVE NodeInv
  OBVIOUS
<1>1. StepsInit /\ StepsInv
  BY StepsInitEstablishes DEF NodeInit
<1>2. NodeTyped
  BY DEF NodeInit, NodeTyped, Runs, DrainTargets, MovePhases
<1>3. OneClaim
  BY DEF NodeInit, OneClaim, ActionClaimed, Sending, Nothing
<1>4. Records
  BY DEF NodeInit, Records, Known, Ended
<1>5. Told
  BY <1>1 DEF NodeInit, StepsInit, Told, Works, Known, Ended, Nothing, At, AtRest, NoEvidence
<1> QED
  BY <1>1, <1>2, <1>3, <1>4, <1>5 DEF NodeInv

LEMMA NodeNextPreserves == NodeInv /\ [NodeNext]_vars => NodeInv'
<1> SUFFICES ASSUME NodeInv, [NodeNext]_vars PROVE NodeInv'
  OBVIOUS
<1>1. StepsInv'
  BY NodeStepIsStep, StepsNextPreserves DEF NodeInv
<1>2. ASSUME NEW r \in Requests, NodeEffect(r) PROVE NodeRest'
  BY <1>2, NodeEffectKeeps
<1>3. ASSUME NEW r \in Requests, Call(r) \/ GiveUp(r) \/ FenceStep(r), UNCHANGED nodeVars
      PROVE  NodeRest'
  BY <1>1, <1>3, StepMovesKeep DEF nodeVars, NodeStands
<1>4. ASSUME NEW r \in Requests, Crash(r), NodeStands, Learns(r, Nothing)
      PROVE  NodeRest'
  BY <1>1, <1>4, StepMovesKeep
<1>5. ASSUME \/ RequestCancellation \/ TerminateWorkflow
             \/ \E n \in Ordinals : LeaseLapses(n),
             UNCHANGED nodeVars
      PROVE  NodeRest'
  BY <1>5, UnattendedKeep
<1>6. ASSUME UNCHANGED vars PROVE NodeRest'
  BY <1>6, UnattendedKeep DEF vars
<1>7. NodeRest'
  BY <1>2, <1>3, <1>4, <1>5, <1>6, SurroundingsKeep DEF NodeNext
<1> QED
  BY <1>1, <1>7 DEF NodeInv, NodeRest

-----------------------------------------------------------------------------
(* Theorems *)

\* What the claims, the requests and the records of a node run say of each other
\* holds after every action of the workflow, the node and the provider.
THEOREM NodeInvHolds == NodeSpec => []NodeInv
<1>1. NodeInit => NodeInv
  BY NodeInitEstablishes
<1>2. NodeInv /\ [NodeNext]_vars => NodeInv'
  BY NodeNextPreserves
<1> QED
  BY <1>1, <1>2, PTL DEF NodeSpec

\* The drain, rebuild and retirement of a node are signed steps: whatever is
\* known of those holds of them (the executor of lifecycle-termination-workflow
\* over the runtime of apps/api).
THEOREM NodeRefinesSteps == NodeSpec => StepsSpec
<1>1. NodeInit => StepsInit
  BY DEF NodeInit
<1>2. NodeInv /\ [NodeNext]_vars => [StepsNext]_stepVars
  BY NodeStepIsStep
<1> QED
  BY <1>1, <1>2, NodeInvHolds, PTL DEF NodeSpec, StepsSpec

\* Hence they implement the ledger of signed steps.
THEOREM NodeRefinesLedger == NodeSpec => ImplementsStepLedger
  BY NodeRefinesSteps, StepsRefineLedger

\* The tables of the run, the requests and the provider keep their types.
THEOREM TerminationTypeCorrect == NodeSpec => []TerminationTypeOK
<1>1. NodeInv => TerminationTypeOK
  BY DEF NodeInv, StepsInv, RowsOK, FlowOK, StepsTypeOK, NodeTyped, OneClaim, Told,
         TerminationTypeOK, Works, Runs
<1> QED
  BY <1>1, NodeInvHolds, PTL

\* The provider is asked once, however often leases run out, answers are lost
\* and the step is called again (claimNodeProviderDestructiveAction).
THEOREM ProviderIsAskedOnce == NodeSpec => []OneProviderMutation
<1>1. NodeInv => OneProviderMutation
  BY DEF NodeInv, OneClaim, OneProviderMutation
<1> QED
  BY <1>1, NodeInvHolds, PTL

\* The provider is asked when the node was found empty with its backups there (the
\* guard of migration 0019 on the provider's destructive action); only moves that
\* were under way may have brought a server since.
THEOREM ProviderIsAskedOnEmptyNode == NodeSpec => []ProviderActsOnEmptyNode
<1>1. NodeInv => ProviderActsOnEmptyNode
  BY DEF NodeInv, OneClaim, Resolved, ProviderActsOnEmptyNode
<1> QED
  BY <1>1, NodeInvHolds, PTL

\* The evidence of a step is so when it is stored and stays so.
THEOREM EvidenceStaysTrue == NodeSpec => []EvidenceIsTrue
<1>1. NodeInv => EvidenceIsTrue
  BY DEF NodeInv, Told, Known, EvidenceIsTrue
<1> QED
  BY <1>1, NodeInvHolds, PTL

\* A cancellation is accepted only while the provider was not asked, and keeps
\* it from being asked (requestCancellation against the claim of the step).
THEOREM CancellationPrecedesProvider == NodeSpec => []CancelledBeforeProvider
<1>1. NodeInv => CancelledBeforeProvider
  BY DEF NodeInv, OneClaim, CancelledBeforeProvider
<1> QED
  BY <1>1, NodeInvHolds, PTL

-----------------------------------------------------------------------------
(* When a node loses its credentials *)

\* A retirement revokes them in a step of its own; a rebuild with the insert of
\* its bootstrap, which only the holder of the provider claim comes to.
RevokedInTurn ==
    ~credentials => \/ type = "retire-node"
                    \/ type = "rebuild-node" /\ ActionClaimed

\* A drain never revokes the credentials of its node, and a rebuild only after
\* the provider claim, which no cancellation can follow and which found every
\* server resolved and its backup there.  Of a retirement it is not so
\* (RevokedOnlyWhenDrained).
RevocationFollowsClaim ==
    ~credentials /\ type # "retire-node" =>
        /\ type = "rebuild-node"
        /\ active \subseteq Moved /\ pending = {} /\ unsaved = {}
        /\ cancellation = "none"

\* The names of the steps tell the workflows apart.
LEMMA NamesTellTypes ==
    ASSUME NodeInv, NEW r \in Requests
    PROVE  /\ Executes(r, "revoke-node-credentials") => type = "retire-node"
           /\ Executes(r, "rebuild-provider-instance") => type = "rebuild-node"
<1>. SUFFICES ASSUME At(r, "executing")
              PROVE  LET name == StepNames[type][Ordinal(r)]
                     IN  /\ name = "revoke-node-credentials" => type = "retire-node"
                         /\ name = "rebuild-provider-instance" => type = "rebuild-node"
  BY DEF Executes
<1>1. type \in NodeTypes
  BY NodeAssumption DEF NodeInv, StepsInv, RowsOK, NodeAssumption
<1>2. Ordinal(r) \in 1..Len(StepNames[type])
  <2>1. handler[r] # AtRest
    BY DEF At, AtRest
  <2>. QED BY <1>1, <2>1, NodeAssumption
           DEF NodeInv, StepsInv, FlowOK, Ordinals, NodeAssumption, NodeLast
<1>3. /\ StepNames["rebuild-node"] =
             <<"drain-node", "verify-backups", "rebuild-provider-instance",
               "bootstrap-node", "verify-agent">>
      /\ StepNames["retire-node"] =
             <<"drain-node", "verify-retention-policy", "revoke-node-credentials",
               "delete-provider-instance", "cleanup-networking">>
      /\ \A t \in Standalone : StepNames[t] = <<"complete-node-drain">>
  BY DEF StepNames, NodeTypes, Standalone
<1>4. CASE type = "rebuild-node"
  BY <1>2, <1>3, <1>4
<1>5. CASE type = "retire-node"
  BY <1>2, <1>3, <1>5
<1>6. CASE type \in Standalone
  BY <1>2, <1>3, <1>6
<1>. QED BY <1>1, <1>4, <1>5, <1>6 DEF NodeTypes, Standalone

\* No audit operation is ever deleted.
LEMMA ClaimIsKept ==
    ASSUME NodeInv, [NodeNext]_vars PROVE type' = type /\ (ActionClaimed => ActionClaimed')
<1>1. ASSUME NEW r \in Requests, NodeEffect(r) PROVE type' = type /\ audited \subseteq audited'
  BY <1>1 DEF NodeEffect, ReadDrain, CommitDrain, ObserveDrain, Checkpoint, RevokeCredentials,
         StartProvider, ClaimProvider, PrepareRebuild, Post, ReadProvider, AdoptProvider,
         RecordRetirement, RecordRebuild, Unsettled
<1>2. ASSUME NEW r \in Requests, Call(r) \/ GiveUp(r) \/ FenceStep(r) \/ Crash(r),
             audited' = audited
      PROVE  type' = type
  BY <1>2 DEF Call, GiveUp, Crash, FenceStep, ReadClaim, Claim, Resolve, RecordEffect,
              Complete, FinalizeCancellation
<1>3. ASSUME \/ RequestCancellation \/ TerminateWorkflow
             \/ \E n \in Ordinals : LeaseLapses(n)
      PROVE  type' = type
  BY <1>3 DEF RequestCancellation, TerminateWorkflow, LeaseLapses
<1>4. ASSUME \/ \E s \in Servers : MoveGoesOn(s) \/ ForcedCleanup(s) \/ BackupTaken(s)
             \/ ProviderMoves
      PROVE  type' = type /\ audited' = audited
  BY <1>4 DEF MoveGoesOn, ForcedCleanup, BackupTaken, ProviderMoves, stepVars
<1>. QED BY <1>1, <1>2, <1>3, <1>4
         DEF NodeNext, NodeStands, nodeVars, vars, stepVars, ActionClaimed

\* Two actions revoke the credentials of a node.
LEMMA RevocationSteps ==
    ASSUME [NodeNext]_vars, credentials' # credentials
    PROVE  \E r \in Requests :
              \/ Executes(r, "revoke-node-credentials")
              \/ Executes(r, "rebuild-provider-instance") /\ work[r] = "claimed"
<1>1. ASSUME NEW r \in Requests, NodeEffect(r)
      PROVE  \/ Executes(r, "revoke-node-credentials")
             \/ Executes(r, "rebuild-provider-instance") /\ work[r] = "claimed"
  BY <1>1 DEF NodeEffect, ReadDrain, CommitDrain, ObserveDrain, Checkpoint, RevokeCredentials,
         StartProvider, PrepareRebuild, Post, ReadProvider, AdoptProvider, RecordRetirement,
         RecordRebuild
<1>2. ~\E s \in Servers : MoveGoesOn(s) \/ ForcedCleanup(s) \/ BackupTaken(s)
  BY DEF MoveGoesOn, ForcedCleanup, BackupTaken
<1>3. ~ProviderMoves
  BY DEF ProviderMoves
<1>. QED BY <1>1, <1>2, <1>3 DEF NodeNext, NodeStands, nodeVars, vars

LEMMA RevokedInTurnStays ==
    ASSUME NodeInv, RevokedInTurn, [NodeNext]_vars PROVE RevokedInTurn'
<1>1. type' = type /\ (ActionClaimed => ActionClaimed')
  BY ClaimIsKept
<1>2. CASE credentials' = credentials
  BY <1>1, <1>2 DEF RevokedInTurn
<1>3. CASE credentials' # credentials
  <2>1. PICK r \in Requests :
            \/ Executes(r, "revoke-node-credentials")
            \/ Executes(r, "rebuild-provider-instance") /\ work[r] = "claimed"
    BY <1>3, RevocationSteps
  <2>2. \/ type = "retire-node"
        \/ type = "rebuild-node" /\ ActionClaimed
    BY <2>1, NamesTellTypes DEF NodeInv, OneClaim, Sending
  <2>. QED BY <1>1, <2>2 DEF RevokedInTurn
<1>. QED BY <1>2, <1>3

\* Only a retirement revokes the credentials of a node that may not be empty.
THEOREM RevocationsFollowClaims == NodeSpec => []RevocationFollowsClaim
<1>1. NodeInit => RevokedInTurn
  BY DEF NodeInit, RevokedInTurn
<1>2. NodeInv /\ RevokedInTurn /\ [NodeNext]_vars => RevokedInTurn'
  BY RevokedInTurnStays
<1>3. NodeInv /\ RevokedInTurn => RevocationFollowsClaim
  BY DEF NodeInv, OneClaim, Resolved, RevokedInTurn, RevocationFollowsClaim
<1>. QED BY <1>1, <1>2, <1>3, NodeInvHolds, PTL DEF NodeSpec

-----------------------------------------------------------------------------
(* How rebuilds and retirements end *)

\* Steps stand behind the provider action, and nothing follows it: a rebuild or a
\* retirement that calls itself complete was cancelled (completeStep, mayClaimStep).
RebuildsEndUnfinished ==
    workflow.state = "complete" /\ type \notin Standalone => cancellation = "cancelled"

\* Both have a provider action and a step after it.
LEMMA StepsStandBehind ==
    ASSUME type \in NodeTypes \ Standalone, Last = NodeLast, Destructive = NodeDestructive
    PROVE  \E m \in DestructiveOrdinals, n \in Ordinals : m < n
<1>1. /\ StepNames["rebuild-node"] =
             <<"drain-node", "verify-backups", "rebuild-provider-instance",
               "bootstrap-node", "verify-agent">>
      /\ StepNames["retire-node"] =
             <<"drain-node", "verify-retention-policy", "revoke-node-credentials",
               "delete-provider-instance", "cleanup-networking">>
  BY DEF StepNames, NodeTypes
<1>2. /\ Ordinals = 1..Len(StepNames[type])
      /\ Destructive[type] =
             {n \in 1..Len(StepNames[type]) :
                  StepNames[type][n] \in {"rebuild-provider-instance",
                                          "delete-provider-instance"}}
  BY DEF Ordinals, NodeLast, NodeDestructive
<1>3. CASE type = "rebuild-node"
  <2>1. Len(StepNames[type]) = 5 /\ StepNames[type][3] = "rebuild-provider-instance"
    BY <1>1, <1>3
  <2>2. 3 \in DestructiveOrdinals /\ 5 \in Ordinals
    BY <1>2, <2>1 DEF DestructiveOrdinals
  <2>. QED BY <2>2
<1>4. CASE type = "retire-node"
  <2>1. Len(StepNames[type]) = 5 /\ StepNames[type][4] = "delete-provider-instance"
    BY <1>1, <1>4
  <2>2. 4 \in DestructiveOrdinals /\ 5 \in Ordinals
    BY <1>2, <2>1 DEF DestructiveOrdinals
  <2>. QED BY <2>2
<1>. QED BY <1>3, <1>4 DEF NodeTypes, Standalone

\* No rebuild and no retirement comes to its end uncancelled, for any number of
\* requests: the formal side of the steps that can never be claimed.
THEOREM RebuildsNeverFinish == NodeSpec => []RebuildsEndUnfinished
<1>1. NodeInv /\ CompleteMeansDone /\ DestructionIsLast => RebuildsEndUnfinished
  <2>. SUFFICES ASSUME NodeInv, CompleteMeansDone, DestructionIsLast,
                       type \notin Standalone,
                       \A n \in Ordinals : Completed(n)
                PROVE  FALSE
    BY DEF CompleteMeansDone, RebuildsEndUnfinished
  <2>1. type \in NodeTypes
    BY NodeAssumption DEF NodeInv, StepsInv, RowsOK, NodeAssumption
  <2>2. PICK m \in DestructiveOrdinals, n \in Ordinals : m < n
    BY <2>1, StepsStandBehind, NodeAssumption DEF NodeAssumption
  <2>. QED BY <2>2 DEF DestructionIsLast, Begun, Completed
<1>. QED BY <1>1, NodeRefinesSteps, CompleteWorkflowsAreDone, NothingFollowsDestruction,
            NodeInvHolds, PTL
=============================================================================
