------------------------ MODULE AgentCommandsProofs ------------------------
(***************************************************************************)
(* The agent's guarantees for every set of commands, resources and         *)
(* processes on one command-state file.  AgentInv adds to the checked      *)
(* invariants what a process carries between two transactions: the claim   *)
(* may have moved on under it, the effects and the result have not.        *)
(***************************************************************************)
EXTENDS AgentCommands, TLAPS

\* A claim is filed under the key of its command; a receipt has its key, and
\* if it advanced a resource, the revision after the one that was expected.
ClaimsAreFiled ==
    \A k \in Keys : claim[k] # NoClaim =>
        /\ Key[claim[k].command] = k
        /\ Receipt(k) => /\ claim[k].result \in Result
                         /\ claim[k].result.key = k
        /\ Success(k) /\ claim[k].result.revision # NoRevision =>
             /\ Prior[claim[k].command] \in Nat
             /\ claim[k].result.revision = Prior[claim[k].command] + 1

\* What a process is about to store or to answer, it may.
CarriedResultsAreSound ==
    \A p \in Processes :
        /\ At(p, "executed") => Cmd(p) \in applied
        /\ At(p, "storing") => handler[p].result.key = Key[Cmd(p)]
        /\ At(p, "storing") /\ handler[p].result.status = "succeeded" =>
             /\ Cmd(p) \in applied
             /\ handler[p].result.revision = NextRevision(Cmd(p))

\* The command has a receipt of its success.
Stored(c) == Success(Key[c]) /\ claim[Key[c]].command = c

AgentInv ==
    /\ AgentTypeOK
    /\ ClaimsAreFiled
    /\ CarriedResultsAreSound
    /\ RevisionIsLatestReceipt
    /\ OneSuccessPerRevision
    /\ SuccessWasApplied

\* The initial state satisfies the inductive invariant.
LEMMA AgentInitInv == AgentInit => AgentInv
BY DEF AgentInit, AgentInv, AgentTypeOK, ClaimsAreFiled, CarriedResultsAreSound,
       RevisionIsLatestReceipt, OneSuccessPerRevision, SuccessWasApplied, AtRest,
       NoClaim, Advanced, Success, Receipt, At

\* A revision of the table is one that a result can carry.
LEMMA CurrentRevisionIsTyped ==
    ASSUME AgentInv, NEW r \in Resources PROVE revision[r] \in Revisions
<1>1. CASE revision[r] = 0
  BY <1>1 DEF Revisions
<1>2. CASE revision[r] # 0
  <2>0. revision[r] \in 1 .. revision[r]
    BY <1>2 DEF AgentInv, AgentTypeOK
  <2>1. PICK k \in Keys : Receipt(k) /\ claim[k].result.revision = revision[r]
    BY <2>0 DEF AgentInv, RevisionIsLatestReceipt, Advanced, Success
  <2>2. claim[k].result \in Result
    BY <2>1 DEF AgentInv, ClaimsAreFiled, Receipt, NoClaim
  <2>. QED BY <2>1, <2>2 DEF Result
<1>. QED BY <1>1, <1>2

-----------------------------------------------------------------------------
(* Steps that change no receipt and no revision *)

\* What such a step has to keep for the invariant to survive it: claims filed,
\* receipts as they are, and the carried results sound.
LEMMA QuietSteps ==
    ASSUME AgentInv, AgentTypeOK', CarriedResultsAreSound',
           UNCHANGED revision, applied \subseteq applied',
           \A k \in Keys : /\ Receipt(k) \/ Receipt(k)' => claim'[k] = claim[k]
                           /\ claim'[k] # NoClaim => Key[claim'[k].command] = k,
           \A p \in Processes :
              handler'[p].pc = "answering" /\ handler'[p].result.status = "succeeded"
              => handler'[p] = handler[p] \/ Stored(handler'[p].command)
    PROVE  AgentInv'
<1>. USE ProtocolAssumption
<1>1. \A k \in Keys : Success(k)' <=> Success(k)
  BY DEF Success, Receipt
<1>2. \A k \in Keys : Receipt(k) => claim'[k] = claim[k] /\ claim[k] # NoClaim
  BY DEF Receipt, NoClaim
<1>3. ClaimsAreFiled'
  BY <1>1, <1>2 DEF AgentInv, ClaimsAreFiled, Success, Receipt
<1>4. \A r \in Resources : Advanced(r)' = Advanced(r)
  BY <1>1, <1>2 DEF Advanced, Success
<1>5. RevisionIsLatestReceipt'
  BY <1>2, <1>4 DEF AgentInv, RevisionIsLatestReceipt, Advanced, Success
<1>6. OneSuccessPerRevision'
  BY <1>2, <1>4 DEF AgentInv, OneSuccessPerRevision, Advanced, Success
<1>7. SuccessWasApplied'
  <2>1. \A k \in Keys : Success(k)' => claim'[k].command \in applied'
    BY <1>1, <1>2 DEF AgentInv, SuccessWasApplied, Success
  <2>2. ASSUME NEW p \in Processes, handler'[p].pc = "answering",
               handler'[p].result.status = "succeeded"
        PROVE  Cmd(p)' \in applied' /\ Stored(Cmd(p))'
    <3>1. Key[Cmd(p)'] \in Keys
      BY <2>2 DEF AgentTypeOK, Handler, AtRest, Cmd
    <3>2. Stored(Cmd(p)')
      BY <2>2 DEF AgentInv, SuccessWasApplied, Stored, At, Cmd
    <3>3. claim'[Key[Cmd(p)']] = claim[Key[Cmd(p)']]
      BY <1>2, <3>1, <3>2 DEF Stored, Success
    <3>4. Stored(Cmd(p))'
      BY <3>2, <3>3 DEF Stored, Success, Receipt
    <3>5. Cmd(p)' \in applied
      BY <3>1, <3>2 DEF AgentInv, SuccessWasApplied, Stored
    <3>. QED BY <3>4, <3>5
  <2>. QED BY <2>1, <2>2 DEF SuccessWasApplied, Stored, At, Cmd
<1>. QED BY <1>3, <1>5, <1>6, <1>7 DEF AgentInv

\* A process that is not at rest works on a command it received.
LEMMA BusyProcess ==
    ASSUME AgentTypeOK, NEW p \in Processes, ~At(p, "idle")
    PROVE  /\ Cmd(p) \in Commands
           /\ Key[Cmd(p)] \in Keys
           /\ Resource[Cmd(p)] \in Resources
           /\ handler[p].stamp \in Stamps
BY ProtocolAssumption DEF AgentTypeOK, Handler, AtRest, At, Cmd

\* The results a handling makes are results of its command.
LEMMA ResultsAreTyped ==
    ASSUME AgentTypeOK, NEW p \in Processes, ~At(p, "idle"),
           NEW status \in Status, NEW code \in Code, NEW rev \in Revisions
    PROVE  /\ Outcome(p, status, code, rev) \in Result
           /\ RejectedResult(Cmd(p), code, handler[p].stamp) \in Result
BY BusyProcess DEF Outcome, RejectedResult, Result, Status, Revisions

\* A step of one process that leaves the file alone preserves the invariant
\* when what the process carries on is sound.
LEMMA ProcessMoves ==
    ASSUME AgentInv, UNCHANGED <<claim, revision>>,
           applied \subseteq applied', applied' \subseteq Commands,
           lapsed' \subseteq Commands,
           NEW p \in Processes, NEW h \in Handler \cup {AtRest},
           handler' = [handler EXCEPT ![p] = h],
           h.pc = "executed" => h.command \in applied',
           h.pc = "storing" => h.result.key = Key[h.command],
           h.pc = "storing" /\ h.result.status = "succeeded" =>
              /\ h.command \in applied'
              /\ h.result.revision = NextRevision(h.command),
           h.pc = "answering" /\ h.result.status = "succeeded" => Stored(h.command)
    PROVE  AgentInv'
<1>1. AgentTypeOK'
  BY DEF AgentInv, AgentTypeOK
<1>2. \A q \in Processes : handler'[q] = IF q = p THEN h ELSE handler[q]
  BY DEF AgentInv, AgentTypeOK
<1>3. CarriedResultsAreSound'
  BY <1>2 DEF AgentInv, CarriedResultsAreSound, At, Cmd
<1>4. \A k \in Keys : /\ claim'[k] = claim[k]
                      /\ claim'[k] # NoClaim => Key[claim'[k].command] = k
  BY DEF AgentInv, ClaimsAreFiled
<1>. QED BY <1>1, <1>2, <1>3, <1>4, QuietSteps

\* The steps of a handling between its transactions.
LEMMA ProcessSteps ==
    ASSUME AgentInv, NEW p \in Processes,
           \/ \E c \in Commands, stamp \in Stamps : Receive(p, c, stamp)
           \/ RefuseEnvelope(p) \/ AnswerFromClaim(p) \/ Validate(p)
           \/ Apply(p) \/ ExecutionSucceeds(p) \/ ExecutionFails(p)
           \/ UpdateResponsePending(p) \/ CompletionFails(p)
           \/ Acknowledge(p) \/ Crash(p)
    PROVE  AgentInv'
<1>. USE ProtocolAssumption
<1>0. AgentTypeOK /\ applied \subseteq Commands /\ lapsed \subseteq Commands
  BY DEF AgentInv, AgentTypeOK
<1>1. CASE \E c \in Commands, stamp \in Stamps : Receive(p, c, stamp)
  <2>1. PICK c \in Commands, stamp \in Stamps : Receive(p, c, stamp)
    BY <1>1
  <2>. DEFINE h == [pc |-> "received", command |-> c, stamp |-> stamp]
  <2>2. h \in Handler
    BY DEF Handler
  <2>. QED BY <1>0, <2>1, <2>2, ProcessMoves DEF Receive
<1>2. ASSUME NEW code \in Code, Reject(p, code), ~At(p, "idle"),
             UNCHANGED <<claim, revision, lapsed, applied>>
      PROVE  AgentInv'
  <2>. DEFINE r == RejectedResult(Cmd(p), code, handler[p].stamp)
              h == [pc |-> "answering", command |-> Cmd(p),
                    stamp |-> handler[p].stamp, result |-> r]
  <2>1. r \in Result /\ r.status # "succeeded"
    BY <1>0, <1>2, ResultsAreTyped, SMT DEF Status, RejectedResult, Revisions
  <2>2. h \in Handler
    BY <1>0, <1>2, <2>1, BusyProcess DEF Handler
  <2>3. handler' = [handler EXCEPT ![p] = h]
    BY <1>2 DEF Reject, Carry
  <2>. HIDE DEF r
  <2>. QED BY <1>0, <1>2, <2>1, <2>2, <2>3, ProcessMoves
<1>3. ASSUME NEW status \in {"failed", "rejected"}, NEW code \in Code, ~At(p, "idle"),
             Carry(p, "storing", Outcome(p, status, code, CurrentRevision(p))),
             UNCHANGED <<claim, revision, lapsed, applied>>
      PROVE  AgentInv'
  <2>. DEFINE r == Outcome(p, status, code, CurrentRevision(p))
              h == [pc |-> "storing", command |-> Cmd(p),
                    stamp |-> handler[p].stamp, result |-> r]
  <2>1. r \in Result /\ r.status # "succeeded" /\ r.key = Key[Cmd(p)]
    <3>1. CurrentRevision(p) \in Revisions
      BY <1>0, <1>3, BusyProcess, CurrentRevisionIsTyped DEF CurrentRevision
    <3>. QED BY <1>0, <1>3, <3>1, ResultsAreTyped DEF Status, Outcome
  <2>2. h \in Handler
    BY <1>0, <1>3, <2>1, BusyProcess DEF Handler
  <2>3. handler' = [handler EXCEPT ![p] = h]
    BY <1>3 DEF Carry
  <2>. HIDE DEF r
  <2>. QED BY <1>0, <1>3, <2>1, <2>2, <2>3, ProcessMoves
<1>4. ASSUME Rest(p), UNCHANGED <<claim, revision, lapsed, applied>>
      PROVE  AgentInv'
  BY <1>0, <1>4, ProcessMoves DEF Rest, AtRest
<1>5. CASE RefuseEnvelope(p)
  BY <1>2, <1>5 DEF RefuseEnvelope, At, Code
<1>6. CASE AnswerFromClaim(p)
  <2>1. ~At(p, "idle") /\ UNCHANGED <<claim, revision, lapsed, applied>>
    BY <1>6 DEF AnswerFromClaim, At
  <2>2. CASE Reject(p, "payload-mismatch")
    BY <1>2, <2>1, <2>2 DEF Code
  <2>3. CASE Rest(p)
    BY <1>4, <2>1, <2>3
  <2>4. CASE /\ ClaimOf(p) # NoClaim
             /\ ClaimOf(p).command = Cmd(p)
             /\ ClaimOf(p).state = "completed"
             /\ Carry(p, "answering", [ClaimOf(p).result EXCEPT !.duplicate = TRUE])
    <3>. DEFINE r == [ClaimOf(p).result EXCEPT !.duplicate = TRUE]
                h == [pc |-> "answering", command |-> Cmd(p),
                      stamp |-> handler[p].stamp, result |-> r]
    <3>1. ClaimOf(p).result \in Result
      BY <1>0, <2>1, <2>4, BusyProcess DEF AgentInv, ClaimsAreFiled, ClaimOf, Receipt
    <3>2. r \in Result /\ r.status = ClaimOf(p).result.status
      BY <3>1 DEF Result
    <3>3. h \in Handler
      BY <1>0, <2>1, <3>2, BusyProcess DEF Handler
    <3>4. handler' = [handler EXCEPT ![p] = h]
      BY <2>4 DEF Carry
    <3>5. r.status = "succeeded" => Stored(Cmd(p))
      BY <2>4, <3>2 DEF Stored, Success, Receipt, ClaimOf
    <3>. HIDE DEF r
    <3>. QED BY <1>0, <2>1, <3>3, <3>4, <3>5, ProcessMoves
  <2>. QED BY <1>6, <2>2, <2>3, <2>4 DEF AnswerFromClaim, HasReceipt
<1>7. ASSUME NEW pc \in {"executing", "executed"}, GoTo(p, pc), ~At(p, "idle"),
             UNCHANGED <<claim, revision, lapsed>>,
             applied \subseteq applied', applied' \subseteq Commands,
             pc = "executed" => Cmd(p) \in applied'
      PROVE  AgentInv'
  <2>. DEFINE h == [pc |-> pc, command |-> Cmd(p), stamp |-> handler[p].stamp]
  <2>1. h \in Handler
    BY <1>0, <1>7, BusyProcess DEF Handler
  <2>2. handler' = [handler EXCEPT ![p] = h]
    BY <1>7 DEF GoTo
  <2>. QED BY <1>0, <1>7, <2>1, <2>2, ProcessMoves
<1>8. CASE Validate(p)
  <2>1. ~At(p, "idle") /\ UNCHANGED <<claim, revision, lapsed, applied>>
    BY <1>8 DEF Validate, At
  <2>2. CASE GoTo(p, "executing")
    BY <1>0, <1>7, <2>1, <2>2
  <2>3. CASE \E code \in Code :
               Carry(p, "storing", Outcome(p, "rejected", code, CurrentRevision(p)))
    BY <1>3, <2>1, <2>3
  <2>. QED BY <1>8, <2>2, <2>3 DEF Validate, Code
<1>9. CASE Apply(p)
  <2>1. ~At(p, "idle")
    BY <1>9 DEF Apply, At
  <2>. QED BY <1>0, <1>7, <1>9, <2>1, BusyProcess DEF Apply
<1>10. CASE ExecutionSucceeds(p)
  <2>. DEFINE r == Outcome(p, "succeeded", "done", NextRevision(Cmd(p)))
              h == [pc |-> "storing", command |-> Cmd(p),
                    stamp |-> handler[p].stamp, result |-> r]
  <2>1. ~At(p, "idle") /\ Cmd(p) \in applied
    BY <1>10 DEF ExecutionSucceeds, At, AgentInv, CarriedResultsAreSound
  <2>2. NextRevision(Cmd(p)) \in Revisions
    BY <1>0, <2>1, BusyProcess DEF Revisions
  <2>3. r \in Result
    BY <1>0, <2>1, <2>2, ResultsAreTyped DEF Status, Code
  <2>4. r.key = Key[Cmd(p)] /\ r.revision = NextRevision(Cmd(p))
    BY DEF Outcome
  <2>5. h \in Handler
    BY <1>0, <2>1, <2>3, BusyProcess DEF Handler
  <2>6. handler' = [handler EXCEPT ![p] = h] /\ UNCHANGED <<claim, revision, lapsed, applied>>
    BY <1>10 DEF ExecutionSucceeds, Carry
  <2>. HIDE DEF r
  <2>. QED BY <1>0, <2>1, <2>4, <2>5, <2>6, ProcessMoves
<1>11. CASE ExecutionFails(p)
  <2>1. ~At(p, "idle") /\ UNCHANGED <<claim, revision, lapsed, applied>>
    BY <1>11 DEF ExecutionFails, Working, At
  <2>. QED BY <1>3, <1>11, <2>1 DEF ExecutionFails, Failed, Code
<1>12. CASE CompletionFails(p)
  BY <1>2, <1>12 DEF CompletionFails, At, Code
<1>13. CASE UpdateResponsePending(p) \/ Acknowledge(p) \/ Crash(p)
  BY <1>4, <1>13 DEF UpdateResponsePending, Acknowledge, Crash
<1>. QED BY <1>1, <1>5, <1>6, <1>8, <1>9, <1>10, <1>11, <1>12, <1>13

-----------------------------------------------------------------------------
(* Steps that change claims *)

\* A claim taken, renewed or run out is not a receipt and was not one before.
LEMMA ClaimSteps ==
    ASSUME AgentInv,
           \/ \E p \in Processes : TakeClaim(p) \/ Renew(p)
           \/ \E k \in Keys : LeaseLapses(k)
    PROVE  AgentInv'
<1>. USE ProtocolAssumption
<1>1. ASSUME NEW p \in Processes, TakeClaim(p) PROVE AgentInv'
  <2>. DEFINE d == [state |-> "in_progress", command |-> Cmd(p), live |-> TRUE,
                    holder |-> p, result |-> NoResult]
              h == [pc |-> "claimed", command |-> Cmd(p), stamp |-> handler[p].stamp]
  <2>1. Cmd(p) \in Commands /\ Key[Cmd(p)] \in Keys /\ handler[p].stamp \in Stamps
    BY <1>1, BusyProcess DEF TakeClaim, At, AgentInv
  <2>2. d \in Claim /\ h \in Handler
    BY <2>1 DEF Claim, Handler
  <2>3. /\ claim' = [claim EXCEPT ![Key[Cmd(p)]] = d]
        /\ handler' = [handler EXCEPT ![p] = h]
        /\ UNCHANGED <<revision, lapsed, applied>>
    BY <1>1 DEF TakeClaim, GoTo
  <2>4. AgentTypeOK'
    BY <2>1, <2>2, <2>3 DEF AgentInv, AgentTypeOK
  <2>5. ~Receipt(Key[Cmd(p)])
    BY <1>1 DEF TakeClaim, Claimable, ClaimOf, Receipt, NoClaim
  <2>6. \A k \in Keys : /\ Receipt(k) \/ Receipt(k)' => claim'[k] = claim[k]
                        /\ claim'[k] # NoClaim => Key[claim'[k].command] = k
    BY <2>1, <2>3, <2>5 DEF AgentInv, AgentTypeOK, ClaimsAreFiled, Receipt
  <2>7. \A q \in Processes : handler'[q] = IF q = p THEN h ELSE handler[q]
    BY <2>3 DEF AgentInv, AgentTypeOK
  <2>8. CarriedResultsAreSound'
    BY <2>3, <2>7 DEF AgentInv, CarriedResultsAreSound, At, Cmd
  <2>9. \A q \in Processes : handler'[q].pc = "answering" => handler'[q] = handler[q]
    BY <2>7
  <2>10. UNCHANGED revision /\ applied \subseteq applied'
    BY <2>3
  <2>. QED BY <2>4, <2>6, <2>8, <2>9, <2>10, QuietSteps
<1>2. ASSUME NEW k \in Keys, NEW live \in BOOLEAN,
             claim[k].state = "in_progress",
             claim' = [claim EXCEPT ![k].live = live],
             UNCHANGED <<revision, handler, lapsed, applied>>
      PROVE  AgentInv'
  <2>1. claim[k] \in Claim
    BY <1>2 DEF AgentInv, AgentTypeOK, NoClaim
  <2>2. /\ claim'[k] \in Claim
        /\ claim'[k].state = "in_progress"
        /\ claim'[k].command = claim[k].command
        /\ \A j \in Keys \ {k} : claim'[j] = claim[j]
        /\ claim' = [j \in Keys |-> claim'[j]]
    BY <1>2, <2>1 DEF AgentInv, AgentTypeOK, Claim
  <2>3. AgentTypeOK'
    BY <1>2, <2>2 DEF AgentInv, AgentTypeOK
  <2>4. claim[k] # NoClaim
    BY <1>2 DEF NoClaim
  <2>5. \A j \in Keys : /\ Receipt(j) \/ Receipt(j)' => claim'[j] = claim[j]
                        /\ claim'[j] # NoClaim => Key[claim'[j].command] = j
    BY <1>2, <2>2, <2>4 DEF AgentInv, ClaimsAreFiled, Receipt
  <2>6. CarriedResultsAreSound'
    BY <1>2 DEF AgentInv, CarriedResultsAreSound, At, Cmd
  <2>. QED BY <1>2, <2>3, <2>5, <2>6, QuietSteps
<1>3. ASSUME NEW p \in Processes, Renew(p) PROVE AgentInv'
  <2>1. Key[Cmd(p)] \in Keys
    BY <1>3, BusyProcess DEF Renew, Working, At, AgentInv
  <2>. QED BY <1>2, <1>3, <2>1 DEF Renew, Holds, ClaimOf
<1>4. ASSUME NEW k \in Keys, LeaseLapses(k) PROVE AgentInv'
  BY <1>2, <1>4 DEF LeaseLapses
<1>. QED BY <1>1, <1>3, <1>4

-----------------------------------------------------------------------------
(* The completing transaction *)

\* What complete finds and leaves: the claim is open and its own, and only a
\* success that carries a revision moves one, from the expected to the next.
LEMMA CompleteFacts ==
    ASSUME AgentInv, NEW p \in Processes, Complete(p)
    PROVE  LET k == Key[Cmd(p)]
               r == Resource[Cmd(p)]
               res == handler[p].result
           IN  /\ k \in Keys /\ r \in Resources /\ res \in Result /\ res.key = k
               /\ claim[k] \in Claim
               /\ claim[k].state = "in_progress" /\ claim[k].command = Cmd(p)
               /\ claim'[k] \in Claim
               /\ claim'[k].state = "completed" /\ claim'[k].command = Cmd(p)
               /\ claim'[k].result = res
               /\ \A j \in Keys \ {k} : claim'[j] = claim[j]
               /\ claim' = [j \in Keys |-> claim'[j]]
               /\ res.status = "succeeded" => Cmd(p) \in applied
               /\ Advances(res) => /\ Prior[Cmd(p)] \in Nat
                                   /\ Prior[Cmd(p)] = revision[r]
                                   /\ res.revision = revision[r] + 1
                                   /\ revision' = [revision EXCEPT ![r] = res.revision]
               /\ ~Advances(res) => revision' = revision
<1>. USE ProtocolAssumption
<1>1. At(p, "storing") /\ ~At(p, "idle")
  BY DEF Complete, At
<1>2. /\ Cmd(p) \in Commands /\ Key[Cmd(p)] \in Keys /\ Resource[Cmd(p)] \in Resources
  BY <1>1, BusyProcess DEF AgentInv
<1>3. handler[p].result \in Result /\ handler[p].result.key = Key[Cmd(p)]
  BY <1>1 DEF AgentInv, AgentTypeOK, CarriedResultsAreSound, Handler, AtRest, At
<1>4. /\ claim[Key[Cmd(p)]].state = "in_progress"
      /\ claim[Key[Cmd(p)]].command = Cmd(p)
      /\ claim[Key[Cmd(p)]] \in Claim
  BY <1>2 DEF Complete, CanComplete, Holds, ClaimOf, AgentInv, AgentTypeOK, NoClaim
<1>5. /\ claim'[Key[Cmd(p)]] \in Claim
      /\ claim'[Key[Cmd(p)]].state = "completed"
      /\ claim'[Key[Cmd(p)]].command = Cmd(p)
      /\ claim'[Key[Cmd(p)]].result = handler[p].result
      /\ \A j \in Keys \ {Key[Cmd(p)]} : claim'[j] = claim[j]
      /\ claim' = [j \in Keys |-> claim'[j]]
  BY <1>2, <1>3, <1>4 DEF Complete, AgentInv, AgentTypeOK, Claim
<1>6. handler[p].result.status = "succeeded" =>
         /\ Cmd(p) \in applied
         /\ handler[p].result.revision = NextRevision(Cmd(p))
  BY <1>1 DEF AgentInv, CarriedResultsAreSound
<1>7. ASSUME Advances(handler[p].result)
      PROVE  /\ Prior[Cmd(p)] \in Nat
             /\ Prior[Cmd(p)] = revision[Resource[Cmd(p)]]
             /\ handler[p].result.revision = revision[Resource[Cmd(p)]] + 1
             /\ revision' = [revision EXCEPT ![Resource[Cmd(p)]] = handler[p].result.revision]
  <2>1. Monotonic(p)
    BY <1>7 DEF Complete, CanComplete
  <2>2. Prior[Cmd(p)] \in Nat /\ Prior[Cmd(p)] = revision[Resource[Cmd(p)]]
    BY <1>2, <2>1 DEF Monotonic, CurrentRevision, NoRevision
  <2>3. handler[p].result.revision = Prior[Cmd(p)] + 1
    BY <1>6, <1>7, <2>2 DEF Advances, NextRevision, NoRevision
  <2>. QED BY <1>7, <2>2, <2>3 DEF Complete
<1>8. ~Advances(handler[p].result) => revision' = revision
  BY DEF Complete
<1>. QED BY <1>2, <1>3, <1>4, <1>5, <1>6, <1>7, <1>8

\* complete preserves the invariant: the new success expected the revision it
\* found, so every earlier one of the resource expected a smaller one.
LEMMA CompletePreserves ==
    ASSUME AgentInv, NEW p \in Processes, Complete(p)
    PROVE  AgentInv'
<1>. USE ProtocolAssumption
<1>0. PICK k \in Keys, rs \in Resources, res \in Result :
         /\ k = Key[Cmd(p)]
         /\ rs = Resource[Cmd(p)]
         /\ res = handler[p].result
  BY CompleteFacts
<1>. DEFINE h == [pc |-> "answering", command |-> Cmd(p),
                  stamp |-> handler[p].stamp, result |-> res]
<1>1. /\ k \in Keys /\ rs \in Resources /\ res \in Result /\ res.key = k
      /\ claim[k] \in Claim
      /\ claim[k].state = "in_progress" /\ claim[k].command = Cmd(p)
      /\ claim'[k] \in Claim
      /\ claim'[k].state = "completed" /\ claim'[k].command = Cmd(p)
      /\ claim'[k].result = res
      /\ \A j \in Keys \ {k} : claim'[j] = claim[j]
      /\ claim' = [j \in Keys |-> claim'[j]]
      /\ res.status = "succeeded" => Cmd(p) \in applied
      /\ Advances(res) => /\ Prior[Cmd(p)] \in Nat
                          /\ Prior[Cmd(p)] = revision[rs]
                          /\ res.revision = revision[rs] + 1
                          /\ revision' = [revision EXCEPT ![rs] = res.revision]
      /\ ~Advances(res) => revision' = revision
  BY <1>0, CompleteFacts
<1>2. /\ Cmd(p) \in Commands /\ handler[p].stamp \in Stamps
  BY BusyProcess DEF Complete, At, AgentInv
<1>3. /\ h \in Handler
      /\ \A q \in Processes : handler'[q] = IF q = p THEN h ELSE handler[q]
      /\ handler' = [handler EXCEPT ![p] = h]
      /\ UNCHANGED <<lapsed, applied>>
  BY <1>0, <1>1, <1>2 DEF Complete, Carry, AgentInv, AgentTypeOK, Handler
<1>4. revision \in [Resources -> Nat] /\ applied \subseteq Commands
  BY DEF AgentInv, AgentTypeOK
<1>5. AgentTypeOK'
  BY <1>1, <1>3, <1>4 DEF AgentInv, AgentTypeOK
<1>6. \A j \in Keys : Success(j)' <=> IF j = k THEN res.status = "succeeded" ELSE Success(j)
  BY <1>1 DEF Success, Receipt
<1>7. ~Success(k) /\ claim[k] # NoClaim
  BY <1>1 DEF Success, Receipt, NoClaim
<1>8. ClaimsAreFiled'
  <2>1. Key[Cmd(p)] = k
    BY <1>0
  <2>. QED BY <1>1, <1>6, <2>1
           DEF AgentInv, ClaimsAreFiled, Advances, Receipt, Success
<1>9. CarriedResultsAreSound'
  BY <1>3 DEF AgentInv, CarriedResultsAreSound, At, Cmd
<1>10. \A r \in Resources :
          Advanced(r)' = IF Advances(res) /\ r = rs THEN Advanced(r) \cup {k}
                                                    ELSE Advanced(r)
  <2>1. Resource[claim'[k].command] = rs
    BY <1>0, <1>1
  <2>. QED BY <1>1, <1>6, <1>7, <2>1 DEF Advanced, Advances
<1>11. \A r \in Resources : \A j \in Advanced(r) :
          /\ claim'[j] = claim[j]
          /\ Prior[claim[j].command] \in Nat
          /\ claim[j].result.revision = Prior[claim[j].command] + 1
          /\ claim[j].result.revision <= revision[r]
  <2>. SUFFICES ASSUME NEW r \in Resources, NEW j \in Advanced(r)
                PROVE  /\ claim'[j] = claim[j]
                       /\ Prior[claim[j].command] \in Nat
                       /\ claim[j].result.revision = Prior[claim[j].command] + 1
                       /\ claim[j].result.revision <= revision[r]
    OBVIOUS
  <2>1. j \in Keys /\ j # k /\ claim[j] # NoClaim
    BY <1>7 DEF Advanced, Success, Receipt, NoClaim
  <2>. QED BY <1>1, <2>1
           DEF AgentInv, ClaimsAreFiled, RevisionIsLatestReceipt, Advanced
<1>12. RevisionIsLatestReceipt' /\ OneSuccessPerRevision'
  <2>1. CASE ~Advances(res)
    <3>1. \A r \in Resources : Advanced(r)' = Advanced(r) /\ revision'[r] = revision[r]
      BY <1>1, <1>10, <2>1
    <3>2. RevisionIsLatestReceipt'
      BY <1>11, <3>1 DEF AgentInv, RevisionIsLatestReceipt
    <3>3. OneSuccessPerRevision'
      BY <1>11, <3>1 DEF AgentInv, OneSuccessPerRevision
    <3>. QED BY <3>2, <3>3
  <2>2. CASE Advances(res)
    <3>1. /\ Advanced(rs)' = Advanced(rs) \cup {k}
          /\ revision'[rs] = revision[rs] + 1
          /\ \A r \in Resources \ {rs} : /\ Advanced(r)' = Advanced(r)
                                         /\ revision'[r] = revision[r]
          /\ Prior[claim'[k].command] = revision[rs]
          /\ claim'[k].result.revision = revision[rs] + 1
          /\ revision[rs] \in Nat
      BY <1>1, <1>4, <1>10, <2>2
    <3>2. ASSUME NEW j \in Advanced(rs)
          PROVE  Prior[claim[j].command] < revision[rs]
      BY <1>1, <1>11, <3>1, <3>2
    <3>3. RevisionIsLatestReceipt'
      <4>1. ASSUME NEW j \in Advanced(rs)'
            PROVE  claim'[j].result.revision <= revision'[rs]
        BY <1>1, <1>11, <3>1, <4>1
      <4>2. ASSUME NEW n \in 1 .. revision'[rs]
            PROVE  \E j \in Advanced(rs)' : claim'[j].result.revision = n
        <5>1. CASE n = revision[rs] + 1
          BY <3>1, <5>1
        <5>2. CASE n # revision[rs] + 1
          <6>1. n \in 1 .. revision[rs]
            BY <3>1, <5>2
          <6>2. PICK j \in Advanced(rs) : claim[j].result.revision = n
            BY <6>1, <1>1 DEF AgentInv, RevisionIsLatestReceipt
          <6>. QED BY <1>11, <1>1, <3>1, <6>2
        <5>. QED BY <5>1, <5>2
      <4>3. ASSUME NEW r \in Resources \ {rs}
            PROVE  /\ \A j \in Advanced(r)' : claim'[j].result.revision <= revision'[r]
                   /\ \A n \in 1 .. revision'[r] :
                         \E j \in Advanced(r)' : claim'[j].result.revision = n
        BY <1>11, <3>1, <4>3 DEF AgentInv, RevisionIsLatestReceipt
      <4>. QED BY <4>1, <4>2, <4>3 DEF RevisionIsLatestReceipt
    <3>4. OneSuccessPerRevision'
      <4>1. ASSUME NEW i \in Advanced(rs)', NEW j \in Advanced(rs)',
                   Prior[claim'[i].command] = Prior[claim'[j].command]
            PROVE  i = j
        BY <1>1, <1>11, <3>1, <3>2, <4>1 DEF AgentInv, OneSuccessPerRevision
      <4>2. ASSUME NEW r \in Resources \ {rs},
                   NEW i \in Advanced(r)', NEW j \in Advanced(r)',
                   Prior[claim'[i].command] = Prior[claim'[j].command]
            PROVE  i = j
        BY <1>11, <3>1, <4>2 DEF AgentInv, OneSuccessPerRevision
      <4>. QED BY <4>1, <4>2 DEF OneSuccessPerRevision
    <3>. QED BY <3>3, <3>4
  <2>. QED BY <2>1, <2>2
<1>13. SuccessWasApplied'
  <2>1. \A j \in Keys : Success(j)' => claim'[j].command \in applied'
    BY <1>1, <1>3, <1>6 DEF AgentInv, SuccessWasApplied
  <2>2. ASSUME NEW q \in Processes, handler'[q].pc = "answering",
               handler'[q].result.status = "succeeded"
        PROVE  Cmd(q)' \in applied' /\ Stored(Cmd(q))'
    <3>1. CASE q = p
      <4>1. Cmd(q)' = Cmd(p) /\ handler'[q].result = res
        BY <1>3, <3>1 DEF Cmd
      <4>2. Key[Cmd(p)] = k
        BY <1>0
      <4>. QED BY <1>1, <1>3, <2>2, <4>1, <4>2 DEF Stored, Success, Receipt
    <3>2. CASE q # p
      <4>1. handler'[q] = handler[q] /\ Cmd(q)' = Cmd(q) /\ At(q, "answering")
        BY <1>3, <2>2, <3>2 DEF Cmd, At
      <4>2. Cmd(q) \in applied /\ Success(Key[Cmd(q)]) /\ claim[Key[Cmd(q)]].command = Cmd(q)
        BY <2>2, <4>1 DEF AgentInv, SuccessWasApplied
      <4>3. Key[Cmd(q)] \in Keys
        BY <4>1, BusyProcess DEF AgentInv, At
      <4>4. claim'[Key[Cmd(q)]] = claim[Key[Cmd(q)]]
        BY <1>1, <1>7, <4>2, <4>3
      <4>. QED BY <1>3, <4>1, <4>2, <4>4 DEF Stored, Success, Receipt
    <3>. QED BY <3>1, <3>2
  <2>. QED BY <2>1, <2>2 DEF SuccessWasApplied, Stored, At, Cmd
<1>. QED BY <1>5, <1>8, <1>9, <1>12, <1>13 DEF AgentInv

-----------------------------------------------------------------------------
(* Theorems *)

\* The invariant is inductive.
LEMMA AgentInvInductive ==
    ASSUME AgentInv, [AgentNext]_agentVars PROVE AgentInv'
<1>1. ASSUME NEW p \in Processes,
             \/ \E c \in Commands, stamp \in Stamps : Receive(p, c, stamp)
             \/ HandlerStep(p) \/ Renew(p) \/ Acknowledge(p) \/ Crash(p)
      PROVE  AgentInv'
  BY <1>1, ProcessSteps, ClaimSteps, CompletePreserves DEF HandlerStep
<1>2. ASSUME NEW k \in Keys, LeaseLapses(k) PROVE AgentInv'
  BY <1>2, ClaimSteps
<1>3. ASSUME NEW c \in Commands, Lapse(c) PROVE AgentInv'
  <2>1. AgentTypeOK' /\ CarriedResultsAreSound'
    BY <1>3 DEF Lapse, AgentInv, AgentTypeOK, CarriedResultsAreSound, At, Cmd
  <2>. QED BY <1>3, <2>1, QuietSteps DEF Lapse, AgentInv, ClaimsAreFiled
<1>4. CASE UNCHANGED agentVars
  <2>1. AgentTypeOK' /\ CarriedResultsAreSound'
    BY <1>4 DEF agentVars, AgentInv, AgentTypeOK, CarriedResultsAreSound, At, Cmd
  <2>. QED BY <1>4, <2>1, QuietSteps DEF agentVars, AgentInv, ClaimsAreFiled
<1>. QED BY <1>1, <1>2, <1>3, <1>4 DEF AgentNext

\* Every reachable state of the agent satisfies the invariant.
THEOREM AgentInvHolds == AgentSpec => []AgentInv
<1>1. AgentInit => AgentInv
  BY AgentInitInv
<1>2. AgentInv /\ [AgentNext]_agentVars => AgentInv'
  BY AgentInvInductive
<1>. QED BY <1>1, <1>2, PTL DEF AgentSpec

\* The command-state file and what the processes carry keep their types.
THEOREM AgentTypeCorrect == AgentSpec => []AgentTypeOK
<1>1. AgentInv => AgentTypeOK
  BY DEF AgentInv
<1>. QED BY <1>1, AgentInvHolds, PTL

\* With any number of processes on one file, overlapping executions store at
\* most one success for each revision of a resource.
THEOREM NoLostUpdate == AgentSpec => []OneSuccessPerRevision
<1>1. AgentInv => OneSuccessPerRevision
  BY DEF AgentInv
<1>. QED BY <1>1, AgentInvHolds, PTL

\* The revisions table is what the receipts say.
THEOREM RevisionsMatchReceipts == AgentSpec => []RevisionIsLatestReceipt
<1>1. AgentInv => RevisionIsLatestReceipt
  BY DEF AgentInv
<1>. QED BY <1>1, AgentInvHolds, PTL

\* No success is stored or answered for effects that did not happen.
THEOREM SuccessesAreReal == AgentSpec => []SuccessWasApplied
<1>1. AgentInv => SuccessWasApplied
  BY DEF AgentInv
<1>. QED BY <1>1, AgentInvHolds, PTL

\* No step writes over a receipt.
LEMMA ReceiptsStay ==
    ASSUME AgentInv, AgentNext, NEW k \in Keys, Receipt(k)
    PROVE  claim'[k] = claim[k]
<1>. SUFFICES ASSUME claim' # claim PROVE claim'[k] = claim[k]
  OBVIOUS
<1>1. ASSUME NEW p \in Processes, TakeClaim(p) PROVE claim'[k] = claim[k]
  BY <1>1 DEF TakeClaim, Claimable, ClaimOf, Receipt, NoClaim, AgentInv, AgentTypeOK
<1>2. ASSUME NEW p \in Processes, Renew(p) PROVE claim'[k] = claim[k]
  BY <1>2 DEF Renew, Holds, ClaimOf, Receipt, AgentInv, AgentTypeOK
<1>3. ASSUME NEW p \in Processes, Complete(p) PROVE claim'[k] = claim[k]
  BY <1>3 DEF Complete, CanComplete, Holds, ClaimOf, Receipt, AgentInv, AgentTypeOK
<1>4. ASSUME NEW j \in Keys, LeaseLapses(j) PROVE claim'[k] = claim[k]
  BY <1>4 DEF LeaseLapses, Receipt, AgentInv, AgentTypeOK
<1>. QED BY <1>1, <1>2, <1>3, <1>4
     DEF AgentNext, HandlerStep, Receive, RefuseEnvelope, AnswerFromClaim, Validate,
         Apply, ExecutionSucceeds, ExecutionFails, UpdateResponsePending,
         CompletionFails, Acknowledge, Crash, Lapse

\* A stalled process that lost its lease cannot touch what its successor stored.
THEOREM ReceiptsAreFinal == AgentSpec => ReceiptIsFinal
<1>1. AgentInv /\ [AgentNext]_agentVars
      => [\A k \in Keys : Receipt(k) => claim'[k] = claim[k]]_agentVars
  BY ReceiptsStay
<1>. QED BY <1>1, AgentInvHolds, PTL DEF AgentSpec, ReceiptIsFinal

\* The step that moves a revision stores the receipt that expected it.
LEMMA RevisionStep ==
    ASSUME AgentInv, AgentNext, NEW r \in Resources, revision'[r] # revision[r]
    PROVE  /\ revision'[r] = revision[r] + 1
           /\ \E k \in Keys : /\ claim[k] # claim'[k]
                              /\ claim'[k].state = "completed"
                              /\ Prior[claim'[k].command] = revision[r]
<1>1. PICK p \in Processes : Complete(p)
  BY DEF AgentNext, HandlerStep, Receive, RefuseEnvelope, TakeClaim, AnswerFromClaim,
         Validate, Apply, ExecutionSucceeds, ExecutionFails, UpdateResponsePending,
         Renew, CompletionFails, Acknowledge, Crash, LeaseLapses, Lapse
<1>2. PICK k \in Keys, rs \in Resources, res \in Result :
         /\ k = Key[Cmd(p)]
         /\ rs = Resource[Cmd(p)]
         /\ res = handler[p].result
  BY <1>1, CompleteFacts
<1>3. /\ claim[k].state = "in_progress"
      /\ claim'[k].state = "completed" /\ claim'[k].command = Cmd(p)
      /\ Advances(res) => /\ Prior[Cmd(p)] = revision[rs]
                          /\ res.revision = revision[rs] + 1
                          /\ revision' = [revision EXCEPT ![rs] = res.revision]
      /\ ~Advances(res) => revision' = revision
  BY <1>1, <1>2, CompleteFacts
<1>4. r = rs /\ revision'[r] = revision[r] + 1 /\ Prior[claim'[k].command] = revision[r]
  BY <1>3 DEF AgentInv, AgentTypeOK
<1>. QED BY <1>3, <1>4

\* Revisions never skip, fall back or move without a receipt.
THEOREM RevisionsMoveByReceipt == AgentSpec => RevisionMovesByReceipt
<1>1. AgentInv /\ [AgentNext]_agentVars
      => [\A r \in Resources : revision'[r] # revision[r] =>
           /\ revision'[r] = revision[r] + 1
           /\ \E k \in Keys : /\ claim[k] # claim'[k]
                              /\ claim'[k].state = "completed"
                              /\ Prior[claim'[k].command] = revision[r]]_agentVars
  BY RevisionStep
<1>. QED BY <1>1, AgentInvHolds, PTL DEF AgentSpec, RevisionMovesByReceipt

-----------------------------------------------------------------------------
(* Effects come before receipts *)

\* A process that took a claim and has not stored its result is not the holder
\* of a receipt: only the holder writes one, and then it answers.
HandlingIsOpen ==
    \A p \in Processes :
        handler[p].pc \in {"claimed", "executing", "executed", "storing"}
        /\ Receipt(Key[Cmd(p)])
        => claim[Key[Cmd(p)]].holder # p

\* Steps that take no claim and complete none: a handling that is open was open.
LEMMA OpenHandlingsStay ==
    ASSUME AgentInv, HandlingIsOpen,
           \A k \in Keys : Receipt(k)' => claim'[k] = claim[k],
           \A p \in Processes :
              handler'[p].pc \in {"claimed", "executing", "executed", "storing"}
              => /\ handler[p].pc \in {"claimed", "executing", "executed", "storing"}
                 /\ handler'[p].command = handler[p].command
    PROVE  HandlingIsOpen'
<1>. SUFFICES ASSUME NEW p \in Processes,
                     handler'[p].pc \in {"claimed", "executing", "executed", "storing"},
                     Receipt(Key[Cmd(p)])'
              PROVE  claim'[Key[Cmd(p)']].holder # p
  BY DEF HandlingIsOpen, Cmd
<1>1. /\ handler[p].pc \in {"claimed", "executing", "executed", "storing"}
      /\ Cmd(p)' = Cmd(p)
  BY DEF Cmd
<1>2. Key[Cmd(p)] \in Keys
  BY <1>1, BusyProcess DEF AgentInv, At
<1>3. claim'[Key[Cmd(p)]] = claim[Key[Cmd(p)]] /\ Receipt(Key[Cmd(p)])
  BY <1>1, <1>2 DEF Receipt
<1>. QED BY <1>1, <1>3 DEF HandlingIsOpen

\* Whoever takes a claim is its holder, and whoever completes one answers.
LEMMA HandlingStep ==
    ASSUME AgentInv, HandlingIsOpen, [AgentNext]_agentVars PROVE HandlingIsOpen'
<1>0. /\ handler \in [Processes -> Handler \cup {AtRest}]
      /\ claim \in [Keys -> Claim \cup {NoClaim}]
  BY DEF AgentInv, AgentTypeOK
<1>1. ASSUME NEW p \in Processes,
             \/ \E c \in Commands, stamp \in Stamps : Receive(p, c, stamp)
             \/ RefuseEnvelope(p) \/ AnswerFromClaim(p) \/ Validate(p)
             \/ Apply(p) \/ ExecutionSucceeds(p) \/ ExecutionFails(p)
             \/ UpdateResponsePending(p) \/ CompletionFails(p)
             \/ Acknowledge(p) \/ Crash(p)
      PROVE  HandlingIsOpen'
  <2>1. UNCHANGED claim
    BY <1>1 DEF Receive, RefuseEnvelope, AnswerFromClaim, Validate, Apply, ExecutionSucceeds,
                ExecutionFails, UpdateResponsePending, CompletionFails, Acknowledge, Crash
  <2>2. \A q \in Processes \ {p} : handler'[q] = handler[q]
    BY <1>0, <1>1 DEF Receive, RefuseEnvelope, AnswerFromClaim, Validate, Apply,
                ExecutionSucceeds, ExecutionFails, UpdateResponsePending, CompletionFails,
                Acknowledge, Crash, GoTo, Carry, Rest, Reject
  <2>3. handler'[p].pc \in {"claimed", "executing", "executed", "storing"}
        => /\ handler[p].pc \in {"claimed", "executing", "executed", "storing"}
           /\ handler'[p].command = handler[p].command
    BY <1>0, <1>1 DEF Receive, RefuseEnvelope, AnswerFromClaim, Validate, Apply,
                ExecutionSucceeds, ExecutionFails, UpdateResponsePending, CompletionFails,
                Acknowledge, Crash, GoTo, Carry, Rest, Reject, AtRest, At, Working, Cmd
  <2>. QED BY <2>1, <2>2, <2>3, OpenHandlingsStay
<1>2. ASSUME NEW p \in Processes, TakeClaim(p) PROVE HandlingIsOpen'
  <2>1. At(p, "received") /\ Key[Cmd(p)] \in Keys
    BY <1>2, BusyProcess DEF TakeClaim, At, AgentInv
  <2>2. /\ claim'[Key[Cmd(p)]].state = "in_progress"
        /\ \A j \in Keys \ {Key[Cmd(p)]} : claim'[j] = claim[j]
    BY <1>0, <1>2, <2>1 DEF TakeClaim
  <2>3. /\ \A q \in Processes \ {p} : handler'[q] = handler[q]
        /\ handler'[p].command = Cmd(p)
    BY <1>0, <1>2 DEF TakeClaim, GoTo
  <2>4. ASSUME NEW q \in Processes,
               handler'[q].pc \in {"claimed", "executing", "executed", "storing"},
               claim'[Key[handler'[q].command]].state = "completed"
        PROVE  claim'[Key[handler'[q].command]].holder # q
    <3>1. q # p
      BY <2>2, <2>3, <2>4
    <3>2. handler'[q] = handler[q] /\ Key[Cmd(q)] \in Keys
      BY <2>3, <2>4, <3>1, BusyProcess DEF AgentInv, At
    <3>3. claim'[Key[Cmd(q)]] = claim[Key[Cmd(q)]]
      BY <2>2, <2>4, <3>2 DEF Cmd
    <3>. QED BY <2>4, <3>2, <3>3 DEF HandlingIsOpen, Receipt, Cmd
  <2>. QED BY <2>4 DEF HandlingIsOpen, Receipt, Cmd
<1>3. ASSUME NEW p \in Processes, Complete(p) PROVE HandlingIsOpen'
  <2>1. /\ Key[Cmd(p)] \in Keys
        /\ claim'[Key[Cmd(p)]].holder = p
        /\ \A j \in Keys \ {Key[Cmd(p)]} : claim'[j] = claim[j]
    <3>1. /\ Key[Cmd(p)] \in Keys
          /\ claim[Key[Cmd(p)]] \in Claim
          /\ \A j \in Keys \ {Key[Cmd(p)]} : claim'[j] = claim[j]
      BY <1>3, CompleteFacts
    <3>2. claim[Key[Cmd(p)]].holder = p
      BY <1>3 DEF Complete, CanComplete, Holds, ClaimOf
    <3>. QED BY <1>0, <1>3, <3>1, <3>2 DEF Complete, Claim
  <2>2. /\ \A q \in Processes \ {p} : handler'[q] = handler[q]
        /\ handler'[p].pc = "answering"
    BY <1>0, <1>3 DEF Complete, Carry
  <2>3. ASSUME NEW q \in Processes,
               handler'[q].pc \in {"claimed", "executing", "executed", "storing"},
               claim'[Key[handler'[q].command]].state = "completed"
        PROVE  claim'[Key[handler'[q].command]].holder # q
    <3>1. q # p
      BY <2>2, <2>3
    <3>2. handler'[q] = handler[q] /\ Key[Cmd(q)] \in Keys
      BY <2>2, <2>3, <3>1, BusyProcess DEF AgentInv, At
    <3>3. CASE Key[Cmd(q)] = Key[Cmd(p)]
      BY <2>1, <3>1, <3>2, <3>3 DEF Cmd
    <3>4. CASE Key[Cmd(q)] # Key[Cmd(p)]
      <4>1. claim'[Key[Cmd(q)]] = claim[Key[Cmd(q)]]
        BY <2>1, <3>2, <3>4
      <4>. QED BY <2>3, <3>2, <4>1 DEF HandlingIsOpen, Receipt, Cmd
    <3>. QED BY <3>3, <3>4
  <2>. QED BY <2>3 DEF HandlingIsOpen, Receipt, Cmd
<1>4. ASSUME \/ \E p \in Processes : Renew(p)
             \/ \E k \in Keys : LeaseLapses(k)
             \/ \E c \in Commands : Lapse(c)
             \/ UNCHANGED agentVars
      PROVE  HandlingIsOpen'
  <2>1. UNCHANGED handler
    BY <1>4 DEF Renew, LeaseLapses, Lapse, agentVars
  <2>2. ASSUME NEW j \in Keys, claim[j].state = "in_progress", NEW live \in BOOLEAN,
               claim' = [claim EXCEPT ![j].live = live]
        PROVE  \A k \in Keys : Receipt(k)' => claim'[k] = claim[k]
    <3>1. claim[j] \in Claim
      BY <1>0, <2>2 DEF NoClaim
    <3>2. /\ claim'[j].state = "in_progress"
          /\ \A k \in Keys \ {j} : claim'[k] = claim[k]
      BY <1>0, <2>2, <3>1 DEF Claim
    <3>. QED BY <3>2 DEF Receipt
  <2>3. \A k \in Keys : Receipt(k)' => claim'[k] = claim[k]
    <3>1. ASSUME NEW p \in Processes, Renew(p)
          PROVE  \A k \in Keys : Receipt(k)' => claim'[k] = claim[k]
      <4>1. Key[Cmd(p)] \in Keys
        BY <3>1, BusyProcess DEF Renew, Working, At, AgentInv
      <4>. QED BY <2>2, <3>1, <4>1 DEF Renew, Holds, ClaimOf
    <3>2. ASSUME NEW j \in Keys, LeaseLapses(j)
          PROVE  \A k \in Keys : Receipt(k)' => claim'[k] = claim[k]
      BY <2>2, <3>2 DEF LeaseLapses
    <3>. QED BY <1>4, <3>1, <3>2 DEF Lapse, agentVars
  <2>. QED BY <2>1, <2>3, OpenHandlingsStay
<1>. QED BY <1>1, <1>2, <1>3, <1>4 DEF AgentNext, HandlerStep

\* A receipt ends the effects of its command, but for a process that was
\* stalled in an execution when another one took its claim over.
THEOREM EffectsPrecedeReceipts == AgentSpec => NoEffectAfterReceipt
<1>1. AgentInit => HandlingIsOpen
  BY DEF AgentInit, HandlingIsOpen, AtRest
<1>2. AgentInv /\ HandlingIsOpen /\ [AgentNext]_agentVars => HandlingIsOpen'
  BY HandlingStep
<1>3. HandlingIsOpen
      => [\A p \in Processes :
            At(p, "executing") /\ handler'[p].pc = "executed" /\ Receipt(Key[Cmd(p)])
            => claim[Key[Cmd(p)]].holder # p]_agentVars
  BY DEF HandlingIsOpen, At
<1>. QED BY <1>1, <1>2, <1>3, AgentInvHolds, PTL DEF AgentSpec, NoEffectAfterReceipt
=============================================================================
