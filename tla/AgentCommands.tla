--------------------------- MODULE AgentCommands ---------------------------
(***************************************************************************)
(* The node agent's handling of one command after another                  *)
(* (apps/agent/src/processor.ts, file-command-state.ts, runtime.ts): a     *)
(* leased claim in a local SQLite file, a revision fence per resource, the *)
(* execution raced against renewals of the lease, and a stored receipt.    *)
(*                                                                         *)
(* Every claim, completion, renewal and revision read is one SQLite        *)
(* transaction, so one atomic step; a process may crash between any two.   *)
(* The file may be open in several processes.  A claim token is fresh for  *)
(* each claim, and a process works on one command at a time, so the name   *)
(* of the claiming process stands for the token.  The clock is abstracted  *)
(* to what it has passed: expiresAt of commands (lapsed) and lease_until   *)
(* of claims (live).                                                       *)
(***************************************************************************)
EXTENDS AgentProtocol

CONSTANTS
    Processes,   \* agent processes that open the command-state file
    Malformed,   \* commands whose payload validateCommandPayload refuses
    SelfUpdates, \* commands of type agent.self-update
    Expiring     \* bound: the commands whose expiry a behaviour may pass

ASSUME AgentAssumption ==
    /\ Malformed \subseteq Commands
    /\ SelfUpdates \subseteq Commands
    /\ Expiring \subseteq Commands

VARIABLES
    claim,       \* the commands table of the agent, by key
    revision,    \* the revisions table, by resource
    handler,     \* what each process is doing
    lapsed,      \* commands with expiresAt behind the agent's clock
    applied      \* commands whose effects happened on the node at least once

agentState == <<claim, revision>>
agentVars == <<claim, revision, handler, lapsed, applied>>

NoClaim == [state |-> "absent"]
Claim == [state: {"in_progress", "completed"}, command: Commands,
          live: BOOLEAN, holder: Processes, result: Result \cup {NoResult}]

AtRest == [pc |-> "idle"]
Handler == [pc: {"received", "claimed", "executing", "executed"},
            command: Commands, stamp: Stamps]
           \cup
           [pc: {"storing", "answering"}, command: Commands, stamp: Stamps,
            result: Result]

AgentTypeOK ==
    /\ claim \in [Keys -> Claim \cup {NoClaim}]
    /\ revision \in [Resources -> Nat]
    /\ handler \in [Processes -> Handler \cup {AtRest}]
    /\ lapsed \subseteq Commands
    /\ applied \subseteq Commands

AgentInit ==
    /\ claim = [k \in Keys |-> NoClaim]
    /\ revision = [r \in Resources |-> 0]
    /\ handler = [p \in Processes |-> AtRest]
    /\ lapsed = {}
    /\ applied = {}

At(p, pc) == handler[p].pc = pc
Cmd(p) == handler[p].command
ClaimOf(p) == claim[Key[Cmd(p)]]

GoTo(p, pc) == handler' = [handler EXCEPT ![p] =
                 [pc |-> pc, command |-> Cmd(p), stamp |-> handler[p].stamp]]
Carry(p, pc, result) == handler' = [handler EXCEPT ![p] =
                 [pc |-> pc, command |-> Cmd(p), stamp |-> handler[p].stamp,
                  result |-> result]]
Rest(p) == handler' = [handler EXCEPT ![p] = AtRest]

\* An error of handleCommand is answered with a rejection.
Reject(p, code) == Carry(p, "answering", RejectedResult(Cmd(p), code, handler[p].stamp))

\* A terminal result of this handling, before it is stored.
Outcome(p, status, code, rev) ==
    [key |-> Key[Cmd(p)], status |-> status, revision |-> rev, code |-> code,
     duplicate |-> FALSE, completedAt |-> handler[p].stamp]

-----------------------------------------------------------------------------
(* From delivery to the claim *)

\* A poll returned c; stamp is the time read at the start of handleCommand.
Receive(p, c, stamp) ==
    /\ At(p, "idle")
    /\ handler' = [handler EXCEPT ![p] =
                     [pc |-> "received", command |-> c, stamp |-> stamp]]
    /\ UNCHANGED <<claim, revision, lapsed, applied>>

\* validateCommandEnvelope: it precedes the claim, so nothing is looked up.
RefuseEnvelope(p) ==
    /\ At(p, "received")
    /\ Cmd(p) \in lapsed
    /\ Reject(p, "expired-command")
    /\ UNCHANGED <<claim, revision, lapsed, applied>>

\* Mutants: a receipt can be claimed again; a claim is never taken over.
ClaimableOverReceipt(p) ==
    \/ ClaimOf(p) = NoClaim
    \/ ClaimOf(p) # NoClaim /\ ClaimOf(p).command = Cmd(p) /\ ~ClaimOf(p).live
ClaimableOnce(p) == ClaimOf(p) = NoClaim

\* A first claim, or the takeover of one whose lease has run out.
Claimable(p) ==
    \/ ClaimOf(p) = NoClaim
    \/ /\ ClaimOf(p).state = "in_progress"
       /\ ClaimOf(p).command = Cmd(p)
       /\ ~ClaimOf(p).live

\* Mutant: a completed command passes for a claim that was taken over.
TakeClaimOrReceipt(p) ==
    /\ At(p, "received")
    /\ Cmd(p) \notin lapsed
    /\ \/ /\ Claimable(p)
          /\ claim' = [claim EXCEPT ![Key[Cmd(p)]] =
                         [state |-> "in_progress", command |-> Cmd(p), live |-> TRUE,
                          holder |-> p, result |-> NoResult]]
       \/ ClaimOf(p).state = "completed" /\ UNCHANGED claim
    /\ GoTo(p, "claimed")
    /\ UNCHANGED <<revision, lapsed, applied>>

TakeClaim(p) ==
    /\ At(p, "received")
    /\ Cmd(p) \notin lapsed
    /\ Claimable(p)
    /\ claim' = [claim EXCEPT ![Key[Cmd(p)]] =
                   [state |-> "in_progress", command |-> Cmd(p), live |-> TRUE,
                    holder |-> p, result |-> NoResult]]
    /\ GoTo(p, "claimed")
    /\ UNCHANGED <<revision, lapsed, applied>>

\* Mutant: any claim of the command passes for a receipt.
HasAnyClaim(p) == TRUE

HasReceipt(p) == ClaimOf(p).state = "completed"

\* The command was completed before, is in progress, or is another payload.
AnswerFromClaim(p) ==
    /\ At(p, "received")
    /\ Cmd(p) \notin lapsed
    /\ ClaimOf(p) # NoClaim
    /\ \/ /\ ClaimOf(p).command # Cmd(p)
          /\ Reject(p, "payload-mismatch")
       \/ /\ ClaimOf(p).command = Cmd(p)
          /\ HasReceipt(p)
          /\ Carry(p, "answering", [ClaimOf(p).result EXCEPT !.duplicate = TRUE])
       \/ /\ ClaimOf(p).command = Cmd(p)
          /\ ClaimOf(p).state = "in_progress"
          /\ ClaimOf(p).live
          /\ Rest(p)
    /\ UNCHANGED <<claim, revision, lapsed, applied>>

-----------------------------------------------------------------------------
(* From the claim to the receipt *)

CurrentRevision(p) == revision[Resource[Cmd(p)]]

RevisionConflict(p) ==
    /\ Prior[Cmd(p)] # NoRevision
    /\ Prior[Cmd(p)] # CurrentRevision(p)

\* The revision read, the payload check, and the check of the expected prior.
Validate(p) ==
    /\ At(p, "claimed")
    /\ \/ /\ Cmd(p) \in Malformed
          /\ Carry(p, "storing", Outcome(p, "rejected", "invalid-command", CurrentRevision(p)))
       \/ /\ Cmd(p) \notin Malformed
          /\ RevisionConflict(p)
          /\ Carry(p, "storing", Outcome(p, "rejected", "revision-conflict", CurrentRevision(p)))
       \/ /\ Cmd(p) \notin Malformed
          /\ ~RevisionConflict(p)
          /\ GoTo(p, "executing")
    /\ UNCHANGED <<claim, revision, lapsed, applied>>

\* The executor changes the node, and has not returned yet.
Apply(p) ==
    /\ At(p, "executing")
    /\ applied' = applied \cup {Cmd(p)}
    /\ GoTo(p, "executed")
    /\ UNCHANGED <<claim, revision, lapsed>>

\* Mutant: a success is answered before it is stored.
AnswerWithoutReceipt(p) ==
    /\ At(p, "executed")
    /\ Carry(p, "answering", Outcome(p, "succeeded", "done", NextRevision(Cmd(p))))
    /\ UNCHANGED <<claim, revision, lapsed, applied>>

ExecutionSucceeds(p) ==
    /\ At(p, "executed")
    /\ Carry(p, "storing", Outcome(p, "succeeded", "done", NextRevision(Cmd(p))))
    /\ UNCHANGED <<claim, revision, lapsed, applied>>

Working(p) == At(p, "executing") \/ At(p, "executed")
Holds(p) == /\ ClaimOf(p).state = "in_progress"
            /\ ClaimOf(p).command = Cmd(p)
            /\ ClaimOf(p).holder = p

Failed(p, code) == Outcome(p, "failed", code, CurrentRevision(p))

\* The executor fails, or a renewal finds the claim taken and ends the race.
ExecutionFails(p) ==
    /\ Working(p)
    /\ \/ Carry(p, "storing", Failed(p, "execution-failed"))
       \/ ~Holds(p) /\ Carry(p, "storing", Failed(p, "state-failed"))
    /\ UNCHANGED <<claim, revision, lapsed, applied>>

\* The helper restarts the agent: the claim is left to a later replay.
UpdateResponsePending(p) ==
    /\ Working(p)
    /\ Cmd(p) \in SelfUpdates
    /\ Rest(p)
    /\ UNCHANGED <<claim, revision, lapsed, applied>>

\* renew extends the lease even after it ran out, if nobody took the claim.
Renew(p) ==
    /\ Working(p)
    /\ Holds(p)
    /\ ~ClaimOf(p).live
    /\ claim' = [claim EXCEPT ![Key[Cmd(p)]].live = TRUE]
    /\ UNCHANGED <<revision, handler, lapsed, applied>>

\* The result advances the revision of its resource.
Advances(result) == result.status = "succeeded" /\ result.revision # NoRevision

\* Mutant: the fence looks at neither the expected nor the current revision.
Unfenced(p) == Prior[Cmd(p)] # NoRevision

\* The fence of complete: the expected prior is the current revision.
Monotonic(p) ==
    /\ Prior[Cmd(p)] # NoRevision
    /\ Prior[Cmd(p)] = CurrentRevision(p)
    /\ handler[p].result.revision > CurrentRevision(p)

\* Mutant: only the claim is checked.
CanCompleteUnfenced(p) == Holds(p)

CanComplete(p) == /\ Holds(p)
                  /\ Advances(handler[p].result) => Monotonic(p)

Complete(p) ==
    /\ At(p, "storing")
    /\ CanComplete(p)
    /\ claim' = [claim EXCEPT ![Key[Cmd(p)]].state = "completed",
                              ![Key[Cmd(p)]].live = FALSE,
                              ![Key[Cmd(p)]].result = handler[p].result]
    /\ revision' = IF Advances(handler[p].result)
                   THEN [revision EXCEPT ![Resource[Cmd(p)]] = handler[p].result.revision]
                   ELSE revision
    /\ Carry(p, "answering", handler[p].result)
    /\ UNCHANGED <<lapsed, applied>>

\* Mutant: the result is answered although complete rolled back.
CompletionFailureIgnored(p) ==
    /\ At(p, "storing")
    /\ ~CanComplete(p)
    /\ Carry(p, "answering", handler[p].result)
    /\ UNCHANGED <<claim, revision, lapsed, applied>>

\* complete rolls back: the handling is answered with a rejection instead.
CompletionFails(p) ==
    /\ At(p, "storing")
    /\ ~CanComplete(p)
    /\ Reject(p, "state-failed")
    /\ UNCHANGED <<claim, revision, lapsed, applied>>

\* The answer is sent; whether it arrives does not concern this process.
Acknowledge(p) ==
    /\ At(p, "answering")
    /\ Rest(p)
    /\ UNCHANGED <<claim, revision, lapsed, applied>>

-----------------------------------------------------------------------------
(* The environment: crashes and time *)

Crash(p) ==
    /\ ~At(p, "idle")
    /\ Rest(p)
    /\ UNCHANGED <<claim, revision, lapsed, applied>>

LeaseLapses(k) ==
    /\ claim[k].state = "in_progress"
    /\ claim[k].live
    /\ claim' = [claim EXCEPT ![k].live = FALSE]
    /\ UNCHANGED <<revision, handler, lapsed, applied>>

Lapse(c) ==
    /\ c \in Expiring \ lapsed
    /\ lapsed' = lapsed \cup {c}
    /\ UNCHANGED <<claim, revision, handler, applied>>

\* The steps a process takes by itself once it has received a command.
HandlerStep(p) ==
    \/ RefuseEnvelope(p) \/ TakeClaim(p) \/ AnswerFromClaim(p) \/ Validate(p)
    \/ Apply(p) \/ ExecutionSucceeds(p) \/ ExecutionFails(p)
    \/ UpdateResponsePending(p) \/ Complete(p) \/ CompletionFails(p)

AgentNext ==
    \/ \E p \in Processes :
          \/ \E c \in Commands, stamp \in Stamps : Receive(p, c, stamp)
          \/ HandlerStep(p) \/ Renew(p) \/ Acknowledge(p) \/ Crash(p)
    \/ \E k \in Keys : LeaseLapses(k)
    \/ \E c \in Commands : Lapse(c)

AgentSpec == AgentInit /\ [][AgentNext]_agentVars

-----------------------------------------------------------------------------
(* Properties *)

Receipt(k) == claim[k].state = "completed"
Success(k) == Receipt(k) /\ claim[k].result.status = "succeeded"
Advanced(r) == {k \in Keys : /\ Success(k)
                             /\ Resource[claim[k].command] = r
                             /\ claim[k].result.revision # NoRevision}

\* The revisions table and the receipts tell one story: stored successes took
\* a resource to its revision one by one, and none took it further (the
\* transaction of complete).
RevisionIsLatestReceipt ==
    \A r \in Resources :
        /\ \A k \in Advanced(r) : claim[k].result.revision <= revision[r]
        /\ \A n \in 1 .. revision[r] : \E k \in Advanced(r) :
                                          claim[k].result.revision = n

\* No lost update: two commands that expect the same revision of a resource
\* are never both stored as successes, even with overlapping executions.
OneSuccessPerRevision ==
    \A r \in Resources : \A j, k \in Advanced(r) :
        Prior[claim[j].command] = Prior[claim[k].command] => j = k

\* A success is answered only for a command whose effects happened, also when
\* the answer is replayed from the receipt of an earlier process.
SuccessWasApplied ==
    /\ \A k \in Keys : Success(k) => claim[k].command \in applied
    /\ \A p \in Processes :
         At(p, "answering") /\ handler[p].result.status = "succeeded"
            => /\ Cmd(p) \in applied
               /\ Success(Key[Cmd(p)])
               /\ claim[Key[Cmd(p)]].command = Cmd(p)

\* A receipt is written once: a process that lost its claim while it was
\* stalled can neither overwrite nor reopen it.
ReceiptIsFinal ==
    [][\A k \in Keys : Receipt(k) => claim'[k] = claim[k]]_agentVars

\* Revisions move one at a time, and only together with the receipt of the
\* command that expected the revision before.
RevisionMovesByReceipt ==
    [][\A r \in Resources : revision'[r] # revision[r] =>
         /\ revision'[r] = revision[r] + 1
         /\ \E k \in Keys : /\ claim[k] # claim'[k]
                            /\ claim'[k].state = "completed"
                            /\ Prior[claim'[k].command] = revision[r]]_agentVars

\* Effects come before the receipt: once a command has one, the node is not
\* changed for it again, except by a process that was stalled in an execution
\* when another took its claim over; a redelivery never does it.
NoEffectAfterReceipt ==
    [][\A p \in Processes :
         At(p, "executing") /\ handler'[p].pc = "executed" /\ Receipt(Key[Cmd(p)])
         => claim[Key[Cmd(p)]].holder # p]_agentVars

\* The coordinator accepts a success without an expected revision
\* (coordinator-invariants.ts), so an execution that succeeds under its claim
\* should be stored as a success, whatever it expected.
SuccessUnderClaimIsStored ==
    \A p \in Processes :
        /\ At(p, "storing")
        /\ handler[p].result.status = "succeeded"
        /\ Holds(p)
        /\ Prior[Cmd(p)] = NoRevision
        => CanComplete(p)
=============================================================================
