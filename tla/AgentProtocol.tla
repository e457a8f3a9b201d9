--------------------------- MODULE AgentProtocol ---------------------------
(***************************************************************************)
(* The vocabulary the control plane and the node agent share: signed       *)
(* commands, their terminal results, and the checks both sides make of     *)
(* them (packages/agent-protocol and the pure helpers that use it).        *)
(*                                                                         *)
(* A command is a value of Commands.  Its command ID and its idempotency   *)
(* key are derived from one digest by every producer, so one key stands    *)
(* for both; two commands with the same key and different contents are     *)
(* the payload mismatch that the coordinator and the agent refuse.         *)
(***************************************************************************)
EXTENDS Integers, FiniteSets

CONSTANTS
    Commands,    \* signed command envelopes
    Keys,        \* command IDs / idempotency keys
    Resources,   \* resources whose revisions commands advance
    Key,         \* [Commands -> Keys]
    Resource,    \* [Commands -> Resources]
    Prior,       \* [Commands -> revision the command expects, or NoRevision]
    Inspections, \* the commands of type health.inspect: they change nothing
    Stamps       \* values of completedAt that tell results apart

NoRevision == -1      \* the JSON null of expectedPriorRevision and revision

ASSUME ProtocolAssumption ==
    /\ Key \in [Commands -> Keys]
    /\ Resource \in [Commands -> Resources]
    /\ Prior \in [Commands -> Nat \cup {NoRevision}]
    /\ Inspections \subseteq Commands

Status == {"succeeded", "failed", "rejected"}

\* Why a handling ended: the code field of a result.
Code == {"done", "execution-failed", "expired-command", "invalid-command",
         "payload-mismatch", "revision-conflict", "state-failed"}

\* Mutant: a success skips a revision.
NextRevisionSkipsOne(c) ==
    IF c \in Inspections THEN NoRevision
    ELSE IF Prior[c] = NoRevision THEN 1 ELSE Prior[c] + 2

\* The revision a successful execution of c reports.
NextRevision(c) ==
    IF c \in Inspections THEN NoRevision
    ELSE IF Prior[c] = NoRevision THEN 1 ELSE Prior[c] + 1

\* The revisions results can carry: 0 is that of a resource never changed.
Revisions == {NoRevision, 0} \cup {Prior[c] : c \in Commands}
                             \cup {NextRevision(c) : c \in Commands}

Result == [key: Keys, status: Status, revision: Revisions, code: Code,
           duplicate: BOOLEAN, completedAt: Stamps]

\* The sentinel of a nullable result column.
NoResult == [status |-> "none"]

\* Is r a result the coordinator can store for command c?
ValidCommandResult(c, r) ==
    /\ r.key = Key[c]
    /\ r.status = "succeeded" =>
         IF c \in Inspections THEN r.revision = NoRevision
         ELSE /\ r.revision # NoRevision
              /\ IF Prior[c] = NoRevision THEN r.revision >= 0
                                          ELSE r.revision = Prior[c] + 1

\* A result the agent sends when handling fails before or after the claim.
RejectedResult(c, code, stamp) ==
    [key |-> Key[c], status |-> "rejected", revision |-> Prior[c],
     code |-> code, duplicate |-> FALSE, completedAt |-> stamp]
=============================================================================
