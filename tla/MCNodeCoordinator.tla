------------------------- MODULE MCNodeCoordinator -------------------------
(* NodeCoordinator for TLC: three keys, one of them with two payloads. *)
EXTENDS NodeCoordinator, TLC

CONSTANTS k1, k2, k3, c1, c1x, c2, c3, r1

MCKey == [c \in Commands |-> ((c1 :> k1) @@ (c1x :> k1) @@ (c2 :> k2) @@ (c3 :> k3))[c]]
MCResource == [c \in Commands |-> r1]
MCPrior == [c \in Commands |-> ((c1 :> 0) @@ (c1x :> 0) @@ (c2 :> NoRevision) @@ (c3 :> NoRevision))[c]]

Reported(k, status, revision, code, stamp) ==
    [key |-> k, status |-> status, revision |-> revision, code |-> code,
     duplicate |-> FALSE, completedAt |-> stamp]

\* Successes and failures of each key, a second answer that differs from the
\* first only in its time, and a success at the wrong revision.
MCPosted ==
    {Reported(k1, "succeeded", 1, "done", 1),
     Reported(k1, "rejected", 0, "revision-conflict", 2),
     Reported(k1, "succeeded", 0, "done", 1),
     Reported(k2, "succeeded", 0, "done", 1),
     Reported(k2, "failed", 0, "execution-failed", 1),
     Reported(k3, "succeeded", NoRevision, "done", 1)}

PollerSymmetry == Permutations(Pollers)
=============================================================================
