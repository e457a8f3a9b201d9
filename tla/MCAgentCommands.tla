--------------------------- MODULE MCAgentCommands ---------------------------
(* AgentCommands for TLC: two rivals for one revision, their successor (an
   update of the agent), and a malformed payload under the key of the first. *)
EXTENDS AgentCommands, TLC

CONSTANTS k1, k2, k3, c1, c1x, c2, c3, r1

MCKey == [c \in Commands |-> ((c1 :> k1) @@ (c1x :> k1) @@ (c2 :> k2) @@ (c3 :> k3))[c]]
MCResource == [c \in Commands |-> r1]
MCPrior == [c \in Commands |-> ((c1 :> 0) @@ (c1x :> 1) @@ (c2 :> 0) @@ (c3 :> 1))[c]]

\* Commands without an expected revision: a mutating one and health.inspect.
MCKinds == [c \in Commands |-> ((c1 :> 0) @@ (c1x :> 0) @@ (c2 :> NoRevision) @@ (c3 :> NoRevision))[c]]

ProcessSymmetry == Permutations(Processes)
=============================================================================
