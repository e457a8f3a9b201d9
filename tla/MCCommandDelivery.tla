------------------------- MODULE MCCommandDelivery -------------------------
(* CommandDelivery for TLC: two commands for one server, the second expects
   the revision the first leaves behind. *)
EXTENDS CommandDelivery, TLC

CONSTANTS k1, k2, c1, c2, r1

MCKey == [c \in Commands |-> ((c1 :> k1) @@ (c2 :> k2))[c]]
MCResource == [c \in Commands |-> r1]
MCPrior == [c \in Commands |-> ((c1 :> 0) @@ (c2 :> 1))[c]]
=============================================================================
