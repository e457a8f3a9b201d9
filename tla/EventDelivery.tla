---------------------------- MODULE EventDelivery ----------------------------
(***************************************************************************)
(* What the outbox promises, without rows, leases, pages, runs or retries. *)
(* An event that a transaction wrote is owed until it is delivered, which  *)
(* takes a publication, or given up, which takes a person that was asked   *)
(* to help, or an event that breaks the contract of its kind and is never  *)
(* published; either is for good.  A publication may repeat, and may come  *)
(* late; what is broadcast keeps equal events apart.                       *)
(***************************************************************************)
EXTENDS Naturals, Sequences

CONSTANTS Events, Broadcasts, Invalid, Retained

VARIABLES
    status,      \* of every event
    published,   \* the events that were published
    remediated,  \* the events a person was asked to help with
    log          \* what was broadcast, in order

deliveryVars == <<status, published, remediated, log>>

DeliveryInit ==
    /\ status = [e \in Events |-> "absent"]
    /\ published = {} /\ remediated = {}
    /\ log = <<>>

Write(e) ==
    /\ status[e] = "absent"
    /\ status' = [status EXCEPT ![e] = "owed"]
    /\ UNCHANGED <<published, remediated, log>>

\* None of the last Retained broadcasts was of this event.
Fresh(e) == \A i \in DOMAIN log : log[i] = e => i + Retained <= Len(log)

Publish(e) ==
    /\ status[e] # "absent"
    /\ e \notin Invalid
    /\ published' = published \cup {e}
    /\ \/ e \in Broadcasts /\ Fresh(e) /\ log' = Append(log, e)
       \/ UNCHANGED log
    /\ UNCHANGED <<status, remediated>>

AskForHelp(e) ==
    /\ status[e] # "absent"
    /\ e \notin Invalid
    /\ remediated' = remediated \cup {e}
    /\ UNCHANGED <<status, published, log>>

Settle(e) ==
    /\ status[e] = "owed"
    /\ \/ e \in published /\ status' = [status EXCEPT ![e] = "delivered"]
       \/ /\ e \in remediated \cup Invalid
          /\ status' = [status EXCEPT ![e] = "failed_terminal"]
    /\ UNCHANGED <<published, remediated, log>>

DeliveryNext == \E e \in Events : Write(e) \/ Publish(e) \/ AskForHelp(e) \/ Settle(e)

DeliverySpec == DeliveryInit /\ [][DeliveryNext]_deliveryVars
=============================================================================
