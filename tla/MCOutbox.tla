------------------------------ MODULE MCOutbox ------------------------------
(* The instance of Outbox for TLC.  Its runs check liveness too, so calls of *)
(* publishOutbox, which are interchangeable, are not declared symmetric.     *)
EXTENDS Outbox
=============================================================================
