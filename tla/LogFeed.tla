------------------------------- MODULE LogFeed -------------------------------
(***************************************************************************)
(* What a log stream promises, without requests, archives, messages,       *)
(* limits or failures.  Entries are numbered as they are written.  They    *)
(* are accepted in that order, without a gap; the writer lets go of what   *)
(* was accepted and offered for publication; the live feed follows what is *)
(* accepted and shows every entry at most once, upwards.                   *)
(***************************************************************************)
EXTENDS Naturals

VARIABLES
    written,   \* the last entry written
    accepted,  \* the last entry accepted for good
    offered,   \* the entries offered for publication
    acked,     \* the last entry the writer let go
    live,      \* the last entry the live feed has
    shown      \* the entries it showed

feedVars == <<written, accepted, offered, acked, live, shown>>

FeedInit ==
    /\ written = 0 /\ accepted = 0 /\ acked = 0 /\ live = 0
    /\ offered = {} /\ shown = {}

Write ==
    /\ written' = written + 1
    /\ UNCHANGED <<accepted, offered, acked, live, shown>>

Accept ==
    /\ accepted' \in accepted + 1 .. written
    /\ UNCHANGED <<written, offered, acked, live, shown>>

Offer ==
    /\ \E first, last \in 1 .. accepted : offered' = offered \cup (first .. last)
    /\ UNCHANGED <<written, accepted, acked, live, shown>>

LetGo ==
    /\ acked' \in acked + 1 .. accepted
    /\ 1 .. acked' \subseteq offered
    /\ UNCHANGED <<written, accepted, offered, live, shown>>

Follow ==
    /\ live' \in live + 1 .. accepted
    /\ UNCHANGED <<written, accepted, offered, acked, shown>>

Show ==
    /\ \E first, last \in 1 .. live :
         /\ \A k \in shown : k < first
         /\ shown' = shown \cup (first .. last)
    /\ UNCHANGED <<written, accepted, offered, acked, live>>

FeedNext == Write \/ Accept \/ Offer \/ LetGo \/ Follow \/ Show

FeedSpec == FeedInit /\ [][FeedNext]_feedVars
=============================================================================
