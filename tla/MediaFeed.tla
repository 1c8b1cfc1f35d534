------------------------------ MODULE MediaFeed ------------------------------
(***************************************************************************)
(* What GET /api/media/events promises to whoever reads it: a latest-value *)
(* feed.  The service has a current revision; a reader that stays          *)
(* connected is told ever newer revisions, in order and without a gap      *)
(* while it is less than a window behind, and is told the newest one in    *)
(* the end.  There is no replay buffer, queue or thread here; MediaHub     *)
(* implements this module.                                                 *)
(***************************************************************************)
EXTENDS Naturals

CONSTANTS Streams, Window

VARIABLES
    newest,   \* the revision of the service's state
    open,     \* streams that are being read
    told      \* the last revision each stream was told

feedVars == <<newest, open, told>>

FeedInit ==
    /\ newest = 0
    /\ open = {}
    /\ told = [s \in Streams |-> 0]

FeedPublish ==
    /\ newest' = newest + 1
    /\ UNCHANGED <<open, told>>

(* A reader connects and says what it has seen already.                    *)
FeedOpen(s) ==
    /\ s \notin open
    /\ open' = open \cup {s}
    /\ \E r \in 0..newest : told' = [told EXCEPT ![s] = r]
    /\ UNCHANGED newest

(* It may miss revisions only when it is a window behind.                  *)
FeedTell(s) ==
    /\ s \in open
    /\ \E r \in (told[s] + 1)..newest :
           /\ r > told[s] + 1 => told[s] + Window <= newest
           /\ told' = [told EXCEPT ![s] = r]
    /\ UNCHANGED <<newest, open>>

FeedClose(s) ==
    /\ s \in open
    /\ open' = open \ {s}
    /\ told' = [told EXCEPT ![s] = 0]
    /\ UNCHANGED newest

FeedNext ==
    \/ FeedPublish
    \/ \E s \in Streams : FeedOpen(s) \/ FeedTell(s) \/ FeedClose(s)

FeedSafety == FeedInit /\ [][FeedNext]_feedVars

(* A reader that is behind is told something newer, or loses its stream.   *)
FeedSpec ==
    /\ FeedSafety
    /\ \A s \in Streams : WF_feedVars(FeedTell(s))
=============================================================================
