------------------------------ MODULE MediaHub ------------------------------
(***************************************************************************)
(* The media event stream of the Server: MediaEventHub and the endpoint    *)
(* GET /api/media/events of agent/api.py, the publication of states by     *)
(* media/service.py and the revocation of a device (agent/invalidation.py).*)
(*                                                                         *)
(* States are published on the media thread and are posted to the event    *)
(* loop; everything else runs on the event loop, where a generator gives   *)
(* up control at each yield and while it waits for its queue.  A state is  *)
(* its revision.  The frame of a revision is told to the reader when the   *)
(* generator is resumed after the yield.  The keep-alive changes nothing   *)
(* and is left out.                                                        *)
(***************************************************************************)
EXTENDS Integers, Sequences, FiniteSets

CONSTANTS
    Streams,     \* connections; each is opened again after it has ended
    Devices,     \* paired devices
    Local,       \* the reader on the Server's own machine, never revoked
    Window,      \* states kept for replay, 64 in the code
    MaxRev,      \* bound: revisions the service reaches
    Nothing,     \* an empty subscriber queue
    Revoked      \* DeviceRevoked in a subscriber queue

ASSUME ConstantsAssumption ==
    /\ Window \in Nat \ {0}
    /\ MaxRev \in Nat
    /\ Local \notin Devices
    /\ Nothing # Revoked
    /\ Nothing \notin Int /\ Revoked \notin Int

Revisions == 0..MaxRev
Readers == Devices \cup {Local}

VARIABLES
    svc,        \* revision of MediaService._state
    posted,     \* _accept calls waiting on the event loop, in order
    replay,     \* the last Window accepted revisions
    revoked,    \* revoked_device_ids
    phase,      \* of each stream
    reader,     \* whose stream it is
    since,      \* the last revision the stream was told, or began after
    batch,      \* revisions still to be told before the next wait
    queue       \* the subscriber queue, of size one

streamVars == <<phase, reader, since, batch, queue>>
vars == <<svc, posted, replay, revoked, streamVars>>

(* closed: no connection; admitted: passed the middleware and the checks   *)
(* of the endpoint, the generator has not started; open: subscribed;       *)
(* told_revoked and cut: ended by the Server, with and without the frame   *)
(* that says why.                                                          *)
Phases == {"closed", "admitted", "open", "told_revoked", "cut"}

TypeOK ==
    /\ svc \in Revisions
    /\ posted \in Seq(Revisions) /\ replay \in Seq(Revisions)
    /\ Len(replay) \in 1..Window
    /\ revoked \subseteq Devices
    /\ phase \in [Streams -> Phases]
    /\ reader \in [Streams -> Readers]
    /\ since \in [Streams -> Revisions]
    /\ batch \in [Streams -> Seq(Revisions)]
    /\ queue \in [Streams -> Revisions \cup {Nothing, Revoked}]

Init ==
    /\ svc = 0 /\ posted = <<>> /\ replay = <<0>>
    /\ revoked = {}
    /\ phase = [s \in Streams |-> "closed"]
    /\ reader = [s \in Streams |-> Local]
    /\ since = [s \in Streams |-> 0]
    /\ batch = [s \in Streams |-> <<>>]
    /\ queue = [s \in Streams |-> Nothing]

Newest == replay[Len(replay)]
(* The states after n; a replay is in order (Accept).                      *)
Later(n) ==
    LET after == {i \in DOMAIN replay : replay[i] > n} IN
    IF after = {} THEN <<>>
    ELSE SubSeq(replay, CHOOSE i \in after : \A j \in after : i <= j, Len(replay))

(* Mutant: only what was newest when the reader was last woken.            *)
InitialNewest(n) == IF n = svc THEN <<>> ELSE <<Newest>>
(* What a reader that has seen n is told first.                            *)
Initial(n) ==
    IF n = svc THEN <<>>
    ELSE IF n < Head(replay) THEN <<svc>>
    ELSE Later(n)

(* Streams whose queue is in the dictionary of subscribers.                *)
Subscribed(s) == phase[s] = "open"

(***************************************************************************)
(* The media thread: MediaService._publish and _from_media_thread.         *)
(***************************************************************************)
Publish ==
    /\ svc < MaxRev
    /\ svc' = svc + 1
    /\ posted' = Append(posted, svc + 1)
    /\ UNCHANGED <<replay, revoked, streamVars>>

(***************************************************************************)
(* The event loop.                                                         *)
(***************************************************************************)
(* deque(maxlen)                                                           *)
Kept(q) == IF Len(q) > Window THEN Tail(q) ELSE q

Accept ==
    /\ posted # <<>>
    /\ posted' = Tail(posted)
    /\ IF Head(posted) <= Newest
         THEN UNCHANGED <<replay, queue>>
         ELSE /\ replay' = Kept(Append(replay, Head(posted)))
              /\ queue' = [s \in Streams |->
                    IF Subscribed(s) /\ reader[s] \notin revoked
                      THEN Head(posted) ELSE queue[s]]
    /\ UNCHANGED <<svc, revoked, phase, reader, since, batch>>

(* get_media_events: the middleware lets a paired device through, the      *)
(* endpoint refuses a revision that is still to come.                      *)
Admit(s, d, n) ==
    /\ phase[s] \in {"closed", "told_revoked", "cut"}
    /\ d \notin revoked /\ n <= svc
    /\ phase' = [phase EXCEPT ![s] = "admitted"]
    /\ reader' = [reader EXCEPT ![s] = d]
    /\ since' = [since EXCEPT ![s] = n]
    /\ UNCHANGED <<svc, posted, replay, revoked, batch, queue>>

(* stream: the generator starts.                                           *)
Subscribe(s) ==
    /\ phase[s] = "admitted"
    /\ IF reader[s] \in revoked
         THEN /\ phase' = [phase EXCEPT ![s] = "told_revoked"]
              /\ since' = [since EXCEPT ![s] = 0]
              /\ UNCHANGED batch
         ELSE /\ phase' = [phase EXCEPT ![s] = "open"]
              /\ batch' = [batch EXCEPT ![s] = Initial(since[s])]
              /\ UNCHANGED since
    /\ UNCHANGED <<svc, posted, replay, revoked, reader, queue>>

(* The generator ends: finally takes the queue out of the dictionary.      *)
End(s, how) ==
    /\ phase' = [phase EXCEPT ![s] = how]
    /\ since' = [since EXCEPT ![s] = 0]
    /\ batch' = [batch EXCEPT ![s] = <<>>]
    /\ queue' = [queue EXCEPT ![s] = Nothing]

(* Mutant: only the wait looks at the revocations.                         *)
ForbiddenIdle(s) == reader[s] \in revoked /\ batch[s] = <<>>
(* The loops over initial states yield one frame; both look at the         *)
(* revocations before each.                                                *)
Forbidden(s) == reader[s] \in revoked

Tell(s) ==
    /\ phase[s] = "open" /\ batch[s] # <<>>
    /\ IF Forbidden(s)
         THEN End(s, "told_revoked")
         ELSE /\ since' = [since EXCEPT ![s] = Head(batch[s])]
              /\ batch' = [batch EXCEPT ![s] = Tail(@)]
              /\ UNCHANGED <<phase, queue>>
    /\ UNCHANGED <<svc, posted, replay, revoked, reader>>

(* queue.get returns: a state only wakes the stream, which then looks for  *)
(* what is new.                                                            *)
Wake(s) ==
    /\ phase[s] = "open" /\ batch[s] = <<>> /\ queue[s] # Nothing
    /\ IF queue[s] = Revoked THEN End(s, "told_revoked")
       ELSE IF reader[s] \in revoked THEN End(s, "cut")
       ELSE /\ batch' = [batch EXCEPT ![s] = Initial(since[s])]
            /\ queue' = [queue EXCEPT ![s] = Nothing]
            /\ UNCHANGED <<phase, since>>
    /\ UNCHANGED <<svc, posted, replay, revoked, reader>>

(* Mutant: the device is only remembered.                                  *)
NotReplaced(q) == q
(* What revoke puts in a queue that holds q.                               *)
Replaced(q) == Revoked

Revoke(d) ==
    /\ d \notin revoked
    /\ revoked' = revoked \cup {d}
    /\ queue' = [s \in Streams |->
          IF Subscribed(s) /\ reader[s] = d THEN Replaced(queue[s]) ELSE queue[s]]
    /\ UNCHANGED <<svc, posted, replay, phase, reader, since, batch>>

(* The reader goes away, at any time.                                      *)
Disconnect(s) ==
    /\ phase[s] \in {"admitted", "open"}
    /\ End(s, "closed")
    /\ UNCHANGED <<svc, posted, replay, revoked, reader>>

Next ==
    \/ Publish
    \/ Accept
    \/ \E d \in Devices : Revoke(d)
    \/ \E s \in Streams :
        \/ \E d \in Readers, n \in Revisions : Admit(s, d, n)
        \/ Subscribe(s)
        \/ Tell(s)
        \/ Wake(s)
        \/ Disconnect(s)

Spec == Init /\ [][Next]_vars

(* The event loop runs its callbacks and its tasks; a connected reader     *)
(* takes what is sent.  Nobody has to publish, connect, leave or revoke.   *)
FairSpec ==
    /\ Spec /\ WF_vars(Accept)
    /\ \A s \in Streams : WF_vars(Subscribe(s)) /\ WF_vars(Tell(s)) /\ WF_vars(Wake(s))

-----------------------------------------------------------------------------
(* A stream that waits has nothing left to learn: its reader knows the     *)
(* newest state unless a posted one or its queue is about to wake it       *)
(* (_subscribe, _accept and initial together lose no state).               *)
NoLostState ==
    \A s \in Streams :
        phase[s] = "open" /\ batch[s] = <<>> /\ queue[s] = Nothing /\ posted = <<>>
            => since[s] = svc

(* After the revocation of its device no stream is told another state,     *)
(* whatever was collected or queued for it before (DeviceRevoked).         *)
RevokedHearsNothing ==
    [][\A s \in Streams :
          reader[s] \in revoked /\ phase[s] = "open" /\ phase'[s] = "open"
              => since'[s] = since[s]]_vars

(* A stream the Server ends is told why: no device is cut off silently.    *)
RevokedIsTold == \A s \in Streams : phase[s] # "cut"

(* Every stream of a revoked device ends, an idle one included.            *)
RevokedEnds ==
    \A s \in Streams :
        (phase[s] \in {"admitted", "open"} /\ reader[s] \in revoked)
            ~> phase[s] \notin {"admitted", "open"}

(* The hub implements the latest-value feed: what a stream has been told   *)
(* only grows, is never ahead of the service and ends at the newest state. *)
Feed == INSTANCE MediaFeed WITH
    newest <- svc,
    open <- {s \in Streams : phase[s] \in {"admitted", "open"}},
    told <- since

ImplementsFeed == Feed!FeedSpec
=============================================================================
