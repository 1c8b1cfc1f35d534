----------------------------- MODULE ControlPage -----------------------------
(***************************************************************************)
(* The control page of the phone and its volume slider: MainActivity's     *)
(* openControl / renderControl, ControlController.load, ControlPageGate,   *)
(* MediaVolumeActor and mergeReadyWithMedia, against a Server of which one *)
(* media revision and one volume are kept.                                 *)
(*                                                                         *)
(* Everything of the page runs on the main thread, one block at a time     *)
(* between two suspensions; a suspension is a variable with the answer it  *)
(* waits for.  A Ready state of the page is [rev, vol]: the revision of    *)
(* the media it shows and the volume in it.  `screen` is what the user     *)
(* sees, `active` and `current` are activeReadyState and currentState.     *)
(* The media connection is the latest-value feed of MediaConnection: it    *)
(* may hand over the newest state of the Server at any time.               *)
(***************************************************************************)
EXTENDS Naturals, FiniteSets

CONSTANTS Volumes,      \* volumes a slider or the PC may set
          MaxRev,       \* bound: revisions that changes on the PC lead to
          MaxSets,      \* bound: values the user gives the slider
          MaxStops,     \* bound: times the activity is stopped
          MaxRefreshes, \* bound: device renames that reload the page
          MaxFaults,    \* bound: failed requests and lost answers
          None,         \* null
          Sent, Failed  \* a request under way, and one that brought an error

ASSUME PageConstants ==
    /\ Volumes \subseteq Nat /\ 0 \in Volumes
    /\ {MaxRev, MaxSets, MaxStops, MaxRefreshes, MaxFaults} \subseteq Nat
    /\ MaxRev > 0
    /\ None # Sent /\ None # Failed /\ Sent # Failed
    /\ \A x \in {None, Sent, Failed}: x \notin Volumes /\ x \notin [rev: Nat, vol: Volumes]
    /\ None \notin [at: {"waiting", "sending", "served", "refused"}, value: Volumes]

Media == [rev: 1..MaxRev + MaxSets, vol: Volumes]
MaybeMedia == Media \cup {None}
MaybeVolume == Volumes \cup {None}
Jobs == {None} \cup [at: {"waiting", "sending", "served", "refused"}, value: Volumes]
Loads == {None, Sent, Failed} \cup Media

VARIABLES
    srv,       \* the Server's newest media state
    visible,   \* the activity is started
    page,      \* "none", "loading", "blank" (its load was discarded), "ready", "error"
    gate,      \* the page's ticket is the gate's newest (ControlPageGate.isCurrent)
    load,      \* the request of ControlController.load: sent, answered or failed
    initial,   \* initialReady.media
    live,      \* the block of repeatOnLifecycle runs: a connection and an actor
    posted,    \* the state the media connection is about to hand over
    seen,      \* the revision it handed over last, 0 before the first one
    latest,    \* latestAuthoritative
    active, current, screen,
    job, pending, gesture, lastOk, confirmed, \* the fields of MediaVolumeActor
    started,   \* a command was started before: lastStartedAt is set
    refresh,   \* the reload after a rename: renamed, then answered or failed
    asked,     \* the last value the user gave the slider and has not seen rejected
    told,      \* the last volume the Server told this page
    sets, stops, refreshes, faults

actorVars == <<job, pending, gesture, lastOk, confirmed, started>>
pageVars == <<visible, page, gate, load, initial, live>>
shownVars == <<active, current, screen>>
bounds == <<sets, stops, refreshes, faults>>
vars == <<srv, pageVars, posted, seen, latest, shownVars, actorVars, refresh,
          asked, told, bounds>>

Init ==
    /\ srv \in {m \in Media: m.rev = 1}
    /\ visible = TRUE /\ page = "none" /\ gate = FALSE /\ load = None
    /\ initial = None /\ live = FALSE
    /\ posted = None /\ seen = 0 /\ latest = None
    /\ active = None /\ current = None /\ screen = None
    /\ job = None /\ pending = None /\ gesture = None
    /\ lastOk = None /\ confirmed = 0 /\ started = FALSE
    /\ refresh = None /\ asked = None /\ told = None
    /\ sets = 0 /\ stops = 0 /\ refreshes = 0 /\ faults = 0

-----------------------------------------------------------------------------
(* The Server *)

\* The volume is changed on the PC, or another part of the media changes.
PcChange ==
    /\ srv.rev < MaxRev
    /\ \E v \in Volumes: srv' = [rev |-> srv.rev + 1, vol |-> v]
    /\ UNCHANGED <<pageVars, posted, seen, latest, shownVars, actorVars, refresh,
                   asked, told, bounds>>

\* set_volume on the Server: the refreshed state is published before the answer.
Served(v) == srv' = IF srv.vol = v THEN srv
                    ELSE [rev |-> srv.rev + 1, vol |-> v]

-----------------------------------------------------------------------------
(* Drawing *)

\* redraw: the screen is built again from the Ready state.
Redraw(ready) == /\ current' = ready
                 /\ active' = ready
                 /\ screen' = ready

\* activeReadyState ?: currentState
Base == IF active # None THEN active ELSE current

Shows(ready) == /\ screen' = ready
                /\ UNCHANGED <<active, current>>

-----------------------------------------------------------------------------
(* The volume actor *)

Busy == job # None \/ pending # None

\* onIdle draws the newest state; without it the page would keep what it had.
OnIdleKeeps == Redraw(Base)
OnIdle == Redraw(latest)

\* The loop of ensureWorker takes the pending value.  A gesture that ended on
\* the value set last is not sent again; a command less than 100 ms after the
\* one before waits; with nothing left the worker ends.
Loop(value, ended, ok, drawn) ==
    \/ /\ value # None /\ ~(value = ok /\ ended = value)
       /\ \E at \in IF started THEN {"waiting", "sending"} ELSE {"sending"}:
            job' = [at |-> at, value |-> value]
       /\ pending' = None /\ gesture' = ended /\ started' = TRUE
       /\ Shows(drawn)
    \/ /\ value = None \/ (value = ok /\ ended = value)
       /\ job' = None /\ pending' = None
       /\ gesture' = IF value = None THEN ended ELSE None
       /\ OnIdle
       /\ UNCHANGED started

\* Were a busy worker not told of the value, the last one of a gesture is lost.
EnsureWorkerDrops(value, ended, drawn) ==
    IF job = None THEN Loop(value, ended, lastOk, drawn)
    ELSE /\ gesture' = ended
         /\ Shows(drawn)
         /\ UNCHANGED <<job, pending, started>>

\* ensureWorker: a running worker finds the value when its command is answered.
EnsureWorker(value, ended, drawn) ==
    IF job = None THEN Loop(value, ended, lastOk, drawn)
    ELSE /\ pending' = value /\ gesture' = ended
         /\ Shows(drawn)
         /\ UNCHANGED <<job, started>>

CanSlide == live /\ screen \in Media /\ sets < MaxSets

Slid(v, ended) ==
    /\ EnsureWorker(v, ended, [screen EXCEPT !.vol = v])
    /\ asked' = v /\ sets' = sets + 1
    /\ UNCHANGED <<srv, pageVars, posted, seen, latest, lastOk, confirmed, refresh,
                   told, stops, refreshes, faults>>

\* submitVolume: the slider moves.
SubmitVolume ==
    CanSlide /\ \E v \in Volumes \ {screen.vol}: Slid(v, gesture)

\* finishGesture: it is let go, on the value shown or, when the screen was drawn
\* again under the finger, on the value it was moved to.
FinishGesture ==
    CanSlide /\ \E v \in {screen.vol} \cup ({asked} \ {None}): Slid(v, v)

WaitOver ==
    /\ job # None /\ job.at = "waiting"
    /\ job' = [job EXCEPT !.at = "sending"]
    /\ UNCHANGED <<srv, pageVars, posted, seen, latest, shownVars, pending, gesture,
                   lastOk, confirmed, started, refresh, asked, told, bounds>>

\* The command reaches the Server, which sets the volume or refuses.
CommandHandled ==
    /\ job # None /\ job.at = "sending"
    /\ \/ /\ Served(job.value)
          /\ job' = [job EXCEPT !.at = "served"] /\ UNCHANGED faults
       \/ /\ faults < MaxFaults /\ faults' = faults + 1
          /\ job' = [job EXCEPT !.at = "refused"] /\ UNCHANGED srv
    /\ UNCHANGED <<pageVars, posted, seen, latest, shownVars, pending, gesture,
                   lastOk, confirmed, started, refresh, asked, told, sets, stops,
                   refreshes>>

CommandSucceeds ==
    /\ job # None /\ job.at = "served"
    /\ lastOk' = job.value
    /\ Loop(pending, IF gesture = job.value THEN None ELSE gesture, job.value, screen)
    /\ UNCHANGED <<srv, pageVars, posted, seen, latest, confirmed, refresh, asked,
                   told, bounds>>

\* The command was refused, or its answer is lost: later values are dropped and
\* onFailure draws the last confirmed volume.
CommandFails ==
    /\ job # None
    /\ \/ job.at = "refused" /\ UNCHANGED faults
       \/ job.at = "served" /\ faults < MaxFaults /\ faults' = faults + 1
    /\ job' = None /\ pending' = None /\ gesture' = None
    /\ Redraw([Base EXCEPT !.vol = confirmed])
    /\ asked' = None
    /\ UNCHANGED <<srv, pageVars, posted, seen, latest, lastOk, confirmed, started,
                   refresh, told, sets, stops, refreshes>>

-----------------------------------------------------------------------------
(* The media connection's callbacks *)

StateArrives ==
    /\ live /\ srv.rev > seen /\ posted # srv
    /\ posted' = srv
    /\ UNCHANGED <<srv, pageVars, seen, latest, shownVars, actorVars, refresh, asked,
                   told, bounds>>

\* onState on a busy slider: everything but the volume is drawn.
Merged(media) == [media EXCEPT !.vol = Base.vol]

OnState ==
    /\ live /\ posted # None
    /\ latest' = posted /\ confirmed' = posted.vol /\ told' = posted.vol
    /\ seen' = posted.rev /\ posted' = None
    /\ IF Busy
       THEN /\ active' = Merged(posted) /\ current' = Merged(posted)
            /\ screen' = IF screen \in Media THEN [screen EXCEPT !.rev = posted.rev]
                         ELSE screen
       ELSE Redraw(posted)
    /\ UNCHANGED <<srv, pageVars, job, pending, gesture, lastOk, started, refresh,
                   asked, bounds>>

\* onArtwork and onError draw the page again from what it holds.
OnArtwork ==
    /\ live
    /\ Redraw(Base)
    /\ UNCHANGED <<srv, pageVars, posted, seen, latest, actorVars, refresh, asked,
                   told, bounds>>

-----------------------------------------------------------------------------
(* The page *)

\* A connection of its own for each block; a kept one would remember its revision.
ConnectionKept == posted' = None /\ UNCHANGED seen
NoConnection == posted' = None /\ seen' = 0

NoActor == /\ job' = None /\ pending' = None /\ gesture' = None
           /\ lastOk' = None /\ confirmed' = 0 /\ started' = FALSE
           /\ asked' = None

\* A command of a closed actor may still reach the Server.
LeftInFlight ==
    \/ UNCHANGED srv
    \/ job # None /\ job.at = "sending" /\ Served(job.value)

OpenControl ==
    /\ visible /\ page = "none"
    /\ page' = "loading" /\ gate' = TRUE /\ load' = Sent
    /\ UNCHANGED <<srv, visible, initial, live, posted, seen, latest, shownVars,
                   actorVars, refresh, asked, told, bounds>>

\* What a request of `load` brings: the Server's state now, or an error.
Reads(answer) ==
    \/ answer = srv /\ UNCHANGED faults
    \/ answer = Failed /\ faults < MaxFaults /\ faults' = faults + 1

LoadAnswered ==
    /\ load = Sent
    /\ Reads(load') /\ load' # Sent
    /\ UNCHANGED <<srv, visible, page, gate, initial, live, posted, seen, latest,
                   shownVars, actorVars, refresh, asked, told, sets, stops, refreshes>>

\* afterLoad: a load whose ticket is old is discarded.
Loaded ==
    /\ load \notin {None, Sent}
    /\ load' = None
    /\ page' = IF ~gate THEN "blank" ELSE IF load \in Media THEN "ready" ELSE "error"
    /\ IF gate /\ load \in Media
       THEN /\ initial' = load /\ latest' = load /\ told' = load.vol
            /\ live' = visible
            /\ Redraw(load)
       ELSE UNCHANGED <<initial, latest, told, live, shownVars>>
    /\ UNCHANGED <<srv, visible, gate, posted, seen, actorVars, refresh, asked, bounds>>

\* onStop: the block of repeatOnLifecycle is cancelled and the gate invalidated.
Stop ==
    /\ visible /\ stops < MaxStops /\ stops' = stops + 1
    /\ visible' = FALSE /\ gate' = FALSE /\ live' = FALSE
    /\ NoConnection /\ NoActor /\ LeftInFlight
    /\ UNCHANGED <<page, load, initial, latest, shownVars, refresh, told, sets,
                   refreshes, faults>>

\* The block belongs to the loaded page.
Runs == page = "ready"

\* onStart: the block runs again, from the state the page was loaded with.
Start ==
    /\ ~visible /\ visible' = TRUE
    /\ live' = Runs
    /\ latest' = IF Runs THEN initial ELSE latest
    /\ UNCHANGED <<srv, page, gate, load, initial, posted, seen, shownVars, actorVars,
                   refresh, asked, told, bounds>>

\* The back arrow works once the page was rendered.
Back ==
    /\ visible /\ page \in {"ready", "error"}
    /\ page' = "none" /\ gate' = FALSE /\ load' = None /\ initial' = None
    /\ live' = FALSE /\ latest' = None /\ refresh' = None /\ told' = None
    /\ NoConnection /\ NoActor /\ LeftInFlight
    /\ active' = None /\ current' = None /\ screen' = None
    /\ UNCHANGED <<visible, bounds>>

\* A device was renamed or revoked: the whole page is loaded again.
Rename ==
    /\ live /\ refresh = None /\ refreshes < MaxRefreshes
    /\ refresh' = Sent /\ refreshes' = refreshes + 1
    /\ UNCHANGED <<srv, pageVars, posted, seen, latest, shownVars, actorVars, asked,
                   told, sets, stops, faults>>

RefreshAnswered ==
    /\ refresh = Sent
    /\ Reads(refresh') /\ refresh' # Sent
    /\ UNCHANGED <<srv, pageVars, posted, seen, latest, shownVars, actorVars, asked,
                   told, sets, stops, refreshes>>

\* activeReadyState and the screen take what was read; currentState does not.
Refreshed ==
    /\ refresh \notin {None, Sent}
    /\ refresh' = None
    /\ active' = IF refresh \in Media THEN refresh ELSE None
    /\ screen' = refresh
    /\ told' = IF refresh \in Media THEN refresh.vol ELSE told
    /\ UNCHANGED <<srv, pageVars, posted, seen, latest, current, actorVars, asked,
                   bounds>>

-----------------------------------------------------------------------------
Worker == WaitOver \/ CommandHandled \/ CommandSucceeds \/ CommandFails
Feed == StateArrives \/ OnState
Loading == LoadAnswered \/ Loaded
Refreshing == RefreshAnswered \/ Refreshed
User == OpenControl \/ SubmitVolume \/ FinishGesture \/ Rename \/ Back

Next == Worker \/ Feed \/ OnArtwork \/ Loading \/ Refreshing \/ User \/ Stop \/ Start
        \/ PcChange

Spec == Init /\ [][Next]_vars

\* Requests have timeouts, and the main thread runs what is posted to it.
FairSpec == Spec /\ WF_vars(Worker) /\ WF_vars(Feed) /\ WF_vars(Loading)
                 /\ WF_vars(Refreshing)

-----------------------------------------------------------------------------
(* Properties *)

\* Types, and a running block belongs to a rendered, visible page.
TypeOK ==
    /\ srv \in Media /\ {visible, gate, live, started} \subseteq BOOLEAN
    /\ page \in {"none", "loading", "blank", "ready", "error"}
    /\ load \in Loads /\ refresh \in Loads
    /\ {initial, posted, latest, active, current} \subseteq MaybeMedia
    /\ seen \in 0..MaxRev + MaxSets /\ screen \in Media \cup {None, Failed}
    /\ job \in Jobs /\ {pending, gesture, lastOk, asked, told} \subseteq MaybeVolume
    /\ confirmed \in Volumes
    /\ sets \in 0..MaxSets /\ stops \in 0..MaxStops
    /\ refreshes \in 0..MaxRefreshes /\ faults \in 0..MaxFaults
    /\ live => visible /\ page = "ready"

AtRest == live /\ ~Busy /\ refresh = None /\ posted = None /\ seen = srv.rev

\* When the slider is let alone and the connection has handed over the newest
\* state, the page shows that state: its revision and its volume ...
ShownIsServerAlways == AtRest => screen = srv

\* ... as long as no rename has replaced the page by an older read.
ShownIsServer == refreshes = 0 => ShownIsServerAlways

\* An idle worker has set the last value the user gave, whatever it skipped,
\* overwrote and waited for, unless a command failed since.
LastGestureWins == live /\ job = None /\ asked # None => lastOk = asked

\* A failed command puts the slider back to the last volume the Server told.
RollsBack == [][CommandFails => screen'.vol = told]_vars

\* Once nothing changes any more, a page that is looked at and was not reloaded
\* after a rename shows the Server's state, whatever failed or was stopped.
Settles == <>[](live /\ refreshes = 0 => screen = srv)
=============================================================================
