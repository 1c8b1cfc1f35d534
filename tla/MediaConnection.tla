--------------------------- MODULE MediaConnection ---------------------------
(***************************************************************************)
(* The media connection of the Android control page:                       *)
(* MediaConnectionController.kt, EzApiClient.openMediaEvents, and the page *)
(* of MainActivity.kt that owns them, against a Server that publishes      *)
(* media states, may revoke the device and may be restarted.               *)
(*                                                                         *)
(* The controller's coroutines run on the main thread, one step at a time  *)
(* between two suspensions; requests and the reader of the event stream    *)
(* run on IO threads.  Towards this reader the Server is the feed of       *)
(* MediaFeed, which MediaHub implements.  A media state is <<epoch,        *)
(* revision>>: the process of the Server that published it, and its        *)
(* number there.  A new process counts from 0 again.                       *)
(***************************************************************************)
EXTENDS Integers, Sequences

CONSTANTS
    MaxStates,   \* bound: revisions one process of the Server reaches
    MaxEpochs,   \* bound: processes of the Server
    MaxStarts,   \* bound: times the page comes to the foreground
    MaxFaults,   \* bound: failing requests and broken streams
    MaxWaiting,  \* bound: events read and not yet applied
    Covers,      \* artwork paths
    NoCover,     \* a state without artwork (null)
    CoverOf      \* the path in the state of each revision

StateRevisions == 0..MaxStates
Epochs == 1..MaxEpochs
States == Epochs \X StateRevisions
NoState == <<0, 0>>
ArtworkAttempts == 2     \* three in the code

ASSUME ConnectionAssumption ==
    /\ MaxStates \in Nat /\ MaxEpochs \in Nat \ {0}
    /\ MaxStarts \in Nat /\ MaxFaults \in Nat /\ MaxWaiting \in Nat \ {0}
    /\ NoCover \notin Covers
    /\ CoverOf \in [StateRevisions -> Covers \cup {NoCover}]

Requests == {"snapshot", "recovery", "refresh"}
Request == [kind : {"idle", "asked", "state", "unauthorized", "failed"},
            state : States \cup {NoState}]
Idle == [kind |-> "idle", state |-> NoState]
Asked == [kind |-> "asked", state |-> NoState]

VARIABLES
    epoch, last, paired,     \* Server: process, newest revision of each, device known
    starts,                  \* times the page was started
    loop,                    \* where runConnectionLoop is
    reason,                  \* MediaEventTermination
    req,                     \* getMediaState, recovery and user's refreshMediaState
    stream, peer, told,      \* event stream: state, process, last revision sent
    straggler,               \* a closed reader may still hand over one event
    gate,                    \* recoveryGate
    waiting, ready,          \* events behind the gate, and past it
    lastApplied,             \* lastAppliedRevision
    shown,                   \* the state on the screen
    loadedPath, artwork,     \* loadedCoverPath; path of the picture on the screen
    coverTries,              \* attempts left of coverJob, 0 when there is none
    faults

serverVars == <<epoch, last, paired>>
readerVars == <<stream, peer, told, straggler>>
eventVars == <<gate, waiting, ready>>
screenVars == <<lastApplied, shown, loadedPath, artwork, coverTries>>
connectionVars == <<serverVars, starts, loop, reason, req, readerVars, eventVars, screenVars, faults>>

Loops == {"off", "snapshot", "streaming", "closing", "delay", "ended", "unauthorized"}
Reasons == {"none", "network", "eof", "refused", "unauthorized"}

ConnectionTypeOK ==
    /\ epoch \in Epochs /\ last \in [Epochs -> StateRevisions] /\ paired \in BOOLEAN
    /\ starts \in 0..MaxStarts /\ faults \in 0..MaxFaults
    /\ loop \in Loops /\ reason \in Reasons
    /\ req \in [Requests -> Request]
    /\ stream \in {"none", "opening", "open"} /\ peer \in Epochs /\ told \in StateRevisions
    /\ straggler \in BOOLEAN
    /\ gate \in {"none", "pending", "passed", "refused"}
    /\ waiting \in Seq(States) /\ ready \in Seq(States)
    /\ lastApplied \in {-1} \cup StateRevisions
    /\ shown \in States \cup {NoState}
    /\ loadedPath \in Covers \cup {NoCover} /\ artwork \in Covers \cup {NoCover}
    /\ coverTries \in 0..ArtworkAttempts

ConnectionInit ==
    /\ epoch = 1 /\ last = [e \in Epochs |-> 0] /\ paired = TRUE
    /\ starts = 0 /\ faults = 0 /\ loop = "off" /\ reason = "none"
    /\ req = [k \in Requests |-> Idle]
    /\ stream = "none" /\ peer = 1 /\ told = 0 /\ straggler = FALSE
    /\ gate = "none" /\ waiting = <<>> /\ ready = <<>>
    /\ lastApplied = -1 /\ shown = NoState
    /\ loadedPath = NoCover /\ artwork = NoCover /\ coverTries = 0

NewestState == <<epoch, last[epoch]>>
Active == loop \notin {"off", "unauthorized"}

(***************************************************************************)
(* The Server.                                                             *)
(***************************************************************************)
PublishState ==
    /\ last[epoch] < MaxStates
    /\ last' = [last EXCEPT ![epoch] = @ + 1]
    /\ UNCHANGED <<epoch, paired, starts, loop, reason, req, readerVars, eventVars, screenVars, faults>>

(* A restart takes longer than an answer on its way takes to be applied.   *)
Restart ==
    /\ epoch < MaxEpochs
    /\ \A k \in Requests : req[k].kind # "state"
    /\ epoch' = epoch + 1
    /\ UNCHANGED <<last, paired, starts, loop, reason, req, readerVars, eventVars, screenVars, faults>>

Unpair ==
    /\ paired /\ paired' = FALSE
    /\ UNCHANGED <<epoch, last, starts, loop, reason, req, readerVars, eventVars, screenVars, faults>>

Answer(k) ==
    /\ req[k] = Asked
    /\ req' = [req EXCEPT ![k] =
          IF paired THEN [kind |-> "state", state |-> NewestState]
                    ELSE [kind |-> "unauthorized", state |-> NoState]]
    /\ UNCHANGED <<serverVars, starts, loop, reason, readerVars, eventVars, screenVars, faults>>

(* NetworkError, or 503 of a Server whose media service is not ready.      *)
RequestFails(k) ==
    /\ req[k] = Asked /\ faults < MaxFaults
    /\ faults' = faults + 1
    /\ req' = [req EXCEPT ![k] = [kind |-> "failed", state |-> NoState]]
    /\ UNCHANGED <<serverVars, starts, loop, reason, readerVars, eventVars, screenVars>>

(***************************************************************************)
(* applyStateOnMain and the cover job it launches.                         *)
(***************************************************************************)
(* Mutant: the revision is not compared.                                   *)
NotAState(st) == st[2] = 0
Outdated(st) == st[2] = 0 \/ st[2] < lastApplied

(* Mutant: a state without a cover is no change of cover.                  *)
OtherCover(path) == path # NoCover /\ path # loadedPath
CoverChanges(path) == path # loadedPath

Attempts(path) == IF path = NoCover THEN 0 ELSE ArtworkAttempts

ApplyState(st) ==
    IF Outdated(st) THEN UNCHANGED screenVars
    ELSE LET path == CoverOf[st[2]] IN
         /\ lastApplied' = st[2]
         /\ shown' = st
         /\ IF CoverChanges(path)
              THEN /\ loadedPath' = path
                   /\ artwork' = NoCover
                   /\ coverTries' = Attempts(path)
              ELSE UNCHANGED <<loadedPath, artwork, coverTries>>

(* invalidate: every job is cancelled, the stream is closed, what was read *)
(* is dropped.  The state and the picture stay on the screen.              *)
Invalidate(next) ==
    /\ loop' = next
    /\ reason' = "none"
    /\ req' = [k \in Requests |-> Idle]
    /\ stream' = "none" /\ told' = 0 /\ straggler' = FALSE
    /\ gate' = "none" /\ waiting' = <<>> /\ ready' = <<>>
    /\ coverTries' = 0
    /\ UNCHANGED <<serverVars, starts, peer, lastApplied, shown, loadedPath, artwork, faults>>

TerminateAuthorization == Invalidate("unauthorized")

CoverArrives ==
    /\ coverTries > 0
    /\ \/ paired /\ artwork' = loadedPath /\ coverTries' = 0
       \/ UNCHANGED artwork /\ coverTries' \in {0, coverTries - 1}
    /\ UNCHANGED <<serverVars, starts, loop, reason, req, readerVars, eventVars,
                   lastApplied, shown, loadedPath, faults>>

CoverUnauthorized == coverTries > 0 /\ ~paired /\ TerminateAuthorization

(***************************************************************************)
(* The page: start and close with the lifecycle, refresh by the user.      *)
(***************************************************************************)
Start ==
    /\ loop = "off" /\ starts < MaxStarts
    /\ starts' = starts + 1
    /\ loop' = "snapshot"
    /\ req' = [req EXCEPT !["snapshot"] = Asked]
    /\ lastApplied' = -1 /\ loadedPath' = NoCover
    /\ UNCHANGED <<serverVars, reason, readerVars, eventVars, shown, artwork, coverTries, faults>>

Close == Active /\ Invalidate("off")

Refresh ==
    /\ Active /\ req["refresh"] = Idle
    /\ req' = [req EXCEPT !["refresh"] = Asked]
    /\ UNCHANGED <<serverVars, starts, loop, reason, readerVars, eventVars, screenVars, faults>>

RefreshDone ==
    /\ req["refresh"].kind \in {"state", "failed"}
    /\ IF req["refresh"].kind = "state" THEN ApplyState(req["refresh"].state)
                                        ELSE UNCHANGED screenVars
    /\ req' = [req EXCEPT !["refresh"] = Idle]
    /\ UNCHANGED <<serverVars, starts, loop, reason, readerVars, eventVars, faults>>

RefreshUnauthorized == req["refresh"].kind = "unauthorized" /\ TerminateAuthorization

(***************************************************************************)
(* runConnectionLoop.                                                      *)
(***************************************************************************)
SnapshotApplied ==
    /\ loop = "snapshot" /\ req["snapshot"].kind = "state"
    /\ ApplyState(req["snapshot"].state)
    /\ req' = [req EXCEPT !["snapshot"] = Idle]
    /\ loop' = "streaming"
    /\ stream' = "opening" /\ told' = req["snapshot"].state[2]
    /\ UNCHANGED <<serverVars, starts, reason, peer, straggler, eventVars, faults>>

SnapshotFailed ==
    /\ loop = "snapshot" /\ req["snapshot"].kind = "failed"
    /\ req' = [req EXCEPT !["snapshot"] = Idle]
    /\ loop' = "delay"
    /\ UNCHANGED <<serverVars, starts, reason, readerVars, eventVars, screenVars, faults>>

SnapshotRejected == TerminateAuthorization

SnapshotUnauthorized ==
    /\ loop = "snapshot" /\ req["snapshot"].kind = "unauthorized"
    /\ SnapshotRejected

Retry ==
    /\ loop = "delay"
    /\ loop' = "snapshot"
    /\ req' = [req EXCEPT !["snapshot"] = Asked]
    /\ UNCHANGED <<serverVars, starts, reason, readerVars, eventVars, screenVars, faults>>

(* termination.complete, which only the first call decides.                *)
Terminate(why) ==
    /\ stream' = "none"
    /\ loop' = "closing"
    /\ reason' = IF loop = "streaming" THEN why ELSE reason

(* The Server accepts the stream; onOpen begins the recovery.              *)
StreamOpens ==
    /\ stream = "opening" /\ paired /\ told <= last[epoch]
    /\ stream' = "open" /\ peer' = epoch
    /\ gate' = "pending"
    /\ req' = [req EXCEPT !["recovery"] = Asked]
    /\ UNCHANGED <<serverVars, starts, loop, reason, told, straggler, waiting, ready, screenVars, faults>>

(* 401, or 400 for a revision the Server has not reached.                  *)
StreamRefused ==
    /\ stream = "opening"
    /\ \/ ~paired /\ Terminate("unauthorized")
       \/ paired /\ told > last[epoch] /\ Terminate("refused")
    /\ UNCHANGED <<serverVars, starts, req, peer, told, straggler, eventVars, screenVars, faults>>

(* The connection cannot be made or breaks; a Server that is gone breaks   *)
(* it for certain.                                                         *)
StreamBreaks ==
    /\ stream # "none"
    /\ \/ faults < MaxFaults /\ faults' = faults + 1 /\ Terminate("network")
       \/ stream = "open" /\ faults < MaxFaults /\ faults' = faults + 1 /\ Terminate("eof")
       \/ stream = "open" /\ peer # epoch /\ UNCHANGED faults /\ Terminate("eof")
    /\ UNCHANGED <<serverVars, starts, req, peer, told, straggler, eventVars, screenVars>>

StreamRevoked ==
    /\ stream = "open" /\ peer = epoch /\ ~paired
    /\ Terminate("unauthorized")
    /\ UNCHANGED <<serverVars, starts, req, peer, told, straggler, eventVars, screenVars, faults>>

(* The reader hands an event to the main thread, behind the gate it finds. *)
Handed(st) ==
    /\ Len(waiting) + Len(ready) < MaxWaiting
    /\ waiting' = IF gate = "pending" THEN Append(waiting, st) ELSE waiting
    /\ ready' = IF gate \in {"passed", "none"} THEN Append(ready, st) ELSE ready

Event ==
    /\ stream = "open" /\ (peer = epoch => paired)
    /\ \E n \in (told + 1)..last[peer] : told' = n /\ Handed(<<peer, n>>)
    /\ UNCHANGED <<serverVars, starts, loop, reason, req, stream, peer, straggler, gate, screenVars, faults>>

(* Closed by the recovery while it parses an event.                        *)
LateEvent ==
    /\ straggler
    /\ straggler' = FALSE
    /\ \E n \in StateRevisions : n <= last[peer] /\ Handed(<<peer, n>>)
    /\ UNCHANGED <<serverVars, starts, loop, reason, req, stream, peer, told, gate, screenVars, faults>>

ApplyEvent ==
    /\ ready # <<>>
    /\ ApplyState(Head(ready))
    /\ ready' = Tail(ready)
    /\ UNCHANGED <<serverVars, starts, loop, reason, req, readerVars, gate, waiting, faults>>

(* Mutant: what arrived before the recovery's answer is dropped.           *)
OnlyReady == ready
Released == ready \o waiting

RecoveryApplied ==
    /\ req["recovery"].kind = "state" /\ req["recovery"].state[2] # 0
    /\ ApplyState(req["recovery"].state)
    /\ req' = [req EXCEPT !["recovery"] = Idle]
    /\ gate' = "passed" /\ ready' = Released /\ waiting' = <<>>
    /\ UNCHANGED <<serverVars, starts, loop, reason, readerVars, faults>>

RecoveryFailed ==
    /\ \/ req["recovery"].kind = "failed"
       \/ req["recovery"].kind = "state" /\ req["recovery"].state[2] = 0
    /\ req' = [req EXCEPT !["recovery"] = Idle]
    /\ gate' = "refused" /\ waiting' = <<>>
    /\ straggler' = (stream = "open" /\ told < last[peer])
    /\ Terminate("network")
    /\ UNCHANGED <<serverVars, starts, peer, told, ready, screenVars, faults>>

RecoveryUnauthorized == req["recovery"].kind = "unauthorized" /\ TerminateAuthorization

(* Mutant: the end of the stream ends the loop.                            *)
NetworkOnly == {"network"}
Retryable == {"network", "eof"}

(* After termination.await.                                                *)
Reconnect ==
    /\ loop = "closing" /\ reason # "unauthorized"
    /\ loop' = IF reason \in Retryable THEN "delay" ELSE "ended"
    /\ reason' = "none"
    /\ req' = [req EXCEPT !["recovery"] = Idle]
    /\ gate' = "none" /\ waiting' = <<>>
    /\ UNCHANGED <<serverVars, starts, readerVars, ready, screenVars, faults>>

StreamUnauthorized == loop = "closing" /\ reason = "unauthorized" /\ TerminateAuthorization

Client ==
    \/ CoverArrives \/ CoverUnauthorized
    \/ RefreshDone \/ RefreshUnauthorized
    \/ SnapshotApplied \/ SnapshotFailed \/ SnapshotUnauthorized
    \/ StreamRefused
    \/ ApplyEvent
    \/ RecoveryApplied \/ RecoveryFailed \/ RecoveryUnauthorized
    \/ Reconnect \/ StreamUnauthorized

ConnectionNext ==
    \/ PublishState \/ Restart \/ Unpair
    \/ \E k \in Requests : Answer(k) \/ RequestFails(k)
    \/ Start \/ Close \/ Refresh
    \/ StreamOpens \/ StreamBreaks \/ StreamRevoked \/ Event \/ LateEvent \/ Retry
    \/ Client

ConnectionSpec == ConnectionInit /\ [][ConnectionNext]_connectionVars

(* Requests are answered, the delay ends, the reader reads, the main       *)
(* thread runs what is posted to it.  Nobody has to publish, restart,      *)
(* unpair, fail, or use the page.                                          *)
ConnectionFairSpec ==
    /\ ConnectionSpec /\ WF_connectionVars(Client) /\ WF_connectionVars(Retry)
    /\ \A k \in Requests : WF_connectionVars(Answer(k))
    /\ WF_connectionVars(StreamOpens) /\ WF_connectionVars(StreamRevoked) /\ WF_connectionVars(Event)
    /\ WF_connectionVars(ApplyEvent) /\ WF_connectionVars(Reconnect) /\ WF_connectionVars(StreamUnauthorized)
    /\ WF_connectionVars(stream = "open" /\ peer # epoch /\ StreamBreaks)

-----------------------------------------------------------------------------
(* A connected page with nothing left to read shows the Server's newest    *)
(* state: snapshot, recovery and events, which overlap and wait for each   *)
(* other, lose none (docs/tests/coverage-map.md: no change is lost between *)
(* snapshot and SSE; reconnection gets the newest state).                  *)
CaughtUp ==
    /\ loop = "streaming" /\ stream = "open" /\ peer = epoch /\ gate = "passed"
    /\ ready = <<>> /\ told = last[epoch]

ShowsNewestAcrossRestarts == CaughtUp => shown = NewestState

(* The same as long as the Server runs.                                    *)
ShowsNewest == CaughtUp /\ epoch = 1 => shown = NewestState

(* A state on the screen is never replaced by an older one of the same     *)
(* process, whichever of the overlapping requests, events and visits of    *)
(* the page brings it (lastAppliedRevision).                               *)
ShownGrows == [][shown'[1] = shown[1] => shown'[2] >= shown[2]]_connectionVars

(* The picture on the screen belongs to the state on the screen ...        *)
CoverIsOfTrackAlways ==
    Active /\ lastApplied > 0 /\ artwork # NoCover => artwork = CoverOf[shown[2]]

(* ... as long as the page is not left, however late a cover comes.        *)
CoverIsOfTrack == starts = 1 => CoverIsOfTrackAlways

(* While the page lives, the loop keeps trying: only a revoked device or   *)
(* the page itself ends it.                                                *)
KeepsTrying == loop # "ended"

(* When nothing more is published, a page that stays open comes to show    *)
(* the newest state, after any faults but a restart of the Server.         *)
Converges == <>[](~Active \/ epoch > 1 \/ shown = NewestState \/ last[epoch] = 0)

(* An open page of a revoked device learns of it.                          *)
RevocationReachesPage == (Active /\ ~paired) ~> (~Active \/ epoch > 1)
=============================================================================
