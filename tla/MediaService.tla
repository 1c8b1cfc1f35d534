---------------------------- MODULE MediaService ----------------------------
(***************************************************************************)
(* MediaService of media/service.py: the thread EzMediaLoop with its event *)
(* loop, the start of the platform adapter with retries, the dirty domains *)
(* and the worker that refreshes them, artwork, the calls that wait for a  *)
(* refresh, and stop; with the callers in plugins/media.py (five seconds)  *)
(* and POST /api/media/refresh of agent/api.py (no timeout).               *)
(*                                                                         *)
(* The platform is a pair of counters: what plays and the audio settings.  *)
(* A read returns one of the values the platform had while it was made; a  *)
(* published state is the value that was read.  A value never comes back,  *)
(* so a value of media stands for its identity and for _media_generation.  *)
(* Revisions and listeners are in MediaHub.  The domains devices and audio *)
(* are read and completed together and are one here.                       *)
(***************************************************************************)
EXTENDS Integers, FiniteSets

CONSTANTS
    Calls,           \* calls of request_refresh and submit
    KindOf,          \* refresh, play (media) or volume (audio) of each call
    MaxMedia,        \* bound: values of media
    MaxAudio,        \* bound: values of the audio settings
    MaxReadFaults,   \* bound: reads that raise
    MaxInitFaults,   \* bound: initialisations that raise or take too long
    MaxStops         \* bound: stop() is called at most once, or never

Domains == {"audio", "media", "artwork"}
Kinds == {"refresh", "play", "volume"}
NoCover == -1

ASSUME ConstantsAssumption ==
    /\ KindOf \in [Calls -> Kinds]
    /\ MaxMedia \in Nat /\ MaxAudio \in Nat
    /\ MaxReadFaults \in Nat /\ MaxInitFaults \in Nat
    /\ MaxStops \in {0, 1}

VARIABLES
    world,       \* the platform: [media, audio]
    run,         \* the task _run
    attempt,     \* the task _bootstrap
    stopSignal,  \* _stop_signal
    stopper,     \* the thread that calls stop()
    stopEvent,   \* _stop_requested
    adapters,    \* platform adapters that are open
    posted,      \* _mark_dirty calls waiting on the loop
    dirty,       \* _dirty
    worker,      \* the task _dirty_worker
    taken,       \* the domains it refreshes
    floor,       \* value of media when its read began
    completed,   \* what it has refreshed so far
    state,       \* the published snapshot: [media, audio, cover]
    artwork,     \* the task _read_artwork: the value it was begun for, or NoCover
    artFloor,    \* value of media when it began
    artRead,     \* _artwork_generation_read
    call,        \* of each call: where it is
    needs,       \* the domains its waiter still requires
    wrote,       \* history: the value of the platform its command made
    missed,      \* history: domains whose last read raised
    readFaults, initFaults

adapterVars == <<run, attempt, stopSignal, stopper, stopEvent, adapters, initFaults>>
workerVars == <<worker, taken, floor, completed, missed, readFaults>>
artVars == <<artwork, artFloor, artRead>>
callVars == <<call, needs, wrote>>
vars == <<world, adapterVars, posted, dirty, workerVars, state, artVars, callVars>>

Phases == {"idle", "posted", "executing", "waiting", "returning",
           "answered", "failed"}

TypeOK ==
    /\ world \in [media : 0..MaxMedia, audio : 0..MaxAudio]
    /\ run \in {"off", "starting", "attempt", "retry", "serving", "done"}
    /\ attempt \in {"none", "running", "installed", "dropped", "failed"}
    /\ stopSignal \in BOOLEAN /\ stopper \in {"none", "signalled", "joins"}
    /\ stopEvent \in {"absent", "clear", "set"}
    /\ adapters \in Nat
    /\ posted \subseteq {"audio", "all", "stop"} /\ dirty \subseteq Domains
    /\ worker \in {"off", "idle", "reading"}
    /\ taken \subseteq Domains /\ completed \subseteq Domains
    /\ floor \in 0..MaxMedia /\ artFloor \in 0..MaxMedia
    /\ state \in [media : 0..MaxMedia, audio : 0..MaxAudio, cover : NoCover..MaxMedia]
    /\ artwork \in NoCover..MaxMedia /\ artRead \in NoCover..MaxMedia
    /\ call \in [Calls -> Phases] /\ needs \in [Calls -> SUBSET Domains]
    /\ wrote \in [Calls -> 0..(MaxMedia + MaxAudio)]
    /\ missed \subseteq Domains
    /\ readFaults \in 0..MaxReadFaults /\ initFaults \in 0..MaxInitFaults

Init ==
    /\ world = [media |-> 0, audio |-> 0]
    /\ run = "off" /\ attempt = "none"
    /\ stopSignal = FALSE /\ stopper = "none" /\ stopEvent = "absent" /\ adapters = 0
    /\ posted = {} /\ dirty = {}
    /\ worker = "off" /\ taken = {} /\ completed = {} /\ floor = 0
    /\ state = [media |-> 0, audio |-> 0, cover |-> NoCover]
    /\ artwork = NoCover /\ artFloor = 0 /\ artRead = NoCover
    /\ call = [c \in Calls |-> "idle"]
    /\ needs = [c \in Calls |-> {}] /\ wrote = [c \in Calls |-> 0]
    /\ missed = {} /\ readFaults = 0 /\ initFaults = 0

LoopRuns == run \in {"attempt", "retry", "serving"}
MediaReady == run = "serving"

(***************************************************************************)
(* The platform and its callbacks, which any thread makes: _notify,        *)
(* _schedule_refresh, _mark_dirty.                                         *)
(***************************************************************************)
(* Mutant: a change is not announced while the worker reads.               *)
NotifiedIdle(what) == IF adapters > 0 /\ LoopRuns /\ worker # "reading" THEN posted \cup {what} ELSE posted
Notified(what) == IF adapters > 0 /\ LoopRuns THEN posted \cup {what} ELSE posted

MediaChanges ==
    /\ world.media < MaxMedia
    /\ world' = [world EXCEPT !.media = @ + 1]
    /\ posted' = Notified("all")
    /\ UNCHANGED <<adapterVars, dirty, workerVars, state, artVars, callVars>>

AudioChanges ==
    /\ world.audio < MaxAudio
    /\ world' = [world EXCEPT !.audio = @ + 1]
    /\ posted' = Notified("audio")
    /\ UNCHANGED <<adapterVars, dirty, workerVars, state, artVars, callVars>>

DomainsOf(what) == IF what = "all" THEN Domains ELSE {"audio"}

MarkDirty(what) ==
    /\ LoopRuns /\ what \in posted
    /\ posted' = posted \ {what}
    /\ dirty' = dirty \cup DomainsOf(what)
    /\ UNCHANGED <<world, adapterVars, workerVars, state, artVars, callVars>>

(***************************************************************************)
(* The life of the thread: start, _run, _bootstrap, stop.                  *)
(***************************************************************************)
Start ==
    /\ run = "off"
    /\ run' = "starting" /\ stopSignal' = FALSE
    /\ UNCHANGED <<world, attempt, stopper, stopEvent, adapters, initFaults,
                   posted, dirty, workerVars, state, artVars, callVars>>

(* _bootstrap makes an adapter and awaits its initialize.                  *)
Attempt ==
    /\ run' = "attempt" /\ attempt' = "running"
    /\ adapters' = adapters + 1

(* Mutant: the signal is not looked at again after the event was made.     *)
EventClear == "clear"
EventAtStart == IF stopSignal THEN "set" ELSE "clear"

RunBegins ==
    /\ run = "starting"
    /\ stopEvent' = EventAtStart
    /\ Attempt
    /\ UNCHANGED <<world, stopSignal, stopper, initFaults, posted, dirty, workerVars, state, artVars, callVars>>

(* Mutant: an adapter that did not get ready is not closed.                *)
LeftOpen == adapters
Closed == adapters - 1

InitializeDone ==
    /\ attempt = "running"
    /\ IF stopEvent = "set" THEN attempt' = "dropped" /\ adapters' = Closed
                            ELSE attempt' = "installed" /\ UNCHANGED adapters
    /\ UNCHANGED <<world, run, stopSignal, stopper, stopEvent, initFaults,
                   posted, dirty, workerVars, state, artVars, callVars>>

InitializeRaises ==
    /\ attempt = "running" /\ initFaults < MaxInitFaults
    /\ initFaults' = initFaults + 1
    /\ attempt' = "failed" /\ adapters' = Closed
    /\ UNCHANGED <<world, run, stopSignal, stopper, stopEvent,
                   posted, dirty, workerVars, state, artVars, callVars>>

(* STARTUP_DEADLINE: the attempt is cancelled, which closes its adapter.   *)
InitializeTimesOut ==
    /\ run = "attempt" /\ attempt = "running" /\ stopEvent = "clear"
    /\ initFaults < MaxInitFaults
    /\ initFaults' = initFaults + 1
    /\ run' = "retry" /\ attempt' = "none" /\ adapters' = Closed
    /\ UNCHANGED <<world, stopSignal, stopper, stopEvent,
                   posted, dirty, workerVars, state, artVars, callVars>>

RetryThen == "retry"

AttemptFailed ==
    /\ run = "attempt" /\ attempt = "failed" /\ stopEvent = "clear"
    /\ run' = RetryThen /\ attempt' = "none"
    /\ UNCHANGED <<world, stopSignal, stopper, stopEvent, adapters, initFaults,
                   posted, dirty, workerVars, state, artVars, callVars>>

Retry ==
    /\ run = "retry" /\ stopEvent = "clear"
    /\ Attempt
    /\ UNCHANGED <<world, stopSignal, stopper, stopEvent, initFaults, posted, dirty, workerVars, state, artVars, callVars>>

Serve ==
    /\ run = "attempt" /\ attempt = "installed" /\ stopEvent = "clear"
    /\ run' = "serving" /\ attempt' = "none"
    /\ dirty' = Domains
    /\ worker' = "idle"
    /\ UNCHANGED <<world, stopSignal, stopper, stopEvent, adapters, initFaults, posted,
                   taken, floor, completed, missed, readFaults, state, artVars, callVars>>

(* stop() sets the signal; if it then finds an event, it posts event.set.   *)
Stop ==
    /\ stopper = "none" /\ run # "off" /\ MaxStops = 1
    /\ stopSignal' = TRUE /\ stopper' = "signalled"
    /\ UNCHANGED <<world, run, attempt, stopEvent, adapters, initFaults,
                   posted, dirty, workerVars, state, artVars, callVars>>

StopPosts ==
    /\ stopper = "signalled"
    /\ stopper' = "joins"
    /\ posted' = IF LoopRuns THEN posted \cup {"stop"} ELSE posted
    /\ UNCHANGED <<world, run, attempt, stopSignal, stopEvent, adapters, initFaults,
                   dirty, workerVars, state, artVars, callVars>>

EventSet ==
    /\ LoopRuns /\ "stop" \in posted
    /\ stopEvent' = "set" /\ posted' = posted \ {"stop"}
    /\ UNCHANGED <<world, run, attempt, stopSignal, stopper, adapters, initFaults,
                   dirty, workerVars, state, artVars, callVars>>

(* The tasks are cancelled and awaited, so calls that had their result     *)
(* return.  The waiters get an exception, but the loop ends in the same    *)
(* turn, before it has handed that on: their callers never hear of it.     *)
StopSeen ==
    /\ LoopRuns /\ stopEvent = "set"
    /\ run' = "done" /\ attempt' = "none"
    /\ adapters' = IF run = "serving" \/ attempt \in {"running", "installed"}
                     THEN Closed ELSE adapters
    /\ worker' = "off" /\ taken' = {} /\ completed' = {} /\ floor' = 0
    /\ artwork' = NoCover /\ artFloor' = 0
    /\ dirty' = {} /\ posted' = {}
    /\ needs' = [c \in Calls |-> {}]
    /\ call' = [c \in Calls |-> IF call[c] = "returning" THEN "answered" ELSE call[c]]
    /\ UNCHANGED <<world, stopSignal, stopper, stopEvent, initFaults, missed, readFaults,
                   state, artRead, wrote>>

(***************************************************************************)
(* _dirty_worker and _refresh.                                             *)
(***************************************************************************)
(* _start_artwork_read: once for each value of media.                      *)
StartArtwork(domains, m, art, read) ==
    IF "artwork" \in domains /\ m # 0 /\ read # m
      THEN artwork' = m /\ artFloor' = world.media /\ artRead' = m
      ELSE artwork' = art /\ artRead' = read /\ artFloor' = IF art = NoCover THEN 0 ELSE artFloor

(* The waiters that need nothing more are given the snapshot.              *)
Finish(ready) ==
    /\ worker' = "idle" /\ taken' = {} /\ completed' = {} /\ floor' = 0
    /\ needs' = [c \in Calls |-> needs[c] \ ready]
    /\ call' = [c \in Calls |-> IF call[c] = "waiting" /\ needs[c] \subseteq ready
                                  THEN "returning" ELSE call[c]]

AudioRead(ok) ==
    IF ok THEN /\ state' = [state EXCEPT !.audio = world.audio]
               /\ missed' = missed \ {"audio"}
               /\ UNCHANGED readFaults
          ELSE /\ readFaults < MaxReadFaults /\ readFaults' = readFaults + 1
               /\ missed' = missed \cup {"audio"}
               /\ UNCHANGED state

(* Takes what is dirty, reads the audio settings at once and begins to     *)
(* read media.                                                             *)
Take ==
    /\ worker = "idle" /\ dirty # {}
    /\ taken' = dirty
    /\ dirty' = {}
    /\ \E ok \in BOOLEAN :
        LET done == IF ok THEN dirty \cap {"audio"} ELSE {} IN
        /\ IF "audio" \in dirty THEN AudioRead(ok)
           ELSE ok /\ UNCHANGED <<state, missed, readFaults>>
        /\ IF "media" \in dirty
             THEN /\ worker' = "reading" /\ floor' = world.media
                  /\ completed' = done
                  /\ UNCHANGED <<artVars, call, needs>>
             ELSE /\ Finish(done \cup (dirty \cap {"artwork"}))
                  /\ StartArtwork(dirty, state.media, artwork, artRead)
    /\ UNCHANGED <<world, adapterVars, posted, wrote>>

(* Mutant: the cover stays until a new one was read.                       *)
CoverKept(m) == state.cover
CoverAfter(m) == IF m = state.media THEN state.cover ELSE NoCover

MediaRead ==
    /\ worker = "reading"
    /\ \E m \in floor..world.media :
        /\ state' = [state EXCEPT !.media = m, !.cover = CoverAfter(m)]
        /\ IF m = state.media THEN StartArtwork(taken, m, artwork, artRead)
                              ELSE StartArtwork(taken, m, NoCover, NoCover)
    /\ Finish(completed \cup (taken \cap {"media", "artwork"}))
    /\ missed' = missed \ {"media"}
    /\ UNCHANGED <<world, adapterVars, posted, dirty, readFaults, wrote>>

MediaReadRaises ==
    /\ worker = "reading" /\ readFaults < MaxReadFaults
    /\ readFaults' = readFaults + 1
    /\ missed' = missed \cup {"media"}
    /\ StartArtwork(taken, state.media, artwork, artRead)
    /\ Finish(completed \cup (taken \cap {"artwork"}))
    /\ UNCHANGED <<world, adapterVars, posted, dirty, state, wrote>>

(* The thumbnail of what plays while it is read; there may be none.        *)
ArtworkRead ==
    /\ artwork # NoCover
    /\ \E c \in {NoCover} \cup (artFloor..world.media) :
        state' = IF c # NoCover /\ artwork = state.media THEN [state EXCEPT !.cover = c] ELSE state
    /\ artwork' = NoCover /\ artFloor' = 0
    /\ UNCHANGED <<world, adapterVars, posted, dirty, workerVars, artRead, callVars>>

(***************************************************************************)
(* request_refresh and submit, and their callers.                          *)
(***************************************************************************)
Submit(c) ==
    /\ call[c] = "idle" /\ run # "off"
    /\ call' = [call EXCEPT ![c] = IF MediaReady THEN "posted" ELSE "failed"]
    /\ UNCHANGED <<world, adapterVars, posted, dirty, workerVars, state, artVars, needs, wrote>>

Required(kind) ==
    CASE kind = "refresh" -> {"audio", "media"}
      [] kind = "play" -> {"media"}
      [] kind = "volume" -> {"audio"}

(* Mutant: the caller waits for whatever is dirty already.                 *)
NotDirtied(kind) == {}
Dirtied(kind) == Required(kind) \cup (IF kind = "refresh" THEN {"artwork"} ELSE {})

(* _request_refresh: a waiter, and its domains are dirty.                  *)
Wait(c) ==
    /\ call' = [call EXCEPT ![c] = "waiting"]
    /\ needs' = [needs EXCEPT ![c] = Required(KindOf[c])]
    /\ dirty' = dirty \cup Dirtied(KindOf[c])

RefreshBegins(c) ==
    /\ MediaReady /\ call[c] = "posted" /\ KindOf[c] = "refresh"
    /\ Wait(c)
    /\ UNCHANGED <<world, adapterVars, posted, workerVars, state, artVars, wrote>>

CommandBegins(c) ==
    /\ MediaReady /\ call[c] = "posted" /\ KindOf[c] # "refresh"
    /\ call' = [call EXCEPT ![c] = "executing"]
    /\ UNCHANGED <<world, adapterVars, posted, dirty, workerVars, state, artVars, needs, wrote>>

(* adapter.execute succeeds: the platform changes, and says so.            *)
Executed(c) ==
    /\ call[c] = "executing" /\ MediaReady
    /\ \/ /\ KindOf[c] = "play" /\ world.media < MaxMedia
          /\ world' = [world EXCEPT !.media = @ + 1]
          /\ wrote' = [wrote EXCEPT ![c] = world.media + 1]
          /\ posted' = Notified("all")
       \/ /\ KindOf[c] = "volume" /\ world.audio < MaxAudio
          /\ world' = [world EXCEPT !.audio = @ + 1]
          /\ wrote' = [wrote EXCEPT ![c] = world.audio + 1]
          /\ posted' = Notified("audio")
    /\ Wait(c)
    /\ UNCHANGED <<adapterVars, workerVars, state, artVars>>

(* It is rejected or raises.                                               *)
ExecuteFails(c) ==
    /\ call[c] = "executing" /\ MediaReady
    /\ call' = [call EXCEPT ![c] = "returning"]
    /\ UNCHANGED <<world, adapterVars, posted, dirty, workerVars, state, artVars, needs, wrote>>

(* The result reaches the future the caller waits for.                     *)
Return(c) ==
    /\ LoopRuns /\ call[c] = "returning"
    /\ call' = [call EXCEPT ![c] = "answered"]
    /\ UNCHANGED <<world, adapterVars, posted, dirty, workerVars, state, artVars, needs, wrote>>

InProgress(c) == call[c] \in {"posted", "executing", "waiting", "returning"}

HasTimeout(c) == KindOf[c] # "refresh"

(* future.result(timeout=5.0); the cancelled waiter is skipped.            *)
TimesOut(c) ==
    /\ HasTimeout(c) /\ InProgress(c)
    /\ call' = [call EXCEPT ![c] = "failed"]
    /\ needs' = [needs EXCEPT ![c] = {}] /\ wrote' = [wrote EXCEPT ![c] = 0]
    /\ UNCHANGED <<world, adapterVars, posted, dirty, workerVars, state, artVars>>

Life ==
    \/ RunBegins \/ InitializeDone \/ InitializeRaises \/ InitializeTimesOut
    \/ AttemptFailed \/ Retry \/ Serve \/ StopPosts \/ EventSet \/ StopSeen

Next ==
    \/ MediaChanges \/ AudioChanges
    \/ \E what \in {"audio", "all"} : MarkDirty(what)
    \/ Start \/ Stop \/ Life
    \/ Take \/ MediaRead \/ MediaReadRaises \/ ArtworkRead
    \/ \E c \in Calls :
        \/ Submit(c) \/ RefreshBegins(c) \/ CommandBegins(c)
        \/ Executed(c) \/ ExecuteFails(c) \/ Return(c) \/ TimesOut(c)

Spec == Init /\ [][Next]_vars

(* The thread goes on with its life; an initialisation ends or is          *)
(* cancelled.  The platform may keep a read, an execution or the artwork   *)
(* for ever, and nobody has to start, stop or call.                        *)
FairSpec ==
    Spec /\ WF_vars(Life) /\ WF_vars(StopPosts) /\ WF_vars(EventSet) /\ WF_vars(StopSeen)

(* Moreover the loop runs what is ready, and a command times out.          *)
AnsweringSpec ==
    /\ FairSpec /\ WF_vars(Take)
    /\ \A c \in Calls : WF_vars(TimesOut(c)) /\ WF_vars(RefreshBegins(c)) /\ WF_vars(Return(c))

-----------------------------------------------------------------------------
(* At most one platform adapter is open, whatever an initialisation does,  *)
(* and none when the thread has ended (_bootstrap, _close_adapter).        *)
OneAdapter == adapters <= 1 /\ (run = "done" => adapters = 0)

(* A cover is never older than the media it is shown with: no late artwork *)
(* covers a newer track (docs/product/overview.md:37).                     *)
NoOldCover == state.cover # NoCover => state.cover >= state.media

(* When nothing is dirty, being read or announced, the snapshot is what    *)
(* the platform is, except for a domain whose last read raised; its cover  *)
(* is of the media shown: no change is lost between taking the dirty set,  *)
(* reading and being told (_dirty_worker).                                 *)
Settled ==
    MediaReady /\ worker = "idle" /\ dirty = {} /\ posted = {} /\ artwork = NoCover

NoLostChange ==
    Settled =>
        /\ "media" \notin missed =>
              state.media = world.media /\ state.cover \in {NoCover, world.media}
        /\ "audio" \notin missed => state.audio = world.audio

(* Whoever waits is waited for: while no read raised, every domain that a  *)
(* waiter still requires is dirty or being refreshed (_request_refresh,    *)
(* _dirty_worker, _complete_refreshes), whatever was announced meanwhile.  *)
NoLostWaiter ==
    \A c \in Calls :
        MediaReady /\ call[c] = "waiting" /\ readFaults = 0 => needs[c] \subseteq dirty \cup taken

(* A command that was answered with success has its effect in the snapshot *)
(* (tests/test_media_service.py:273: a command waits for a refresh that    *)
(* comes after it).                                                        *)
AnswerIsFresh ==
    \A c \in Calls :
        call[c] = "answered" /\ wrote[c] > 0 =>
            /\ KindOf[c] = "play" => state.media >= wrote[c]
            /\ KindOf[c] = "volume" => state.audio >= wrote[c]

(* Every command is answered, refused or times out.                        *)
CommandEnds ==
    \A c \in Calls : KindOf[c] # "refresh" => (InProgress(c) ~> ~InProgress(c))

(* Every refresh is answered or refused, if the platform answers ...       *)
PlatformAnswers == []<>(worker # "reading")

RefreshEndsAlways ==
    PlatformAnswers =>
        \A c \in Calls : KindOf[c] = "refresh" => (InProgress(c) ~> ~InProgress(c))

(* ... as long as no read raises and nobody stops the service.             *)
RefreshEnds ==
    PlatformAnswers =>
        \A c \in Calls : KindOf[c] = "refresh" =>
            (InProgress(c) ~> ~InProgress(c) \/ readFaults > 0 \/ stopSignal)

(* stop ends the thread, also when it comes before _run has made its       *)
(* event, during an initialisation, a pause or a read that never returns.  *)
StopEnds == (stopSignal /\ run # "off") ~> run = "done"

(* A platform that can be initialised is, after any failures.              *)
GetsReady == run = "starting" ~> (run = "serving" \/ stopSignal)
=============================================================================
