-------------------------- MODULE MediaServiceProofs --------------------------
(***************************************************************************)
(* Proofs about MediaService, for any calls and any number of changes,     *)
(* faults and stops: at most one platform adapter is open, no cover is     *)
(* older than its media, no change of the platform and no waiter is lost.  *)
(***************************************************************************)
EXTENDS MediaService, TLAPS

\* The adapters that are open are known from where the thread is: the one it
\* serves from, or the one its attempt has made and not given back.
AdapterOK ==
    /\ attempt # "none" => run = "attempt"
    /\ adapters = IF MediaReady \/ attempt \in {"running", "installed"} THEN 1 ELSE 0

\* What was read is not from the future, and artwork was begun when its media
\* was known.
CoverOK ==
    /\ state.media <= world.media /\ state.audio <= world.audio
    /\ floor <= world.media /\ artFloor <= world.media
    /\ state.cover # NoCover => state.media <= state.cover /\ state.cover <= world.media
    /\ artwork # NoCover => artwork <= artFloor

\* The worker lives while the service serves; what it took it refreshes, media
\* last.
WorkerOK ==
    /\ worker # "off" <=> MediaReady
    /\ worker # "reading" => taken = {}
    /\ worker = "reading" =>
          "media" \in taken /\ (readFaults = 0 => completed = taken \cap {"audio"})

\* A domain whose snapshot is behind the platform will be read again: a change
\* is announced, dirty or its last read raised.  The read of media that is under
\* way is behind as well, once the platform has changed since it began.
MediaFollows(value) == value = world.media \/ "media" \in dirty \/ "all" \in posted
ChangeOK ==
    MediaReady =>
        /\ worker = "reading" => MediaFollows(floor)
        /\ worker = "reading" \/ "media" \in missed \/ MediaFollows(state.media)
        /\ \/ state.audio = world.audio \/ "audio" \in missed
           \/ "audio" \in dirty \/ posted \cap {"audio", "all"} # {}

Inv == TypeOK /\ AdapterOK /\ CoverOK /\ WorkerOK /\ ChangeOK /\ NoLostWaiter

-----------------------------------------------------------------------------
(* Types *)

LEMMA InitInv == Init => Inv
<1> SUFFICES ASSUME Init PROVE Inv
    OBVIOUS
<1> USE ConstantsAssumption DEF NoCover
<1>1. /\ world \in [media : 0..MaxMedia, audio : 0..MaxAudio]
      /\ state \in [media : 0..MaxMedia, audio : 0..MaxAudio, cover : NoCover..MaxMedia]
      /\ artwork \in NoCover..MaxMedia /\ artRead \in NoCover..MaxMedia
      /\ floor \in 0..MaxMedia /\ artFloor \in 0..MaxMedia
      /\ readFaults \in 0..MaxReadFaults /\ initFaults \in 0..MaxInitFaults
    BY DEF Init
<1>2. /\ call \in [Calls -> Phases] /\ needs \in [Calls -> SUBSET Domains]
      /\ wrote \in [Calls -> 0..(MaxMedia + MaxAudio)]
    BY DEF Init, Phases
<1>4. TypeOK
    BY <1>1, <1>2 DEF Init, TypeOK
<1>3. AdapterOK /\ CoverOK /\ WorkerOK /\ ChangeOK /\ NoLostWaiter
    BY DEF Init, AdapterOK, CoverOK, WorkerOK, ChangeOK, NoLostWaiter, MediaReady
<1> QED BY <1>3, <1>4 DEF Inv

\* The world moves, and who is told.
LEMMA WorldTypes ==
    ASSUME Inv, MediaChanges \/ AudioChanges \/ \E what \in {"audio", "all"} : MarkDirty(what)
    PROVE  TypeOK'
<1> USE ConstantsAssumption DEF Inv, TypeOK
<1>1. CASE MediaChanges \/ AudioChanges
    BY <1>1 DEF MediaChanges, AudioChanges, Notified, adapterVars, workerVars, artVars, callVars
<1>2. CASE \E what \in {"audio", "all"} : MarkDirty(what)
    BY <1>2 DEF MarkDirty, DomainsOf, Domains, adapterVars, workerVars, artVars, callVars
<1> QED BY <1>1, <1>2

\* The thread, its attempts and stop().
LEMMA LifeTypes ==
    ASSUME Inv, Start \/ Stop \/ Life
    PROVE  TypeOK'
<1> USE ConstantsAssumption DEF Inv, TypeOK, adapterVars, workerVars, artVars, callVars
<1>1. /\ attempt \in {"running", "installed"} \/ run = "serving" => adapters - 1 \in Nat
      /\ adapters + 1 \in Nat
      /\ initFaults < MaxInitFaults => initFaults + 1 \in 0..MaxInitFaults
    BY DEF AdapterOK, MediaReady
<1>2. CASE Start \/ Stop
    BY <1>2 DEF Start, Stop
<1>3. CASE RunBegins \/ Retry
    BY <1>1, <1>3 DEF RunBegins, Retry, Attempt, EventAtStart
<1>6. CASE InitializeDone
    BY <1>1, <1>6 DEF InitializeDone, Closed
<1>7. CASE AttemptFailed
    BY <1>7 DEF AttemptFailed, RetryThen
<1>8. CASE InitializeRaises
    BY <1>1, <1>8 DEF InitializeRaises, Closed
<1>9. CASE InitializeTimesOut
    BY <1>1, <1>9 DEF InitializeTimesOut, Closed
<1>4. CASE Serve
    BY <1>4 DEF Serve, Domains
<1>10. CASE StopPosts
    BY <1>10 DEF StopPosts
<1>11. CASE EventSet
    BY <1>11 DEF EventSet
<1>5. CASE StopSeen
    BY <1>1, <1>5 DEF StopSeen, Closed, NoCover, Phases
<1> QED BY <1>2, <1>3, <1>4, <1>5, <1>6, <1>7, <1>8, <1>9, <1>10, <1>11 DEF Life

\* The worker and the artwork.
LEMMA WorkerTypes ==
    ASSUME Inv, Take \/ MediaRead \/ MediaReadRaises \/ ArtworkRead
    PROVE  TypeOK'
<1> USE ConstantsAssumption DEF Inv, TypeOK, adapterVars, workerVars, artVars, callVars, NoCover
<1>1. ASSUME NEW ready, Finish(ready)
      PROVE  /\ worker' \in {"off", "idle", "reading"} /\ taken' \subseteq Domains
             /\ completed' \subseteq Domains /\ floor' \in 0..MaxMedia
             /\ call' \in [Calls -> Phases] /\ needs' \in [Calls -> SUBSET Domains]
    BY <1>1 DEF Finish, Phases
<1>2. ASSUME NEW domains, NEW m \in 0..MaxMedia, NEW art \in NoCover..MaxMedia,
             NEW read \in NoCover..MaxMedia, StartArtwork(domains, m, art, read)
      PROVE  /\ artwork' \in NoCover..MaxMedia /\ artFloor' \in 0..MaxMedia
             /\ artRead' \in NoCover..MaxMedia
    BY <1>2 DEF StartArtwork
<1>3. CASE Take
    <2>1. ASSUME NEW ok \in BOOLEAN, AudioRead(ok)
          PROVE  /\ state' \in [media : 0..MaxMedia, audio : 0..MaxAudio, cover : NoCover..MaxMedia]
                 /\ missed' \subseteq Domains /\ readFaults' \in 0..MaxReadFaults
        BY <2>1 DEF AudioRead, Domains
    <2>2. state.media \in 0..MaxMedia
        OBVIOUS
    <2> QED BY <1>1, <1>2, <1>3, <2>1, <2>2 DEF Take
<1>4. CASE MediaRead
    <2>1. PICK m \in floor..world.media :
              /\ state' = [state EXCEPT !.media = m, !.cover = CoverAfter(m)]
              /\ IF m = state.media THEN StartArtwork(taken, m, artwork, artRead)
                                    ELSE StartArtwork(taken, m, NoCover, NoCover)
        BY <1>4 DEF MediaRead
    <2>2. m \in 0..MaxMedia /\ NoCover \in NoCover..MaxMedia
        OBVIOUS
    <2> QED BY <1>1, <1>2, <1>4, <2>1, <2>2 DEF MediaRead, CoverAfter
<1>5. CASE MediaReadRaises
    BY <1>1, <1>2, <1>5 DEF MediaReadRaises, Domains
<1>6. CASE ArtworkRead
    BY <1>6 DEF ArtworkRead
<1> QED BY <1>3, <1>4, <1>5, <1>6

\* The calls.
LEMMA CallTypes ==
    ASSUME Inv, NEW c \in Calls,
           \/ Submit(c) \/ RefreshBegins(c) \/ CommandBegins(c) \/ Executed(c)
           \/ ExecuteFails(c) \/ Return(c) \/ TimesOut(c)
    PROVE  TypeOK'
<1> USE ConstantsAssumption DEF Inv, TypeOK, adapterVars, workerVars, artVars, callVars
<1>1. ASSUME Wait(c)
      PROVE  /\ call' \in [Calls -> Phases] /\ needs' \in [Calls -> SUBSET Domains]
             /\ dirty' \subseteq Domains
    <2>1. Required(KindOf[c]) \subseteq Domains /\ Dirtied(KindOf[c]) \subseteq Domains
        BY DEF Required, Dirtied, Domains, Kinds
    <2> QED BY <1>1, <2>1 DEF Wait, Phases
<1>2. CASE Submit(c) \/ CommandBegins(c) \/ ExecuteFails(c) \/ Return(c) \/ TimesOut(c)
    <2>1. ASSUME NEW phase \in Phases
          PROVE  [call EXCEPT ![c] = phase] \in [Calls -> Phases]
        OBVIOUS
    <2>5. /\ [needs EXCEPT ![c] = {}] \in [Calls -> SUBSET Domains]
          /\ [wrote EXCEPT ![c] = 0] \in [Calls -> 0..(MaxMedia + MaxAudio)]
        OBVIOUS
    <2>6. {"posted", "failed", "executing", "returning", "answered"} \subseteq Phases
        BY DEF Phases
    <2>2. CASE Submit(c)
        BY <2>1, <2>2, <2>6 DEF Submit
    <2>3. CASE CommandBegins(c)
        BY <2>1, <2>3, <2>6 DEF CommandBegins
    <2>4. CASE ExecuteFails(c)
        BY <2>1, <2>4, <2>6 DEF ExecuteFails
    <2>7. CASE Return(c)
        BY <2>1, <2>7, <2>6 DEF Return
    <2>8. CASE TimesOut(c)
        BY <2>1, <2>8, <2>5, <2>6 DEF TimesOut
    <2> QED BY <1>2, <2>2, <2>3, <2>4, <2>7, <2>8
<1>3. CASE RefreshBegins(c)
    BY <1>1, <1>3 DEF RefreshBegins
<1>4. CASE Executed(c)
    BY <1>1, <1>4 DEF Executed, Notified
<1> QED BY <1>2, <1>3, <1>4

LEMMA TypeStep == Inv /\ [Next]_vars => TypeOK'
<1>1. Inv /\ UNCHANGED vars => TypeOK'
    BY DEF Inv, TypeOK, vars, adapterVars, workerVars, artVars, callVars
<1> QED BY <1>1, WorldTypes, LifeTypes, WorkerTypes, CallTypes DEF Next

-----------------------------------------------------------------------------
(* The adapters *)

LEMMA AdapterStep == Inv /\ [Next]_vars => AdapterOK'
<1> SUFFICES ASSUME Inv, [Next]_vars PROVE AdapterOK'
    OBVIOUS
<1> USE DEF Inv, TypeOK, AdapterOK, MediaReady, adapterVars
<1>1. CASE UNCHANGED <<run, attempt, adapters>>
    BY <1>1
<1>2. CASE Start \/ RunBegins \/ Retry
    BY <1>2 DEF Start, RunBegins, Retry, Attempt
<1>3. CASE InitializeDone \/ InitializeRaises \/ InitializeTimesOut \/ AttemptFailed
    BY <1>3 DEF InitializeDone, InitializeRaises, InitializeTimesOut, AttemptFailed, RetryThen, Closed
<1>4. CASE Serve \/ StopSeen
    BY <1>4 DEF Serve, StopSeen, Closed
<1>5. CASE Stop \/ StopPosts \/ EventSet
    BY <1>1, <1>5 DEF Stop, StopPosts, EventSet
<1>6. CASE MediaChanges \/ AudioChanges \/ \E what \in {"audio", "all"} : MarkDirty(what)
    BY <1>1, <1>6 DEF MediaChanges, AudioChanges, MarkDirty
<1>7. CASE Take \/ MediaRead \/ MediaReadRaises \/ ArtworkRead
    BY <1>1, <1>7 DEF Take, MediaRead, MediaReadRaises, ArtworkRead
<1>8. ASSUME NEW c \in Calls,
             \/ Submit(c) \/ RefreshBegins(c) \/ CommandBegins(c) \/ Executed(c)
             \/ ExecuteFails(c) \/ Return(c) \/ TimesOut(c)
      PROVE  AdapterOK'
    BY <1>1, <1>8 DEF Submit, RefreshBegins, CommandBegins, Executed, ExecuteFails, Return, TimesOut
<1> QED BY <1>1, <1>2, <1>3, <1>4, <1>5, <1>6, <1>7, <1>8 DEF Next, Life, vars

-----------------------------------------------------------------------------
(* What was read, and what will be *)

LEMMA CoverStep == Inv /\ [Next]_vars => CoverOK'
<1> SUFFICES ASSUME Inv, [Next]_vars PROVE CoverOK'
    OBVIOUS
<1> USE DEF Inv, CoverOK, NoCover
<1>1. /\ world \in [media : 0..MaxMedia, audio : 0..MaxAudio]
      /\ state \in [media : 0..MaxMedia, audio : 0..MaxAudio, cover : NoCover..MaxMedia]
      /\ floor \in 0..MaxMedia /\ artFloor \in 0..MaxMedia /\ artwork \in NoCover..MaxMedia
      /\ MaxMedia \in Nat /\ MaxAudio \in Nat
    BY ConstantsAssumption DEF TypeOK
<1>2. CASE UNCHANGED <<world, state, floor, artwork, artFloor>>
    BY <1>2
<1>3. ASSUME world' \in {[world EXCEPT !.media = @ + 1], [world EXCEPT !.audio = @ + 1]},
             UNCHANGED <<state, floor, artwork, artFloor>>
      PROVE  CoverOK'
    <2>1. world'.media \in Nat /\ world.media <= world'.media /\ world.audio <= world'.audio
        BY <1>1, <1>3
    <2> QED BY <1>1, <1>3, <2>1
<1>4. ASSUME NEW domains, NEW m \in 0..world.media, StartArtwork(domains, m, NoCover, NoCover)
      PROVE  artFloor' <= world.media /\ (artwork' # NoCover => artwork' <= artFloor')
    BY <1>1, <1>4 DEF StartArtwork
<1>5. ASSUME NEW domains, NEW m \in 0..world.media, StartArtwork(domains, m, artwork, artRead)
      PROVE  artFloor' <= world.media /\ (artwork' # NoCover => artwork' <= artFloor')
    BY <1>1, <1>5 DEF StartArtwork
<1>6. ASSUME NEW ready, Finish(ready)
      PROVE  floor' = 0
    BY <1>6 DEF Finish
<1>7. CASE Take
    <2>1. world' = world /\ (floor' = world.media \/ floor' = 0)
        BY <1>6, <1>7 DEF Take
    <2>2. /\ state'.media = state.media /\ state'.cover = state.cover
          /\ state'.audio = state.audio \/ state'.audio = world.audio
        BY <1>1, <1>7 DEF Take, AudioRead
    <2>3. artFloor' <= world.media /\ (artwork' # NoCover => artwork' <= artFloor')
        BY <1>1, <1>5, <1>7 DEF Take, artVars
    <2> QED BY <1>1, <2>1, <2>2, <2>3
<1>8. CASE MediaRead
    <2>1. PICK m \in floor..world.media :
              /\ state' = [state EXCEPT !.media = m, !.cover = CoverAfter(m)]
              /\ IF m = state.media THEN StartArtwork(taken, m, artwork, artRead)
                                    ELSE StartArtwork(taken, m, NoCover, NoCover)
        BY <1>8 DEF MediaRead
    <2>2. m \in 0..world.media /\ world' = world /\ floor' = 0
        BY <1>1, <1>6, <1>8, <2>1 DEF MediaRead
    <2>3. /\ state'.media = m /\ state'.audio = state.audio
          /\ state'.cover = NoCover \/ (m = state.media /\ state'.cover = state.cover)
        BY <1>1, <2>1 DEF CoverAfter
    <2>4. artFloor' <= world.media /\ (artwork' # NoCover => artwork' <= artFloor')
        BY <1>4, <1>5, <2>1, <2>2
    <2> QED BY <1>1, <2>2, <2>3, <2>4
<1>9. CASE MediaReadRaises
    <2>1. UNCHANGED <<world, state>> /\ floor' = 0
        BY <1>6, <1>9 DEF MediaReadRaises
    <2>2. artFloor' <= world.media /\ (artwork' # NoCover => artwork' <= artFloor')
        BY <1>1, <1>5, <1>9 DEF MediaReadRaises
    <2> QED BY <1>1, <2>1, <2>2
<1>10. CASE ArtworkRead
    <2>1. /\ UNCHANGED <<world, floor>> /\ artwork' = NoCover /\ artFloor' = 0
          /\ \/ state' = state
             \/ \E c \in artFloor..world.media :
                   artwork = state.media /\ artwork # NoCover /\ state' = [state EXCEPT !.cover = c]
        BY <1>10 DEF ArtworkRead, workerVars
    <2>2. /\ state'.media = state.media /\ state'.audio = state.audio
          /\ state'.cover = state.cover \/ (state.media <= state'.cover /\ state'.cover <= world.media)
        BY <1>1, <2>1
    <2> QED BY <1>1, <2>1, <2>2
<1>11. CASE StopSeen
    <2>1. UNCHANGED <<world, state>> /\ floor' = 0 /\ artwork' = NoCover /\ artFloor' = 0
        BY <1>11 DEF StopSeen
    <2> QED BY <1>1, <2>1
<1>12. CASE MediaChanges \/ AudioChanges
    BY <1>3, <1>12 DEF MediaChanges, AudioChanges, workerVars, artVars
<1>13. CASE \/ Start \/ Stop \/ RunBegins \/ InitializeDone \/ InitializeRaises \/ InitializeTimesOut
            \/ AttemptFailed \/ Retry \/ Serve \/ StopPosts \/ EventSet
            \/ \E what \in {"audio", "all"} : MarkDirty(what)
    BY <1>2, <1>13 DEF Start, Stop, RunBegins, InitializeDone, InitializeRaises, InitializeTimesOut,
       AttemptFailed, Retry, Serve, StopPosts, EventSet, MarkDirty, workerVars, artVars
<1>14. ASSUME NEW c \in Calls,
              \/ Submit(c) \/ RefreshBegins(c) \/ CommandBegins(c)
              \/ ExecuteFails(c) \/ Return(c) \/ TimesOut(c)
       PROVE  CoverOK'
    BY <1>2, <1>14 DEF Submit, RefreshBegins, CommandBegins, ExecuteFails, Return, TimesOut,
       workerVars, artVars
<1>15. ASSUME NEW c \in Calls, Executed(c)
       PROVE  CoverOK'
    BY <1>3, <1>15 DEF Executed, workerVars, artVars
<1> QED BY <1>2, <1>7, <1>8, <1>9, <1>10, <1>11, <1>12, <1>13, <1>14, <1>15
        DEF Next, Life, vars, workerVars, artVars

LEMMA WorkerStep == Inv /\ [Next]_vars => WorkerOK'
<1> SUFFICES ASSUME Inv, [Next]_vars PROVE WorkerOK'
    OBVIOUS
<1> USE DEF Inv, WorkerOK, MediaReady
<1>1. readFaults \in Nat /\ dirty \subseteq Domains
    BY ConstantsAssumption DEF TypeOK
<1>2. CASE UNCHANGED <<worker, taken, completed, readFaults>> /\ (MediaReady' <=> MediaReady)
    BY <1>2
<1>3. ASSUME NEW ready, Finish(ready), run' = run, MediaReady
      PROVE  WorkerOK'
    BY <1>3 DEF Finish
<1>4. CASE Take
    <2>1. ASSUME NEW ok \in BOOLEAN, "media" \in dirty,
                 IF "audio" \in dirty THEN AudioRead(ok)
                 ELSE ok /\ UNCHANGED <<state, missed, readFaults>>
          PROVE  readFaults' = 0 => (IF ok THEN dirty \cap {"audio"} ELSE {}) = dirty \cap {"audio"}
        BY <1>1, <2>1 DEF AudioRead
    <2>2. run' = run /\ MediaReady /\ taken' = dirty
        BY <1>4 DEF Take, adapterVars
    <2> QED BY <1>3, <1>4, <2>1, <2>2 DEF Take
<1>5. CASE MediaRead \/ MediaReadRaises
    BY <1>3, <1>5 DEF MediaRead, MediaReadRaises, adapterVars
<1>6. CASE Serve \/ StopSeen
    BY <1>6 DEF Serve, StopSeen, AdapterOK
<1>7. CASE \/ Start \/ Stop \/ RunBegins \/ InitializeDone \/ InitializeRaises \/ InitializeTimesOut
           \/ AttemptFailed \/ Retry \/ StopPosts \/ EventSet \/ ArtworkRead
           \/ MediaChanges \/ AudioChanges \/ \E what \in {"audio", "all"} : MarkDirty(what)
    BY <1>2, <1>7 DEF Start, Stop, RunBegins, InitializeDone, InitializeRaises, InitializeTimesOut,
       AttemptFailed, RetryThen, Retry, Attempt, StopPosts, EventSet, ArtworkRead, MediaChanges,
       AudioChanges, MarkDirty, adapterVars, workerVars, AdapterOK
<1>8. ASSUME NEW c \in Calls,
             \/ Submit(c) \/ RefreshBegins(c) \/ CommandBegins(c) \/ Executed(c)
             \/ ExecuteFails(c) \/ Return(c) \/ TimesOut(c)
      PROVE  WorkerOK'
    BY <1>2, <1>8 DEF Submit, RefreshBegins, CommandBegins, Executed, ExecuteFails, Return, TimesOut,
       adapterVars, workerVars
<1> QED BY <1>2, <1>4, <1>5, <1>6, <1>7, <1>8 DEF Next, Life, vars, adapterVars, workerVars

LEMMA ChangeStep == Inv /\ [Next]_vars => ChangeOK'
<1> SUFFICES ASSUME Inv, [Next]_vars PROVE ChangeOK'
    OBVIOUS
<1> USE DEF Inv, ChangeOK, MediaFollows
<1>1. /\ world \in [media : 0..MaxMedia, audio : 0..MaxAudio]
      /\ state \in [media : 0..MaxMedia, audio : 0..MaxAudio, cover : NoCover..MaxMedia]
      /\ floor \in 0..MaxMedia /\ dirty \subseteq Domains /\ posted \subseteq {"audio", "all", "stop"}
    BY DEF TypeOK
<1>2. CASE /\ UNCHANGED <<world, state, missed, floor>> /\ (MediaReady' => MediaReady)
           /\ worker' = worker /\ dirty \subseteq dirty' /\ posted \cap {"audio", "all"} \subseteq posted'
    BY <1>2
\* A change of the platform is announced.
<1>3. ASSUME UNCHANGED <<state, missed, floor, worker, run>>, dirty \subseteq dirty',
             \/ /\ world' = [world EXCEPT !.media = @ + 1] /\ posted' = Notified("all")
             \/ /\ world' = [world EXCEPT !.audio = @ + 1] /\ posted' = Notified("audio")
      PROVE  ChangeOK'
    <2> SUFFICES ASSUME MediaReady' PROVE ChangeOK'
        OBVIOUS
    <2>1. MediaReady /\ adapters = 1 /\ LoopRuns
        BY <1>3 DEF MediaReady, LoopRuns, AdapterOK
    <2>2. posted' = posted \cup {"all"} \/ (posted' = posted \cup {"audio"} /\ world'.media = world.media)
        BY <1>1, <1>3, <2>1 DEF Notified
    <2>3. posted' = posted \cup {"all"} \/ world'.media = world.media
        BY <2>2
    <2>4. posted \subseteq posted' /\ posted' \cap {"audio", "all"} # {}
        BY <2>2
    <2> QED BY <1>3, <2>1, <2>3, <2>4
<1>4. CASE Take
    <2> SUFFICES ASSUME MediaReady' PROVE ChangeOK'
        OBVIOUS
    <2>1. /\ UNCHANGED <<world, posted, run>> /\ MediaReady /\ worker = "idle"
          /\ \/ "media" \in dirty /\ floor' = world.media
             \/ "media" \notin dirty /\ worker' = "idle"
        BY <1>4 DEF Take, Finish, adapterVars, MediaReady
    <2>2. PICK ok \in BOOLEAN : IF "audio" \in dirty THEN AudioRead(ok)
                                ELSE ok /\ UNCHANGED <<state, missed, readFaults>>
        BY <1>4 DEF Take
    <2>3. /\ state'.media = state.media /\ ("media" \in missed => "media" \in missed')
          /\ \/ UNCHANGED <<state, missed>> /\ "audio" \notin dirty
             \/ state'.audio = world.audio \/ "audio" \in missed'
        BY <1>1, <2>2 DEF AudioRead
    <2>4. worker' = "reading" <=> "media" \in dirty
        BY <1>4 DEF Take, Finish
    <2> QED BY <2>1, <2>3, <2>4
<1>5. CASE MediaRead
    <2>1. PICK m \in floor..world.media : state' = [state EXCEPT !.media = m, !.cover = CoverAfter(m)]
        BY <1>5 DEF MediaRead
    <2>2. /\ UNCHANGED <<world, posted, dirty, run>> /\ worker = "reading" /\ worker' = "idle"
          /\ missed' = missed \ {"media"}
        BY <1>5 DEF MediaRead, Finish, adapterVars
    <2>3. state'.media = m /\ state'.audio = state.audio /\ (floor = world.media => m = world.media)
        BY <1>1, <2>1, ConstantsAssumption
    <2> QED BY <2>2, <2>3 DEF MediaReady
<1>6. CASE MediaReadRaises
    BY <1>6 DEF MediaReadRaises, Finish, adapterVars, MediaReady
<1>7. CASE ArtworkRead
    <2>1. /\ UNCHANGED <<world, posted, dirty, run, worker, missed, floor>>
          /\ state'.media = state.media /\ state'.audio = state.audio
        BY <1>1, <1>7 DEF ArtworkRead, adapterVars, workerVars
    <2> QED BY <2>1 DEF MediaReady
<1>8. CASE \E what \in {"audio", "all"} : MarkDirty(what)
    BY <1>8 DEF MarkDirty, DomainsOf, Domains, adapterVars, workerVars, MediaReady
<1>9. CASE Serve \/ StopSeen
    BY <1>9 DEF Serve, StopSeen, Domains, MediaReady, WorkerOK
<1>10. CASE MediaChanges \/ AudioChanges
    BY <1>3, <1>10 DEF MediaChanges, AudioChanges, workerVars, adapterVars
<1>11. CASE \/ Start \/ Stop \/ RunBegins \/ InitializeDone \/ InitializeRaises \/ InitializeTimesOut
            \/ AttemptFailed \/ Retry \/ StopPosts \/ EventSet
    <2>1. /\ UNCHANGED <<world, state, missed, floor, worker, dirty>> /\ (MediaReady' => MediaReady)
          /\ posted \cap {"audio", "all"} \subseteq posted'
        BY <1>11 DEF Start, Stop, RunBegins, InitializeDone, InitializeRaises, InitializeTimesOut,
           AttemptFailed, RetryThen, Retry, Attempt, StopPosts, EventSet, workerVars, MediaReady
    <2> QED BY <1>2, <2>1
<1>12. ASSUME NEW c \in Calls,
              \/ Submit(c) \/ RefreshBegins(c) \/ CommandBegins(c)
              \/ ExecuteFails(c) \/ Return(c) \/ TimesOut(c)
       PROVE  ChangeOK'
    <2>1. UNCHANGED <<world, state, missed, floor, worker, posted, run>> /\ dirty \subseteq dirty'
        BY <1>12 DEF Submit, RefreshBegins, Wait, CommandBegins, ExecuteFails, Return, TimesOut,
           workerVars, adapterVars
    <2> QED BY <1>2, <2>1 DEF MediaReady
<1>13. ASSUME NEW c \in Calls, Executed(c)
       PROVE  ChangeOK'
    BY <1>3, <1>13 DEF Executed, Wait, workerVars, adapterVars
<1> QED BY <1>2, <1>4, <1>5, <1>6, <1>7, <1>8, <1>9, <1>10, <1>11, <1>12, <1>13
        DEF Next, Life, vars, workerVars, adapterVars, MediaReady

LEMMA WaiterStep == Inv /\ [Next]_vars => NoLostWaiter'
<1> SUFFICES ASSUME Inv, [Next]_vars, NEW c \in Calls,
                    MediaReady', call'[c] = "waiting", readFaults' = 0
             PROVE  needs'[c] \subseteq dirty' \cup taken'
    BY DEF NoLostWaiter
<1> USE DEF Inv
<1>1. /\ call \in [Calls -> Phases] /\ needs \in [Calls -> SUBSET Domains] /\ readFaults \in Nat
      /\ dirty \subseteq Domains
    BY ConstantsAssumption DEF TypeOK
<1>2. CASE /\ UNCHANGED <<call, needs, taken, readFaults>> /\ (MediaReady' => MediaReady)
           /\ dirty \subseteq dirty'
    BY <1>2 DEF NoLostWaiter
\* One call moves.
<1>3. ASSUME NEW d \in Calls, UNCHANGED <<taken, readFaults, run>>, dirty \subseteq dirty',
             NEW phase \in Phases, call' = [call EXCEPT ![d] = phase],
             needs' = needs \/ needs' = [needs EXCEPT ![d] = {}], phase # "waiting"
      PROVE  needs'[c] \subseteq dirty' \cup taken'
    BY <1>1, <1>3 DEF NoLostWaiter, MediaReady
<1>4. ASSUME NEW d \in Calls, Wait(d), UNCHANGED <<taken, readFaults, run>>
      PROVE  needs'[c] \subseteq dirty' \cup taken'
    BY <1>1, <1>4 DEF NoLostWaiter, MediaReady, Wait, Dirtied
<1>5. ASSUME NEW ready, Finish(ready), run' = run, dirty \cup taken \subseteq ready \cup dirty',
             readFaults = 0
      PROVE  needs'[c] \subseteq dirty' \cup taken'
    BY <1>1, <1>5 DEF NoLostWaiter, MediaReady, Finish
<1>6. CASE Take
    <2>1. PICK ok \in BOOLEAN :
              /\ IF "audio" \in dirty THEN AudioRead(ok)
                 ELSE ok /\ UNCHANGED <<state, missed, readFaults>>
              /\ IF "media" \in dirty
                 THEN UNCHANGED <<artVars, call, needs>>
                 ELSE Finish((IF ok THEN dirty \cap {"audio"} ELSE {}) \cup (dirty \cap {"artwork"}))
        BY <1>6 DEF Take
    <2>2. run' = run /\ taken' = dirty /\ dirty' = {} /\ worker = "idle"
        BY <1>6 DEF Take, adapterVars
    <2>3. readFaults = 0 /\ ("audio" \in dirty => ok) /\ taken = {}
        BY <1>1, <2>1, <2>2 DEF AudioRead, WorkerOK
    <2>4. CASE "media" \in dirty
        BY <2>1, <2>2, <2>3, <2>4 DEF NoLostWaiter, MediaReady
    <2>5. CASE "media" \notin dirty
        BY <1>1, <1>5, <2>1, <2>2, <2>3, <2>5 DEF Domains
    <2> QED BY <2>4, <2>5
<1>7. CASE MediaRead
    <2>1. /\ Finish(completed \cup (taken \cap {"media", "artwork"}))
          /\ UNCHANGED <<run, dirty, readFaults>> /\ worker = "reading"
        BY <1>7 DEF MediaRead, adapterVars
    <2>2. taken \subseteq completed \cup (taken \cap {"media", "artwork"})
        BY <2>1 DEF WorkerOK, TypeOK, Domains
    <2> QED BY <1>5, <2>1, <2>2
<1>8. CASE MediaReadRaises
    BY <1>1, <1>8 DEF MediaReadRaises
<1>9. CASE Serve
    BY <1>1, <1>9 DEF Serve, callVars
<1>10. CASE StopSeen
    BY <1>10 DEF StopSeen, MediaReady
<1>11. CASE \/ Start \/ Stop \/ RunBegins \/ InitializeDone \/ InitializeRaises \/ InitializeTimesOut
            \/ AttemptFailed \/ Retry \/ StopPosts \/ EventSet \/ ArtworkRead
            \/ MediaChanges \/ AudioChanges \/ \E what \in {"audio", "all"} : MarkDirty(what)
    <2>1. /\ UNCHANGED <<call, needs, taken, readFaults>> /\ (MediaReady' => MediaReady)
          /\ dirty \subseteq dirty'
        BY <1>11 DEF Start, Stop, RunBegins, InitializeDone, InitializeRaises, InitializeTimesOut,
           AttemptFailed, RetryThen, Retry, Attempt, StopPosts, EventSet, ArtworkRead, MediaChanges,
           AudioChanges, MarkDirty, adapterVars, workerVars, callVars, MediaReady
    <2> QED BY <1>2, <2>1
<1>12. ASSUME NEW d \in Calls,
              Submit(d) \/ CommandBegins(d) \/ ExecuteFails(d) \/ Return(d) \/ TimesOut(d)
       PROVE  needs'[c] \subseteq dirty' \cup taken'
    <2>1. /\ UNCHANGED <<taken, readFaults, run, dirty>>
          /\ needs' = needs \/ needs' = [needs EXCEPT ![d] = {}]
          /\ \E phase \in Phases \ {"waiting"} : call' = [call EXCEPT ![d] = phase]
        BY <1>12 DEF Submit, CommandBegins, ExecuteFails, Return, TimesOut, Phases, adapterVars,
           workerVars
    <2> QED BY <1>3, <2>1
<1>13. ASSUME NEW d \in Calls, RefreshBegins(d) \/ Executed(d)
       PROVE  needs'[c] \subseteq dirty' \cup taken'
    BY <1>4, <1>13 DEF RefreshBegins, Executed, adapterVars, workerVars
<1> QED BY <1>2, <1>6, <1>7, <1>8, <1>9, <1>10, <1>11, <1>12, <1>13
        DEF Next, Life, vars, workerVars, adapterVars, callVars, MediaReady

-----------------------------------------------------------------------------
(* What the service promises *)

LEMMA InvAlways == Spec => []Inv
<1>1. Inv /\ [Next]_vars => Inv'
    BY TypeStep, AdapterStep, CoverStep, WorkerStep, ChangeStep, WaiterStep DEF Inv
<1> QED BY <1>1, InitInv, PTL DEF Spec

\* The state of MediaService is what its declarations say.
THEOREM ServiceTypes == Spec => []TypeOK
<1>1. Inv => TypeOK
    BY DEF Inv
<1> QED BY <1>1, InvAlways, PTL

\* However initialisations fail, are retried, time out or race with stop(), at
\* most one platform adapter is open, and none once the thread has ended.
THEOREM OneAdapterOpen == Spec => []OneAdapter
<1>1. Inv => OneAdapter
    BY DEF Inv, AdapterOK, OneAdapter, MediaReady
<1> QED BY <1>1, InvAlways, PTL

\* No late artwork covers a newer track (_read_artwork, _media_generation).
THEOREM CoverIsNotOlder == Spec => []NoOldCover
<1>1. Inv => NoOldCover
    BY DEF Inv, CoverOK, NoOldCover
<1> QED BY <1>1, InvAlways, PTL

\* Once the service is quiet its snapshot is what the platform is: no change is
\* lost between announcing, taking the dirty domains and reading them.
THEOREM NoChangeLost == Spec => []NoLostChange
<1>1. Inv => NoLostChange
    <2> SUFFICES ASSUME Inv, Settled PROVE NoLostChange
        BY DEF NoLostChange
    <2>1. /\ state.cover # NoCover => state.media <= state.cover /\ state.cover <= world.media
          /\ world.media \in Nat /\ state.cover \in NoCover..MaxMedia
        BY ConstantsAssumption DEF Inv, CoverOK, TypeOK
    <2>2. "media" \in missed \/ state.media = world.media
        BY DEF Inv, ChangeOK, MediaFollows, Settled
    <2>3. "audio" \in missed \/ state.audio = world.audio
        BY DEF Inv, ChangeOK, Settled
    <2>4. state.media = world.media => state.cover \in {NoCover, world.media}
        BY <2>1 DEF NoCover
    <2> QED BY <2>2, <2>3, <2>4 DEF NoLostChange
<1> QED BY <1>1, InvAlways, PTL

\* While no read raised, every domain a waiter still requires is dirty or being
\* refreshed (_request_refresh, _complete_refreshes).
THEOREM WaitersAreServed == Spec => []NoLostWaiter
<1>1. Inv => NoLostWaiter
    BY DEF Inv
<1> QED BY <1>1, InvAlways, PTL
=============================================================================
