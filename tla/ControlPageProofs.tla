-------------------------- MODULE ControlPageProofs --------------------------
(***************************************************************************)
(* Proofs about ControlPage, for any volumes and any bounds on changes,    *)
(* slider values, stops, renames and faults: an idle worker has set the    *)
(* last value the user gave, and a page at rest shows the Server's state.  *)
(***************************************************************************)
EXTENDS ControlPage, TLAPS

\* Commands that have not reached the Server, at most one a slider value.
Unsent == IF job # None /\ job.at \in {"waiting", "sending"} THEN 1 ELSE 0
Waiting == IF pending # None THEN 1 ELSE 0
BoundOK ==
    /\ Unsent + Waiting <= sets
    /\ srv.rev + Unsent + Waiting <= MaxRev + sets

\* The value the user gave last is the one set last, the one being set, or the
\* one that is set next; only a running block has a worker.
ActorOK ==
    /\ pending # None => job # None
    /\ ~live => job = None /\ asked = None
    /\ asked # None => asked = IF job = None THEN lastOk
                               ELSE IF pending = None THEN job.value ELSE pending

\* Requests belong to their page, the connection to the running block.
PageOK ==
    /\ load # None => page = "loading"
    /\ refresh # None => page = "ready" /\ refreshes > 0
    /\ page = "ready" => {initial, latest, current} \subseteq Media
    /\ ~live => posted = None /\ seen = 0

\* A revision has one state.
IsOfServer(m) == m \in Media => m.rev <= srv.rev /\ (m.rev = srv.rev => m = srv)
KnownOK == IsOfServer(load) /\ IsOfServer(initial) /\ IsOfServer(posted) /\ IsOfServer(latest)

\* Once the connection has handed over a state, that state is the one the page
\* goes back to, and while no rename has reloaded the page it shows its revision,
\* and its volume when the slider is let alone.
ShownOK ==
    /\ page = "ready" /\ refreshes = 0 => active \in Media
    /\ live /\ seen # 0 =>
          /\ latest.rev = seen /\ latest.vol = confirmed
          /\ refreshes = 0 =>
                /\ active.rev = seen
                /\ ~Busy => active = latest /\ screen = latest

Inv == TypeOK /\ BoundOK /\ ActorOK /\ PageOK /\ KnownOK /\ ShownOK

-----------------------------------------------------------------------------
(* The data *)

LEMMA ConstantFacts ==
    /\ Volumes \subseteq Nat /\ 0 \in Volumes
    /\ MaxRev \in Nat /\ MaxSets \in Nat /\ MaxStops \in Nat /\ MaxRefreshes \in Nat
    /\ MaxFaults \in Nat /\ MaxRev > 0
    /\ None # Sent /\ None # Failed /\ Sent # Failed
    /\ None \notin Volumes /\ Sent \notin Volumes /\ Failed \notin Volumes
BY PageConstants

LEMMA MediaFacts ==
    ASSUME NEW m \in Media
    PROVE  /\ m.rev \in 1..MaxRev + MaxSets /\ m.rev \in Nat /\ m.rev # 0 /\ m.vol \in Volumes
           /\ m # None /\ m # Sent /\ m # Failed
           /\ \A v \in Volumes : /\ [m EXCEPT !.vol = v] \in Media
                                 /\ [m EXCEPT !.vol = v].rev = m.rev
                                 /\ [m EXCEPT !.vol = v].vol = v
           /\ \A n \in Media : n.rev = m.rev /\ n.vol = m.vol => n = m
<1>1. m \in [rev : Nat, vol : Volumes]
    BY ConstantFacts DEF Media
<1>2. m # None /\ m # Sent /\ m # Failed
    BY <1>1, PageConstants
<1>3. m.rev \in 1..MaxRev + MaxSets /\ m.rev \in Nat /\ m.rev # 0 /\ m.vol \in Volumes
    BY ConstantFacts DEF Media
<1>4. \A v \in Volumes : /\ [m EXCEPT !.vol = v] \in Media
                         /\ [m EXCEPT !.vol = v].rev = m.rev /\ [m EXCEPT !.vol = v].vol = v
    BY DEF Media
<1>5. \A n \in Media : n.rev = m.rev /\ n.vol = m.vol => n = m
    BY DEF Media
<1> QED BY <1>2, <1>3, <1>4, <1>5

LEMMA JobFacts ==
    ASSUME NEW v \in Volumes, NEW at \in {"waiting", "sending", "served", "refused"},
           NEW j, j = [at |-> at, value |-> v]
    PROVE  j \in Jobs /\ j # None /\ j.at = at /\ j.value = v
<1>1. j \in [at : {"waiting", "sending", "served", "refused"}, value : Volumes]
    OBVIOUS
<1> QED BY <1>1, PageConstants DEF Jobs

\* A job that is there has a state and a value.
LEMMA JobParts ==
    ASSUME job \in Jobs, job # None
    PROVE  /\ job.at \in {"waiting", "sending", "served", "refused"} /\ job.value \in Volumes
           /\ \A at \in {"waiting", "sending", "served", "refused"} :
                 [job EXCEPT !.at = at] = [at |-> at, value |-> job.value]
BY DEF Jobs

LEMMA TypeFacts ==
    ASSUME Inv
    PROVE  /\ srv \in Media /\ srv.rev \in Nat /\ job \in Jobs /\ confirmed \in Volumes
           /\ pending \in MaybeVolume /\ gesture \in MaybeVolume /\ lastOk \in MaybeVolume
           /\ asked \in MaybeVolume /\ told \in MaybeVolume
           /\ active \in MaybeMedia /\ current \in MaybeMedia /\ latest \in MaybeMedia
           /\ posted \in MaybeMedia /\ initial \in MaybeMedia
           /\ screen \in Media \cup {None, Failed}
           /\ seen \in Nat /\ sets \in Nat /\ refreshes \in Nat
           /\ (live => visible /\ page = "ready")
           /\ page = "ready" => initial \in Media /\ latest \in Media /\ current \in Media /\ Base \in Media
           /\ Unsent \in {0, 1} /\ Waiting \in {0, 1}
<1>1. /\ srv \in Media /\ job \in Jobs /\ confirmed \in Volumes
      /\ pending \in MaybeVolume /\ gesture \in MaybeVolume /\ lastOk \in MaybeVolume
      /\ asked \in MaybeVolume /\ told \in MaybeVolume
      /\ active \in MaybeMedia /\ current \in MaybeMedia /\ latest \in MaybeMedia
      /\ posted \in MaybeMedia /\ initial \in MaybeMedia
      /\ screen \in Media \cup {None, Failed}
      /\ (live => visible /\ page = "ready")
    BY DEF Inv, TypeOK
<1>2. seen \in Nat /\ sets \in Nat /\ refreshes \in Nat
    BY ConstantFacts DEF Inv, TypeOK
<1>3. page = "ready" => initial \in Media /\ latest \in Media /\ current \in Media
    BY DEF Inv, PageOK
<1>4. page = "ready" => Base \in Media
    BY <1>1, <1>3 DEF Base, MaybeMedia
<1>5. Unsent \in {0, 1} /\ Waiting \in {0, 1}
    BY DEF Unsent, Waiting
<1> QED BY <1>1, <1>2, <1>3, <1>4, <1>5, MediaFacts

\* What the loop of the worker does with a value.
LEMMA LoopDoes ==
    ASSUME Inv, NEW value \in MaybeVolume, NEW ended \in MaybeVolume, NEW ok, NEW drawn,
           Loop(value, ended, ok, drawn)
    PROVE  /\ job' \in Jobs /\ pending' = None /\ gesture' \in MaybeVolume /\ started' \in BOOLEAN
           /\ \/ /\ value # None /\ job' # None /\ job'.value = value
                 /\ job'.at \in {"waiting", "sending"}
                 /\ screen' = drawn /\ UNCHANGED <<active, current>>
              \/ /\ value = None \/ value = ok
                 /\ job' = None
                 /\ current' = latest /\ active' = latest /\ screen' = latest
<1>1. started \in BOOLEAN /\ None \in MaybeVolume /\ None \in Jobs
    BY DEF Inv, TypeOK, MaybeVolume, Jobs
<1>2. CASE /\ value # None /\ ~(value = ok /\ ended = value)
           /\ \E at \in IF started THEN {"waiting", "sending"} ELSE {"sending"} :
                 job' = [at |-> at, value |-> value]
           /\ pending' = None /\ gesture' = ended /\ started' = TRUE
           /\ Shows(drawn)
    <2>1. PICK at \in {"waiting", "sending"} : job' = [at |-> at, value |-> value]
        BY <1>2
    <2>2. value \in Volumes
        BY <1>2 DEF MaybeVolume
    <2>3. job' \in Jobs /\ job' # None /\ job'.at = at /\ job'.value = value
        <3>1. PICK j : j = [at |-> at, value |-> value]
            OBVIOUS
        <3> QED BY <2>1, <2>2, <3>1, JobFacts
    <2>4. started' \in BOOLEAN
        BY <1>2
    <2> QED BY <1>2, <2>1, <2>3, <2>4 DEF Shows
<1>3. CASE /\ value = None \/ (value = ok /\ ended = value)
           /\ job' = None /\ pending' = None
           /\ gesture' = IF value = None THEN ended ELSE None
           /\ OnIdle
           /\ UNCHANGED started
    BY <1>1, <1>3 DEF OnIdle, Redraw
<1> QED BY <1>2, <1>3 DEF Loop

LEMMA PageInit == Init => Inv
<1> SUFFICES ASSUME Init PROVE Inv
    OBVIOUS
<1>0. /\ srv \in Media /\ srv.rev = 1
      /\ visible = TRUE /\ page = "none" /\ gate = FALSE /\ load = None
      /\ initial = None /\ live = FALSE
      /\ posted = None /\ seen = 0 /\ latest = None
      /\ active = None /\ current = None /\ screen = None
      /\ job = None /\ pending = None /\ gesture = None
      /\ lastOk = None /\ confirmed = 0 /\ started = FALSE
      /\ refresh = None /\ asked = None /\ told = None
      /\ sets = 0 /\ stops = 0 /\ refreshes = 0 /\ faults = 0
    BY DEF Init
<1>1. {visible, gate, live, started} \subseteq BOOLEAN
    BY <1>0
<1>2. TypeOK
    <2>1. /\ seen \in 0..MaxRev + MaxSets /\ sets \in 0..MaxSets /\ stops \in 0..MaxStops
          /\ refreshes \in 0..MaxRefreshes /\ faults \in 0..MaxFaults /\ confirmed \in Volumes
        BY <1>0, ConstantFacts
    <2> QED BY <1>0, <1>1, <2>1 DEF TypeOK, Loads, Jobs, MaybeMedia, MaybeVolume
<1>3. BoundOK
    BY <1>0, ConstantFacts DEF BoundOK, Unsent, Waiting
<1>4. ActorOK /\ PageOK
    BY <1>0 DEF ActorOK, PageOK
<1>5. KnownOK
    <2>1. None \notin Media
        BY MediaFacts
    <2> QED BY <1>0, <2>1 DEF KnownOK, IsOfServer
<1>6. ShownOK
    BY <1>0 DEF ShownOK
<1> QED BY <1>2, <1>3, <1>4, <1>5, <1>6 DEF Inv


-----------------------------------------------------------------------------
(* The Server and the worker *)

\* What is known of the Server stays true when its state changes.
LEMMA StillKnown ==
    ASSUME Inv, srv' \in Media, srv' = srv \/ srv'.rev = srv.rev + 1
    PROVE  /\ IsOfServer(load) => (load \in Media => load.rev <= srv'.rev /\ (load.rev = srv'.rev => load = srv'))
           /\ IsOfServer(initial) => (initial \in Media => initial.rev <= srv'.rev /\ (initial.rev = srv'.rev => initial = srv'))
           /\ IsOfServer(posted) => (posted \in Media => posted.rev <= srv'.rev /\ (posted.rev = srv'.rev => posted = srv'))
           /\ IsOfServer(latest) => (latest \in Media => latest.rev <= srv'.rev /\ (latest.rev = srv'.rev => latest = srv'))
<1>1. srv \in Media /\ srv.rev \in Nat
    BY TypeFacts
<1>2. ASSUME NEW m \in Media, m.rev <= srv.rev, m.rev = srv.rev => m = srv
      PROVE  m.rev <= srv'.rev /\ (m.rev = srv'.rev => m = srv')
    <2>1. m.rev \in Nat
        BY MediaFacts
    <2> QED BY <1>1, <1>2, <2>1
<1> QED BY <1>2 DEF IsOfServer

\* A command that is still to reach the Server leaves room for its revision.
LEMMA ServedMoves ==
    ASSUME Inv, job # None, job.at = "sending", Served(job.value)
    PROVE  /\ srv' \in Media /\ (srv' = srv \/ srv'.rev = srv.rev + 1)
           /\ srv'.rev + Waiting <= MaxRev + sets
<1>1. /\ srv \in Media /\ srv.rev \in Nat /\ job.value \in Volumes /\ Waiting \in {0, 1}
      /\ sets \in 0..MaxSets /\ MaxRev \in Nat /\ MaxSets \in Nat
    BY TypeFacts, JobParts, ConstantFacts DEF Inv, TypeOK
<1>2. srv.rev + 1 + Waiting <= MaxRev + sets
    BY DEF Inv, BoundOK, Unsent
<1>3. CASE srv' = srv
    BY <1>1, <1>2, <1>3
<1>4. CASE srv' = [rev |-> srv.rev + 1, vol |-> job.value]
    <2>1. srv.rev + 1 \in 1..MaxRev + MaxSets
        BY <1>1, <1>2
    <2>2. srv' \in Media /\ srv'.rev = srv.rev + 1
        BY <1>1, <1>4, <2>1 DEF Media
    <2> QED BY <1>1, <1>2, <2>2
<1> QED BY <1>3, <1>4 DEF Served

LEMMA PcChangeStep == ASSUME Inv, PcChange PROVE Inv'
<1>1. /\ srv.rev < MaxRev /\ \E v \in Volumes : srv' = [rev |-> srv.rev + 1, vol |-> v]
      /\ UNCHANGED <<visible, page, gate, load, initial, live, posted, seen, latest, active, current,
                     screen, job, pending, gesture, lastOk, confirmed, started, refresh, asked, told,
                     sets, stops, refreshes, faults>>
    BY DEF PcChange, pageVars, shownVars, actorVars, bounds
<1>2. /\ srv.rev \in Nat /\ MaxRev \in Nat /\ MaxSets \in Nat /\ sets \in Nat
      /\ Unsent \in {0, 1} /\ Waiting \in {0, 1}
    BY TypeFacts, ConstantFacts
<1>3. srv' \in Media /\ srv'.rev = srv.rev + 1
    BY <1>1, <1>2 DEF Media
<1>4. TypeOK'
    BY <1>1, <1>3 DEF Inv, TypeOK
<1>5. BoundOK'
    <2>1. Unsent' = Unsent /\ Waiting' = Waiting
        BY <1>1 DEF Unsent, Waiting
    <2>2. Unsent + Waiting <= sets
        BY DEF Inv, BoundOK
    <2>3. srv.rev + 1 + Unsent + Waiting <= MaxRev + sets
        BY <1>1, <1>2, <2>2
    <2> QED BY <1>1, <1>3, <2>1, <2>2, <2>3 DEF BoundOK
<1>6. ActorOK' /\ PageOK'
    BY <1>1 DEF Inv, ActorOK, PageOK
<1>7. KnownOK'
    BY <1>1, <1>3, StillKnown DEF Inv, KnownOK, IsOfServer
<1>8. ShownOK'
    BY <1>1 DEF Inv, ShownOK, Busy
<1> QED BY <1>4, <1>5, <1>6, <1>7, <1>8 DEF Inv

LEMMA WaitOverStep == ASSUME Inv, WaitOver PROVE Inv'
<1>1. /\ job # None /\ job.at = "waiting" /\ job' = [job EXCEPT !.at = "sending"]
      /\ UNCHANGED <<srv, visible, page, gate, load, initial, live, posted, seen, latest, active,
                     current, screen, pending, gesture, lastOk, confirmed, started, refresh, asked,
                     told, sets, stops, refreshes, faults>>
    BY DEF WaitOver, pageVars, shownVars, bounds
<1>2. job' = [at |-> "sending", value |-> job.value] /\ job.value \in Volumes
    BY <1>1, TypeFacts, JobParts
<1>3. job' \in Jobs /\ job' # None /\ job'.at = "sending" /\ job'.value = job.value
    <2>1. PICK j : j = [at |-> "sending", value |-> job.value]
        OBVIOUS
    <2> QED BY <1>2, <2>1, JobFacts
<1>4. TypeOK'
    BY <1>1, <1>3 DEF Inv, TypeOK
<1>5. BoundOK'
    BY <1>1, <1>3 DEF Inv, BoundOK, Unsent, Waiting
<1>6. ActorOK' /\ PageOK' /\ KnownOK' /\ ShownOK'
    BY <1>1, <1>3 DEF Inv, ActorOK, PageOK, KnownOK, IsOfServer, ShownOK, Busy
<1> QED BY <1>4, <1>5, <1>6 DEF Inv

LEMMA CommandHandledStep == ASSUME Inv, CommandHandled PROVE Inv'
<1>1. /\ job # None /\ job.at = "sending"
      /\ UNCHANGED <<visible, page, gate, load, initial, live, posted, seen, latest, active, current,
                     screen, pending, gesture, lastOk, confirmed, started, refresh, asked, told, sets,
                     stops, refreshes>>
    BY DEF CommandHandled, pageVars, shownVars
<1>2. /\ srv' \in Media /\ (srv' = srv \/ srv'.rev = srv.rev + 1)
      /\ srv'.rev + Waiting <= MaxRev + sets
      /\ faults' \in 0..MaxFaults
      /\ \E at \in {"served", "refused"} : job' = [job EXCEPT !.at = at]
    <2>0. /\ srv \in Media /\ srv.rev \in Nat /\ MaxRev \in Nat /\ sets \in Nat /\ Waiting \in {0, 1}
          /\ faults \in 0..MaxFaults /\ MaxFaults \in Nat
        BY TypeFacts, ConstantFacts DEF Inv, TypeOK
    <2>1. CASE Served(job.value) /\ job' = [job EXCEPT !.at = "served"] /\ UNCHANGED faults
        BY <1>1, <2>0, <2>1, ServedMoves
    <2>2. CASE faults < MaxFaults /\ faults' = faults + 1 /\ job' = [job EXCEPT !.at = "refused"]
               /\ UNCHANGED srv
        <3>1. srv.rev + 1 + Waiting <= MaxRev + sets
            BY <1>1 DEF Inv, BoundOK, Unsent
        <3> QED BY <2>0, <2>2, <3>1
    <2> QED BY <2>1, <2>2 DEF CommandHandled
<1>3. PICK at \in {"served", "refused"} : job' = [at |-> at, value |-> job.value] /\ job.value \in Volumes
    BY <1>1, <1>2, TypeFacts, JobParts
<1>4. job' \in Jobs /\ job' # None /\ job'.at = at /\ job'.value = job.value
    <2>1. PICK j : j = [at |-> at, value |-> job.value]
        OBVIOUS
    <2> QED BY <1>3, <2>1, JobFacts
<1>5. TypeOK'
    BY <1>1, <1>2, <1>4 DEF Inv, TypeOK
<1>6. BoundOK'
    <2>1. Unsent' = 0 /\ Waiting' = Waiting /\ Unsent = 1 /\ Waiting \in {0, 1} /\ sets \in Nat
        BY <1>1, <1>4, TypeFacts DEF Unsent, Waiting
    <2>2. srv'.rev \in Nat
        BY <1>2, MediaFacts
    <2> QED BY <1>1, <1>2, <2>1, <2>2 DEF Inv, BoundOK
<1>7. ActorOK' /\ PageOK'
    BY <1>1, <1>4 DEF Inv, ActorOK, PageOK
<1>8. KnownOK'
    BY <1>1, <1>2, StillKnown DEF Inv, KnownOK, IsOfServer
<1>9. ShownOK'
    BY <1>1, <1>4 DEF Inv, ShownOK, Busy
<1> QED BY <1>5, <1>6, <1>7, <1>8, <1>9 DEF Inv


LEMMA CommandSucceedsStep == ASSUME Inv, CommandSucceeds PROVE Inv'
<1> DEFINE ended == IF gesture = job.value THEN None ELSE gesture
<1>1. /\ job # None /\ job.at = "served" /\ lastOk' = job.value
      /\ Loop(pending, ended, job.value, screen)
      /\ UNCHANGED <<srv, visible, page, gate, load, initial, live, posted, seen, latest, confirmed,
                     refresh, asked, told, sets, stops, refreshes, faults>>
    BY DEF CommandSucceeds, pageVars, bounds
<1>2. pending \in MaybeVolume /\ ended \in MaybeVolume
    BY TypeFacts DEF MaybeVolume
<1> HIDE DEF ended
<1>3. /\ job' \in Jobs /\ pending' = None /\ gesture' \in MaybeVolume /\ started' \in BOOLEAN
      /\ \/ /\ pending # None /\ job' # None /\ job'.value = pending
            /\ job'.at \in {"waiting", "sending"}
            /\ screen' = screen /\ UNCHANGED <<active, current>>
         \/ /\ pending = None \/ pending = job.value
            /\ job' = None
            /\ current' = latest /\ active' = latest /\ screen' = latest
    BY <1>1, <1>2, LoopDoes
<1>4. live /\ page = "ready" /\ latest \in Media /\ lastOk' \in Volumes /\ refreshes \in Nat
    BY <1>1, TypeFacts, JobParts DEF Inv, ActorOK
<1>5. TypeOK'
    BY <1>1, <1>3, <1>4 DEF Inv, TypeOK, MaybeMedia, MaybeVolume
<1>6. BoundOK'
    <2>1. /\ Unsent' + Waiting' <= Unsent + Waiting /\ Unsent' \in {0, 1} /\ Waiting' \in {0, 1}
          /\ Waiting \in {0, 1} /\ sets \in Nat /\ srv.rev \in Nat /\ MaxRev \in Nat
        BY <1>1, <1>3, TypeFacts, ConstantFacts DEF Unsent, Waiting
    <2>2. Unsent + Waiting <= sets /\ srv.rev + Unsent + Waiting <= MaxRev + sets
        BY DEF Inv, BoundOK
    <2>3. srv' = srv /\ sets' = sets
        BY <1>1
    <2>4. Unsent' + Waiting' <= sets /\ srv.rev + Unsent' + Waiting' <= MaxRev + sets
        <3>1. PICK a \in {0, 1}, b \in {0, 1}, c \in {0, 1}, d \in {0, 1} :
                a = Unsent /\ b = Waiting /\ c = Unsent' /\ d = Waiting'
            BY <2>1, TypeFacts
        <3>2. c + d <= a + b /\ a + b <= sets /\ srv.rev + a + b <= MaxRev + sets
            BY <2>1, <2>2, <3>1
        <3>3. c + d <= sets /\ srv.rev + c + d <= MaxRev + sets
            BY <2>1, <3>2
        <3> QED BY <3>1, <3>3
    <2> QED BY <2>3, <2>4 DEF BoundOK
<1>7. ActorOK'
    BY <1>1, <1>3, <1>4 DEF Inv, ActorOK
<1>8. PageOK'
    BY <1>1, <1>3, <1>4 DEF Inv, PageOK
<1>9. KnownOK'
    BY <1>1 DEF Inv, KnownOK, IsOfServer
<1>10. ShownOK'
    BY <1>1, <1>3, <1>4 DEF Inv, ShownOK, Busy
<1> QED BY <1>5, <1>6, <1>7, <1>8, <1>9, <1>10 DEF Inv

LEMMA CommandFailsStep == ASSUME Inv, CommandFails PROVE Inv'
<1>1. /\ job # None /\ job' = None /\ pending' = None /\ gesture' = None /\ asked' = None
      /\ Redraw([Base EXCEPT !.vol = confirmed])
      /\ UNCHANGED <<srv, visible, page, gate, load, initial, live, posted, seen, latest, lastOk,
                     confirmed, started, refresh, told, sets, stops, refreshes>>
    BY DEF CommandFails, pageVars
<1>2. faults' \in 0..MaxFaults
    BY ConstantFacts DEF CommandFails, Inv, TypeOK
<1>3. /\ live /\ page = "ready" /\ latest \in Media /\ Base \in Media /\ confirmed \in Volumes
      /\ refreshes \in Nat /\ (refreshes = 0 => active \in Media /\ Base = active)
    <2>1. live /\ page = "ready"
        BY <1>1, TypeFacts DEF Inv, ActorOK
    <2>2. refreshes = 0 => active \in Media
        BY <2>1 DEF Inv, ShownOK
    <2>3. None \notin Media
        BY MediaFacts
    <2> QED BY <2>1, <2>2, <2>3, TypeFacts DEF Base
<1>4. PICK r : r = [Base EXCEPT !.vol = confirmed]
    OBVIOUS
<1>5. /\ r \in Media /\ r.rev = Base.rev /\ r.vol = confirmed
      /\ current' = r /\ active' = r /\ screen' = r
    BY <1>1, <1>3, <1>4, MediaFacts DEF Redraw
<1>6. TypeOK'
    BY <1>1, <1>2, <1>5 DEF Inv, TypeOK, MaybeMedia, MaybeVolume, Jobs
<1>7. BoundOK'
    <2>1. /\ Unsent' = 0 /\ Waiting' = 0 /\ Unsent \in {0, 1} /\ Waiting \in {0, 1} /\ sets \in Nat
          /\ srv.rev \in Nat /\ MaxRev \in Nat
        BY <1>1, TypeFacts, ConstantFacts DEF Unsent, Waiting
    <2> QED BY <1>1, <2>1 DEF Inv, BoundOK
<1>8. ActorOK' /\ KnownOK'
    BY <1>1 DEF ActorOK, Inv, KnownOK, IsOfServer
<1>9. PageOK'
    BY <1>1, <1>5 DEF Inv, PageOK
<1>10. ShownOK'
    <2>1. seen # 0 => latest.rev = seen /\ latest.vol = confirmed /\ (refreshes = 0 => active.rev = seen)
        BY <1>3 DEF Inv, ShownOK
    <2>2. seen # 0 /\ refreshes = 0 => r = latest
        BY <1>3, <1>5, <2>1, MediaFacts
    <2> QED BY <1>1, <1>3, <1>5, <2>1, <2>2 DEF ShownOK
<1> QED BY <1>6, <1>7, <1>8, <1>9, <1>10 DEF Inv

LEMMA SlidStep == ASSUME Inv, CanSlide, NEW v \in Volumes, NEW ended \in MaybeVolume, Slid(v, ended) PROVE Inv'
<1> DEFINE drawn == [screen EXCEPT !.vol = v]
<1>1. /\ EnsureWorker(v, ended, drawn) /\ asked' = v /\ sets' = sets + 1
      /\ UNCHANGED <<srv, visible, page, gate, load, initial, live, posted, seen, latest, lastOk,
                     confirmed, refresh, told, stops, refreshes, faults>>
    BY DEF Slid, pageVars
<1>2. live /\ screen \in Media /\ sets < MaxSets
    BY DEF CanSlide
<1>3. /\ drawn \in Media /\ page = "ready" /\ latest \in Media /\ v # None /\ sets' \in 0..MaxSets
      /\ v \in MaybeVolume /\ sets \in Nat /\ srv.rev \in Nat /\ MaxRev \in Nat
      /\ Unsent \in {0, 1} /\ Waiting \in {0, 1} /\ refreshes \in Nat
    BY <1>1, <1>2, TypeFacts, MediaFacts, ConstantFacts DEF Inv, TypeOK, MaybeVolume
<1> HIDE DEF drawn
<1>4. \/ /\ job = None /\ job' # None /\ job'.value = v /\ job'.at \in {"waiting", "sending"}
         /\ pending' = None /\ screen' = drawn /\ UNCHANGED <<active, current>>
      \/ /\ job = None /\ v = lastOk /\ job' = None /\ pending' = None
         /\ current' = latest /\ active' = latest /\ screen' = latest
      \/ /\ job # None /\ job' = job /\ pending' = v /\ screen' = drawn
         /\ UNCHANGED <<active, current>>
    <2>1. CASE job = None
        <3>1. Loop(v, ended, lastOk, drawn)
            BY <1>1, <2>1 DEF EnsureWorker
        <3> QED BY <1>3, <2>1, <3>1, LoopDoes
    <2>2. CASE job # None
        BY <1>1, <2>2 DEF EnsureWorker, Shows
    <2> QED BY <2>1, <2>2
<1>5. job' \in Jobs /\ pending' \in MaybeVolume /\ gesture' \in MaybeVolume /\ started' \in BOOLEAN
    <2>1. CASE job = None
        <3>1. Loop(v, ended, lastOk, drawn)
            BY <1>1, <2>1 DEF EnsureWorker
        <3>2. None \in MaybeVolume
            BY DEF MaybeVolume
        <3> QED BY <1>3, <3>1, <3>2, LoopDoes
    <2>2. CASE job # None
        BY <1>1, <1>3, <2>2 DEF EnsureWorker, Inv, TypeOK
    <2> QED BY <2>1, <2>2
<1>6. TypeOK'
    BY <1>1, <1>3, <1>4, <1>5 DEF Inv, TypeOK, MaybeMedia
<1>7. BoundOK'
    <2>1. Unsent' + Waiting' <= Unsent + Waiting + 1 /\ Unsent' \in {0, 1} /\ Waiting' \in {0, 1}
        BY <1>3, <1>4 DEF Unsent, Waiting
    <2>2. Unsent + Waiting <= sets /\ srv.rev + Unsent + Waiting <= MaxRev + sets
        BY DEF Inv, BoundOK
    <2>3. srv' = srv /\ sets' = sets + 1
        BY <1>1
    <2>4. Unsent' + Waiting' <= sets + 1 /\ srv.rev + Unsent' + Waiting' <= MaxRev + (sets + 1)
        <3>1. PICK a \in {0, 1}, b \in {0, 1}, c \in {0, 1}, d \in {0, 1} :
                a = Unsent /\ b = Waiting /\ c = Unsent' /\ d = Waiting'
            BY <1>3, <2>1
        <3>2. c + d <= a + b + 1 /\ a + b <= sets /\ srv.rev + a + b <= MaxRev + sets
            BY <2>1, <2>2, <3>1
        <3>3. c + d <= sets + 1 /\ srv.rev + c + d <= MaxRev + (sets + 1)
            BY <1>3, <3>2
        <3> QED BY <3>1, <3>3
    <2> QED BY <2>3, <2>4 DEF BoundOK
<1>8. ActorOK'
    BY <1>1, <1>2, <1>3, <1>4 DEF Inv, ActorOK
<1>9. PageOK'
    BY <1>1, <1>2, <1>3, <1>4 DEF Inv, PageOK
<1>10. KnownOK'
    BY <1>1 DEF Inv, KnownOK, IsOfServer
<1>11. ShownOK'
    BY <1>1, <1>2, <1>3, <1>4 DEF Inv, ShownOK, Busy
<1> QED BY <1>6, <1>7, <1>8, <1>9, <1>10, <1>11 DEF Inv


LEMMA UserStep == ASSUME Inv, SubmitVolume \/ FinishGesture PROVE Inv'
<1>1. CanSlide /\ screen \in Media /\ gesture \in MaybeVolume /\ asked \in MaybeVolume
    BY TypeFacts DEF SubmitVolume, FinishGesture, CanSlide
<1>2. CASE SubmitVolume
    BY <1>1, <1>2, SlidStep DEF SubmitVolume
<1>3. CASE FinishGesture
    <2>1. PICK v \in {screen.vol} \cup ({asked} \ {None}) : Slid(v, v)
        BY <1>3 DEF FinishGesture
    <2>2. v \in Volumes /\ v \in MaybeVolume
        BY <1>1, MediaFacts DEF MaybeVolume
    <2> QED BY <1>1, <2>1, <2>2, SlidStep
<1> QED BY <1>2, <1>3

-----------------------------------------------------------------------------
(* The connection's callbacks *)

LEMMA BoundUnchanged == ASSUME BoundOK, UNCHANGED <<srv, job, pending, sets>> PROVE BoundOK'
BY DEF BoundOK, Unsent, Waiting

LEMMA StateArrivesStep == ASSUME Inv, StateArrives PROVE Inv'
<1>1. /\ live /\ posted' = srv
      /\ UNCHANGED <<srv, visible, page, gate, load, initial, live, seen, latest, active, current,
                     screen, job, pending, gesture, lastOk, confirmed, started, refresh, asked, told,
                     sets, stops, refreshes, faults>>
    BY DEF StateArrives, pageVars, shownVars, actorVars, bounds
<1>2. srv \in Media /\ srv.rev \in Nat
    BY TypeFacts
<1>3. TypeOK'
    BY <1>1, <1>2 DEF Inv, TypeOK, MaybeMedia
<1>4. UNCHANGED <<srv, job, pending, sets>>
    BY <1>1
<1>5. BoundOK'
    BY <1>4, BoundUnchanged DEF Inv
<1>6. ActorOK' /\ PageOK' /\ ShownOK'
    BY <1>1 DEF Inv, ActorOK, PageOK, ShownOK, Busy
<1>7. KnownOK'
    BY <1>1, <1>2 DEF Inv, KnownOK, IsOfServer
<1> QED BY <1>3, <1>5, <1>6, <1>7 DEF Inv

LEMMA OnStateStep == ASSUME Inv, OnState PROVE Inv'
<1>1. /\ live /\ posted # None
      /\ latest' = posted /\ confirmed' = posted.vol /\ told' = posted.vol
      /\ seen' = posted.rev /\ posted' = None
      /\ UNCHANGED <<srv, visible, page, gate, load, initial, live, job, pending, gesture, lastOk,
                     started, refresh, asked, sets, stops, refreshes, faults>>
    BY DEF OnState, pageVars, bounds
<1>2. /\ posted \in Media /\ posted.rev \in 1..MaxRev + MaxSets /\ posted.rev # 0 /\ posted.vol \in Volumes
      /\ page = "ready" /\ Base \in Media /\ Base.vol \in Volumes /\ srv.rev \in Nat
      /\ screen \in Media \cup {None, Failed} /\ refreshes \in Nat /\ None \notin Media
    BY <1>1, TypeFacts, MediaFacts DEF MaybeMedia
<1>3. /\ active' \in Media /\ current' \in Media /\ screen' \in Media \cup {None, Failed}
      /\ active'.rev = posted.rev
      /\ ~Busy => active' = posted /\ screen' = posted
    <2>1. CASE Busy
        <3>1. PICK r : r = Merged(posted)
            OBVIOUS
        <3>2. r \in Media /\ r.rev = posted.rev
            BY <1>2, <3>1, MediaFacts DEF Merged
        <3>3. active' = r /\ current' = r
            BY <2>1, <3>1 DEF OnState
        <3>4. screen' \in Media \cup {None, Failed}
            <4>1. screen' = IF screen \in Media THEN [screen EXCEPT !.rev = posted.rev] ELSE screen
                BY <2>1 DEF OnState
            <4> QED BY <1>2, <4>1 DEF Media
        <3> QED BY <2>1, <3>2, <3>3, <3>4
    <2>2. CASE ~Busy
        BY <1>2, <2>2 DEF OnState, Redraw
    <2> QED BY <2>1, <2>2
<1>4. seen' \in 0..MaxRev + MaxSets
    BY <1>1, <1>2, ConstantFacts
<1>5. TypeOK'
    BY <1>1, <1>2, <1>3, <1>4 DEF Inv, TypeOK, MaybeMedia, MaybeVolume
<1>6. UNCHANGED <<srv, job, pending, sets>>
    BY <1>1
<1>7. BoundOK'
    BY <1>6, BoundUnchanged DEF Inv
<1>8. ActorOK' /\ PageOK'
    BY <1>1, <1>2, <1>3 DEF Inv, ActorOK, PageOK
<1>9. KnownOK'
    BY <1>1, <1>2 DEF Inv, KnownOK, IsOfServer
<1>10. ShownOK'
    BY <1>1, <1>2, <1>3 DEF ShownOK, Busy
<1> QED BY <1>5, <1>7, <1>8, <1>9, <1>10 DEF Inv

LEMMA OnArtworkStep == ASSUME Inv, OnArtwork PROVE Inv'
<1>1. /\ live /\ current' = Base /\ active' = Base /\ screen' = Base
      /\ UNCHANGED <<srv, visible, page, gate, load, initial, live, posted, seen, latest, job, pending,
                     gesture, lastOk, confirmed, started, refresh, asked, told, sets, stops,
                     refreshes, faults>>
    BY DEF OnArtwork, Redraw, pageVars, actorVars, bounds
<1>2. page = "ready" /\ Base \in Media /\ None \notin Media /\ refreshes \in Nat
    BY <1>1, TypeFacts, MediaFacts
<1>3. refreshes = 0 => Base = active
    BY <1>2 DEF Inv, ShownOK, Base
<1>4. TypeOK'
    BY <1>1, <1>2 DEF Inv, TypeOK, MaybeMedia
<1>5. UNCHANGED <<srv, job, pending, sets>>
    BY <1>1
<1>6. BoundOK'
    BY <1>5, BoundUnchanged DEF Inv
<1>7. ActorOK' /\ PageOK'
    BY <1>1, <1>2 DEF Inv, ActorOK, PageOK
<1>8. KnownOK'
    BY <1>1 DEF Inv, KnownOK, IsOfServer
<1>9. ShownOK'
    BY <1>1, <1>2, <1>3 DEF Inv, ShownOK, Busy
<1> QED BY <1>4, <1>6, <1>7, <1>8, <1>9 DEF Inv


-----------------------------------------------------------------------------
(* The page *)

LEMMA ReadsFacts ==
    ASSUME Inv, NEW answer, Reads(answer)
    PROVE  answer \in Loads /\ answer # Sent /\ faults' \in 0..MaxFaults
           /\ answer # None /\ (answer \in Media => answer = srv)
<1>1. srv \in Media /\ srv # Sent /\ srv # None /\ Failed \notin Media /\ Failed # Sent /\ Failed # None
    BY TypeFacts, MediaFacts, ConstantFacts
<1>2. faults \in 0..MaxFaults /\ MaxFaults \in Nat
    BY ConstantFacts DEF Inv, TypeOK
<1> QED BY <1>1, <1>2 DEF Reads, Loads

LEMMA OpenControlStep == ASSUME Inv, OpenControl PROVE Inv'
<1>1. /\ page = "none" /\ page' = "loading" /\ gate' = TRUE /\ load' = Sent
      /\ UNCHANGED <<srv, visible, initial, live, posted, seen, latest, active, current, screen, job,
                     pending, gesture, lastOk, confirmed, started, refresh, asked, told, sets, stops,
                     refreshes, faults>>
    BY DEF OpenControl, shownVars, actorVars, bounds
<1>2. ~live /\ refresh = None /\ Sent \notin Media
    BY <1>1, TypeFacts, MediaFacts DEF Inv, PageOK
<1>3. gate' \in BOOLEAN /\ load' \in Loads
    BY <1>1 DEF Loads
<1>4. TypeOK'
    BY <1>1, <1>2, <1>3 DEF Inv, TypeOK
<1>5. UNCHANGED <<srv, job, pending, sets>>
    BY <1>1
<1>6. BoundOK'
    BY <1>5, BoundUnchanged DEF Inv
<1>7. ActorOK' /\ PageOK'
    BY <1>1, <1>2 DEF Inv, ActorOK, PageOK
<1>8. KnownOK'
    BY <1>1, <1>2 DEF Inv, KnownOK, IsOfServer
<1>9. ShownOK'
    BY <1>1, <1>2 DEF Inv, ShownOK, Busy
<1> QED BY <1>4, <1>6, <1>7, <1>8, <1>9 DEF Inv

LEMMA LoadAnsweredStep == ASSUME Inv, LoadAnswered PROVE Inv'
<1>1. /\ load = Sent /\ Reads(load')
      /\ UNCHANGED <<srv, visible, page, gate, initial, live, posted, seen, latest, active, current,
                     screen, job, pending, gesture, lastOk, confirmed, started, refresh, asked, told,
                     sets, stops, refreshes>>
    BY DEF LoadAnswered, shownVars, actorVars
<1>2. PICK answer : answer = load'
    OBVIOUS
<1>3. /\ answer \in Loads /\ faults' \in 0..MaxFaults /\ answer # None
      /\ answer \in Media => answer = srv
    BY <1>1, <1>2, ReadsFacts
<1>4. page = "loading" /\ srv.rev \in Nat
    BY <1>1, ConstantFacts, TypeFacts DEF Inv, PageOK
<1>5. TypeOK'
    BY <1>1, <1>2, <1>3 DEF Inv, TypeOK
<1>6. UNCHANGED <<srv, job, pending, sets>>
    BY <1>1
<1>7. BoundOK'
    BY <1>6, BoundUnchanged DEF Inv
<1>8. ActorOK' /\ PageOK'
    BY <1>1, <1>4 DEF Inv, ActorOK, PageOK
<1>9. KnownOK'
    <2>1. load' \in Media => load'.rev <= srv.rev /\ (load'.rev = srv.rev => load' = srv)
        BY <1>2, <1>3, <1>4
    <2> QED BY <1>1, <2>1 DEF Inv, KnownOK, IsOfServer
<1>10. ShownOK'
    BY <1>1 DEF Inv, ShownOK, Busy
<1> QED BY <1>5, <1>7, <1>8, <1>9, <1>10 DEF Inv

LEMMA LoadedStep == ASSUME Inv, Loaded PROVE Inv'
<1>1. /\ load # None /\ load' = None
      /\ page' = IF ~gate THEN "blank" ELSE IF load \in Media THEN "ready" ELSE "error"
      /\ UNCHANGED <<srv, visible, gate, posted, seen, job, pending, gesture, lastOk, confirmed,
                     started, refresh, asked, sets, stops, refreshes, faults>>
    BY DEF Loaded, actorVars, bounds
<1>2. page = "loading" /\ ~live /\ refresh = None /\ posted = None /\ seen = 0 /\ job = None /\ asked = None
    BY <1>1, TypeFacts DEF Inv, PageOK, ActorOK
<1>3. None \notin Media /\ visible \in BOOLEAN
    BY MediaFacts DEF Inv, TypeOK
<1>4. UNCHANGED <<srv, job, pending, sets>>
    BY <1>1
<1>5. BoundOK'
    BY <1>4, BoundUnchanged DEF Inv
<1>6. CASE gate /\ load \in Media
    <2>1. /\ initial' = load /\ latest' = load /\ told' = load.vol /\ live' = visible
          /\ current' = load /\ active' = load /\ screen' = load /\ page' = "ready"
        BY <1>1, <1>6 DEF Loaded, Redraw
    <2>2. load.vol \in Volumes
        BY <1>6, MediaFacts
    <2>3. live' \in BOOLEAN /\ (live' => visible')
        BY <1>1, <1>3, <2>1
    <2>4. TypeOK'
        BY <1>1, <1>6, <2>1, <2>2, <2>3 DEF Inv, TypeOK, MaybeMedia, MaybeVolume, Loads
    <2>5. ActorOK' /\ PageOK' /\ ShownOK'
        BY <1>1, <1>2, <1>6, <2>1 DEF Inv, ActorOK, PageOK, ShownOK
    <2>6. KnownOK'
        BY <1>1, <1>3, <2>1 DEF Inv, KnownOK, IsOfServer
    <2> QED BY <1>5, <2>4, <2>5, <2>6 DEF Inv
<1>7. CASE ~(gate /\ load \in Media)
    <2>1. UNCHANGED <<initial, latest, told, live, active, current, screen>>
        BY <1>7 DEF Loaded, shownVars
    <2>2. page' \in {"blank", "error"}
        BY <1>1, <1>7
    <2>3. TypeOK'
        BY <1>1, <1>2, <2>1, <2>2 DEF Inv, TypeOK, Loads
    <2>4. ActorOK' /\ PageOK' /\ ShownOK'
        BY <1>1, <1>2, <2>1, <2>2 DEF Inv, ActorOK, PageOK, ShownOK
    <2>5. KnownOK'
        BY <1>1, <1>3, <2>1 DEF Inv, KnownOK, IsOfServer
    <2> QED BY <1>5, <2>3, <2>4, <2>5 DEF Inv
<1> QED BY <1>6, <1>7

\* The block ends: a command under way may still be served.
LEMMA BlockEnds ==
    ASSUME Inv, LeftInFlight, NoActor, UNCHANGED sets
    PROVE  /\ srv' \in Media /\ (srv' = srv \/ srv'.rev = srv.rev + 1)
           /\ BoundOK'
<1>1. /\ job' = None /\ pending' = None /\ srv \in Media /\ srv.rev \in Nat
      /\ sets \in Nat /\ MaxRev \in Nat /\ Unsent \in {0, 1} /\ Waiting \in {0, 1}
    BY TypeFacts, ConstantFacts DEF NoActor
<1>2. Unsent' = 0 /\ Waiting' = 0
    BY <1>1 DEF Unsent, Waiting
<1>3. srv.rev + Unsent + Waiting <= MaxRev + sets
    BY DEF Inv, BoundOK
<1>4. CASE UNCHANGED srv
    <2>1. srv.rev + 0 + 0 <= MaxRev + sets
        BY <1>1, <1>3
    <2> QED BY <1>1, <1>2, <1>4, <2>1 DEF BoundOK
<1>5. CASE job # None /\ job.at = "sending" /\ Served(job.value)
    <2>1. /\ srv' \in Media /\ (srv' = srv \/ srv'.rev = srv.rev + 1)
          /\ srv'.rev + Waiting <= MaxRev + sets
        BY <1>5, ServedMoves
    <2>2. srv'.rev \in Nat
        BY <2>1, MediaFacts
    <2>3. srv'.rev + 0 + 0 <= MaxRev + sets
        BY <1>1, <2>1, <2>2
    <2> QED BY <1>1, <1>2, <2>1, <2>3 DEF BoundOK
<1> QED BY <1>4, <1>5 DEF LeftInFlight

LEMMA StopStep == ASSUME Inv, Stop PROVE Inv'
<1>1. /\ stops < MaxStops /\ stops' = stops + 1 /\ visible' = FALSE /\ gate' = FALSE /\ live' = FALSE
      /\ posted' = None /\ seen' = 0 /\ job' = None /\ pending' = None /\ gesture' = None
      /\ lastOk' = None /\ confirmed' = 0 /\ started' = FALSE /\ asked' = None
      /\ NoActor /\ LeftInFlight
      /\ UNCHANGED <<page, load, initial, latest, active, current, screen, refresh, told, sets,
                     refreshes, faults>>
    BY DEF Stop, NoConnection, NoActor, shownVars
<1>2. srv' \in Media /\ (srv' = srv \/ srv'.rev = srv.rev + 1) /\ BoundOK'
    BY <1>1, BlockEnds
<1>3. visible' \in BOOLEAN /\ gate' \in BOOLEAN /\ live' \in BOOLEAN /\ started' \in BOOLEAN /\ ~live'
    BY <1>1
<1>4. stops' \in 0..MaxStops /\ seen' \in 0..MaxRev + MaxSets /\ confirmed' \in Volumes
    BY <1>1, ConstantFacts DEF Inv, TypeOK
<1>5. TypeOK'
    BY <1>1, <1>2, <1>3, <1>4 DEF Inv, TypeOK, MaybeMedia, MaybeVolume, Jobs
<1>6. ActorOK' /\ PageOK' /\ ShownOK'
    BY <1>1 DEF Inv, ActorOK, PageOK, ShownOK
<1>7. KnownOK'
    <2>1. None \notin Media
        BY MediaFacts
    <2> QED BY <1>1, <1>2, <2>1, StillKnown DEF Inv, KnownOK, IsOfServer
<1> QED BY <1>2, <1>5, <1>6, <1>7 DEF Inv

LEMMA StartStep == ASSUME Inv, Start PROVE Inv'
<1>1. /\ ~visible /\ visible' = TRUE /\ live' = (page = "ready")
      /\ latest' = IF page = "ready" THEN initial ELSE latest
      /\ UNCHANGED <<srv, page, gate, load, initial, posted, seen, active, current, screen, job,
                     pending, gesture, lastOk, confirmed, started, refresh, asked, told, sets, stops,
                     refreshes, faults>>
    BY DEF Start, Runs, shownVars, actorVars, bounds
<1>2. /\ ~live /\ posted = None /\ seen = 0 /\ job = None /\ asked = None /\ None \notin Media
      /\ page = "ready" => initial \in Media
    BY <1>1, TypeFacts, MediaFacts DEF Inv, PageOK, ActorOK
<1>3. visible' \in BOOLEAN /\ live' \in BOOLEAN /\ (live' => visible' /\ page' = "ready")
    BY <1>1
<1>4. TypeOK'
    BY <1>1, <1>2, <1>3 DEF Inv, TypeOK
<1>5. UNCHANGED <<srv, job, pending, sets>>
    BY <1>1
<1>6. BoundOK'
    BY <1>5, BoundUnchanged DEF Inv
<1>7. ActorOK' /\ PageOK' /\ ShownOK'
    BY <1>1, <1>2 DEF Inv, ActorOK, PageOK, ShownOK
<1>8. KnownOK'
    BY <1>1 DEF Inv, KnownOK, IsOfServer
<1> QED BY <1>4, <1>6, <1>7, <1>8 DEF Inv

LEMMA BackStep == ASSUME Inv, Back PROVE Inv'
<1>1. /\ page \in {"ready", "error"}
      /\ page' = "none" /\ gate' = FALSE /\ load' = None /\ initial' = None
      /\ live' = FALSE /\ latest' = None /\ refresh' = None /\ told' = None
      /\ posted' = None /\ seen' = 0 /\ job' = None /\ pending' = None /\ gesture' = None
      /\ lastOk' = None /\ confirmed' = 0 /\ started' = FALSE /\ asked' = None
      /\ NoActor /\ LeftInFlight
      /\ active' = None /\ current' = None /\ screen' = None
      /\ UNCHANGED <<visible, sets, stops, refreshes, faults>>
    BY DEF Back, NoConnection, NoActor, bounds
<1>2. srv' \in Media /\ BoundOK'
    BY <1>1, BlockEnds
<1>3. gate' \in BOOLEAN /\ live' \in BOOLEAN /\ started' \in BOOLEAN /\ ~live'
    BY <1>1
<1>4. seen' \in 0..MaxRev + MaxSets /\ confirmed' \in Volumes
    BY <1>1, ConstantFacts
<1>5. TypeOK'
    BY <1>1, <1>2, <1>3, <1>4 DEF Inv, TypeOK, MaybeMedia, MaybeVolume, Jobs, Loads
<1>6. ActorOK' /\ PageOK' /\ ShownOK'
    BY <1>1 DEF ActorOK, PageOK, ShownOK
<1>7. KnownOK'
    <2>1. None \notin Media
        BY MediaFacts
    <2> QED BY <1>1, <2>1 DEF KnownOK, IsOfServer
<1> QED BY <1>2, <1>5, <1>6, <1>7 DEF Inv


LEMMA RenameStep == ASSUME Inv, Rename PROVE Inv'
<1>1. /\ live /\ refreshes < MaxRefreshes /\ refresh' = Sent /\ refreshes' = refreshes + 1
      /\ UNCHANGED <<srv, visible, page, gate, load, initial, live, posted, seen, latest, active,
                     current, screen, job, pending, gesture, lastOk, confirmed, started, asked, told,
                     sets, stops, faults>>
    BY DEF Rename, pageVars, shownVars, actorVars
<1>2. page = "ready" /\ refreshes \in Nat /\ refreshes' # 0 /\ refreshes' > 0
      /\ refreshes' \in 0..MaxRefreshes
    BY <1>1, TypeFacts, ConstantFacts DEF Inv, TypeOK
<1>3. TypeOK'
    BY <1>1, <1>2 DEF Inv, TypeOK, Loads
<1>4. UNCHANGED <<srv, job, pending, sets>>
    BY <1>1
<1>5. BoundOK'
    BY <1>4, BoundUnchanged DEF Inv
<1>6. ActorOK' /\ PageOK' /\ KnownOK'
    BY <1>1, <1>2 DEF Inv, ActorOK, PageOK, KnownOK, IsOfServer
<1>7. ShownOK'
    BY <1>1, <1>2 DEF Inv, ShownOK
<1> QED BY <1>3, <1>5, <1>6, <1>7 DEF Inv

LEMMA RefreshAnsweredStep == ASSUME Inv, RefreshAnswered PROVE Inv'
<1>1. /\ refresh = Sent /\ Reads(refresh')
      /\ UNCHANGED <<srv, visible, page, gate, load, initial, live, posted, seen, latest, active,
                     current, screen, job, pending, gesture, lastOk, confirmed, started, asked, told,
                     sets, stops, refreshes>>
    BY DEF RefreshAnswered, pageVars, shownVars, actorVars
<1>2. PICK answer : answer = refresh'
    OBVIOUS
<1>3. answer \in Loads /\ faults' \in 0..MaxFaults
    BY <1>1, <1>2, ReadsFacts
<1>4. page = "ready" /\ refreshes > 0
    BY <1>1, ConstantFacts DEF Inv, PageOK
<1>5. TypeOK'
    BY <1>1, <1>2, <1>3 DEF Inv, TypeOK
<1>6. UNCHANGED <<srv, job, pending, sets>>
    BY <1>1
<1>7. BoundOK'
    BY <1>6, BoundUnchanged DEF Inv
<1>8. ActorOK' /\ PageOK' /\ KnownOK' /\ ShownOK'
    BY <1>1, <1>4 DEF Inv, ActorOK, PageOK, KnownOK, IsOfServer, ShownOK, Busy
<1> QED BY <1>5, <1>7, <1>8 DEF Inv

LEMMA RefreshedStep == ASSUME Inv, Refreshed PROVE Inv'
<1>1. /\ refresh # None /\ refresh # Sent /\ refresh' = None
      /\ active' = IF refresh \in Media THEN refresh ELSE None
      /\ screen' = refresh
      /\ told' = IF refresh \in Media THEN refresh.vol ELSE told
      /\ UNCHANGED <<srv, visible, page, gate, load, initial, live, posted, seen, latest, current, job,
                     pending, gesture, lastOk, confirmed, started, asked, sets, stops, refreshes,
                     faults>>
    BY DEF Refreshed, pageVars, actorVars, bounds
<1>2. page = "ready" /\ refreshes \in Nat /\ refreshes # 0
    BY <1>1, TypeFacts DEF Inv, PageOK
<1>3. /\ active' \in MaybeMedia /\ screen' \in Media \cup {None, Failed} /\ told' \in MaybeVolume
      /\ refresh' \in Loads
    BY <1>1, MediaFacts DEF Inv, TypeOK, Loads, MaybeMedia, MaybeVolume
<1>4. TypeOK'
    BY <1>1, <1>3 DEF Inv, TypeOK
<1>5. UNCHANGED <<srv, job, pending, sets>>
    BY <1>1
<1>6. BoundOK'
    BY <1>5, BoundUnchanged DEF Inv
<1>7. ActorOK' /\ PageOK' /\ KnownOK'
    BY <1>1, <1>2 DEF Inv, ActorOK, PageOK, KnownOK, IsOfServer
<1>8. ShownOK'
    BY <1>1, <1>2 DEF Inv, ShownOK
<1> QED BY <1>4, <1>6, <1>7, <1>8 DEF Inv

-----------------------------------------------------------------------------
(* The page as a whole *)

LEMMA PageStep == Inv /\ [Next]_vars => Inv'
<1> SUFFICES ASSUME Inv, [Next]_vars PROVE Inv'
    OBVIOUS
<1>1. CASE Worker
    BY <1>1, WaitOverStep, CommandHandledStep, CommandSucceedsStep, CommandFailsStep DEF Worker
<1>2. CASE Feed
    BY <1>2, StateArrivesStep, OnStateStep DEF Feed
<1>3. CASE OnArtwork
    BY <1>3, OnArtworkStep
<1>4. CASE Loading
    BY <1>4, LoadAnsweredStep, LoadedStep DEF Loading
<1>5. CASE Refreshing
    BY <1>5, RefreshAnsweredStep, RefreshedStep DEF Refreshing
<1>6. CASE User
    BY <1>6, OpenControlStep, UserStep, RenameStep, BackStep DEF User
<1>7. CASE Stop
    BY <1>7, StopStep
<1>8. CASE Start
    BY <1>8, StartStep
<1>9. CASE PcChange
    BY <1>9, PcChangeStep
<1>10. CASE UNCHANGED vars
    <2>1. UNCHANGED <<srv, visible, page, gate, load, initial, live, posted, seen, latest, active,
                      current, screen, job, pending, gesture, lastOk, confirmed, started, refresh,
                      asked, told, sets, stops, refreshes, faults>>
        BY <1>10 DEF vars, pageVars, shownVars, actorVars, bounds
    <2>2. TypeOK'
        BY <2>1 DEF Inv, TypeOK
    <2>3. UNCHANGED <<srv, job, pending, sets>>
        BY <2>1
    <2>4. BoundOK'
        BY <2>3, BoundUnchanged DEF Inv
    <2>5. ActorOK' /\ PageOK' /\ KnownOK' /\ ShownOK'
        BY <2>1 DEF Inv, ActorOK, PageOK, KnownOK, IsOfServer, ShownOK, Busy
    <2> QED BY <2>2, <2>4, <2>5 DEF Inv
<1> QED BY <1>1, <1>2, <1>3, <1>4, <1>5, <1>6, <1>7, <1>8, <1>9, <1>10 DEF Next

LEMMA Safe == Spec => []Inv
BY PageInit, PageStep, PTL DEF Spec

\* The page's state is well typed, and only a rendered, visible page has a
\* connection and a worker (MainActivity.renderControl, repeatOnLifecycle).
THEOREM PageTypes == Spec => []TypeOK
<1>1. Inv => TypeOK
    BY DEF Inv
<1> QED BY <1>1, Safe, PTL

\* An idle MediaVolumeActor has set the last value the user gave, however many
\* values it overwrote, skipped or made wait, unless a command failed since.
THEOREM LastGestureIsSet == Spec => []LastGestureWins
<1>1. Inv => LastGestureWins
    BY DEF Inv, ActorOK, LastGestureWins
<1> QED BY <1>1, Safe, PTL

\* With the slider let alone and the newest state handed over, a page that no
\* rename reloaded shows that state, revision and volume.
THEOREM ShowsServer == Spec => []ShownIsServer
<1>1. Inv => ShownIsServer
    <2> SUFFICES ASSUME Inv, refreshes = 0, AtRest PROVE screen = srv
        BY DEF ShownIsServer, ShownIsServerAlways
    <2>1. live /\ ~Busy /\ seen = srv.rev /\ srv \in Media /\ srv.rev # 0
        BY TypeFacts, MediaFacts DEF AtRest
    <2>2. screen = latest /\ latest.rev = srv.rev
        BY <2>1 DEF Inv, ShownOK
    <2>3. latest \in Media
        BY <2>1, TypeFacts
    <2> QED BY <2>1, <2>2, <2>3 DEF Inv, KnownOK, IsOfServer
<1> QED BY <1>1, Safe, PTL
=============================================================================
