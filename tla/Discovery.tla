------------------------------ MODULE Discovery ------------------------------
(***************************************************************************)
(* The discovery of Servers on the phone's pairing page:                   *)
(* network/NsdDiscoveryClient.kt, and refreshPairingPage and onStop of     *)
(* MainActivity.                                                           *)
(*                                                                         *)
(* Four parties step independently: the main thread, which starts a scan   *)
(* and handles the events posted to it in their order; the callbacks of    *)
(* NsdManager; the coroutine of the deadline; the coroutines that ask a    *)
(* resolved address for its identity.  Each takes the lock of the client,  *)
(* but Finished and Unavailable are posted after it was released.          *)
(* Resolves and identity requests are not cancelled: their answers carry   *)
(* the generation of the scan they belong to.                              *)
(***************************************************************************)
EXTENDS Naturals, Sequences, FiniteSets, SequencesExt

CONSTANTS Servers,     \* Servers of the network
          MaxScans,    \* bound: scans started
          MaxStops,    \* bound: times the activity is stopped
          MaxFaults,   \* bound: failing calls and callbacks
          MaxFound     \* bound: announcements heard, over all scans

ASSUME DiscoveryConstants == {MaxScans, MaxStops, MaxFaults, MaxFound} \subseteq Nat

Generations == 0..MaxScans + MaxStops
Asked == [gen: Generations, server: Servers]
Kinds == {"Updated", "Finished", "Unavailable"}
Events == [kind: Kinds, servers: SUBSET Servers]

VARIABLES
    gen,        \* generation
    listenerOf, \* the generation of the last DiscoveryListener
    scanning,   \* it is registered and the deadline is running
    callback,   \* the callback is set
    queue,      \* resolveQueue
    resolving,
    resolves,   \* resolveService calls that NsdManager has not answered
    checks,     \* identity requests under way
    found,
    ending,     \* events taken under the lock and not yet posted
    posted,     \* runOnUiThread: the main thread's queue
    list, status, button,  \* what the page shows
    visible, scans, stops, faults, heard

resolveVars == <<queue, resolving, resolves>>
uiVars == <<list, status, button>>
bounds == <<visible, scans, stops, faults, heard>>
vars == <<gen, listenerOf, scanning, callback, resolveVars, checks, found, ending,
          posted, uiVars, bounds>>

Init ==
    /\ gen = 0 /\ listenerOf = 0 /\ scanning = FALSE /\ callback = FALSE
    /\ queue = <<>> /\ resolving = FALSE /\ resolves = {} /\ checks = {}
    /\ found = {} /\ ending = {} /\ posted = <<>>
    /\ list = {} /\ status = "idle" /\ button = TRUE
    /\ visible = TRUE /\ scans = 0 /\ stops = 0 /\ faults = 0 /\ heard = 0

Fault == faults < MaxFaults /\ faults' = faults + 1

-----------------------------------------------------------------------------
(* Scans *)

\* Candidates of an ended scan would wait for a resolve that the gate drops.
StopLockedKeepsQueue == scanning' = FALSE /\ resolving' = FALSE /\ UNCHANGED queue

\* stopLocked; the callback is kept unless the page is left.
StopLocked == scanning' = FALSE /\ queue' = <<>> /\ resolving' = FALSE

\* refreshPairingPage: the button starts a scan, or the activity's creation does.
\* When NsdManager throws, the page is told at once.
Scan ==
    /\ visible /\ scans < MaxScans /\ scans' = scans + 1
    /\ button \/ scans = 1
    /\ gen' = gen + 1 /\ callback' = TRUE /\ found' = {}
    /\ \/ /\ scanning' = TRUE /\ queue' = <<>> /\ resolving' = FALSE
          /\ listenerOf' = gen + 1
          /\ status' = "scanning" /\ button' = FALSE /\ UNCHANGED <<list, faults>>
       \/ /\ Fault /\ StopLocked
          /\ status' = "unavailable" /\ button' = TRUE /\ list' = {}
          /\ UNCHANGED listenerOf
    /\ UNCHANGED <<resolves, checks, ending, posted, visible, stops, heard>>

\* finish and unavailable: what to say is taken under the lock, said after it.
End(kind) ==
    /\ listenerOf = gen
    /\ StopLocked
    /\ ending' = IF callback
                 THEN ending \cup {[kind |-> kind, servers |->
                                    IF kind = "Finished" THEN found ELSE {}]}
                 ELSE ending
    /\ UNCHANGED <<gen, listenerOf, callback, resolves, checks, found, posted, uiVars,
                   visible, scans, stops, heard>>

DeadlinePasses == scanning /\ End("Finished") /\ UNCHANGED faults

\* onStartDiscoveryFailed, and onStopDiscoveryFailed of a scan that has ended.
StartFails == scanning /\ Fault /\ End("Unavailable")
StopFails == ~scanning /\ gen > 0 /\ Fault /\ End("Finished")

\* An Updated may be posted before it.
Say ==
    /\ \E e \in ending: ending' = ending \ {e} /\ posted' = Append(posted, e)
    /\ UNCHANGED <<gen, listenerOf, scanning, callback, resolveVars, checks, found,
                   uiVars, bounds>>

-----------------------------------------------------------------------------
(* Resolving, one at a time *)

Resolve(q, open) ==
    /\ queue' = Tail(q) /\ resolving' = TRUE
    /\ resolves' = open \cup {[gen |-> gen, server |-> Head(q)]}

\* Without the flag every candidate is resolved at once.
ResolveNextAlways(q, idle, open) ==
    IF q = <<>> THEN queue' = q /\ resolving' = ~idle /\ resolves' = open
    ELSE Resolve(q, open)

\* resolveNext: the oldest candidate; those for which NsdManager throws are dropped.
ResolveNext(q, idle, open) ==
    IF ~idle THEN queue' = q /\ resolving' = TRUE /\ resolves' = open
    ELSE \/ q # <<>> /\ \E thrown \in 0..Len(q) - 1:
               Resolve(SubSeq(q, thrown + 1, Len(q)), open)
         \/ queue' = <<>> /\ resolving' = FALSE /\ resolves' = open

\* A candidate waits once.
Enqueued(s) == IF Contains(queue, s) THEN queue ELSE Append(queue, s)

\* onServiceFound; also when the scan of this generation has ended.
ServiceFound ==
    /\ gen > 0 /\ listenerOf = gen /\ heard < MaxFound /\ heard' = heard + 1
    /\ \E s \in Servers:
          ResolveNext(Enqueued(s), ~resolving, resolves)
    /\ UNCHANGED <<gen, listenerOf, scanning, callback, checks, found, ending, posted,
                   uiVars, visible, scans, stops, faults>>

\* The generation gate of resolved.
Gated(r) == r.gen = gen

\* onServiceResolved and onResolveFailed.  NsdManager refuses a resolve while one
\* of an earlier scan is open.
ResolveAnswered ==
    \E r \in resolves:
        /\ IF ~Gated(r)
           THEN /\ resolves' = resolves \ {r}
                /\ UNCHANGED <<queue, resolving, checks, faults>>
           ELSE /\ \/ checks' = checks \cup {r} /\ UNCHANGED faults
                   \/ /\ \/ resolves # {r} /\ UNCHANGED faults
                         \/ Fault
                      /\ UNCHANGED checks
                /\ ResolveNext(queue, TRUE, resolves \ {r})
        /\ UNCHANGED <<gen, listenerOf, scanning, callback, found, ending, posted,
                       uiVars, visible, scans, stops, heard>>

\* The identity answers: the Server is confirmed, or it failed or is incompatible.
Confirmed(c) == IF Gated(c) THEN {c.server} ELSE {}

IdentityAnswered ==
    \E c \in checks:
        /\ checks' = checks \ {c}
        /\ \/ /\ found' = found \cup Confirmed(c) /\ UNCHANGED faults
              /\ posted' = IF Gated(c) /\ callback
                           THEN Append(posted, [kind |-> "Updated", servers |-> found'])
                           ELSE posted
           \/ Fault /\ UNCHANGED <<found, posted>>
        /\ UNCHANGED <<gen, listenerOf, scanning, callback, resolveVars, ending, uiVars,
                       visible, scans, stops, heard>>

-----------------------------------------------------------------------------
(* The page *)

\* Both ends of a scan bring the button back.
FinishedOnly(e) == e.kind = "Finished"
Ends(e) == e.kind # "Updated"

Handle ==
    /\ posted # <<>> /\ posted' = Tail(posted)
    /\ LET e == Head(posted) IN
          /\ list' = e.servers
          /\ IF Ends(e)
             THEN /\ status' = IF e.kind = "Finished" THEN "finished" ELSE "unavailable"
                  /\ button' = TRUE
             ELSE UNCHANGED <<status, button>>
    /\ UNCHANGED <<gen, listenerOf, scanning, callback, resolveVars, checks, found,
                   ending, bounds>>

\* onStop: the client is stopped and its callback cleared; onStart does nothing.
Stop ==
    /\ visible /\ stops < MaxStops /\ stops' = stops + 1
    /\ visible' = FALSE
    /\ gen' = gen + 1 /\ StopLocked /\ callback' = FALSE
    /\ UNCHANGED <<listenerOf, resolves, checks, found, ending, posted, uiVars, scans,
                   faults, heard>>

Start == /\ ~visible /\ visible' = TRUE
         /\ UNCHANGED <<gen, listenerOf, scanning, callback, resolveVars, checks, found,
                        ending, posted, uiVars, scans, stops, faults, heard>>

Next == Scan \/ DeadlinePasses \/ StartFails \/ StopFails \/ Say
        \/ ServiceFound \/ ResolveAnswered \/ IdentityAnswered
        \/ Handle \/ Stop \/ Start

Spec == Init /\ [][Next]_vars

\* The deadline passes, NsdManager and the network answer, posted blocks run.
FairSpec == Spec /\ WF_vars(DeadlinePasses) /\ WF_vars(Say)
                 /\ WF_vars(ResolveAnswered) /\ WF_vars(IdentityAnswered)
                 /\ WF_vars(Handle) /\ WF_vars(Start)

-----------------------------------------------------------------------------
(* Properties *)

\* Types, and no candidate waits twice.
TypeOK ==
    /\ {gen, listenerOf} \subseteq Generations
    /\ {scanning, callback, resolving, button, visible} \subseteq BOOLEAN
    /\ queue \in Seq(Servers) /\ IsInjective(queue)
    /\ resolves \subseteq Asked /\ checks \subseteq Asked
    /\ found \subseteq Servers /\ ending \subseteq Events /\ posted \in Seq(Events)
    /\ list \subseteq Servers /\ status \in {"idle", "scanning", "finished", "unavailable"}
    /\ scans \in 0..MaxScans /\ stops \in 0..MaxStops /\ faults \in 0..MaxFaults
    /\ heard \in 0..MaxFound

\* The chain of resolves never breaks: while candidates wait, a resolve of this
\* scan is open whose answer takes the next one, whatever an earlier scan, its
\* end or a failure did to the flag.
QueueIsServed ==
    queue # <<>> => resolving /\ \E r \in resolves: Gated(r)

\* During a scan at most one of its resolves is open, as NsdManager demands.
OneResolve == scanning => Cardinality({r \in resolves: Gated(r)}) <= 1

\* A scan tells the page its end, and the page lets the user scan again ...
ScanEndsAlways == status = "scanning" ~> button

\* ... as long as the activity is not stopped.
ScanEnds == status = "scanning" ~> button \/ stops > 0

\* At rest after a scan, the page shows every Server the scan has confirmed.
AtRest == status = "finished" /\ ending = {} /\ posted = <<>> /\ listenerOf = gen
          /\ ~scanning
ShowsFound == AtRest => list = found
=============================================================================
