---------------------------- MODULE LocalConsole ----------------------------
(***************************************************************************)
(* The management page of the PC: LocalEventHub of agent/api.py, the page  *)
(* in web/static/app.js that reads the pairings and the devices again when *)
(* it is told that they changed, and the end of the Server under it.       *)
(*                                                                         *)
(* The hub runs on the event loop; publish posts _accept to it.  A stream  *)
(* has a queue of one set of domains.  The page has one EventSource, which *)
(* the browser connects again, and any number of fetches under way, whose  *)
(* answers it draws in the order in which they come; fetches[d] is in the  *)
(* order in which they were sent.  Of what was read or is shown it matters *)
(* only whether it is still the Server's list.                             *)
(***************************************************************************)
EXTENDS Naturals, Sequences, FiniteSets, SequencesExt

CONSTANTS Domains,       \* "pairings" and "devices"
          MaxChanges,    \* bound: changes of the lists
          MaxEvents,     \* bound: lost connections, fetches of a timer or after the
                         \* page's own action, and an exit, together
          MaxOvertakes   \* bound: answers that overtake an earlier one

ASSUME ConsoleConstants == {MaxChanges, MaxEvents, MaxOvertakes} \subseteq Nat

Contents == {"unread", "newest", "old"}

VARIABLES
    server,    \* "up", "exiting" (should_exit was set) or "down"
    calls,     \* _accept calls posted to the event loop
    stream,    \* the page's stream is subscribed
    slot,      \* the content of its queue
    wire,      \* its frames on the way to the page; "open" fetches every list
    fetches,   \* what each fetch under way has read
    shown,     \* what the page shows
    changes, events, overtakes

consoleBounds == <<changes, events, overtakes>>
consoleVars == <<server, calls, stream, slot, wire, fetches, shown, consoleBounds>>

\* The page is opened: it connects and fetches both lists at once.
ConsoleInit ==
    /\ server = "up"
    /\ shown = [d \in Domains |-> "unread"]
    /\ calls = <<>> /\ stream = FALSE /\ slot = {} /\ wire = <<>>
    /\ fetches = [d \in Domains |-> <<"unread">>]
    /\ changes = 0 /\ events = 0 /\ overtakes = 0

-----------------------------------------------------------------------------
(* The Server *)

\* A handler changes one list or both and publishes their names.
Outdated(c) == IF c = "newest" THEN "old" ELSE c

Publish ==
    /\ server = "up" /\ changes < MaxChanges /\ changes' = changes + 1
    /\ \E D \in SUBSET Domains \ {{}}:
          /\ shown' = [d \in Domains |-> IF d \in D THEN Outdated(shown[d]) ELSE shown[d]]
          /\ fetches' = [d \in Domains |->
                 IF d \in D THEN [n \in DOMAIN fetches[d] |-> Outdated(fetches[d][n])]
                 ELSE fetches[d]]
          /\ calls' = Append(calls, D)
    /\ UNCHANGED <<server, stream, slot, wire, events, overtakes>>

\* Were the older names not kept, the list they name would not be read again.
Replaced(D) == D
Kept(D) == slot \cup D

\* The queue of a stream is discarded with it.
Registered == stream

Accept ==
    /\ calls # <<>> /\ calls' = Tail(calls)
    /\ slot' = IF Registered THEN Kept(Head(calls)) ELSE slot
    /\ UNCHANGED <<server, stream, wire, fetches, shown, consoleBounds>>

Emit ==
    /\ stream /\ slot # {}
    /\ wire' = Append(wire, slot) /\ slot' = {}
    /\ UNCHANGED <<server, calls, stream, fetches, shown, consoleBounds>>

\* A fetch is answered with the list as it is.
ListRead ==
    /\ server # "down"
    /\ \E d \in Domains: \E n \in DOMAIN fetches[d]:
          /\ fetches[d][n] = "unread"
          /\ fetches' = [fetches EXCEPT ![d][n] = "newest"]
    /\ UNCHANGED <<server, calls, stream, slot, wire, shown, consoleBounds>>

\* SystemTray calls _on_tray_exit: the Server accepts no connection any more.
TrayExit ==
    /\ server = "up" /\ events < MaxEvents /\ events' = events + 1
    /\ server' = "exiting"
    /\ UNCHANGED <<calls, stream, slot, wire, fetches, shown, changes, overtakes>>

\* uvicorn ends the lifespan, which closes the hubs, when no response is open.
Shutdown ==
    /\ server = "exiting" /\ ~stream
    /\ \A d \in Domains: \A n \in DOMAIN fetches[d]: fetches[d][n] # "unread"
    /\ server' = "down" /\ calls' = <<>>
    /\ UNCHANGED <<stream, slot, wire, fetches, shown, consoleBounds>>

-----------------------------------------------------------------------------
(* The page *)

Sent(D) == fetches' = [d \in Domains |-> IF d \in D THEN Append(fetches[d], "unread")
                                         ELSE fetches[d]]

\* Were the lists not fetched on "open", changes before it would be missed.
OnlyTold == <<>>
Greeting == <<Domains>>

\* The EventSource connects: its queue is registered, its "open" is on the way.
Connect ==
    /\ server = "up" /\ ~stream
    /\ stream' = TRUE /\ slot' = {} /\ wire' = Greeting
    /\ UNCHANGED <<server, calls, fetches, shown, consoleBounds>>

\* pcRefreshPairings and pcLoadDevices, as the frame says.
Changed ==
    /\ wire # <<>> /\ wire' = Tail(wire)
    /\ Sent(Head(wire))
    /\ UNCHANGED <<server, calls, stream, slot, shown, consoleBounds>>

\* The timer of the next expiry; the answer to a rename or a revocation.
Refetch ==
    /\ server = "up" /\ events < MaxEvents /\ events' = events + 1
    /\ \E d \in Domains: Sent({d})
    /\ UNCHANGED <<server, calls, stream, slot, wire, shown, changes, overtakes>>

\* An answer is drawn, whatever was drawn before it.
Drawn ==
    /\ \E d \in Domains: \E n \in DOMAIN fetches[d]:
          /\ fetches[d][n] # "unread"
          /\ \/ n = 1 /\ UNCHANGED overtakes
             \/ n > 1 /\ overtakes < MaxOvertakes /\ overtakes' = overtakes + 1
          /\ fetches' = [fetches EXCEPT ![d] = RemoveAt(@, n)]
          /\ shown' = [shown EXCEPT ![d] = fetches[d][n]]
    /\ UNCHANGED <<server, calls, stream, slot, wire, changes, events>>

\* The connections break: the stream, and with it perhaps the fetches.
Drop ==
    /\ stream /\ events < MaxEvents /\ events' = events + 1
    /\ stream' = FALSE /\ slot' = {} /\ wire' = <<>>
    /\ fetches' \in {fetches, [d \in Domains |-> <<>>]}
    /\ UNCHANGED <<server, calls, shown, changes, overtakes>>

ConsoleNext == Publish \/ Accept \/ Emit \/ ListRead \/ TrayExit \/ Shutdown
        \/ Connect \/ Changed \/ Refetch \/ Drawn \/ Drop

ConsoleSpec == ConsoleInit /\ [][ConsoleNext]_consoleVars

\* The event loop and the page run, the browser connects again, requests end.
ConsoleFairSpec == ConsoleSpec /\ WF_consoleVars(Accept) /\ WF_consoleVars(Emit) /\ WF_consoleVars(ListRead)
                 /\ WF_consoleVars(Shutdown) /\ WF_consoleVars(Connect) /\ WF_consoleVars(Changed)
                 /\ WF_consoleVars(Drawn)

-----------------------------------------------------------------------------
(* Properties *)

\* Types; a queue that is not subscribed is empty.
ConsoleTypeOK ==
    /\ server \in {"up", "exiting", "down"}
    /\ shown \in [Domains -> Contents]
    /\ calls \in Seq(SUBSET Domains) /\ wire \in Seq(SUBSET Domains)
    /\ stream \in BOOLEAN /\ slot \subseteq Domains
    /\ ~stream => slot = {} /\ wire = <<>>
    /\ fetches \in [Domains -> Seq(Contents)]
    /\ changes \in 0..MaxChanges /\ events \in 0..MaxEvents
    /\ overtakes \in 0..MaxOvertakes

\* What the page will read last is the newest list ...
ReadsNewest(d) ==
    IF fetches[d] = <<>> THEN shown[d] = "newest"
    ELSE Last(fetches[d]) \in {"unread", "newest"}

\* ... or it is still to be told to read it again.
ToBeTold(d) == \E D \in {slot} \cup ToSet(wire) \cup ToSet(calls): d \in D

\* A connected page misses no change: however often names were merged in the
\* queue, lost with a connection or published while the page was fetching, it
\* reads the newest list last or will be told to.
NothingMissed == stream => \A d \in Domains: ReadsNewest(d) \/ ToBeTold(d)

\* When nothing changes any more, the page of a running Server shows its lists.
Converges == <>[](server = "up" => \A d \in Domains: shown[d] = "newest")

\* The Server ends when the user has chosen so in the tray.
ExitEnds == server = "exiting" ~> server = "down"
=============================================================================
