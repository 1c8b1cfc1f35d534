------------------------- MODULE DisplayProtection -------------------------
(***************************************************************************)
(* The OLED protection loop of agent/display_protection.py: a flow (arm)   *)
(* counts down, turns the display off, waits for it to light up again,     *)
(* counts down again, until a key press or the window's cancel button ends *)
(* it.  It is run by five kinds of thread: the event loop, which calls     *)
(* arm and close; a message loop each for the keyboard monitor, the        *)
(* display-power monitor and the countdown window, which run the callbacks *)
(* of the controller; and one thread per threading.Timer.                  *)
(*                                                                         *)
(* Every thread carries `todo', the calls its current handler has yet to   *)
(* make, the next one first; one step makes one call.  A block under       *)
(* the controller's _lock is one step, and so is a block under the lock of *)
(* a monitor.  Between two steps of one handler any other thread can run.  *)
(*                                                                         *)
(* The timer token of the code changes exactly when _timer does, so "the   *)
(* token is still mine" is "_timer is still me" here.                      *)
(***************************************************************************)
EXTENDS Integers, Sequences

CONSTANTS
    Timers,       \* identities of the threading.Timer objects alive at once
    NoTimer,      \* _timer is None
    MaxArms,      \* bound: calls of arm()
    MaxFails,     \* bound: failures of the operating system or of a thread's start
    MaxTimeouts,  \* bound: joins given up after their 5 seconds
    MaxNotes,     \* bound: power-on messages queued for the power monitor
    Overlap       \* arm() may meet the handler that is ending the previous flow

ASSUME ConstantsAssumption ==
    /\ NoTimer \notin Timers /\ Timers \cap {"input", "power", "window", "api"} = {}
    /\ {MaxArms, MaxFails, MaxTimeouts, MaxNotes} \subseteq Nat
    /\ Overlap \in BOOLEAN

Monitors == {"input", "power"}
Loops == Monitors \cup {"window"}
Threads == Loops \cup {"api"} \cup Timers
Counting == {"initial", "reprotection"}
States == Counting \cup {"idle", "turning_off", "waiting"}

VARIABLES
    gen,        \* _generation
    timer,      \* _timer
    state,      \* _state
    closed,     \* _closed
    active,     \* _input_active, _power_monitor_active
    pending,    \* _input_stop_pending, _power_monitor_stop_pending
    timers,     \* each Timer's generation and what became of it
    mon,        \* each monitor: its thread, its stop event, its callback's generation
    notes,      \* power-on messages in the power monitor's queue
    win,        \* the countdown window and its posted HIDE messages
    display,    \* what the user sees
    todo,       \* thread -> the calls it has yet to make
    loc,        \* thread -> the local variables of its handler
    count       \* arms, failures and timeouts so far

ctrl == <<gen, timer, state, closed, active, pending>>
env == <<timers, mon, notes, win, display, count>>
vars == <<ctrl, env, todo, loc>>

Do(call, on) == [call |-> call, on |-> on]
StopCalls(m) == <<Do("request_stop", m), Do("join", m), Do("record_stop", m)>>
StartCalls(m) == <<Do("start", m), Do("spawn", m), Do("ready", m), Do("record_start", m)>>
(* As EndCalls, with an elif: the power monitor is forgotten.              *)
EndCallsEither(need) ==
    <<Do("hide", "window")>> \o (IF need["input"] THEN StopCalls("input")
                                 ELSE IF need["power"] THEN StopCalls("power") ELSE <<>>)
EndCalls(need) ==
    <<Do("hide", "window")>> \o (IF need["input"] THEN StopCalls("input") ELSE <<>>)
                             \o (IF need["power"] THEN StopCalls("power") ELSE <<>>)
ArmCalls ==
    <<Do("check", "flow")>> \o StartCalls("input") \o StartCalls("power")
                            \o <<Do("countdown", "initial")>>

At(t, call) == todo[t] # <<>> /\ Head(todo[t]).call = call
Now(t) == Head(todo[t]).on
Idle(t) == todo[t] = <<>>
Then(t, calls) == todo' = [todo EXCEPT ![t] = calls]
Proceed(t) == Then(t, Tail(todo[t]))
Locals == [gen |-> 0, timer |-> NoTimer, id |-> 0, ok |-> FALSE]
Return(t) == Then(t, <<>>) /\ loc' = [loc EXCEPT ![t] = Locals]
(* The handler's call failed: its flow is deactivated and it returns False. *)
GiveUp(t) == Then(t, <<Do("deactivate", "flow")>>)
CountUp(c) == count' = [count EXCEPT ![c] = @ + 1]
MayFail == count.fails < MaxFails

(* No handler is under way and no message waits to be served.              *)
Quiet == (\A t \in Threads : Idle(t)) /\ win.hides = 0

(* A handler checks under _lock that its flow has not ended.               *)
Current(g) == gen = g /\ ~closed

None == [m \in Monitors |-> FALSE]
Free == [gen |-> 0, st |-> "free"]
ActiveOnly == active        \* as StillToStop, a stop that failed is forgotten
StillToStop == [m \in Monitors |-> active[m] \/ pending[m]]

Init ==
    /\ gen = 0 /\ timer = NoTimer /\ state = "idle" /\ closed = FALSE
    /\ active = None /\ pending = None
    /\ timers = [k \in Timers |-> Free]
    /\ mon = [m \in Monitors |-> [alive |-> FALSE, stop |-> FALSE, gen |-> 0, id |-> 0]]
    /\ notes = 0
    /\ win = [up |-> FALSE, visible |-> FALSE, cancel |-> 0, hides |-> 0, doomed |-> FALSE]
    /\ display = "on"
    /\ todo = [t \in Threads |-> <<>>]
    /\ loc = [t \in Threads |-> Locals]
    /\ count = [arms |-> 0, fails |-> 0, timeouts |-> 0]

(* The block under _lock that ends the current flow, whoever ends it.      *)
EndFlow(t, rest, g) ==
    /\ gen' = gen + 1
    /\ timer' = NoTimer
    /\ active' = None
    /\ pending' = StillToStop
    /\ state' = "idle"
    /\ Then(t, EndCalls(StillToStop) \o rest)
    /\ loc' = [loc EXCEPT ![t].timer = timer, ![t].gen = g]

-----------------------------------------------------------------------------
(* The event loop.  close() belongs to the shutdown of the application,    *)
(* after which no command is served.                                       *)
Arm ==
    /\ Idle("api") /\ ~closed /\ count.arms < MaxArms
    /\ ~Overlap => Quiet
    /\ CountUp("arms")
    /\ closed' = FALSE
    /\ EndFlow("api", ArmCalls, gen + 1)
    /\ UNCHANGED <<timers, mon, notes, win, display>>

Close ==
    /\ Idle("api") /\ ~closed
    /\ closed' = TRUE
    /\ EndFlow("api", <<Do("close", "window"), Do("join", "window")>>, 0)
    /\ UNCHANGED env

(* arm() is about to start the monitors of its flow.                       *)
Check(t) ==
    /\ At(t, "check")
    /\ \/ Current(loc[t].gen) /\ Proceed(t) /\ UNCHANGED loc
       \/ ~Current(loc[t].gen) /\ Return(t)
    /\ UNCHANGED <<ctrl, env>>

(* _on_key_down: any key, the cancel button and the window's close button  *)
(* end the flow their callback was made for; a stale callback does nothing. *)
KeyDown ==
    /\ Idle("input") /\ mon["input"].alive
    /\ Current(mon["input"].gen)
    /\ EndFlow("input", <<>>, 0)
    /\ UNCHANGED <<closed, env>>

Hidden(w) == [w EXCEPT !.visible = FALSE, !.cancel = 0]

Click(rest) ==
    /\ Idle("window") /\ win.up /\ win.visible /\ ~win.doomed
    /\ win' = Hidden(win)
    /\ IF win.cancel # 0 /\ Current(win.cancel)
       THEN EndFlow("window", rest, 0)
       ELSE Then("window", rest) /\ UNCHANGED <<gen, timer, state, active, pending, loc>>
    /\ UNCHANGED <<closed, timers, mon, notes, display, count>>

CancelClick == Click(<<>>)
CloseClick == Click(<<Do("destroy", "window")>>)

(* _deactivate                                                             *)
Deactivate(t) ==
    /\ At(t, "deactivate")
    /\ IF gen = loc[t].gen
       THEN EndFlow(t, <<>>, 0)
       ELSE /\ Return(t)
            /\ UNCHANGED <<gen, timer, state, active, pending>>
    /\ UNCHANGED <<closed, env>>

(* _cancel_timer and _hide_window: a Timer cancelled before it fires never *)
(* does, and HIDE is posted to the window's queue.                         *)
Cancelled(k) ==
    [j \in Timers |-> IF j = k THEN Free ELSE timers[j]]

Hide(t) ==
    /\ At(t, "hide")
    /\ timers' = Cancelled(loc[t].timer)
    /\ loc' = [loc EXCEPT ![t].timer = NoTimer]
    /\ win' = IF win.up /\ ~win.doomed THEN [win EXCEPT !.hides = @ + 1] ELSE win
    /\ Proceed(t)
    /\ UNCHANGED <<ctrl, mon, notes, display, count>>

-----------------------------------------------------------------------------
(* Stopping a monitor: stop() sets the stop event, joins the thread unless *)
(* it is its own, and reports whether the monitor's thread is gone.        *)
RequestStop(t) ==
    /\ At(t, "request_stop")
    /\ mon' = [mon EXCEPT ![Now(t)].stop = TRUE]
    /\ loc' = [loc EXCEPT ![t].id = mon[Now(t)].id]
    /\ Proceed(t)
    /\ UNCHANGED <<ctrl, timers, notes, win, display, count>>

Gone(t) ==
    IF Now(t) = "window" THEN ~win.up
    ELSE ~mon[Now(t)].alive \/ mon[Now(t)].id # loc[t].id

GoneOnly(t) == Gone(t)      \* as MayReturn, a thread would join itself
MayReturn(t) == Gone(t) \/ Now(t) = t

Join(t) ==
    /\ At(t, "join")
    /\ \/ MayReturn(t) /\ UNCHANGED count
       \/ ~MayReturn(t) /\ count.timeouts < MaxTimeouts /\ CountUp("timeouts")
    /\ loc' = [loc EXCEPT ![t].ok = IF Now(t) = "window" THEN TRUE ELSE ~mon[Now(t)].alive]
    /\ Proceed(t)
    /\ UNCHANGED <<ctrl, timers, mon, notes, win, display>>

(* _stop_input_monitor / _stop_power_monitor; arm() starts nothing while an *)
(* old monitor is still there.                                             *)
RecordStop(t) ==
    /\ At(t, "record_stop")
    /\ pending' = [pending EXCEPT ![Now(t)] = ~loc[t].ok]
    /\ IF ~loc[t].ok /\ \E n \in DOMAIN todo[t] : todo[t][n].call = "check"
       THEN Return(t)
       ELSE Proceed(t) /\ loc' = [loc EXCEPT ![t].id = 0, ![t].ok = FALSE]
    /\ UNCHANGED <<gen, timer, state, closed, active, env>>

(* Starting a monitor: a thread left over is stopped first.                *)
Start(t) ==
    /\ At(t, "start")
    /\ Then(t, (IF mon[Now(t)].alive
                THEN <<Do("request_stop", Now(t)), Do("join", Now(t))>> ELSE <<>>)
               \o Tail(todo[t]))
    /\ UNCHANGED <<ctrl, env, loc>>

StartFails(t) == Then(t, StopCalls(Now(t)) \o <<Do("deactivate", "flow")>>)

(* Timing: the window's thread, unless it is in a callback, takes a posted *)
(* HIDE sooner than a monitor's thread is created or a display lights up.  *)
Drained == win.hides = 0 \/ ~Idle("window")

(* As NewThread, without clearing the stop event.                          *)
NewThreadStopped(t, m, up) ==
    [alive |-> up, stop |-> mon[m].stop, gen |-> loc[t].gen, id |-> mon[m].id + 1]
(* The new thread, for which the stop event is cleared.                    *)
NewThread(t, m, up) ==
    [alive |-> up, stop |-> FALSE, gen |-> loc[t].gen, id |-> mon[m].id + 1]

(* A power monitor is told the current power state when it registers.      *)
Spawn(t) ==
    /\ At(t, "spawn") /\ Drained
    /\ LET m == Now(t)
       IN  \/ mon[m].alive /\ StartFails(t) /\ UNCHANGED <<mon, notes, count>>
           \/ /\ ~mon[m].alive
              /\ mon' = [mon EXCEPT ![m] = NewThread(t, m, TRUE)]
              /\ notes' = IF m = "power" /\ display = "on" THEN 1 ELSE notes
              /\ Proceed(t) /\ UNCHANGED count
           \/ /\ ~mon[m].alive /\ MayFail
              /\ mon' = [mon EXCEPT ![m] = NewThread(t, m, FALSE)]
              /\ StartFails(t) /\ CountUp("fails") /\ UNCHANGED notes
    /\ UNCHANGED <<ctrl, timers, win, display, loc>>

(* A stop requested meanwhile is seen by the new thread or comes too late  *)
(* for it to report.                                                       *)
Ready(t) ==
    /\ At(t, "ready")
    /\ \/ mon[Now(t)].alive /\ Proceed(t)
       \/ (mon[Now(t)].stop \/ ~mon[Now(t)].alive) /\ StartFails(t)
    /\ UNCHANGED <<ctrl, env, loc>>

RecordStart(t) ==
    /\ At(t, "record_start")
    /\ IF Current(loc[t].gen)
       THEN /\ active' = [active EXCEPT ![Now(t)] = TRUE]
            /\ pending' = [pending EXCEPT ![Now(t)] = FALSE]
            /\ Proceed(t)
       ELSE /\ UNCHANGED <<active, pending>>
            /\ Then(t, StopCalls(Now(t)) \o
                       (IF Now(t) = "power" THEN <<Do("deactivate", "flow")>> ELSE <<>>))
    /\ UNCHANGED <<gen, timer, state, closed, env, loc>>

(* A monitor's loop ends once it is back from its callback and asked to.   *)
MonitorExits(m) ==
    /\ Idle(m) /\ mon[m].alive /\ mon[m].stop
    /\ mon' = [mon EXCEPT ![m].alive = FALSE]
    /\ notes' = IF m = "power" THEN 0 ELSE notes
    /\ UNCHANGED <<ctrl, timers, win, display, todo, loc, count>>

-----------------------------------------------------------------------------
(* _on_monitor_power_on, on the power monitor's thread.                    *)
PowerOn ==
    /\ Idle("power") /\ mon["power"].alive /\ notes > 0
    /\ notes' = notes - 1
    /\ loc' = [loc EXCEPT !["power"].gen = mon["power"].gen]
    /\ Then("power", <<Do("countdown", "reprotection")>>)
    /\ UNCHANGED <<ctrl, timers, mon, win, display, count>>

(* _start_countdown: `initial' from idle, `reprotection' from waiting.     *)
Expected == [initial |-> "idle", reprotection |-> "waiting"]

Unused(k) ==
    /\ timers[k] = Free /\ Idle(k) /\ timer # k
    /\ \A t \in Threads : loc[t].timer # k

MayCount(t) ==
    Current(loc[t].gen) /\ state = Expected[Now(t)] /\ timer = NoTimer

Countdown(t) ==
    /\ At(t, "countdown") /\ Drained
    /\ \/ ~MayCount(t) /\ Return(t) /\ UNCHANGED <<timer, state, timers, count>>
       \/ /\ MayCount(t)
          /\ state' = Now(t)
          /\ \E k \in Timers :
                /\ Unused(k)
                /\ timers' = [timers EXCEPT ![k] = [gen |-> gen, st |-> "new"]]
                /\ timer' = k
                /\ loc' = [loc EXCEPT ![t].timer = k]
          /\ Then(t, <<Do("show", Now(t)), Do("send_show", Now(t)),
                       Do("verify", Now(t)), Do("start_timer", Now(t))>>)
          /\ UNCHANGED count
       \/ /\ MayCount(t) /\ MayFail /\ CountUp("fails")
          /\ state' = Now(t)
          /\ GiveUp(t)
          /\ UNCHANGED <<timer, timers, loc>>
    /\ UNCHANGED <<gen, closed, active, pending, mon, notes, win, display>>

(* The window with the cancel callback of generation g.                    *)
OpenedOnce(g) ==            \* as Opened, only a new window gets the callback
    IF win.up THEN win ELSE [win EXCEPT !.up = TRUE, !.cancel = g]
Opened(g) == [win EXCEPT !.up = TRUE, !.cancel = g]

(* CountdownWindow.show first makes sure that there is a window and leaves *)
(* the cancel callback with it ...                                         *)
Show(t) ==
    /\ At(t, "show")
    /\ \/ /\ win' = Opened(loc[t].gen)
          /\ Proceed(t) /\ UNCHANGED count
       \/ ~win.up /\ MayFail /\ CountUp("fails") /\ GiveUp(t) /\ UNCHANGED win
    /\ UNCHANGED <<ctrl, timers, mon, notes, display, loc>>

(* ... and then sends SHOW: it blocks until the window's thread is back in *)
(* its loop, which serves a sent message before the posted ones.           *)
SendShow(t) ==
    /\ At(t, "send_show")
    /\ \/ win.up /\ ~win.doomed /\ Idle("window")
          /\ win' = [win EXCEPT !.visible = TRUE] /\ Proceed(t)
       \/ (~win.up \/ win.doomed) /\ GiveUp(t) /\ UNCHANGED win
    /\ UNCHANGED <<ctrl, timers, mon, notes, display, loc, count>>

(* The countdown is still this one, or its timer is cancelled unstarted.   *)
Verify(t) ==
    /\ At(t, "verify")
    /\ IF Current(loc[t].gen) /\ timer = loc[t].timer /\ state = Now(t)
       THEN Proceed(t) /\ UNCHANGED <<timers, loc>>
       ELSE timers' = Cancelled(loc[t].timer) /\ Return(t)
    /\ UNCHANGED <<ctrl, mon, notes, win, display, count>>

(* A timer cancelled meanwhile is started, but will not fire.              *)
Started(k) ==
    IF timers[k].st = "new" THEN [timers EXCEPT ![k].st = "running"] ELSE timers

StartTimer(t) ==
    /\ At(t, "start_timer")
    /\ \/ /\ timers' = Started(loc[t].timer)
          /\ Return(t) /\ UNCHANGED count
       \/ MayFail /\ CountUp("fails") /\ GiveUp(t) /\ UNCHANGED <<timers, loc>>
    /\ UNCHANGED <<ctrl, mon, notes, win, display>>

(* _on_timer, on the Timer's own thread.                                   *)
TimerFires(k) ==
    /\ timers[k].st = "running" /\ Idle(k)
    /\ timers' = Cancelled(k)
    /\ IF Current(timers[k].gen) /\ timer = k
       THEN /\ timer' = NoTimer
            /\ state' = "turning_off"
            /\ Then(k, <<Do("hide", "window"), Do("turn_off", "display"), Do("settle", "flow")>>)
            /\ loc' = [loc EXCEPT ![k].gen = timers[k].gen]
       ELSE UNCHANGED <<timer, state, todo, loc>>
    /\ UNCHANGED <<gen, closed, active, pending, mon, notes, win, display, count>>

(* turn_off broadcasts SC_MONITORPOWER: the display is off when the first  *)
(* window has handled it, the call returns when the last one has.          *)
TurnOff(t) ==
    /\ At(t, "turn_off")
    /\ \/ display' = "off" /\ Proceed(t) /\ UNCHANGED count
       \/ MayFail /\ CountUp("fails") /\ GiveUp(t) /\ UNCHANGED display
    /\ UNCHANGED <<ctrl, timers, mon, notes, win, loc>>

Settle(t) ==
    /\ At(t, "settle")
    /\ state' = IF Current(loc[t].gen) THEN "waiting" ELSE state
    /\ Return(t)
    /\ UNCHANGED <<gen, timer, closed, active, pending, env>>

-----------------------------------------------------------------------------
(* The window's thread.  close() has its WM_CLOSE posted, a click on the   *)
(* close button destroys the window after its callback.                    *)
WindowHides ==
    /\ Idle("window") /\ win.hides > 0 /\ ~win.doomed
    /\ win' = [Hidden(win) EXCEPT !.hides = @ - 1]
    /\ UNCHANGED <<ctrl, timers, mon, notes, display, todo, loc, count>>

CloseWindow(t) ==
    /\ (At(t, "close") \/ At(t, "destroy"))
    /\ win' = IF At(t, "close") THEN [win EXCEPT !.doomed = win.up, !.cancel = 0]
              ELSE [win EXCEPT !.doomed = TRUE]
    /\ Proceed(t)
    /\ UNCHANGED <<ctrl, timers, mon, notes, display, loc, count>>

WindowExits ==
    /\ Idle("window") /\ win.doomed
    /\ win' = [up |-> FALSE, visible |-> FALSE, cancel |-> 0, hides |-> 0, doomed |-> FALSE]
    /\ UNCHANGED <<ctrl, timers, mon, notes, display, todo, loc, count>>

(* The user moves the mouse: Windows lights the display up and tells the   *)
(* registered power monitor.                                               *)
Wake ==
    /\ display = "off" /\ Drained /\ notes < MaxNotes
    /\ display' = "on"
    /\ notes' = IF mon["power"].alive THEN notes + 1 ELSE notes
    /\ UNCHANGED <<ctrl, timers, mon, win, todo, loc, count>>

Step(t) ==
    \/ Check(t) \/ Hide(t) \/ Deactivate(t)
    \/ RequestStop(t) \/ Join(t) \/ RecordStop(t)
    \/ Start(t) \/ Spawn(t) \/ Ready(t) \/ RecordStart(t)
    \/ Countdown(t) \/ Show(t) \/ SendShow(t) \/ Verify(t) \/ StartTimer(t)
    \/ TurnOff(t) \/ Settle(t) \/ CloseWindow(t)

(* What the threads and message loops do by themselves.                    *)
SomeoneRuns ==
    \/ PowerOn \/ WindowHides \/ WindowExits
    \/ \E m \in Monitors : MonitorExits(m)
    \/ \E t \in Threads : Step(t)

Next ==
    \/ Arm \/ Close \/ KeyDown \/ CancelClick \/ CloseClick \/ Wake
    \/ \E k \in Timers : TimerFires(k)
    \/ SomeoneRuns

Spec == Init /\ [][Next]_vars

(* The scheduler runs every thread that can run and the message loops      *)
(* serve their queues; nobody has to press a key, click, or call close.    *)
Fairness ==
    /\ WF_vars(PowerOn) /\ WF_vars(WindowHides) /\ WF_vars(WindowExits)
    /\ \A k \in Timers : WF_vars(TimerFires(k))
    /\ \A m \in Monitors : WF_vars(MonitorExits(m))
    /\ \A t \in Threads : WF_vars(Step(t))

FairSpec == Spec /\ Fairness

-----------------------------------------------------------------------------
TypeOK ==
    /\ gen \in Nat /\ closed \in BOOLEAN
    /\ timer \in Timers \cup {NoTimer}
    /\ state \in States
    /\ active \in [Monitors -> BOOLEAN] /\ pending \in [Monitors -> BOOLEAN]
    /\ timers \in [Timers -> [gen : Nat, st : {"free", "new", "running"}]]
    /\ mon \in [Monitors -> [alive : BOOLEAN, stop : BOOLEAN, gen : Nat, id : Nat]]
    /\ notes \in Nat /\ display \in {"on", "off"}
    /\ win \in [up : BOOLEAN, visible : BOOLEAN, cancel : Nat, hides : Nat, doomed : BOOLEAN]
    /\ DOMAIN todo = Threads /\ DOMAIN loc = Threads
    /\ count \in [{"arms", "fails", "timeouts"} -> Nat]

(* The state and the timer never disagree for longer than the handler that *)
(* is changing them: a countdown has a timer that is running, a visible    *)
(* window and a cancel button that ends this very flow; no other state has *)
(* a timer.                                                                *)
CountdownIsCancellable ==
    Quiet => IF state \in Counting
             THEN /\ timer # NoTimer /\ timers[timer].st = "running" /\ timers[timer].gen = gen
                  /\ win.visible /\ win.cancel = gen
             ELSE timer = NoTimer

(* A flow that a key press ended shows no countdown: overview.md:50.       *)
WindowGoesAway == Quiet /\ state = "idle" => ~win.visible

(* While a flow is armed, a key press ends it: the keyboard monitor runs,  *)
(* nobody has asked it to stop, and its callback is that flow's.           *)
(* docs/product/overview.md:50.                                            *)
FlowHearsKeys ==
    state # "idle" =>
        mon["input"].alive /\ ~mon["input"].stop /\ mon["input"].gen = gen

(* A flow that has ended leaves nothing behind: a monitor is gone, is on   *)
(* its way out, or is remembered for the next arm() to stop.               *)
NoOrphan ==
    Quiet /\ state = "idle" =>
        /\ \A m \in Monitors : mon[m].alive => mon[m].stop \/ pending[m]
        /\ \A k \in Timers : timers[k].st # "running"

(* Whatever late timer, power message or broadcast comes back, only arm()  *)
(* starts the loop again, and nothing does after close().                  *)
OnlyArmRestarts ==
    [][state = "idle" /\ state' # "idle" => state' = "initial" /\ ~closed]_vars

(* While the flow waits for the display to light up, it is dark or the     *)
(* power-on message is on its way: docs/product/overview.md:49.            *)
NoLostWake ==
    state = "waiting" /\ display = "on" /\ Idle("power") => notes > 0

(* After close() no monitor, timer or window is left, unless a join was    *)
(* given up.                                                               *)
CloseReleases ==
    closed /\ Quiet /\ count.timeouts = 0 =>
        /\ \A m \in Monitors : mon[m].alive => mon[m].stop
        /\ \A k \in Timers : timers[k].st # "running"
        /\ ~win.up \/ win.doomed

(* A thread waits for the thread it joins, for the window's thread to take *)
(* SHOW, or behind a HIDE that is served sooner.                           *)
Waits(t) ==
    \/ At(t, "join") /\ ~MayReturn(t)
    \/ At(t, "send_show") /\ win.up /\ ~win.doomed /\ ~Idle("window")
    \/ (At(t, "spawn") \/ At(t, "countdown")) /\ ~Drained

(* The window's message loop, or that of a monitor, has something to do.   *)
LoopRuns ==
    \/ Idle("window") /\ (win.hides > 0 \/ win.doomed)
    \/ \E m \in Monitors : Idle(m) /\ mon[m].alive /\ mon[m].stop

(* The handlers wait for each other's threads, but never all of them: as   *)
(* long as one has not returned, some thread can run without any join      *)
(* having to give up.                                                      *)
NoDeadlock ==
    ~Quiet /\ count.timeouts = 0 =>
        LoopRuns \/ \E t \in Threads : ~Idle(t) /\ ~Waits(t)

(* Every handler returns, and every countdown ends.                        *)
HandlersReturn == \A t \in Threads : ~Idle(t) ~> Idle(t)
CountdownEnds == state \in Counting ~> state \notin Counting
=============================================================================
