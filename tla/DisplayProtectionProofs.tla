---------------------- MODULE DisplayProtectionProofs ----------------------
(***************************************************************************)
(* Proofs about DisplayProtection, for any number of flows, timers, power  *)
(* messages, failures and joins given up.                                  *)
(*                                                                         *)
(* The first part holds whenever arm() is called: the types, the calls a   *)
(* handler has yet to make, the timers, and that only arm() restarts the   *)
(* loop.  The second part, about the monitors, the third, about the        *)
(* countdown, and the fourth, about the threads that wait for each other,  *)
(* need Overlap = FALSE: arm() does not meet the handler that is ending    *)
(* the previous flow.                                                      *)
(***************************************************************************)
EXTENDS DisplayProtection, TLAPS

\* The calls a thread has yet to make.
Elems(s) == {s[i] : i \in DOMAIN s}
Has(t, call, on) == Do(call, on) \in Elems(todo[t])

\* Every handler makes its calls in this order.
OfMonitor == [m \in Monitors |-> IF m = "input" THEN 0 ELSE 3]
OfStart == [m \in Monitors |-> IF m = "input" THEN 8 ELSE 12]
Position(d) ==
    CASE d.call = "hide" -> 0
      [] d.call = "request_stop" -> 1 + OfMonitor[d.on]
      [] d.call = "join" /\ d.on # "window" -> 2 + OfMonitor[d.on]
      [] d.call = "record_stop" -> 3 + OfMonitor[d.on]
      [] d.call \in {"check", "turn_off"} -> 7
      [] d.call = "start" -> OfStart[d.on]
      [] d.call = "spawn" -> 1 + OfStart[d.on]
      [] d.call = "ready" -> 2 + OfStart[d.on]
      [] d.call = "record_start" -> 3 + OfStart[d.on]
      [] d.call \in {"countdown", "close", "destroy", "settle"} -> 16
      [] d.call = "show" \/ (d.call = "join" /\ d.on = "window") -> 17
      [] d.call = "send_show" -> 18
      [] d.call = "verify" -> 19
      [] d.call = "start_timer" -> 20
      [] d.call = "deactivate" -> 21

Ordered(s) == \A i, j \in DOMAIN s : i < j => Position(s[i]) < Position(s[j])

GivingUp == Do("deactivate", "flow")
Stops(m) == {Do("request_stop", m), Do("join", m), Do("record_stop", m)}
Starts(m) == {Do("start", m), Do("spawn", m), Do("ready", m), Do("record_start", m)}
Showing(n) == {Do("show", n), Do("send_show", n), Do("verify", n), Do("start_timer", n)}
Tearing == {Do("hide", "window")} \cup UNION {Stops(m) : m \in Monitors}

\* The calls that occur in the handlers of a thread.
Starting == UNION {Starts(m) : m \in Monitors}
ApiCalls ==
    Starting \cup Showing("initial") \cup
    {Do("check", "flow"), Do("countdown", "initial"), GivingUp,
     Do("close", "window"), Do("join", "window")}
PowerCalls == Showing("reprotection") \cup {Do("countdown", "reprotection"), GivingUp}
TimerCalls == {Do("turn_off", "display"), Do("settle", "flow"), GivingUp}
Own(t) ==
    Tearing \cup (IF t = "api" THEN ApiCalls
                 ELSE IF t = "power" THEN PowerCalls
                 ELSE IF t = "window" THEN {Do("destroy", "window")}
                 ELSE IF t = "input" THEN {} ELSE TimerCalls)

\* No handler stops half way: what follows a call in it is still to be made, and
\* what comes before it has been made.
Whole(C) ==
    /\ \A m \in Monitors :
          /\ Do("record_stop", m) \in C =>
                Do("join", m) \in C \/ \A d \in C : Position(d) >= 3 + OfMonitor[m]
          /\ Do("join", m) \in C =>
                Do("request_stop", m) \in C \/ \A d \in C : Position(d) >= 2 + OfMonitor[m]
          /\ Do("start", m) \in C => Do("spawn", m) \in C
          /\ Do("spawn", m) \in C => Do("ready", m) \in C
          /\ Do("ready", m) \in C => Do("record_start", m) \in C
          /\ Do("record_start", m) \in C =>
                /\ Do("countdown", "initial") \in C
                /\ Do("spawn", m) \in C \/ \A d \in C : Position(d) >= 2 + OfStart[m]
    /\ Do("record_start", "input") \in C => Do("spawn", "power") \in C
    /\ GivingUp \in C =>
          \A d \in C : d.call \in {"request_stop", "join", "record_stop", "deactivate"}

Program(t, s) == s \in Seq(Own(t)) /\ Ordered(s) /\ Whole(Elems(s))

TypeInv ==
    /\ TypeOK
    /\ loc \in [Threads -> [gen : 0..gen, timer : Timers \cup {NoTimer}, id : Nat, ok : BOOLEAN]]
    /\ \A m \in Monitors : mon[m].gen <= gen

ProgramOK == \A t \in Threads : Program(t, todo[t])

\* A timer that is not finished or cancelled is the controller's or is about to
\* be cancelled, and while the display is being turned off there is none.
TimersOK ==
    /\ timer # NoTimer => state \in Counting
    /\ \A k \in Timers : timers[k].st # "free" =>
          timer = k \/ \E t \in Threads : (loc[t].timer = k /\ Has(t, "hide", "window"))
    /\ \A t \in Threads : Has(t, "settle", "flow") /\ loc[t].gen = gen => state = "turning_off"
    /\ \A t, u \in Threads :
          /\ Has(t, "settle", "flow") /\ loc[t].gen = gen
          /\ Has(u, "settle", "flow") /\ loc[u].gen = gen
          => t = u

LoopInv == TypeInv /\ ProgramOK /\ TimersOK

\* A stop of monitor m by thread t is to be joined, or to be recorded, next.
AtJoin(t, m) == Has(t, "join", m) /\ ~Has(t, "request_stop", m)
AtRecord(t, m) == Has(t, "record_stop", m) /\ ~Has(t, "join", m)
Stopping(t, m) == Has(t, "request_stop", m) \/ Has(t, "join", m) \/ Has(t, "record_stop", m)

\* Between Spawn and RecordStart, or in a stop of its own, arm() takes care of a
\* monitor that the flags do not know of.
Spawned(m) == Has("api", "record_start", m) /\ ~Has("api", "spawn", m)
InArm(m) == Spawned(m) \/ Has("api", "record_stop", m)
GivenUp(m) == mon[m].stop /\ count.timeouts > 0

\* A thread that is there is one the controller knows of.
KnownOK ==
    \A m \in Monitors : mon[m].alive =>
        /\ active[m] \/ pending[m] \/ InArm(m) \/ GivenUp(m)
        /\ Has("api", "check", "flow") => pending[m] \/ GivenUp(m)

\* Only the flow that is current can have active monitors, and nobody stops them.
ActiveOK ==
    \A m \in Monitors : active[m] =>
        /\ ~closed /\ ~Has("api", "check", "flow") /\ ~Has("api", "record_start", m)
        /\ \/ state # "idle"
           \/ /\ gen = loc["api"].gen
              /\ Has("api", "countdown", "initial") \/ Has("api", "deactivate", "flow")
        /\ mon[m].alive /\ ~mon[m].stop /\ mon[m].gen = gen
        /\ ~Has("api", "request_stop", m)
        /\ \A t \in Threads \ {"api"}, n \in Monitors : ~Stopping(t, n)

\* A handler that stops monitors has ended the flow that arm() is starting.
StopsOK ==
    /\ todo["api"] # <<>> /\ loc["api"].gen = gen =>
          \A t \in Threads \ {"api"}, m \in Monitors : ~Stopping(t, m)
    /\ \A t \in Threads, m \in Monitors :
          AtRecord(t, m) /\ loc[t].ok /\ mon[m].alive =>
              /\ t # "api" /\ ~Has("api", "check", "flow")
              /\ InArm(m) \/ GivenUp(m)
    /\ \A m \in Monitors :
          /\ AtJoin("api", m) => loc["api"].id = mon[m].id
          /\ Has("api", "record_stop", m) /\ ~Has("api", "request_stop", m) => mon[m].stop
          /\ AtRecord("api", m) /\ ~loc["api"].ok => count.timeouts > 0

\* The flow that arm() is starting, and the one that was started.
FlowOK ==
    /\ gen = loc["api"].gen => \A m \in Monitors :
          /\ Spawned(m) => mon[m].alive /\ ~mon[m].stop /\ mon[m].gen = gen
          /\ Has("api", "countdown", "initial") /\ ~Has("api", "record_start", m) => active[m]
    /\ state # "idle" => ~closed /\ \A m \in Monitors : active[m]

\* close() waits for the monitors before it closes the window.
CloseOK ==
    /\ \A m \in Monitors : todo[m] # <<>> => mon[m].alive
    /\ closed =>
          /\ \A d \in Elems(todo["api"]) :
                d.call \in {"hide", "request_stop", "join", "record_stop", "close"}
          /\ \A m \in Monitors : Has("api", "join", m) => Has("api", "close", "window")
          /\ count.timeouts = 0 =>
                /\ \A m \in Monitors : mon[m].alive => Has("api", "join", m)
                /\ win.up /\ ~win.doomed => Has("api", "close", "window")

MonitorInv == KnownOK /\ ActiveOK /\ StopsOK /\ FlowOK /\ CloseOK
Inv == LoopInv /\ MonitorInv

-----------------------------------------------------------------------------
(* The calls of a handler.                                                 *)

\* What a call says.
LEMMA DoFields == \A c, o : Do(c, o).call = c /\ Do(c, o).on = o
BY DEF Do

\* The place of every call.
LEMMA Places ==
  /\ Position(Do("hide", "window")) = 0
  /\ Position(Do("check", "flow")) = 7
  /\ Position(Do("turn_off", "display")) = 7
  /\ Position(Do("settle", "flow")) = 16
  /\ Position(Do("close", "window")) = 16
  /\ Position(Do("destroy", "window")) = 16
  /\ Position(Do("join", "window")) = 17
  /\ Position(GivingUp) = 21
  /\ \A n \in Counting :
        /\ Position(Do("countdown", n)) = 16
        /\ Position(Do("show", n)) = 17
        /\ Position(Do("send_show", n)) = 18
        /\ Position(Do("verify", n)) = 19
        /\ Position(Do("start_timer", n)) = 20
  /\ \A m \in Monitors :
        /\ OfMonitor[m] \in {0, 3} /\ OfStart[m] \in {8, 12}
        /\ Position(Do("request_stop", m)) = 1 + OfMonitor[m]
        /\ Position(Do("join", m)) = 2 + OfMonitor[m]
        /\ Position(Do("record_stop", m)) = 3 + OfMonitor[m]
        /\ Position(Do("start", m)) = OfStart[m]
        /\ Position(Do("spawn", m)) = 1 + OfStart[m]
        /\ Position(Do("ready", m)) = 2 + OfStart[m]
        /\ Position(Do("record_start", m)) = 3 + OfStart[m]
  /\ OfMonitor["input"] = 0 /\ OfMonitor["power"] = 3
  /\ OfStart["input"] = 8 /\ OfStart["power"] = 12
<1>1. \A m \in Monitors : OfMonitor[m] \in {0, 3} /\ OfStart[m] \in {8, 12} /\ m # "window"
  BY DEF OfMonitor, OfStart, Monitors
<1>2. OfMonitor["input"] = 0 /\ OfMonitor["power"] = 3 /\ OfStart["input"] = 8 /\ OfStart["power"] = 12
  BY DEF OfMonitor, OfStart, Monitors
<1>3. /\ Position(Do("hide", "window")) = 0
      /\ Position(Do("check", "flow")) = 7
      /\ Position(Do("turn_off", "display")) = 7
      /\ Position(Do("settle", "flow")) = 16
      /\ Position(Do("close", "window")) = 16
      /\ Position(Do("destroy", "window")) = 16
      /\ Position(Do("join", "window")) = 17
      /\ Position(GivingUp) = 21
  BY DEF Position, Do, GivingUp
<1>4. \A n \in Counting :
        /\ Position(Do("countdown", n)) = 16
        /\ Position(Do("show", n)) = 17
        /\ Position(Do("send_show", n)) = 18
        /\ Position(Do("verify", n)) = 19
        /\ Position(Do("start_timer", n)) = 20
  BY DEF Position, Do
<1>5. ASSUME NEW m \in Monitors
      PROVE  /\ Position(Do("request_stop", m)) = 1 + OfMonitor[m]
             /\ Position(Do("join", m)) = 2 + OfMonitor[m]
             /\ Position(Do("record_stop", m)) = 3 + OfMonitor[m]
             /\ Position(Do("start", m)) = OfStart[m]
             /\ Position(Do("spawn", m)) = 1 + OfStart[m]
             /\ Position(Do("ready", m)) = 2 + OfStart[m]
             /\ Position(Do("record_start", m)) = 3 + OfStart[m]
  BY <1>1 DEF Position, Do
<1> QED
  BY <1>1, <1>2, <1>3, <1>4, <1>5

\* The first call of a sequence, and the rest.
LEMMA HeadTail ==
  ASSUME NEW S, \A d \in S : Position(d) \in Int, NEW s \in Seq(S), s # <<>>, Ordered(s)
  PROVE  /\ Head(s) \in Elems(s) /\ Elems(s) \subseteq S
         /\ Tail(s) \in Seq(S) /\ Ordered(Tail(s))
         /\ Elems(Tail(s)) = Elems(s) \ {Head(s)}
         /\ \A d \in Elems(s) : d # Head(s) => Position(Head(s)) < Position(d)
<1>1. Head(s) = s[1] /\ 1 \in DOMAIN s /\ DOMAIN s = 1..Len(s) /\ Len(s) \in Nat /\ Len(s) > 0
  OBVIOUS
<1>2. /\ Tail(s) \in Seq(S) /\ DOMAIN Tail(s) = 1..(Len(s) - 1)
      /\ \A i \in 1..(Len(s) - 1) : Tail(s)[i] = s[i + 1]
  OBVIOUS
<1>3. Elems(s) \subseteq S /\ Head(s) \in Elems(s)
  BY <1>1 DEF Elems
<1>4. \A i \in DOMAIN s : i # 1 => Position(s[1]) < Position(s[i])
  BY <1>1 DEF Ordered
<1>5. Ordered(Tail(s))
  BY <1>1, <1>2 DEF Ordered
<1>6. ASSUME NEW d \in Elems(Tail(s)) PROVE d \in Elems(s) \ {Head(s)}
  <2>1. PICK i \in 1..(Len(s) - 1) : d = s[i + 1]
    BY <1>2 DEF Elems
  <2>2. i + 1 \in DOMAIN s /\ i + 1 # 1
    BY <1>1
  <2>3. Position(s[1]) < Position(d)
    BY <2>1, <2>2, <1>4
  <2>4. Position(s[1]) \in Int
    BY <1>1
  <2>5. d # s[1]
    BY <2>3, <2>4
  <2> QED
    BY <2>1, <2>2, <2>5, <1>1 DEF Elems
<1>7. ASSUME NEW d \in Elems(s), d # Head(s)
      PROVE  d \in Elems(Tail(s)) /\ Position(Head(s)) < Position(d)
  <2>1. PICK i \in DOMAIN s : d = s[i]
    BY DEF Elems
  <2>2. i - 1 \in 1..(Len(s) - 1) /\ i # 1
    BY <1>1, <1>7, <2>1
  <2>3. Tail(s)[i - 1] = d
    BY <1>1, <1>2, <2>1, <2>2
  <2> QED
    BY <1>1, <1>2, <1>4, <2>1, <2>2, <2>3 DEF Elems
<1> QED
  BY <1>2, <1>3, <1>5, <1>6, <1>7

\* One sequence after the other.
LEMMA Joined ==
  ASSUME NEW S, NEW a \in Seq(S), NEW b \in Seq(S), Ordered(a), Ordered(b),
         \A d \in Elems(a), e \in Elems(b) : Position(d) < Position(e)
  PROVE  /\ a \o b \in Seq(S) /\ Ordered(a \o b)
         /\ Elems(a \o b) = Elems(a) \cup Elems(b)
<1> DEFINE s == a \o b
<1>1. /\ DOMAIN a = 1..Len(a) /\ Len(a) \in Nat /\ DOMAIN b = 1..Len(b) /\ Len(b) \in Nat
  OBVIOUS
<1>2. /\ s \in Seq(S) /\ DOMAIN s = 1..(Len(a) + Len(b))
      /\ \A i \in 1..(Len(a) + Len(b)) :
            s[i] = IF i <= Len(a) THEN a[i] ELSE b[i - Len(a)]
  OBVIOUS
<1> HIDE DEF s
<1>3. \A i \in DOMAIN s : \/ i \in DOMAIN a /\ s[i] = a[i] /\ i <= Len(a)
                          \/ i - Len(a) \in DOMAIN b /\ s[i] = b[i - Len(a)] /\ i > Len(a)
  BY <1>1, <1>2
<1>4. \A i \in DOMAIN a : i \in DOMAIN s /\ s[i] = a[i]
  BY <1>1, <1>2
<1>5. \A i \in DOMAIN b : i + Len(a) \in DOMAIN s /\ s[i + Len(a)] = b[i]
  BY <1>1, <1>2
<1>6. Elems(s) = Elems(a) \cup Elems(b)
  <2>1. Elems(s) \subseteq Elems(a) \cup Elems(b)
    BY <1>3 DEF Elems
  <2>2. Elems(a) \subseteq Elems(s)
    BY <1>4 DEF Elems
  <2>3. Elems(b) \subseteq Elems(s)
    BY <1>5 DEF Elems
  <2> QED
    BY <2>1, <2>2, <2>3
<1>7. ASSUME NEW i \in DOMAIN s, NEW j \in DOMAIN s, i < j
      PROVE  Position(s[i]) < Position(s[j])
  <2>1. CASE i \in DOMAIN a /\ j \in DOMAIN a
    BY <1>4, <1>7, <2>1 DEF Ordered
  <2>2. CASE i \notin DOMAIN a /\ j \notin DOMAIN a
    <3>1. /\ i - Len(a) \in DOMAIN b /\ s[i] = b[i - Len(a)]
          /\ j - Len(a) \in DOMAIN b /\ s[j] = b[j - Len(a)]
      BY <1>3, <2>2
    <3>2. i - Len(a) < j - Len(a)
      BY <1>1, <1>2, <1>7
    <3> QED
      BY <3>1, <3>2 DEF Ordered
  <2>3. CASE i \in DOMAIN a /\ j \notin DOMAIN a
    <3>1. s[i] \in Elems(a)
      BY <2>3, <1>4 DEF Elems
    <3>2. s[j] \in Elems(b)
      BY <2>3, <1>3 DEF Elems
    <3> QED
      BY <3>1, <3>2
  <2>4. ~(i \notin DOMAIN a /\ j \in DOMAIN a)
    BY <1>1, <1>2, <1>7
  <2> QED
    BY <2>1, <2>2, <2>3, <2>4
<1>8. Ordered(s)
  BY <1>7 DEF Ordered
<1> QED
  BY <1>2, <1>6, <1>8 DEF s

\* Whose handlers make which calls.
LEMMA OwnCalls ==
  ASSUME NEW t \in Threads, NEW d \in Own(t)
  PROVE  \/ d = Do("hide", "window")
         \/ \E m \in Monitors : d \in Stops(m)
         \/ /\ t = "api"
            /\ \/ \E m \in Monitors : d \in Starts(m)
               \/ d \in Showing("initial")
               \/ d \in {Do("check", "flow"), Do("countdown", "initial"), GivingUp,
                         Do("close", "window"), Do("join", "window")}
         \/ /\ t = "power"
            /\ d \in Showing("reprotection") \cup {Do("countdown", "reprotection"), GivingUp}
         \/ t = "window" /\ d = Do("destroy", "window")
         \/ t \in Timers /\ d \in {Do("turn_off", "display"), Do("settle", "flow"), GivingUp}
<1>1. CASE d \in Tearing
  <2>1. d = Do("hide", "window") \/ \E m \in Monitors : d \in Stops(m)
    BY <1>1, ZenonT(20) DEF Tearing
  <2> QED
    BY <2>1
<1>2. CASE d \notin Tearing /\ t = "api"
  <2>1. d \in ApiCalls
    BY <1>2 DEF Own
  <2>2. CASE d \in Starting
    <3>1. \E m \in Monitors : d \in Starts(m)
      BY <2>2, ZenonT(20) DEF Starting
    <3> QED
      BY <3>1, <1>2
  <2>3. \/ d \in Starting \/ d \in Showing("initial")
        \/ d \in {Do("check", "flow"), Do("countdown", "initial"), GivingUp,
                 Do("close", "window"), Do("join", "window")}
    BY <2>1 DEF ApiCalls
  <2> QED
    BY <1>2, <2>2, <2>3
<1>3. CASE d \notin Tearing /\ t = "power"
  BY <1>3 DEF Own, PowerCalls
<1>4. CASE d \notin Tearing /\ t = "window"
  BY <1>4 DEF Own
<1>5. CASE d \notin Tearing /\ t = "input"
  BY <1>5 DEF Own
<1>6. CASE d \notin Tearing /\ t \notin {"api", "power", "window", "input"}
  BY <1>6 DEF Own, TimerCalls, Threads, Loops, Monitors
<1> QED
  BY <1>1, <1>2, <1>3, <1>4, <1>5, <1>6

\* Every call has a place.
LEMMA OwnPlaces == \A t \in Threads : \A d \in Own(t) : Position(d) \in Nat
<1>1. ASSUME NEW m \in Monitors, NEW d \in Stops(m) \cup Starts(m)
      PROVE  Position(d) \in Nat
  <2>1. OfMonitor[m] \in {0, 3} /\ OfStart[m] \in {8, 12}
    BY Places
  <2>2. /\ Position(Do("request_stop", m)) = 1 + OfMonitor[m]
        /\ Position(Do("join", m)) = 2 + OfMonitor[m]
        /\ Position(Do("record_stop", m)) = 3 + OfMonitor[m]
        /\ Position(Do("start", m)) = OfStart[m]
        /\ Position(Do("spawn", m)) = 1 + OfStart[m]
        /\ Position(Do("ready", m)) = 2 + OfStart[m]
        /\ Position(Do("record_start", m)) = 3 + OfStart[m]
    BY Places
  <2> QED
    BY <2>1, <2>2 DEF Stops, Starts
<1>2. ASSUME NEW n \in Counting, NEW d \in Showing(n) \cup {Do("countdown", n)}
      PROVE  Position(d) \in Nat
  <2>1. /\ Position(Do("countdown", n)) = 16
        /\ Position(Do("show", n)) = 17
        /\ Position(Do("send_show", n)) = 18
        /\ Position(Do("verify", n)) = 19
        /\ Position(Do("start_timer", n)) = 20
    BY Places
  <2> QED
    BY <2>1 DEF Showing
<1>3. "initial" \in Counting /\ "reprotection" \in Counting
  BY DEF Counting
<1>4. \A d \in {Do("hide", "window"), Do("check", "flow"), Do("turn_off", "display"),
                 Do("settle", "flow"), Do("close", "window"), Do("destroy", "window"),
                 Do("join", "window"), GivingUp} : Position(d) \in Nat
  BY Places
<1>5. ASSUME NEW t \in Threads, NEW d \in Own(t) PROVE Position(d) \in Nat
  BY OwnCalls, <1>1, <1>2, <1>3, <1>4
<1> QED
  BY <1>5

\* What a call says of its handler.
LEMMA Kinds ==
  ASSUME NEW t \in Threads, NEW d \in Own(t)
  PROVE  /\ d = Do(d.call, d.on)
         /\ d.call \in {"request_stop", "record_stop"} => d.on \in Monitors
         /\ d.call = "join" => d.on \in Monitors \/ (d.on = "window" /\ t = "api")
         /\ d.call \in {"start", "spawn", "ready", "record_start"} => t = "api" /\ d.on \in Monitors
         /\ d.call \in {"countdown", "show", "send_show", "verify", "start_timer"} =>
               \/ t = "api" /\ d.on = "initial"
               \/ t = "power" /\ d.on = "reprotection"
         /\ d.call \in {"turn_off", "settle"} => t \in Timers
         /\ d.call = "settle" => d = Do("settle", "flow")
         /\ d.call = "turn_off" => d = Do("turn_off", "display")
         /\ d.call = "check" => t = "api" /\ d.on = "flow"
         /\ d.call = "close" => t = "api" /\ d.on = "window"
         /\ d.call = "destroy" => t = "window" /\ d.on = "window"
         /\ d.call = "hide" => d.on = "window"
         /\ d.call = "deactivate" => d = GivingUp /\ t \notin {"input", "window"}
         /\ d.call \in {"hide", "request_stop", "join", "record_stop", "check", "turn_off", "start",
                       "spawn", "ready", "record_start", "countdown", "show", "send_show", "verify",
                       "start_timer", "settle", "close", "destroy", "deactivate"}
<1> DEFINE G(c) ==
      /\ d = Do(d.call, d.on)
      /\ d.call \in {"request_stop", "record_stop"} => d.on \in Monitors
      /\ d.call = "join" => d.on \in Monitors \/ (d.on = "window" /\ t = "api")
      /\ d.call \in {"start", "spawn", "ready", "record_start"} => t = "api" /\ d.on \in Monitors
      /\ d.call \in {"countdown", "show", "send_show", "verify", "start_timer"} =>
            \/ t = "api" /\ d.on = "initial"
            \/ t = "power" /\ d.on = "reprotection"
      /\ d.call \in {"turn_off", "settle"} => t \in Timers
      /\ d.call = "settle" => d = Do("settle", "flow")
      /\ d.call = "turn_off" => d = Do("turn_off", "display")
      /\ d.call = "check" => t = "api" /\ d.on = "flow"
      /\ d.call = "close" => t = "api" /\ d.on = "window"
      /\ d.call = "destroy" => t = "window" /\ d.on = "window"
      /\ d.call = "hide" => d.on = "window"
      /\ d.call = "deactivate" => d = GivingUp /\ t \notin {"input", "window"}
      /\ d.call \in {"hide", "request_stop", "join", "record_stop", "check", "turn_off", "start",
                    "spawn", "ready", "record_start", "countdown", "show", "send_show", "verify",
                    "start_timer", "settle", "close", "destroy", "deactivate"}
<1>1. SUFFICES G(d)
  OBVIOUS
<1>2. CASE d = Do("hide", "window")
  BY <1>2, DoFields
<1>3. ASSUME NEW m \in Monitors, d \in Stops(m) PROVE G(d)
  BY <1>3, DoFields DEF Stops
<1>4. CASE t = "api" /\ \E m \in Monitors : d \in Starts(m)
  BY <1>4, DoFields DEF Starts
<1>5. CASE t = "api" /\ d \in Showing("initial")
  BY <1>5, DoFields DEF Showing
<1>6. CASE t = "api" /\ d \in {Do("check", "flow"), Do("countdown", "initial"), GivingUp,
                               Do("close", "window"), Do("join", "window")}
  BY <1>6, DoFields DEF GivingUp
<1>7. CASE t = "power" /\ d \in Showing("reprotection") \cup {Do("countdown", "reprotection"), GivingUp}
  BY <1>7, DoFields DEF Showing, GivingUp
<1>8. CASE t = "window" /\ d = Do("destroy", "window")
  BY <1>8, DoFields
<1>9. CASE t \in Timers /\ d \in {Do("turn_off", "display"), Do("settle", "flow"), GivingUp}
  <2>1. t \notin {"input", "window", "api", "power"}
    BY <1>9, ConstantsAssumption
  <2> QED
    BY <1>9, <2>1, DoFields DEF GivingUp
<1> HIDE DEF G
<1> QED
  BY OwnCalls, <1>2, <1>3, <1>4, <1>5, <1>6, <1>7, <1>8, <1>9

\* What is left of a whole handler after its next call.
LEMMA WholeRest ==
  ASSUME NEW C, NEW h \in C, Whole(C), \A d \in C : Position(d) \in Nat,
         \A d \in C : d # h => Position(h) < Position(d)
  PROVE  Whole(C \ {h})
<1> DEFINE D == C \ {h}
<1>1. ASSUME NEW m \in Monitors
      PROVE  /\ Do("record_stop", m) \in D =>
                   Do("join", m) \in D \/ \A d \in D : Position(d) >= 3 + OfMonitor[m]
             /\ Do("join", m) \in D =>
                   Do("request_stop", m) \in D \/ \A d \in D : Position(d) >= 2 + OfMonitor[m]
  <2>1. /\ Position(Do("join", m)) = 2 + OfMonitor[m] /\ OfMonitor[m] \in {0, 3}
        /\ Position(Do("request_stop", m)) = 1 + OfMonitor[m]
    BY Places
  <2>2. /\ Do("record_stop", m) \in C =>
              Do("join", m) \in C \/ \A d \in C : Position(d) >= 3 + OfMonitor[m]
        /\ Do("join", m) \in C =>
              Do("request_stop", m) \in C \/ \A d \in C : Position(d) >= 2 + OfMonitor[m]
    BY DEF Whole
  <2> QED
    BY <2>1, <2>2
<1>2. ASSUME NEW m \in Monitors
      PROVE  /\ Do("start", m) \in D => Do("spawn", m) \in D
             /\ Do("spawn", m) \in D => Do("ready", m) \in D
             /\ Do("ready", m) \in D => Do("record_start", m) \in D
             /\ Do("record_start", m) \in D =>
                   /\ Do("countdown", "initial") \in D
                   /\ Do("spawn", m) \in D \/ \A d \in D : Position(d) >= 2 + OfStart[m]
  <2>1. /\ OfStart[m] \in {8, 12}
        /\ Position(Do("start", m)) = OfStart[m]
        /\ Position(Do("spawn", m)) = 1 + OfStart[m]
        /\ Position(Do("ready", m)) = 2 + OfStart[m]
        /\ Position(Do("record_start", m)) = 3 + OfStart[m]
        /\ Position(Do("countdown", "initial")) = 16
    BY Places DEF Counting
  <2>2. /\ Do("start", m) \in C => Do("spawn", m) \in C
        /\ Do("spawn", m) \in C => Do("ready", m) \in C
        /\ Do("ready", m) \in C => Do("record_start", m) \in C
        /\ Do("record_start", m) \in C =>
              /\ Do("countdown", "initial") \in C
              /\ Do("spawn", m) \in C \/ \A d \in C : Position(d) >= 2 + OfStart[m]
    BY DEF Whole
  <2> QED
    BY <2>1, <2>2
<1>3. Do("record_start", "input") \in D => Do("spawn", "power") \in D
  <2>1. Position(Do("record_start", "input")) = 11 /\ Position(Do("spawn", "power")) = 13
    BY Places DEF Monitors
  <2>2. Do("record_start", "input") \in C => Do("spawn", "power") \in C
    BY DEF Whole
  <2> QED
    BY <2>1, <2>2
<1>4. GivingUp \in D =>
          \A d \in D : d.call \in {"request_stop", "join", "record_stop", "deactivate"}
  BY DEF Whole
<1> HIDE DEF D
<1>5. Whole(D)
  BY <1>1, <1>2, <1>3, <1>4 DEF Whole
<1> QED
  BY <1>5 DEF D

\* A handler makes its next call and goes on.
LEMMA Rest ==
  ASSUME NEW t \in Threads, NEW s, Program(t, s), s # <<>>
  PROVE  /\ Head(s) \in Elems(s) /\ Elems(s) \subseteq Own(t)
         /\ Program(t, Tail(s)) /\ Elems(Tail(s)) = Elems(s) \ {Head(s)}
         /\ \A d \in Elems(s) : Position(d) \in Nat
         /\ \A d \in Elems(s) : d # Head(s) => Position(Head(s)) < Position(d)
<1>1. s \in Seq(Own(t)) /\ Ordered(s) /\ Whole(Elems(s))
  BY DEF Program
<1>2. \A d \in Own(t) : Position(d) \in Nat /\ Position(d) \in Int
  BY OwnPlaces
<1>3. /\ Head(s) \in Elems(s) /\ Elems(s) \subseteq Own(t)
      /\ Tail(s) \in Seq(Own(t)) /\ Ordered(Tail(s))
      /\ Elems(Tail(s)) = Elems(s) \ {Head(s)}
      /\ \A d \in Elems(s) : d # Head(s) => Position(Head(s)) < Position(d)
  BY <1>1, <1>2, HeadTail
<1>4. \A d \in Elems(s) : Position(d) \in Nat
  BY <1>2, <1>3
<1>5. Whole(Elems(Tail(s)))
  <2>1. Whole(Elems(s) \ {Head(s)})
    BY <1>1, <1>3, <1>4, WholeRest
  <2> QED
    BY <2>1, <1>3
<1> QED
  BY <1>1, <1>3, <1>4, <1>5 DEF Program

\* Handlers of a few calls.
LEMMA NoCalls == Elems(<<>>) = {} /\ Ordered(<<>>) /\ \A S : <<>> \in Seq(S)
BY DEF Elems, Ordered

LEMMA OneCall ==
  ASSUME NEW S, NEW a \in S
  PROVE  <<a>> \in Seq(S) /\ Elems(<<a>>) = {a} /\ Ordered(<<a>>)
<1> DEFINE s == <<a>>
<1>1. s \in Seq(S) /\ DOMAIN s = {1} /\ s[1] = a
  OBVIOUS
<1> HIDE DEF s
<1>2. Elems(s) = {a} /\ Ordered(s)
  BY <1>1 DEF Elems, Ordered
<1> QED
  BY <1>1, <1>2 DEF s

LEMMA TwoCalls ==
  ASSUME NEW S, NEW a \in S, NEW b \in S, Position(a) < Position(b)
  PROVE  <<a, b>> \in Seq(S) /\ Elems(<<a, b>>) = {a, b} /\ Ordered(<<a, b>>)
<1> DEFINE s == <<a, b>>
<1>1. s \in Seq(S) /\ DOMAIN s = {1, 2} /\ s[1] = a /\ s[2] = b
  OBVIOUS
<1> HIDE DEF s
<1>2. Elems(s) = {a, b} /\ Ordered(s)
  BY <1>1 DEF Elems, Ordered
<1> QED
  BY <1>1, <1>2 DEF s

LEMMA ThreeCalls ==
  ASSUME NEW S, NEW a \in S, NEW b \in S, NEW c \in S, NEW n \in Int,
         Position(a) = n, Position(b) \in Int, Position(c) \in Int,
         Position(a) < Position(b), Position(b) < Position(c)
  PROVE  <<a, b, c>> \in Seq(S) /\ Elems(<<a, b, c>>) = {a, b, c} /\ Ordered(<<a, b, c>>)
<1> DEFINE s == <<a, b, c>>
<1>1. s \in Seq(S) /\ DOMAIN s = {1, 2, 3} /\ s[1] = a /\ s[2] = b /\ s[3] = c
  OBVIOUS
<1> HIDE DEF s
<1>2. Elems(s) = {a, b, c} /\ Ordered(s)
  BY <1>1 DEF Elems, Ordered
<1> QED
  BY <1>1, <1>2 DEF s

LEMMA FourCalls ==
  ASSUME NEW S, NEW a \in S, NEW b \in S, NEW c \in S, NEW d \in S, NEW n \in Int,
         Position(a) = n, Position(b) = n + 1, Position(c) = n + 2, Position(d) = n + 3
  PROVE  /\ <<a, b, c, d>> \in Seq(S) /\ Elems(<<a, b, c, d>>) = {a, b, c, d}
         /\ Ordered(<<a, b, c, d>>)
<1> DEFINE s == <<a, b, c, d>>
<1>1. s \in Seq(S) /\ DOMAIN s = {1, 2, 3, 4} /\ s[1] = a /\ s[2] = b /\ s[3] = c /\ s[4] = d
  OBVIOUS
<1> HIDE DEF s
<1>2. Elems(s) = {a, b, c, d}
  BY <1>1 DEF Elems
<1>3. Ordered(s)
  BY <1>1 DEF Ordered
<1> QED
  BY <1>1, <1>2, <1>3 DEF s

\* Stopping one monitor, and the teardown of a flow.
LEMMA StopProgram ==
  ASSUME NEW m \in Monitors
  PROVE  /\ StopCalls(m) \in Seq(Tearing) /\ Ordered(StopCalls(m))
         /\ Elems(StopCalls(m)) = Stops(m)
         /\ \A d \in Stops(m) : Position(d) \in {1 + OfMonitor[m], 2 + OfMonitor[m], 3 + OfMonitor[m]}
<1>1. /\ Position(Do("request_stop", m)) = 1 + OfMonitor[m]
      /\ Position(Do("join", m)) = 2 + OfMonitor[m]
      /\ Position(Do("record_stop", m)) = 3 + OfMonitor[m]
      /\ OfMonitor[m] \in Int
  BY Places
<1>2. Stops(m) \subseteq Tearing
  BY Zenon DEF Tearing
<1>3. /\ Do("request_stop", m) \in Tearing /\ Do("join", m) \in Tearing
      /\ Do("record_stop", m) \in Tearing
  BY <1>2 DEF Stops
<1>4. 1 + OfMonitor[m] \in Int
  BY <1>1
<1>5. /\ <<Do("request_stop", m), Do("join", m), Do("record_stop", m)>> \in Seq(Tearing)
      /\ Elems(<<Do("request_stop", m), Do("join", m), Do("record_stop", m)>>) =
            {Do("request_stop", m), Do("join", m), Do("record_stop", m)}
      /\ Ordered(<<Do("request_stop", m), Do("join", m), Do("record_stop", m)>>)
  BY <1>1, <1>3, <1>4, ThreeCalls
<1> QED
  BY <1>1, <1>5 DEF StopCalls, Stops

\* What the end of a flow still has to stop.
ToStop(need, m) == IF need[m] THEN Stops(m) ELSE {}
ToEnd(need) == {Do("hide", "window")} \cup ToStop(need, "input") \cup ToStop(need, "power")

LEMMA StopEither ==
  ASSUME NEW m \in Monitors, NEW b \in BOOLEAN
  PROVE  LET s == IF b THEN StopCalls(m) ELSE <<>>
         IN  /\ s \in Seq(Tearing) /\ Ordered(s)
             /\ Elems(s) = IF b THEN Stops(m) ELSE {}
             /\ \A d \in Elems(s) : Position(d) \in 1 + OfMonitor[m]..3 + OfMonitor[m]
<1>1. CASE b = TRUE
  <2>1. OfMonitor[m] \in {0, 3}
    BY Places
  <2> QED
    BY <1>1, <2>1, StopProgram
<1>2. CASE b = FALSE
  BY <1>2, NoCalls
<1> QED
  BY <1>1, <1>2

LEMMA EndProgram ==
  ASSUME NEW need \in [Monitors -> BOOLEAN]
  PROVE  /\ EndCalls(need) \in Seq(Tearing) /\ Ordered(EndCalls(need))
         /\ Elems(EndCalls(need)) = ToEnd(need)
         /\ \A d \in ToEnd(need) : Position(d) \in 0..6
<1> DEFINE h == <<Do("hide", "window")>>
           a == IF need["input"] THEN StopCalls("input") ELSE <<>>
           b == IF need["power"] THEN StopCalls("power") ELSE <<>>
<1>1. h \in Seq(Tearing) /\ Ordered(h) /\ Elems(h) = {Do("hide", "window")}
  <2>1. Do("hide", "window") \in Tearing
    BY Zenon DEF Tearing
  <2> QED
    BY <2>1, OneCall
<1>2. Position(Do("hide", "window")) = 0 /\ OfMonitor["input"] = 0 /\ OfMonitor["power"] = 3
  BY Places
<1>3. /\ a \in Seq(Tearing) /\ Ordered(a) /\ Elems(a) = ToStop(need, "input")
      /\ \A d \in Elems(a) : Position(d) \in 1..3
  <2>1. "input" \in Monitors /\ need["input"] \in BOOLEAN
    BY DEF Monitors
  <2> QED
    BY <2>1, <1>2, StopEither DEF ToStop
<1>4. /\ b \in Seq(Tearing) /\ Ordered(b) /\ Elems(b) = ToStop(need, "power")
      /\ \A d \in Elems(b) : Position(d) \in 4..6
  <2>1. "power" \in Monitors /\ need["power"] \in BOOLEAN
    BY DEF Monitors
  <2> QED
    BY <2>1, <1>2, StopEither DEF ToStop
<1> HIDE DEF a, b, h
<1>5. \A d \in Elems(h), e \in Elems(a) : Position(d) < Position(e)
  BY <1>1, <1>2, <1>3
<1> DEFINE ha == h \o a
<1>6. ha \in Seq(Tearing) /\ Ordered(ha) /\ Elems(ha) = Elems(h) \cup Elems(a)
  BY <1>1, <1>3, <1>5, Joined
<1> HIDE DEF ha
<1>7. \A d \in Elems(ha), e \in Elems(b) : Position(d) < Position(e)
  <2>1. \A d \in Elems(ha) : Position(d) \in 0..3
    <3>1. \A d \in Elems(h) : Position(d) = 0
      BY <1>1, <1>2
    <3> QED
      BY <3>1, <1>3, <1>6
  <2>2. \A d \in Elems(b) : Position(d) \in 4..6
    BY <1>4
  <2> QED
    BY <2>1, <2>2
<1>8. /\ ha \o b \in Seq(Tearing) /\ Ordered(ha \o b)
      /\ Elems(ha \o b) = Elems(ha) \cup Elems(b)
  BY <1>4, <1>6, <1>7, Joined
<1>9. EndCalls(need) = ha \o b
  BY DEF EndCalls, ha, h, a, b
<1>10. \A d \in Elems(h) \cup Elems(a) \cup Elems(b) : Position(d) \in 0..6
  BY <1>1, <1>2, <1>3, <1>4
<1> QED
  BY <1>1, <1>3, <1>4, <1>6, <1>8, <1>9, <1>10 DEF ToEnd

\* The end of a flow, with what the handler does after it.
LEMMA EndThen ==
  ASSUME NEW t \in Threads, NEW need \in [Monitors -> BOOLEAN],
         NEW rest \in Seq(Own(t)), Ordered(rest), Whole(Elems(rest)), GivingUp \notin Elems(rest),
         \A d \in Elems(rest) : Position(d) \in Nat /\ Position(d) > 6,
         \A m \in Monitors :
             Do("record_start", m) \in Elems(rest) => Do("spawn", m) \in Elems(rest)
  PROVE  /\ Program(t, EndCalls(need) \o rest)
         /\ Elems(EndCalls(need) \o rest) = ToEnd(need) \cup Elems(rest)
<1> DEFINE e == EndCalls(need)
           C == ToEnd(need) \cup Elems(rest)
<1>1. /\ e \in Seq(Tearing) /\ Ordered(e) /\ Elems(e) = ToEnd(need)
      /\ \A d \in ToEnd(need) : Position(d) \in 0..6
  BY EndProgram
<1>2. Tearing \subseteq Own(t)
  BY DEF Own
<1>3. e \in Seq(Own(t))
  BY <1>1, <1>2
<1> HIDE DEF e
<1>4. \A d \in Elems(e), r \in Elems(rest) : Position(d) < Position(r)
  BY <1>1
<1>5. e \o rest \in Seq(Own(t)) /\ Ordered(e \o rest) /\ Elems(e \o rest) = C
  BY <1>1, <1>3, <1>4, Joined
<1>6. Whole(C)
  <2>1. ASSUME NEW m \in Monitors
        PROVE  /\ Do("record_stop", m) \in C => Do("join", m) \in C
               /\ Do("join", m) \in C => Do("request_stop", m) \in C
    <3>1. \A d \in Stops(m) : Position(d) \in 0..6
      <4>1. OfMonitor[m] \in {0, 3}
        BY Places
      <4> QED
        BY <4>1, StopProgram
    <3>2. \A d \in Stops(m) : d \notin Elems(rest)
      BY <3>1
    <3>3. \A d \in Stops(m) : d \in ToEnd(need) => Stops(m) \subseteq ToEnd(need)
      <4>1. \A n \in Monitors : n # m => Stops(m) \cap Stops(n) = {}
        BY DoFields DEF Stops
      <4>2. Do("hide", "window") \notin Stops(m)
        BY DoFields DEF Stops
      <4> QED
        BY <4>1, <4>2 DEF ToEnd, ToStop, Monitors
    <3> QED
      BY <3>2, <3>3 DEF Stops
  <2>2. ASSUME NEW m \in Monitors
        PROVE  /\ Do("start", m) \in C => Do("spawn", m) \in C
               /\ Do("spawn", m) \in C => Do("ready", m) \in C
               /\ Do("ready", m) \in C => Do("record_start", m) \in C
               /\ Do("record_start", m) \in C =>
                     Do("countdown", "initial") \in C /\ Do("spawn", m) \in C
    <3>1. \A d \in Starts(m) : d \notin ToEnd(need)
      BY DoFields DEF Starts, ToEnd, ToStop, Stops
    <3>2. /\ Do("start", m) \in Elems(rest) => Do("spawn", m) \in Elems(rest)
          /\ Do("spawn", m) \in Elems(rest) => Do("ready", m) \in Elems(rest)
          /\ Do("ready", m) \in Elems(rest) => Do("record_start", m) \in Elems(rest)
          /\ Do("record_start", m) \in Elems(rest) => Do("countdown", "initial") \in Elems(rest)
      BY DEF Whole
    <3> QED
      BY <3>1, <3>2 DEF Starts
  <2>3. Do("record_start", "input") \in C => Do("spawn", "power") \in C
    <3>1. Do("record_start", "input") \notin ToEnd(need)
      BY DoFields DEF ToEnd, ToStop, Stops
    <3> QED
      BY <3>1 DEF Whole
  <2>4. GivingUp \notin C
    BY DoFields DEF ToEnd, ToStop, Stops, GivingUp
  <2> HIDE DEF C
  <2> QED
    BY <2>1, <2>2, <2>3, <2>4 DEF Whole
<1> QED
  BY <1>5, <1>6 DEF Program, e

\* Handlers that neither stop nor start a monitor.
LEMMA WholeSimple ==
  ASSUME NEW C, \A d \in C : d.call \notin {"request_stop", "record_stop", "start", "spawn",
                                            "ready", "record_start", "deactivate"},
         \A m \in Monitors : Do("join", m) \notin C
  PROVE  Whole(C)
BY DoFields DEF Whole, GivingUp

LEMMA SimpleProgram ==
  ASSUME NEW t \in Threads, NEW s \in Seq(Own(t)), Ordered(s),
         \A d \in Elems(s) : d.call \notin {"request_stop", "record_stop", "start", "spawn",
                                            "ready", "record_start", "deactivate"},
         \A m \in Monitors : Do("join", m) \notin Elems(s)
  PROVE  Program(t, s)
<1>1. Whole(Elems(s))
  BY WholeSimple
<1> QED
  BY <1>1 DEF Program

LEMMA NoProgram == \A t \in Threads : Program(t, <<>>)
<1>1. Whole(Elems(<<>>))
  BY NoCalls, WholeSimple
<1> QED
  BY <1>1, NoCalls DEF Program

LEMMA GiveUpProgram ==
  ASSUME NEW t \in Threads, t \notin {"input", "window"}
  PROVE  Program(t, <<GivingUp>>) /\ Elems(<<GivingUp>>) = {GivingUp}
<1>1. GivingUp \in Own(t)
  <2>1. GivingUp \in ApiCalls /\ GivingUp \in PowerCalls /\ GivingUp \in TimerCalls
    BY DEF ApiCalls, PowerCalls, TimerCalls
  <2> QED
    BY <2>1 DEF Own
<1>2. Elems(<<GivingUp>>) = {GivingUp} /\ <<GivingUp>> \in Seq(Own(t)) /\ Ordered(<<GivingUp>>)
  BY <1>1, OneCall
<1>3. Whole({GivingUp})
  BY DoFields DEF Whole, GivingUp
<1> QED
  BY <1>2, <1>3 DEF Program

LEMMA StopsThenGiveUp ==
  ASSUME NEW m \in Monitors
  PROVE  /\ Program("api", StopCalls(m) \o <<GivingUp>>)
         /\ Elems(StopCalls(m) \o <<GivingUp>>) = Stops(m) \cup {GivingUp}
         /\ Program("api", StopCalls(m) \o <<>>)
         /\ Elems(StopCalls(m) \o <<>>) = Stops(m)
<1> DEFINE s == StopCalls(m)
<1>1. /\ s \in Seq(Tearing) /\ Ordered(s) /\ Elems(s) = Stops(m)
      /\ \A d \in Stops(m) : Position(d) \in {1 + OfMonitor[m], 2 + OfMonitor[m], 3 + OfMonitor[m]}
  BY StopProgram
<1>2. Tearing \subseteq Own("api") /\ GivingUp \in Own("api")
  BY DEF Own, ApiCalls
<1>3. s \in Seq(Own("api"))
  BY <1>1, <1>2
<1> HIDE DEF s
<1>4. OfMonitor[m] \in {0, 3} /\ Position(GivingUp) = 21
  BY Places
<1> DEFINE g == <<GivingUp>>
<1>5. g \in Seq(Own("api")) /\ Ordered(g) /\ Elems(g) = {GivingUp}
  BY <1>2, OneCall
<1> HIDE DEF g
<1>6. \A d \in Elems(s), e \in Elems(g) : Position(d) < Position(e)
  BY <1>1, <1>4, <1>5
<1>7. s \o g \in Seq(Own("api")) /\ Ordered(s \o g) /\ Elems(s \o g) = Stops(m) \cup {GivingUp}
  <2>1. s \o g \in Seq(Own("api")) /\ Ordered(s \o g) /\ Elems(s \o g) = Elems(s) \cup Elems(g)
    BY <1>1, <1>3, <1>5, <1>6, Joined
  <2> QED
    BY <1>1, <1>5, <2>1
<1>8. s \o <<>> = s
  BY <1>3
<1>9. Whole(Stops(m)) /\ Whole(Stops(m) \cup {GivingUp})
  BY DoFields DEF Whole, Stops, GivingUp
<1>10. "api" \in Threads
  BY DEF Threads
<1> QED
  BY <1>1, <1>3, <1>7, <1>8, <1>9, <1>10 DEF Program, s, g

\* Starting one monitor, and all that arm() does.
LEMMA StartProgram ==
  ASSUME NEW m \in Monitors
  PROVE  /\ StartCalls(m) \in Seq(Own("api")) /\ Ordered(StartCalls(m))
         /\ Elems(StartCalls(m)) = Starts(m)
         /\ \A d \in Starts(m) : Position(d) \in OfStart[m]..OfStart[m] + 3
<1>1. /\ Position(Do("start", m)) = OfStart[m]
      /\ Position(Do("spawn", m)) = 1 + OfStart[m]
      /\ Position(Do("ready", m)) = 2 + OfStart[m]
      /\ Position(Do("record_start", m)) = 3 + OfStart[m]
      /\ OfStart[m] \in {8, 12}
  BY Places
<1>2. Starts(m) \subseteq Own("api")
  <2>1. Starts(m) \subseteq Starting
    BY Zenon DEF Starting
  <2> QED
    BY <2>1 DEF Own, ApiCalls
<1>3. /\ Do("start", m) \in Own("api") /\ Do("spawn", m) \in Own("api")
      /\ Do("ready", m) \in Own("api") /\ Do("record_start", m) \in Own("api")
  BY <1>2 DEF Starts
<1>4. OfStart[m] \in Int /\ OfStart[m] + 1 = 1 + OfStart[m]
  BY <1>1
<1>5. /\ Position(Do("spawn", m)) = OfStart[m] + 1
      /\ Position(Do("ready", m)) = OfStart[m] + 2
      /\ Position(Do("record_start", m)) = OfStart[m] + 3
  BY <1>1
<1>6. /\ <<Do("start", m), Do("spawn", m), Do("ready", m), Do("record_start", m)>> \in Seq(Own("api"))
      /\ Elems(<<Do("start", m), Do("spawn", m), Do("ready", m), Do("record_start", m)>>) =
            {Do("start", m), Do("spawn", m), Do("ready", m), Do("record_start", m)}
      /\ Ordered(<<Do("start", m), Do("spawn", m), Do("ready", m), Do("record_start", m)>>)
  BY <1>1, <1>3, <1>4, <1>5, FourCalls
<1> QED
  BY <1>1, <1>6 DEF StartCalls, Starts

ArmSet == {Do("check", "flow")} \cup Starts("input") \cup Starts("power")
                                \cup {Do("countdown", "initial")}

LEMMA ArmProgram ==
  /\ ArmCalls \in Seq(Own("api")) /\ Ordered(ArmCalls) /\ Elems(ArmCalls) = ArmSet
  /\ Whole(ArmSet) /\ GivingUp \notin ArmSet
  /\ \A d \in ArmSet : Position(d) \in 7..16
<1> DEFINE c == <<Do("check", "flow")>>
           i == StartCalls("input")
           p == StartCalls("power")
           n == <<Do("countdown", "initial")>>
<1>1. /\ Position(Do("check", "flow")) = 7 /\ Position(Do("countdown", "initial")) = 16
      /\ OfStart["input"] = 8 /\ OfStart["power"] = 12
  BY Places DEF Counting
<1>2. Do("check", "flow") \in Own("api") /\ Do("countdown", "initial") \in Own("api")
  BY DEF Own, ApiCalls
<1>3. c \in Seq(Own("api")) /\ Ordered(c) /\ Elems(c) = {Do("check", "flow")}
  BY <1>2, OneCall
<1>4. n \in Seq(Own("api")) /\ Ordered(n) /\ Elems(n) = {Do("countdown", "initial")}
  BY <1>2, OneCall
<1>5. /\ i \in Seq(Own("api")) /\ Ordered(i) /\ Elems(i) = Starts("input")
      /\ \A d \in Elems(i) : Position(d) \in 8..11
  BY <1>1, StartProgram DEF Monitors
<1>6. /\ p \in Seq(Own("api")) /\ Ordered(p) /\ Elems(p) = Starts("power")
      /\ \A d \in Elems(p) : Position(d) \in 12..15
  BY <1>1, StartProgram DEF Monitors
<1> HIDE DEF c, i, p, n
<1>7. (\A d \in Elems(c) : Position(d) = 7) /\ (\A d \in Elems(n) : Position(d) = 16)
  BY <1>1, <1>3, <1>4
<1> DEFINE ci == c \o i
<1>8. ci \in Seq(Own("api")) /\ Ordered(ci) /\ Elems(ci) = Elems(c) \cup Elems(i)
  <2>1. \A d \in Elems(c), e \in Elems(i) : Position(d) < Position(e)
    BY <1>5, <1>7
  <2> QED
    BY <1>3, <1>5, <2>1, Joined
<1> HIDE DEF ci
<1>9. \A d \in Elems(ci) : Position(d) \in 7..11
  BY <1>5, <1>7, <1>8
<1> DEFINE cip == ci \o p
<1>10. cip \in Seq(Own("api")) /\ Ordered(cip) /\ Elems(cip) = Elems(ci) \cup Elems(p)
  <2>1. \A d \in Elems(ci), e \in Elems(p) : Position(d) < Position(e)
    BY <1>6, <1>9
  <2> QED
    BY <1>6, <1>8, <2>1, Joined
<1> HIDE DEF cip
<1>11. \A d \in Elems(cip) : Position(d) \in 7..15
  BY <1>6, <1>9, <1>10
<1>12. /\ cip \o n \in Seq(Own("api")) /\ Ordered(cip \o n)
       /\ Elems(cip \o n) = Elems(cip) \cup Elems(n)
  <2>1. \A d \in Elems(cip), e \in Elems(n) : Position(d) < Position(e)
    BY <1>7, <1>11
  <2> QED
    BY <1>4, <1>10, <2>1, Joined
<1>13. ArmCalls = cip \o n
  BY DEF ArmCalls, cip, ci, c, i, p, n
<1>14. Elems(cip \o n) = ArmSet
  BY <1>3, <1>4, <1>5, <1>6, <1>8, <1>10, <1>12 DEF ArmSet
<1>15. \A d \in ArmSet : Position(d) \in 7..16
  BY <1>7, <1>11, <1>12, <1>14
<1>16. GivingUp \notin ArmSet
  BY DoFields DEF ArmSet, Starts, GivingUp
<1>17. Whole(ArmSet)
  BY <1>16, DoFields DEF Whole, ArmSet, Starts, Monitors
<1> QED
  BY <1>12, <1>13, <1>14, <1>15, <1>16, <1>17

\* The teardowns of arm(), of close(), of a click on the close button, and of all
\* the others.
LEMMA ArmTeardown ==
  ASSUME NEW need \in [Monitors -> BOOLEAN]
  PROVE  /\ Program("api", EndCalls(need) \o ArmCalls)
         /\ Elems(EndCalls(need) \o ArmCalls) = ToEnd(need) \cup ArmSet
<1>1. "api" \in Threads
  BY DEF Threads
<1>2. \A m \in Monitors : Do("record_start", m) \in ArmSet => Do("spawn", m) \in ArmSet
  BY DEF ArmSet, Starts, Monitors
<1>3. \A d \in Elems(ArmCalls) : Position(d) \in Nat /\ Position(d) > 6
  BY ArmProgram
<1> QED
  BY <1>1, <1>2, <1>3, ArmProgram, EndThen

CloseSet == {Do("close", "window"), Do("join", "window")}

LEMMA CloseTeardown ==
  ASSUME NEW need \in [Monitors -> BOOLEAN]
  PROVE  /\ Program("api", EndCalls(need) \o <<Do("close", "window"), Do("join", "window")>>)
         /\ Elems(EndCalls(need) \o <<Do("close", "window"), Do("join", "window")>>) =
               ToEnd(need) \cup CloseSet
<1> DEFINE r == <<Do("close", "window"), Do("join", "window")>>
<1>1. "api" \in Threads
  BY DEF Threads
<1>2. Position(Do("close", "window")) = 16 /\ Position(Do("join", "window")) = 17
  BY Places
<1>3. Do("close", "window") \in Own("api") /\ Do("join", "window") \in Own("api")
  BY DEF Own, ApiCalls
<1>4. r \in Seq(Own("api")) /\ Ordered(r) /\ Elems(r) = CloseSet
  BY <1>2, <1>3, TwoCalls DEF CloseSet
<1> HIDE DEF r
<1>5. \A d \in Elems(r) : Position(d) \in Nat /\ Position(d) > 6
  BY <1>2, <1>4 DEF CloseSet
<1>6. /\ \A d \in CloseSet : d.call \notin {"request_stop", "record_stop", "start", "spawn",
                                            "ready", "record_start", "deactivate"}
      /\ \A m \in Monitors : Do("join", m) \notin CloseSet
  BY DoFields DEF CloseSet, Monitors
<1>7. Whole(Elems(r))
  BY <1>4, <1>6, WholeSimple
<1>8. /\ GivingUp \notin Elems(r)
      /\ \A m \in Monitors : Do("record_start", m) \in Elems(r) => Do("spawn", m) \in Elems(r)
  BY <1>4, DoFields DEF CloseSet, GivingUp
<1>9. /\ Program("api", EndCalls(need) \o r)
      /\ Elems(EndCalls(need) \o r) = ToEnd(need) \cup Elems(r)
  BY <1>1, <1>4, <1>5, <1>7, <1>8, EndThen
<1> QED
  BY <1>4, <1>9 DEF r

LEMMA DestroyProgram ==
  /\ Program("window", <<Do("destroy", "window")>>)
  /\ Elems(<<Do("destroy", "window")>>) = {Do("destroy", "window")}
  /\ Ordered(<<Do("destroy", "window")>>) /\ <<Do("destroy", "window")>> \in Seq(Own("window"))
<1>1. Do("destroy", "window") \in Own("window")
  BY DEF Own
<1>2. /\ Elems(<<Do("destroy", "window")>>) = {Do("destroy", "window")}
      /\ Ordered(<<Do("destroy", "window")>>) /\ <<Do("destroy", "window")>> \in Seq(Own("window"))
  BY <1>1, OneCall
<1>3. "window" \in Threads
  BY DEF Threads, Loops
<1>4. Whole({Do("destroy", "window")})
  BY DoFields, WholeSimple
<1> QED
  BY <1>2, <1>4 DEF Program

LEMMA DestroyTeardown ==
  ASSUME NEW need \in [Monitors -> BOOLEAN]
  PROVE  /\ Program("window", EndCalls(need) \o <<Do("destroy", "window")>>)
         /\ Elems(EndCalls(need) \o <<Do("destroy", "window")>>) =
               ToEnd(need) \cup {Do("destroy", "window")}
<1> DEFINE r == <<Do("destroy", "window")>>
<1>1. "window" \in Threads
  BY DEF Threads, Loops
<1>2. /\ Elems(r) = {Do("destroy", "window")} /\ Ordered(r) /\ r \in Seq(Own("window"))
      /\ Whole(Elems(r))
  BY DestroyProgram DEF Program
<1> HIDE DEF r
<1>3. Position(Do("destroy", "window")) = 16
  BY Places
<1>4. \A d \in Elems(r) : Position(d) \in Nat /\ Position(d) > 6
  BY <1>2, <1>3
<1>5. /\ GivingUp \notin Elems(r)
      /\ \A m \in Monitors : Do("record_start", m) \in Elems(r) => Do("spawn", m) \in Elems(r)
  BY <1>2, DoFields DEF GivingUp
<1>6. /\ Program("window", EndCalls(need) \o r)
      /\ Elems(EndCalls(need) \o r) = ToEnd(need) \cup Elems(r)
  BY <1>1, <1>2, <1>4, <1>5, EndThen
<1> QED
  BY <1>2, <1>6 DEF r

LEMMA OnlyTeardown ==
  ASSUME NEW t \in Threads, NEW need \in [Monitors -> BOOLEAN]
  PROVE  /\ Program(t, EndCalls(need) \o <<>>)
         /\ Elems(EndCalls(need) \o <<>>) = ToEnd(need)
<1> DEFINE r == <<>>
<1>1. r \in Seq(Own(t)) /\ Ordered(r) /\ Elems(r) = {} /\ Whole(Elems(r))
  BY NoCalls, NoProgram DEF Program
<1> HIDE DEF r
<1>2. /\ Program(t, EndCalls(need) \o r)
      /\ Elems(EndCalls(need) \o r) = ToEnd(need) \cup Elems(r)
  BY <1>1, EndThen
<1> QED
  BY <1>1, <1>2 DEF r

\* A countdown, a timer that fires, and a power-on message.
LEMMA ShowProgram ==
  ASSUME NEW t \in Threads, NEW n \in Counting,
         (t = "api" /\ n = "initial") \/ (t = "power" /\ n = "reprotection")
  PROVE  LET s == <<Do("show", n), Do("send_show", n), Do("verify", n), Do("start_timer", n)>>
         IN  Program(t, s) /\ Elems(s) = Showing(n)
<1> DEFINE s == <<Do("show", n), Do("send_show", n), Do("verify", n), Do("start_timer", n)>>
<1>1. Showing(n) \subseteq Own(t)
  BY DEF Own, ApiCalls, PowerCalls
<1>2. /\ Do("show", n) \in Own(t) /\ Do("send_show", n) \in Own(t)
      /\ Do("verify", n) \in Own(t) /\ Do("start_timer", n) \in Own(t)
  BY <1>1 DEF Showing
<1>3. /\ Position(Do("show", n)) = 17 /\ Position(Do("send_show", n)) = 17 + 1
      /\ Position(Do("verify", n)) = 17 + 2 /\ Position(Do("start_timer", n)) = 17 + 3
  BY Places
<1>4. /\ s \in Seq(Own(t)) /\ Ordered(s)
      /\ Elems(s) = {Do("show", n), Do("send_show", n), Do("verify", n), Do("start_timer", n)}
  BY <1>2, <1>3, FourCalls
<1> HIDE DEF s
<1>5. Elems(s) = Showing(n)
  BY <1>4 DEF Showing
<1>6. /\ \A d \in Elems(s) : d.call \notin {"request_stop", "record_stop", "start", "spawn",
                                            "ready", "record_start", "deactivate"}
      /\ \A m \in Monitors : Do("join", m) \notin Elems(s)
  BY <1>5, DoFields DEF Showing
<1>7. Program(t, s)
  BY <1>4, <1>6, SimpleProgram
<1> QED
  BY <1>5, <1>7 DEF s

FireSet == {Do("hide", "window"), Do("turn_off", "display"), Do("settle", "flow")}

LEMMA FireProgram ==
  ASSUME NEW k \in Timers
  PROVE  LET s == <<Do("hide", "window"), Do("turn_off", "display"), Do("settle", "flow")>>
         IN  Program(k, s) /\ Elems(s) = FireSet
<1> DEFINE s == <<Do("hide", "window"), Do("turn_off", "display"), Do("settle", "flow")>>
<1>1. k \in Threads /\ k \notin {"input", "power", "window", "api"}
  BY ConstantsAssumption DEF Threads
<1>2. /\ Do("hide", "window") \in Own(k) /\ Do("turn_off", "display") \in Own(k)
      /\ Do("settle", "flow") \in Own(k)
  <2>1. Do("hide", "window") \in Tearing
    BY Zenon DEF Tearing
  <2> QED
    BY <1>1, <2>1 DEF Own, TimerCalls
<1>3. /\ Position(Do("hide", "window")) = 0 /\ Position(Do("turn_off", "display")) = 7
      /\ Position(Do("settle", "flow")) = 16
  BY Places
<1>4. /\ s \in Seq(Own(k)) /\ Ordered(s)
      /\ Elems(s) = {Do("hide", "window"), Do("turn_off", "display"), Do("settle", "flow")}
  BY <1>2, <1>3, ThreeCalls
<1> HIDE DEF s
<1>5. Elems(s) = FireSet
  BY <1>4 DEF FireSet
<1>6. /\ \A d \in Elems(s) : d.call \notin {"request_stop", "record_stop", "start", "spawn",
                                            "ready", "record_start", "deactivate"}
      /\ \A m \in Monitors : Do("join", m) \notin Elems(s)
  BY <1>5, DoFields DEF FireSet
<1>7. Program(k, s)
  BY <1>1, <1>4, <1>6, SimpleProgram
<1> QED
  BY <1>5, <1>7 DEF s

LEMMA WakeProgram ==
  LET s == <<Do("countdown", "reprotection")>>
  IN  Program("power", s) /\ Elems(s) = {Do("countdown", "reprotection")}
<1> DEFINE s == <<Do("countdown", "reprotection")>>
<1>1. "power" \in Threads /\ Do("countdown", "reprotection") \in Own("power")
  BY DEF Threads, Loops, Monitors, Own, PowerCalls
<1>2. s \in Seq(Own("power")) /\ Ordered(s) /\ Elems(s) = {Do("countdown", "reprotection")}
  BY <1>1, OneCall
<1> HIDE DEF s
<1>3. /\ \A d \in Elems(s) : d.call \notin {"request_stop", "record_stop", "start", "spawn",
                                            "ready", "record_start", "deactivate"}
      /\ \A m \in Monitors : Do("join", m) \notin Elems(s)
  BY <1>2, DoFields
<1>4. Program("power", s)
  BY <1>1, <1>2, <1>3, SimpleProgram
<1> QED
  BY <1>2, <1>4 DEF s

\* arm() stops a monitor that is left over before it starts the new one.
LEMMA RestartProgram ==
  ASSUME NEW m \in Monitors, NEW s, Program("api", s), s # <<>>, Head(s) = Do("start", m)
  PROVE  LET r == <<Do("request_stop", m), Do("join", m)>> \o Tail(s)
         IN  /\ Program("api", r)
             /\ Elems(r) = (Elems(s) \ {Do("start", m)}) \cup {Do("request_stop", m), Do("join", m)}
<1> DEFINE q == <<Do("request_stop", m), Do("join", m)>>
           C == Elems(s) \ {Do("start", m)}
           Q == {Do("request_stop", m), Do("join", m)}
           z == Tail(s)
<1>1. "api" \in Threads
  BY DEF Threads
<1>2. /\ Do("start", m) \in Elems(s) /\ Program("api", z) /\ Elems(z) = C
      /\ \A d \in Elems(s) : Position(d) \in Nat
      /\ \A d \in Elems(s) : d # Do("start", m) => Position(Do("start", m)) < Position(d)
  BY <1>1, Rest
<1>3. /\ OfMonitor[m] \in {0, 3} /\ OfStart[m] \in {8, 12}
      /\ Position(Do("request_stop", m)) = 1 + OfMonitor[m]
      /\ Position(Do("join", m)) = 2 + OfMonitor[m]
      /\ Position(Do("record_stop", m)) = 3 + OfMonitor[m]
      /\ Position(Do("start", m)) = OfStart[m]
      /\ Position(Do("spawn", m)) = 1 + OfStart[m]
      /\ Position(GivingUp) = 21
  BY Places
<1>4. Do("request_stop", m) \in Own("api") /\ Do("join", m) \in Own("api")
  <2>1. Stops(m) \subseteq Tearing
    BY Zenon DEF Tearing
  <2> QED
    BY <2>1 DEF Stops, Own
<1>5. q \in Seq(Own("api")) /\ Ordered(q) /\ Elems(q) = Q
  BY <1>3, <1>4, TwoCalls
<1> HIDE DEF q, z
<1>6. z \in Seq(Own("api")) /\ Ordered(z) /\ Whole(C)
  BY <1>2 DEF Program
<1>7. \A d \in C : Position(d) \in Nat /\ Position(d) > OfStart[m]
  BY <1>2, <1>3
<1>8. \A d \in Elems(q), e \in Elems(z) : Position(d) < Position(e)
  <2>1. \A d \in Elems(q) : Position(d) \in 0..5
    BY <1>3, <1>5
  <2>2. \A d \in Elems(z) : Position(d) \in Nat /\ Position(d) > 8
    BY <1>2, <1>3, <1>7
  <2> QED
    BY <2>1, <2>2
<1>9. /\ q \o z \in Seq(Own("api")) /\ Ordered(q \o z) /\ Elems(q \o z) = Elems(q) \cup Elems(z)
  BY <1>5, <1>6, <1>8, Joined
<1>10. Whole(C \cup Q)
  <2>1. \A n \in Monitors : Do("record_stop", n) \notin C /\ Do("join", n) \notin C
    BY <1>7, Places
  <2>2. \A n \in Monitors : Do("record_stop", n) \notin C \cup Q
    BY <2>1, DoFields
  <2>3. \A n \in Monitors : Do("join", n) \in C \cup Q => Do("request_stop", n) \in C \cup Q
    BY <2>1, DoFields
  <2>4. \A n \in Monitors : \A d \in Starts(n) : d \in C \cup Q => d \in C
    BY DoFields DEF Starts
  <2>5. Do("start", m) \in Elems(s) /\ Whole(Elems(s))
    BY <1>2 DEF Program
  <2>6. Do("spawn", m) \in C
    BY <2>5, DoFields DEF Whole
  <2>7. GivingUp \notin C \cup Q
    <3>1. Do("spawn", m).call = "spawn"
      BY DoFields
    <3>2. GivingUp \notin C
      BY <2>6, <3>1, <1>6 DEF Whole
    <3> QED
      BY <3>2, DoFields DEF GivingUp
  <2>8. ASSUME NEW n \in Monitors, Do("record_start", n) \in C PROVE Do("spawn", n) \in C
    <3>1. CASE n = m
      BY <2>6, <3>1
    <3>2. CASE n # m /\ n = "power"
      <4>1. m = "input"
        BY <3>2 DEF Monitors
      <4>2. Do("record_start", "input") \in C
        BY <2>6, <4>1, <1>6 DEF Whole
      <4> QED
        BY <3>2, <4>2, <1>6 DEF Whole
    <3>3. ~(n # m /\ n = "input")
      <4>1. Position(Do("record_start", "input")) = 11 /\ OfStart["power"] = 12
        BY Places DEF Monitors
      <4>2. n = "input" => Position(Do("record_start", "input")) > OfStart[m]
        BY <1>7, <2>8
      <4> QED
        BY <4>1, <4>2 DEF Monitors
    <3> QED
      BY <3>1, <3>2, <3>3 DEF Monitors
  <2>9. ASSUME NEW n \in Monitors
        PROVE  /\ Do("start", n) \in C \cup Q => Do("spawn", n) \in C \cup Q
               /\ Do("spawn", n) \in C \cup Q => Do("ready", n) \in C \cup Q
               /\ Do("ready", n) \in C \cup Q => Do("record_start", n) \in C \cup Q
               /\ Do("record_start", n) \in C \cup Q =>
                     Do("countdown", "initial") \in C \cup Q /\ Do("spawn", n) \in C \cup Q
    <3>1. /\ Do("start", n) \in C => Do("spawn", n) \in C
          /\ Do("spawn", n) \in C => Do("ready", n) \in C
          /\ Do("ready", n) \in C => Do("record_start", n) \in C
          /\ Do("record_start", n) \in C => Do("countdown", "initial") \in C
      BY <1>6 DEF Whole
    <3> QED
      BY <2>4, <2>8, <3>1 DEF Starts
  <2>10. Do("record_start", "input") \in C \cup Q => Do("spawn", "power") \in C \cup Q
    <3>1. Do("record_start", "input") \in C => Do("spawn", "power") \in C
      BY <1>6 DEF Whole
    <3> QED
      BY <3>1, DoFields
  <2> HIDE DEF C, Q
  <2> QED
    BY <2>2, <2>3, <2>7, <2>9, <2>10 DEF Whole
<1> QED
  BY <1>2, <1>5, <1>9, <1>10 DEF Program, q, z

-----------------------------------------------------------------------------
(* One step of a thread.                                                   *)

\* Thread t has the calls C left after the step, the other threads what they had.
Goes(t, C) ==
    /\ \A u \in Threads : Elems(todo'[u]) = IF u = t THEN C ELSE Elems(todo[u])
    /\ \A u \in Threads \ {t} : todo'[u] = todo[u]

LEMMA Moved ==
  ASSUME NEW t \in Threads, NEW s, DOMAIN todo = Threads, ProgramOK, Program(t, s), Then(t, s)
  PROVE  ProgramOK' /\ Goes(t, Elems(s)) /\ DOMAIN todo' = Threads /\ todo'[t] = s
<1>1. todo' = [todo EXCEPT ![t] = s]
  BY DEF Then
<1>2. DOMAIN todo' = Threads /\ todo'[t] = s /\ \A u \in Threads \ {t} : todo'[u] = todo[u]
  BY <1>1
<1>3. ProgramOK'
  BY <1>2 DEF ProgramOK
<1> QED
  BY <1>2, <1>3 DEF Goes

LEMMA NoneMoved ==
  ASSUME ProgramOK, UNCHANGED todo, NEW t \in Threads
  PROVE  ProgramOK' /\ Goes(t, Elems(todo[t]))
BY DEF ProgramOK, Goes

\* The next call of a thread, and what is left after it.
LEMMA NextCall ==
  ASSUME NEW t \in Threads, ProgramOK, todo[t] # <<>>
  PROVE  /\ Head(todo[t]) \in Elems(todo[t]) /\ Elems(todo[t]) \subseteq Own(t)
         /\ Program(t, Tail(todo[t]))
         /\ Elems(Tail(todo[t])) = Elems(todo[t]) \ {Head(todo[t])}
         /\ \A d \in Elems(todo[t]) : Position(d) \in Nat
         /\ \A d \in Elems(todo[t]) :
               d # Head(todo[t]) => Position(Head(todo[t])) < Position(d)
<1>1. Program(t, todo[t])
  BY DEF ProgramOK
<1> QED
  BY <1>1, Rest

LEMMA IdleHasNone ==
  ASSUME NEW t \in Threads, ProgramOK
  PROVE  todo[t] = <<>> <=> Elems(todo[t]) = {}
<1>1. todo[t] = <<>> => Elems(todo[t]) = {}
  BY NoCalls
<1>2. todo[t] # <<>> => Elems(todo[t]) # {}
  BY NextCall
<1> QED
  BY <1>1, <1>2

\* What is behind a thread that makes a call.
LEMMA Behind ==
  ASSUME NEW t \in Threads, ProgramOK, todo[t] # <<>>
  PROVE  LET p == Position(Head(todo[t]))
         IN  /\ p \in Nat
             /\ p > 0 => ~Has(t, "hide", "window")
             /\ p > 6 => \A m \in Monitors : ~Stopping(t, m)
             /\ p > 7 => ~Has(t, "check", "flow")
             /\ p > 15 => \A m \in Monitors : ~Has(t, "start", m) /\ ~Has(t, "spawn", m)
                                           /\ ~Has(t, "ready", m) /\ ~Has(t, "record_start", m)
             /\ p > 16 => /\ ~Has(t, "settle", "flow") /\ ~Has(t, "close", "window")
                          /\ ~Has(t, "countdown", "initial")
<1> DEFINE h == Head(todo[t])
           C == Elems(todo[t])
<1>1. /\ h \in C /\ \A d \in C : Position(d) \in Nat
      /\ \A d \in C : d # h => Position(h) < Position(d)
  BY NextCall
<1> HIDE DEF h, C
<1>2. \A d \in C : Position(d) >= Position(h)
  BY <1>1
<1>3. Position(Do("hide", "window")) = 0 /\ Position(Do("check", "flow")) = 7
      /\ Position(Do("settle", "flow")) = 16 /\ Position(Do("close", "window")) = 16
      /\ Position(Do("countdown", "initial")) = 16
  BY Places DEF Counting
<1>4. ASSUME NEW m \in Monitors, Position(h) > 6
      PROVE  Do("request_stop", m) \notin C /\ Do("join", m) \notin C /\ Do("record_stop", m) \notin C
  <2>1. /\ OfMonitor[m] \in {0, 3}
        /\ Position(Do("request_stop", m)) = 1 + OfMonitor[m]
        /\ Position(Do("join", m)) = 2 + OfMonitor[m]
        /\ Position(Do("record_stop", m)) = 3 + OfMonitor[m]
    BY Places
  <2> QED
    BY <1>1, <1>2, <1>4, <2>1
<1>5. ASSUME NEW m \in Monitors, Position(h) > 15
      PROVE  /\ Do("start", m) \notin C /\ Do("spawn", m) \notin C
             /\ Do("ready", m) \notin C /\ Do("record_start", m) \notin C
  <2>1. /\ OfStart[m] \in {8, 12}
        /\ Position(Do("start", m)) = OfStart[m]
        /\ Position(Do("spawn", m)) = 1 + OfStart[m]
        /\ Position(Do("ready", m)) = 2 + OfStart[m]
        /\ Position(Do("record_start", m)) = 3 + OfStart[m]
    BY Places
  <2> QED
    BY <1>1, <1>2, <1>5, <2>1
<1>6. /\ Position(h) \in Nat
      /\ Position(h) > 0 => Do("hide", "window") \notin C
      /\ Position(h) > 7 => Do("check", "flow") \notin C
      /\ Position(h) > 16 => /\ Do("settle", "flow") \notin C /\ Do("close", "window") \notin C
                             /\ Do("countdown", "initial") \notin C
  BY <1>1, <1>2, <1>3
<1> QED
  BY <1>4, <1>5, <1>6 DEF Has, Stopping, h, C

\* All that a call says of the thread that makes it.
After == {"countdown", "show", "send_show", "verify", "start_timer", "settle", "close",
          "destroy", "deactivate"}
Called(t, c) ==
    /\ todo[t] # <<>> /\ Head(todo[t]) = Do(c, Now(t)) /\ Do(c, Now(t)) \in Elems(todo[t])
    /\ Program(t, Tail(todo[t]))
    /\ Elems(Tail(todo[t])) = Elems(todo[t]) \ {Do(c, Now(t))}
    /\ c \in {"request_stop", "record_stop"} => Now(t) \in Monitors
    /\ c = "join" => Now(t) \in Monitors \/ (Now(t) = "window" /\ t = "api")
    /\ c \in {"start", "spawn", "ready", "record_start"} => t = "api" /\ Now(t) \in Monitors
    /\ c \in {"countdown", "show", "send_show", "verify", "start_timer"} =>
          (t = "api" /\ Now(t) = "initial") \/ (t = "power" /\ Now(t) = "reprotection")
    /\ c \in {"turn_off", "settle"} => t \in Timers
    /\ c \in {"settle", "check", "deactivate"} => Now(t) = "flow"
    /\ c = "turn_off" => Now(t) = "display"
    /\ c \in {"check", "close"} => t = "api"
    /\ c \in {"close", "destroy", "hide"} => Now(t) = "window"
    /\ c = "deactivate" => t \notin {"input", "window"}
    /\ c # "hide" => ~Has(t, "hide", "window")
    /\ c \notin {"hide", "request_stop", "join", "record_stop"} => \A m \in Monitors : ~Stopping(t, m)
    /\ c \in {"start", "spawn", "ready", "record_start"} \cup After => ~Has(t, "check", "flow")
    /\ c \in After => \A m \in Monitors : ~Has(t, "start", m) /\ ~Has(t, "spawn", m)
                                        /\ ~Has(t, "ready", m) /\ ~Has(t, "record_start", m)
    /\ c \in {"show", "send_show", "verify", "start_timer", "deactivate"} =>
          /\ ~Has(t, "settle", "flow") /\ ~Has(t, "close", "window")
          /\ ~Has(t, "countdown", "initial")

LEMMA AtCall ==
  ASSUME NEW t \in Threads, ProgramOK, NEW c, At(t, c)
  PROVE  Called(t, c)
<1> DEFINE d == Head(todo[t])
           n == Now(t)
<1>1. todo[t] # <<>> /\ d.call = c /\ d.on = n
  BY DEF At, Now
<1>2. /\ d \in Elems(todo[t]) /\ d \in Own(t) /\ Program(t, Tail(todo[t]))
      /\ Elems(Tail(todo[t])) = Elems(todo[t]) \ {d}
  BY <1>1, NextCall
<1>3. LET p == Position(d)
      IN  /\ p \in Nat
          /\ p > 0 => ~Has(t, "hide", "window")
          /\ p > 6 => \A m \in Monitors : ~Stopping(t, m)
          /\ p > 7 => ~Has(t, "check", "flow")
          /\ p > 15 => \A m \in Monitors : ~Has(t, "start", m) /\ ~Has(t, "spawn", m)
                                        /\ ~Has(t, "ready", m) /\ ~Has(t, "record_start", m)
          /\ p > 16 => /\ ~Has(t, "settle", "flow") /\ ~Has(t, "close", "window")
                       /\ ~Has(t, "countdown", "initial")
  BY <1>1, Behind
<1> HIDE DEF d, n
<1>4. /\ d = Do(c, n)
      /\ c \in {"request_stop", "record_stop"} => n \in Monitors
      /\ c = "join" => n \in Monitors \/ (n = "window" /\ t = "api")
      /\ c \in {"start", "spawn", "ready", "record_start"} => t = "api" /\ n \in Monitors
      /\ c \in {"countdown", "show", "send_show", "verify", "start_timer"} =>
            (t = "api" /\ n = "initial") \/ (t = "power" /\ n = "reprotection")
      /\ c \in {"turn_off", "settle"} => t \in Timers
      /\ c \in {"settle", "check", "deactivate"} => n = "flow"
      /\ c = "turn_off" => n = "display"
      /\ c \in {"check", "close"} => t = "api"
      /\ c \in {"close", "destroy", "hide"} => n = "window"
      /\ c = "deactivate" => t \notin {"input", "window"}
  <2>1. /\ d = Do(d.call, d.on)
        /\ d.call \in {"request_stop", "record_stop"} => d.on \in Monitors
        /\ d.call = "join" => d.on \in Monitors \/ (d.on = "window" /\ t = "api")
        /\ d.call \in {"start", "spawn", "ready", "record_start"} => t = "api" /\ d.on \in Monitors
        /\ d.call \in {"countdown", "show", "send_show", "verify", "start_timer"} =>
              \/ t = "api" /\ d.on = "initial"
              \/ t = "power" /\ d.on = "reprotection"
        /\ d.call \in {"turn_off", "settle"} => t \in Timers
        /\ d.call = "settle" => d = Do("settle", "flow")
        /\ d.call = "turn_off" => d = Do("turn_off", "display")
        /\ d.call = "check" => t = "api" /\ d.on = "flow"
        /\ d.call = "close" => t = "api" /\ d.on = "window"
        /\ d.call = "destroy" => t = "window" /\ d.on = "window"
        /\ d.call = "hide" => d.on = "window"
        /\ d.call = "deactivate" => d = GivingUp /\ t \notin {"input", "window"}
    BY <1>2, Kinds
  <2>2. /\ Do("settle", "flow").on = "flow" /\ GivingUp.on = "flow"
        /\ Do("turn_off", "display").on = "display"
    BY DoFields DEF GivingUp
  <2>3. d.call = c /\ d.on = n
    BY <1>1
  <2>4. c \in {"settle", "check", "deactivate"} => n = "flow"
    BY <2>1, <2>2, <2>3
  <2>5. c = "turn_off" => n = "display"
    BY <2>1, <2>2, <2>3
  <2>6. d = Do(c, n)
    BY <2>1, <2>3
  <2>7. /\ c \in {"request_stop", "record_stop"} => n \in Monitors
        /\ c = "join" => n \in Monitors \/ (n = "window" /\ t = "api")
        /\ c \in {"start", "spawn", "ready", "record_start"} => t = "api" /\ n \in Monitors
    BY <2>1, <2>3
  <2>8. c \in {"countdown", "show", "send_show", "verify", "start_timer"} =>
            (t = "api" /\ n = "initial") \/ (t = "power" /\ n = "reprotection")
    BY <2>1, <2>3
  <2>9. /\ c \in {"turn_off", "settle"} => t \in Timers
        /\ c \in {"check", "close"} => t = "api"
        /\ c \in {"close", "destroy", "hide"} => n = "window"
        /\ c = "deactivate" => t \notin {"input", "window"}
    BY <2>1, <2>3
  <2> QED
    BY <2>4, <2>5, <2>6, <2>7, <2>8, <2>9
<1>5. c \in {"hide", "request_stop", "join", "record_stop", "check", "turn_off", "start", "spawn",
            "ready", "record_start"} \cup After
  BY <1>1, <1>2, Kinds DEF After
<1>6. /\ c # "hide" => Position(d) > 0
      /\ c \notin {"hide", "request_stop", "join", "record_stop"} => Position(d) > 6
      /\ c \in {"start", "spawn", "ready", "record_start"} \cup After => Position(d) > 7
      /\ c \in After => Position(d) > 15
      /\ c \in {"show", "send_show", "verify", "start_timer", "deactivate"} => Position(d) > 16
  <2>1. CASE c \in {"request_stop", "join", "record_stop", "start", "spawn", "ready", "record_start"}
                /\ n \in Monitors
    <3>1. /\ OfMonitor[n] \in {0, 3} /\ OfStart[n] \in {8, 12}
          /\ Position(Do("request_stop", n)) = 1 + OfMonitor[n]
          /\ Position(Do("join", n)) = 2 + OfMonitor[n]
          /\ Position(Do("record_stop", n)) = 3 + OfMonitor[n]
          /\ Position(Do("start", n)) = OfStart[n]
          /\ Position(Do("spawn", n)) = 1 + OfStart[n]
          /\ Position(Do("ready", n)) = 2 + OfStart[n]
          /\ Position(Do("record_start", n)) = 3 + OfStart[n]
      BY <2>1, Places
    <3> QED
      BY <1>4, <2>1, <3>1 DEF After
  <2>2. CASE c \in {"countdown", "show", "send_show", "verify", "start_timer"}
    <3>1. n \in Counting
      BY <1>4, <2>2 DEF Counting
    <3>2. /\ Position(Do("countdown", n)) = 16
          /\ Position(Do("show", n)) = 17
          /\ Position(Do("send_show", n)) = 18
          /\ Position(Do("verify", n)) = 19
          /\ Position(Do("start_timer", n)) = 20
      BY <3>1, Places
    <3> QED
      BY <1>4, <2>2, <3>2 DEF After
  <2>3. CASE c \in {"check", "turn_off", "settle", "close", "destroy", "deactivate", "hide"}
                \/ (c = "join" /\ n = "window")
    <3>1. /\ Position(Do("check", "flow")) = 7 /\ Position(Do("turn_off", "display")) = 7
          /\ Position(Do("settle", "flow")) = 16 /\ Position(Do("close", "window")) = 16
          /\ Position(Do("destroy", "window")) = 16 /\ Position(Do("join", "window")) = 17
          /\ Position(Do("deactivate", "flow")) = 21
      BY Places DEF GivingUp
    <3> QED
      BY <1>4, <2>3, <3>1 DEF After
  <2> QED
    BY <1>4, <1>5, <2>1, <2>2, <2>3 DEF After
<1>7. /\ todo[t] # <<>> /\ d \in Elems(todo[t]) /\ Head(todo[t]) = d /\ Now(t) = n
  BY <1>1, <1>2 DEF d, n
<1> QED
  BY <1>2, <1>3, <1>4, <1>6, <1>7 DEF Called

-----------------------------------------------------------------------------
(* The types, the handlers and the timers, action by action.               *)

WinType == [up : BOOLEAN, visible : BOOLEAN, cancel : Nat, hides : Nat, doomed : BOOLEAN]
CountType == [{"arms", "fails", "timeouts"} -> Nat]
MonType == [Monitors -> [alive : BOOLEAN, stop : BOOLEAN, gen : Nat, id : Nat]]
TimersType == [Timers -> [gen : Nat, st : {"free", "new", "running"}]]
LocType(g) == [Threads -> [gen : 0..g, timer : Timers \cup {NoTimer}, id : Nat, ok : BOOLEAN]]
FlagType == [Monitors -> BOOLEAN]

LEMMA StillType == TypeInv => StillToStop \in FlagType
BY DEF TypeInv, TypeOK, StillToStop, FlagType

\* The flow ends, whoever ends it.
LEMMA EndFlowStep ==
  ASSUME LoopInv, NEW t \in Threads, NEW rest, NEW g \in {0, gen + 1}, EndFlow(t, rest, g),
         NEW R, Program(t, EndCalls(StillToStop) \o rest),
         Elems(EndCalls(StillToStop) \o rest) = ToEnd(StillToStop) \cup R,
         Do("settle", "flow") \notin R, ~Has(t, "hide", "window"),
         timers' = timers, mon' = mon, closed' \in BOOLEAN, notes' = notes, display' = display,
         win' \in WinType, count' \in CountType
  PROVE  LoopInv' /\ Goes(t, ToEnd(StillToStop) \cup R)
<1>1. /\ TypeInv /\ ProgramOK /\ TimersOK /\ DOMAIN todo = Threads
      /\ loc \in LocType(gen) /\ gen \in Nat /\ timer \in Timers \cup {NoTimer}
      /\ active \in FlagType /\ StillToStop \in FlagType
  BY StillType DEF LoopInv, TypeInv, TypeOK, LocType, FlagType
<1>2. /\ gen' = gen + 1 /\ timer' = NoTimer /\ active' = None /\ pending' = StillToStop
      /\ state' = "idle" /\ Then(t, EndCalls(StillToStop) \o rest)
      /\ loc' = [loc EXCEPT ![t].timer = timer, ![t].gen = g]
  BY DEF EndFlow
<1>3. /\ ProgramOK' /\ Goes(t, ToEnd(StillToStop) \cup R) /\ DOMAIN todo' = Threads
  BY <1>1, <1>2, Moved
<1>4. /\ loc'[t] = [loc[t] EXCEPT !.timer = timer, !.gen = g]
      /\ \A u \in Threads \ {t} : loc'[u] = loc[u]
      /\ DOMAIN loc' = Threads /\ loc' = [u \in Threads |-> loc'[u]]
  BY <1>1, <1>2 DEF LocType
<1>5. loc' \in LocType(gen')
  <2>1. \A u \in Threads : loc[u] \in [gen : 0..gen, timer : Timers \cup {NoTimer}, id : Nat, ok : BOOLEAN]
    BY <1>1 DEF LocType
  <2>2. g \in 0..gen' /\ 0..gen \subseteq 0..gen'
    BY <1>1, <1>2
  <2>3. loc'[t] \in [gen : 0..gen', timer : Timers \cup {NoTimer}, id : Nat, ok : BOOLEAN]
    BY <1>1, <1>4, <2>1, <2>2
  <2>4. \A u \in Threads \ {t} :
           loc'[u] \in [gen : 0..gen', timer : Timers \cup {NoTimer}, id : Nat, ok : BOOLEAN]
    BY <1>4, <2>1, <2>2
  <2> QED
    BY <1>4, <2>3, <2>4 DEF LocType
<1>6. TypeInv'
  <2>1. gen' \in Nat /\ timer' \in Timers \cup {NoTimer} /\ state' \in States
    BY <1>1, <1>2 DEF States
  <2>2. active' \in [Monitors -> BOOLEAN] /\ pending' \in [Monitors -> BOOLEAN]
    BY <1>1, <1>2 DEF None, FlagType
  <2>3. \A m \in Monitors : mon[m].gen \in Nat /\ mon[m].gen <= gen
    BY <1>1 DEF TypeInv, TypeOK
  <2>4. \A m \in Monitors : mon'[m].gen <= gen'
    BY <1>1, <1>2, <2>3
  <2>5. /\ timers' \in [Timers -> [gen : Nat, st : {"free", "new", "running"}]]
        /\ mon' \in [Monitors -> [alive : BOOLEAN, stop : BOOLEAN, gen : Nat, id : Nat]]
        /\ notes' \in Nat /\ display' \in {"on", "off"}
    BY <1>1 DEF TypeInv, TypeOK
  <2> QED
    BY <1>3, <1>4, <1>5, <2>1, <2>2, <2>4, <2>5 DEF TypeInv, TypeOK, LocType, WinType, CountType
<1>7. TimersOK'
  <2>1. \A u \in Threads : loc[u].gen \in 0..gen
    BY <1>1 DEF LocType
  <2>2. loc'[t].timer = timer
    BY <1>1, <1>4 DEF LocType
  <2>3. Do("hide", "window") \in Elems(todo'[t])
    BY <1>3 DEF Goes, ToEnd
  <2>4. ASSUME NEW k \in Timers, timers'[k].st # "free"
        PROVE  \E u \in Threads : loc'[u].timer = k /\ Do("hide", "window") \in Elems(todo'[u])
    <3>1. CASE timer = k
      BY <2>2, <2>3, <3>1
    <3>2. ASSUME NEW u \in Threads, loc[u].timer = k, Do("hide", "window") \in Elems(todo[u])
          PROVE  loc'[u].timer = k /\ Do("hide", "window") \in Elems(todo'[u])
      <4>1. u # t
        BY <3>2 DEF Has
      <4> QED
        BY <1>3, <1>4, <3>2, <4>1 DEF Goes
    <3>3. timer = k \/ \E u \in Threads : loc[u].timer = k /\ Do("hide", "window") \in Elems(todo[u])
      BY <1>1, <2>4 DEF TimersOK, Has
    <3> QED
      BY <3>1, <3>2, <3>3
  <2>5. ASSUME NEW u \in Threads, Do("settle", "flow") \in Elems(todo'[u])
        PROVE  loc'[u].gen # gen'
    <3>1. u # t
      BY <1>3, <2>5, DoFields DEF Goes, ToEnd, ToStop, Stops
    <3>2. loc'[u].gen \in 0..gen
      BY <1>4, <2>1, <3>1
    <3> QED
      BY <1>1, <1>2, <3>2
  <2> QED
    BY <1>2, <2>4, <2>5 DEF TimersOK, Has
<1> QED
  BY <1>3, <1>6, <1>7 DEF LoopInv

LEMMA Facts ==
  ASSUME LoopInv
  PROVE  /\ TypeInv /\ ProgramOK /\ TimersOK /\ DOMAIN todo = Threads
         /\ loc \in LocType(gen) /\ gen \in Nat /\ timer \in Timers \cup {NoTimer}
         /\ active \in FlagType /\ pending \in FlagType /\ StillToStop \in FlagType
         /\ mon \in MonType /\ timers \in TimersType /\ win \in WinType /\ count \in CountType
         /\ notes \in Nat /\ display \in {"on", "off"} /\ closed \in BOOLEAN /\ state \in States
         /\ "api" \in Threads /\ "input" \in Threads /\ "power" \in Threads /\ "window" \in Threads
         /\ Timers \subseteq Threads
         /\ Monitors = {"input", "power"} /\ Timers \cap {"input", "power", "window", "api"} = {}
<1>1. TypeInv /\ ProgramOK /\ TimersOK /\ StillToStop \in FlagType
  BY StillType DEF LoopInv
<1>2. /\ "api" \in Threads /\ "input" \in Threads /\ "power" \in Threads /\ "window" \in Threads
      /\ Timers \subseteq Threads /\ Monitors = {"input", "power"}
  BY DEF Threads, Loops, Monitors
<1>3. Timers \cap {"input", "power", "window", "api"} = {}
  BY ConstantsAssumption
<1>4. /\ DOMAIN todo = Threads /\ loc \in LocType(gen) /\ gen \in Nat
      /\ timer \in Timers \cup {NoTimer} /\ active \in FlagType /\ pending \in FlagType
      /\ mon \in MonType /\ timers \in TimersType
      /\ notes \in Nat /\ display \in {"on", "off"} /\ closed \in BOOLEAN /\ state \in States
  BY <1>1 DEF TypeInv, TypeOK, LocType, FlagType, MonType, TimersType
<1>5. win \in WinType /\ count \in CountType
  BY <1>1 DEF TypeInv, TypeOK, WinType, CountType
<1> QED
  BY <1>1, <1>2, <1>3, <1>4, <1>5

\* An idle thread has no call of any kind.
LEMMA IdleHas ==
  ASSUME NEW t \in Threads, ProgramOK, Idle(t)
  PROVE  Elems(todo[t]) = {} /\ ~Has(t, "hide", "window") /\ \A m \in Monitors : ~Stopping(t, m)
<1>1. Elems(todo[t]) = {}
  BY IdleHasNone DEF Idle
<1> QED
  BY <1>1 DEF Has, Stopping

LEMMA ArmStep ==
  ASSUME LoopInv, Arm
  PROVE  LoopInv' /\ Goes("api", ToEnd(StillToStop) \cup ArmSet)
<1>1. /\ ProgramOK /\ "api" \in Threads /\ StillToStop \in [Monitors -> BOOLEAN] /\ count \in CountType
      /\ win \in WinType
  BY Facts DEF FlagType
<1>2. ~Has("api", "hide", "window")
  BY <1>1, IdleHas DEF Arm
<1>3. /\ EndFlow("api", ArmCalls, gen + 1) /\ timers' = timers /\ mon' = mon /\ closed' \in BOOLEAN
      /\ notes' = notes /\ display' = display /\ win' = win /\ count' = [count EXCEPT !["arms"] = @ + 1]
  BY DEF Arm, CountUp
<1>4. count' \in CountType /\ win' \in WinType
  BY <1>1, <1>3 DEF CountType
<1>5. Do("settle", "flow") \notin ArmSet
  BY DoFields DEF ArmSet, Starts
<1>6. /\ Program("api", EndCalls(StillToStop) \o ArmCalls)
      /\ Elems(EndCalls(StillToStop) \o ArmCalls) = ToEnd(StillToStop) \cup ArmSet
  BY <1>1, ArmTeardown
<1>7. gen + 1 \in {0, gen + 1}
  OBVIOUS
<1> QED
  BY <1>1, <1>2, <1>3, <1>4, <1>5, <1>6, <1>7, EndFlowStep

LEMMA CloseStep ==
  ASSUME LoopInv, Close
  PROVE  LoopInv' /\ Goes("api", ToEnd(StillToStop) \cup CloseSet)
<1> DEFINE r == <<Do("close", "window"), Do("join", "window")>>
<1>1. /\ ProgramOK /\ "api" \in Threads /\ StillToStop \in [Monitors -> BOOLEAN] /\ count \in CountType
      /\ win \in WinType
  BY Facts DEF FlagType
<1>2. ~Has("api", "hide", "window")
  BY <1>1, IdleHas DEF Close
<1>3. /\ EndFlow("api", r, 0) /\ timers' = timers /\ mon' = mon /\ closed' \in BOOLEAN
      /\ notes' = notes /\ display' = display /\ win' = win /\ count' = count
  BY DEF Close, env
<1>4. Do("settle", "flow") \notin CloseSet
  BY DoFields DEF CloseSet
<1>5. /\ Program("api", EndCalls(StillToStop) \o r)
      /\ Elems(EndCalls(StillToStop) \o r) = ToEnd(StillToStop) \cup CloseSet
  BY <1>1, CloseTeardown
<1>6. 0 \in {0, gen + 1} /\ count' \in CountType /\ win' \in WinType
  BY <1>1, <1>3
<1> HIDE DEF r
<1> QED
  BY <1>1, <1>2, <1>3, <1>4, <1>5, <1>6, EndFlowStep

\* A key press, a click and _deactivate end the flow and do no more, except that
\* the close button destroys the window.
LEMMA EndsStep ==
  ASSUME LoopInv, NEW t \in Threads, EndFlow(t, <<>>, 0), ~Has(t, "hide", "window"),
         timers' = timers, mon' = mon, closed' = closed, notes' = notes, display' = display,
         win' \in WinType, count' = count
  PROVE  LoopInv' /\ Goes(t, ToEnd(StillToStop))
<1> DEFINE r == <<>>
<1>1. StillToStop \in [Monitors -> BOOLEAN] /\ count \in CountType /\ closed \in BOOLEAN
  BY Facts DEF FlagType
<1>2. EndFlow(t, r, 0) /\ 0 \in {0, gen + 1}
  OBVIOUS
<1>3. Do("settle", "flow") \notin {}
  OBVIOUS
<1>4. /\ Program(t, EndCalls(StillToStop) \o r)
      /\ Elems(EndCalls(StillToStop) \o r) = ToEnd(StillToStop) \cup {}
  BY <1>1, OnlyTeardown
<1>5. count' \in CountType /\ closed' \in BOOLEAN
  BY <1>1
<1> HIDE DEF r
<1>6. LoopInv' /\ Goes(t, ToEnd(StillToStop) \cup {})
  BY <1>2, <1>3, <1>4, <1>5, EndFlowStep
<1>7. ToEnd(StillToStop) \cup {} = ToEnd(StillToStop)
  OBVIOUS
<1> QED
  BY <1>6, <1>7

LEMMA KeyDownStep ==
  ASSUME LoopInv, KeyDown
  PROVE  LoopInv' /\ Goes("input", ToEnd(StillToStop))
<1>1. ProgramOK /\ "input" \in Threads /\ win \in WinType
  BY Facts
<1>2. ~Has("input", "hide", "window")
  BY <1>1, IdleHas DEF KeyDown
<1>3. /\ EndFlow("input", <<>>, 0) /\ timers' = timers /\ mon' = mon /\ closed' = closed
      /\ notes' = notes /\ display' = display /\ win' = win /\ count' = count
  BY DEF KeyDown, env
<1>4. win' \in WinType
  BY <1>1, <1>3
<1> QED
  BY <1>1, <1>2, <1>3, <1>4, EndsStep

\* What the next calls become.
LEMMA ProceedCalls ==
  ASSUME LoopInv, NEW t \in Threads, NEW c, At(t, c), Proceed(t)
  PROVE  ProgramOK' /\ DOMAIN todo' = Threads /\ Goes(t, Elems(todo[t]) \ {Do(c, Now(t))})
<1>1. ProgramOK /\ DOMAIN todo = Threads
  BY Facts
<1>2. /\ Program(t, Tail(todo[t])) /\ Elems(Tail(todo[t])) = Elems(todo[t]) \ {Do(c, Now(t))}
  BY <1>1, AtCall DEF Called
<1>3. Then(t, Tail(todo[t]))
  BY DEF Proceed
<1>4. ProgramOK' /\ DOMAIN todo' = Threads /\ Goes(t, Elems(Tail(todo[t])))
  BY <1>1, <1>2, <1>3, Moved
<1> QED
  BY <1>2, <1>4

LEMMA ReturnCalls ==
  ASSUME LoopInv, NEW t \in Threads, Then(t, <<>>)
  PROVE  ProgramOK' /\ DOMAIN todo' = Threads /\ Goes(t, {})
<1> DEFINE s == <<>>
<1>1. ProgramOK /\ DOMAIN todo = Threads /\ Program(t, s) /\ Elems(s) = {} /\ Then(t, s)
  BY Facts, NoProgram, NoCalls
<1> HIDE DEF s
<1>2. ProgramOK' /\ DOMAIN todo' = Threads /\ Goes(t, Elems(s))
  BY <1>1, Moved
<1> QED
  BY <1>1, <1>2

LEMMA GiveUpCalls ==
  ASSUME LoopInv, NEW t \in Threads, t \notin {"input", "window"}, GiveUp(t)
  PROVE  ProgramOK' /\ DOMAIN todo' = Threads /\ Goes(t, {GivingUp})
<1> DEFINE s == <<GivingUp>>
<1>1. ProgramOK /\ DOMAIN todo = Threads /\ Program(t, s) /\ Elems(s) = {GivingUp}
  BY Facts, GiveUpProgram
<1>2. Then(t, s)
  BY DEF GiveUp, GivingUp
<1> HIDE DEF s
<1>3. ProgramOK' /\ DOMAIN todo' = Threads /\ Goes(t, Elems(s))
  BY <1>1, <1>2, Moved
<1> QED
  BY <1>1, <1>3

LEMMA StartFailsCalls ==
  ASSUME LoopInv, NEW m \in Monitors, Now("api") = m, StartFails("api")
  PROVE  ProgramOK' /\ DOMAIN todo' = Threads /\ Goes("api", Stops(m) \cup {GivingUp})
<1> DEFINE s == StopCalls(m) \o <<GivingUp>>
<1>1. ProgramOK /\ DOMAIN todo = Threads /\ "api" \in Threads
  BY Facts
<1>2. Program("api", s) /\ Elems(s) = Stops(m) \cup {GivingUp}
  BY StopsThenGiveUp
<1>3. Then("api", s)
  BY DEF StartFails, GivingUp
<1> HIDE DEF s
<1>4. ProgramOK' /\ DOMAIN todo' = Threads /\ Goes("api", Elems(s))
  BY <1>1, <1>2, <1>3, Moved
<1> QED
  BY <1>2, <1>4

LEMMA NobodyGoes ==
  ASSUME LoopInv, UNCHANGED todo, NEW t \in Threads
  PROVE  ProgramOK' /\ DOMAIN todo' = Threads /\ Goes(t, Elems(todo[t]))
BY Facts, NoneMoved

\* The locals of one thread change.
LocRec(g) == [gen : 0..g, timer : Timers \cup {NoTimer}, id : Nat, ok : BOOLEAN]

LEMMA LocSet ==
  ASSUME LoopInv, NEW t \in Threads, NEW r \in LocRec(gen), loc' = [loc EXCEPT ![t] = r], gen' = gen
  PROVE  /\ loc' \in LocType(gen') /\ loc'[t] = r
         /\ \A u \in Threads \ {t} : loc'[u] = loc[u]
<1>1. loc \in LocType(gen)
  BY Facts
<1> QED
  BY <1>1 DEF LocType, LocRec

LEMMA LocOf ==
  ASSUME LoopInv, NEW t \in Threads
  PROVE  loc[t] \in LocRec(gen) /\ Locals \in LocRec(gen)
<1>1. loc \in LocType(gen) /\ gen \in Nat
  BY Facts
<1> QED
  BY <1>1 DEF LocType, LocRec, Locals

LEMMA TypesGive ==
  ASSUME gen' \in Nat, closed' \in BOOLEAN, timer' \in Timers \cup {NoTimer}, state' \in States,
         active' \in FlagType, pending' \in FlagType, timers' \in TimersType, mon' \in MonType,
         notes' \in Nat, display' \in {"on", "off"}, win' \in WinType, count' \in CountType,
         DOMAIN todo' = Threads, loc' \in LocType(gen'), \A m \in Monitors : mon'[m].gen <= gen'
  PROVE  TypeInv'
<1>1. DOMAIN loc' = Threads
  BY DEF LocType
<1> QED
  BY <1>1 DEF TypeInv, TypeOK, FlagType, TimersType, MonType, WinType, CountType, LocType

\* A step that has nothing to do with timers.
LEMMA TimersStay ==
  ASSUME LoopInv, NEW t \in Threads, NEW C, Goes(t, C), gen' = gen,
         timer' = timer, timers' = timers, state' = state,
         \A u \in Threads \ {t} : loc'[u] = loc[u],
         Has(t, "hide", "window") =>
             Do("hide", "window") \in C /\ loc'[t].timer = loc[t].timer,
         Do("settle", "flow") \in C /\ loc'[t].gen = gen =>
             Has(t, "settle", "flow") /\ loc[t].gen = gen
  PROVE  TimersOK'
<1>1. TimersOK
  BY Facts
<1>2. \A u \in Threads : Do("hide", "window") \in Elems(todo[u]) =>
          Do("hide", "window") \in Elems(todo'[u]) /\ loc'[u].timer = loc[u].timer
  BY DEF Goes, Has
<1>3. \A u \in Threads : Do("settle", "flow") \in Elems(todo'[u]) /\ loc'[u].gen = gen =>
          Do("settle", "flow") \in Elems(todo[u]) /\ loc[u].gen = gen
  BY DEF Goes, Has
<1>4. \A k \in Timers : timers[k].st # "free" =>
          timer = k \/ \E u \in Threads : loc[u].timer = k /\ Do("hide", "window") \in Elems(todo[u])
  BY <1>1 DEF TimersOK, Has
<1>5. \A k \in Timers : timers'[k].st # "free" =>
          timer' = k \/ \E u \in Threads : loc'[u].timer = k /\ Do("hide", "window") \in Elems(todo'[u])
  BY <1>2, <1>4
<1>6. timer' # NoTimer => state' \in Counting
  BY <1>1 DEF TimersOK
<1>7. \A u \in Threads : Do("settle", "flow") \in Elems(todo'[u]) /\ loc'[u].gen = gen' =>
          state' = "turning_off"
  BY <1>1, <1>3 DEF TimersOK, Has
<1>8. \A u, v \in Threads :
          /\ Do("settle", "flow") \in Elems(todo'[u]) /\ loc'[u].gen = gen'
          /\ Do("settle", "flow") \in Elems(todo'[v]) /\ loc'[v].gen = gen'
          => u = v
  BY <1>1, <1>3 DEF TimersOK, Has
<1> QED
  BY <1>5, <1>6, <1>7, <1>8 DEF TimersOK, Has

LEMMA LocSame ==
  ASSUME LoopInv, NEW t \in Threads, loc' = loc
  PROVE  loc[t] \in LocRec(gen) /\ loc' = [loc EXCEPT ![t] = loc[t]]
<1>1. loc \in LocType(gen) /\ loc[t] \in LocRec(gen)
  BY Facts, LocOf
<1> QED
  BY <1>1 DEF LocType

\* The same for the whole of LoopInv.
Frame ==
    /\ gen' = gen /\ closed' = closed /\ timer' = timer /\ timers' = timers /\ state' = state
    /\ active' \in FlagType /\ pending' \in FlagType
    /\ mon' \in MonType /\ \A m \in Monitors : mon'[m].gen <= gen
    /\ notes' \in Nat /\ display' \in {"on", "off"} /\ win' \in WinType /\ count' \in CountType

LEMMA LightStep ==
  ASSUME LoopInv, NEW t \in Threads, NEW C, NEW r \in LocRec(gen), Frame,
         Goes(t, C), ProgramOK', DOMAIN todo' = Threads, loc' = [loc EXCEPT ![t] = r],
         Has(t, "hide", "window") =>
             Do("hide", "window") \in C /\ r.timer = loc[t].timer,
         Do("settle", "flow") \in C /\ r.gen = gen =>
             Has(t, "settle", "flow") /\ loc[t].gen = gen
  PROVE  LoopInv'
<1>1. /\ gen' = gen /\ closed' = closed /\ timer' = timer /\ timers' = timers /\ state' = state
      /\ active' \in FlagType /\ pending' \in FlagType
      /\ mon' \in MonType /\ \A m \in Monitors : mon'[m].gen <= gen
      /\ notes' \in Nat /\ display' \in {"on", "off"} /\ win' \in WinType /\ count' \in CountType
  BY DEF Frame
<1>2. /\ loc' \in LocType(gen') /\ loc'[t] = r
      /\ \A u \in Threads \ {t} : loc'[u] = loc[u]
  BY <1>1, LocSet
<1>3. TimersOK'
  BY <1>1, <1>2, TimersStay
<1>4. gen' \in Nat /\ closed' \in BOOLEAN /\ timer' \in Timers \cup {NoTimer} /\ state' \in States
      /\ timers' \in TimersType
  BY <1>1, Facts
<1>5. \A m \in Monitors : mon'[m].gen <= gen'
  BY <1>1
<1>6. TypeInv'
  BY <1>1, <1>2, <1>4, <1>5, TypesGive
<1> QED
  BY <1>3, <1>6 DEF LoopInv

LEMMA MonGen == LoopInv => \A m \in Monitors : mon[m].gen <= gen
BY DEF LoopInv, TypeInv

\* A thread goes on, returns, or gives up.
LEMMA LightProceed ==
  ASSUME LoopInv, NEW t \in Threads, NEW c, c # "hide", At(t, c), Proceed(t), Frame,
         NEW r \in LocRec(gen), loc' = [loc EXCEPT ![t] = r], r.gen = loc[t].gen
  PROVE  LoopInv'
<1> DEFINE C == Elems(todo[t]) \ {Do(c, Now(t))}
<1>1. ProgramOK' /\ DOMAIN todo' = Threads /\ Goes(t, C)
  BY ProceedCalls
<1>2. ~Has(t, "hide", "window")
  BY Facts, AtCall DEF Called
<1>3. Do("settle", "flow") \in C => Has(t, "settle", "flow")
  BY DEF Has
<1> HIDE DEF C
<1> QED
  BY <1>1, <1>2, <1>3, LightStep

LEMMA LightReturn ==
  ASSUME LoopInv, NEW t \in Threads, NEW c, c # "hide", At(t, c), Return(t), Frame
  PROVE  LoopInv'
<1>1. ProgramOK' /\ DOMAIN todo' = Threads /\ Goes(t, {}) /\ loc' = [loc EXCEPT ![t] = Locals]
  BY ReturnCalls DEF Return
<1>2. ~Has(t, "hide", "window") /\ Locals \in LocRec(gen)
  BY Facts, AtCall, LocOf DEF Called
<1> QED
  BY <1>1, <1>2, LightStep

LEMMA LightOther ==
  ASSUME LoopInv, NEW t \in Threads, NEW C, ~Has(t, "hide", "window"), Frame, loc' = loc,
         Goes(t, C), ProgramOK', DOMAIN todo' = Threads, Do("settle", "flow") \notin C
  PROVE  LoopInv'
<1>1. loc[t] \in LocRec(gen) /\ loc' = [loc EXCEPT ![t] = loc[t]]
  BY LocSame
<1> QED
  BY <1>1, LightStep

LEMMA LightGiveUp ==
  ASSUME LoopInv, NEW t \in Threads, NEW c, c # "hide", At(t, c), t \notin {"input", "window"},
         GiveUp(t), Frame, loc' = loc
  PROVE  LoopInv'
<1>1. ProgramOK' /\ DOMAIN todo' = Threads /\ Goes(t, {GivingUp})
  BY GiveUpCalls
<1>2. ~Has(t, "hide", "window")
  BY Facts, AtCall DEF Called
<1>3. Do("settle", "flow") \notin {GivingUp}
  BY DoFields DEF GivingUp
<1> QED
  BY <1>1, <1>2, <1>3, LightOther

LEMMA LightStartFails ==
  ASSUME LoopInv, NEW c, c \in {"spawn", "ready"}, At("api", c), StartFails("api"),
         Frame, loc' = loc
  PROVE  LoopInv'
<1>1. "api" \in Threads /\ ProgramOK
  BY Facts
<1>2. ~Has("api", "hide", "window") /\ Now("api") \in Monitors
  BY <1>1, AtCall DEF Called
<1>3. ProgramOK' /\ DOMAIN todo' = Threads /\ Goes("api", Stops(Now("api")) \cup {GivingUp})
  BY <1>2, StartFailsCalls
<1>4. Do("settle", "flow") \notin Stops(Now("api")) \cup {GivingUp}
  BY DoFields DEF GivingUp, Stops
<1> QED
  BY <1>1, <1>2, <1>3, <1>4, LightOther

LEMMA CheckStep ==
  ASSUME LoopInv, NEW t \in Threads, Check(t)
  PROVE  LoopInv'
<1>1. /\ At(t, "check") /\ UNCHANGED ctrl /\ UNCHANGED env
      /\ \/ Proceed(t) /\ loc' = loc
         \/ Return(t)
  BY DEF Check
<1>2. Frame
  BY <1>1, Facts, MonGen DEF ctrl, env, Frame
<1>3. CASE Proceed(t) /\ loc' = loc
  <2>1. loc[t] \in LocRec(gen) /\ loc' = [loc EXCEPT ![t] = loc[t]]
    BY <1>3, LocSame
  <2> QED
    BY <1>1, <1>2, <1>3, <2>1, LightProceed
<1>4. CASE Return(t)
  BY <1>1, <1>2, <1>4, LightReturn
<1> QED
  BY <1>1, <1>3, <1>4

LEMMA RequestStopStep ==
  ASSUME LoopInv, NEW t \in Threads, RequestStop(t)
  PROVE  LoopInv'
<1> DEFINE m == Now(t)
           r == [loc[t] EXCEPT !.id = mon[m].id]
<1>1. /\ At(t, "request_stop") /\ Proceed(t) /\ UNCHANGED <<ctrl, timers, notes, win, display, count>>
      /\ mon' = [mon EXCEPT ![m].stop = TRUE] /\ loc' = [loc EXCEPT ![t].id = mon[m].id]
  BY DEF RequestStop
<1>2. m \in Monitors /\ loc[t] \in LocRec(gen) /\ mon \in MonType /\ loc \in LocType(gen)
  BY <1>1, Facts, AtCall, LocOf DEF Called
<1> HIDE DEF m
<1>3. mon' \in MonType /\ \A n \in Monitors : mon'[n].gen = mon[n].gen
  BY <1>1, <1>2 DEF MonType
<1>4. Frame
  BY <1>1, <1>3, Facts, MonGen DEF ctrl, Frame
<1>5. r \in LocRec(gen) /\ r.gen = loc[t].gen
  BY <1>2 DEF MonType, LocRec
<1>6. loc' = [loc EXCEPT ![t] = r]
  BY <1>1
<1> HIDE DEF r
<1> QED
  BY <1>1, <1>4, <1>5, <1>6, LightProceed

LEMMA JoinStep ==
  ASSUME LoopInv, NEW t \in Threads, Join(t)
  PROVE  LoopInv'
<1> DEFINE b == IF Now(t) = "window" THEN TRUE ELSE ~mon[Now(t)].alive
           r == [loc[t] EXCEPT !.ok = b]
<1>1. /\ At(t, "join") /\ Proceed(t) /\ UNCHANGED <<ctrl, timers, mon, notes, win, display>>
      /\ count' = count \/ CountUp("timeouts")
      /\ loc' = [loc EXCEPT ![t].ok = b]
  BY DEF Join
<1>2. loc[t] \in LocRec(gen) /\ mon \in MonType /\ count \in CountType
  BY Facts, LocOf
<1>3. b \in BOOLEAN
  OBVIOUS
<1>4. count' \in CountType
  BY <1>1, <1>2 DEF CountUp, CountType
<1> HIDE DEF b
<1>5. Frame
  BY <1>1, <1>4, Facts, MonGen DEF ctrl, Frame
<1>6. r \in LocRec(gen) /\ r.gen = loc[t].gen
  BY <1>2, <1>3 DEF LocRec
<1>7. loc' = [loc EXCEPT ![t] = r]
  BY <1>1
<1> HIDE DEF r
<1> QED
  BY <1>1, <1>5, <1>6, <1>7, LightProceed

LEMMA RecordStopStep ==
  ASSUME LoopInv, NEW t \in Threads, RecordStop(t)
  PROVE  LoopInv'
<1> DEFINE m == Now(t)
           b == ~loc[t].ok
           r == [loc[t] EXCEPT !.id = 0, !.ok = FALSE]
<1>1. /\ At(t, "record_stop") /\ UNCHANGED <<gen, timer, state, closed, active, env>>
      /\ pending' = [pending EXCEPT ![m] = b]
      /\ \/ Return(t)
         \/ Proceed(t) /\ loc' = [loc EXCEPT ![t].id = 0, ![t].ok = FALSE]
  BY DEF RecordStop
<1>2. loc[t] \in LocRec(gen) /\ pending \in FlagType /\ b \in BOOLEAN
  BY Facts, LocOf
<1> HIDE DEF m, b
<1>3. pending' \in FlagType
  BY <1>1, <1>2 DEF FlagType
<1>4. Frame
  BY <1>1, <1>3, Facts, MonGen DEF env, Frame
<1>5. CASE Return(t)
  BY <1>1, <1>4, <1>5, LightReturn
<1>6. CASE Proceed(t) /\ loc' = [loc EXCEPT ![t].id = 0, ![t].ok = FALSE]
  <2>1. r \in LocRec(gen) /\ r.gen = loc[t].gen
    BY <1>2 DEF LocRec
  <2>2. loc' = [loc EXCEPT ![t] = r]
    BY <1>6
  <2> HIDE DEF r
  <2> QED
    BY <1>1, <1>4, <1>6, <2>1, <2>2, LightProceed
<1> QED
  BY <1>1, <1>5, <1>6

\* What Start leaves: a monitor that is still there is stopped first.
LEMMA StartCallsLeft ==
  ASSUME LoopInv, NEW t \in Threads, Start(t)
  PROVE  /\ t = "api" /\ Now(t) \in Monitors /\ ProgramOK' /\ DOMAIN todo' = Threads
         /\ \/ /\ mon[Now(t)].alive
               /\ Goes(t, (Elems(todo[t]) \ {Do("start", Now(t))})
                          \cup {Do("request_stop", Now(t)), Do("join", Now(t))})
            \/ /\ ~mon[Now(t)].alive
               /\ Goes(t, Elems(todo[t]) \ {Do("start", Now(t))})
<1> DEFINE m == Now(t)
           q == <<Do("request_stop", m), Do("join", m)>>
           z == Tail(todo[t])
<1>1. /\ At(t, "start")
      /\ Then(t, (IF mon[m].alive THEN q ELSE <<>>) \o z)
  BY DEF Start
<1>2. /\ t = "api" /\ m \in Monitors /\ todo[t] # <<>> /\ Head(todo[t]) = Do("start", m)
      /\ Program(t, z) /\ Elems(z) = Elems(todo[t]) \ {Do("start", m)}
      /\ Program("api", todo[t]) /\ ProgramOK /\ DOMAIN todo = Threads
  BY <1>1, Facts, AtCall DEF Called, ProgramOK
<1>3. /\ Program("api", q \o z)
      /\ Elems(q \o z) = (Elems(todo[t]) \ {Do("start", m)}) \cup {Do("request_stop", m), Do("join", m)}
  BY <1>2, RestartProgram
<1>4. <<>> \o z = z
  BY <1>2 DEF Program
<1>5. CASE mon[m].alive
  <2> DEFINE s == q \o z
  <2>1. Then(t, s) /\ Program(t, s)
    BY <1>1, <1>2, <1>3, <1>5
  <2>2. Elems(s) = (Elems(todo[t]) \ {Do("start", m)}) \cup {Do("request_stop", m), Do("join", m)}
    BY <1>3
  <2> HIDE DEF s, m
  <2>3. ProgramOK' /\ Goes(t, Elems(s)) /\ DOMAIN todo' = Threads
    BY <1>2, <2>1, Moved
  <2> QED
    BY <1>2, <1>5, <2>2, <2>3 DEF m
<1>6. CASE ~mon[m].alive
  <2>1. Then(t, z)
    BY <1>1, <1>4, <1>6
  <2> HIDE DEF z, m
  <2>2. ProgramOK' /\ Goes(t, Elems(z)) /\ DOMAIN todo' = Threads
    BY <1>2, <2>1, Moved
  <2> QED
    BY <1>2, <1>6, <2>2 DEF m
<1> QED
  BY <1>5, <1>6

LEMMA StartStep ==
  ASSUME LoopInv, NEW t \in Threads, Start(t)
  PROVE  LoopInv'
<1>1. At(t, "start") /\ UNCHANGED <<ctrl, env, loc>>
  BY DEF Start
<1>2. ~Has(t, "hide", "window") /\ ~Has(t, "settle", "flow")
  <2>1. ~Has(t, "hide", "window") /\ t = "api" /\ ProgramOK /\ todo[t] # <<>>
    BY <1>1, Facts, AtCall DEF Called
  <2>2. Do("settle", "flow") \notin Own("api")
    <3>1. Do("settle", "flow") \in Own("api") => "api" \in Timers
      BY Facts, Kinds, DoFields
    <3> QED
      BY <3>1, Facts
  <2> QED
    BY <2>1, <2>2, NextCall DEF Has
<1>3. Frame
  BY <1>1, Facts, MonGen DEF ctrl, env, Frame
<1>4. PICK C : Goes(t, C) /\ ProgramOK' /\ DOMAIN todo' = Threads /\ Do("settle", "flow") \notin C
  <2>1. Do("settle", "flow") \notin Elems(todo[t])
    BY <1>2 DEF Has
  <2>2. \A m : Do("settle", "flow") \notin {Do("request_stop", m), Do("join", m)}
    BY DoFields
  <2> QED
    BY <2>1, <2>2, StartCallsLeft
<1> QED
  BY <1>1, <1>2, <1>3, <1>4, LightOther

LEMMA SpawnStep ==
  ASSUME LoopInv, NEW t \in Threads, Spawn(t)
  PROVE  LoopInv'
<1> DEFINE m == Now(t)
<1>1. /\ At(t, "spawn") /\ UNCHANGED <<ctrl, timers, win, display, loc>>
      /\ \/ StartFails(t) /\ UNCHANGED <<mon, notes, count>>
         \/ /\ mon' = [mon EXCEPT ![m] = NewThread(t, m, TRUE)]
            /\ notes' = IF m = "power" /\ display = "on" THEN 1 ELSE notes
            /\ Proceed(t) /\ UNCHANGED count
         \/ /\ mon' = [mon EXCEPT ![m] = NewThread(t, m, FALSE)]
            /\ StartFails(t) /\ CountUp("fails") /\ UNCHANGED notes
  BY DEF Spawn
<1>2. /\ t = "api" /\ m \in Monitors /\ loc[t] \in LocRec(gen) /\ mon \in MonType
      /\ count \in CountType /\ notes \in Nat /\ gen \in Nat
  BY <1>1, Facts, AtCall, LocOf DEF Called
<1> HIDE DEF m
<1>3. ASSUME NEW up \in BOOLEAN, mon' = [mon EXCEPT ![m] = NewThread(t, m, up)]
      PROVE  mon' \in MonType /\ \A n \in Monitors : mon'[n].gen <= gen
  <2> DEFINE x == NewThread(t, m, up)
  <2>1. x \in [alive : BOOLEAN, stop : BOOLEAN, gen : Nat, id : Nat] /\ x.gen <= gen
    BY <1>2 DEF NewThread, LocRec, MonType
  <2> HIDE DEF x
  <2>2. mon' = [mon EXCEPT ![m] = x]
    BY <1>3 DEF x
  <2> QED
    BY <1>2, <2>1, <2>2, MonGen DEF MonType
<1>4. CASE StartFails(t) /\ UNCHANGED <<mon, notes, count>>
  <2>1. Frame
    BY <1>1, <1>4, Facts, MonGen DEF ctrl, Frame
  <2> QED
    BY <1>1, <1>2, <1>4, <2>1, LightStartFails
<1>5. CASE /\ mon' = [mon EXCEPT ![m] = NewThread(t, m, TRUE)]
           /\ notes' = IF m = "power" /\ display = "on" THEN 1 ELSE notes
           /\ Proceed(t) /\ UNCHANGED count
  <2>1. mon' \in MonType /\ \A n \in Monitors : mon'[n].gen <= gen
    BY <1>3, <1>5
  <2>2. notes' \in Nat
    BY <1>2, <1>5
  <2>3. Frame
    BY <1>1, <1>5, <2>1, <2>2, Facts DEF ctrl, Frame
  <2>4. loc[t] \in LocRec(gen) /\ loc' = [loc EXCEPT ![t] = loc[t]]
    BY <1>1, LocSame
  <2> QED
    BY <1>1, <1>5, <2>3, <2>4, LightProceed
<1>6. CASE /\ mon' = [mon EXCEPT ![m] = NewThread(t, m, FALSE)]
           /\ StartFails(t) /\ CountUp("fails") /\ UNCHANGED notes
  <2>1. mon' \in MonType /\ \A n \in Monitors : mon'[n].gen <= gen
    BY <1>3, <1>6
  <2>2. count' \in CountType
    BY <1>2, <1>6 DEF CountUp, CountType
  <2>3. Frame
    BY <1>1, <1>6, <2>1, <2>2, Facts DEF ctrl, Frame
  <2> QED
    BY <1>1, <1>2, <1>6, <2>3, LightStartFails
<1> QED
  BY <1>1, <1>4, <1>5, <1>6

LEMMA ReadyStep ==
  ASSUME LoopInv, NEW t \in Threads, Ready(t)
  PROVE  LoopInv'
<1>1. /\ At(t, "ready") /\ UNCHANGED <<ctrl, env, loc>> /\ (Proceed(t) \/ StartFails(t))
  BY DEF Ready
<1>2. t = "api"
  BY <1>1, Facts, AtCall DEF Called
<1>3. Frame
  BY <1>1, Facts, MonGen DEF ctrl, env, Frame
<1>4. CASE Proceed(t)
  <2>1. loc[t] \in LocRec(gen) /\ loc' = [loc EXCEPT ![t] = loc[t]]
    BY <1>1, LocSame
  <2> QED
    BY <1>1, <1>3, <1>4, <2>1, LightProceed
<1>5. CASE StartFails(t)
  BY <1>1, <1>2, <1>3, <1>5, LightStartFails
<1> QED
  BY <1>1, <1>4, <1>5

\* arm() whose flow has ended stops the monitor it has just started.
StopNew(m) == Stops(m) \cup (IF m = "power" THEN {GivingUp} ELSE {})

LEMMA RecordStartCalls ==
  ASSUME LoopInv, NEW t \in Threads, RecordStart(t)
  PROVE  /\ t = "api" /\ Now(t) \in Monitors /\ ProgramOK' /\ DOMAIN todo' = Threads
         /\ \/ /\ Current(loc[t].gen) /\ Proceed(t)
               /\ active' = [active EXCEPT ![Now(t)] = TRUE]
               /\ pending' = [pending EXCEPT ![Now(t)] = FALSE]
               /\ Goes(t, Elems(todo[t]) \ {Do("record_start", Now(t))})
            \/ /\ ~Current(loc[t].gen) /\ active' = active /\ pending' = pending
               /\ Goes(t, StopNew(Now(t)))
<1> DEFINE m == Now(t)
           g == IF m = "power" THEN <<Do("deactivate", "flow")>> ELSE <<>>
           s == StopCalls(m) \o g
<1>1. /\ At(t, "record_start")
      /\ \/ /\ Current(loc[t].gen) /\ Proceed(t)
            /\ active' = [active EXCEPT ![m] = TRUE] /\ pending' = [pending EXCEPT ![m] = FALSE]
         \/ /\ ~Current(loc[t].gen) /\ active' = active /\ pending' = pending
            /\ Then(t, s)
  BY DEF RecordStart
<1>2. t = "api" /\ m \in Monitors /\ ProgramOK /\ DOMAIN todo = Threads
  BY <1>1, Facts, AtCall DEF Called
<1>3. CASE Current(loc[t].gen)
  <2>1. /\ Proceed(t)
        /\ active' = [active EXCEPT ![m] = TRUE] /\ pending' = [pending EXCEPT ![m] = FALSE]
    BY <1>1, <1>3
  <2>2. ProgramOK' /\ DOMAIN todo' = Threads /\ Goes(t, Elems(todo[t]) \ {Do("record_start", m)})
    BY <1>1, <2>1, ProceedCalls
  <2> QED
    BY <1>2, <1>3, <2>1, <2>2
<1>4. CASE ~Current(loc[t].gen)
  <2>1. Then(t, s) /\ active' = active /\ pending' = pending
    BY <1>1, <1>4
  <2>2. Program(t, s) /\ Elems(s) = StopNew(m)
    <3>1. /\ Program("api", StopCalls(m) \o <<GivingUp>>)
          /\ Elems(StopCalls(m) \o <<GivingUp>>) = Stops(m) \cup {GivingUp}
          /\ Program("api", StopCalls(m) \o <<>>)
          /\ Elems(StopCalls(m) \o <<>>) = Stops(m)
      BY <1>2, StopsThenGiveUp
    <3>2. CASE m = "power"
      BY <1>2, <3>1, <3>2 DEF StopNew, GivingUp
    <3>3. CASE m # "power"
      BY <1>2, <3>1, <3>3 DEF StopNew
    <3> QED
      BY <3>2, <3>3
  <2> HIDE DEF s
  <2>3. ProgramOK' /\ DOMAIN todo' = Threads /\ Goes(t, Elems(s))
    BY <1>2, <2>1, <2>2, Moved
  <2> QED
    BY <1>2, <1>4, <2>1, <2>2, <2>3
<1> QED
  BY <1>3, <1>4

LEMMA RecordStartStep ==
  ASSUME LoopInv, NEW t \in Threads, RecordStart(t)
  PROVE  LoopInv'
<1> DEFINE m == Now(t)
<1>1. At(t, "record_start") /\ UNCHANGED <<gen, timer, state, closed, env, loc>>
  BY DEF RecordStart
<1>2. /\ t = "api" /\ m \in Monitors /\ ProgramOK' /\ DOMAIN todo' = Threads
      /\ \/ /\ Proceed(t)
            /\ active' = [active EXCEPT ![m] = TRUE]
            /\ pending' = [pending EXCEPT ![m] = FALSE]
         \/ /\ active' = active /\ pending' = pending
            /\ Goes(t, StopNew(m))
  BY RecordStartCalls
<1>3. active \in FlagType /\ pending \in FlagType
  BY Facts
<1> HIDE DEF m
<1>4. active' \in FlagType /\ pending' \in FlagType
  BY <1>2, <1>3 DEF FlagType
<1>5. Frame
  BY <1>1, <1>4, Facts, MonGen DEF env, Frame
<1>6. CASE Proceed(t)
  <2>1. loc[t] \in LocRec(gen) /\ loc' = [loc EXCEPT ![t] = loc[t]]
    BY <1>1, LocSame
  <2> QED
    BY <1>1, <1>5, <1>6, <2>1, LightProceed
<1>7. CASE Goes(t, StopNew(m))
  <2>1. ~Has(t, "hide", "window")
    BY <1>1, Facts, AtCall DEF Called
  <2>2. Do("settle", "flow") \notin StopNew(m)
    BY DoFields DEF StopNew, Stops, GivingUp
  <2> QED
    BY <1>1, <1>2, <1>5, <1>7, <2>1, <2>2, LightOther
<1> QED
  BY <1>2, <1>6, <1>7

\* The window, the display and the power messages.
LEMMA StillStep ==
  ASSUME LoopInv, UNCHANGED <<todo, loc>>, Frame
  PROVE  LoopInv'
<1> DEFINE t == "api"
           C == Elems(todo[t])
<1>1. t \in Threads
  BY Facts
<1>2. ProgramOK' /\ DOMAIN todo' = Threads /\ Goes(t, C)
  BY <1>1, NobodyGoes
<1>3. loc[t] \in LocRec(gen) /\ loc' = [loc EXCEPT ![t] = loc[t]]
  BY <1>1, LocSame
<1>4. /\ Has(t, "hide", "window") => Do("hide", "window") \in C
      /\ Do("settle", "flow") \in C => Has(t, "settle", "flow")
  BY DEF Has
<1> HIDE DEF C, t
<1> QED
  BY <1>1, <1>2, <1>3, <1>4, LightStep

LEMMA ShowStep ==
  ASSUME LoopInv, NEW t \in Threads, Show(t)
  PROVE  LoopInv'
<1>1. /\ At(t, "show") /\ UNCHANGED <<ctrl, timers, mon, notes, display, loc>>
      /\ \/ win' = Opened(loc[t].gen) /\ Proceed(t) /\ UNCHANGED count
         \/ CountUp("fails") /\ GiveUp(t) /\ UNCHANGED win
  BY DEF Show
<1>2. /\ loc[t] \in LocRec(gen) /\ win \in WinType /\ count \in CountType /\ gen \in Nat
      /\ t \notin {"input", "window"}
  BY <1>1, Facts, LocOf, AtCall DEF Called
<1>3. CASE win' = Opened(loc[t].gen) /\ Proceed(t) /\ UNCHANGED count
  <2> DEFINE g == loc[t].gen
  <2>1. g \in Nat
    BY <1>2 DEF LocRec
  <2>2. win' = [win EXCEPT !.up = TRUE, !.cancel = g]
    BY <1>3 DEF Opened
  <2> HIDE DEF g
  <2>3. win' \in WinType
    BY <1>2, <2>1, <2>2 DEF WinType
  <2>4. Frame
    BY <1>1, <1>3, <2>3, Facts, MonGen DEF ctrl, Frame
  <2>5. loc' = [loc EXCEPT ![t] = loc[t]]
    BY <1>1, LocSame
  <2> QED
    BY <1>1, <1>2, <1>3, <2>4, <2>5, LightProceed
<1>4. CASE CountUp("fails") /\ GiveUp(t) /\ UNCHANGED win
  <2>1. count' \in CountType
    BY <1>2, <1>4 DEF CountUp, CountType
  <2>2. Frame
    BY <1>1, <1>4, <2>1, Facts, MonGen DEF ctrl, Frame
  <2> QED
    BY <1>1, <1>2, <1>4, <2>2, LightGiveUp
<1> QED
  BY <1>1, <1>3, <1>4

LEMMA SendShowStep ==
  ASSUME LoopInv, NEW t \in Threads, SendShow(t)
  PROVE  LoopInv'
<1>1. /\ At(t, "send_show") /\ UNCHANGED <<ctrl, timers, mon, notes, display, loc, count>>
      /\ \/ win' = [win EXCEPT !.visible = TRUE] /\ Proceed(t)
         \/ GiveUp(t) /\ UNCHANGED win
  BY DEF SendShow
<1>2. win \in WinType /\ t \notin {"input", "window"}
  BY <1>1, Facts, AtCall DEF Called
<1>3. win' \in WinType
  BY <1>1, <1>2 DEF WinType
<1>4. Frame
  BY <1>1, <1>3, Facts, MonGen DEF ctrl, Frame
<1>5. loc[t] \in LocRec(gen) /\ loc' = [loc EXCEPT ![t] = loc[t]]
  BY <1>1, LocSame
<1> QED
  BY <1>1, <1>2, <1>4, <1>5, LightProceed, LightGiveUp

LEMMA TurnOffStep ==
  ASSUME LoopInv, NEW t \in Threads, TurnOff(t)
  PROVE  LoopInv'
<1>1. /\ At(t, "turn_off") /\ UNCHANGED <<ctrl, timers, mon, notes, win, loc>>
      /\ \/ display' = "off" /\ Proceed(t) /\ UNCHANGED count
         \/ CountUp("fails") /\ GiveUp(t) /\ UNCHANGED display
  BY DEF TurnOff
<1>2. /\ count \in CountType /\ t \notin {"input", "window"} /\ display \in {"on", "off"}
  BY <1>1, Facts, AtCall DEF Called
<1>3. count' \in CountType /\ display' \in {"on", "off"}
  BY <1>1, <1>2 DEF CountUp, CountType
<1>4. Frame
  BY <1>1, <1>3, Facts, MonGen DEF ctrl, Frame
<1>5. loc[t] \in LocRec(gen) /\ loc' = [loc EXCEPT ![t] = loc[t]]
  BY <1>1, LocSame
<1> QED
  BY <1>1, <1>2, <1>4, <1>5, LightProceed, LightGiveUp

LEMMA CloseWindowStep ==
  ASSUME LoopInv, NEW t \in Threads, CloseWindow(t)
  PROVE  LoopInv'
<1>1. /\ At(t, "close") \/ At(t, "destroy")
      /\ UNCHANGED <<ctrl, timers, mon, notes, display, loc, count>> /\ Proceed(t)
      /\ \/ win' = [win EXCEPT !.doomed = win.up, !.cancel = 0]
         \/ win' = [win EXCEPT !.doomed = TRUE]
  BY DEF CloseWindow
<1>2. win \in WinType
  BY Facts
<1>3. win.up = TRUE \/ win.up = FALSE
  BY <1>2 DEF WinType
<1>4. \/ win' = [win EXCEPT !.doomed = TRUE, !.cancel = 0]
      \/ win' = [win EXCEPT !.doomed = FALSE, !.cancel = 0]
      \/ win' = [win EXCEPT !.doomed = TRUE]
  BY <1>1, <1>3
<1>5. win' \in WinType
  <2>1. CASE win' = [win EXCEPT !.doomed = TRUE, !.cancel = 0]
    BY <1>2, <2>1 DEF WinType
  <2>2. CASE win' = [win EXCEPT !.doomed = FALSE, !.cancel = 0]
    BY <1>2, <2>2 DEF WinType
  <2>3. CASE win' = [win EXCEPT !.doomed = TRUE]
    BY <1>2, <2>3 DEF WinType
  <2> QED
    BY <1>4, <2>1, <2>2, <2>3
<1>6. Frame
  BY <1>1, <1>5, Facts, MonGen DEF ctrl, Frame
<1>7. loc[t] \in LocRec(gen) /\ loc' = [loc EXCEPT ![t] = loc[t]]
  BY <1>1, LocSame
<1> QED
  BY <1>1, <1>6, <1>7, LightProceed

LEMMA WindowHidesStep ==
  ASSUME LoopInv, WindowHides
  PROVE  LoopInv'
<1>1. /\ win.hides > 0 /\ win' = [Hidden(win) EXCEPT !.hides = @ - 1]
      /\ UNCHANGED <<ctrl, timers, mon, notes, display, todo, loc, count>>
  BY DEF WindowHides
<1>2. win \in WinType
  BY Facts
<1> DEFINE h == win.hides - 1
<1>3. h \in Nat
  BY <1>1, <1>2 DEF WinType
<1>4. win' = [[win EXCEPT !.visible = FALSE, !.cancel = 0] EXCEPT !.hides = h]
  <2>1. [win EXCEPT !.visible = FALSE, !.cancel = 0].hides = win.hides
    BY <1>2 DEF WinType
  <2> QED
    BY <1>1, <2>1 DEF Hidden
<1> HIDE DEF h
<1>5. win' \in WinType
  BY <1>2, <1>3, <1>4 DEF WinType
<1>6. Frame
  BY <1>1, <1>5, Facts, MonGen DEF ctrl, Frame
<1> QED
  BY <1>1, <1>6, StillStep

LEMMA WindowExitsStep ==
  ASSUME LoopInv, WindowExits
  PROVE  LoopInv'
<1>1. /\ win' = [up |-> FALSE, visible |-> FALSE, cancel |-> 0, hides |-> 0, doomed |-> FALSE]
      /\ UNCHANGED <<ctrl, timers, mon, notes, display, todo, loc, count>>
  BY DEF WindowExits
<1>2. win' \in WinType
  BY <1>1 DEF WinType
<1>3. Frame
  BY <1>1, <1>2, Facts, MonGen DEF ctrl, Frame
<1> QED
  BY <1>1, <1>3, StillStep

LEMMA MonitorExitsStep ==
  ASSUME LoopInv, NEW m \in Monitors, MonitorExits(m)
  PROVE  LoopInv'
<1>1. /\ mon' = [mon EXCEPT ![m].alive = FALSE] /\ notes' = IF m = "power" THEN 0 ELSE notes
      /\ UNCHANGED <<ctrl, timers, win, display, todo, loc, count>>
  BY DEF MonitorExits
<1>2. mon \in MonType /\ notes \in Nat
  BY Facts
<1>3. mon' \in MonType /\ \A n \in Monitors : mon'[n].gen = mon[n].gen
  BY <1>1, <1>2 DEF MonType
<1>4. notes' \in Nat
  BY <1>1, <1>2
<1>5. Frame
  BY <1>1, <1>3, <1>4, Facts, MonGen DEF ctrl, Frame
<1> QED
  BY <1>1, <1>5, StillStep

LEMMA WakeStep ==
  ASSUME LoopInv, Wake
  PROVE  LoopInv'
<1>1. /\ display' = "on" /\ notes' = IF mon["power"].alive THEN notes + 1 ELSE notes
      /\ UNCHANGED <<ctrl, timers, mon, win, todo, loc, count>>
  BY DEF Wake
<1>2. notes' \in Nat
  BY <1>1, Facts
<1>3. Frame
  BY <1>1, <1>2, Facts, MonGen DEF ctrl, Frame
<1> QED
  BY <1>1, <1>3, StillStep

LEMMA PowerOnStep ==
  ASSUME LoopInv, PowerOn
  PROVE  LoopInv' /\ Goes("power", {Do("countdown", "reprotection")})
<1> DEFINE r == [loc["power"] EXCEPT !.gen = mon["power"].gen]
           s == <<Do("countdown", "reprotection")>>
           C == {Do("countdown", "reprotection")}
<1>1. /\ Idle("power") /\ notes > 0 /\ notes' = notes - 1 /\ Then("power", s)
      /\ loc' = [loc EXCEPT !["power"].gen = mon["power"].gen]
      /\ UNCHANGED <<ctrl, timers, mon, win, display, count>>
  BY DEF PowerOn
<1>2. /\ "power" \in Threads /\ ProgramOK /\ DOMAIN todo = Threads /\ loc["power"] \in LocRec(gen)
      /\ notes \in Nat /\ mon \in MonType /\ gen \in Nat /\ "power" \in Monitors
  BY Facts, LocOf
<1>3. ~Has("power", "hide", "window")
  BY <1>1, <1>2, IdleHas
<1>4. Program("power", s) /\ Elems(s) = C
  BY WakeProgram
<1>5. Do("settle", "flow") \notin C
  BY DoFields
<1> HIDE DEF s, C
<1>6. ProgramOK' /\ DOMAIN todo' = Threads /\ Goes("power", C)
  BY <1>1, <1>2, <1>4, Moved
<1>7. notes' \in Nat
  BY <1>1, <1>2
<1>8. Frame
  BY <1>1, <1>7, Facts, MonGen DEF ctrl, Frame
<1>9. mon["power"].gen \in 0..gen
  <2>1. mon["power"].gen \in Nat /\ mon["power"].gen <= gen
    BY <1>2, MonGen DEF MonType
  <2> QED
    BY <1>2, <2>1
<1>10. r \in LocRec(gen)
  BY <1>2, <1>9 DEF LocRec
<1>11. loc' = [loc EXCEPT !["power"] = r]
  BY <1>1
<1> HIDE DEF r
<1>12. LoopInv'
  BY <1>2, <1>3, <1>5, <1>6, <1>8, <1>10, <1>11, LightStep
<1> QED
  BY <1>6, <1>12 DEF C

\* The timers.
TimerFrame ==
    /\ gen' = gen /\ closed' = closed /\ active' = active /\ pending' = pending
    /\ mon' = mon /\ notes' = notes /\ display' = display
    /\ win' \in WinType /\ count' \in CountType

LEMMA TimedStep ==
  ASSUME LoopInv, NEW t \in Threads, NEW r \in LocRec(gen), TimerFrame,
         loc' = [loc EXCEPT ![t] = r], ProgramOK', DOMAIN todo' = Threads,
         timer' \in Timers \cup {NoTimer}, state' \in States, timers' \in TimersType, TimersOK'
  PROVE  LoopInv'
<1>1. /\ gen' = gen /\ closed' = closed /\ active' = active /\ pending' = pending
      /\ mon' = mon /\ notes' = notes /\ display' = display
      /\ win' \in WinType /\ count' \in CountType
  BY DEF TimerFrame
<1>2. loc' \in LocType(gen')
  BY <1>1, LocSet
<1>3. /\ gen' \in Nat /\ closed' \in BOOLEAN /\ active' \in FlagType /\ pending' \in FlagType
      /\ mon' \in MonType /\ notes' \in Nat /\ display' \in {"on", "off"}
      /\ \A m \in Monitors : mon'[m].gen <= gen'
  BY <1>1, Facts, MonGen
<1>4. TypeInv'
  BY <1>1, <1>2, <1>3, TypesGive
<1> QED
  BY <1>4 DEF LoopInv

\* While the display is being turned off, nothing else moves the loop on.
LEMMA SettlersStay ==
  ASSUME LoopInv, NEW t \in Threads, NEW C, Goes(t, C), gen' = gen,
         \A u \in Threads \ {t} : loc'[u] = loc[u],
         Do("settle", "flow") \in C /\ loc'[t].gen = gen =>
             Has(t, "settle", "flow") /\ loc[t].gen = gen,
         state = "turning_off" => state' = state
  PROVE  /\ \A u \in Threads : Has(u, "settle", "flow")' /\ loc'[u].gen = gen' => state' = "turning_off"
         /\ \A u, v \in Threads :
               /\ Has(u, "settle", "flow")' /\ loc'[u].gen = gen'
               /\ Has(v, "settle", "flow")' /\ loc'[v].gen = gen'
               => u = v
<1>1. TimersOK
  BY Facts
<1>2. \A u \in Threads : Has(u, "settle", "flow")' /\ loc'[u].gen = gen =>
          Has(u, "settle", "flow") /\ loc[u].gen = gen
  BY DEF Goes, Has
<1> QED
  BY <1>1, <1>2 DEF TimersOK

\* A timer is held by the controller or by a thread that is going to cancel it.
Held(k) == timer = k \/ \E u \in Threads : (loc[u].timer = k /\ Has(u, "hide", "window"))

LEMMA TimersGive ==
  ASSUME timer' # NoTimer => state' \in Counting,
         \A k \in Timers : timers'[k].st # "free" => Held(k)',
         \A u \in Threads : Has(u, "settle", "flow")' /\ loc'[u].gen = gen' => state' = "turning_off",
         \A u, v \in Threads :
             /\ Has(u, "settle", "flow")' /\ loc'[u].gen = gen'
             /\ Has(v, "settle", "flow")' /\ loc'[v].gen = gen'
             => u = v
  PROVE  TimersOK'
BY DEF TimersOK, Held

LEMMA HeldNow == LoopInv => /\ timer # NoTimer => state \in Counting
                            /\ \A k \in Timers : timers[k].st # "free" => Held(k)
BY DEF LoopInv, TimersOK, Held

\* Whoever is not the thread that moves still holds what it held.
LEMMA HeldStays ==
  ASSUME NEW t \in Threads, NEW C, Goes(t, C), \A u \in Threads \ {t} : loc'[u] = loc[u],
         NEW k \in Timers, Held(k), timer = k => timer' = k, ~(loc[t].timer = k /\ Has(t, "hide", "window"))
  PROVE  Held(k)'
<1>1. CASE timer = k
  BY <1>1 DEF Held
<1>2. CASE timer # k
  <2>1. PICK u \in Threads : loc[u].timer = k /\ Has(u, "hide", "window")
    BY <1>2 DEF Held
  <2>2. u # t /\ loc'[u].timer = k /\ Has(u, "hide", "window")'
    BY <2>1 DEF Goes, Has
  <2> QED
    BY <2>2 DEF Held
<1> QED
  BY <1>1, <1>2

LEMMA CancelledType ==
  ASSUME LoopInv, NEW k
  PROVE  /\ Cancelled(k) \in TimersType
         /\ \A j \in Timers : Cancelled(k)[j].st # "free" => j # k /\ timers[j].st # "free"
<1>1. timers \in TimersType
  BY Facts
<1>2. Free \in [gen : Nat, st : {"free", "new", "running"}] /\ Free.st = "free"
  BY DEF Free
<1> QED
  BY <1>1, <1>2 DEF Cancelled, TimersType

LEMMA HideStep ==
  ASSUME LoopInv, NEW t \in Threads, Hide(t)
  PROVE  LoopInv'
<1> DEFINE x == loc[t].timer
           r == [loc[t] EXCEPT !.timer = NoTimer]
           C == Elems(todo[t]) \ {Do("hide", "window")}
           h == win.hides + 1
<1>1. /\ At(t, "hide") /\ timers' = Cancelled(x) /\ loc' = [loc EXCEPT ![t] = r] /\ Proceed(t)
      /\ win' = IF win.up /\ ~win.doomed THEN [win EXCEPT !.hides = h] ELSE win
      /\ UNCHANGED <<ctrl, mon, notes, display, count>>
  BY DEF Hide
<1>2. /\ loc[t] \in LocRec(gen) /\ win \in WinType /\ count \in CountType /\ h \in Nat
      /\ timer \in Timers \cup {NoTimer} /\ state \in States
      /\ ProgramOK' /\ DOMAIN todo' = Threads /\ Goes(t, C)
  <2>1. loc[t] \in LocRec(gen) /\ win \in WinType /\ count \in CountType
        /\ timer \in Timers \cup {NoTimer} /\ state \in States /\ ProgramOK
    BY Facts, LocOf
  <2>2. Now(t) = "window"
    BY <1>1, <2>1, AtCall DEF Called
  <2>3. ProgramOK' /\ DOMAIN todo' = Threads /\ Goes(t, C)
    BY <1>1, <2>2, ProceedCalls
  <2>4. h \in Nat
    BY <2>1 DEF WinType
  <2> QED
    BY <2>1, <2>3, <2>4
<1>3. Do("settle", "flow") \in C => Has(t, "settle", "flow")
  BY DEF Has
<1>4. r \in LocRec(gen) /\ r.gen = loc[t].gen
  BY <1>2 DEF LocRec
<1> HIDE DEF x, r, C, h
<1>5. win' \in WinType
  BY <1>1, <1>2 DEF WinType
<1>6. TimerFrame
  BY <1>1, <1>2, <1>5 DEF ctrl, TimerFrame
<1>7. timers' \in TimersType /\ \A j \in Timers : timers'[j].st # "free" => j # x /\ timers[j].st # "free"
  BY <1>1, CancelledType
<1>8. loc'[t] = r /\ \A u \in Threads \ {t} : loc'[u] = loc[u]
  BY <1>1, <1>4, <1>6, LocSet DEF TimerFrame
<1>9. gen' = gen /\ timer' = timer /\ state' = state
  BY <1>1 DEF ctrl
<1>10. ASSUME NEW k \in Timers, timers'[k].st # "free" PROVE Held(k)'
  <2>1. k # loc[t].timer /\ Held(k)
    BY <1>7, <1>10, HeldNow DEF x
  <2> QED
    BY <1>2, <1>8, <1>9, <2>1, HeldStays
<1>11. /\ \A u \in Threads : Has(u, "settle", "flow")' /\ loc'[u].gen = gen' => state' = "turning_off"
       /\ \A u, v \in Threads :
             /\ Has(u, "settle", "flow")' /\ loc'[u].gen = gen'
             /\ Has(v, "settle", "flow")' /\ loc'[v].gen = gen'
             => u = v
  BY <1>2, <1>3, <1>4, <1>8, <1>9, SettlersStay
<1>12. TimersOK'
  BY <1>9, <1>10, <1>11, HeldNow, TimersGive
<1> QED
  BY <1>1, <1>2, <1>4, <1>6, <1>7, <1>9, <1>12, TimedStep

\* A thread that does not cancel leaves all timers held, and settles no other flow.
LEMMA QuietTimers ==
  ASSUME LoopInv, NEW t \in Threads, NEW C, Goes(t, C), gen' = gen, ~Has(t, "hide", "window"),
         \A u \in Threads \ {t} : loc'[u] = loc[u],
         Do("settle", "flow") \in C /\ loc'[t].gen = gen =>
             Has(t, "settle", "flow") /\ loc[t].gen = gen,
         state = "turning_off" => state' = state,
         timer' # NoTimer => state' \in Counting,
         \A k \in Timers : timers'[k].st # "free" =>
             timer' = k \/ ((timer' = timer \/ timer = NoTimer) /\ timers[k].st # "free")
  PROVE  TimersOK'
<1>1. ASSUME NEW k \in Timers, timers'[k].st # "free" PROVE Held(k)'
  <2>1. CASE timer' = k
    BY <2>1 DEF Held
  <2>2. CASE (timer' = timer \/ timer = NoTimer) /\ timers[k].st # "free"
    <3>1. Held(k) /\ k # NoTimer
      BY <2>2, HeldNow, ConstantsAssumption
    <3>2. timer = k => timer' = k
      BY <2>2, <3>1
    <3> QED
      BY <3>1, <3>2, HeldStays
  <2> QED
    BY <1>1, <2>1, <2>2
<1>2. /\ \A u \in Threads : Has(u, "settle", "flow")' /\ loc'[u].gen = gen' => state' = "turning_off"
      /\ \A u, v \in Threads :
            /\ Has(u, "settle", "flow")' /\ loc'[u].gen = gen'
            /\ Has(v, "settle", "flow")' /\ loc'[v].gen = gen'
            => u = v
  BY SettlersStay
<1> QED
  BY <1>1, <1>2, TimersGive

\* What a countdown does.
LEMMA CountdownCalls ==
  ASSUME LoopInv, NEW t \in Threads, Countdown(t)
  PROVE  /\ (t = "api" /\ Now(t) = "initial") \/ (t = "power" /\ Now(t) = "reprotection")
         /\ ProgramOK' /\ DOMAIN todo' = Threads
         /\ \/ ~MayCount(t) /\ Return(t) /\ Goes(t, {})
            \/ MayCount(t) /\ Goes(t, Showing(Now(t)))
            \/ MayCount(t) /\ GiveUp(t) /\ Goes(t, {GivingUp})
<1> DEFINE n == Now(t)
           s == <<Do("show", n), Do("send_show", n), Do("verify", n), Do("start_timer", n)>>
<1>1. /\ At(t, "countdown")
      /\ \/ ~MayCount(t) /\ Return(t)
         \/ MayCount(t) /\ Then(t, s)
         \/ MayCount(t) /\ GiveUp(t)
  BY DEF Countdown
<1>2. /\ (t = "api" /\ n = "initial") \/ (t = "power" /\ n = "reprotection")
      /\ ProgramOK /\ DOMAIN todo = Threads /\ n \in Counting
  BY <1>1, Facts, AtCall DEF Called, Counting
<1>3. Program(t, s) /\ Elems(s) = Showing(n)
  BY <1>2, ShowProgram
<1> HIDE DEF s, n
<1>4. CASE ~MayCount(t) /\ Return(t)
  <2>1. ProgramOK' /\ DOMAIN todo' = Threads /\ Goes(t, {})
    BY <1>4, ReturnCalls DEF Return
  <2> QED
    BY <1>2, <1>4, <2>1 DEF n
<1>5. CASE MayCount(t) /\ Then(t, s)
  <2>1. ProgramOK' /\ DOMAIN todo' = Threads /\ Goes(t, Elems(s))
    BY <1>2, <1>3, <1>5, Moved
  <2> QED
    BY <1>2, <1>3, <1>5, <2>1 DEF n
<1>6. CASE MayCount(t) /\ GiveUp(t)
  <2>1. t \notin {"input", "window"}
    BY <1>2
  <2>2. ProgramOK' /\ DOMAIN todo' = Threads /\ Goes(t, {GivingUp})
    BY <1>6, <2>1, GiveUpCalls
  <2> QED
    BY <1>2, <1>6, <2>2 DEF n
<1> QED
  BY <1>1, <1>4, <1>5, <1>6

LEMMA CountdownStep ==
  ASSUME LoopInv, NEW t \in Threads, Countdown(t)
  PROVE  LoopInv'
<1>1. /\ At(t, "countdown") /\ UNCHANGED <<gen, closed, active, pending, mon, notes, win, display>>
      /\ \/ ~MayCount(t) /\ Return(t) /\ UNCHANGED <<timer, state, timers, count>>
         \/ /\ MayCount(t) /\ state' = Now(t) /\ UNCHANGED count
            /\ \E k \in Timers :
                  /\ timers' = [timers EXCEPT ![k] = [gen |-> gen, st |-> "new"]]
                  /\ timer' = k /\ loc' = [loc EXCEPT ![t].timer = k]
         \/ /\ MayCount(t) /\ CountUp("fails") /\ state' = Now(t) /\ UNCHANGED <<timer, timers, loc>>
  BY DEF Countdown
<1>2. /\ Now(t) \in Counting /\ ProgramOK' /\ DOMAIN todo' = Threads
      /\ ~Has(t, "hide", "window")
  <2>1. ~Has(t, "hide", "window")
    BY <1>1, Facts, AtCall DEF Called
  <2> QED
    BY <2>1, CountdownCalls DEF Counting
<1>3. /\ loc[t] \in LocRec(gen) /\ Locals \in LocRec(gen) /\ count \in CountType /\ timers \in TimersType
      /\ win \in WinType /\ gen \in Nat /\ state \in States /\ timer \in Timers \cup {NoTimer}
  BY Facts, LocOf
<1>4. MayCount(t) => timer = NoTimer /\ state # "turning_off"
  BY CountdownCalls DEF MayCount, Expected
<1>5. \E C : Goes(t, C) /\ Do("settle", "flow") \notin C
  <2>1. \A n : Do("settle", "flow") \notin Showing(n) /\ Do("settle", "flow") \notin {GivingUp}
    BY DoFields DEF Showing, GivingUp
  <2>2. Do("settle", "flow") \notin {}
    OBVIOUS
  <2> QED
    BY <2>1, <2>2, CountdownCalls
<1>6. PICK C : Goes(t, C) /\ Do("settle", "flow") \notin C
  BY <1>5
<1>7. CASE ~MayCount(t) /\ Return(t) /\ UNCHANGED <<timer, state, timers, count>>
  <2>1. Frame
    BY <1>1, <1>7, Facts, MonGen DEF Frame
  <2> QED
    BY <1>1, <1>7, <2>1, LightReturn
<1>8. CASE /\ MayCount(t) /\ state' = Now(t) /\ UNCHANGED count
           /\ \E k \in Timers :
                 /\ timers' = [timers EXCEPT ![k] = [gen |-> gen, st |-> "new"]]
                 /\ timer' = k /\ loc' = [loc EXCEPT ![t].timer = k]
  <2>1. PICK k \in Timers :
           /\ timers' = [timers EXCEPT ![k] = [gen |-> gen, st |-> "new"]]
           /\ timer' = k /\ loc' = [loc EXCEPT ![t].timer = k]
    BY <1>8
  <2> DEFINE r == [loc[t] EXCEPT !.timer = k]
             x == [gen |-> gen, st |-> "new"]
  <2>2. r \in LocRec(gen) /\ loc' = [loc EXCEPT ![t] = r]
    BY <1>3, <2>1 DEF LocRec
  <2>3. timers' = [timers EXCEPT ![k] = x] /\ x \in [gen : Nat, st : {"free", "new", "running"}]
    BY <1>3, <2>1
  <2> HIDE DEF r, x
  <2>4. timers' \in TimersType /\ \A j \in Timers : j # k => timers'[j] = timers[j]
    BY <1>3, <2>3 DEF TimersType
  <2>5. TimerFrame
    BY <1>1, <1>3, <1>8 DEF TimerFrame
  <2>6. gen' = gen /\ \A u \in Threads \ {t} : loc'[u] = loc[u]
    BY <2>2, <2>5, LocSet DEF TimerFrame
  <2>7. state' \in Counting /\ state' \in States /\ timer = NoTimer /\ state # "turning_off"
    BY <1>2, <1>4, <1>8 DEF States
  <2>8. \A j \in Timers : timers'[j].st # "free" =>
            timer' = j \/ ((timer' = timer \/ timer = NoTimer) /\ timers[j].st # "free")
    BY <2>1, <2>4, <2>7
  <2>9. TimersOK'
    BY <1>2, <1>6, <2>6, <2>7, <2>8, QuietTimers
  <2> QED
    BY <1>2, <2>1, <2>2, <2>4, <2>5, <2>7, <2>9, TimedStep
<1>9. CASE MayCount(t) /\ CountUp("fails") /\ state' = Now(t) /\ UNCHANGED <<timer, timers, loc>>
  <2>1. count' \in CountType
    BY <1>3, <1>9 DEF CountUp, CountType
  <2>2. TimerFrame
    BY <1>1, <1>3, <2>1 DEF TimerFrame
  <2>3. loc' = [loc EXCEPT ![t] = loc[t]]
    BY <1>9, LocSame
  <2>4. gen' = gen /\ \A u \in Threads \ {t} : loc'[u] = loc[u]
    BY <1>9, <2>2 DEF TimerFrame
  <2>5. /\ state' \in Counting /\ state' \in States /\ state # "turning_off"
        /\ timer' = timer /\ timers' = timers
    BY <1>2, <1>4, <1>9 DEF States
  <2>6. ASSUME NEW j \in Timers, timers'[j].st # "free"
        PROVE  timer' = timer /\ timers[j].st # "free"
    BY <2>5, <2>6
  <2>7. TimersOK'
    BY <1>2, <1>6, <2>4, <2>5, <2>6, QuietTimers
  <2> QED
    BY <1>2, <1>3, <2>2, <2>3, <2>5, <2>7, TimedStep
<1> QED
  BY <1>1, <1>7, <1>8, <1>9

LEMMA VerifyStep ==
  ASSUME LoopInv, NEW t \in Threads, Verify(t)
  PROVE  LoopInv'
<1>1. /\ At(t, "verify") /\ UNCHANGED <<ctrl, mon, notes, win, display, count>>
      /\ \/ Proceed(t) /\ UNCHANGED <<timers, loc>>
         \/ timers' = Cancelled(loc[t].timer) /\ Return(t)
  BY DEF Verify
<1>2. ~Has(t, "hide", "window") /\ Locals \in LocRec(gen)
  BY <1>1, Facts, LocOf, AtCall DEF Called
<1>3. /\ count \in CountType /\ win \in WinType /\ state \in States
      /\ timer \in Timers \cup {NoTimer}
  BY Facts
<1>4. CASE Proceed(t) /\ UNCHANGED <<timers, loc>>
  <2>1. Frame
    BY <1>1, <1>4, Facts, MonGen DEF ctrl, Frame
  <2>2. loc[t] \in LocRec(gen) /\ loc' = [loc EXCEPT ![t] = loc[t]]
    BY <1>4, LocSame
  <2> QED
    BY <1>1, <1>4, <2>1, <2>2, LightProceed
<1>5. CASE timers' = Cancelled(loc[t].timer) /\ Return(t)
  <2>1. ProgramOK' /\ DOMAIN todo' = Threads /\ Goes(t, {}) /\ loc' = [loc EXCEPT ![t] = Locals]
    BY <1>5, ReturnCalls DEF Return
  <2>2. timers' \in TimersType /\ \A j \in Timers : timers'[j].st # "free" => timers[j].st # "free"
    BY <1>5, CancelledType
  <2>3. TimerFrame
    BY <1>1, <1>3 DEF ctrl, TimerFrame
  <2>4. gen' = gen /\ \A u \in Threads \ {t} : loc'[u] = loc[u]
    BY <1>2, <2>1, <2>3, LocSet DEF TimerFrame
  <2>5. timer' = timer /\ state' = state /\ (timer' # NoTimer => state' \in Counting)
    BY <1>1, HeldNow DEF ctrl
  <2>6. Do("settle", "flow") \notin {}
    OBVIOUS
  <2>7. TimersOK'
    BY <1>2, <2>1, <2>2, <2>4, <2>5, <2>6, QuietTimers
  <2> QED
    BY <1>2, <1>3, <2>1, <2>2, <2>3, <2>5, <2>7, TimedStep
<1> QED
  BY <1>1, <1>4, <1>5

LEMMA StartTimerStep ==
  ASSUME LoopInv, NEW t \in Threads, StartTimer(t)
  PROVE  LoopInv'
<1>1. /\ At(t, "start_timer") /\ UNCHANGED <<ctrl, mon, notes, win, display>>
      /\ \/ timers' = Started(loc[t].timer) /\ Return(t) /\ UNCHANGED count
         \/ CountUp("fails") /\ GiveUp(t) /\ UNCHANGED <<timers, loc>>
  BY DEF StartTimer
<1>2. /\ ~Has(t, "hide", "window") /\ Locals \in LocRec(gen) /\ loc[t] \in LocRec(gen)
      /\ t \notin {"input", "window"}
  BY <1>1, Facts, LocOf, AtCall DEF Called
<1>3. /\ count \in CountType /\ win \in WinType /\ state \in States
      /\ timer \in Timers \cup {NoTimer} /\ timers \in TimersType
  BY Facts
<1>4. CASE CountUp("fails") /\ GiveUp(t) /\ UNCHANGED <<timers, loc>>
  <2>1. count' \in CountType
    BY <1>3, <1>4 DEF CountUp, CountType
  <2>2. Frame
    BY <1>1, <1>4, <2>1, Facts, MonGen DEF ctrl, Frame
  <2> QED
    BY <1>1, <1>2, <1>4, <2>2, LightGiveUp
<1>5. CASE timers' = Started(loc[t].timer) /\ Return(t) /\ UNCHANGED count
  <2>1. ProgramOK' /\ DOMAIN todo' = Threads /\ Goes(t, {}) /\ loc' = [loc EXCEPT ![t] = Locals]
    BY <1>5, ReturnCalls DEF Return
  <2>2. timers' \in TimersType /\ \A j \in Timers : timers'[j].st # "free" => timers[j].st # "free"
    <3> DEFINE k == loc[t].timer
    <3>1. timers' = IF timers[k].st = "new" THEN [timers EXCEPT ![k].st = "running"] ELSE timers
      BY <1>5 DEF Started
    <3>2. k \in Timers \/ k \notin Timers
      OBVIOUS
    <3> HIDE DEF k
    <3> QED
      BY <1>3, <3>1, <3>2 DEF TimersType
  <2>3. TimerFrame
    BY <1>1, <1>3, <1>5 DEF ctrl, TimerFrame
  <2>4. gen' = gen /\ \A u \in Threads \ {t} : loc'[u] = loc[u]
    BY <1>2, <2>1, <2>3, LocSet DEF TimerFrame
  <2>5. timer' = timer /\ state' = state /\ (timer' # NoTimer => state' \in Counting)
    BY <1>1, HeldNow DEF ctrl
  <2>6. Do("settle", "flow") \notin {}
    OBVIOUS
  <2>7. TimersOK'
    BY <1>2, <2>1, <2>2, <2>4, <2>5, <2>6, QuietTimers
  <2> QED
    BY <1>2, <1>3, <2>1, <2>2, <2>3, <2>5, <2>7, TimedStep
<1> QED
  BY <1>1, <1>4, <1>5

LEMMA SettleStep ==
  ASSUME LoopInv, NEW t \in Threads, Settle(t)
  PROVE  LoopInv' /\ (state = "idle" => state' = "idle")
<1>1. /\ At(t, "settle") /\ Return(t) /\ UNCHANGED <<gen, timer, closed, active, pending, env>>
      /\ state' = IF Current(loc[t].gen) THEN "waiting" ELSE state
  BY DEF Settle
<1>2. /\ ~Has(t, "hide", "window") /\ Locals \in LocRec(gen) /\ Has(t, "settle", "flow")
  BY <1>1, Facts, LocOf, AtCall DEF Called, Has
<1>3. /\ count \in CountType /\ win \in WinType /\ state \in States /\ TimersOK
      /\ timer \in Timers \cup {NoTimer} /\ timers \in TimersType
  BY Facts
<1>4. /\ ProgramOK' /\ DOMAIN todo' = Threads /\ Goes(t, {}) /\ loc' = [loc EXCEPT ![t] = Locals]
  BY <1>1, ReturnCalls DEF Return
<1>5. TimerFrame /\ timers' = timers /\ timer' = timer
  BY <1>1, <1>3 DEF env, TimerFrame
<1>6. gen' = gen /\ \A u \in Threads \ {t} : loc'[u] = loc[u]
  BY <1>2, <1>4, <1>5, LocSet DEF TimerFrame
<1>7. Current(loc[t].gen) => state = "turning_off" /\ loc[t].gen = gen
  BY <1>2, <1>3 DEF Current, TimersOK
<1>8. state' \in States
  BY <1>1, <1>3 DEF States
<1>9. TimersOK'
  <2>1. Do("settle", "flow") \notin {}
    OBVIOUS
  <2>2. CASE ~Current(loc[t].gen)
    <3>1. state' = state /\ (timer' # NoTimer => state' \in Counting)
      BY <1>1, <1>5, <2>2, HeldNow
    <3> QED
      BY <1>2, <1>4, <1>5, <1>6, <2>1, <3>1, QuietTimers
  <2>3. CASE Current(loc[t].gen)
    <3>1. timer' = NoTimer
      BY <1>5, <1>7, <2>3, HeldNow DEF Counting
    <3>2. ASSUME NEW u \in Threads, Has(u, "settle", "flow")', loc'[u].gen = gen' PROVE FALSE
      <4>1. u # t
        BY <1>4, <3>2 DEF Goes, Has
      <4>2. Has(u, "settle", "flow") /\ loc[u].gen = gen
        BY <1>4, <1>6, <3>2, <4>1 DEF Goes, Has
      <4> QED
        BY <1>2, <1>3, <1>7, <2>3, <4>1, <4>2 DEF TimersOK
    <3>3. ASSUME NEW k \in Timers, timers'[k].st # "free" PROVE Held(k)'
      <4>1. Held(k)
        BY <1>5, <3>3, HeldNow
      <4> QED
        BY <1>2, <1>4, <1>5, <1>6, <4>1, HeldStays
    <3> QED
      BY <3>1, <3>2, <3>3, TimersGive
  <2> QED
    BY <2>2, <2>3
<1>10. LoopInv'
  BY <1>2, <1>3, <1>4, <1>5, <1>8, <1>9, TimedStep
<1> QED
  BY <1>1, <1>7, <1>10

LEMMA TimerFiresStep ==
  ASSUME LoopInv, NEW k \in Timers, TimerFires(k)
  PROVE  LoopInv' /\ (state = "idle" => state' = "idle")
<1> DEFINE s == <<Do("hide", "window"), Do("turn_off", "display"), Do("settle", "flow")>>
<1>1. /\ Idle(k) /\ timers' = Cancelled(k)
      /\ UNCHANGED <<gen, closed, active, pending, mon, notes, win, display, count>>
      /\ \/ /\ Current(timers[k].gen) /\ timer = k /\ timer' = NoTimer /\ state' = "turning_off"
            /\ Then(k, s) /\ loc' = [loc EXCEPT ![k].gen = timers[k].gen]
         \/ UNCHANGED <<timer, state, todo, loc>>
  BY DEF TimerFires
<1>2. /\ k \in Threads /\ ProgramOK /\ DOMAIN todo = Threads /\ gen \in Nat /\ loc[k] \in LocRec(gen)
      /\ count \in CountType /\ win \in WinType /\ state \in States /\ TimersOK
      /\ timer \in Timers \cup {NoTimer} /\ timers \in TimersType
  BY Facts, LocOf
<1>3. ~Has(k, "hide", "window") /\ k # NoTimer
  BY <1>1, <1>2, IdleHas, ConstantsAssumption
<1>4. timers' \in TimersType /\ \A j \in Timers : timers'[j].st # "free" => j # k /\ timers[j].st # "free"
  BY <1>1, CancelledType
<1>5. TimerFrame
  BY <1>1, <1>2 DEF TimerFrame
<1>6. CASE UNCHANGED <<timer, state, todo, loc>>
  <2>1. loc' = [loc EXCEPT ![k] = loc[k]] /\ ProgramOK' /\ DOMAIN todo' = Threads
        /\ Goes(k, Elems(todo[k]))
    BY <1>2, <1>6, LocSame, NobodyGoes
  <2>2. gen' = gen /\ \A u \in Threads \ {k} : loc'[u] = loc[u]
    BY <1>1, <1>6
  <2>3. timer' = timer /\ state' = state /\ (timer' # NoTimer => state' \in Counting)
    BY <1>6, HeldNow
  <2>4. Do("settle", "flow") \in Elems(todo[k]) /\ loc'[k].gen = gen =>
            Has(k, "settle", "flow") /\ loc[k].gen = gen
    BY <1>6 DEF Has
  <2>5. TimersOK'
    BY <1>2, <1>3, <1>4, <2>1, <2>2, <2>3, <2>4, QuietTimers
  <2> QED
    BY <1>2, <1>4, <1>5, <2>1, <2>3, <2>5, TimedStep
<1>7. CASE /\ Current(timers[k].gen) /\ timer = k /\ timer' = NoTimer /\ state' = "turning_off"
           /\ Then(k, s) /\ loc' = [loc EXCEPT ![k].gen = timers[k].gen]
  <2> DEFINE r == [loc[k] EXCEPT !.gen = timers[k].gen]
  <2>1. Program(k, s) /\ Elems(s) = FireSet
    BY FireProgram
  <2> HIDE DEF s
  <2>2. ProgramOK' /\ DOMAIN todo' = Threads /\ Goes(k, FireSet)
    BY <1>2, <1>7, <2>1, Moved
  <2>3. timers[k].gen = gen /\ gen \in 0..gen
    BY <1>2, <1>7 DEF Current
  <2>4. r \in LocRec(gen) /\ loc' = [loc EXCEPT ![k] = r]
    BY <1>2, <1>7, <2>3 DEF LocRec
  <2> HIDE DEF r
  <2>5. gen' = gen /\ \A u \in Threads \ {k} : loc'[u] = loc[u]
    BY <1>2, <1>5, <2>4, LocSet DEF TimerFrame
  <2>6. state \in Counting
    BY <1>3, <1>7, HeldNow
  <2>7. ASSUME NEW u \in Threads, Has(u, "settle", "flow")', loc'[u].gen = gen' PROVE u = k
    <3>1. CASE u # k
      <4>1. Has(u, "settle", "flow") /\ loc[u].gen = gen
        BY <2>2, <2>5, <2>7, <3>1 DEF Goes, Has
      <4> QED
        BY <1>2, <2>6, <4>1 DEF TimersOK, Counting
    <3> QED
      BY <3>1
  <2>8. ASSUME NEW j \in Timers, timers'[j].st # "free" PROVE Held(j)'
    <3>1. Held(j) /\ j # k
      BY <1>4, <2>8, HeldNow
    <3> QED
      BY <1>2, <1>3, <1>7, <2>2, <2>5, <3>1, HeldStays
  <2>9. TimersOK'
    BY <1>7, <2>7, <2>8, TimersGive
  <2>10. state' \in States /\ timer' \in Timers \cup {NoTimer}
    BY <1>7 DEF States
  <2>11. LoopInv'
    BY <1>2, <1>4, <1>5, <2>2, <2>4, <2>9, <2>10, TimedStep
  <2> QED
    BY <2>6, <2>11 DEF Counting
<1> QED
  BY <1>1, <1>6, <1>7

LEMMA DeactivateStep ==
  ASSUME LoopInv, NEW t \in Threads, Deactivate(t)
  PROVE  /\ LoopInv' /\ (state = "idle" => state' = "idle")
         /\ Goes(t, IF gen = loc[t].gen THEN ToEnd(StillToStop) ELSE {})
<1>1. At(t, "deactivate") /\ UNCHANGED <<closed, env>>
      /\ IF gen = loc[t].gen THEN EndFlow(t, <<>>, 0)
         ELSE Return(t) /\ UNCHANGED <<gen, timer, state, active, pending>>
  BY DEF Deactivate
<1>2. ~Has(t, "hide", "window") /\ win \in WinType
  BY <1>1, Facts, AtCall DEF Called
<1>3. CASE gen = loc[t].gen
  <2>1. EndFlow(t, <<>>, 0) /\ timers' = timers /\ mon' = mon /\ closed' = closed /\ notes' = notes
        /\ display' = display /\ win' \in WinType /\ count' = count
    BY <1>1, <1>2, <1>3 DEF env
  <2>2. LoopInv' /\ Goes(t, ToEnd(StillToStop))
    BY <1>2, <2>1, EndsStep
  <2>3. state' = "idle"
    BY <2>1 DEF EndFlow
  <2> QED
    BY <1>3, <2>2, <2>3
<1>4. CASE gen # loc[t].gen
  <2>1. Return(t) /\ UNCHANGED <<gen, timer, state, active, pending>>
    BY <1>1, <1>4
  <2>2. Frame
    BY <1>1, <2>1, Facts, MonGen DEF env, Frame
  <2>3. LoopInv' /\ Goes(t, {})
    BY <1>1, <2>1, <2>2, LightReturn, ReturnCalls DEF Return
  <2> QED
    BY <1>4, <2>1, <2>3
<1> QED
  BY <1>3, <1>4

\* A click whose callback is stale, and one that ends the flow.
Clicked(R) ==
    IF win.cancel # 0 /\ Current(win.cancel) THEN ToEnd(StillToStop) \cup R ELSE R

LEMMA HiddenType == LoopInv => Hidden(win) \in WinType
<1>1. LoopInv => win \in WinType
  BY Facts
<1> QED
  BY <1>1 DEF Hidden, WinType

LEMMA ClickStep ==
  ASSUME LoopInv, NEW rest, Click(rest), NEW R, Do("settle", "flow") \notin R,
         Program("window", rest), Elems(rest) = R,
         Program("window", EndCalls(StillToStop) \o rest),
         Elems(EndCalls(StillToStop) \o rest) = ToEnd(StillToStop) \cup R
  PROVE  LoopInv' /\ Goes("window", Clicked(R)) /\ (state = "idle" => state' = "idle")
<1>1. /\ Idle("window") /\ win' = Hidden(win)
      /\ UNCHANGED <<closed, timers, mon, notes, display, count>>
      /\ IF win.cancel # 0 /\ Current(win.cancel) THEN EndFlow("window", rest, 0)
         ELSE Then("window", rest) /\ UNCHANGED <<gen, timer, state, active, pending, loc>>
  BY DEF Click
<1>2. /\ "window" \in Threads /\ ProgramOK /\ DOMAIN todo = Threads
      /\ win' \in WinType /\ count' \in CountType /\ closed' \in BOOLEAN
  BY <1>1, Facts, HiddenType
<1>3. ~Has("window", "hide", "window")
  BY <1>1, <1>2, IdleHas
<1>4. CASE win.cancel # 0 /\ Current(win.cancel)
  <2>1. EndFlow("window", rest, 0) /\ 0 \in {0, gen + 1}
    BY <1>1, <1>4
  <2>2. LoopInv' /\ Goes("window", ToEnd(StillToStop) \cup R)
    BY <1>1, <1>2, <1>3, <2>1, EndFlowStep
  <2>3. state' = "idle"
    BY <2>1 DEF EndFlow
  <2> QED
    BY <1>4, <2>2, <2>3 DEF Clicked
<1>5. CASE ~(win.cancel # 0 /\ Current(win.cancel))
  <2>1. Then("window", rest) /\ UNCHANGED <<gen, timer, state, active, pending, loc>>
    BY <1>1, <1>5
  <2>2. ProgramOK' /\ DOMAIN todo' = Threads /\ Goes("window", R)
    BY <1>2, <2>1, Moved
  <2>3. Frame
    BY <1>1, <1>2, <2>1, Facts, MonGen DEF Frame
  <2>4. LoopInv'
    BY <1>2, <1>3, <2>1, <2>2, <2>3, LightOther
  <2> QED
    BY <1>5, <2>1, <2>2, <2>4 DEF Clicked
<1> QED
  BY <1>4, <1>5

LEMMA CancelClickStep ==
  ASSUME LoopInv, CancelClick
  PROVE  LoopInv' /\ Goes("window", Clicked({})) /\ (state = "idle" => state' = "idle")
<1> DEFINE rest == <<>>
           R == {}
<1>1. StillToStop \in [Monitors -> BOOLEAN] /\ "window" \in Threads /\ Click(rest)
  BY Facts DEF FlagType, CancelClick
<1>2. /\ Program("window", EndCalls(StillToStop) \o rest)
      /\ Elems(EndCalls(StillToStop) \o rest) = ToEnd(StillToStop) \cup R
  <2>1. /\ Program("window", EndCalls(StillToStop) \o rest)
        /\ Elems(EndCalls(StillToStop) \o rest) = ToEnd(StillToStop)
    BY <1>1, OnlyTeardown
  <2> HIDE DEF rest
  <2> QED
    BY <2>1
<1>3. Program("window", rest) /\ Elems(rest) = R /\ Do("settle", "flow") \notin R
  BY <1>1, NoProgram, NoCalls
<1> HIDE DEF rest, R
<1>4. LoopInv' /\ Goes("window", Clicked(R)) /\ (state = "idle" => state' = "idle")
  BY <1>1, <1>2, <1>3, ClickStep
<1> QED
  BY <1>4 DEF R

LEMMA CloseClickStep ==
  ASSUME LoopInv, CloseClick
  PROVE  /\ LoopInv' /\ Goes("window", Clicked({Do("destroy", "window")}))
         /\ (state = "idle" => state' = "idle")
<1> DEFINE rest == <<Do("destroy", "window")>>
           R == {Do("destroy", "window")}
<1>1. StillToStop \in [Monitors -> BOOLEAN] /\ Click(rest)
  BY Facts DEF FlagType, CloseClick
<1>2. /\ Program("window", EndCalls(StillToStop) \o rest)
      /\ Elems(EndCalls(StillToStop) \o rest) = ToEnd(StillToStop) \cup R
  BY <1>1, DestroyTeardown
<1>3. Program("window", rest) /\ Elems(rest) = R /\ Do("settle", "flow") \notin R
  BY DestroyProgram, DoFields
<1> HIDE DEF rest, R
<1>4. LoopInv' /\ Goes("window", Clicked(R)) /\ (state = "idle" => state' = "idle")
  BY <1>1, <1>2, <1>3, ClickStep
<1> QED
  BY <1>4 DEF R

LEMMA LoopInit == Init => LoopInv
<1> SUFFICES ASSUME Init PROVE LoopInv
  OBVIOUS
<1>1. /\ gen = 0 /\ timer = NoTimer /\ state = "idle" /\ closed = FALSE
      /\ active = None /\ pending = None /\ notes = 0 /\ display = "on"
      /\ timers = [k \in Timers |-> Free]
      /\ mon = [m \in Monitors |-> [alive |-> FALSE, stop |-> FALSE, gen |-> 0, id |-> 0]]
      /\ win = [up |-> FALSE, visible |-> FALSE, cancel |-> 0, hides |-> 0, doomed |-> FALSE]
      /\ todo = [t \in Threads |-> <<>>]
      /\ loc = [t \in Threads |-> Locals]
      /\ count = [arms |-> 0, fails |-> 0, timeouts |-> 0]
  BY DEF Init
<1>2. \A t \in Threads : todo[t] = <<>> /\ loc[t] = Locals
  BY <1>1
<1>3. \A t \in Threads : Elems(todo[t]) = {}
  BY <1>2, NoCalls
<1>4. ProgramOK
  BY <1>2, NoProgram DEF ProgramOK
<1>5. Locals \in [gen : 0..0, timer : Timers \cup {NoTimer}, id : Nat, ok : BOOLEAN]
  BY DEF Locals
<1>6. loc \in [Threads -> [gen : 0..gen, timer : Timers \cup {NoTimer}, id : Nat, ok : BOOLEAN]]
  BY <1>1, <1>5
<1>7. /\ active \in [Monitors -> BOOLEAN] /\ pending \in [Monitors -> BOOLEAN]
      /\ timers \in [Timers -> [gen : Nat, st : {"free", "new", "running"}]]
      /\ mon \in [Monitors -> [alive : BOOLEAN, stop : BOOLEAN, gen : Nat, id : Nat]]
      /\ win \in [up : BOOLEAN, visible : BOOLEAN, cancel : Nat, hides : Nat, doomed : BOOLEAN]
      /\ count \in [{"arms", "fails", "timeouts"} -> Nat]
      /\ \A m \in Monitors : mon[m].gen <= gen
  BY <1>1 DEF None, Free
<1>8. gen \in Nat /\ closed \in BOOLEAN /\ timer \in Timers \cup {NoTimer} /\ state \in States
      /\ notes \in Nat /\ display \in {"on", "off"} /\ DOMAIN todo = Threads /\ DOMAIN loc = Threads
  BY <1>1 DEF States
<1>9. TypeInv
  BY <1>6, <1>7, <1>8 DEF TypeInv, TypeOK
<1>10. TimersOK
  <2>1. \A k \in Timers : timers[k].st = "free"
    BY <1>1 DEF Free
  <2> QED
    BY <1>1, <1>3, <2>1 DEF TimersOK, Has
<1> QED
  BY <1>4, <1>9, <1>10 DEF LoopInv

LEMMA LoopStutter == LoopInv /\ UNCHANGED vars => LoopInv'
BY DEF LoopInv, TypeInv, TypeOK, ProgramOK, TimersOK, Program, Has, vars, ctrl, env

\* Every action, but for arming, leaves the loop idle; a countdown starts it as arm() does.
LEMMA LoopNext ==
  ASSUME LoopInv, Next
  PROVE  LoopInv' /\ (state = "idle" /\ state' # "idle" => state' = "initial" /\ ~closed)
<1> DEFINE Restart == state = "idle" /\ state' # "idle" => state' = "initial" /\ ~closed
<1>1. CASE Arm \/ Close \/ KeyDown
  <2>1. state' = "idle"
    BY <1>1 DEF Arm, Close, KeyDown, EndFlow
  <2> QED
    BY <1>1, <2>1, ArmStep, CloseStep, KeyDownStep
<1>2. CASE CancelClick \/ CloseClick
  BY <1>2, CancelClickStep, CloseClickStep
<1>3. CASE Wake
  <2>1. state' = state
    BY <1>3 DEF Wake, ctrl
  <2> QED
    BY <1>3, <2>1, WakeStep
<1>4. ASSUME NEW k \in Timers, TimerFires(k) PROVE LoopInv' /\ Restart
  BY <1>4, TimerFiresStep
<1>5. CASE PowerOn \/ WindowHides \/ WindowExits
  <2>1. state' = state
    BY <1>5 DEF PowerOn, WindowHides, WindowExits, ctrl
  <2> QED
    BY <1>5, <2>1, PowerOnStep, WindowHidesStep, WindowExitsStep
<1>6. ASSUME NEW m \in Monitors, MonitorExits(m) PROVE LoopInv' /\ Restart
  <2>1. state' = state
    BY <1>6 DEF MonitorExits, ctrl
  <2> QED
    BY <1>6, <2>1, MonitorExitsStep
<1>7. ASSUME NEW t \in Threads, Step(t) PROVE LoopInv' /\ Restart
  <2>1. CASE Countdown(t)
    <3>1. UNCHANGED state \/ (MayCount(t) /\ state' = Now(t))
      BY <2>1 DEF Countdown
    <3>2. MayCount(t) /\ state = "idle" => Now(t) = "initial" /\ ~closed
      BY <2>1, CountdownCalls DEF MayCount, Current, Expected
    <3> QED
      BY <2>1, <3>1, <3>2, CountdownStep
  <2>2. CASE Deactivate(t) \/ Settle(t)
    BY <2>2, DeactivateStep, SettleStep
  <2>3. CASE Check(t) \/ Hide(t) \/ RequestStop(t) \/ Join(t) \/ RecordStop(t) \/ Start(t)
             \/ Spawn(t) \/ Ready(t) \/ RecordStart(t) \/ Show(t) \/ SendShow(t) \/ Verify(t)
             \/ StartTimer(t) \/ TurnOff(t) \/ CloseWindow(t)
    <3>1. state' = state
      BY <2>3 DEF Check, Hide, RequestStop, Join, RecordStop, Start, Spawn, Ready, RecordStart,
                  Show, SendShow, Verify, StartTimer, TurnOff, CloseWindow, ctrl
    <3>2. LoopInv'
      BY <2>3, CheckStep, HideStep, RequestStopStep, JoinStep, RecordStopStep, StartStep, SpawnStep,
         ReadyStep, RecordStartStep, ShowStep, SendShowStep, VerifyStep, StartTimerStep,
         TurnOffStep, CloseWindowStep
    <3> QED
      BY <3>1, <3>2
  <2> QED
    BY <1>7, <2>1, <2>2, <2>3 DEF Step
<1> QED
  BY <1>1, <1>2, <1>3, <1>4, <1>5, <1>6, <1>7 DEF Next, SomeoneRuns

\* The types, the calls every handler has left, and the timers: every timer that
\* is not done with is the controller's or about to be cancelled.
THEOREM LoopTypes == Spec => []TypeOK
<1>1. LoopInv /\ [Next]_vars => LoopInv'
  BY LoopNext, LoopStutter
<1>2. LoopInv => TypeOK
  BY DEF LoopInv, TypeInv
<1> QED
  BY LoopInit, <1>1, <1>2, PTL DEF Spec

\* Whatever late timer, power message or broadcast comes back, only arm() starts the
\* loop again, and nothing does after close().
THEOREM RestartsByArm == Spec => OnlyArmRestarts
<1>1. LoopInv /\ [Next]_vars => LoopInv'
  BY LoopNext, LoopStutter
<1>2. LoopInv /\ [Next]_vars => [state = "idle" /\ state' # "idle" => state' = "initial" /\ ~closed]_vars
  BY LoopNext
<1> QED
  BY LoopInit, <1>1, <1>2, PTL DEF Spec, OnlyArmRestarts

-----------------------------------------------------------------------------
(* The monitors.                                                           *)

\* A thread other than the event loop's leaves the calls of arm() and close() alone.
LEMMA ApiSame ==
  ASSUME NEW t \in Threads, t # "api", NEW C, Goes(t, C)
  PROVE  /\ todo'["api"] = todo["api"]
         /\ \A c, o : Has("api", c, o)' <=> Has("api", c, o)
<1>1. "api" \in Threads
  BY DEF Threads
<1> QED
  BY <1>1 DEF Goes, Has

LEMMA OthersSame ==
  ASSUME NEW t \in Threads, NEW C, Goes(t, C)
  PROVE  /\ \A u \in Threads \ {t} : todo'[u] = todo[u] /\ \A c, o : Has(u, c, o)' <=> Has(u, c, o)
         /\ \A c, o : Has(t, c, o)' <=> Do(c, o) \in C
BY DEF Goes, Has

LEMMA EmptyProgram ==
  ASSUME NEW t \in Threads, NEW s, Program(t, s), Elems(s) = {}
  PROVE  s = <<>>
<1>1. s # <<>> => Head(s) \in Elems(s)
  BY Rest
<1> QED
  BY <1>1

\* A monitor that arm() takes care of.
LEMMA ArmSame ==
  ASSUME \A c, o : Has("api", c, o)' <=> Has("api", c, o), mon' = mon,
         count'["timeouts"] \in {count["timeouts"], count["timeouts"] + 1},
         count["timeouts"] \in Nat, NEW m
  PROVE  /\ InArm(m)' <=> InArm(m)
         /\ Spawned(m)' <=> Spawned(m)
         /\ GivenUp(m) => GivenUp(m)'
         /\ count'["timeouts"] = 0 => count["timeouts"] = 0
BY DEF InArm, Spawned, GivenUp

\* A step of a thread other than the event loop's that stops no monitor and ends no flow.
LEMMA OtherMoves ==
  ASSUME Inv, LoopInv', NEW t \in Threads, t # "api", NEW C, Goes(t, C),
         UNCHANGED <<gen, closed, active, pending, mon>>,
         \A u \in Threads \ {t} : loc'[u] = loc[u],
         state' = "idle" <=> state = "idle",
         count'["timeouts"] \in {count["timeouts"], count["timeouts"] + 1},
         \A m \in Monitors : \A d \in Stops(m) : d \in C => d \in Elems(todo[t]),
         \A m \in Monitors :
             Do("record_stop", m) \in C /\ Do("join", m) \notin C /\ loc'[t].ok /\ mon[m].alive =>
                 ~Has("api", "check", "flow") /\ (InArm(m) \/ GivenUp(m)),
         t \in Monitors /\ C # {} => mon[t].alive,
         closed /\ count["timeouts"] = 0 /\ win'.up /\ ~win'.doomed =>
             (win.up /\ ~win.doomed) \/ Has("api", "close", "window")
  PROVE  MonitorInv'
<1>1. /\ KnownOK /\ ActiveOK /\ StopsOK /\ FlowOK /\ CloseOK /\ ProgramOK /\ ProgramOK'
      /\ count["timeouts"] \in Nat /\ "api" \in Threads /\ Monitors \subseteq Threads
      /\ "api" \notin Monitors
  <2>1. LoopInv /\ MonitorInv
    BY DEF Inv
  <2>2. count \in CountType
    BY <2>1, Facts
  <2> QED
    BY <2>1, <2>2, Facts DEF MonitorInv, LoopInv, CountType, Monitors, Threads, Loops
<1>2. /\ todo'["api"] = todo["api"] /\ loc'["api"] = loc["api"]
      /\ \A c, o : Has("api", c, o)' <=> Has("api", c, o)
  BY <1>1, ApiSame
<1>3. \A m : /\ InArm(m)' <=> InArm(m)
             /\ Spawned(m)' <=> Spawned(m)
             /\ GivenUp(m) => GivenUp(m)'
             /\ count'["timeouts"] = 0 => count["timeouts"] = 0
  BY <1>1, <1>2, ArmSame
<1>4. \A m : AtJoin("api", m)' <=> AtJoin("api", m)
  BY <1>2 DEF AtJoin
<1>5. /\ \A u \in Threads \ {t} : todo'[u] = todo[u] /\ \A c, o : Has(u, c, o)' <=> Has(u, c, o)
      /\ \A c, o : Has(t, c, o)' <=> Do(c, o) \in C
  BY OthersSame
<1>6. \A u \in Threads, m \in Monitors : Stopping(u, m)' => Stopping(u, m)
  BY <1>5 DEF Stopping, Stops, Has
<1>7. KnownOK'
  BY <1>1, <1>2, <1>3 DEF KnownOK
<1>8. ActiveOK'
  BY <1>1, <1>2, <1>6 DEF ActiveOK
<1>9. StopsOK'
  <2>1. todo'["api"] # <<>> /\ loc'["api"].gen = gen' =>
            \A u \in Threads \ {"api"}, m \in Monitors : ~Stopping(u, m)'
    BY <1>1, <1>2, <1>6 DEF StopsOK
  <2>2. ASSUME NEW u \in Threads, NEW m \in Monitors, AtRecord(u, m)', loc'[u].ok, mon'[m].alive
        PROVE  /\ u # "api" /\ ~Has("api", "check", "flow")'
               /\ (InArm(m) \/ GivenUp(m))'
    <3>1. CASE u = t
      <4>1. Do("record_stop", m) \in C /\ Do("join", m) \notin C
        BY <1>5, <2>2, <3>1 DEF AtRecord
      <4>2. ~Has("api", "check", "flow") /\ (InArm(m) \/ GivenUp(m))
        BY <2>2, <3>1, <4>1
      <4> QED
        BY <1>2, <1>3, <3>1, <4>2
    <3>2. CASE u # t
      <4>1. AtRecord(u, m) /\ loc[u].ok /\ mon[m].alive
        BY <1>5, <2>2, <3>2 DEF AtRecord
      <4>2. u # "api" /\ ~Has("api", "check", "flow") /\ (InArm(m) \/ GivenUp(m))
        BY <1>1, <4>1 DEF StopsOK
      <4> QED
        BY <1>2, <1>3, <4>2
    <3> QED
      BY <3>1, <3>2
  <2>3. ASSUME NEW m \in Monitors
        PROVE  /\ AtJoin("api", m)' => loc'["api"].id = mon'[m].id
               /\ Has("api", "record_stop", m)' /\ ~Has("api", "request_stop", m)' => mon'[m].stop
               /\ AtRecord("api", m)' /\ ~loc'["api"].ok => count'["timeouts"] > 0
    <3>1. /\ AtJoin("api", m) => loc["api"].id = mon[m].id
          /\ Has("api", "record_stop", m) /\ ~Has("api", "request_stop", m) => mon[m].stop
          /\ AtRecord("api", m) /\ ~loc["api"].ok => count["timeouts"] > 0
      BY <1>1 DEF StopsOK
    <3>2. AtRecord("api", m)' <=> AtRecord("api", m)
      BY <1>2 DEF AtRecord
    <3> QED
      BY <1>1, <1>2, <1>4, <3>1, <3>2
  <2> QED
    BY <2>1, <2>2, <2>3 DEF StopsOK
<1>10. FlowOK'
  BY <1>1, <1>2, <1>3 DEF FlowOK
<1>11. CloseOK'
  <2>1. ASSUME NEW m \in Monitors, todo'[m] # <<>> PROVE mon'[m].alive
    <3>1. CASE m = t
      <4>1. Program(t, todo'[t]) /\ todo'[t] # <<>>
        BY <1>1, <2>1, <3>1 DEF ProgramOK
      <4>2. C # {}
        BY <4>1, EmptyProgram DEF Goes
      <4> QED
        BY <3>1, <4>2
    <3>2. CASE m # t
      BY <1>1, <1>5, <2>1, <3>2 DEF CloseOK
    <3> QED
      BY <3>1, <3>2
  <2>2. closed' =>
          /\ \A d \in Elems(todo'["api"]) :
                d.call \in {"hide", "request_stop", "join", "record_stop", "close"}
          /\ \A m \in Monitors : Has("api", "join", m)' => Has("api", "close", "window")'
    BY <1>1, <1>2 DEF CloseOK
  <2>3. closed' /\ count'["timeouts"] = 0 =>
          /\ \A m \in Monitors : mon'[m].alive => Has("api", "join", m)'
          /\ win'.up /\ ~win'.doomed => Has("api", "close", "window")'
    BY <1>1, <1>2, <1>3 DEF CloseOK
  <2> QED
    BY <2>1, <2>2, <2>3 DEF CloseOK
<1> QED
  BY <1>7, <1>8, <1>9, <1>10, <1>11 DEF MonitorInv

\* What Inv gives.
LEMMA InvFacts ==
  ASSUME Inv
  PROVE  /\ LoopInv /\ KnownOK /\ ActiveOK /\ StopsOK /\ FlowOK /\ CloseOK /\ ProgramOK
         /\ count["timeouts"] \in Nat /\ "api" \in Threads /\ Monitors \subseteq Threads
         /\ "api" \notin Monitors /\ Monitors = {"input", "power"} /\ "window" \notin Monitors
         /\ gen \in Nat
<1>1. LoopInv /\ MonitorInv
  BY DEF Inv
<1>2. count \in CountType /\ gen \in Nat
  BY <1>1, Facts
<1> QED
  BY <1>1, <1>2 DEF MonitorInv, LoopInv, CountType, Monitors, Threads, Loops

\* A step of the event loop's thread keeps its stops, and is as far with its starts.
ApiKeeps(C) ==
    /\ \A m \in Monitors :
          /\ Do("record_stop", m) \in C <=> Has("api", "record_stop", m)
          /\ Do("join", m) \in C /\ Do("request_stop", m) \notin C => AtJoin("api", m)
          /\ Do("join", m) \notin C => ~Has("api", "join", m)
          /\ Do("request_stop", m) \notin C => ~Has("api", "request_stop", m)
          /\ Do("request_stop", m) \in C => Has("api", "request_stop", m) \/ ~active[m]
          /\ Do("record_start", m) \in C /\ Do("spawn", m) \notin C <=> Spawned(m)
          /\ Do("record_start", m) \in C => Has("api", "record_start", m)
          /\ Do("countdown", "initial") \in C /\ Has("api", "record_start", m) =>
                Do("record_start", m) \in C
    /\ Do("check", "flow") \in C => Has("api", "check", "flow")

LEMMA KeepsAll ==
  ASSUME NEW C, \A m \in Monitors : \A d \in Stops(m) \cup Starts(m) \cup {Do("check", "flow")} :
                    d \in C <=> d \in Elems(todo["api"])
  PROVE  ApiKeeps(C)
<1>1. ASSUME NEW m \in Monitors
      PROVE  /\ Do("request_stop", m) \in C <=> Has("api", "request_stop", m)
             /\ Do("join", m) \in C <=> Has("api", "join", m)
             /\ Do("record_stop", m) \in C <=> Has("api", "record_stop", m)
             /\ Do("spawn", m) \in C <=> Has("api", "spawn", m)
             /\ Do("record_start", m) \in C <=> Has("api", "record_start", m)
             /\ Do("check", "flow") \in C <=> Has("api", "check", "flow")
  BY DEF Stops, Starts, Has
<1>2. "input" \in Monitors
  BY DEF Monitors
<1> QED
  BY <1>1, <1>2 DEF ApiKeeps, AtJoin, Spawned

LEMMA ApiMoves ==
  ASSUME Inv, LoopInv', NEW C, Goes("api", C), todo["api"] # <<>>,
         UNCHANGED <<gen, closed, active, pending, mon>>,
         count'["timeouts"] \in {count["timeouts"], count["timeouts"] + 1},
         \A u \in Threads \ {"api"} : loc'[u] = loc[u],
         ApiKeeps(C),
         \/ Do("close", "window") \in C <=> Do("close", "window") \in Elems(todo["api"])
         \/ (\A m \in Monitors : ~Stopping("api", m)) /\ (win'.up => win'.doomed),
         \/ loc'["api"].id = loc["api"].id /\ loc'["api"].ok = loc["api"].ok
         \/ \A m \in Monitors : ~Stopping("api", m),
         loc'["api"].gen = loc["api"].gen \/ C = {},
         Do("countdown", "initial") \in C => Has("api", "countdown", "initial"),
         \A m \in Monitors : active[m] /\ state' = "idle" =>
             gen = loc'["api"].gen /\ (Do("countdown", "initial") \in C \/ Do("deactivate", "flow") \in C),
         state' # "idle" => ~closed /\ \A m \in Monitors : active[m],
         closed => C \subseteq Elems(todo["api"]),
         closed /\ count["timeouts"] = 0 /\ win'.up /\ ~win'.doomed =>
             (win.up /\ ~win.doomed) \/ Has("api", "close", "window")
  PROVE  MonitorInv'
<1>1. /\ KnownOK /\ ActiveOK /\ StopsOK /\ FlowOK /\ CloseOK /\ "api" \in Threads
      /\ Monitors \subseteq Threads /\ "api" \notin Monitors /\ count["timeouts"] \in Nat
  BY InvFacts
<1>2. /\ \A u \in Threads \ {"api"} :
            todo'[u] = todo[u] /\ \A c, o : Has(u, c, o)' <=> Has(u, c, o)
      /\ \A c, o : Has("api", c, o)' <=> Do(c, o) \in C
  BY <1>1, OthersSame
<1>3. ASSUME NEW m \in Monitors
      PROVE  /\ Has("api", "record_stop", m)' <=> Has("api", "record_stop", m)
             /\ Has("api", "join", m) => Has("api", "join", m)'
             /\ Has("api", "request_stop", m) => Has("api", "request_stop", m)'
             /\ Has("api", "request_stop", m)' => Has("api", "request_stop", m) \/ ~active[m]
             /\ Has("api", "record_start", m)' => Has("api", "record_start", m)
             /\ Has("api", "check", "flow")' => Has("api", "check", "flow")
             /\ AtJoin("api", m)' => AtJoin("api", m)
             /\ AtRecord("api", m)' => AtRecord("api", m)
             /\ Spawned(m)' <=> Spawned(m)
             /\ Has("api", "countdown", "initial")' /\ ~Has("api", "record_start", m)' =>
                   Has("api", "countdown", "initial") /\ ~Has("api", "record_start", m)
  BY <1>2 DEF ApiKeeps, AtJoin, AtRecord, Spawned
<1>4. \A m \in Monitors : (InArm(m)' <=> InArm(m)) /\ (GivenUp(m) => GivenUp(m)')
  BY <1>1, <1>3 DEF InArm, GivenUp
<1>5. \A u \in Threads \ {"api"}, m \in Monitors :
          (Stopping(u, m)' <=> Stopping(u, m)) /\ (AtRecord(u, m)' <=> AtRecord(u, m))
  BY <1>2 DEF Stopping, AtRecord
<1>6. KnownOK'
  BY <1>1, <1>3, <1>4 DEF KnownOK
<1>7. ActiveOK'
  <2>1. ASSUME NEW m \in Monitors, active'[m]
        PROVE  /\ ~closed' /\ ~Has("api", "check", "flow")' /\ ~Has("api", "record_start", m)'
               /\ mon'[m].alive /\ ~mon'[m].stop /\ mon'[m].gen = gen'
               /\ ~Has("api", "request_stop", m)'
               /\ \A u \in Threads \ {"api"}, n \in Monitors : ~Stopping(u, n)'
    BY <1>1, <1>3, <1>5, <2>1 DEF ActiveOK
  <2>2. ASSUME NEW m \in Monitors, active'[m]
        PROVE  \/ state' # "idle"
               \/ /\ gen' = loc'["api"].gen
                  /\ Has("api", "countdown", "initial")' \/ Has("api", "deactivate", "flow")'
    BY <1>2, <2>2
  <2> QED
    BY <2>1, <2>2 DEF ActiveOK
<1>8. StopsOK'
  <2>1. todo'["api"] # <<>> /\ loc'["api"].gen = gen' =>
            \A u \in Threads \ {"api"}, m \in Monitors : ~Stopping(u, m)'
    <3>1. CASE C = {}
      <4>1. Program("api", todo'["api"]) /\ Elems(todo'["api"]) = {}
        BY <1>1, <3>1 DEF LoopInv, ProgramOK, Goes
      <4> QED
        BY <1>1, <4>1, EmptyProgram
    <3>2. CASE loc'["api"].gen = loc["api"].gen
      BY <1>1, <1>5, <3>2 DEF StopsOK
    <3> QED
      BY <3>1, <3>2
  <2>2. ASSUME NEW u \in Threads, NEW m \in Monitors, AtRecord(u, m)', loc'[u].ok, mon'[m].alive
        PROVE  /\ u # "api" /\ ~Has("api", "check", "flow")'
               /\ (InArm(m) \/ GivenUp(m))'
    <3>1. AtRecord(u, m) /\ loc[u].ok /\ mon[m].alive
      BY <1>2, <1>3, <1>5, <2>2 DEF AtRecord, Stopping
    <3>2. u # "api" /\ ~Has("api", "check", "flow") /\ (InArm(m) \/ GivenUp(m))
      BY <1>1, <3>1 DEF StopsOK
    <3> QED
      BY <1>3, <1>4, <3>2
  <2>3. ASSUME NEW m \in Monitors
        PROVE  /\ AtJoin("api", m)' => loc'["api"].id = mon'[m].id
               /\ Has("api", "record_stop", m)' /\ ~Has("api", "request_stop", m)' => mon'[m].stop
               /\ AtRecord("api", m)' /\ ~loc'["api"].ok => count'["timeouts"] > 0
    <3>1. /\ AtJoin("api", m) => loc["api"].id = mon[m].id
          /\ Has("api", "record_stop", m) /\ ~Has("api", "request_stop", m) => mon[m].stop
          /\ AtRecord("api", m) /\ ~loc["api"].ok => count["timeouts"] > 0
      BY <1>1 DEF StopsOK
    <3>2. ~Stopping("api", m) => ~AtJoin("api", m) /\ ~AtRecord("api", m)
      BY DEF Stopping, AtJoin, AtRecord
    <3> QED
      BY <1>1, <1>3, <3>1, <3>2
  <2> QED
    BY <2>1, <2>2, <2>3 DEF StopsOK
<1>9. FlowOK'
  <2>1. ASSUME gen' = loc'["api"].gen, NEW m \in Monitors
        PROVE  /\ Spawned(m)' => mon'[m].alive /\ ~mon'[m].stop /\ mon'[m].gen = gen'
               /\ Has("api", "countdown", "initial")' /\ ~Has("api", "record_start", m)' => active'[m]
    <3>1. CASE C = {}
      <4>1. ~Has("api", "countdown", "initial")' /\ ~Has("api", "record_start", m)'
        BY <1>2, <3>1
      <4> QED
        BY <4>1 DEF Spawned
    <3>2. CASE loc'["api"].gen = loc["api"].gen
      <4>1. /\ Spawned(m) => mon[m].alive /\ ~mon[m].stop /\ mon[m].gen = gen
            /\ Has("api", "countdown", "initial") /\ ~Has("api", "record_start", m) => active[m]
        BY <1>1, <2>1, <3>2 DEF FlowOK
      <4> QED
        BY <1>3, <4>1
    <3> QED
      BY <3>1, <3>2
  <2> QED
    BY <2>1 DEF FlowOK
<1>10. CloseOK'
  <2>1. \A m \in Monitors : todo'[m] # <<>> => mon'[m].alive
    BY <1>1, <1>2 DEF CloseOK
  <2>2. closed' => \A d \in Elems(todo'["api"]) :
                      d.call \in {"hide", "request_stop", "join", "record_stop", "close"}
    BY <1>1 DEF CloseOK, Goes
  <2>3. closed' => \A m \in Monitors : Has("api", "join", m)' =>
            Has("api", "join", m) /\ Has("api", "close", "window")
    BY <1>1, <1>2 DEF CloseOK, Has
  <2>4. closed' => \A m \in Monitors : Has("api", "join", m)' => Has("api", "close", "window")'
    <3>1. CASE Do("close", "window") \in C <=> Do("close", "window") \in Elems(todo["api"])
      BY <1>2, <2>3, <3>1 DEF Has
    <3>2. CASE \A m \in Monitors : ~Stopping("api", m)
      BY <2>3, <3>2 DEF Stopping
    <3> QED
      BY <3>1, <3>2
  <2>5. closed' /\ count'["timeouts"] = 0 => \A m \in Monitors : mon'[m].alive => Has("api", "join", m)'
    BY <1>1, <1>3 DEF CloseOK
  <2>6. closed' /\ count'["timeouts"] = 0 /\ win'.up /\ ~win'.doomed => Has("api", "close", "window")'
    <3>1. CASE Do("close", "window") \in C <=> Do("close", "window") \in Elems(todo["api"])
      <4>1. Has("api", "close", "window")' <=> Has("api", "close", "window")
        BY <1>2, <3>1 DEF Has
      <4> QED
        BY <1>1, <4>1 DEF CloseOK
    <3> QED
      BY <3>1
  <2> QED
    BY <2>1, <2>2, <2>4, <2>5, <2>6 DEF CloseOK
<1> QED
  BY <1>6, <1>7, <1>8, <1>9, <1>10 DEF MonitorInv

\* A thread goes on, returns or gives up after a call that is about the window, the
\* display or a timer.
Lasting ==
    /\ UNCHANGED <<gen, closed, active, pending, mon>>
    /\ count'["timeouts"] = count["timeouts"]
    /\ closed /\ count["timeouts"] = 0 /\ win'.up /\ ~win'.doomed =>
          (win.up /\ ~win.doomed) \/ Has("api", "close", "window")

LEMMA QuietProceed ==
  ASSUME Inv, LoopInv', NEW t \in Threads, NEW c,
         c \in {"hide", "show", "send_show", "verify", "turn_off", "destroy"},
         At(t, c), Proceed(t), Lasting, state' = state,
         loc'[t].gen = loc[t].gen, loc'[t].id = loc[t].id, loc'[t].ok = loc[t].ok,
         \A u \in Threads \ {t} : loc'[u] = loc[u]
  PROVE  MonitorInv'
<1> DEFINE C == Elems(todo[t]) \ {Do(c, Now(t))}
<1>1. /\ LoopInv /\ KnownOK /\ ActiveOK /\ StopsOK /\ FlowOK /\ CloseOK /\ ProgramOK
      /\ count["timeouts"] \in Nat /\ Monitors \subseteq Threads
  BY InvFacts
<1>2. Goes(t, C) /\ todo[t] # <<>>
  BY <1>1, ProceedCalls DEF At
<1>3. \A d, o : d # c => (Do(d, o) \in C <=> Has(t, d, o))
  BY DoFields DEF Has
<1>4. C \subseteq Elems(todo[t])
  OBVIOUS
<1> HIDE DEF C
<1>5. /\ \A m \in Monitors : \A d \in Stops(m) \cup Starts(m) \cup {Do("check", "flow")} :
             d \in C <=> d \in Elems(todo[t])
      /\ Do("close", "window") \in C <=> Do("close", "window") \in Elems(todo[t])
  BY <1>3 DEF Stops, Starts, Has
<1>6. UNCHANGED <<gen, closed, active, pending, mon>>
      /\ count'["timeouts"] = count["timeouts"]
      /\ (closed /\ count["timeouts"] = 0 /\ win'.up /\ ~win'.doomed =>
             (win.up /\ ~win.doomed) \/ Has("api", "close", "window"))
  BY DEF Lasting
<1>7. CASE t = "api"
  <2>1. ASSUME NEW m \in Monitors, active[m], state' = "idle"
        PROVE  gen = loc'["api"].gen
               /\ (Do("countdown", "initial") \in C \/ Do("deactivate", "flow") \in C)
    BY <1>1, <1>3, <1>7, <2>1 DEF ActiveOK
  <2>2. Do("countdown", "initial") \in C => Has("api", "countdown", "initial")
    BY <1>4, <1>7 DEF Has
  <2>3. state' # "idle" => ~closed /\ \A m \in Monitors : active[m]
    BY <1>1 DEF FlowOK
  <2> QED
    BY <1>2, <1>4, <1>5, <1>6, <1>7, <2>1, <2>2, <2>3, KeepsAll, ApiMoves
<1>8. CASE t # "api"
  <2>1. ASSUME NEW m \in Monitors, Do("record_stop", m) \in C, Do("join", m) \notin C,
               loc'[t].ok, mon[m].alive
        PROVE  ~Has("api", "check", "flow") /\ (InArm(m) \/ GivenUp(m))
    <3>1. AtRecord(t, m) /\ loc[t].ok
      BY <1>3, <2>1 DEF AtRecord
    <3> QED
      BY <1>1, <2>1, <3>1 DEF StopsOK
  <2>2. t \in Monitors /\ C # {} => mon[t].alive
    BY <1>1, <1>2 DEF CloseOK
  <2>3. \A m \in Monitors : \A d \in Stops(m) : d \in C => d \in Elems(todo[t])
    BY <1>4
  <2>4. count'["timeouts"] \in {count["timeouts"], count["timeouts"] + 1}
    BY <1>6
  <2> QED
    BY <1>2, <1>6, <1>8, <2>1, <2>2, <2>3, <2>4, OtherMoves
<1> QED
  BY <1>7, <1>8

\* Where a call is the last of its kind.
LEMMA LateCall ==
  ASSUME Inv, NEW t \in Threads, NEW c, At(t, c),
         c \in {"countdown", "show", "send_show", "verify", "start_timer", "settle"}
  PROVE  /\ todo[t] # <<>> /\ \A m \in Monitors : ~Stopping(t, m)
         /\ \A m \in Monitors : \A d \in Stops(m) \cup Starts(m) \cup
                                      {Do("check", "flow"), Do("close", "window"), GivingUp} :
                d \notin Elems(todo[t])
         /\ t = "api" => ~closed
         /\ t \in Monitors => mon[t].alive
<1>1. /\ LoopInv /\ CloseOK /\ ProgramOK
  BY InvFacts
<1>2. /\ todo[t] # <<>> /\ Head(todo[t]) = Do(c, Now(t)) /\ Do(c, Now(t)) \in Elems(todo[t])
      /\ \A m \in Monitors : ~Stopping(t, m)
      /\ ~Has(t, "check", "flow")
      /\ \A m \in Monitors : ~Has(t, "start", m) /\ ~Has(t, "spawn", m)
                          /\ ~Has(t, "ready", m) /\ ~Has(t, "record_start", m)
      /\ c = "countdown" => Now(t) \in Counting
      /\ c = "settle" => Now(t) = "flow"
      /\ c \in {"show", "send_show", "verify", "start_timer"} => ~Has(t, "close", "window")
  BY <1>1, AtCall DEF Called, After, Counting
<1>3. ~Has(t, "close", "window")
  <2>1. CASE c \in {"countdown", "settle"}
    <3>1. Position(Do(c, Now(t))) = 16 /\ Position(Do("close", "window")) = 16
      BY <1>2, <2>1, Places
    <3>2. Do("close", "window") # Do(c, Now(t))
      BY <2>1, DoFields
    <3>3. Do("close", "window") \in Elems(todo[t]) =>
              Position(Do(c, Now(t))) < Position(Do("close", "window"))
      BY <1>1, <1>2, <3>2, NextCall
    <3> QED
      BY <3>1, <3>3 DEF Has
  <2> QED
    BY <1>2, <2>1
<1>4. GivingUp \notin Elems(todo[t])
  <2>1. Whole(Elems(todo[t]))
    BY <1>1 DEF ProgramOK, Program
  <2>2. Do(c, Now(t)).call = c
    BY DoFields
  <2> QED
    BY <1>2, <2>1, <2>2 DEF Whole
<1>5. t = "api" => ~closed
  <2>1. Do(c, Now(t)).call = c
    BY DoFields
  <2> QED
    BY <1>1, <1>2, <2>1 DEF CloseOK
<1>6. t \in Monitors => mon[t].alive
  BY <1>1, <1>2 DEF CloseOK
<1> QED
  BY <1>2, <1>3, <1>4, <1>5, <1>6 DEF Stops, Starts, Has, Stopping

LEMMA LateMoves ==
  ASSUME Inv, LoopInv', NEW t \in Threads, NEW c, At(t, c),
         c \in {"countdown", "show", "send_show", "verify", "start_timer", "settle"},
         NEW C, Goes(t, C), NEW n, C \subseteq Showing(n) \cup {GivingUp}, Lasting,
         C = {} \/ loc'[t].gen = loc[t].gen,
         \A u \in Threads \ {t} : loc'[u] = loc[u],
         t # "api" => (state' = "idle" <=> state = "idle"),
         t = "api" /\ state' # "idle" => \A m \in Monitors : active[m],
         t = "api" /\ state' = "idle" => \A m \in Monitors : active[m] =>
             gen = loc'["api"].gen /\ GivingUp \in C
  PROVE  MonitorInv'
<1>1. /\ todo[t] # <<>> /\ \A m \in Monitors : ~Stopping(t, m)
      /\ \A m \in Monitors : \A d \in Stops(m) \cup Starts(m) \cup
                                      {Do("check", "flow"), Do("close", "window"), GivingUp} :
             d \notin Elems(todo[t])
      /\ t = "api" => ~closed
      /\ t \in Monitors => mon[t].alive
  BY LateCall
<1>2. UNCHANGED <<gen, closed, active, pending, mon>>
      /\ count'["timeouts"] = count["timeouts"]
      /\ (closed /\ count["timeouts"] = 0 /\ win'.up /\ ~win'.doomed =>
             (win.up /\ ~win.doomed) \/ Has("api", "close", "window"))
  BY DEF Lasting
<1>3. \A d \in C : d.call \in {"show", "send_show", "verify", "start_timer", "deactivate"}
  BY DoFields DEF Showing, GivingUp
<1>4. \A m \in Monitors : \A d \in Stops(m) \cup Starts(m) \cup
                                   {Do("check", "flow"), Do("close", "window")} : d \notin C
  BY <1>3, DoFields DEF Stops, Starts
<1>5. Do("countdown", "initial") \notin C
  BY <1>3, DoFields
<1>6. CASE t = "api"
  <2>1. /\ \A m \in Monitors : \A d \in Stops(m) \cup Starts(m) \cup {Do("check", "flow")} :
               d \in C <=> d \in Elems(todo["api"])
        /\ Do("close", "window") \in C <=> Do("close", "window") \in Elems(todo["api"])
    BY <1>1, <1>4, <1>6 DEF Monitors
  <2>2. \A m \in Monitors : active[m] /\ state' = "idle" =>
            gen = loc'["api"].gen
            /\ (Do("countdown", "initial") \in C \/ Do("deactivate", "flow") \in C)
    BY <1>6 DEF GivingUp
  <2>3. state' # "idle" => ~closed /\ \A m \in Monitors : active[m]
    BY <1>1, <1>6
  <2>4. closed => C \subseteq Elems(todo["api"])
    BY <1>1, <1>6
  <2> QED
    BY <1>1, <1>2, <1>5, <1>6, <2>1, <2>2, <2>3, <2>4, KeepsAll, ApiMoves
<1>7. CASE t # "api"
  <2>1. \A m \in Monitors : Do("record_stop", m) \notin C /\ \A d \in Stops(m) : d \notin C
    BY <1>4 DEF Stops
  <2>2. count'["timeouts"] \in {count["timeouts"], count["timeouts"] + 1}
    BY <1>2
  <2> QED
    BY <1>1, <1>2, <1>7, <2>1, <2>2, OtherMoves
<1> QED
  BY <1>6, <1>7

\* The flow that arm() has started has its monitors, and it is known by a state that is
\* not idle once its first countdown has begun.
LEMMA ApiCounts ==
  ASSUME Inv, NEW c, At("api", c), c \in {"show", "send_show", "verify", "start_timer"}
  PROVE  \A m \in Monitors : active[m] => state # "idle"
<1>1. LoopInv /\ ActiveOK /\ ProgramOK /\ "api" \in Threads
  BY InvFacts
<1>2. ~Has("api", "countdown", "initial")
  BY <1>1, AtCall DEF Called
<1>3. GivingUp \notin Elems(todo["api"])
  BY <1>1, LateCall DEF Monitors
<1> QED
  BY <1>1, <1>2, <1>3 DEF ActiveOK, Has, GivingUp

LEMMA QuietReturn ==
  ASSUME Inv, LoopInv', NEW t \in Threads, NEW c, At(t, c),
         c \in {"verify", "start_timer", "settle"}, Return(t), Lasting,
         state' = "idle" <=> state = "idle"
  PROVE  MonitorInv'
<1> DEFINE C == {}
<1>1. LoopInv /\ FlowOK /\ ProgramOK
  BY InvFacts
<1>2. Goes(t, C) /\ loc' = [loc EXCEPT ![t] = Locals] /\ C = {}
  BY <1>1, ReturnCalls DEF Return
<1> HIDE DEF C
<1>3. \A u \in Threads \ {t} : loc'[u] = loc[u]
  <2>1. loc \in LocType(gen)
    BY <1>1, Facts
  <2> QED
    BY <1>2, <2>1 DEF LocType
<1>4. c = "settle" => t # "api"
  <2>1. c = "settle" => t \in Timers
    BY <1>1, AtCall DEF Called
  <2> QED
    BY <1>1, <2>1, Facts
<1>5. t = "api" /\ state' # "idle" => \A m \in Monitors : active[m]
  BY <1>1 DEF FlowOK
<1>6. t = "api" /\ state' = "idle" => \A m \in Monitors : active[m] =>
          gen = loc'["api"].gen /\ GivingUp \in C
  BY <1>4, ApiCounts
<1>7. C \subseteq Showing("initial") \cup {GivingUp}
  BY <1>2
<1> QED
  BY <1>2, <1>3, <1>5, <1>6, <1>7, LateMoves

LEMMA QuietGiveUp ==
  ASSUME Inv, LoopInv', NEW t \in Threads, NEW c, At(t, c),
         c \in {"show", "send_show", "start_timer"}, GiveUp(t), Lasting,
         state' = state, loc' = loc
  PROVE  MonitorInv'
<1> DEFINE C == {GivingUp}
<1>1. LoopInv /\ FlowOK /\ ProgramOK
  BY InvFacts
<1>2. t \notin {"input", "window"}
  BY <1>1, AtCall DEF Called
<1>3. Goes(t, C)
  BY <1>1, <1>2, GiveUpCalls
<1>4. t = "api" /\ state' # "idle" => \A m \in Monitors : active[m]
  BY <1>1 DEF FlowOK
<1>5. t = "api" /\ state' = "idle" => \A m \in Monitors : active[m] =>
          gen = loc'["api"].gen /\ GivingUp \in C
  BY ApiCounts
<1>6. C \subseteq Showing("initial") \cup {GivingUp}
  OBVIOUS
<1> HIDE DEF C
<1> QED
  BY <1>3, <1>4, <1>5, <1>6, LateMoves

\* Only the window, the display or the power messages change.
LEMMA QuietStay ==
  ASSUME Inv, LoopInv', UNCHANGED <<todo, loc>>, Lasting, state' = state
  PROVE  MonitorInv'
<1> DEFINE t == "window"
           C == Elems(todo[t])
<1>1. /\ LoopInv /\ StopsOK /\ count["timeouts"] \in Nat /\ t \notin Monitors
      /\ t \in Threads /\ t # "api"
  BY InvFacts DEF Threads, Loops
<1>2. Goes(t, C)
  BY <1>1, NobodyGoes
<1>3. UNCHANGED <<gen, closed, active, pending, mon>>
      /\ count'["timeouts"] \in {count["timeouts"], count["timeouts"] + 1}
      /\ (closed /\ count["timeouts"] = 0 /\ win'.up /\ ~win'.doomed =>
             (win.up /\ ~win.doomed) \/ Has("api", "close", "window"))
  BY DEF Lasting
<1>4. ASSUME NEW m \in Monitors, Do("record_stop", m) \in C, Do("join", m) \notin C,
             loc'[t].ok, mon[m].alive
      PROVE  ~Has("api", "check", "flow") /\ (InArm(m) \/ GivenUp(m))
  <2>1. AtRecord(t, m) /\ loc[t].ok
    BY <1>4 DEF AtRecord, Has
  <2> QED
    BY <1>1, <1>4, <2>1 DEF StopsOK
<1>5. \A m \in Monitors : \A d \in Stops(m) : d \in C => d \in Elems(todo[t])
  OBVIOUS
<1>6. \A u \in Threads \ {t} : loc'[u] = loc[u]
  OBVIOUS
<1> HIDE DEF C, t
<1> QED
  BY <1>1, <1>2, <1>3, <1>4, <1>5, <1>6, OtherMoves

LEMMA OneLocal ==
  ASSUME LoopInv, NEW t \in Threads, NEW r, loc' = [loc EXCEPT ![t] = r]
  PROVE  loc'[t] = r /\ \A u \in Threads \ {t} : loc'[u] = loc[u]
<1>1. loc \in LocType(gen)
  BY Facts
<1> QED
  BY <1>1 DEF LocType

LEMMA CountUpFails ==
  ASSUME LoopInv, CountUp("fails")
  PROVE  count'["timeouts"] = count["timeouts"]
<1>1. count \in CountType
  BY Facts
<1> QED
  BY <1>1 DEF CountUp, CountType

LEMMA WindowMonitors ==
  ASSUME Inv, LoopInv', WindowHides \/ WindowExits \/ Wake
  PROVE  MonitorInv'
<1>1. win \in WinType
  BY InvFacts, Facts
<1>2. UNCHANGED <<ctrl, timers, mon, todo, loc, count>>
  BY DEF WindowHides, WindowExits, Wake
<1>3. win'.up => win.up /\ win'.doomed = win.doomed
  <2>1. CASE WindowHides
    BY <1>1, <2>1 DEF WindowHides, Hidden, WinType
  <2>2. CASE WindowExits
    BY <2>2 DEF WindowExits
  <2>3. CASE Wake
    BY <2>3 DEF Wake
  <2> QED
    BY <2>1, <2>2, <2>3
<1>4. Lasting
  BY <1>2, <1>3 DEF Lasting, ctrl
<1> QED
  BY <1>2, <1>4, QuietStay DEF ctrl

LEMMA HideMonitors ==
  ASSUME Inv, LoopInv', NEW t \in Threads, Hide(t)
  PROVE  MonitorInv'
<1> DEFINE r == [loc[t] EXCEPT !.timer = NoTimer]
<1>1. /\ At(t, "hide") /\ loc' = [loc EXCEPT ![t] = r] /\ Proceed(t)
      /\ win' = IF win.up /\ ~win.doomed THEN [win EXCEPT !.hides = @ + 1] ELSE win
      /\ UNCHANGED <<ctrl, mon, notes, display, count>>
  BY DEF Hide
<1>2. LoopInv /\ win \in WinType /\ loc[t] \in LocRec(gen)
  BY InvFacts, Facts, LocOf
<1>3. r.gen = loc[t].gen /\ r.id = loc[t].id /\ r.ok = loc[t].ok
  BY <1>2 DEF LocRec
<1> HIDE DEF r
<1>4. loc'[t] = r /\ \A u \in Threads \ {t} : loc'[u] = loc[u]
  BY <1>1, <1>2, OneLocal
<1>5. Lasting
  BY <1>1, <1>2 DEF Lasting, ctrl, WinType
<1>6. state' = state
  BY <1>1 DEF ctrl
<1> QED
  BY <1>1, <1>3, <1>4, <1>5, <1>6, QuietProceed

LEMMA ShowMonitors ==
  ASSUME Inv, LoopInv', NEW t \in Threads, Show(t)
  PROVE  MonitorInv'
<1>1. /\ At(t, "show") /\ UNCHANGED <<ctrl, timers, mon, notes, display, loc>>
      /\ \/ win' = Opened(loc[t].gen) /\ Proceed(t) /\ UNCHANGED count
         \/ CountUp("fails") /\ GiveUp(t) /\ UNCHANGED win
  BY DEF Show
<1>2. LoopInv /\ win \in WinType /\ CloseOK /\ ProgramOK
  BY InvFacts, Facts
<1>3. CASE win' = Opened(loc[t].gen) /\ Proceed(t) /\ UNCHANGED count
  <2>1. closed /\ count["timeouts"] = 0 => Has("api", "close", "window")
    <3>1. t = "api" \/ t = "power"
      BY <1>1, <1>2, AtCall DEF Called
    <3>2. (t = "api" => ~closed) /\ (t \in Monitors => mon[t].alive)
      BY <1>1, LateCall
    <3>3. closed => mon["power"].alive /\ "power" \in Monitors
      BY <3>1, <3>2 DEF Monitors
    <3> QED
      BY <1>2, <3>3 DEF CloseOK
  <2>2. Lasting
    BY <1>1, <1>3, <2>1 DEF Lasting, ctrl
  <2> QED
    BY <1>1, <1>3, <2>2, QuietProceed DEF ctrl
<1>4. CASE CountUp("fails") /\ GiveUp(t) /\ UNCHANGED win
  <2>1. Lasting
    BY <1>1, <1>2, <1>4, CountUpFails DEF Lasting, ctrl
  <2> QED
    BY <1>1, <1>4, <2>1, QuietGiveUp DEF ctrl
<1> QED
  BY <1>1, <1>3, <1>4

LEMMA SendShowMonitors ==
  ASSUME Inv, LoopInv', NEW t \in Threads, SendShow(t)
  PROVE  MonitorInv'
<1>1. /\ At(t, "send_show") /\ UNCHANGED <<ctrl, timers, mon, notes, display, loc, count>>
      /\ \/ win' = [win EXCEPT !.visible = TRUE] /\ Proceed(t)
         \/ GiveUp(t) /\ UNCHANGED win
  BY DEF SendShow
<1>2. win \in WinType
  BY InvFacts, Facts
<1>3. win'.up = win.up /\ win'.doomed = win.doomed
  BY <1>1, <1>2 DEF WinType
<1>4. Lasting
  BY <1>1, <1>3 DEF Lasting, ctrl
<1> QED
  BY <1>1, <1>4, QuietProceed, QuietGiveUp DEF ctrl

LEMMA VerifyMonitors ==
  ASSUME Inv, LoopInv', NEW t \in Threads, Verify(t)
  PROVE  MonitorInv'
<1>1. /\ At(t, "verify") /\ UNCHANGED <<ctrl, mon, notes, win, display, count>>
      /\ \/ Proceed(t) /\ UNCHANGED <<timers, loc>>
         \/ Return(t)
  BY DEF Verify
<1>2. Lasting /\ state' = state
  BY <1>1 DEF Lasting, ctrl
<1> QED
  BY <1>1, <1>2, QuietProceed, QuietReturn

LEMMA StartTimerMonitors ==
  ASSUME Inv, LoopInv', NEW t \in Threads, StartTimer(t)
  PROVE  MonitorInv'
<1>1. /\ At(t, "start_timer") /\ UNCHANGED <<ctrl, mon, notes, win, display>>
      /\ \/ Return(t) /\ UNCHANGED count
         \/ CountUp("fails") /\ GiveUp(t) /\ UNCHANGED <<timers, loc>>
  BY DEF StartTimer
<1>2. count'["timeouts"] = count["timeouts"]
  BY <1>1, InvFacts, CountUpFails
<1>3. Lasting /\ state' = state
  BY <1>1, <1>2 DEF Lasting, ctrl
<1> QED
  BY <1>1, <1>3, QuietGiveUp, QuietReturn

LEMMA SettleMonitors ==
  ASSUME Inv, LoopInv', NEW t \in Threads, Settle(t)
  PROVE  MonitorInv'
<1>1. /\ At(t, "settle") /\ Return(t) /\ UNCHANGED <<gen, timer, closed, active, pending, env>>
      /\ state' = IF Current(loc[t].gen) THEN "waiting" ELSE state
  BY DEF Settle
<1>2. state = "idle" => state' = "idle"
  BY InvFacts, SettleStep
<1>3. Lasting
  BY <1>1 DEF Lasting, env
<1> QED
  BY <1>1, <1>2, <1>3, QuietReturn

LEMMA TurnOffMonitors ==
  ASSUME Inv, LoopInv', NEW t \in Threads, TurnOff(t)
  PROVE  MonitorInv'
<1>1. /\ At(t, "turn_off") /\ UNCHANGED <<ctrl, timers, mon, notes, win, loc>>
      /\ \/ display' = "off" /\ Proceed(t) /\ UNCHANGED count
         \/ CountUp("fails") /\ GiveUp(t) /\ UNCHANGED display
  BY DEF TurnOff
<1>2. LoopInv /\ ProgramOK /\ count["timeouts"] \in Nat /\ Monitors = {"input", "power"}
  BY InvFacts
<1>3. count'["timeouts"] = count["timeouts"]
  BY <1>1, <1>2, CountUpFails
<1>4. Lasting /\ state' = state
  BY <1>1, <1>3 DEF Lasting, ctrl
<1>5. CASE Proceed(t)
  BY <1>1, <1>4, <1>5, QuietProceed
<1>6. CASE GiveUp(t)
  <2> DEFINE C == {GivingUp}
  <2>1. t \in Timers /\ t \notin {"api", "input", "window", "power"}
    BY <1>1, <1>2, Facts, AtCall DEF Called
  <2>2. Goes(t, C)
    BY <1>2, <1>6, <2>1, GiveUpCalls
  <2>3. \A m \in Monitors : Do("record_stop", m) \notin C /\ \A d \in Stops(m) : d \notin C
    BY DoFields DEF Stops, GivingUp
  <2>4. UNCHANGED <<gen, closed, active, pending, mon>>
        /\ (closed /\ count["timeouts"] = 0 /\ win'.up /\ ~win'.doomed =>
               (win.up /\ ~win.doomed) \/ Has("api", "close", "window"))
    BY <1>4 DEF Lasting
  <2>5. count'["timeouts"] \in {count["timeouts"], count["timeouts"] + 1}
    BY <1>3
  <2> HIDE DEF C
  <2> QED
    BY <1>1, <1>2, <1>4, <2>1, <2>2, <2>3, <2>4, <2>5, OtherMoves
<1> QED
  BY <1>1, <1>5, <1>6

LEMMA CountdownMonitors ==
  ASSUME Inv, LoopInv', NEW t \in Threads, Countdown(t)
  PROVE  MonitorInv'
<1>1. /\ At(t, "countdown") /\ UNCHANGED <<gen, closed, active, pending, mon, notes, win, display>>
      /\ \/ ~MayCount(t) /\ loc' = [loc EXCEPT ![t] = Locals] /\ UNCHANGED <<timer, state, timers, count>>
         \/ /\ MayCount(t) /\ state' = Now(t) /\ UNCHANGED count
            /\ \E k \in Timers : loc' = [loc EXCEPT ![t] = [loc[t] EXCEPT !.timer = k]]
         \/ /\ MayCount(t) /\ CountUp("fails") /\ state' = Now(t) /\ UNCHANGED <<timer, timers, loc>>
  BY DEF Countdown, Return
<1>2. /\ LoopInv /\ FlowOK /\ ActiveOK /\ ProgramOK /\ loc[t] \in LocRec(gen) /\ "api" \in Threads
      /\ "input" # "api" /\ "power" # "api"
  BY InvFacts, LocOf
<1>3. /\ (t = "api" /\ Now(t) = "initial") \/ (t = "power" /\ Now(t) = "reprotection")
      /\ \/ ~MayCount(t) /\ Goes(t, {})
         \/ MayCount(t) /\ Goes(t, Showing(Now(t)))
         \/ MayCount(t) /\ Goes(t, {GivingUp})
  BY <1>2, CountdownCalls
<1>4. PICK C : /\ Goes(t, C) /\ C \subseteq Showing(Now(t)) \cup {GivingUp}
               /\ ~MayCount(t) => C = {}
  BY <1>3
<1>5. /\ \A u \in Threads \ {t} : loc'[u] = loc[u]
      /\ MayCount(t) => loc'[t].gen = loc[t].gen
  <2>1. \A k : [loc[t] EXCEPT !.timer = k].gen = loc[t].gen
    BY <1>2 DEF LocRec
  <2>2. \A r : loc' = [loc EXCEPT ![t] = r] => loc'[t] = r /\ \A u \in Threads \ {t} : loc'[u] = loc[u]
    BY <1>2, OneLocal
  <2>3. CASE ~MayCount(t) /\ loc' = [loc EXCEPT ![t] = Locals]
    BY <2>2, <2>3
  <2>4. CASE UNCHANGED loc
    BY <2>4
  <2>5. CASE \E k \in Timers : loc' = [loc EXCEPT ![t] = [loc[t] EXCEPT !.timer = k]]
    <3>1. PICK k \in Timers : loc' = [loc EXCEPT ![t] = [loc[t] EXCEPT !.timer = k]]
      BY <2>5
    <3> QED
      BY <2>1, <2>2, <3>1
  <2> QED
    BY <1>1, <2>3, <2>4, <2>5
<1>6. Lasting
  <2>1. count'["timeouts"] = count["timeouts"]
    BY <1>1, <1>2, CountUpFails
  <2> QED
    BY <1>1, <2>1 DEF Lasting
<1>7. MayCount(t) => state' # "idle" /\ state = Expected[Now(t)]
  BY <1>1, <1>3 DEF MayCount
<1>8. t # "api" => (state' = "idle" <=> state = "idle")
  BY <1>1, <1>3, <1>7 DEF Expected
<1>9. t = "api" /\ state' # "idle" => \A m \in Monitors : active[m]
  <2>1. CASE ~MayCount(t)
    BY <1>1, <1>2, <2>1 DEF FlowOK
  <2>2. CASE MayCount(t) /\ t = "api"
    <3>1. gen = loc["api"].gen
      BY <2>2 DEF MayCount, Current
    <3>2. Has("api", "countdown", "initial")
      BY <1>1, <1>2, <1>3, <2>2, AtCall DEF Called, Has
    <3>3. \A m \in Monitors : ~Has("api", "record_start", m)
      BY <1>1, <1>2, <2>2, AtCall DEF Called, After
    <3> QED
      BY <1>2, <3>1, <3>2, <3>3 DEF FlowOK
  <2> QED
    BY <2>1, <2>2
<1>10. t = "api" /\ state' = "idle" => \A m \in Monitors : active[m] =>
           gen = loc'["api"].gen /\ GivingUp \in C
  <2>1. ASSUME t = "api", state' = "idle", NEW m \in Monitors, active[m] PROVE FALSE
    <3>1. ~MayCount(t) /\ state = "idle" /\ ~closed
      BY <1>1, <1>2, <1>7, <2>1 DEF ActiveOK
    <3>2. gen = loc["api"].gen
      BY <1>2, <2>1, <3>1 DEF ActiveOK
    <3>3. timer = NoTimer
      BY <1>2, <3>1, HeldNow DEF Counting
    <3> QED
      BY <1>3, <2>1, <3>1, <3>2, <3>3 DEF MayCount, Current, Expected
  <2> QED
    BY <2>1
<1> QED
  BY <1>1, <1>4, <1>5, <1>6, <1>8, <1>9, <1>10, LateMoves

LEMMA CloseWindowMonitors ==
  ASSUME Inv, LoopInv', NEW t \in Threads, CloseWindow(t)
  PROVE  MonitorInv'
<1>1. /\ UNCHANGED <<ctrl, timers, mon, notes, display, loc, count>> /\ Proceed(t)
      /\ \/ At(t, "close") /\ win' = [win EXCEPT !.doomed = win.up, !.cancel = 0]
         \/ At(t, "destroy") /\ win' = [win EXCEPT !.doomed = TRUE]
  BY DEF CloseWindow
<1>2. LoopInv /\ win \in WinType /\ FlowOK /\ ActiveOK /\ CloseOK /\ ProgramOK
  BY InvFacts, Facts
<1>3. win'.up => win'.doomed
  BY <1>1, <1>2 DEF WinType
<1>4. Lasting
  BY <1>1, <1>3 DEF Lasting, ctrl
<1>5. CASE At(t, "destroy")
  BY <1>1, <1>4, <1>5, QuietProceed DEF ctrl
<1>6. CASE At(t, "close")
  <2> DEFINE C == Elems(todo[t]) \ {Do("close", "window")}
  <2>1. /\ t = "api" /\ todo[t] # <<>> /\ Now(t) = "window"
        /\ \A m \in Monitors : ~Stopping("api", m)
    BY <1>2, <1>6, AtCall DEF Called, After
  <2>2. Goes("api", C)
    BY <1>1, <1>2, <1>6, <2>1, ProceedCalls
  <2>3. /\ C \subseteq Elems(todo["api"])
        /\ \A d, o : d # "close" => (Do(d, o) \in C <=> Has("api", d, o))
    BY <2>1, DoFields DEF Has
  <2> HIDE DEF C
  <2>4. \A m \in Monitors : \A d \in Stops(m) \cup Starts(m) \cup {Do("check", "flow")} :
            d \in C <=> d \in Elems(todo["api"])
    BY <2>3 DEF Stops, Starts, Has
  <2>5. /\ Do("countdown", "initial") \in C => Has("api", "countdown", "initial")
        /\ state' # "idle" => ~closed /\ \A m \in Monitors : active[m]
        /\ \A m \in Monitors : active[m] /\ state' = "idle" =>
              gen = loc'["api"].gen
              /\ (Do("countdown", "initial") \in C \/ Do("deactivate", "flow") \in C)
    BY <1>1, <1>2, <2>3 DEF FlowOK, ActiveOK, ctrl
  <2>6. UNCHANGED <<gen, closed, active, pending, mon>> /\ count'["timeouts"] = count["timeouts"]
        /\ (closed /\ count["timeouts"] = 0 /\ win'.up /\ ~win'.doomed =>
               (win.up /\ ~win.doomed) \/ Has("api", "close", "window"))
    BY <1>4 DEF Lasting
  <2> QED
    BY <1>1, <1>3, <2>1, <2>2, <2>3, <2>4, <2>5, <2>6, KeepsAll, ApiMoves
<1> QED
  BY <1>1, <1>5, <1>6

LEMMA TimerFiresMonitors ==
  ASSUME Inv, LoopInv', NEW k \in Timers, TimerFires(k)
  PROVE  MonitorInv'
<1> DEFINE s == <<Do("hide", "window"), Do("turn_off", "display"), Do("settle", "flow")>>
<1>1. /\ Idle(k) /\ UNCHANGED <<gen, closed, active, pending, mon, notes, win, display, count>>
      /\ \/ /\ timer = k /\ state' = "turning_off"
            /\ Then(k, s) /\ loc' = [loc EXCEPT ![k] = [loc[k] EXCEPT !.gen = timers[k].gen]]
         \/ UNCHANGED <<timer, state, todo, loc>>
  BY DEF TimerFires
<1>2. /\ LoopInv /\ ProgramOK /\ k \in Threads /\ DOMAIN todo = Threads /\ k # "api"
      /\ k \notin Monitors /\ count["timeouts"] \in Nat
  BY InvFacts, Facts
<1>3. PICK C : Goes(k, C) /\ (C = {} \/ C = FireSet)
  <2>1. CASE Then(k, s)
    <3>1. Program(k, s) /\ Elems(s) = FireSet
      BY FireProgram
    <3> HIDE DEF s
    <3> QED
      BY <1>2, <2>1, <3>1, Moved
  <2>2. CASE UNCHANGED todo
    <3>1. Elems(todo[k]) = {}
      BY <1>1, <1>2, IdleHas
    <3> QED
      BY <1>2, <2>2, <3>1, NobodyGoes
  <2> QED
    BY <1>1, <2>1, <2>2
<1>4. \A m \in Monitors : Do("record_stop", m) \notin C /\ \A d \in Stops(m) : d \notin C
  BY <1>3, DoFields DEF Stops, FireSet
<1>5. state' = "idle" <=> state = "idle"
  <2>1. timer = k => state \in Counting
    BY <1>2, HeldNow, ConstantsAssumption
  <2> QED
    BY <1>1, <2>1 DEF Counting
<1>6. \A u \in Threads \ {k} : loc'[u] = loc[u]
  BY <1>1, <1>2, OneLocal
<1>7. count'["timeouts"] \in {count["timeouts"], count["timeouts"] + 1}
      /\ (closed /\ count["timeouts"] = 0 /\ win'.up /\ ~win'.doomed =>
             (win.up /\ ~win.doomed) \/ Has("api", "close", "window"))
  BY <1>1
<1> QED
  BY <1>1, <1>2, <1>3, <1>4, <1>5, <1>6, <1>7, OtherMoves

LEMMA PowerOnMonitors ==
  ASSUME Inv, LoopInv', PowerOn
  PROVE  MonitorInv'
<1> DEFINE C == {Do("countdown", "reprotection")}
<1>1. /\ mon["power"].alive /\ UNCHANGED <<ctrl, timers, mon, win, display, count>>
      /\ loc' = [loc EXCEPT !["power"] = [loc["power"] EXCEPT !.gen = mon["power"].gen]]
  BY DEF PowerOn
<1>2. LoopInv /\ "power" \in Threads /\ "power" # "api"
  BY InvFacts, Facts
<1>3. Goes("power", C)
  BY <1>2, PowerOnStep
<1>4. \A m \in Monitors : Do("record_stop", m) \notin C /\ \A d \in Stops(m) : d \notin C
  BY DoFields DEF Stops
<1>5. \A u \in Threads \ {"power"} : loc'[u] = loc[u]
  BY <1>1, <1>2, OneLocal
<1>6. /\ UNCHANGED <<gen, closed, active, pending, mon>> /\ (state' = "idle" <=> state = "idle")
      /\ count'["timeouts"] \in {count["timeouts"], count["timeouts"] + 1}
      /\ (closed /\ count["timeouts"] = 0 /\ win'.up /\ ~win'.doomed =>
             (win.up /\ ~win.doomed) \/ Has("api", "close", "window"))
  BY <1>1 DEF ctrl
<1> HIDE DEF C
<1> QED
  BY <1>1, <1>2, <1>3, <1>4, <1>5, <1>6, OtherMoves

\* The calls of a handler that has just ended the flow.
LEMMA EndedCalls ==
  ASSUME NEW t \in Threads, NEW R, Goes(t, ToEnd(StillToStop) \cup R),
         \A m \in Monitors : \A d \in Stops(m) : d \notin R
  PROVE  /\ \A m \in Monitors :
               /\ Has(t, "request_stop", m)' <=> (active[m] \/ pending[m])
               /\ Has(t, "join", m)' <=> (active[m] \/ pending[m])
               /\ Has(t, "record_stop", m)' <=> (active[m] \/ pending[m])
               /\ ~AtJoin(t, m)' /\ ~AtRecord(t, m)'
         /\ \A c, o : c \notin {"hide", "request_stop", "join", "record_stop"} =>
                         (Has(t, c, o)' <=> Do(c, o) \in R)
<1> DEFINE N == StillToStop
           C == ToEnd(N) \cup R
<1>1. \A m \in Monitors : N[m] <=> (active[m] \/ pending[m])
  BY DEF StillToStop
<1>2. \A c, o : Has(t, c, o)' <=> Do(c, o) \in C
  BY DEF Goes, Has
<1> HIDE DEF N
<1>3. ASSUME NEW m \in Monitors
      PROVE  \A d \in Stops(m) : d \in C <=> N[m]
  <2>1. \A n \in Monitors : n # m => \A d \in Stops(m) : d \notin Stops(n)
    BY DoFields DEF Stops
  <2>2. \A d \in Stops(m) : d # Do("hide", "window") /\ d \notin R
    BY DoFields DEF Stops
  <2>3. m = "input" \/ m = "power"
    BY DEF Monitors
  <2>4. "input" \in Monitors /\ "power" \in Monitors
    BY DEF Monitors
  <2> QED
    BY <2>1, <2>2, <2>3, <2>4 DEF ToEnd, ToStop
<1>4. ASSUME NEW c, NEW o, c \notin {"hide", "request_stop", "join", "record_stop"}
      PROVE  Do(c, o) \in C <=> Do(c, o) \in R
  BY <1>4, DoFields DEF ToEnd, ToStop, Stops
<1> HIDE DEF C
<1>5. ASSUME NEW m \in Monitors
      PROVE  /\ Has(t, "request_stop", m)' <=> (active[m] \/ pending[m])
             /\ Has(t, "join", m)' <=> (active[m] \/ pending[m])
             /\ Has(t, "record_stop", m)' <=> (active[m] \/ pending[m])
  BY <1>1, <1>2, <1>3 DEF Stops
<1>6. \A m \in Monitors : ~AtJoin(t, m)' /\ ~AtRecord(t, m)'
  BY <1>5 DEF AtJoin, AtRecord
<1> QED
  BY <1>2, <1>4, <1>5, <1>6

\* A flow has ended: what the flags say now.
Ended ==
    /\ gen' = gen + 1 /\ state' = "idle" /\ mon' = mon
    /\ \A m \in Monitors : ~active'[m] /\ (pending'[m] <=> (active[m] \/ pending[m]))
    /\ count'["timeouts"] = count["timeouts"]

LEMMA EndFlowEnds ==
  ASSUME NEW t, NEW rest, NEW g, EndFlow(t, rest, g), mon' = mon,
         count'["timeouts"] = count["timeouts"]
  PROVE  Ended
BY DEF EndFlow, Ended, None, StillToStop

\* Another thread than the event loop's ends the flow.
LEMMA OtherEnds ==
  ASSUME Inv, LoopInv', NEW t \in Threads, t # "api", NEW R, Goes(t, ToEnd(StillToStop) \cup R),
         \A m \in Monitors : \A d \in Stops(m) : d \notin R,
         Ended, closed' = closed, \A u \in Threads \ {t} : loc'[u] = loc[u],
         t \in Monitors => mon[t].alive,
         win'.up /\ ~win'.doomed => win.up /\ ~win.doomed
  PROVE  MonitorInv'
<1>1. /\ LoopInv /\ KnownOK /\ ActiveOK /\ StopsOK /\ FlowOK /\ CloseOK /\ ProgramOK
      /\ count["timeouts"] \in Nat /\ "api" \in Threads /\ Monitors \subseteq Threads
      /\ "api" \notin Monitors /\ gen \in Nat
  BY InvFacts
<1>2. /\ todo'["api"] = todo["api"] /\ loc'["api"] = loc["api"]
      /\ \A c, o : Has("api", c, o)' <=> Has("api", c, o)
  BY <1>1, ApiSame
<1>3. /\ gen' = gen + 1 /\ state' = "idle" /\ mon' = mon
      /\ \A m \in Monitors : ~active'[m] /\ (pending'[m] <=> (active[m] \/ pending[m]))
      /\ count'["timeouts"] = count["timeouts"]
  BY DEF Ended
<1>4. \A m : /\ InArm(m)' <=> InArm(m)
             /\ Spawned(m)' <=> Spawned(m)
             /\ GivenUp(m) => GivenUp(m)'
  BY <1>1, <1>2, <1>3, ArmSame
<1>5. loc'["api"].gen # gen'
  <2>1. loc["api"].gen \in 0..gen
    BY <1>1, LocOf DEF LocRec
  <2> QED
    BY <1>1, <1>2, <1>3, <2>1
<1>6. \A m \in Monitors : ~AtJoin(t, m)' /\ ~AtRecord(t, m)'
  BY EndedCalls
<1>7. \A u \in Threads \ {t} : todo'[u] = todo[u] /\ \A c, o : Has(u, c, o)' <=> Has(u, c, o)
  BY OthersSame
<1>8. KnownOK'
  BY <1>1, <1>2, <1>3, <1>4 DEF KnownOK
<1>9. ActiveOK'
  BY <1>3 DEF ActiveOK
<1>10. StopsOK'
  <2>1. ASSUME NEW u \in Threads, NEW m \in Monitors, AtRecord(u, m)', loc'[u].ok, mon'[m].alive
        PROVE  /\ u # "api" /\ ~Has("api", "check", "flow")'
               /\ (InArm(m) \/ GivenUp(m))'
    <3>1. u # t /\ AtRecord(u, m) /\ loc[u].ok /\ mon[m].alive
      BY <1>3, <1>6, <1>7, <2>1 DEF AtRecord
    <3>2. u # "api" /\ ~Has("api", "check", "flow") /\ (InArm(m) \/ GivenUp(m))
      BY <1>1, <3>1 DEF StopsOK
    <3> QED
      BY <1>2, <1>4, <3>2
  <2>2. ASSUME NEW m \in Monitors
        PROVE  /\ AtJoin("api", m)' => loc'["api"].id = mon'[m].id
               /\ Has("api", "record_stop", m)' /\ ~Has("api", "request_stop", m)' => mon'[m].stop
               /\ AtRecord("api", m)' /\ ~loc'["api"].ok => count'["timeouts"] > 0
    <3>1. /\ AtJoin("api", m) => loc["api"].id = mon[m].id
          /\ Has("api", "record_stop", m) /\ ~Has("api", "request_stop", m) => mon[m].stop
          /\ AtRecord("api", m) /\ ~loc["api"].ok => count["timeouts"] > 0
      BY <1>1 DEF StopsOK
    <3>2. (AtRecord("api", m)' <=> AtRecord("api", m)) /\ (AtJoin("api", m)' <=> AtJoin("api", m))
      BY <1>2 DEF AtRecord, AtJoin
    <3> QED
      BY <1>2, <1>3, <3>1, <3>2
  <2> QED
    BY <1>5, <2>1, <2>2 DEF StopsOK
<1>11. FlowOK'
  BY <1>3, <1>5 DEF FlowOK
<1>12. CloseOK'
  <2>1. \A m \in Monitors : todo'[m] # <<>> => mon'[m].alive
    BY <1>1, <1>3, <1>7 DEF CloseOK
  <2>2. closed' =>
          /\ \A d \in Elems(todo'["api"]) :
                d.call \in {"hide", "request_stop", "join", "record_stop", "close"}
          /\ \A m \in Monitors : Has("api", "join", m)' => Has("api", "close", "window")'
    BY <1>1, <1>2 DEF CloseOK
  <2>3. closed' /\ count'["timeouts"] = 0 =>
          /\ \A m \in Monitors : mon'[m].alive => Has("api", "join", m)'
          /\ win'.up /\ ~win'.doomed => Has("api", "close", "window")'
    BY <1>1, <1>2, <1>3 DEF CloseOK
  <2> QED
    BY <2>1, <2>2, <2>3 DEF CloseOK
<1> QED
  BY <1>8, <1>9, <1>10, <1>11, <1>12 DEF MonitorInv

\* The event loop's thread ends the flow: arm() to start the next one, close(), or an
\* arm() whose start has failed.
LEMMA ApiEnds ==
  ASSUME Inv, LoopInv', NEW R, Goes("api", ToEnd(StillToStop) \cup R), Ended,
         \A m \in Monitors : ~InArm(m), \A u \in Threads \ {"api"} : loc'[u] = loc[u],
         \/ /\ R = ArmSet /\ ~closed'
            /\ \A u \in Threads \ {"api"}, m \in Monitors : ~Stopping(u, m)
         \/ R = CloseSet /\ loc'["api"].gen = 0
         \/ R = {} /\ loc'["api"].gen = 0 /\ ~closed'
  PROVE  MonitorInv'
<1>1. /\ LoopInv /\ KnownOK /\ ActiveOK /\ StopsOK /\ FlowOK /\ CloseOK /\ ProgramOK
      /\ count["timeouts"] \in Nat /\ "api" \in Threads /\ Monitors \subseteq Threads
      /\ "api" \notin Monitors /\ gen \in Nat
  BY InvFacts
<1>2. /\ gen' = gen + 1 /\ state' = "idle" /\ mon' = mon
      /\ \A m \in Monitors : ~active'[m] /\ (pending'[m] <=> (active[m] \/ pending[m]))
      /\ count'["timeouts"] = count["timeouts"]
  BY DEF Ended
<1>3. \A m \in Monitors : \A d \in Stops(m) : d \notin R
  BY DoFields DEF Stops, Starts, ArmSet, CloseSet, Monitors
<1>4. /\ \A m \in Monitors :
            /\ Has("api", "request_stop", m)' <=> (active[m] \/ pending[m])
            /\ Has("api", "join", m)' <=> (active[m] \/ pending[m])
            /\ Has("api", "record_stop", m)' <=> (active[m] \/ pending[m])
            /\ ~AtJoin("api", m)' /\ ~AtRecord("api", m)'
      /\ \A c, o : c \notin {"hide", "request_stop", "join", "record_stop"} =>
                      (Has("api", c, o)' <=> Do(c, o) \in R)
  BY <1>1, <1>3, EndedCalls
<1>5. ASSUME NEW m \in Monitors, mon[m].alive
      PROVE  active[m] \/ pending[m] \/ GivenUp(m)
  BY <1>1, <1>5 DEF KnownOK
<1>6. \A m : GivenUp(m)' <=> GivenUp(m)
  BY <1>2 DEF GivenUp
<1>7. \A u \in Threads \ {"api"} : todo'[u] = todo[u] /\ \A c, o : Has(u, c, o)' <=> Has(u, c, o)
  BY <1>1, OthersSame
<1>8. KnownOK'
  BY <1>2, <1>5, <1>6 DEF KnownOK
<1>9. ActiveOK'
  BY <1>2 DEF ActiveOK
<1>10. /\ Do("check", "flow") \in R => R = ArmSet
       /\ \A m \in Monitors : Do("record_start", m) \in R => Do("spawn", m) \in R /\ R = ArmSet
       /\ Do("countdown", "initial") \in R =>
             \A m \in Monitors : Do("record_start", m) \in R
  <2>1. \A d \in CloseSet : d.call \in {"close", "join"}
    BY DoFields DEF CloseSet
  <2>2. \A m \in Monitors : Do("record_start", m) \in ArmSet /\ Do("spawn", m) \in ArmSet
    BY DEF ArmSet, Starts, Monitors
  <2> QED
    BY <2>1, <2>2, DoFields
<1>11. StopsOK'
  <2>1. todo'["api"] # <<>> /\ loc'["api"].gen = gen' =>
            \A u \in Threads \ {"api"}, m \in Monitors : ~Stopping(u, m)'
    BY <1>1, <1>2, <1>7 DEF Stopping
  <2>2. ASSUME NEW u \in Threads, NEW m \in Monitors, AtRecord(u, m)', loc'[u].ok, mon'[m].alive
        PROVE  /\ u # "api" /\ ~Has("api", "check", "flow")'
               /\ (InArm(m) \/ GivenUp(m))'
    <3>1. u # "api" /\ AtRecord(u, m) /\ loc[u].ok /\ mon[m].alive
      BY <1>2, <1>4, <1>7, <2>2 DEF AtRecord
    <3>2. GivenUp(m)
      BY <1>1, <3>1 DEF StopsOK
    <3>3. Stopping(u, m)
      BY <3>1 DEF AtRecord, Stopping
    <3>4. Do("check", "flow") \notin R
      <4>1. R # ArmSet \/ \A v \in Threads \ {"api"}, n \in Monitors : ~Stopping(v, n)
        BY DoFields DEF ArmSet, CloseSet
      <4> QED
        BY <1>10, <3>1, <3>3, <4>1
    <3>5. ~Has("api", "check", "flow")' /\ GivenUp(m)'
      BY <1>4, <1>6, <3>2, <3>4
    <3> QED
      BY <3>1, <3>5
  <2> QED
    BY <1>4, <2>1, <2>2 DEF StopsOK
<1>12. FlowOK'
  <2>1. ASSUME NEW m \in Monitors
        PROVE  /\ ~Spawned(m)'
               /\ Has("api", "countdown", "initial")' => Has("api", "record_start", m)'
    BY <1>4, <1>10 DEF Spawned
  <2> QED
    BY <1>2, <2>1 DEF FlowOK
<1>13. CloseOK'
  <2>1. \A m \in Monitors : todo'[m] # <<>> => mon'[m].alive
    BY <1>1, <1>2, <1>7 DEF CloseOK
  <2>2. ASSUME closed' PROVE R = CloseSet
    BY <2>2
  <2>3. ASSUME closed', NEW d \in Elems(todo'["api"])
        PROVE  d.call \in {"hide", "request_stop", "join", "record_stop", "close"}
    <3>1. d \in ToEnd(StillToStop) \cup CloseSet
      BY <1>1, <2>2, <2>3 DEF Goes
    <3> QED
      BY <3>1, DoFields DEF ToEnd, ToStop, Stops, CloseSet
  <2>4. ASSUME closed' PROVE Has("api", "close", "window")'
    BY <1>4, <2>2, <2>4 DEF CloseSet
  <2>5. ASSUME closed', count'["timeouts"] = 0, NEW m \in Monitors, mon'[m].alive
        PROVE  Has("api", "join", m)'
    <3>1. count["timeouts"] = 0
      BY <1>2, <2>5
    <3>2. ~GivenUp(m)
      BY <3>1 DEF GivenUp
    <3> QED
      BY <1>2, <1>4, <1>5, <2>5, <3>2
  <2> QED
    BY <2>1, <2>3, <2>4, <2>5 DEF CloseOK
<1> QED
  BY <1>8, <1>9, <1>11, <1>12, <1>13 DEF MonitorInv

LEMMA ArmMonitors ==
  ASSUME Overlap = FALSE, Inv, LoopInv', Arm
  PROVE  MonitorInv'
<1>1. /\ Idle("api") /\ Quiet /\ closed' = FALSE /\ EndFlow("api", ArmCalls, gen + 1)
      /\ UNCHANGED <<timers, mon, notes, win, display>> /\ CountUp("arms")
  BY DEF Arm
<1>2. LoopInv /\ ProgramOK /\ count \in CountType /\ "api" \in Threads
  BY InvFacts, Facts
<1>3. count'["timeouts"] = count["timeouts"]
  BY <1>1, <1>2 DEF CountUp, CountType
<1>4. Ended
  BY <1>1, <1>3, EndFlowEnds
<1>5. \A u \in Threads : \A m \in Monitors : ~Stopping(u, m)
  BY <1>1, <1>2, IdleHas DEF Quiet
<1>6. \A m \in Monitors : ~InArm(m)
  <2>1. Elems(todo["api"]) = {}
    BY <1>1, <1>2, IdleHas
  <2> QED
    BY <2>1 DEF InArm, Spawned, Has
<1>7. \A u \in Threads \ {"api"} : loc'[u] = loc[u]
  <2>1. loc \in LocType(gen)
    BY <1>2, Facts
  <2> QED
    BY <1>1, <2>1 DEF EndFlow, LocType
<1>8. Goes("api", ToEnd(StillToStop) \cup ArmSet)
  BY <1>2, ArmStep
<1> QED
  BY <1>1, <1>4, <1>5, <1>6, <1>7, <1>8, ApiEnds

LEMMA CloseMonitors ==
  ASSUME Inv, LoopInv', Close
  PROVE  MonitorInv'
<1> DEFINE rest == <<Do("close", "window"), Do("join", "window")>>
<1>1. Idle("api") /\ EndFlow("api", rest, 0) /\ UNCHANGED env
  BY DEF Close
<1> HIDE DEF rest
<1>2. LoopInv /\ ProgramOK /\ count \in CountType /\ "api" \in Threads /\ loc \in LocType(gen)
  BY InvFacts, Facts
<1>3. Ended
  BY <1>1, EndFlowEnds DEF env
<1>4. \A m \in Monitors : ~InArm(m)
  <2>1. Elems(todo["api"]) = {}
    BY <1>1, <1>2, IdleHas
  <2> QED
    BY <2>1 DEF InArm, Spawned, Has
<1>5. loc'["api"].gen = 0 /\ \A u \in Threads \ {"api"} : loc'[u] = loc[u]
  BY <1>1, <1>2 DEF EndFlow, LocType
<1>6. Goes("api", ToEnd(StillToStop) \cup CloseSet)
  BY <1>2, CloseStep
<1> QED
  BY <1>3, <1>4, <1>5, <1>6, ApiEnds

LEMMA EndFlowLocals ==
  ASSUME LoopInv, NEW t \in Threads, NEW rest, NEW g, EndFlow(t, rest, g)
  PROVE  loc'[t].gen = g /\ \A u \in Threads \ {t} : loc'[u] = loc[u]
<1>1. loc \in LocType(gen)
  BY Facts
<1> QED
  BY <1>1 DEF EndFlow, LocType

LEMMA KeyDownMonitors ==
  ASSUME Inv, LoopInv', KeyDown
  PROVE  MonitorInv'
<1> DEFINE rest == <<>>
           R == {}
<1>1. mon["input"].alive /\ EndFlow("input", rest, 0) /\ UNCHANGED <<closed, env>>
  BY DEF KeyDown
<1> HIDE DEF rest
<1>2. LoopInv /\ "input" \in Threads /\ "input" # "api"
  BY InvFacts, Facts
<1>3. Ended /\ closed' = closed /\ win' = win
  BY <1>1, EndFlowEnds DEF env
<1>4. \A u \in Threads \ {"input"} : loc'[u] = loc[u]
  BY <1>1, <1>2, EndFlowLocals
<1>5. Goes("input", ToEnd(StillToStop) \cup R)
  <2>1. ToEnd(StillToStop) \cup R = ToEnd(StillToStop)
    OBVIOUS
  <2> QED
    BY <1>2, <2>1, KeyDownStep
<1>6. \A m \in Monitors : \A d \in Stops(m) : d \notin R
  OBVIOUS
<1> HIDE DEF R
<1> QED
  BY <1>1, <1>2, <1>3, <1>4, <1>5, <1>6, OtherEnds

LEMMA ClickMonitors ==
  ASSUME Inv, LoopInv', NEW rest, Click(rest), NEW R, R \subseteq {Do("destroy", "window")},
         Goes("window", Clicked(R))
  PROVE  MonitorInv'
<1>1. /\ win' = Hidden(win)
      /\ UNCHANGED <<closed, timers, mon, notes, display, count>>
      /\ IF win.cancel # 0 /\ Current(win.cancel) THEN EndFlow("window", rest, 0)
         ELSE UNCHANGED <<gen, timer, state, active, pending, loc>>
  BY DEF Click
<1>2. /\ LoopInv /\ "window" \in Threads /\ "window" # "api" /\ win \in WinType
      /\ "window" \notin Monitors /\ count["timeouts"] \in Nat
  BY InvFacts, Facts
<1>3. win'.up = win.up /\ win'.doomed = win.doomed
  BY <1>1, <1>2 DEF Hidden, WinType
<1>4. \A m \in Monitors : Do("record_stop", m) \notin R /\ \A d \in Stops(m) : d \notin R
  BY DoFields DEF Stops
<1>5. CASE win.cancel # 0 /\ Current(win.cancel)
  <2>1. EndFlow("window", rest, 0)
    BY <1>1, <1>5
  <2>2. Ended
    BY <1>1, <2>1, EndFlowEnds
  <2>3. \A u \in Threads \ {"window"} : loc'[u] = loc[u]
    BY <1>2, <2>1, EndFlowLocals
  <2>4. Goes("window", ToEnd(StillToStop) \cup R)
    BY <1>5 DEF Clicked
  <2> QED
    BY <1>1, <1>2, <1>3, <1>4, <2>2, <2>3, <2>4, OtherEnds
<1>6. CASE ~(win.cancel # 0 /\ Current(win.cancel))
  <2>1. UNCHANGED <<gen, timer, state, active, pending, loc>>
    BY <1>1, <1>6
  <2>2. Goes("window", R)
    BY <1>6 DEF Clicked
  <2>3. count'["timeouts"] \in {count["timeouts"], count["timeouts"] + 1}
    BY <1>1
  <2> QED
    BY <1>1, <1>2, <1>3, <1>4, <2>1, <2>2, <2>3, OtherMoves
<1> QED
  BY <1>5, <1>6

LEMMA ClicksMonitors ==
  ASSUME Inv, LoopInv', CancelClick \/ CloseClick
  PROVE  MonitorInv'
<1>1. LoopInv
  BY InvFacts
<1>2. CASE CancelClick
  <2> DEFINE rest == <<>>
             R == {}
  <2>1. Click(rest) /\ Goes("window", Clicked(R)) /\ R \subseteq {Do("destroy", "window")}
    BY <1>1, <1>2, CancelClickStep DEF CancelClick
  <2> HIDE DEF rest, R
  <2> QED
    BY <2>1, ClickMonitors
<1>3. CASE CloseClick
  <2> DEFINE rest == <<Do("destroy", "window")>>
             R == {Do("destroy", "window")}
  <2>1. Click(rest) /\ Goes("window", Clicked(R)) /\ R \subseteq {Do("destroy", "window")}
    BY <1>1, <1>3, CloseClickStep DEF CloseClick
  <2> HIDE DEF rest, R
  <2> QED
    BY <2>1, ClickMonitors
<1> QED
  BY <1>2, <1>3

LEMMA DeactivateMonitors ==
  ASSUME Inv, LoopInv', NEW t \in Threads, Deactivate(t)
  PROVE  MonitorInv'
<1> DEFINE rest == <<>>
           R == {}
<1>1. /\ At(t, "deactivate") /\ UNCHANGED <<closed, env>>
      /\ IF gen = loc[t].gen THEN EndFlow(t, rest, 0)
         ELSE Return(t) /\ UNCHANGED <<gen, timer, state, active, pending>>
  BY DEF Deactivate
<1>2. /\ LoopInv /\ ActiveOK /\ FlowOK /\ CloseOK /\ ProgramOK /\ count["timeouts"] \in Nat
  BY InvFacts
<1>3. /\ todo[t] # <<>> /\ \A m \in Monitors : ~Stopping(t, m)
      /\ ~Has(t, "check", "flow") /\ ~Has(t, "close", "window") /\ ~Has(t, "countdown", "initial")
      /\ \A m \in Monitors : ~Has(t, "start", m) /\ ~Has(t, "spawn", m)
                          /\ ~Has(t, "ready", m) /\ ~Has(t, "record_start", m)
      /\ Do("deactivate", Now(t)) \in Elems(todo[t])
  BY <1>1, <1>2, AtCall DEF Called, After
<1>4. /\ t = "api" => ~closed
      /\ t \in Monitors => mon[t].alive
  <2>1. Do("deactivate", Now(t)).call = "deactivate"
    BY DoFields
  <2> QED
    BY <1>2, <1>3, <2>1 DEF CloseOK
<1>5. R = {} /\ \A m \in Monitors : \A d \in Stops(m) : d \notin R
  OBVIOUS
<1>6. Goes(t, IF gen = loc[t].gen THEN ToEnd(StillToStop) ELSE {})
  BY <1>2, DeactivateStep
<1>7. CASE gen = loc[t].gen
  <2> HIDE DEF rest
  <2>1. EndFlow(t, rest, 0)
    BY <1>1, <1>7
  <2>2. Ended /\ win' = win /\ closed' = closed
    BY <1>1, <2>1, EndFlowEnds DEF env
  <2>3. loc'[t].gen = 0 /\ \A u \in Threads \ {t} : loc'[u] = loc[u]
    BY <1>2, <2>1, EndFlowLocals
  <2>4. Goes(t, ToEnd(StillToStop) \cup R)
    <3>1. ToEnd(StillToStop) \cup R = ToEnd(StillToStop)
      OBVIOUS
    <3> QED
      BY <1>6, <1>7, <3>1
  <2> HIDE DEF R
  <2>5. CASE t = "api"
    <3>1. \A m \in Monitors : ~InArm(m)
      BY <1>3, <2>5 DEF InArm, Spawned, Stopping
    <3> QED
      BY <1>4, <1>5, <2>2, <2>3, <2>4, <2>5, <3>1, ApiEnds
  <2>6. CASE t # "api"
    BY <1>4, <1>5, <2>2, <2>3, <2>4, <2>6, OtherEnds
  <2> QED
    BY <2>5, <2>6
<1>8. CASE gen # loc[t].gen
  <2>1. Return(t) /\ UNCHANGED <<gen, timer, state, active, pending>>
    BY <1>1, <1>8
  <2>2. \A u \in Threads \ {t} : loc'[u] = loc[u]
    BY <1>2, <2>1, OneLocal DEF Return
  <2>3. Goes(t, R)
    BY <1>6, <1>8
  <2>4. UNCHANGED <<gen, closed, active, pending, mon, state>> /\ count'["timeouts"] = count["timeouts"]
        /\ win' = win
    BY <1>1, <2>1 DEF env
  <2>5. count'["timeouts"] \in {count["timeouts"], count["timeouts"] + 1}
    BY <2>4
  <2>6. CASE t # "api"
    <3>1. \A m \in Monitors : Do("record_stop", m) \notin R
      OBVIOUS
    <3> HIDE DEF R
    <3> QED
      BY <1>4, <1>5, <2>2, <2>3, <2>4, <2>5, <2>6, <3>1, OtherMoves
  <2>7. CASE t = "api"
    <3>1. /\ \A m \in Monitors : \A d \in Stops(m) \cup Starts(m) \cup {Do("check", "flow")} :
                d \in R <=> d \in Elems(todo["api"])
          /\ Do("close", "window") \in R <=> Do("close", "window") \in Elems(todo["api"])
      BY <1>3, <2>7 DEF Stops, Starts, Has, Stopping
    <3>2. /\ \A m \in Monitors : active[m] /\ state' = "idle" => FALSE
          /\ state' # "idle" => ~closed /\ \A m \in Monitors : active[m]
      BY <1>2, <1>8, <2>4, <2>7 DEF ActiveOK, FlowOK
    <3>3. Do("countdown", "initial") \notin R
      OBVIOUS
    <3> HIDE DEF R
    <3> QED
      BY <1>3, <1>5, <2>2, <2>3, <2>4, <2>7, <3>1, <3>2, <3>3, KeepsAll, ApiMoves
  <2> QED
    BY <2>6, <2>7
<1> QED
  BY <1>7, <1>8

\* While a thread stops one monitor it is not in the middle of stopping the other one.
LEMMA OneStop ==
  ASSUME ProgramOK, NEW t \in Threads, NEW c \in {"request_stop", "join", "record_stop"}, At(t, c),
         Now(t) \in Monitors
  PROVE  /\ \A n \in Monitors : n # Now(t) => ~AtJoin(t, n) /\ ~AtRecord(t, n)
         /\ t = "api" => \A n \in Monitors : ~Spawned(n)
         /\ c # "request_stop" => ~Has(t, "request_stop", Now(t))
         /\ c = "record_stop" => ~Has(t, "join", Now(t))
         /\ c = "join" => AtJoin(t, Now(t))
         /\ c = "record_stop" => AtRecord(t, Now(t))
<1> DEFINE E == Elems(todo[t])
           h == Do(c, Now(t))
           p == Position(h)
<1>1. h = Head(todo[t]) /\ h \in E /\ todo[t] # <<>>
  BY AtCall DEF Called
<1>2. /\ \A d \in E : Position(d) \in Nat
      /\ \A d \in E : d # h => p < Position(d)
      /\ Whole(E)
  BY <1>1, NextCall DEF ProgramOK, Program
<1>3. /\ c = "request_stop" => p = 1 + OfMonitor[Now(t)]
      /\ c = "join" => p = 2 + OfMonitor[Now(t)]
      /\ c = "record_stop" => p = 3 + OfMonitor[Now(t)]
      /\ OfMonitor["input"] = 0 /\ OfMonitor["power"] = 3
      /\ \A n \in Monitors : OfStart[n] \in {8, 12}
      /\ Monitors = {"input", "power"}
  BY Places DEF Monitors
<1>4. \A d, o : Has(t, d, o) <=> Do(d, o) \in E
  BY DEF Has
<1>5. \A d, o : h = Do(d, o) => d = c /\ o = Now(t)
  BY DoFields
<1>6. p \in 1..6
  BY <1>3
<1>7. \A n \in Monitors : /\ Position(Do("request_stop", n)) = 1 + OfMonitor[n]
                          /\ Position(Do("join", n)) = 2 + OfMonitor[n]
                          /\ Position(Do("record_stop", n)) = 3 + OfMonitor[n]
  BY Places
<1> HIDE DEF E, h, p
<1>8. ASSUME NEW n \in Monitors, n # Now(t)
      PROVE  ~AtJoin(t, n) /\ ~AtRecord(t, n)
  <2>1. CASE n = "input"
    <3>1. Now(t) = "power" /\ p >= 4
      BY <1>3, <1>8, <2>1
    <3>2. Do("join", n) \notin E /\ Do("record_stop", n) \notin E
      <4>1. Position(Do("join", n)) = 2 /\ Position(Do("record_stop", n)) = 3
        BY <1>3, <1>7, <2>1
      <4>2. Do("join", n) # h /\ Do("record_stop", n) # h
        BY <1>5, <1>8
      <4> QED
        BY <1>2, <1>6, <3>1, <4>1, <4>2
    <3> QED
      BY <1>4, <3>2 DEF AtJoin, AtRecord
  <2>2. CASE n = "power"
    <3>1. p <= 3
      BY <1>3, <1>8, <2>2
    <3>2. /\ Do("join", n) \in E => Do("request_stop", n) \in E \/ \A d \in E : Position(d) >= 5
          /\ Do("record_stop", n) \in E => Do("join", n) \in E \/ \A d \in E : Position(d) >= 6
      BY <1>2, <1>3, <2>2 DEF Whole
    <3>3. h \in E /\ Position(h) = p
      BY <1>1 DEF h, p, E
    <3>4. ~(\A d \in E : Position(d) >= 5) /\ ~(\A d \in E : Position(d) >= 6)
      BY <3>1, <3>3, <1>6
    <3> QED
      BY <1>4, <3>2, <3>4 DEF AtJoin, AtRecord
  <2> QED
    BY <1>3, <2>1, <2>2
<1>9. t = "api" => \A n \in Monitors : ~Spawned(n)
  <2>1. ASSUME t = "api", NEW n \in Monitors, Spawned(n) PROVE FALSE
    <3>1. \A d \in E : Position(d) >= 2 + OfStart[n]
      BY <1>2, <1>4, <2>1 DEF Whole, Spawned
    <3>2. h \in E /\ Position(h) = p
      BY <1>1 DEF h, p, E
    <3>3. OfStart[n] \in {8, 12}
      BY <1>3
    <3> QED
      BY <1>6, <3>1, <3>2, <3>3
  <2> QED
    BY <2>1
<1>10. ASSUME NEW d \in {"request_stop", "join", "record_stop"}, d # c, Do(d, Now(t)) \in E
       PROVE  p < Position(Do(d, Now(t)))
  BY <1>2, <1>5, <1>10
<1>11. c # "request_stop" => ~Has(t, "request_stop", Now(t))
  <2>1. ASSUME c # "request_stop", Do("request_stop", Now(t)) \in E PROVE FALSE
    <3>1. p < 1 + OfMonitor[Now(t)]
      BY <1>7, <1>10, <2>1
    <3>2. OfMonitor[Now(t)] \in {0, 3}
      BY <1>3
    <3>3. p = 2 + OfMonitor[Now(t)] \/ p = 3 + OfMonitor[Now(t)]
      BY <1>3, <2>1
    <3> QED
      BY <3>1, <3>2, <3>3
  <2> QED
    BY <1>4, <2>1
<1>12. c = "record_stop" => ~Has(t, "join", Now(t))
  <2>1. ASSUME c = "record_stop", Do("join", Now(t)) \in E PROVE FALSE
    <3>1. p < 2 + OfMonitor[Now(t)]
      BY <1>7, <1>10, <2>1
    <3>2. OfMonitor[Now(t)] \in {0, 3}
      BY <1>3
    <3>3. p = 3 + OfMonitor[Now(t)]
      BY <1>3, <2>1
    <3> QED
      BY <3>1, <3>2, <3>3
  <2> QED
    BY <1>4, <2>1
<1>13. Has(t, c, Now(t))
  BY <1>1 DEF Has, h, E
<1> QED
  BY <1>8, <1>9, <1>11, <1>12, <1>13 DEF AtJoin, AtRecord


LEMMA RequestStopMonitors ==
  ASSUME Inv, LoopInv', NEW t \in Threads, RequestStop(t)
  PROVE  MonitorInv'
<1> DEFINE m == Now(t)
           r == [loc[t] EXCEPT !.id = mon[m].id]
           C == Elems(todo[t]) \ {Do("request_stop", m)}
<1>1. /\ At(t, "request_stop") /\ mon' = [mon EXCEPT ![m].stop = TRUE]
      /\ loc' = [loc EXCEPT ![t] = r] /\ Proceed(t)
      /\ UNCHANGED <<ctrl, timers, notes, win, display, count>>
  BY DEF RequestStop
<1>2. /\ LoopInv /\ KnownOK /\ ActiveOK /\ StopsOK /\ FlowOK /\ CloseOK /\ ProgramOK
      /\ count["timeouts"] \in Nat /\ "api" \in Threads /\ Monitors \subseteq Threads
      /\ "api" \notin Monitors
  BY InvFacts
<1>3. /\ m \in Monitors /\ Do("request_stop", m) \in Elems(todo[t]) /\ todo[t] # <<>>
  BY <1>1, <1>2, AtCall DEF Called
<1>4. Goes(t, C)
  BY <1>1, <1>2, ProceedCalls
<1>5. /\ loc'[t].gen = loc[t].gen /\ loc'[t].ok = loc[t].ok /\ loc'[t].id = mon[m].id
      /\ \A u \in Threads \ {t} : loc'[u] = loc[u]
  <2>1. loc'[t] = r /\ \A u \in Threads \ {t} : loc'[u] = loc[u]
    BY <1>1, <1>2, OneLocal
  <2>2. loc[t] \in LocRec(gen)
    BY <1>2, LocOf
  <2> QED
    BY <2>1, <2>2 DEF LocRec
<1>6. /\ mon'[m].stop /\ mon'[m].alive = mon[m].alive /\ mon'[m].gen = mon[m].gen
      /\ mon'[m].id = mon[m].id /\ \A n \in Monitors \ {m} : mon'[n] = mon[n]
  <2>1. mon \in MonType
    BY <1>2, Facts
  <2> QED
    BY <1>1, <1>3, <2>1 DEF MonType
<1>7. /\ \A n \in Monitors : n # m => ~AtJoin(t, n) /\ ~AtRecord(t, n)
      /\ t = "api" => \A n \in Monitors : ~Spawned(n)
  BY <1>1, <1>2, <1>3, OneStop
<1>8. Stopping(t, m)
  BY <1>3 DEF Stopping, Has
<1>9. /\ \A u \in Threads : \A c, o : c # "request_stop" => (Has(u, c, o)' <=> Has(u, c, o))
      /\ \A u \in Threads : \A n : Has(u, "request_stop", n)' => Has(u, "request_stop", n)
      /\ \A u \in Threads : \A n : n # m => (Has(u, "request_stop", n)' <=> Has(u, "request_stop", n))
      /\ \A u \in Threads \ {t} : todo'[u] = todo[u] /\ \A c, o : Has(u, c, o)' <=> Has(u, c, o)
  <2>1. \A c, o : (c # "request_stop" \/ o # m) => (Do(c, o) \in C <=> Has(t, c, o))
    BY DoFields DEF Has
  <2>2. \A n : Do("request_stop", n) \in C => Has(t, "request_stop", n)
    BY DEF Has
  <2> HIDE DEF C
  <2>3. /\ \A u \in Threads \ {t} : todo'[u] = todo[u] /\ \A c, o : Has(u, c, o)' <=> Has(u, c, o)
        /\ \A c, o : Has(t, c, o)' <=> Do(c, o) \in C
    BY <1>4, OthersSame
  <2> QED
    BY <2>1, <2>2, <2>3
<1>10. /\ Elems(todo'["api"]) \subseteq Elems(todo["api"])
       /\ todo'["api"] # <<>> => todo["api"] # <<>>
  <2>1. C \subseteq Elems(todo[t])
    OBVIOUS
  <2> HIDE DEF C
  <2> QED
    BY <1>2, <1>3, <1>4, <2>1 DEF Goes
<1> HIDE DEF r, C, m
<1>11. UNCHANGED <<gen, state, closed, active, pending, win, count>>
  BY <1>1 DEF ctrl
<1>12. ASSUME NEW n \in Monitors
       PROVE  /\ InArm(n)' <=> InArm(n)
              /\ Spawned(n)' <=> Spawned(n)
              /\ GivenUp(n) => GivenUp(n)'
              /\ mon'[n].alive = mon[n].alive /\ mon'[n].gen = mon[n].gen /\ mon'[n].id = mon[n].id
              /\ mon[n].stop => mon'[n].stop
              /\ \A u \in Threads : Stopping(u, n)' => Stopping(u, n)
              /\ \A u \in Threads : AtRecord(u, n)' <=> AtRecord(u, n)
  <2>1. /\ mon'[n].alive = mon[n].alive /\ mon'[n].gen = mon[n].gen /\ mon'[n].id = mon[n].id
        /\ mon[n].stop => mon'[n].stop
    BY <1>6
  <2> QED
    BY <1>2, <1>9, <1>11, <2>1 DEF InArm, Spawned, GivenUp, Stopping, AtRecord
<1>13. KnownOK'
  BY <1>2, <1>9, <1>11, <1>12 DEF KnownOK
<1>14. ActiveOK'
  <2>1. CASE t # "api"
    <3>1. \A n \in Monitors : ~active[n]
      BY <1>2, <1>3, <1>8, <2>1 DEF ActiveOK
    <3> QED
      BY <1>11, <3>1 DEF ActiveOK
  <2>2. CASE t = "api"
    <3>1. ~active[m]
      BY <1>2, <1>3, <2>2 DEF ActiveOK, Has
    <3>2. loc'["api"].gen = loc["api"].gen
      BY <1>5, <2>2
    <3> QED
      BY <1>2, <1>6, <1>9, <1>11, <1>12, <3>1, <3>2 DEF ActiveOK
  <2> QED
    BY <2>1, <2>2
<1>15. StopsOK'
  <2>1. todo'["api"] # <<>> /\ loc'["api"].gen = gen' =>
            \A u \in Threads \ {"api"}, n \in Monitors : ~Stopping(u, n)'
    <3>1. loc'["api"].gen = loc["api"].gen
      BY <1>2, <1>5
    <3> QED
      BY <1>2, <1>10, <1>11, <1>12, <3>1 DEF StopsOK
  <2>2. ASSUME NEW u \in Threads, NEW n \in Monitors, AtRecord(u, n)', loc'[u].ok, mon'[n].alive
        PROVE  /\ u # "api" /\ ~Has("api", "check", "flow")'
               /\ (InArm(n) \/ GivenUp(n))'
    <3>1. AtRecord(u, n) /\ loc[u].ok /\ mon[n].alive
      BY <1>5, <1>12, <2>2
    <3>2. u # "api" /\ ~Has("api", "check", "flow") /\ (InArm(n) \/ GivenUp(n))
      BY <1>2, <3>1 DEF StopsOK
    <3> QED
      BY <1>2, <1>9, <1>12, <3>2
  <2>3. ASSUME NEW n \in Monitors
        PROVE  /\ AtJoin("api", n)' => loc'["api"].id = mon'[n].id
               /\ Has("api", "record_stop", n)' /\ ~Has("api", "request_stop", n)' => mon'[n].stop
               /\ AtRecord("api", n)' /\ ~loc'["api"].ok => count'["timeouts"] > 0
    <3>1. /\ AtJoin("api", n) => loc["api"].id = mon[n].id
          /\ Has("api", "record_stop", n) /\ ~Has("api", "request_stop", n) => mon[n].stop
          /\ AtRecord("api", n) /\ ~loc["api"].ok => count["timeouts"] > 0
      BY <1>2 DEF StopsOK
    <3>2. AtJoin("api", n)' => loc'["api"].id = mon'[n].id
      <4>1. CASE t # "api"
        <5>1. AtJoin("api", n)' => AtJoin("api", n)
          BY <1>2, <1>9, <4>1 DEF AtJoin
        <5> QED
          BY <1>2, <1>5, <1>12, <3>1, <4>1, <5>1
      <4>2. CASE t = "api" /\ n # m
        <5>1. AtJoin("api", n)' => AtJoin("api", n)
          BY <1>2, <1>9, <4>2 DEF AtJoin
        <5> QED
          BY <1>7, <4>2, <5>1
      <4>3. CASE t = "api" /\ n = m
        BY <1>5, <1>6, <4>3
      <4> QED
        BY <4>1, <4>2, <4>3
    <3>3. Has("api", "record_stop", n)' /\ ~Has("api", "request_stop", n)' => mon'[n].stop
      BY <1>2, <1>6, <1>9, <3>1
    <3>4. AtRecord("api", n)' /\ ~loc'["api"].ok => count'["timeouts"] > 0
      BY <1>2, <1>5, <1>11, <1>12, <3>1
    <3> QED
      BY <3>2, <3>3, <3>4
  <2> QED
    BY <2>1, <2>2, <2>3 DEF StopsOK
<1>16. FlowOK'
  <2>1. ASSUME gen' = loc'["api"].gen, NEW n \in Monitors
        PROVE  /\ Spawned(n)' => mon'[n].alive /\ ~mon'[n].stop /\ mon'[n].gen = gen'
               /\ Has("api", "countdown", "initial")' /\ ~Has("api", "record_start", n)' => active'[n]
    <3>1. gen = loc["api"].gen
      BY <1>2, <1>5, <1>11, <2>1
    <3>2. ~Spawned(n)
      <4>1. CASE t = "api"
        BY <1>7, <4>1
      <4>2. CASE t # "api"
        <5>1. Spawned(n) => todo["api"] # <<>>
          BY NoCalls DEF Spawned, Has
        <5> QED
          BY <1>2, <1>3, <1>8, <3>1, <4>2, <5>1 DEF StopsOK
      <4> QED
        BY <4>1, <4>2
    <3> QED
      BY <1>2, <1>9, <1>11, <1>12, <3>1, <3>2 DEF FlowOK
  <2> QED
    BY <1>2, <1>11, <2>1 DEF FlowOK
<1>17. CloseOK'
  <2>1. \A n \in Monitors : todo'[n] # <<>> => mon'[n].alive
    <3>1. \A n \in Monitors : todo'[n] # <<>> => todo[n] # <<>>
      BY <1>2, <1>3, <1>9
    <3> QED
      BY <1>2, <1>12, <3>1 DEF CloseOK
  <2> QED
    BY <1>2, <1>9, <1>10, <1>11, <1>12, <2>1 DEF CloseOK
<1> QED
  BY <1>13, <1>14, <1>15, <1>16, <1>17 DEF MonitorInv


\* A thread that waits for a monitor: the event loop's waits for the very thread it has
\* asked to stop, so that it sees it gone or gives up.
LEMMA ApiJoins ==
  ASSUME Inv, NEW m \in Monitors, m = Now("api"), At("api", "join"),
         NEW C, C = Elems(todo["api"]) \ {Do("join", m)}, Goes("api", C),
         UNCHANGED <<ctrl, timers, mon, notes, display, win>>,
         loc'["api"].gen = loc["api"].gen, loc'["api"].id = loc["api"].id,
         loc'["api"].ok = ~mon[m].alive, \A u \in Threads \ {"api"} : loc'[u] = loc[u],
         count'["timeouts"] \in {count["timeouts"], count["timeouts"] + 1},
         MayReturn("api") \/ count'["timeouts"] > 0
  PROVE  MonitorInv'
<1>1. /\ LoopInv /\ KnownOK /\ ActiveOK /\ StopsOK /\ FlowOK /\ CloseOK /\ ProgramOK
      /\ count["timeouts"] \in Nat /\ "api" \in Threads /\ Monitors \subseteq Threads
      /\ "api" \notin Monitors /\ "window" \notin Monitors
  BY InvFacts
<1>2. /\ AtJoin("api", m) /\ \A n \in Monitors : n # m => ~AtJoin("api", n) /\ ~AtRecord("api", n)
  BY <1>1, OneStop
<1>3. mon[m].alive => count'["timeouts"] > 0
  <2>1. loc["api"].id = mon[m].id
    BY <1>1, <1>2 DEF StopsOK
  <2>2. mon[m].alive => ~MayReturn("api")
    BY <1>1, <2>1 DEF MayReturn, Gone
  <2> QED
    BY <2>2
<1>4. /\ \A u \in Threads : \A c, o : c # "join" => (Has(u, c, o)' <=> Has(u, c, o))
      /\ \A u \in Threads : \A n : Has(u, "join", n)' => Has(u, "join", n)
      /\ \A u \in Threads : \A n : n # m => (Has(u, "join", n)' <=> Has(u, "join", n))
      /\ ~Has("api", "join", m)'
      /\ \A u \in Threads \ {"api"} : todo'[u] = todo[u] /\ \A c, o : Has(u, c, o)' <=> Has(u, c, o)
  <2>1. /\ \A c, o : (c # "join" \/ o # m) => (Do(c, o) \in C <=> Has("api", c, o))
        /\ \A n : Do("join", n) \in C => Has("api", "join", n)
        /\ Do("join", m) \notin C
    BY DoFields DEF Has
  <2>2. /\ \A u \in Threads \ {"api"} : todo'[u] = todo[u] /\ \A c, o : Has(u, c, o)' <=> Has(u, c, o)
        /\ \A c, o : Has("api", c, o)' <=> Do(c, o) \in C
    BY <1>1, OthersSame
  <2> QED
    BY <2>1, <2>2
<1>5. Elems(todo'["api"]) \subseteq Elems(todo["api"]) /\ todo["api"] # <<>>
  BY <1>1, AtCall DEF Goes, Called
<1>6. UNCHANGED <<gen, state, closed, active, pending, win, mon>>
  BY DEF ctrl
<1>7. ASSUME NEW n \in Monitors
      PROVE  /\ InArm(n)' <=> InArm(n)
             /\ Spawned(n)' <=> Spawned(n)
             /\ GivenUp(n) => GivenUp(n)'
             /\ \A u \in Threads : Stopping(u, n)' => Stopping(u, n)
             /\ \A u \in Threads \ {"api"} : AtRecord(u, n)' <=> AtRecord(u, n)
             /\ n # m => ~AtRecord("api", n)'
             /\ ~AtJoin("api", n)'
  <2>1. /\ InArm(n)' <=> InArm(n)
        /\ Spawned(n)' <=> Spawned(n)
        /\ GivenUp(n) => GivenUp(n)'
    BY <1>1, <1>4, <1>6 DEF InArm, Spawned, GivenUp
  <2>2. /\ \A u \in Threads : Stopping(u, n)' => Stopping(u, n)
        /\ \A u \in Threads \ {"api"} : AtRecord(u, n)' <=> AtRecord(u, n)
    BY <1>4 DEF Stopping, AtRecord
  <2>3. n # m => ~AtRecord("api", n)' /\ ~AtJoin("api", n)'
    BY <1>1, <1>2, <1>4 DEF AtJoin, AtRecord
  <2>4. ~AtJoin("api", m)'
    BY <1>4 DEF AtJoin
  <2> QED
    BY <2>1, <2>2, <2>3, <2>4
<1>8. KnownOK'
  BY <1>1, <1>4, <1>6, <1>7 DEF KnownOK
<1>9. ActiveOK'
  BY <1>1, <1>4, <1>6, <1>7 DEF ActiveOK
<1>10. StopsOK'
  <2>1. todo'["api"] # <<>> /\ loc'["api"].gen = gen' =>
            \A u \in Threads \ {"api"}, n \in Monitors : ~Stopping(u, n)'
    BY <1>1, <1>5, <1>6, <1>7 DEF StopsOK
  <2>2. ASSUME NEW u \in Threads, NEW n \in Monitors, AtRecord(u, n)', loc'[u].ok, mon'[n].alive
        PROVE  /\ u # "api" /\ ~Has("api", "check", "flow")'
               /\ (InArm(n) \/ GivenUp(n))'
    <3>1. u # "api"
      BY <1>6, <1>7, <2>2
    <3>2. AtRecord(u, n) /\ loc[u].ok /\ mon[n].alive
      BY <1>6, <1>7, <2>2, <3>1
    <3>3. ~Has("api", "check", "flow") /\ (InArm(n) \/ GivenUp(n))
      BY <1>1, <3>2 DEF StopsOK
    <3> QED
      BY <1>1, <1>4, <1>7, <3>1, <3>3
  <2>3. ASSUME NEW n \in Monitors
        PROVE  /\ AtJoin("api", n)' => loc'["api"].id = mon'[n].id
               /\ Has("api", "record_stop", n)' /\ ~Has("api", "request_stop", n)' => mon'[n].stop
               /\ AtRecord("api", n)' /\ ~loc'["api"].ok => count'["timeouts"] > 0
    <3>1. Has("api", "record_stop", n)' /\ ~Has("api", "request_stop", n)' => mon'[n].stop
      BY <1>1, <1>4, <1>6 DEF StopsOK
    <3>2. AtRecord("api", n)' /\ ~loc'["api"].ok => count'["timeouts"] > 0
      BY <1>3, <1>7
    <3> QED
      BY <1>7, <3>1, <3>2
  <2> QED
    BY <2>1, <2>2, <2>3 DEF StopsOK
<1>11. FlowOK'
  BY <1>1, <1>4, <1>6, <1>7 DEF FlowOK
<1>12. CloseOK'
  <2>1. \A n \in Monitors : todo'[n] # <<>> => mon'[n].alive
    BY <1>1, <1>4, <1>6 DEF CloseOK
  <2>2. closed' =>
          /\ \A d \in Elems(todo'["api"]) :
                d.call \in {"hide", "request_stop", "join", "record_stop", "close"}
          /\ \A n \in Monitors : Has("api", "join", n)' => Has("api", "close", "window")'
    BY <1>1, <1>4, <1>5, <1>6 DEF CloseOK
  <2>3. closed' /\ count'["timeouts"] = 0 =>
          /\ \A n \in Monitors : mon'[n].alive => Has("api", "join", n)'
          /\ win'.up /\ ~win'.doomed => Has("api", "close", "window")'
    BY <1>1, <1>3, <1>4, <1>6 DEF CloseOK
  <2> QED
    BY <2>1, <2>2, <2>3 DEF CloseOK
<1> QED
  BY <1>8, <1>9, <1>10, <1>11, <1>12 DEF MonitorInv

LEMMA JoinMonitors ==
  ASSUME Inv, LoopInv', NEW t \in Threads, Join(t)
  PROVE  MonitorInv'
<1> DEFINE m == Now(t)
           k == IF m = "window" THEN TRUE ELSE ~mon[m].alive
           r == [loc[t] EXCEPT !.ok = k]
           C == Elems(todo[t]) \ {Do("join", m)}
<1>1. /\ At(t, "join") /\ loc' = [loc EXCEPT ![t] = r] /\ Proceed(t)
      /\ UNCHANGED <<ctrl, timers, mon, notes, display, win>>
      /\ \/ MayReturn(t) /\ UNCHANGED count
         \/ ~MayReturn(t) /\ CountUp("timeouts")
  BY DEF Join
<1>2. /\ LoopInv /\ ActiveOK /\ FlowOK /\ StopsOK /\ CloseOK /\ ProgramOK
      /\ count["timeouts"] \in Nat /\ "api" \in Threads /\ Monitors \subseteq Threads
      /\ "api" \notin Monitors /\ "window" \notin Monitors
  BY InvFacts
<1>3. /\ m \in Monitors \/ (m = "window" /\ t = "api")
      /\ Do("join", m) \in Elems(todo[t]) /\ todo[t] # <<>> /\ Head(todo[t]) = Do("join", m)
  BY <1>1, <1>2, AtCall DEF Called
<1>4. Goes(t, C)
  BY <1>1, <1>2, ProceedCalls
<1>5. /\ loc'[t].gen = loc[t].gen /\ loc'[t].id = loc[t].id /\ loc'[t].ok = k
      /\ \A u \in Threads \ {t} : loc'[u] = loc[u]
  <2>1. loc'[t] = r /\ \A u \in Threads \ {t} : loc'[u] = loc[u]
    BY <1>1, <1>2, OneLocal
  <2>2. loc[t] \in LocRec(gen)
    BY <1>2, LocOf
  <2> HIDE DEF k
  <2> QED
    BY <2>1, <2>2 DEF LocRec
<1>6. /\ count'["timeouts"] \in {count["timeouts"], count["timeouts"] + 1}
      /\ MayReturn(t) \/ count'["timeouts"] > 0
  <2>1. count \in CountType
    BY <1>2, Facts
  <2>2. CASE UNCHANGED count /\ MayReturn(t)
    BY <2>2
  <2>3. CASE CountUp("timeouts")
    <3>1. count'["timeouts"] = count["timeouts"] + 1
      BY <2>1, <2>3 DEF CountUp, CountType
    <3> QED
      BY <1>2, <3>1
  <2> QED
    BY <1>1, <2>2, <2>3
<1>7. /\ C \subseteq Elems(todo[t])
      /\ \A c, o : (c # "join" \/ o # m) => (Do(c, o) \in C <=> Has(t, c, o))
  BY DoFields DEF Has
<1>8. CASE t # "api"
  <2>1. m \in Monitors /\ loc'[t].ok = ~mon[m].alive
    BY <1>2, <1>3, <1>5, <1>8
  <2>2. \A n \in Monitors : n # m => ~AtRecord(t, n)
    BY <1>1, <1>2, <2>1, OneStop
  <2>3. t \in Monitors => mon[t].alive
    BY <1>2, <1>3 DEF CloseOK
  <2>4. ASSUME NEW n \in Monitors, Do("record_stop", n) \in C, Do("join", n) \notin C,
               loc'[t].ok, mon[n].alive
        PROVE  FALSE
    <3>1. n # m
      BY <2>1, <2>4
    <3>2. AtRecord(t, n)
      BY <1>7, <2>4, <3>1 DEF AtRecord
    <3> QED
      BY <2>2, <3>1, <3>2
  <2>5. \A n \in Monitors : \A d \in Stops(n) : d \in C => d \in Elems(todo[t])
    BY <1>7
  <2>6. UNCHANGED <<gen, closed, active, pending, mon, state, win>>
    BY <1>1 DEF ctrl
  <2> HIDE DEF C, m, r, k
  <2> QED
    BY <1>4, <1>5, <1>6, <1>8, <2>3, <2>4, <2>5, <2>6, OtherMoves
<1>9. CASE t = "api" /\ m \in Monitors
  <2>1. loc'["api"].ok = ~mon[m].alive
    BY <1>2, <1>5, <1>9
  <2>2. C = Elems(todo["api"]) \ {Do("join", m)} /\ m = Now("api") /\ At("api", "join")
    BY <1>1, <1>9
  <2> HIDE DEF C, m, r, k
  <2> QED
    BY <1>1, <1>4, <1>5, <1>6, <1>9, <2>1, <2>2, ApiJoins
<1>10. CASE t = "api" /\ m = "window"
  <2>1. ASSUME NEW n \in Monitors, NEW d \in Stops(n) PROVE d \notin Elems(todo["api"])
    <3>1. Position(Head(todo["api"])) = 17
      BY <1>3, <1>10, Places
    <3>2. d # Head(todo["api"])
      BY <1>2, <1>3, <1>10, <2>1, DoFields DEF Stops
    <3>3. Position(d) < 17
      BY <2>1, Places DEF Stops
    <3>4. d \in Elems(todo["api"]) => 17 < Position(d) /\ Position(d) \in Nat
      BY <1>2, <1>3, <1>10, <3>1, <3>2, NextCall
    <3> QED
      BY <3>3, <3>4
  <2>2. \A n \in Monitors : ~Stopping("api", n)
    BY <2>1 DEF Stopping, Stops, Has
  <2>3. \A n \in Monitors : \A d \in Stops(n) \cup Starts(n) \cup {Do("check", "flow")} :
            d \in C <=> d \in Elems(todo["api"])
    BY <1>2, <1>7, <1>10 DEF Stops, Starts, Has
  <2>4. /\ Do("countdown", "initial") \in C <=> Has("api", "countdown", "initial")
        /\ Do("deactivate", "flow") \in C <=> Has("api", "deactivate", "flow")
        /\ Do("close", "window") \in C <=> Do("close", "window") \in Elems(todo["api"])
    BY <1>7, <1>10 DEF Has
  <2>5. UNCHANGED <<gen, closed, active, pending, mon, state, win>>
    BY <1>1 DEF ctrl
  <2>6. \A n \in Monitors : active[n] /\ state' = "idle" =>
            gen = loc'["api"].gen
            /\ (Do("countdown", "initial") \in C \/ Do("deactivate", "flow") \in C)
    BY <1>2, <1>5, <1>10, <2>4, <2>5 DEF ActiveOK
  <2>7. state' # "idle" => ~closed /\ \A n \in Monitors : active[n]
    BY <1>2, <2>5 DEF FlowOK
  <2> HIDE DEF C, m, r, k
  <2> QED
    BY <1>3, <1>4, <1>5, <1>6, <1>7, <1>10, <2>2, <2>3, <2>4, <2>5, <2>6, <2>7, KeepsAll, ApiMoves
<1> QED
  BY <1>3, <1>8, <1>9, <1>10


\* What a thread records of a monitor that it has stopped.
Records(t, m) ==
    /\ At(t, "record_stop") /\ m = Now(t) /\ m \in Monitors
    /\ UNCHANGED <<gen, state, closed, active, mon, win, count>>
    /\ pending' = [pending EXCEPT ![m] = ~loc[t].ok]
    /\ \A u \in Threads \ {t} : loc'[u] = loc[u]

LEMMA OtherRecords ==
  ASSUME Inv, LoopInv', NEW t \in Threads, t # "api", NEW m \in Monitors, Records(t, m),
         NEW C, C = Elems(todo[t]) \ {Do("record_stop", m)}, Goes(t, C)
  PROVE  MonitorInv'
<1>1. /\ LoopInv /\ KnownOK /\ ActiveOK /\ StopsOK /\ FlowOK /\ CloseOK /\ ProgramOK
      /\ count["timeouts"] \in Nat /\ "api" \in Threads /\ Monitors \subseteq Threads
      /\ "api" \notin Monitors
  BY InvFacts
<1>2. /\ At(t, "record_stop") /\ m = Now(t)
      /\ UNCHANGED <<gen, state, closed, active, mon, win, count>>
      /\ \A u \in Threads \ {t} : loc'[u] = loc[u]
  BY DEF Records
<1>3. AtRecord(t, m) /\ \A n \in Monitors : n # m => ~AtRecord(t, n)
  BY <1>1, <1>2, OneStop
<1>4. todo[t] # <<>> /\ Stopping(t, m)
  BY <1>2, <1>3 DEF At, AtRecord, Stopping
<1>5. /\ pending'[m] = ~loc[t].ok /\ \A n \in Monitors : n # m => pending'[n] = pending[n]
  <2>1. pending \in FlagType
    BY <1>1, Facts
  <2> QED
    BY <2>1 DEF Records, FlagType
<1>6. /\ todo'["api"] = todo["api"] /\ loc'["api"] = loc["api"]
      /\ \A c, o : Has("api", c, o)' <=> Has("api", c, o)
  BY <1>1, <1>2, ApiSame
<1>7. /\ \A u \in Threads \ {t} : todo'[u] = todo[u] /\ \A c, o : Has(u, c, o)' <=> Has(u, c, o)
      /\ \A c, o : Has(t, c, o)' <=> Do(c, o) \in C
  BY OthersSame
<1>8. /\ \A c, o : c # "record_stop" \/ o # m => (Do(c, o) \in C <=> Has(t, c, o))
      /\ Do("record_stop", m) \notin C
      /\ \A c, o : Do(c, o) \in C => Has(t, c, o)
  BY DoFields DEF Has
<1>9. \A n \in Monitors : /\ InArm(n)' <=> InArm(n)
                          /\ Spawned(n)' <=> Spawned(n)
                          /\ GivenUp(n)' <=> GivenUp(n)
                          /\ \A u \in Threads : Stopping(u, n)' => Stopping(u, n)
                          /\ AtJoin("api", n)' <=> AtJoin("api", n)
                          /\ \A u \in Threads \ {t} : AtRecord(u, n)' <=> AtRecord(u, n)
                          /\ ~AtRecord(t, n)'
  <2>1. ASSUME NEW n \in Monitors PROVE ~AtRecord(t, n)'
    <3>1. CASE n = m
      BY <1>7, <1>8, <3>1 DEF AtRecord
    <3>2. CASE n # m
      BY <1>3, <1>7, <1>8, <3>2 DEF AtRecord
    <3> QED
      BY <3>1, <3>2
  <2>2. ASSUME NEW n \in Monitors, NEW u \in Threads PROVE Stopping(u, n)' => Stopping(u, n)
    BY <1>7, <1>8 DEF Stopping
  <2>3. ASSUME NEW n \in Monitors, NEW u \in Threads \ {t} PROVE AtRecord(u, n)' <=> AtRecord(u, n)
    BY <1>7 DEF AtRecord
  <2> QED
    BY <1>2, <1>6, <2>1, <2>2, <2>3 DEF InArm, Spawned, GivenUp, AtJoin
<1>10. KnownOK'
  <2>1. ASSUME NEW n \in Monitors, mon'[n].alive
        PROVE  /\ active'[n] \/ pending'[n] \/ InArm(n)' \/ GivenUp(n)'
               /\ Has("api", "check", "flow")' => pending'[n] \/ GivenUp(n)'
    <3>1. CASE n # m
      BY <1>1, <1>2, <1>5, <1>6, <1>9, <2>1, <3>1 DEF KnownOK
    <3>2. CASE n = m /\ ~loc[t].ok
      BY <1>5, <3>2
    <3>3. CASE n = m /\ loc[t].ok
      <4>1. ~Has("api", "check", "flow") /\ (InArm(m) \/ GivenUp(m))
        BY <1>1, <1>2, <1>3, <2>1, <3>3 DEF StopsOK
      <4> QED
        BY <1>6, <1>9, <3>3, <4>1
    <3> QED
      BY <3>1, <3>2, <3>3
  <2> QED
    BY <2>1 DEF KnownOK
<1>11. ActiveOK'
  <2>1. \A n \in Monitors : ~active[n]
    BY <1>1, <1>4 DEF ActiveOK
  <2> QED
    BY <1>2, <2>1 DEF ActiveOK
<1>12. StopsOK'
  <2>1. todo'["api"] # <<>> /\ loc'["api"].gen = gen' =>
            \A u \in Threads \ {"api"}, n \in Monitors : ~Stopping(u, n)'
    BY <1>1, <1>2, <1>6, <1>9 DEF StopsOK
  <2>2. ASSUME NEW u \in Threads, NEW n \in Monitors, AtRecord(u, n)', loc'[u].ok, mon'[n].alive
        PROVE  /\ u # "api" /\ ~Has("api", "check", "flow")'
               /\ (InArm(n) \/ GivenUp(n))'
    <3>1. AtRecord(u, n) /\ loc[u].ok /\ mon[n].alive
      BY <1>2, <1>9, <2>2
    <3>2. u # "api" /\ ~Has("api", "check", "flow") /\ (InArm(n) \/ GivenUp(n))
      BY <1>1, <3>1 DEF StopsOK
    <3> QED
      BY <1>6, <1>9, <3>2
  <2>3. ASSUME NEW n \in Monitors
        PROVE  /\ AtJoin("api", n)' => loc'["api"].id = mon'[n].id
               /\ Has("api", "record_stop", n)' /\ ~Has("api", "request_stop", n)' => mon'[n].stop
               /\ AtRecord("api", n)' /\ ~loc'["api"].ok => count'["timeouts"] > 0
    <3>1. /\ AtJoin("api", n) => loc["api"].id = mon[n].id
          /\ Has("api", "record_stop", n) /\ ~Has("api", "request_stop", n) => mon[n].stop
          /\ AtRecord("api", n) /\ ~loc["api"].ok => count["timeouts"] > 0
      BY <1>1 DEF StopsOK
    <3>2. AtRecord("api", n)' <=> AtRecord("api", n)
      BY <1>1, <1>9
    <3> QED
      BY <1>2, <1>6, <1>9, <3>1, <3>2
  <2> QED
    BY <2>1, <2>2, <2>3 DEF StopsOK
<1>13. FlowOK'
  BY <1>1, <1>2, <1>6, <1>9 DEF FlowOK
<1>14. CloseOK'
  <2>1. \A n \in Monitors : todo'[n] # <<>> => mon'[n].alive
    <3>1. \A n \in Monitors : todo'[n] # <<>> => todo[n] # <<>>
      BY <1>1, <1>4, <1>7
    <3> QED
      BY <1>1, <1>2, <3>1 DEF CloseOK
  <2> QED
    BY <1>1, <1>2, <1>6, <2>1 DEF CloseOK
<1> QED
  BY <1>10, <1>11, <1>12, <1>13, <1>14 DEF MonitorInv

LEMMA ApiRecords ==
  ASSUME Inv, LoopInv', NEW m \in Monitors, Records("api", m),
         NEW C, C = Elems(todo["api"]) \ {Do("record_stop", m)}, Goes("api", C),
         loc'["api"].gen = loc["api"].gen, loc'["api"].ok = FALSE
  PROVE  MonitorInv'
<1>1. /\ LoopInv /\ KnownOK /\ ActiveOK /\ StopsOK /\ FlowOK /\ CloseOK /\ ProgramOK
      /\ count["timeouts"] \in Nat /\ "api" \in Threads /\ Monitors \subseteq Threads
      /\ "api" \notin Monitors
  BY InvFacts
<1>2. /\ At("api", "record_stop") /\ m = Now("api")
      /\ UNCHANGED <<gen, state, closed, active, mon, win, count>>
      /\ \A u \in Threads \ {"api"} : loc'[u] = loc[u]
  BY DEF Records
<1>3. /\ AtRecord("api", m) /\ ~Has("api", "request_stop", m) /\ ~Has("api", "join", m)
      /\ \A n \in Monitors : n # m => ~AtRecord("api", n) /\ ~AtJoin("api", n)
      /\ \A n \in Monitors : ~Spawned(n)
  BY <1>1, <1>2, OneStop
<1>4. todo["api"] # <<>>
  BY <1>2 DEF At
<1>5. /\ pending'[m] = ~loc["api"].ok /\ \A n \in Monitors : n # m => pending'[n] = pending[n]
  <2>1. pending \in FlagType
    BY <1>1, Facts
  <2> QED
    BY <2>1 DEF Records, FlagType
<1>6. /\ \A u \in Threads \ {"api"} : todo'[u] = todo[u] /\ \A c, o : Has(u, c, o)' <=> Has(u, c, o)
      /\ \A c, o : Has("api", c, o)' <=> Do(c, o) \in C
  BY <1>1, OthersSame
<1>7. /\ \A c, o : c # "record_stop" \/ o # m => (Has("api", c, o)' <=> Has("api", c, o))
      /\ ~Has("api", "record_stop", m)'
  <2>1. /\ \A c, o : c # "record_stop" \/ o # m => (Do(c, o) \in C <=> Has("api", c, o))
        /\ Do("record_stop", m) \notin C
    BY DoFields DEF Has
  <2> QED
    BY <1>6, <2>1
<1>8. Elems(todo'["api"]) \subseteq Elems(todo["api"])
  BY <1>1 DEF Goes
<1>9. \A n \in Monitors : /\ n # m => (InArm(n)' <=> InArm(n))
                          /\ ~Spawned(n)'
                          /\ GivenUp(n)' <=> GivenUp(n)
                          /\ \A u \in Threads \ {"api"} : Stopping(u, n)' <=> Stopping(u, n)
                          /\ \A u \in Threads \ {"api"} : AtRecord(u, n)' <=> AtRecord(u, n)
                          /\ ~AtRecord("api", n)' /\ ~AtJoin("api", n)'
  <2>1. ASSUME NEW n \in Monitors PROVE ~AtRecord("api", n)' /\ ~AtJoin("api", n)'
    <3>1. CASE n = m
      BY <1>3, <1>7, <3>1 DEF AtRecord, AtJoin
    <3>2. CASE n # m
      BY <1>3, <1>7, <3>2 DEF AtRecord, AtJoin
    <3> QED
      BY <3>1, <3>2
  <2>2. ASSUME NEW n \in Monitors, NEW u \in Threads \ {"api"}
        PROVE  (Stopping(u, n)' <=> Stopping(u, n)) /\ (AtRecord(u, n)' <=> AtRecord(u, n))
    BY <1>6 DEF Stopping, AtRecord
  <2>3. ASSUME NEW n \in Monitors
        PROVE  ~Spawned(n)' /\ (n # m => (InArm(n)' <=> InArm(n))) /\ (GivenUp(n)' <=> GivenUp(n))
    BY <1>2, <1>3, <1>7 DEF InArm, Spawned, GivenUp
  <2> QED
    BY <2>1, <2>2, <2>3
<1>10. mon[m].alive => ~loc["api"].ok /\ GivenUp(m)
  <2>1. mon[m].alive => ~loc["api"].ok
    BY <1>1, <1>3 DEF StopsOK
  <2>2. ~loc["api"].ok => count["timeouts"] > 0
    BY <1>1, <1>3 DEF StopsOK
  <2>3. mon[m].stop
    BY <1>1, <1>3 DEF StopsOK, AtRecord
  <2> QED
    BY <2>1, <2>2, <2>3 DEF GivenUp
<1>11. KnownOK'
  <2>1. ASSUME NEW n \in Monitors, mon'[n].alive
        PROVE  /\ active'[n] \/ pending'[n] \/ InArm(n)' \/ GivenUp(n)'
               /\ Has("api", "check", "flow")' => pending'[n] \/ GivenUp(n)'
    <3>1. CASE n # m
      BY <1>1, <1>2, <1>5, <1>7, <1>9, <2>1, <3>1 DEF KnownOK
    <3>2. CASE n = m
      BY <1>2, <1>9, <1>10, <2>1, <3>2
    <3> QED
      BY <3>1, <3>2
  <2> QED
    BY <2>1 DEF KnownOK
<1>12. ActiveOK'
  <2>1. \A c, o : c # "record_stop" => (Has("api", c, o)' <=> Has("api", c, o))
    BY <1>7
  <2> QED
    BY <1>1, <1>2, <1>9, <2>1 DEF ActiveOK
<1>13. StopsOK'
  <2>1. todo'["api"] # <<>> /\ loc'["api"].gen = gen' =>
            \A u \in Threads \ {"api"}, n \in Monitors : ~Stopping(u, n)'
    BY <1>1, <1>2, <1>4, <1>9 DEF StopsOK
  <2>2. ASSUME NEW u \in Threads, NEW n \in Monitors, AtRecord(u, n)', loc'[u].ok, mon'[n].alive
        PROVE  /\ u # "api" /\ ~Has("api", "check", "flow")'
               /\ (InArm(n) \/ GivenUp(n))'
    <3>1. u # "api"
      BY <1>9, <2>2
    <3>2. AtRecord(u, n) /\ loc[u].ok /\ mon[n].alive
      BY <1>2, <1>9, <2>2, <3>1
    <3>3. ~Has("api", "check", "flow") /\ (InArm(n) \/ GivenUp(n))
      BY <1>1, <3>2 DEF StopsOK
    <3>4. ~Has("api", "check", "flow")'
      BY <1>7, <3>3
    <3>5. InArm(n)' \/ GivenUp(n)'
      BY <1>9, <1>10, <3>2, <3>3
    <3> QED
      BY <3>1, <3>4, <3>5
  <2>3. ASSUME NEW n \in Monitors
        PROVE  /\ AtJoin("api", n)' => loc'["api"].id = mon'[n].id
               /\ Has("api", "record_stop", n)' /\ ~Has("api", "request_stop", n)' => mon'[n].stop
               /\ AtRecord("api", n)' /\ ~loc'["api"].ok => count'["timeouts"] > 0
    <3>1. Has("api", "record_stop", n)' /\ ~Has("api", "request_stop", n)' => mon'[n].stop
      BY <1>1, <1>2, <1>7 DEF StopsOK
    <3> QED
      BY <1>9, <3>1
  <2> QED
    BY <2>1, <2>2, <2>3 DEF StopsOK
<1>14. FlowOK'
  <2>1. \A c, o : c # "record_stop" => (Has("api", c, o)' <=> Has("api", c, o))
    BY <1>7
  <2> QED
    BY <1>1, <1>2, <1>9, <2>1 DEF FlowOK
<1>15. CloseOK'
  <2>1. \A c, o : c # "record_stop" => (Has("api", c, o)' <=> Has("api", c, o))
    BY <1>7
  <2>2. \A n \in Monitors : todo'[n] = todo[n]
    BY <1>1, <1>6
  <2> QED
    BY <1>1, <1>2, <1>8, <2>1, <2>2 DEF CloseOK
<1> QED
  BY <1>11, <1>12, <1>13, <1>14, <1>15 DEF MonitorInv


\* arm() starts nothing: whatever monitor is left is remembered.
LEMMA ApiQuits ==
  ASSUME Inv, LoopInv', Has("api", "check", "flow"), NEW C, C = {}, Goes("api", C),
         UNCHANGED <<gen, state, closed, active, mon, win, count>>,
         \A n \in Monitors : pending[n] => pending'[n],
         \A u \in Threads \ {"api"} : loc'[u] = loc[u]
  PROVE  MonitorInv'
<1>1. /\ LoopInv /\ KnownOK /\ ActiveOK /\ StopsOK /\ FlowOK /\ CloseOK /\ ProgramOK
      /\ count["timeouts"] \in Nat /\ "api" \in Threads /\ Monitors \subseteq Threads
      /\ "api" \notin Monitors
  BY InvFacts
<1>2. ~closed
  <2>1. Do("check", "flow").call = "check"
    BY DoFields
  <2> QED
    BY <1>1, <2>1 DEF CloseOK, Has
<1>3. \A n \in Monitors : ~active[n]
  BY <1>1 DEF ActiveOK
<1>4. /\ \A u \in Threads \ {"api"} : todo'[u] = todo[u] /\ \A c, o : Has(u, c, o)' <=> Has(u, c, o)
      /\ \A c, o : ~Has("api", c, o)'
  <2>1. /\ \A u \in Threads \ {"api"} : todo'[u] = todo[u] /\ \A c, o : Has(u, c, o)' <=> Has(u, c, o)
        /\ \A c, o : Has("api", c, o)' <=> Do(c, o) \in C
    BY <1>1, OthersSame
  <2> QED
    BY <2>1
<1>5. todo'["api"] = <<>>
  <2>1. Program("api", todo'["api"]) /\ Elems(todo'["api"]) = {}
    BY <1>1 DEF Goes, LoopInv, ProgramOK
  <2> QED
    BY <1>1, <2>1, EmptyProgram
<1>6. KnownOK'
  <2>1. \A n \in Monitors : GivenUp(n) => GivenUp(n)'
    BY DEF GivenUp
  <2> QED
    BY <1>1, <1>4, <2>1 DEF KnownOK
<1>7. ActiveOK'
  BY <1>3 DEF ActiveOK
<1>8. StopsOK'
  <2>1. ASSUME NEW u \in Threads, NEW n \in Monitors, AtRecord(u, n)', loc'[u].ok, mon'[n].alive
        PROVE  FALSE
    <3>1. u # "api"
      BY <1>4, <2>1 DEF AtRecord
    <3>2. AtRecord(u, n) /\ loc[u].ok /\ mon[n].alive
      BY <1>4, <2>1, <3>1 DEF AtRecord
    <3> QED
      BY <1>1, <3>2 DEF StopsOK
  <2>2. \A n \in Monitors : ~AtJoin("api", n)' /\ ~AtRecord("api", n)' /\ ~Has("api", "record_stop", n)'
    BY <1>4 DEF AtJoin, AtRecord
  <2> QED
    BY <1>5, <2>1, <2>2 DEF StopsOK
<1>9. FlowOK'
  <2>1. \A n \in Monitors : ~Spawned(n)'
    BY <1>4 DEF Spawned
  <2> QED
    BY <1>1, <1>4, <2>1 DEF FlowOK
<1>10. CloseOK'
  BY <1>1, <1>2, <1>4 DEF CloseOK
<1> QED
  BY <1>6, <1>7, <1>8, <1>9, <1>10 DEF MonitorInv

LEMMA RecordStopMonitors ==
  ASSUME Inv, LoopInv', NEW t \in Threads, RecordStop(t)
  PROVE  MonitorInv'
<1> DEFINE m == Now(t)
           r == [loc[t] EXCEPT !.id = 0, !.ok = FALSE]
           C == Elems(todo[t]) \ {Do("record_stop", m)}
<1>1. /\ At(t, "record_stop") /\ UNCHANGED <<gen, timer, state, closed, active, env>>
      /\ pending' = [pending EXCEPT ![m] = ~loc[t].ok]
      /\ \/ ~loc[t].ok /\ (\E n \in DOMAIN todo[t] : todo[t][n].call = "check") /\ Return(t)
         \/ Proceed(t) /\ loc' = [loc EXCEPT ![t] = r]
  BY DEF RecordStop
<1>2. /\ LoopInv /\ ProgramOK /\ "api" \in Threads /\ loc[t] \in LocRec(gen)
  BY InvFacts, LocOf
<1>3. m \in Monitors /\ todo[t] # <<>>
  BY <1>1, <1>2, AtCall DEF Called
<1>4. \A u \in Threads \ {t} : loc'[u] = loc[u]
  BY <1>1, <1>2, OneLocal DEF Return
<1>5. Records(t, m)
  BY <1>1, <1>3, <1>4 DEF Records, env
<1>6. CASE Proceed(t) /\ loc' = [loc EXCEPT ![t] = r]
  <2>1. Goes(t, C)
    BY <1>1, <1>2, <1>6, ProceedCalls
  <2>2. loc'[t].gen = loc[t].gen /\ loc'[t].ok = FALSE
    <3>1. loc'[t] = r
      BY <1>2, <1>6, OneLocal
    <3> QED
      BY <1>2, <3>1 DEF LocRec
  <2>3. C = Elems(todo[t]) \ {Do("record_stop", m)}
    OBVIOUS
  <2> HIDE DEF C, m
  <2> QED
    BY <1>2, <1>3, <1>5, <2>1, <2>2, <2>3, ApiRecords, OtherRecords
<1>7. CASE ~loc[t].ok /\ (\E n \in DOMAIN todo[t] : todo[t][n].call = "check") /\ Return(t)
  <2> DEFINE D == {}
  <2>1. PICK d \in Elems(todo[t]) : d.call = "check"
    BY <1>7 DEF Elems
  <2>2. t = "api" /\ d = Do("check", "flow")
    BY <1>2, <1>3, <2>1, NextCall, Kinds
  <2>3. Has("api", "check", "flow")
    BY <2>1, <2>2 DEF Has
  <2>4. Goes(t, D)
    BY <1>2, <1>7, ReturnCalls DEF Return
  <2>5. \A n \in Monitors : pending[n] => pending'[n]
    <3>1. pending \in FlagType
      BY <1>2, Facts
    <3>2. pending' = [pending EXCEPT ![m] = TRUE]
      BY <1>1, <1>7
    <3> QED
      BY <1>3, <3>1, <3>2 DEF FlagType
  <2>6. D = {}
    OBVIOUS
  <2> HIDE DEF D
  <2> QED
    BY <1>1, <1>4, <2>2, <2>3, <2>4, <2>5, <2>6, ApiQuits DEF env
<1> QED
  BY <1>1, <1>6, <1>7

LEMMA MonitorExitsMonitors ==
  ASSUME Inv, LoopInv', NEW m \in Monitors, MonitorExits(m)
  PROVE  MonitorInv'
<1>1. /\ Idle(m) /\ mon[m].alive /\ mon[m].stop /\ mon' = [mon EXCEPT ![m].alive = FALSE]
      /\ UNCHANGED <<ctrl, timers, win, display, todo, loc, count>>
  BY DEF MonitorExits
<1>2. /\ LoopInv /\ KnownOK /\ ActiveOK /\ StopsOK /\ FlowOK /\ CloseOK
  BY InvFacts
<1>3. /\ ~mon'[m].alive /\ mon'[m].stop = mon[m].stop /\ mon'[m].gen = mon[m].gen
      /\ mon'[m].id = mon[m].id /\ \A n \in Monitors \ {m} : mon'[n] = mon[n]
  <2>1. mon \in MonType
    BY <1>2, Facts
  <2> QED
    BY <1>1, <2>1 DEF MonType
<1>4. \A n \in Monitors : /\ mon'[n].alive => mon[n].alive
                          /\ mon'[n].stop = mon[n].stop /\ mon'[n].gen = mon[n].gen
                          /\ mon'[n].id = mon[n].id
  BY <1>3
<1>5. UNCHANGED <<gen, state, closed, active, pending>>
  BY <1>1 DEF ctrl
<1>6. /\ \A u, c, o : Has(u, c, o)' <=> Has(u, c, o)
      /\ \A u, n : Stopping(u, n)' <=> Stopping(u, n)
      /\ \A u, n : AtRecord(u, n)' <=> AtRecord(u, n)
      /\ \A u, n : AtJoin(u, n)' <=> AtJoin(u, n)
      /\ \A n : InArm(n)' <=> InArm(n)
      /\ \A n : Spawned(n)' <=> Spawned(n)
  BY <1>1 DEF Has, Stopping, AtRecord, AtJoin, InArm, Spawned
<1>7. \A n \in Monitors : GivenUp(n)' <=> GivenUp(n)
  BY <1>1, <1>4 DEF GivenUp
<1>8. ~active[m] /\ (gen = loc["api"].gen => ~Spawned(m))
  BY <1>1, <1>2 DEF ActiveOK, FlowOK
<1>9. KnownOK'
  BY <1>2, <1>4, <1>5, <1>6, <1>7 DEF KnownOK
<1>10. ActiveOK'
  BY <1>1, <1>2, <1>3, <1>5, <1>6, <1>8 DEF ActiveOK
<1>11. StopsOK'
  BY <1>1, <1>2, <1>4, <1>5, <1>6, <1>7 DEF StopsOK
<1>12. FlowOK'
  BY <1>1, <1>2, <1>3, <1>5, <1>6, <1>8 DEF FlowOK
<1>13. CloseOK'
  <2>1. \A n \in Monitors : todo'[n] # <<>> => mon'[n].alive
    BY <1>1, <1>2, <1>3 DEF CloseOK, Idle
  <2> QED
    BY <1>1, <1>2, <1>4, <1>5, <1>6, <2>1 DEF CloseOK
<1> QED
  BY <1>9, <1>10, <1>11, <1>12, <1>13 DEF MonitorInv


\* arm() goes on with its starts.
LEMMA StartMoves ==
  ASSUME Inv, LoopInv', NEW c \in {"check", "start", "ready"}, At("api", c),
         NEW C, Goes("api", C), ApiKeeps(C), UNCHANGED <<ctrl, env, loc>>,
         Elems(todo["api"]) \ {Do(c, Now("api"))} \subseteq C,
         C \subseteq Elems(todo["api"]) \cup Stops(Now("api"))
  PROVE  MonitorInv'
<1>1. /\ LoopInv /\ ActiveOK /\ FlowOK /\ CloseOK /\ ProgramOK /\ "api" \in Threads
  BY InvFacts
<1>2. todo["api"] # <<>> /\ Do(c, Now("api")) \in Elems(todo["api"])
  BY <1>1, AtCall DEF Called
<1>3. ~closed
  <2>1. Do(c, Now("api")).call = c
    BY DoFields
  <2> QED
    BY <1>1, <1>2, <2>1 DEF CloseOK
<1>4. \A d, o : d \in {"close", "countdown", "deactivate"} => (Do(d, o) \in C <=> Has("api", d, o))
  BY DoFields DEF Has, Stops
<1>5. UNCHANGED <<gen, closed, active, pending, mon, state, win>>
      /\ count'["timeouts"] \in {count["timeouts"], count["timeouts"] + 1}
  BY DEF ctrl, env
<1>6. Do("close", "window") \in C <=> Do("close", "window") \in Elems(todo["api"])
  BY <1>4 DEF Has
<1>7. \A n \in Monitors : active[n] /\ state' = "idle" =>
          gen = loc'["api"].gen
          /\ (Do("countdown", "initial") \in C \/ Do("deactivate", "flow") \in C)
  BY <1>1, <1>4, <1>5 DEF ActiveOK
<1>8. state' # "idle" => ~closed /\ \A n \in Monitors : active[n]
  BY <1>1, <1>5 DEF FlowOK
<1>9. Do("countdown", "initial") \in C => Has("api", "countdown", "initial")
  BY <1>4
<1> QED
  BY <1>2, <1>3, <1>5, <1>6, <1>7, <1>8, <1>9, ApiMoves

LEMMA CheckMonitors ==
  ASSUME Inv, LoopInv', NEW t \in Threads, Check(t)
  PROVE  MonitorInv'
<1>1. /\ At(t, "check") /\ UNCHANGED <<ctrl, env>>
      /\ (Proceed(t) /\ UNCHANGED loc) \/ Return(t)
  BY DEF Check
<1>2. LoopInv /\ ActiveOK /\ ProgramOK
  BY InvFacts
<1>3. t = "api" /\ Now(t) = "flow" /\ Has("api", "check", "flow")
  BY <1>1, <1>2, AtCall DEF Called, Has
<1>4. CASE Proceed(t) /\ UNCHANGED loc
  <2> DEFINE E == Elems(todo["api"])
             C == E \ {Do("check", "flow")}
  <2>1. Goes("api", C)
    BY <1>1, <1>2, <1>3, <1>4, ProceedCalls
  <2>2. /\ C \subseteq E /\ E \ {Do("check", "flow")} \subseteq C
        /\ \A d, o : d # "check" => (Do(d, o) \in C <=> Has("api", d, o))
        /\ Do("check", "flow") \in C => Has("api", "check", "flow")
    BY DoFields DEF Has
  <2> HIDE DEF C
  <2>3. \A m \in Monitors : /\ AtJoin("api", m) <=> Do("join", m) \in C /\ Do("request_stop", m) \notin C
                            /\ Spawned(m) <=> Do("record_start", m) \in C /\ Do("spawn", m) \notin C
    BY <2>2 DEF AtJoin, Spawned
  <2>4. ApiKeeps(C)
    BY <2>2, <2>3 DEF ApiKeeps
  <2>5. C \subseteq E \cup Stops(Now("api"))
    BY <2>2
  <2> QED
    BY <1>1, <1>3, <1>4, <2>1, <2>2, <2>4, <2>5, StartMoves
<1>5. CASE Return(t)
  <2> DEFINE C == {}
  <2>1. Goes("api", C)
    BY <1>2, <1>3, <1>5, ReturnCalls DEF Return
  <2>2. C = {}
    OBVIOUS
  <2>3. \A u \in Threads \ {"api"} : loc'[u] = loc[u]
    BY <1>2, <1>3, <1>5, OneLocal DEF Return
  <2>4. UNCHANGED <<gen, state, closed, active, mon, win, count>>
        /\ \A n \in Monitors : pending[n] => pending'[n]
    BY <1>1 DEF ctrl, env
  <2> HIDE DEF C
  <2> QED
    BY <1>3, <2>1, <2>2, <2>3, <2>4, ApiQuits
<1> QED
  BY <1>1, <1>4, <1>5

\* A monitor that arm() is still to start is not active, and arm() is past its stops.
LEMMA ToStart ==
  ASSUME Inv, NEW c \in {"start", "spawn", "ready", "record_start"}, NEW t \in Threads, At(t, c)
  PROVE  /\ t = "api" /\ Now("api") \in Monitors /\ Has("api", "record_start", Now("api"))
         /\ ~active[Now("api")] /\ \A n \in Monitors : ~Stopping("api", n)
         /\ ~Has("api", "check", "flow") /\ ~closed
         /\ Has("api", "countdown", "initial")
         /\ c \in {"ready", "record_start"} => Spawned(Now("api"))
         /\ Do(c, Now("api")) \in Elems(todo["api"]) /\ todo["api"] # <<>>
         /\ Has("api", c, Now("api")) /\ At("api", c)
<1> DEFINE E == Elems(todo["api"])
           m == Now("api")
<1>1. LoopInv /\ ActiveOK /\ CloseOK /\ ProgramOK
  BY InvFacts
<1>2. /\ t = "api" /\ m \in Monitors /\ todo["api"] # <<>> /\ Do(c, m) \in E
      /\ Head(todo["api"]) = Do(c, m) /\ ~Has("api", "check", "flow")
      /\ \A n \in Monitors : ~Stopping("api", n)
  BY <1>1, AtCall DEF Called
<1>3. Whole(E) /\ \A d \in E : d # Do(c, m) => Position(Do(c, m)) < Position(d)
  BY <1>1, <1>2, NextCall DEF ProgramOK, Program
<1> HIDE DEF E
<1>4. /\ Do("start", m) \in E => Do("spawn", m) \in E
      /\ Do("spawn", m) \in E => Do("ready", m) \in E
      /\ Do("ready", m) \in E => Do("record_start", m) \in E
      /\ Do("record_start", m) \in E => Do("countdown", "initial") \in E
  BY <1>2, <1>3 DEF Whole
<1>5. Do("record_start", m) \in E /\ Do("countdown", "initial") \in E
  BY <1>2, <1>4
<1>6. Has("api", "record_start", m) /\ Has("api", "countdown", "initial")
  BY <1>5 DEF Has, E
<1>7. c \in {"ready", "record_start"} => Spawned(m)
  <2>1. ASSUME c \in {"ready", "record_start"}, Do("spawn", m) \in E PROVE FALSE
    <3>1. Position(Do(c, m)) < Position(Do("spawn", m))
      BY <1>3, <2>1, DoFields
    <3>2. /\ Position(Do("spawn", m)) = 1 + OfStart[m]
          /\ Position(Do("ready", m)) = 2 + OfStart[m]
          /\ Position(Do("record_start", m)) = 3 + OfStart[m]
          /\ OfStart[m] \in {8, 12}
      BY <1>2, Places
    <3> QED
      BY <2>1, <3>1, <3>2
  <2> QED
    BY <1>6, <2>1 DEF Spawned, Has, E
<1>8. ~closed
  <2>1. Do(c, m).call = c
    BY DoFields
  <2> QED
    BY <1>1, <1>2, <2>1 DEF CloseOK, E
<1>9. ~active[m]
  BY <1>1, <1>2, <1>6 DEF ActiveOK
<1> QED
  BY <1>2, <1>6, <1>7, <1>8, <1>9 DEF E, Has


LEMMA StartMonitors ==
  ASSUME Inv, LoopInv', NEW t \in Threads, Start(t)
  PROVE  MonitorInv'
<1> DEFINE E == Elems(todo["api"])
           m == Now("api")
           P == {Do("request_stop", m), Do("join", m)}
<1>1. At(t, "start") /\ UNCHANGED <<ctrl, env, loc>>
  BY DEF Start
<1>2. /\ t = "api" /\ m \in Monitors /\ ~active[m] /\ At("api", "start")
      /\ \A n \in Monitors : ~Stopping("api", n)
  BY <1>1, ToStart
<1>3. PICK C : Goes("api", C) /\ (C = (E \ {Do("start", m)}) \cup P \/ C = E \ {Do("start", m)})
  BY <1>2, InvFacts, StartCallsLeft
<1>4. /\ \A d, o : d \notin {"start", "request_stop", "join"} => (Do(d, o) \in C <=> Has("api", d, o))
      /\ \A n : Do("request_stop", n) \in C => Has("api", "request_stop", n) \/ n = m
      /\ \A n : Do("join", n) \in C => Has("api", "join", n) \/ (n = m /\ Do("request_stop", m) \in C)
      /\ \A n : Has("api", "request_stop", n) => Do("request_stop", n) \in C
      /\ \A n : Has("api", "join", n) => Do("join", n) \in C
  <2>1. \A d, o : d # "start" => Do(d, o) # Do("start", m)
    BY DoFields
  <2>2. \A d, o : d \notin {"request_stop", "join"} => Do(d, o) \notin P
    BY DoFields
  <2>3. \A n : Do("request_stop", n) \in P => n = m
    BY DoFields
  <2>4. \A n : Do("join", n) \in P => n = m /\ Do("request_stop", m) \in P
    BY DoFields
  <2> HIDE DEF P
  <2> QED
    BY <1>3, <2>1, <2>2, <2>3, <2>4 DEF Has
<1>5. E \ {Do("start", m)} \subseteq C /\ C \subseteq E \cup Stops(m)
  BY <1>3 DEF Stops
<1> HIDE DEF E, m, P
<1>6. \A n \in Monitors : ~Has("api", "request_stop", n) /\ ~Has("api", "join", n) /\ ~Has("api", "record_stop", n)
  BY <1>2 DEF Stopping
<1>7. ASSUME NEW n \in Monitors
      PROVE  /\ Do("record_stop", n) \in C <=> Has("api", "record_stop", n)
             /\ Do("join", n) \in C /\ Do("request_stop", n) \notin C => AtJoin("api", n)
             /\ Do("join", n) \notin C => ~Has("api", "join", n)
             /\ Do("request_stop", n) \notin C => ~Has("api", "request_stop", n)
             /\ Do("request_stop", n) \in C => Has("api", "request_stop", n) \/ ~active[n]
             /\ Do("record_start", n) \in C /\ Do("spawn", n) \notin C <=> Spawned(n)
             /\ Do("record_start", n) \in C <=> Has("api", "record_start", n)
  BY <1>2, <1>4, <1>6 DEF Spawned
<1>8. ApiKeeps(C)
  BY <1>4, <1>7 DEF ApiKeeps
<1>9. C \subseteq Elems(todo["api"]) \cup Stops(Now("api"))
      /\ Elems(todo["api"]) \ {Do("start", Now("api"))} \subseteq C
  BY <1>5 DEF E, m
<1> QED
  BY <1>1, <1>2, <1>3, <1>8, <1>9, StartMoves

\* arm() gives up a monitor that did not start, or that nobody wants any more.
LEMMA ApiFails ==
  ASSUME Inv, LoopInv', NEW c \in {"spawn", "ready", "record_start"}, At("api", c),
         NEW m, m = Now("api"), NEW C, Goes("api", C),
         Stops(m) \subseteq C, C \subseteq Stops(m) \cup {GivingUp},
         GivingUp \in C \/ gen # loc["api"].gen,
         UNCHANGED <<ctrl, loc, win>>, count'["timeouts"] = count["timeouts"],
         \A n \in Monitors : n # m => mon'[n] = mon[n],
         mon'[m].alive = mon[m].alive
  PROVE  MonitorInv'
<1> DEFINE E == Elems(todo["api"])
<1>1. /\ LoopInv /\ KnownOK /\ ActiveOK /\ StopsOK /\ FlowOK /\ CloseOK /\ ProgramOK
      /\ count["timeouts"] \in Nat /\ "api" \in Threads /\ Monitors \subseteq Threads
      /\ "api" \notin Monitors /\ Monitors = {"input", "power"}
  BY InvFacts
<1>2. /\ m \in Monitors /\ Has("api", "record_start", m) /\ ~active[m]
      /\ \A n \in Monitors : ~Stopping("api", n)
      /\ ~closed /\ Do(c, m) \in E /\ todo["api"] # <<>>
  BY <1>1, ToStart
<1>3. ASSUME NEW n \in Monitors, n # m, Spawned(n) PROVE FALSE
  <2>1. /\ Do("record_start", n) \in E /\ Do("spawn", n) \notin E
    BY <1>3 DEF Spawned, Has
  <2>2. Do("record_start", m) \in E
    BY <1>2 DEF Has
  <2>3. Whole(E) /\ \A d \in E : d # Do(c, m) => Position(Do(c, m)) < Position(d)
    <3>1. Do(c, m) = Head(todo["api"])
      BY <1>1, AtCall DEF Called
    <3> QED
      BY <1>1, <1>2, <3>1, NextCall DEF ProgramOK, Program
  <2> HIDE DEF E
  <2>4. CASE m = "input"
    <3>1. Do("spawn", "power") \in E
      BY <2>2, <2>3, <2>4 DEF Whole
    <3> QED
      BY <1>1, <1>3, <2>1, <2>4, <3>1
  <2>5. CASE m = "power"
    <3>1. n = "input"
      BY <1>1, <1>3, <2>5
    <3>2. Do(c, m) # Do("record_start", n)
      BY <1>3, DoFields
    <3>3. Position(Do(c, m)) < Position(Do("record_start", n))
      BY <2>1, <2>3, <3>2
    <3>4. Position(Do("record_start", n)) = 11
      BY <1>1, <3>1, Places
    <3>5. Position(Do(c, m)) \in 13..15
      <4>1. c = "spawn" => Position(Do(c, m)) = 13
        BY <1>2, <2>5, Places
      <4>2. c = "ready" => Position(Do(c, m)) = 14
        BY <1>2, <2>5, Places
      <4>3. c = "record_start" => Position(Do(c, m)) = 15
        BY <1>2, <2>5, Places
      <4> QED
        BY <4>1, <4>2, <4>3
    <3> QED
      BY <3>3, <3>4, <3>5
  <2> QED
    BY <1>1, <1>2, <2>4, <2>5
<1>4. \A n \in Monitors : n # m => ~InArm(n)
  BY <1>2, <1>3 DEF InArm, Stopping
<1>5. /\ \A u \in Threads \ {"api"} : todo'[u] = todo[u] /\ \A d, o : Has(u, d, o)' <=> Has(u, d, o)
      /\ \A d, o : Has("api", d, o)' <=> Do(d, o) \in C
  BY <1>1, OthersSame
<1>6. /\ Has("api", "request_stop", m)' /\ Has("api", "join", m)' /\ Has("api", "record_stop", m)'
      /\ \A d, o : Has("api", d, o)' => (d \in {"request_stop", "join", "record_stop"} /\ o = m)
                                        \/ (d = "deactivate" /\ o = "flow")
      /\ GivingUp \in C => Has("api", "deactivate", "flow")'
  BY <1>5, DoFields DEF Stops, GivingUp
<1>7. UNCHANGED <<gen, state, closed, active, pending>>
  BY DEF ctrl
<1>8. ASSUME NEW n \in Monitors
      PROVE  /\ ~Spawned(n)' /\ ~AtRecord("api", n)' /\ ~AtJoin("api", n)'
             /\ n # m => (GivenUp(n)' <=> GivenUp(n))
             /\ \A u \in Threads \ {"api"} : Stopping(u, n)' <=> Stopping(u, n)
             /\ \A u \in Threads \ {"api"} : AtRecord(u, n)' <=> AtRecord(u, n)
  <2>1. ~Spawned(n)' /\ ~AtRecord("api", n)' /\ ~AtJoin("api", n)'
    BY <1>6 DEF Spawned, AtRecord, AtJoin
  <2>2. n # m => (GivenUp(n)' <=> GivenUp(n))
    BY DEF GivenUp
  <2>3. \A u \in Threads \ {"api"} : (Stopping(u, n)' <=> Stopping(u, n)) /\ (AtRecord(u, n)' <=> AtRecord(u, n))
    BY <1>5 DEF Stopping, AtRecord
  <2> QED
    BY <2>1, <2>2, <2>3
<1>9. InArm(m)'
  BY <1>6 DEF InArm
<1>10. ~Has("api", "check", "flow")' /\ ~Has("api", "countdown", "initial")'
       /\ \A n \in Monitors : ~Has("api", "record_start", n)'
  BY <1>6
<1>11. KnownOK'
  <2>1. ASSUME NEW n \in Monitors, mon'[n].alive
        PROVE  active'[n] \/ pending'[n] \/ InArm(n)' \/ GivenUp(n)'
    <3>1. CASE n = m
      BY <1>9, <3>1
    <3>2. CASE n # m
      BY <1>1, <1>4, <1>7, <1>8, <2>1, <3>2 DEF KnownOK
    <3> QED
      BY <3>1, <3>2
  <2> QED
    BY <1>10, <2>1 DEF KnownOK
<1>12. ActiveOK'
  <2>1. ASSUME NEW n \in Monitors, active'[n]
        PROVE  /\ ~closed'
               /\ state' # "idle" \/ (gen' = loc'["api"].gen /\ Has("api", "deactivate", "flow")')
               /\ mon'[n].alive /\ ~mon'[n].stop /\ mon'[n].gen = gen'
               /\ ~Has("api", "request_stop", n)'
               /\ \A u \in Threads \ {"api"}, k \in Monitors : ~Stopping(u, k)'
    <3>1. active[n] /\ n # m
      BY <1>2, <1>7, <2>1
    <3>2. state # "idle" \/ gen = loc["api"].gen
      BY <1>1, <3>1 DEF ActiveOK
    <3>3. state' # "idle" \/ (gen' = loc'["api"].gen /\ Has("api", "deactivate", "flow")')
      BY <1>6, <1>7, <3>2
    <3>4. ~Has("api", "request_stop", n)'
      BY <1>6, <3>1
    <3>5. mon'[n].alive /\ ~mon'[n].stop /\ mon'[n].gen = gen'
      BY <1>1, <1>7, <3>1 DEF ActiveOK
    <3>6. \A u \in Threads \ {"api"}, k \in Monitors : ~Stopping(u, k)'
      BY <1>1, <1>8, <3>1 DEF ActiveOK
    <3> QED
      BY <1>2, <1>7, <3>3, <3>4, <3>5, <3>6
  <2> QED
    BY <1>10, <2>1 DEF ActiveOK
<1>13. StopsOK'
  <2>1. todo'["api"] # <<>> /\ loc'["api"].gen = gen' =>
            \A u \in Threads \ {"api"}, n \in Monitors : ~Stopping(u, n)'
    BY <1>1, <1>2, <1>7, <1>8 DEF StopsOK
  <2>2. ASSUME NEW u \in Threads, NEW n \in Monitors, AtRecord(u, n)', loc'[u].ok, mon'[n].alive
        PROVE  /\ u # "api" /\ ~Has("api", "check", "flow")'
               /\ (InArm(n) \/ GivenUp(n))'
    <3>1. u # "api"
      BY <1>8, <2>2
    <3>2. AtRecord(u, n) /\ loc[u].ok /\ mon[n].alive
      BY <1>8, <2>2, <3>1
    <3>3. InArm(n) \/ GivenUp(n)
      BY <1>1, <3>2 DEF StopsOK
    <3>4. InArm(n)' \/ GivenUp(n)'
      BY <1>4, <1>8, <1>9, <3>3
    <3> QED
      BY <1>10, <3>1, <3>4
  <2>3. ASSUME NEW n \in Monitors
        PROVE  Has("api", "record_stop", n)' /\ ~Has("api", "request_stop", n)' => mon'[n].stop
    BY <1>6
  <2> QED
    BY <1>8, <2>1, <2>2, <2>3 DEF StopsOK
<1>14. FlowOK'
  BY <1>1, <1>7, <1>8, <1>10 DEF FlowOK
<1>15. CloseOK'
  <2>1. \A n \in Monitors : todo'[n] # <<>> => mon'[n].alive
    BY <1>1, <1>5 DEF CloseOK
  <2> QED
    BY <1>2, <1>7, <2>1 DEF CloseOK
<1> QED
  BY <1>11, <1>12, <1>13, <1>14, <1>15 DEF MonitorInv


LEMMA ReadyMonitors ==
  ASSUME Inv, LoopInv', NEW t \in Threads, Ready(t)
  PROVE  MonitorInv'
<1> DEFINE m == Now("api")
           E == Elems(todo["api"])
<1>1. At(t, "ready") /\ UNCHANGED <<ctrl, env, loc>> /\ (Proceed(t) \/ StartFails(t))
  BY DEF Ready
<1>2. /\ t = "api" /\ m \in Monitors /\ At("api", "ready") /\ LoopInv
  BY <1>1, ToStart, InvFacts
<1>3. CASE Proceed(t)
  <2> DEFINE C == E \ {Do("ready", m)}
  <2>1. Goes("api", C)
    BY <1>2, <1>3, ProceedCalls
  <2>2. /\ C \subseteq E /\ E \ {Do("ready", m)} \subseteq C
        /\ \A d, o : d # "ready" => (Do(d, o) \in C <=> Has("api", d, o))
    BY DoFields DEF Has
  <2> HIDE DEF C
  <2>3. \A n \in Monitors : /\ AtJoin("api", n) <=> Do("join", n) \in C /\ Do("request_stop", n) \notin C
                            /\ Spawned(n) <=> Do("record_start", n) \in C /\ Do("spawn", n) \notin C
    BY <2>2 DEF AtJoin, Spawned
  <2>4. ApiKeeps(C)
    BY <2>2, <2>3 DEF ApiKeeps
  <2>5. C \subseteq Elems(todo["api"]) \cup Stops(Now("api"))
        /\ Elems(todo["api"]) \ {Do("ready", Now("api"))} \subseteq C
    BY <2>2
  <2> QED
    BY <1>1, <1>2, <2>1, <2>4, <2>5, StartMoves
<1>4. CASE StartFails(t)
  <2> DEFINE C == Stops(m) \cup {GivingUp}
  <2>1. Goes("api", C)
    BY <1>2, <1>4, StartFailsCalls
  <2>2. Stops(m) \subseteq C /\ C \subseteq Stops(m) \cup {GivingUp} /\ GivingUp \in C
    OBVIOUS
  <2>3. UNCHANGED <<ctrl, loc, win, mon>> /\ count'["timeouts"] = count["timeouts"]
    BY <1>1 DEF env
  <2> HIDE DEF C
  <2> QED
    BY <1>2, <2>1, <2>2, <2>3, ApiFails
<1> QED
  BY <1>1, <1>3, <1>4

\* arm() has created the thread of a monitor, which is its flow's.
LEMMA Spawns ==
  ASSUME Inv, LoopInv', At("api", "spawn"), NEW m, m = Now("api"),
         NEW C, C = Elems(todo["api"]) \ {Do("spawn", m)}, Goes("api", C),
         ~mon[m].alive, mon' = [mon EXCEPT ![m] = NewThread("api", m, TRUE)],
         UNCHANGED <<ctrl, loc, win, count>>
  PROVE  MonitorInv'
<1>1. /\ LoopInv /\ KnownOK /\ ActiveOK /\ StopsOK /\ FlowOK /\ CloseOK /\ ProgramOK
      /\ "api" \in Threads /\ Monitors \subseteq Threads /\ "api" \notin Monitors
  BY InvFacts
<1>2. /\ m \in Monitors /\ Has("api", "record_start", m) /\ ~active[m]
      /\ \A n \in Monitors : ~Stopping("api", n)
      /\ ~closed /\ ~Has("api", "check", "flow") /\ todo["api"] # <<>>
  BY <1>1, ToStart
<1>3. /\ \A u \in Threads \ {"api"} : todo'[u] = todo[u] /\ \A d, o : Has(u, d, o)' <=> Has(u, d, o)
      /\ \A d, o : d # "spawn" \/ o # m => (Has("api", d, o)' <=> Has("api", d, o))
      /\ ~Has("api", "spawn", m)'
  <2>1. /\ \A d, o : d # "spawn" \/ o # m => (Do(d, o) \in C <=> Has("api", d, o))
        /\ Do("spawn", m) \notin C
    BY DoFields DEF Has
  <2>2. /\ \A u \in Threads \ {"api"} : todo'[u] = todo[u] /\ \A d, o : Has(u, d, o)' <=> Has(u, d, o)
        /\ \A d, o : Has("api", d, o)' <=> Do(d, o) \in C
    BY <1>1, OthersSame
  <2> QED
    BY <2>1, <2>2
<1>4. /\ mon'[m].alive /\ ~mon'[m].stop /\ mon'[m].gen = loc["api"].gen
      /\ \A n \in Monitors : n # m => mon'[n] = mon[n]
  <2>1. mon \in MonType
    BY <1>1, Facts
  <2>2. mon'[m] = NewThread("api", m, TRUE) /\ \A n \in Monitors : n # m => mon'[n] = mon[n]
    BY <1>2, <2>1 DEF MonType
  <2> QED
    BY <2>2 DEF NewThread
<1>5. UNCHANGED <<gen, state, closed, active, pending>>
  BY DEF ctrl
<1>6. ASSUME NEW n \in Monitors
      PROVE  /\ n # m => (InArm(n)' <=> InArm(n)) /\ (Spawned(n)' <=> Spawned(n))
                         /\ (GivenUp(n)' <=> GivenUp(n))
             /\ ~AtRecord("api", n)' /\ ~AtJoin("api", n)' /\ ~Has("api", "record_stop", n)'
             /\ \A u \in Threads \ {"api"} : Stopping(u, n)' <=> Stopping(u, n)
             /\ \A u \in Threads \ {"api"} : AtRecord(u, n)' <=> AtRecord(u, n)
  <2>1. n # m => (InArm(n)' <=> InArm(n)) /\ (Spawned(n)' <=> Spawned(n)) /\ (GivenUp(n)' <=> GivenUp(n))
    BY <1>3, <1>4 DEF InArm, Spawned, GivenUp
  <2>2. ~AtRecord("api", n)' /\ ~AtJoin("api", n)' /\ ~Has("api", "record_stop", n)'
    BY <1>2, <1>3 DEF AtRecord, AtJoin, Stopping
  <2>3. \A u \in Threads \ {"api"} : (Stopping(u, n)' <=> Stopping(u, n)) /\ (AtRecord(u, n)' <=> AtRecord(u, n))
    BY <1>3 DEF Stopping, AtRecord
  <2> QED
    BY <2>1, <2>2, <2>3
<1>7. InArm(m)'
  BY <1>2, <1>3 DEF InArm, Spawned
<1>8. \A d, o : d # "spawn" => (Has("api", d, o)' <=> Has("api", d, o))
  BY <1>3
<1>9. KnownOK'
  <2>1. ASSUME NEW n \in Monitors, mon'[n].alive
        PROVE  active'[n] \/ pending'[n] \/ InArm(n)' \/ GivenUp(n)'
    <3>1. CASE n = m
      BY <1>7, <3>1
    <3>2. CASE n # m
      BY <1>1, <1>4, <1>5, <1>6, <2>1, <3>2 DEF KnownOK
    <3> QED
      BY <3>1, <3>2
  <2> QED
    BY <1>2, <1>8, <2>1 DEF KnownOK
<1>10. ActiveOK'
  BY <1>1, <1>2, <1>4, <1>5, <1>6, <1>8 DEF ActiveOK
<1>11. StopsOK'
  <2>1. todo'["api"] # <<>> /\ loc'["api"].gen = gen' =>
            \A u \in Threads \ {"api"}, n \in Monitors : ~Stopping(u, n)'
    BY <1>1, <1>2, <1>5, <1>6 DEF StopsOK
  <2>2. ASSUME NEW u \in Threads, NEW n \in Monitors, AtRecord(u, n)', loc'[u].ok, mon'[n].alive
        PROVE  /\ u # "api" /\ ~Has("api", "check", "flow")'
               /\ (InArm(n) \/ GivenUp(n))'
    <3>1. u # "api" /\ ~Has("api", "check", "flow")'
      BY <1>2, <1>6, <1>8, <2>2
    <3>2. CASE n = m
      BY <1>7, <3>1, <3>2
    <3>3. CASE n # m
      <4>1. AtRecord(u, n) /\ loc[u].ok /\ mon[n].alive
        BY <1>4, <1>6, <2>2, <3>1, <3>3
      <4>2. InArm(n) \/ GivenUp(n)
        BY <1>1, <4>1 DEF StopsOK
      <4> QED
        BY <1>6, <3>1, <3>3, <4>2
    <3> QED
      BY <3>2, <3>3
  <2> QED
    BY <1>6, <2>1, <2>2 DEF StopsOK
<1>12. FlowOK'
  <2>1. ASSUME gen' = loc'["api"].gen, NEW n \in Monitors
        PROVE  /\ Spawned(n)' => mon'[n].alive /\ ~mon'[n].stop /\ mon'[n].gen = gen'
               /\ Has("api", "countdown", "initial")' /\ ~Has("api", "record_start", n)' => active'[n]
    <3>1. gen = loc["api"].gen
      BY <1>5, <2>1
    <3>2. CASE n = m
      BY <1>2, <1>4, <1>5, <1>8, <3>1, <3>2
    <3>3. CASE n # m
      BY <1>1, <1>4, <1>5, <1>6, <1>8, <3>1, <3>3 DEF FlowOK
    <3> QED
      BY <3>2, <3>3
  <2> QED
    BY <1>1, <1>5, <2>1 DEF FlowOK
<1>13. CloseOK'
  <2>1. \A n \in Monitors : todo'[n] # <<>> => mon'[n].alive
    BY <1>1, <1>3, <1>4 DEF CloseOK
  <2> QED
    BY <1>2, <1>5, <2>1 DEF CloseOK
<1> QED
  BY <1>9, <1>10, <1>11, <1>12, <1>13 DEF MonitorInv

LEMMA SpawnMonitors ==
  ASSUME Inv, LoopInv', NEW t \in Threads, Spawn(t)
  PROVE  MonitorInv'
<1> DEFINE m == Now("api")
           E == Elems(todo["api"])
<1>1. At(t, "spawn") /\ UNCHANGED <<ctrl, timers, win, display, loc>>
  BY DEF Spawn
<1>2. /\ t = "api" /\ m \in Monitors /\ At("api", "spawn") /\ LoopInv
  BY <1>1, ToStart, InvFacts
<1>3. \/ mon[m].alive /\ StartFails("api") /\ UNCHANGED <<mon, count>>
      \/ /\ ~mon[m].alive /\ mon' = [mon EXCEPT ![m] = NewThread("api", m, TRUE)]
         /\ Proceed("api") /\ UNCHANGED count
      \/ /\ ~mon[m].alive /\ mon' = [mon EXCEPT ![m] = NewThread("api", m, FALSE)]
         /\ StartFails("api") /\ CountUp("fails")
  BY <1>2 DEF Spawn
<1>4. CASE ~mon[m].alive /\ mon' = [mon EXCEPT ![m] = NewThread("api", m, TRUE)]
           /\ Proceed("api") /\ UNCHANGED count
  <2> DEFINE C == E \ {Do("spawn", m)}
  <2>1. Goes("api", C)
    BY <1>2, <1>4, ProceedCalls
  <2>2. C = Elems(todo["api"]) \ {Do("spawn", m)}
    OBVIOUS
  <2> HIDE DEF C
  <2> QED
    BY <1>1, <1>2, <1>4, <2>1, <2>2, Spawns
<1>5. CASE StartFails("api") /\ (UNCHANGED <<mon, count>>
           \/ (~mon[m].alive /\ mon' = [mon EXCEPT ![m] = NewThread("api", m, FALSE)] /\ CountUp("fails")))
  <2> DEFINE C == Stops(m) \cup {GivingUp}
  <2>1. Goes("api", C)
    BY <1>2, <1>5, StartFailsCalls
  <2>2. Stops(m) \subseteq C /\ C \subseteq Stops(m) \cup {GivingUp} /\ GivingUp \in C
    OBVIOUS
  <2>3. count'["timeouts"] = count["timeouts"]
    BY <1>2, <1>5, CountUpFails
  <2>4. mon'[m].alive = mon[m].alive /\ \A n \in Monitors : n # m => mon'[n] = mon[n]
    <3>1. mon \in MonType /\ \A n \in Monitors : mon[n].alive \in BOOLEAN
      BY <1>2, Facts DEF MonType
    <3>2. CASE UNCHANGED mon
      BY <3>2
    <3>3. CASE ~mon[m].alive /\ mon' = [mon EXCEPT ![m] = NewThread("api", m, FALSE)]
      <4>1. mon'[m] = NewThread("api", m, FALSE) /\ \A n \in Monitors : n # m => mon'[n] = mon[n]
        BY <1>2, <3>1, <3>3 DEF MonType
      <4>2. mon'[m].alive = FALSE
        BY <4>1 DEF NewThread
      <4> QED
        BY <1>2, <3>1, <3>3, <4>1, <4>2
    <3> QED
      BY <1>5, <3>2, <3>3
  <2> HIDE DEF C
  <2> QED
    BY <1>1, <1>2, <2>1, <2>2, <2>3, <2>4, ApiFails
<1> QED
  BY <1>3, <1>4, <1>5


\* The monitor of the flow that arm() starts has reported itself ready.
LEMMA Activates ==
  ASSUME Inv, LoopInv', At("api", "record_start"), NEW m, m = Now("api"),
         NEW C, C = Elems(todo["api"]) \ {Do("record_start", m)}, Goes("api", C),
         Current(loc["api"].gen), active' = [active EXCEPT ![m] = TRUE],
         pending' = [pending EXCEPT ![m] = FALSE],
         UNCHANGED <<gen, state, closed, mon, loc, win, count>>
  PROVE  MonitorInv'
<1>1. /\ LoopInv /\ KnownOK /\ ActiveOK /\ StopsOK /\ FlowOK /\ CloseOK /\ ProgramOK
      /\ "api" \in Threads /\ Monitors \subseteq Threads /\ "api" \notin Monitors
  BY InvFacts
<1>2. /\ m \in Monitors /\ Spawned(m) /\ ~active[m] /\ Has("api", "countdown", "initial")
      /\ \A n \in Monitors : ~Stopping("api", n)
      /\ ~closed /\ ~Has("api", "check", "flow") /\ todo["api"] # <<>>
  BY <1>1, ToStart
<1>3. /\ \A u \in Threads \ {"api"} : todo'[u] = todo[u] /\ \A d, o : Has(u, d, o)' <=> Has(u, d, o)
      /\ \A d, o : d # "record_start" \/ o # m => (Has("api", d, o)' <=> Has("api", d, o))
      /\ ~Has("api", "record_start", m)'
  <2>1. /\ \A d, o : d # "record_start" \/ o # m => (Do(d, o) \in C <=> Has("api", d, o))
        /\ Do("record_start", m) \notin C
    BY DoFields DEF Has
  <2>2. /\ \A u \in Threads \ {"api"} : todo'[u] = todo[u] /\ \A d, o : Has(u, d, o)' <=> Has(u, d, o)
        /\ \A d, o : Has("api", d, o)' <=> Do(d, o) \in C
    BY <1>1, OthersSame
  <2> QED
    BY <2>1, <2>2
<1>4. active'[m] /\ \A n \in Monitors : n # m => active'[n] = active[n] /\ pending'[n] = pending[n]
  <2>1. active \in FlagType /\ pending \in FlagType
    BY <1>1, Facts
  <2> QED
    BY <1>2, <2>1 DEF FlagType
<1>5. gen = loc["api"].gen
  BY DEF Current
<1>6. \A d, o : d # "record_start" => (Has("api", d, o)' <=> Has("api", d, o))
  BY <1>3
<1>7. \A u \in Threads, n \in Monitors : ~Stopping(u, n) /\ ~Stopping(u, n)'
  <2>1. \A n \in Monitors : ~Stopping("api", n)'
    BY <1>2, <1>6 DEF Stopping
  <2>2. \A u \in Threads \ {"api"}, n \in Monitors : ~Stopping(u, n)
    BY <1>1, <1>2, <1>5 DEF StopsOK
  <2>3. \A u \in Threads \ {"api"}, n \in Monitors : ~Stopping(u, n)'
    BY <1>3, <2>2 DEF Stopping
  <2> QED
    BY <1>2, <2>1, <2>2, <2>3
<1>8. ASSUME NEW n \in Monitors
      PROVE  /\ n # m => (InArm(n)' <=> InArm(n))
             /\ Spawned(n)' => Spawned(n)
             /\ GivenUp(n)' <=> GivenUp(n)
             /\ \A u \in Threads : ~AtRecord(u, n)'
             /\ ~AtJoin("api", n)' /\ ~Has("api", "record_stop", n)'
  <2>1. (n # m => (InArm(n)' <=> InArm(n))) /\ (Spawned(n)' => Spawned(n)) /\ (GivenUp(n)' <=> GivenUp(n))
    BY <1>3 DEF InArm, Spawned, GivenUp
  <2>2. \A u \in Threads : ~AtRecord(u, n)' /\ ~AtJoin(u, n)' /\ ~Has(u, "record_stop", n)'
    BY <1>7 DEF AtRecord, AtJoin, Stopping
  <2> QED
    BY <1>1, <2>1, <2>2
<1>9. KnownOK'
  <2>1. ASSUME NEW n \in Monitors, mon'[n].alive
        PROVE  active'[n] \/ pending'[n] \/ InArm(n)' \/ GivenUp(n)'
    <3>1. CASE n = m
      BY <1>4, <3>1
    <3>2. CASE n # m
      BY <1>1, <1>4, <1>8, <2>1, <3>2 DEF KnownOK
    <3> QED
      BY <3>1, <3>2
  <2> QED
    BY <1>2, <1>6, <2>1 DEF KnownOK
<1>10. ActiveOK'
  <2>1. ASSUME NEW n \in Monitors, active'[n]
        PROVE  /\ ~Has("api", "record_start", n)'
               /\ mon'[n].alive /\ ~mon'[n].stop /\ mon'[n].gen = gen'
    <3>1. CASE n = m
      BY <1>1, <1>2, <1>3, <1>5, <3>1 DEF FlowOK
    <3>2. CASE n # m
      BY <1>1, <1>3, <1>4, <2>1, <3>2 DEF ActiveOK
    <3> QED
      BY <3>1, <3>2
  <2>2. /\ ~closed' /\ ~Has("api", "check", "flow")' /\ gen' = loc'["api"].gen
        /\ Has("api", "countdown", "initial")'
    BY <1>2, <1>5, <1>6
  <2>3. \A n \in Monitors : ~Has("api", "request_stop", n)'
    BY <1>1, <1>7 DEF Stopping
  <2> QED
    BY <1>7, <2>1, <2>2, <2>3 DEF ActiveOK
<1>11. StopsOK'
  <2>1. \A u \in Threads \ {"api"}, n \in Monitors : ~Stopping(u, n)'
    BY <1>7
  <2>2. \A u \in Threads, n \in Monitors : ~AtRecord(u, n)'
    BY <1>8
  <2>3. \A n \in Monitors : ~AtJoin("api", n)' /\ ~Has("api", "record_stop", n)'
    BY <1>8
  <2> QED
    BY <1>1, <2>1, <2>2, <2>3 DEF StopsOK
<1>12. FlowOK'
  <2>1. ASSUME NEW n \in Monitors
        PROVE  /\ Spawned(n)' => mon'[n].alive /\ ~mon'[n].stop /\ mon'[n].gen = gen'
               /\ Has("api", "countdown", "initial")' /\ ~Has("api", "record_start", n)' => active'[n]
    <3>1. Spawned(n)' => mon'[n].alive /\ ~mon'[n].stop /\ mon'[n].gen = gen'
      BY <1>1, <1>5, <1>8 DEF FlowOK
    <3>2. Has("api", "countdown", "initial")' /\ ~Has("api", "record_start", n)' => active'[n]
      BY <1>1, <1>3, <1>4, <1>5, <1>6 DEF FlowOK
    <3> QED
      BY <3>1, <3>2
  <2>2. state = "idle"
    BY <1>1, <1>2 DEF FlowOK
  <2> QED
    BY <2>1, <2>2 DEF FlowOK
<1>13. CloseOK'
  <2>1. \A n \in Monitors : todo'[n] # <<>> => mon'[n].alive
    BY <1>1, <1>3 DEF CloseOK
  <2> QED
    BY <1>2, <2>1 DEF CloseOK
<1> QED
  BY <1>9, <1>10, <1>11, <1>12, <1>13 DEF MonitorInv

LEMMA RecordStartMonitors ==
  ASSUME Inv, LoopInv', NEW t \in Threads, RecordStart(t)
  PROVE  MonitorInv'
<1> DEFINE m == Now("api")
<1>1. At(t, "record_start") /\ UNCHANGED <<gen, timer, state, closed, env, loc>>
  BY DEF RecordStart
<1>2. /\ t = "api" /\ m \in Monitors /\ At("api", "record_start") /\ LoopInv /\ ~closed
  BY <1>1, ToStart, InvFacts
<1>3. \/ /\ Current(loc["api"].gen)
         /\ active' = [active EXCEPT ![m] = TRUE]
         /\ pending' = [pending EXCEPT ![m] = FALSE]
         /\ Goes("api", Elems(todo["api"]) \ {Do("record_start", m)})
      \/ /\ ~Current(loc["api"].gen) /\ active' = active /\ pending' = pending
         /\ Goes("api", StopNew(m))
  BY <1>2, RecordStartCalls
<1>4. CASE /\ Current(loc["api"].gen)
           /\ active' = [active EXCEPT ![m] = TRUE]
           /\ pending' = [pending EXCEPT ![m] = FALSE]
           /\ Goes("api", Elems(todo["api"]) \ {Do("record_start", m)})
  <2> DEFINE C == Elems(todo["api"]) \ {Do("record_start", m)}
  <2>1. Goes("api", C) /\ C = Elems(todo["api"]) \ {Do("record_start", m)}
    BY <1>4
  <2>2. UNCHANGED <<gen, state, closed, mon, loc, win, count>>
    BY <1>1 DEF env
  <2> HIDE DEF C
  <2> QED
    BY <1>2, <1>4, <2>1, <2>2, Activates
<1>5. CASE /\ ~Current(loc["api"].gen) /\ active' = active /\ pending' = pending
           /\ Goes("api", StopNew(m))
  <2> DEFINE C == StopNew(m)
  <2>1. Stops(m) \subseteq C /\ C \subseteq Stops(m) \cup {GivingUp}
    BY DEF StopNew
  <2>2. gen # loc["api"].gen
    BY <1>2, <1>5 DEF Current
  <2>3. UNCHANGED <<ctrl, loc, win, mon, count>>
    BY <1>1, <1>5 DEF env, ctrl
  <2>4. Goes("api", C)
    BY <1>5
  <2> HIDE DEF C
  <2> QED
    BY <1>2, <2>1, <2>2, <2>3, <2>4, ApiFails
<1> QED
  BY <1>3, <1>4, <1>5


LEMMA MonitorInit == Init => MonitorInv
<1> SUFFICES ASSUME Init PROVE MonitorInv
  OBVIOUS
<1>1. /\ gen = 0 /\ state = "idle" /\ closed = FALSE /\ active = None
      /\ mon = [m \in Monitors |-> [alive |-> FALSE, stop |-> FALSE, gen |-> 0, id |-> 0]]
      /\ win = [up |-> FALSE, visible |-> FALSE, cancel |-> 0, hides |-> 0, doomed |-> FALSE]
      /\ todo = [t \in Threads |-> <<>>]
  BY DEF Init
<1>2. "api" \in Threads /\ Monitors \subseteq Threads
  BY DEF Threads, Loops, Monitors
<1>3. \A t \in Threads : todo[t] = <<>> /\ \A c, o : ~Has(t, c, o)
  BY <1>1, NoCalls DEF Has
<1>4. \A m \in Monitors : ~active[m] /\ ~mon[m].alive
  BY <1>1 DEF None
<1>5. \A m \in Monitors : ~Spawned(m) /\ \A t \in Threads : ~AtRecord(t, m) /\ ~AtJoin(t, m)
  BY <1>2, <1>3 DEF Spawned, AtRecord, AtJoin
<1>6. KnownOK /\ ActiveOK
  BY <1>4 DEF KnownOK, ActiveOK
<1>7. StopsOK
  BY <1>2, <1>3, <1>5 DEF StopsOK
<1>8. FlowOK
  BY <1>1, <1>2, <1>3, <1>5 DEF FlowOK
<1>9. CloseOK
  BY <1>1, <1>2, <1>3 DEF CloseOK
<1> QED
  BY <1>6, <1>7, <1>8, <1>9 DEF MonitorInv

LEMMA MonitorStutter == MonitorInv /\ UNCHANGED vars => MonitorInv'
<1> SUFFICES ASSUME MonitorInv, UNCHANGED vars PROVE MonitorInv'
  OBVIOUS
<1>1. UNCHANGED <<gen, state, closed, active, pending, mon, win, todo, loc, count>>
  BY DEF vars, ctrl, env
<1>2. /\ \A t, c, o : Has(t, c, o)' <=> Has(t, c, o)
      /\ \A t, m : (Stopping(t, m)' <=> Stopping(t, m)) /\ (AtRecord(t, m)' <=> AtRecord(t, m))
                   /\ (AtJoin(t, m)' <=> AtJoin(t, m))
      /\ \A m : (InArm(m)' <=> InArm(m)) /\ (Spawned(m)' <=> Spawned(m)) /\ (GivenUp(m)' <=> GivenUp(m))
  BY <1>1 DEF Has, Stopping, AtRecord, AtJoin, InArm, Spawned, GivenUp
<1>3. KnownOK' /\ ActiveOK'
  BY <1>1, <1>2 DEF MonitorInv, KnownOK, ActiveOK
<1>4. StopsOK'
  BY <1>1, <1>2 DEF MonitorInv, StopsOK
<1>5. FlowOK' /\ CloseOK'
  BY <1>1, <1>2 DEF MonitorInv, FlowOK, CloseOK
<1> QED
  BY <1>3, <1>4, <1>5 DEF MonitorInv

LEMMA InvNext ==
  ASSUME Overlap = FALSE, Inv, [Next]_vars
  PROVE  Inv'
<1>1. LoopInv /\ MonitorInv
  BY DEF Inv
<1>2. LoopInv'
  BY <1>1, LoopNext, LoopStutter
<1>3. CASE UNCHANGED vars
  BY <1>1, <1>2, <1>3, MonitorStutter DEF Inv
<1>4. CASE Next
  <2>1. CASE Arm \/ Close \/ KeyDown \/ CancelClick \/ CloseClick \/ Wake
    BY <1>2, <2>1, ArmMonitors, CloseMonitors, KeyDownMonitors, ClicksMonitors, WindowMonitors DEF Inv
  <2>2. ASSUME NEW k \in Timers, TimerFires(k) PROVE MonitorInv'
    BY <1>2, <2>2, TimerFiresMonitors
  <2>3. CASE PowerOn \/ WindowHides \/ WindowExits
    BY <1>2, <2>3, PowerOnMonitors, WindowMonitors DEF Inv
  <2>4. ASSUME NEW m \in Monitors, MonitorExits(m) PROVE MonitorInv'
    BY <1>2, <2>4, MonitorExitsMonitors
  <2>5. ASSUME NEW t \in Threads, Step(t) PROVE MonitorInv'
    <3>1. CASE Check(t) \/ Hide(t) \/ Deactivate(t) \/ RequestStop(t) \/ Join(t) \/ RecordStop(t)
      BY <1>2, <3>1, CheckMonitors, HideMonitors, DeactivateMonitors, RequestStopMonitors,
         JoinMonitors, RecordStopMonitors
    <3>2. CASE Start(t) \/ Spawn(t) \/ Ready(t) \/ RecordStart(t)
      BY <1>2, <3>2, StartMonitors, SpawnMonitors, ReadyMonitors, RecordStartMonitors
    <3>3. CASE Countdown(t) \/ Show(t) \/ SendShow(t) \/ Verify(t) \/ StartTimer(t)
               \/ TurnOff(t) \/ Settle(t) \/ CloseWindow(t)
      BY <1>2, <3>3, CountdownMonitors, ShowMonitors, SendShowMonitors, VerifyMonitors,
         StartTimerMonitors, TurnOffMonitors, SettleMonitors, CloseWindowMonitors
    <3> QED
      BY <2>5, <3>1, <3>2, <3>3 DEF Step
  <2>6. MonitorInv'
    BY <1>4, <2>1, <2>2, <2>3, <2>4, <2>5 DEF Next, SomeoneRuns, Inv
  <2> QED
    BY <1>2, <2>6 DEF Inv
<1> QED
  BY <1>3, <1>4

\* When no handler is under way there is nothing left to be called, and no timer but
\* the controller's, which counts.
LEMMA QuietFacts ==
  ASSUME Inv, Quiet
  PROVE  /\ \A c, o : ~Has("api", c, o)
         /\ \A m \in Monitors : ~InArm(m)
         /\ \A m \in Monitors : active[m] => state # "idle"
         /\ \A k \in Timers : timers[k].st = "running" => state \in Counting
<1>1. LoopInv /\ ActiveOK /\ ProgramOK /\ TimersOK /\ "api" \in Threads
  BY InvFacts, Facts
<1>2. \A t \in Threads : Elems(todo[t]) = {}
  BY <1>1, IdleHas DEF Quiet
<1>3. \A t \in Threads : \A c, o : ~Has(t, c, o)
  BY <1>2 DEF Has
<1>4. \A m \in Monitors : ~InArm(m)
  BY <1>1, <1>3 DEF InArm, Spawned
<1>5. \A m \in Monitors : active[m] => state # "idle"
  BY <1>1, <1>3 DEF ActiveOK
<1>6. ASSUME NEW k \in Timers, timers[k].st = "running" PROVE state \in Counting
  <2>1. timer = k
    BY <1>1, <1>3, <1>6 DEF TimersOK
  <2> QED
    BY <1>1, <2>1, ConstantsAssumption DEF TimersOK
<1> QED
  BY <1>1, <1>3, <1>4, <1>5, <1>6

\* A flow that has ended leaves nothing behind: a monitor is gone, is on its way out, or
\* is remembered for the next arm() to stop.
THEOREM NothingOrphaned ==
  ASSUME Overlap = FALSE
  PROVE  Spec => []NoOrphan
<1>1. Init => Inv
  BY LoopInit, MonitorInit DEF Inv
<1>2. Inv /\ [Next]_vars => Inv'
  BY InvNext
<1>3. Inv => NoOrphan
  <2> SUFFICES ASSUME Inv, Quiet, state = "idle"
               PROVE  /\ \A m \in Monitors : mon[m].alive => mon[m].stop \/ pending[m]
                      /\ \A k \in Timers : timers[k].st # "running"
    BY DEF NoOrphan
  <2>1. KnownOK
    BY InvFacts
  <2>2. \A m \in Monitors : mon[m].alive => mon[m].stop \/ pending[m]
    BY <2>1, QuietFacts DEF KnownOK, GivenUp
  <2>3. \A k \in Timers : timers[k].st # "running"
    BY QuietFacts DEF Counting
  <2> QED
    BY <2>2, <2>3
<1> QED
  BY <1>1, <1>2, <1>3, PTL DEF Spec

\* After close() no monitor, timer or window is left, unless a join was given up.
THEOREM CloseIsComplete ==
  ASSUME Overlap = FALSE
  PROVE  Spec => []CloseReleases
<1>1. Init => Inv
  BY LoopInit, MonitorInit DEF Inv
<1>2. Inv /\ [Next]_vars => Inv'
  BY InvNext
<1>3. Inv => CloseReleases
  <2> SUFFICES ASSUME Inv, closed, Quiet, count["timeouts"] = 0
               PROVE  /\ \A m \in Monitors : mon[m].alive => mon[m].stop
                      /\ \A k \in Timers : timers[k].st # "running"
                      /\ ~win.up \/ win.doomed
    BY DEF CloseReleases
  <2>1. FlowOK /\ CloseOK
    BY InvFacts
  <2>2. (\A m \in Monitors : ~mon[m].alive) /\ (~win.up \/ win.doomed)
    BY <2>1, QuietFacts DEF CloseOK
  <2>3. state = "idle"
    BY <2>1 DEF FlowOK
  <2>4. \A k \in Timers : timers[k].st # "running"
    BY <2>3, QuietFacts DEF Counting
  <2> QED
    BY <2>2, <2>4
<1> QED
  BY <1>1, <1>2, <1>3, PTL DEF Spec

\* While a flow is armed, a key press ends it: the keyboard monitor runs, nobody has
\* asked it to stop, and its callback is that flow's.
THEOREM KeysAreHeard ==
  ASSUME Overlap = FALSE
  PROVE  Spec => []FlowHearsKeys
<1>1. Init => Inv
  BY LoopInit, MonitorInit DEF Inv
<1>2. Inv /\ [Next]_vars => Inv'
  BY InvNext
<1>3. Inv => FlowHearsKeys
  <2> SUFFICES ASSUME Inv, state # "idle"
               PROVE  mon["input"].alive /\ ~mon["input"].stop /\ mon["input"].gen = gen
    BY DEF FlowHearsKeys
  <2>1. ActiveOK /\ FlowOK /\ "input" \in Monitors
    BY InvFacts
  <2>2. active["input"]
    BY <2>1 DEF FlowOK
  <2> QED
    BY <2>1, <2>2 DEF ActiveOK
<1> QED
  BY <1>1, <1>2, <1>3, PTL DEF Spec

-----------------------------------------------------------------------------
(* The countdown.                                                          *)

\* arm() is under way, and its flow is the current one.
Arming == todo["api"] # <<>> /\ loc["api"].gen = gen

\* While a flow runs, only the timer that turns the display off hides the window.
HidesOK ==
    /\ state # "idle" =>
          \A t \in Threads : Has(t, "hide", "window") => Has(t, "settle", "flow") /\ loc[t].gen = gen
    /\ Arming => \A t \in Threads \ {"api"} : ~Has(t, "hide", "window")

\* arm() does not outlast its countdown, and no flow has generation 0, which stands
\* for a window without a callback.
ArmingOK ==
    /\ Arming => state \in {"idle", "initial"}
    /\ state # "idle" => gen > 0
    /\ Has("api", "countdown", "initial") => loc["api"].gen > 0
    /\ Has("api", "close", "window") => closed

\* The countdown n that thread t is showing is the current one, with a timer that
\* was not started yet.
Begun(t, n) ==
    /\ loc[t].gen = gen /\ state = n
    /\ timer # NoTimer /\ loc[t].timer = timer
    /\ timers[timer] = [gen |-> gen, st |-> "new"]

\* A thread that is showing a countdown does nothing else, and starts its timer in
\* the end; if its flow has ended meanwhile, no other one has begun.
ShowsOK ==
    \A t \in Threads, n \in Counting : \A d \in Showing(n) : d \in Elems(todo[t]) =>
        /\ Has(t, "start_timer", n) /\ Elems(todo[t]) \subseteq Showing(n)
        /\ Begun(t, n) \/ (state = "idle" /\ ~Arming)

\* The window is there for the current flow, and nothing is about to take it away.
OnScreen ==
    /\ win.up /\ win.visible /\ win.cancel = gen
    /\ win.hides = 0 /\ ~win.doomed /\ ~Has("window", "destroy", "window")

\* A countdown is being shown by t, is being given up by t, or its timer runs.
Beginning(t) ==
    /\ Has(t, "start_timer", state)
    /\ ~Has(t, "show", state) /\ win.up => win.cancel = gen
    /\ ~Has(t, "send_show", state) => OnScreen
Abandoned(t) ==
    /\ GivingUp \in Elems(todo[t]) /\ loc[t].gen = gen
    /\ timer # NoTimer => timers[timer].st = "new"
    /\ \A u \in Threads : ~Has(u, "start_timer", state)
CountingDown ==
    /\ timer # NoTimer /\ timers[timer] = [gen |-> gen, st |-> "running"]
    /\ OnScreen /\ ~Arming

CountdownOK ==
    state \in Counting =>
        /\ win.hides > 0 => win.doomed \/ Has("window", "destroy", "window")
        /\ (\E t \in Threads : Beginning(t) \/ Abandoned(t)) \/ CountingDown

CancelInv == HidesOK /\ ArmingOK /\ ShowsOK /\ CountdownOK

\* What a step of thread t that leaves C to be called may do to who hides and arms.
Calmly(t, C) ==
    /\ UNCHANGED <<gen, state, closed>> /\ (t = "api" => todo[t] # <<>>)
    /\ \A u \in Threads \ {t} : loc'[u] = loc[u]
    /\ \/ C = {} \/ loc'[t].gen = loc[t].gen
       \/ t # "api" /\ Do("hide", "window") \notin C
    /\ Do("hide", "window") \in C =>
          Has(t, "hide", "window") /\ (Has(t, "settle", "flow") => Do("settle", "flow") \in C)
    /\ Do("countdown", "initial") \in C => Has(t, "countdown", "initial")
    /\ Do("close", "window") \in C => Has(t, "close", "window")

LEMMA CalmHides ==
  ASSUME CancelInv, LoopInv', NEW t \in Threads, NEW C, Goes(t, C), Calmly(t, C)
  PROVE  HidesOK' /\ ArmingOK' /\ (Arming' => Arming)
<1>1. /\ \A u \in Threads \ {t} : todo'[u] = todo[u] /\ \A c, o : Has(u, c, o)' <=> Has(u, c, o)
      /\ \A c, o : Has(t, c, o)' <=> Do(c, o) \in C
  BY OthersSame
<1>2. HidesOK /\ ArmingOK /\ "api" \in Threads /\ ProgramOK'
  BY DEF CancelInv, LoopInv, Threads
<1>3. ASSUME Arming' PROVE Arming
  <2>1. CASE t = "api"
    <3>1. Elems(todo'[t]) # {} /\ Elems(todo'[t]) = C
      <4>1. todo'[t] # <<>>
        BY <1>3, <2>1 DEF Arming
      <4>2. todo'[t] # <<>> => Elems(todo'[t]) # {}
        <5>1. Program(t, todo'[t])
          BY <1>2 DEF ProgramOK
        <5> QED
          BY <5>1, Rest
      <4> QED
        BY <4>1, <4>2 DEF Goes
    <3> QED
      BY <1>3, <2>1, <3>1 DEF Calmly, Arming
  <2>2. CASE t # "api"
    BY <1>1, <1>2, <1>3, <2>2 DEF Calmly, Arming
  <2> QED
    BY <2>1, <2>2
<1>4. HidesOK'
  <2>1. ASSUME state' # "idle", NEW u \in Threads, Has(u, "hide", "window")'
        PROVE  Has(u, "settle", "flow")' /\ loc'[u].gen = gen'
    <3>1. CASE u = t
      <4>1. Do("hide", "window") \in C /\ C # {}
        BY <1>1, <2>1, <3>1
      <4> QED
        BY <1>1, <1>2, <2>1, <3>1, <4>1 DEF Calmly, HidesOK
    <3>2. CASE u # t
      BY <1>1, <1>2, <2>1, <3>2 DEF Calmly, HidesOK
    <3> QED
      BY <3>1, <3>2
  <2>2. ASSUME Arming', NEW u \in Threads \ {"api"} PROVE ~Has(u, "hide", "window")'
    BY <1>1, <1>2, <1>3, <2>2 DEF Calmly, HidesOK
  <2> QED
    BY <2>1, <2>2 DEF HidesOK
<1>5. ArmingOK'
  <2>1. Has("api", "countdown", "initial")' => loc'["api"].gen > 0
    <3>1. CASE t = "api"
      BY <1>1, <1>2, <3>1 DEF Calmly, ArmingOK
    <3>2. CASE t # "api"
      BY <1>1, <1>2, <3>2 DEF Calmly, ArmingOK
    <3> QED
      BY <3>1, <3>2
  <2>2. Has("api", "close", "window")' => closed'
    <3>1. CASE t = "api"
      BY <1>1, <1>2, <3>1 DEF Calmly, ArmingOK
    <3>2. CASE t # "api"
      BY <1>1, <1>2, <3>2 DEF Calmly, ArmingOK
    <3> QED
      BY <3>1, <3>2
  <2> QED
    BY <1>2, <1>3, <2>1, <2>2 DEF Calmly, ArmingOK
<1> QED
  BY <1>3, <1>4, <1>5

\* A thread keeps the calls that show a countdown, or has none left.
LEMMA ShowsStay ==
  ASSUME CancelInv, NEW t \in Threads, NEW C, Goes(t, C), UNCHANGED <<gen, state, timer>>,
         Arming' => Arming, \A u \in Threads \ {t} : loc'[u] = loc[u],
         \A u \in Threads \ {t}, n \in Counting :
             Has(u, "start_timer", n) /\ Begun(u, n) => timers'[timer] = timers[timer],
         \A n \in Counting : \A d \in Showing(n) : d \in C =>
             /\ C \subseteq Elems(todo[t]) /\ Do("start_timer", n) \in C
             /\ loc'[t].gen = loc[t].gen /\ loc'[t].timer = loc[t].timer
             /\ timer # NoTimer => timers'[timer] = timers[timer]
  PROVE  ShowsOK'
<1>1. /\ \A u \in Threads : Elems(todo'[u]) = IF u = t THEN C ELSE Elems(todo[u])
      /\ ShowsOK
  BY DEF Goes, CancelInv
<1> SUFFICES ASSUME NEW u \in Threads, NEW n \in Counting, NEW d \in Showing(n), d \in Elems(todo'[u])
             PROVE  /\ Has(u, "start_timer", n)' /\ Elems(todo'[u]) \subseteq Showing(n)
                    /\ Begun(u, n)' \/ (state' = "idle" /\ ~Arming')
  BY DEF ShowsOK
<1>2. d \in Elems(todo[u]) /\ Elems(todo'[u]) \subseteq Elems(todo[u])
  BY <1>1
<1>3. /\ Has(u, "start_timer", n) /\ Elems(todo[u]) \subseteq Showing(n)
      /\ Begun(u, n) \/ (state = "idle" /\ ~Arming)
  BY <1>1, <1>2 DEF ShowsOK
<1>4. Has(u, "start_timer", n)' /\ Elems(todo'[u]) \subseteq Showing(n)
  BY <1>1, <1>2, <1>3 DEF Has
<1>5. Begun(u, n) => Begun(u, n)'
  <2>1. CASE u = t
    BY <1>1, <2>1 DEF Begun
  <2>2. CASE u # t
    BY <1>3, <2>2 DEF Begun
  <2> QED
    BY <2>1, <2>2
<1> QED
  BY <1>3, <1>4, <1>5

\* A step of a thread that shows no countdown, and does not touch the controller's timer.
LEMMA CountdownLasts ==
  ASSUME CancelInv, NEW t \in Threads, NEW C, Goes(t, C), UNCHANGED <<gen, state, timer>>,
         Arming' => Arming, \A u \in Threads \ {t} : loc'[u] = loc[u],
         timer # NoTimer => timers'[timer] = timers[timer],
         \A n \in Counting : \A d \in Showing(n) : d \notin Elems(todo[t]) /\ d \notin C,
         state \in Counting =>
             /\ GivingUp \in Elems(todo[t]) /\ loc[t].gen = gen => GivingUp \in C /\ loc'[t].gen = gen
             /\ win'.hides > 0 => win'.doomed \/ Has("window", "destroy", "window")'
             /\ OnScreen => OnScreen'
             /\ \A u \in Threads :
                   Beginning(u) /\ ~Has(u, "show", state) /\ win'.up => win'.cancel = gen
  PROVE  CountdownOK'
<1> SUFFICES ASSUME state' \in Counting
             PROVE  /\ win'.hides > 0 => win'.doomed \/ Has("window", "destroy", "window")'
                    /\ (\E u \in Threads : Beginning(u)' \/ Abandoned(u)') \/ CountingDown'
  BY DEF CountdownOK
<1>1. /\ \A u \in Threads : Elems(todo'[u]) = IF u = t THEN C ELSE Elems(todo[u])
      /\ state \in Counting /\ CountdownOK
  BY DEF Goes, CancelInv
<1>2. Do("start_timer", state) \notin Elems(todo[t]) /\ Do("start_timer", state) \notin C
  BY <1>1 DEF Showing
<1>3. ASSUME NEW u \in Threads, Beginning(u) PROVE Beginning(u)'
  <2>1. u # t
    BY <1>2, <1>3 DEF Beginning, Has
  <2>2. \A c, o : Has(u, c, o)' <=> Has(u, c, o)
    BY <1>1, <2>1 DEF Has
  <2> QED
    BY <1>1, <1>3, <2>2 DEF Beginning
<1>4. ASSUME NEW u \in Threads, Abandoned(u) PROVE Abandoned(u)'
  <2>1. GivingUp \in Elems(todo'[u]) /\ loc'[u].gen = gen'
    BY <1>1, <1>4 DEF Abandoned
  <2>2. \A v \in Threads : ~Has(v, "start_timer", state)'
    BY <1>1, <1>2, <1>4 DEF Abandoned, Has
  <2> QED
    BY <1>4, <2>1, <2>2 DEF Abandoned
<1>5. CountingDown => CountingDown'
  BY <1>1 DEF CountingDown
<1> QED
  BY <1>1, <1>3, <1>4, <1>5 DEF CountdownOK

LEMMA CountdownStays ==
  ASSUME CancelInv, NEW t \in Threads, NEW C, Goes(t, C), UNCHANGED <<gen, state, timer, win>>,
         Arming' => Arming, \A u \in Threads \ {t} : loc'[u] = loc[u],
         timer # NoTimer => timers'[timer] = timers[timer],
         \A n \in Counting : \A d \in Showing(n) : d \notin Elems(todo[t]) /\ d \notin C,
         state \in Counting /\ GivingUp \in Elems(todo[t]) /\ loc[t].gen = gen =>
             GivingUp \in C /\ loc'[t].gen = gen,
         t = "window" => (Do("destroy", "window") \in C <=> Has(t, "destroy", "window"))
  PROVE  CountdownOK'
<1>1. Has("window", "destroy", "window")' <=> Has("window", "destroy", "window")
  BY DEF Goes, Has, Threads, Loops
<1>2. OnScreen => OnScreen'
  BY <1>1 DEF OnScreen
<1>3. state \in Counting =>
         /\ win'.hides > 0 => win'.doomed \/ Has("window", "destroy", "window")'
         /\ \A u \in Threads :
               Beginning(u) /\ ~Has(u, "show", state) /\ win'.up => win'.cancel = gen
  BY <1>1 DEF CancelInv, CountdownOK, Beginning
<1> QED
  BY <1>2, <1>3, CountdownLasts

\* A thread whose next call shows no countdown is not about to show one.
LEMMA ShowsNone ==
  ASSUME CancelInv, LoopInv, NEW t \in Threads, NEW c, At(t, c),
         c \notin {"show", "send_show", "verify", "start_timer"}
  PROVE  \A n \in Counting : \A d \in Showing(n) : d \notin Elems(todo[t])
<1> SUFFICES ASSUME NEW n \in Counting, NEW d \in Showing(n), d \in Elems(todo[t]) PROVE FALSE
  OBVIOUS
<1>1. Do(c, Now(t)) \in Elems(todo[t])
  BY Facts, AtCall DEF Called
<1>2. Do(c, Now(t)) \in Showing(n)
  BY <1>1 DEF CancelInv, ShowsOK
<1> QED
  BY <1>2, DoFields DEF Showing

LEMMA ShowsAside ==
  ASSUME CancelInv, LoopInv, LoopInv', NEW t \in Threads, NEW c, At(t, c),
         c \notin {"show", "send_show", "verify", "start_timer"},
         NEW C, Goes(t, C), Calmly(t, C), UNCHANGED <<timer, timers, win>>,
         \A n \in Counting : \A d \in Showing(n) : d \in C => d \in Elems(todo[t]),
         state \in Counting /\ GivingUp \in Elems(todo[t]) /\ loc[t].gen = gen =>
             GivingUp \in C /\ loc'[t].gen = gen,
         t = "window" => (Do("destroy", "window") \in C <=> Has(t, "destroy", "window"))
  PROVE  CancelInv'
<1>1. HidesOK' /\ ArmingOK' /\ (Arming' => Arming)
  BY CalmHides
<1>2. \A n \in Counting : \A d \in Showing(n) : d \notin Elems(todo[t]) /\ d \notin C
  BY ShowsNone
<1>3. UNCHANGED <<gen, state>> /\ \A u \in Threads \ {t} : loc'[u] = loc[u]
  BY DEF Calmly
<1>4. ShowsOK'
  BY <1>1, <1>2, <1>3, ShowsStay
<1>5. CountdownOK'
  BY <1>1, <1>2, <1>3, CountdownStays
<1> QED
  BY <1>1, <1>4, <1>5 DEF CancelInv

\* One call more is made.
LEMMA CallMade ==
  ASSUME CancelInv, LoopInv, LoopInv', NEW t \in Threads, NEW c, At(t, c), Proceed(t),
         c \notin {"show", "send_show", "verify", "start_timer", "hide", "deactivate", "destroy"},
         UNCHANGED <<gen, state, closed, timer, timers, win>>,
         loc'[t].gen = loc[t].gen, \A u \in Threads \ {t} : loc'[u] = loc[u]
  PROVE  CancelInv'
<1> DEFINE C == Elems(todo[t]) \ {Do(c, Now(t))}
<1>1. Goes(t, C) /\ todo[t] # <<>>
  BY ProceedCalls DEF At
<1>2. \A d, o : d # c => (Do(d, o) \in C <=> Has(t, d, o))
  BY DoFields DEF Has
<1>3. C \subseteq Elems(todo[t])
  OBVIOUS
<1>4. GivingUp \in C <=> GivingUp \in Elems(todo[t])
  BY DoFields DEF GivingUp
<1> HIDE DEF C
<1>5. ~Has(t, "hide", "window")
  BY Facts, AtCall DEF Called
<1>6. Calmly(t, C)
  BY <1>1, <1>2, <1>3, <1>5 DEF Calmly, Has
<1>7. Do("destroy", "window") \in C <=> Has(t, "destroy", "window")
  BY <1>2
<1> QED
  BY <1>1, <1>3, <1>4, <1>6, <1>7, ShowsAside

\* The handler of a flow that has ended, or of one that is not given up, returns.
LEMMA CallsOver ==
  ASSUME CancelInv, LoopInv, LoopInv', NEW t \in Threads, NEW c, At(t, c), Return(t),
         c \notin {"show", "send_show", "verify", "start_timer", "hide", "destroy"},
         UNCHANGED <<gen, state, closed, timer, timers, win>>, t # "window",
         GivingUp \in Elems(todo[t]) => loc[t].gen # gen
  PROVE  CancelInv'
<1>1. Goes(t, {}) /\ todo[t] # <<>> /\ loc' = [loc EXCEPT ![t] = Locals]
  BY ReturnCalls DEF Return, At
<1>2. \A u \in Threads \ {t} : loc'[u] = loc[u]
  BY <1>1, OneLocal
<1>3. Calmly(t, {})
  BY <1>1, <1>2 DEF Calmly
<1> QED
  BY <1>1, <1>3, ShowsAside

LEMMA CheckCancels ==
  ASSUME CancelInv, Inv, Inv', NEW t \in Threads, Check(t)
  PROVE  CancelInv'
<1>1. LoopInv /\ LoopInv'
  BY DEF Inv
<1>2. /\ At(t, "check") /\ UNCHANGED <<gen, state, closed, timer, timers, win>>
      /\ (Proceed(t) /\ loc' = loc) \/ Return(t)
  BY DEF Check, ctrl, env
<1>3. CASE Proceed(t) /\ loc' = loc
  BY <1>1, <1>2, <1>3, CallMade
<1>4. CASE Return(t)
  <2>1. t = "api" /\ Do("check", "flow") \in Elems(todo[t]) /\ Program(t, todo[t])
    BY <1>1, <1>2, Facts, AtCall DEF Called, ProgramOK
  <2>2. GivingUp \notin Elems(todo[t])
    BY <2>1, DoFields DEF Program, Whole
  <2> QED
    BY <1>1, <1>2, <1>4, <2>1, <2>2, CallsOver
<1> QED
  BY <1>2, <1>3, <1>4

LEMMA RequestStopCancels ==
  ASSUME CancelInv, Inv, Inv', NEW t \in Threads, RequestStop(t)
  PROVE  CancelInv'
<1>1. LoopInv /\ LoopInv' /\ loc[t] \in LocRec(gen)
  BY LocOf DEF Inv
<1>2. /\ At(t, "request_stop") /\ UNCHANGED <<gen, state, closed, timer, timers, win>> /\ Proceed(t)
      /\ loc' = [loc EXCEPT ![t] = [loc[t] EXCEPT !.id = mon[Now(t)].id]]
  BY DEF RequestStop, ctrl
<1>3. loc'[t].gen = loc[t].gen /\ \A u \in Threads \ {t} : loc'[u] = loc[u]
  BY <1>1, <1>2, OneLocal DEF LocRec
<1> QED
  BY <1>1, <1>2, <1>3, CallMade

LEMMA JoinCancels ==
  ASSUME CancelInv, Inv, Inv', NEW t \in Threads, Join(t)
  PROVE  CancelInv'
<1>1. LoopInv /\ LoopInv' /\ loc[t] \in LocRec(gen)
  BY LocOf DEF Inv
<1>2. /\ At(t, "join") /\ UNCHANGED <<gen, state, closed, timer, timers, win>> /\ Proceed(t)
      /\ \E x : loc' = [loc EXCEPT ![t] = [loc[t] EXCEPT !.ok = x]]
  BY DEF Join, ctrl
<1>3. loc'[t].gen = loc[t].gen /\ \A u \in Threads \ {t} : loc'[u] = loc[u]
  BY <1>1, <1>2, OneLocal DEF LocRec
<1> QED
  BY <1>1, <1>2, <1>3, CallMade

LEMMA RecordStopCancels ==
  ASSUME CancelInv, Inv, Inv', NEW t \in Threads, RecordStop(t)
  PROVE  CancelInv'
<1>1. LoopInv /\ LoopInv' /\ loc[t] \in LocRec(gen)
  BY LocOf DEF Inv
<1>2. /\ At(t, "record_stop") /\ UNCHANGED <<gen, state, closed, timer, timers, win>>
      /\ \/ Return(t) /\ \E n \in DOMAIN todo[t] : todo[t][n].call = "check"
         \/ Proceed(t) /\ loc' = [loc EXCEPT ![t] = [loc[t] EXCEPT !.id = 0, !.ok = FALSE]]
  BY DEF RecordStop, env
<1>3. CASE Proceed(t) /\ loc' = [loc EXCEPT ![t] = [loc[t] EXCEPT !.id = 0, !.ok = FALSE]]
  <2>1. loc'[t].gen = loc[t].gen /\ \A u \in Threads \ {t} : loc'[u] = loc[u]
    BY <1>1, <1>3, OneLocal DEF LocRec
  <2> QED
    BY <1>1, <1>2, <1>3, <2>1, CallMade
<1>4. CASE Return(t) /\ \E n \in DOMAIN todo[t] : todo[t][n].call = "check"
  <2>1. PICK d \in Elems(todo[t]) : d.call = "check"
    BY <1>4 DEF Elems
  <2>2. Program(t, todo[t]) /\ d \in Own(t)
    BY <1>1, <1>2, <2>1, Facts, NextCall DEF ProgramOK, At
  <2>3. t = "api"
    BY <2>1, <2>2, Kinds
  <2>4. GivingUp \notin Elems(todo[t])
    BY <2>1, <2>2 DEF Program, Whole
  <2> QED
    BY <1>1, <1>2, <1>4, <2>3, <2>4, CallsOver
<1> QED
  BY <1>2, <1>3, <1>4

LEMMA StartCancels ==
  ASSUME CancelInv, Inv, Inv', NEW t \in Threads, Start(t)
  PROVE  CancelInv'
<1>1. LoopInv /\ LoopInv'
  BY DEF Inv
<1>2. At(t, "start") /\ UNCHANGED <<gen, state, closed, timer, timers, win, loc>>
  BY DEF Start, ctrl, env
<1>3. PICK X : X \subseteq {Do("request_stop", Now(t)), Do("join", Now(t))}
               /\ Goes(t, (Elems(todo[t]) \ {Do("start", Now(t))}) \cup X)
  <2>1. CASE Goes(t, Elems(todo[t]) \ {Do("start", Now(t))})
    <3>1. (Elems(todo[t]) \ {Do("start", Now(t))}) \cup {} = Elems(todo[t]) \ {Do("start", Now(t))}
      OBVIOUS
    <3> QED
      BY <2>1, <3>1
  <2> QED
    BY <1>1, <2>1, StartCallsLeft
<1> DEFINE C == (Elems(todo[t]) \ {Do("start", Now(t))}) \cup X
<1>4. \A d, o : d \notin {"start", "request_stop", "join"} => (Do(d, o) \in C <=> Has(t, d, o))
  BY <1>3, DoFields DEF Has
<1>5. \A n \in Counting : \A d \in Showing(n) : d \in C => d \in Elems(todo[t])
  BY <1>4 DEF Showing, Has
<1>6. GivingUp \in C <=> GivingUp \in Elems(todo[t])
  BY <1>4 DEF GivingUp, Has
<1>7. Goes(t, C)
  BY <1>3
<1> HIDE DEF C
<1>8. ~Has(t, "hide", "window") /\ todo[t] # <<>> /\ t = "api"
  BY <1>1, <1>2, Facts, AtCall DEF Called
<1>9. Calmly(t, C)
  BY <1>2, <1>4, <1>8 DEF Calmly
<1> QED
  BY <1>1, <1>2, <1>5, <1>6, <1>7, <1>8, <1>9, ShowsAside

\* A call of arm() fails and its flow is given up.
LEMMA ArmFails ==
  ASSUME CancelInv, LoopInv, LoopInv', NEW m \in Monitors, NEW c, At("api", c), Now("api") = m,
         c \in {"spawn", "ready"}, StartFails("api"),
         UNCHANGED <<gen, state, closed, timer, timers, win, loc>>
  PROVE  CancelInv'
<1> DEFINE C == Stops(m) \cup {GivingUp}
           t == "api"
<1>1. Goes(t, C) /\ t \in Threads /\ todo[t] # <<>>
  BY StartFailsCalls DEF Threads, At
<1>2. \A d, o : Do(d, o) \in C => d \in {"request_stop", "join", "record_stop", "deactivate"}
  BY DoFields DEF Stops, GivingUp
<1>3. \A n \in Counting : \A d \in Showing(n) : d \notin C
  BY <1>2 DEF Showing
<1>4. GivingUp \in C
  OBVIOUS
<1> HIDE DEF C
<1>5. Calmly(t, C)
  BY <1>1, <1>2 DEF Calmly
<1> QED
  BY <1>1, <1>3, <1>4, <1>5, ShowsAside

LEMMA SpawnCancels ==
  ASSUME CancelInv, Inv, Inv', NEW t \in Threads, Spawn(t)
  PROVE  CancelInv'
<1>1. LoopInv /\ LoopInv'
  BY DEF Inv
<1>2. /\ At(t, "spawn") /\ UNCHANGED <<gen, state, closed, timer, timers, win, loc>>
      /\ Proceed(t) \/ StartFails(t)
  BY DEF Spawn, ctrl
<1>3. t = "api" /\ Now(t) \in Monitors
  BY <1>1, <1>2, Facts, AtCall DEF Called
<1> QED
  BY <1>1, <1>2, <1>3, CallMade, ArmFails

LEMMA ReadyCancels ==
  ASSUME CancelInv, Inv, Inv', NEW t \in Threads, Ready(t)
  PROVE  CancelInv'
<1>1. LoopInv /\ LoopInv'
  BY DEF Inv
<1>2. /\ At(t, "ready") /\ UNCHANGED <<gen, state, closed, timer, timers, win, loc>>
      /\ Proceed(t) \/ StartFails(t)
  BY DEF Ready, ctrl, env
<1>3. t = "api" /\ Now(t) \in Monitors
  BY <1>1, <1>2, Facts, AtCall DEF Called
<1> QED
  BY <1>1, <1>2, <1>3, CallMade, ArmFails

LEMMA RecordStartCancels ==
  ASSUME CancelInv, Inv, Inv', NEW t \in Threads, RecordStart(t)
  PROVE  CancelInv'
<1>1. LoopInv /\ LoopInv'
  BY DEF Inv
<1>2. At(t, "record_start") /\ UNCHANGED <<gen, state, closed, timer, timers, win, loc>>
  BY DEF RecordStart, env
<1>3. /\ t = "api" /\ Now(t) \in Monitors
      /\ Proceed(t) \/ Goes(t, StopNew(Now(t)))
  BY <1>1, RecordStartCalls
<1>4. CASE Proceed(t)
  BY <1>1, <1>2, <1>4, CallMade
<1>5. CASE Goes(t, StopNew(Now(t)))
  <2> DEFINE C == StopNew(Now(t))
  <2>1. \A d, o : Do(d, o) \in C => d \in {"request_stop", "join", "record_stop", "deactivate"}
    BY DoFields DEF StopNew, Stops, GivingUp
  <2>2. \A n \in Counting : \A d \in Showing(n) : d \notin C
    BY <2>1 DEF Showing
  <2>3. t = "api" /\ todo[t] # <<>> /\ Do("record_start", Now(t)) \in Elems(todo[t])
        /\ Program(t, todo[t])
    BY <1>1, <1>2, Facts, AtCall DEF Called, ProgramOK
  <2>4. GivingUp \notin Elems(todo[t])
    BY <2>3, DoFields DEF Program, Whole
  <2> HIDE DEF C
  <2>5. Calmly(t, C)
    BY <1>2, <2>1, <2>3 DEF Calmly
  <2>6. Goes(t, C)
    BY <1>5 DEF C
  <2> QED
    BY <1>1, <1>2, <2>2, <2>3, <2>4, <2>5, <2>6, ShowsAside
<1> QED
  BY <1>3, <1>4, <1>5

LEMMA TurnOffCancels ==
  ASSUME CancelInv, Inv, Inv', NEW t \in Threads, TurnOff(t)
  PROVE  CancelInv'
<1>1. LoopInv /\ LoopInv'
  BY DEF Inv
<1>2. /\ At(t, "turn_off") /\ UNCHANGED <<gen, state, closed, timer, timers, win, loc>>
      /\ Proceed(t) \/ GiveUp(t)
  BY DEF TurnOff, ctrl
<1>3. CASE Proceed(t)
  BY <1>1, <1>2, <1>3, CallMade
<1>4. CASE GiveUp(t)
  <2>1. t \in Timers /\ t \notin {"input", "window", "api"} /\ todo[t] # <<>>
    BY <1>1, <1>2, Facts, AtCall, ConstantsAssumption DEF Called
  <2>2. Goes(t, {GivingUp})
    BY <1>1, <1>4, <2>1, GiveUpCalls
  <2>3. \A d, o : Do(d, o) \in {GivingUp} => d = "deactivate"
    BY DoFields DEF GivingUp
  <2>4. \A n \in Counting : \A d \in Showing(n) : d \notin {GivingUp}
    BY <2>3 DEF Showing
  <2>5. Calmly(t, {GivingUp})
    BY <1>2, <2>1, <2>3 DEF Calmly
  <2> QED
    BY <1>1, <1>2, <2>1, <2>2, <2>4, <2>5, ShowsAside
<1> QED
  BY <1>2, <1>3, <1>4

\* The countdown of the power monitor is still to come.
LEMMA PowerOnCancels ==
  ASSUME CancelInv, Inv, Inv', PowerOn
  PROVE  CancelInv'
<1> DEFINE t == "power"
           C == {Do("countdown", "reprotection")}
<1>1. LoopInv /\ LoopInv' /\ Goes(t, C) /\ t \in Threads
  BY PowerOnStep, Facts DEF Inv
<1>2. /\ Idle(t) /\ UNCHANGED <<gen, state, closed, timer, timers, win>>
      /\ loc' = [loc EXCEPT ![t] = [loc[t] EXCEPT !.gen = mon["power"].gen]]
  BY DEF PowerOn, ctrl
<1>3. \A u \in Threads \ {t} : loc'[u] = loc[u]
  BY <1>1, <1>2, OneLocal
<1>4. Elems(todo[t]) = {}
  BY <1>1, <1>2, Facts, IdleHas
<1>5. \A d, o : Do(d, o) \in C => d = "countdown" /\ o = "reprotection"
  BY DoFields
<1>6. \A n \in Counting : \A d \in Showing(n) : d \notin C
  BY <1>5 DEF Showing
<1> HIDE DEF C
<1>7. Calmly(t, C)
  BY <1>2, <1>3, <1>5 DEF Calmly
<1>8. HidesOK' /\ ArmingOK' /\ (Arming' => Arming)
  BY <1>1, <1>7, CalmHides
<1>9. ShowsOK'
  BY <1>1, <1>2, <1>3, <1>6, <1>8, ShowsStay
<1>10. CountdownOK'
  BY <1>1, <1>2, <1>3, <1>4, <1>6, <1>8, CountdownStays
<1> QED
  BY <1>8, <1>9, <1>10 DEF CancelInv

\* The display is off.
LEMMA SettleCancels ==
  ASSUME CancelInv, Inv, Inv', NEW t \in Threads, Settle(t)
  PROVE  CancelInv'
<1>1. LoopInv /\ LoopInv' /\ TimersOK /\ HidesOK /\ ArmingOK /\ ShowsOK /\ ProgramOK
  BY DEF Inv, LoopInv, CancelInv
<1>2. /\ At(t, "settle") /\ Return(t) /\ UNCHANGED <<gen, timer, closed, timers, win>>
      /\ state' = IF Current(loc[t].gen) THEN "waiting" ELSE state
  BY DEF Settle, env
<1>3. t \in Timers /\ t \notin {"api", "window"} /\ Do("settle", "flow") \in Elems(todo[t])
  BY <1>1, <1>2, Facts, AtCall, ConstantsAssumption DEF Called
<1>4. CASE ~Current(loc[t].gen)
  <2>1. GivingUp \notin Elems(todo[t])
    BY <1>1, <1>3, DoFields DEF ProgramOK, Program, Whole
  <2> QED
    BY <1>1, <1>2, <1>3, <1>4, <2>1, CallsOver
<1>5. CASE Current(loc[t].gen)
  <2>1. state = "turning_off" /\ state' = "waiting" /\ loc[t].gen = gen
    BY <1>1, <1>2, <1>3, <1>5 DEF TimersOK, Current, Has
  <2>2. Goes(t, {}) /\ loc' = [loc EXCEPT ![t] = Locals]
    BY <1>1, <1>2, ReturnCalls DEF Return
  <2>3. \A u \in Threads \ {t} : loc'[u] = loc[u]
    BY <1>1, <2>2, OneLocal
  <2>4. /\ \A u \in Threads \ {t} : todo'[u] = todo[u] /\ \A c, o : Has(u, c, o)' <=> Has(u, c, o)
        /\ \A c, o : ~Has(t, c, o)'
    BY <2>2, OthersSame
  <2>5. "api" \in Threads \ {t} /\ ~Arming
    BY <1>1, <1>3, <2>1 DEF ArmingOK, Threads
  <2>6. ~Arming'
    BY <1>2, <2>3, <2>4, <2>5 DEF Arming
  <2>7. HidesOK'
    <3>1. ASSUME NEW u \in Threads, Has(u, "hide", "window")' PROVE FALSE
      <4>1. u # t /\ Has(u, "hide", "window")
        BY <2>4, <3>1
      <4>2. Has(u, "settle", "flow") /\ loc[u].gen = gen
        BY <1>1, <2>1, <4>1 DEF HidesOK
      <4> QED
        BY <1>1, <1>3, <2>1, <4>1, <4>2 DEF TimersOK, Has
    <3> QED
      BY <3>1 DEF HidesOK
  <2>8. ArmingOK'
    BY <1>1, <1>2, <2>1, <2>3, <2>4, <2>5, <2>6 DEF ArmingOK
  <2>9. ShowsOK'
    <3>1. ASSUME NEW u \in Threads, NEW n \in Counting, NEW d \in Showing(n), d \in Elems(todo'[u])
          PROVE  FALSE
      <4>1. d \in Elems(todo[u])
        BY <2>2, <3>1 DEF Goes
      <4> QED
        BY <1>1, <2>1, <3>1, <4>1 DEF ShowsOK, Begun, Counting
    <3> QED
      BY <3>1 DEF ShowsOK
  <2>10. CountdownOK'
    BY <2>1 DEF CountdownOK, Counting
  <2> QED
    BY <2>7, <2>8, <2>9, <2>10 DEF CancelInv
<1> QED
  BY <1>4, <1>5

\* The monitors' threads and the display have no part in a countdown.
LEMMA NothingCancels ==
  ASSUME CancelInv, UNCHANGED <<gen, state, closed, timer, timers, win, todo, loc>>
  PROVE  CancelInv'
BY DEF CancelInv, HidesOK, ArmingOK, ShowsOK, CountdownOK, Arming, Begun, OnScreen, Beginning,
       Abandoned, CountingDown, Has

\* The flow ends.
LEMMA FlowEnds ==
  ASSUME CancelInv, LoopInv, LoopInv', NEW t \in Threads, NEW rest, NEW g, EndFlow(t, rest, g),
         NEW R, Goes(t, ToEnd(StillToStop) \cup R), closed => closed',
         \A c, o : Do(c, o) \in R => c \notin {"show", "send_show", "verify", "start_timer"},
         g = 0 \/ (g = gen + 1 /\ \A u \in Threads \ {t} : Idle(u)),
         t = "api" /\ Do("countdown", "initial") \in R => g > 0,
         t = "api" /\ Do("close", "window") \in R => closed'
  PROVE  CancelInv'
<1>1. /\ gen' = gen + 1 /\ state' = "idle" /\ gen \in Nat /\ loc'[t].gen = g
      /\ \A u \in Threads \ {t} : loc'[u] = loc[u]
  BY EndFlowLocals, Facts DEF EndFlow
<1>2. /\ \A u \in Threads \ {t} : todo'[u] = todo[u] /\ \A c, o : Has(u, c, o)' <=> Has(u, c, o)
      /\ \A c, o : Has(t, c, o)' <=> Do(c, o) \in ToEnd(StillToStop) \cup R
      /\ \A u \in Threads \ {t} : Elems(todo'[u]) = Elems(todo[u])
      /\ Elems(todo'[t]) = ToEnd(StillToStop) \cup R
  BY OthersSame DEF Goes
<1>3. "api" \in Threads /\ loc["api"].gen \in 0..gen /\ ArmingOK /\ ShowsOK /\ ProgramOK
  BY LocOf, Facts DEF LocRec, CancelInv
<1>4. Arming' => t = "api" /\ g = gen + 1
  <2>1. t # "api" => loc'["api"].gen # gen'
    BY <1>1, <1>3
  <2> QED
    BY <1>1, <2>1 DEF Arming
<1>5. ASSUME Arming', NEW u \in Threads \ {"api"} PROVE Elems(todo'[u]) = {}
  <2>1. u # t /\ g # 0
    BY <1>1, <1>4, <1>5
  <2>2. Idle(u)
    BY <2>1
  <2>3. Elems(todo[u]) = {}
    BY <1>3, <2>2, IdleHas
  <2> QED
    BY <1>2, <2>1, <2>3
<1>6. HidesOK'
  BY <1>1, <1>5 DEF HidesOK, Has
<1>7. \A c, o : Do(c, o) \in ToEnd(StillToStop) =>
         c \in {"hide", "request_stop", "join", "record_stop"}
  BY DoFields DEF ToEnd, ToStop, Stops
<1>8. ArmingOK'
  <2>1. Has("api", "countdown", "initial")' => loc'["api"].gen > 0
    BY <1>1, <1>2, <1>3, <1>7 DEF ArmingOK
  <2>2. Has("api", "close", "window")' => closed'
    BY <1>2, <1>3, <1>7 DEF ArmingOK
  <2> QED
    BY <1>1, <2>1, <2>2 DEF ArmingOK
<1>9. ShowsOK'
  <2> SUFFICES ASSUME NEW u \in Threads, NEW n \in Counting, NEW d \in Showing(n), d \in Elems(todo'[u])
               PROVE  /\ Has(u, "start_timer", n)' /\ Elems(todo'[u]) \subseteq Showing(n)
                      /\ Begun(u, n)' \/ (state' = "idle" /\ ~Arming')
    BY DEF ShowsOK
  <2>1. u # t
    <3>1. d \in ToEnd(StillToStop) \cup R => FALSE
      BY <1>7, DoFields DEF Showing
    <3> QED
      BY <1>2, <3>1
  <2>2. Has(u, "start_timer", n)' /\ Elems(todo'[u]) \subseteq Showing(n)
    BY <1>2, <1>3, <2>1 DEF ShowsOK
  <2>3. ~Arming'
    <3>1. ASSUME Arming' PROVE FALSE
      <4>1. u \in Threads \ {"api"}
        BY <1>4, <2>1, <3>1
      <4>2. Elems(todo'[u]) = {}
        BY <1>5, <3>1, <4>1
      <4> QED
        BY <4>2
    <3> QED
      BY <3>1
  <2> QED
    BY <1>1, <2>2, <2>3
<1>10. CountdownOK'
  BY <1>1 DEF CountdownOK, Counting
<1> QED
  BY <1>6, <1>8, <1>9, <1>10 DEF CancelInv

LEMMA ArmCancels ==
  ASSUME Overlap = FALSE, CancelInv, Inv, Inv', Arm
  PROVE  CancelInv'
<1>1. LoopInv /\ LoopInv' /\ Goes("api", ToEnd(StillToStop) \cup ArmSet) /\ gen \in Nat
      /\ "api" \in Threads
  BY ArmStep, Facts DEF Inv
<1>2. EndFlow("api", ArmCalls, gen + 1) /\ ~closed /\ \A t \in Threads : Idle(t)
  BY DEF Arm, Quiet
<1>3. \A c, o : Do(c, o) \in ArmSet => c \notin {"show", "send_show", "verify", "start_timer", "close"}
  BY DoFields DEF ArmSet, Starts
<1>4. gen + 1 > 0
  BY <1>1
<1> QED
  BY <1>1, <1>2, <1>3, <1>4, FlowEnds

LEMMA CloseCancels ==
  ASSUME CancelInv, Inv, Inv', Close
  PROVE  CancelInv'
<1>1. LoopInv /\ LoopInv' /\ Goes("api", ToEnd(StillToStop) \cup CloseSet) /\ "api" \in Threads
  BY CloseStep, Facts DEF Inv
<1>2. EndFlow("api", <<Do("close", "window"), Do("join", "window")>>, 0) /\ closed'
  BY DEF Close
<1>3. \A c, o : Do(c, o) \in CloseSet =>
         c \notin {"show", "send_show", "verify", "start_timer", "countdown"}
  BY DoFields DEF CloseSet
<1> QED
  BY <1>1, <1>2, <1>3, FlowEnds

LEMMA KeyDownCancels ==
  ASSUME CancelInv, Inv, Inv', KeyDown
  PROVE  CancelInv'
<1>1. LoopInv /\ LoopInv' /\ Goes("input", ToEnd(StillToStop) \cup {}) /\ "input" \in Threads
  BY KeyDownStep, Facts DEF Inv
<1>2. EndFlow("input", <<>>, 0) /\ closed' = closed
  BY DEF KeyDown
<1> QED
  BY <1>1, <1>2, FlowEnds

LEMMA DeactivateCancels ==
  ASSUME CancelInv, Inv, Inv', NEW t \in Threads, Deactivate(t)
  PROVE  CancelInv'
<1>1. LoopInv /\ LoopInv'
  BY DEF Inv
<1>2. CASE gen = loc[t].gen
  <2>1. Goes(t, ToEnd(StillToStop) \cup {})
    BY <1>1, <1>2, DeactivateStep
  <2>2. EndFlow(t, <<>>, 0) /\ closed' = closed
    BY <1>2 DEF Deactivate
  <2> QED
    BY <1>1, <2>1, <2>2, FlowEnds
<1>3. CASE gen # loc[t].gen
  <2>1. /\ At(t, "deactivate") /\ Return(t) /\ UNCHANGED <<gen, state, closed, timer, timers, win>>
    BY <1>3 DEF Deactivate, env
  <2>2. t # "window"
    BY <1>1, <2>1, Facts, AtCall DEF Called
  <2> QED
    BY <1>1, <1>3, <2>1, <2>2, CallsOver
<1> QED
  BY <1>2, <1>3

\* A click on the window of a countdown ends the flow.
LEMMA ClickCancels ==
  ASSUME CancelInv, Inv, Inv', NEW rest, Click(rest), NEW R, R \subseteq {Do("destroy", "window")},
         Goes("window", Clicked(R))
  PROVE  CancelInv'
<1> DEFINE t == "window"
<1>1. LoopInv /\ LoopInv' /\ t \in Threads /\ win \in WinType /\ FlowOK /\ ProgramOK
      /\ CountdownOK /\ ArmingOK
  BY Facts DEF Inv, MonitorInv, CancelInv
<1>2. Idle(t) /\ ~win.doomed /\ win' = Hidden(win) /\ UNCHANGED <<closed, timers>>
  BY DEF Click
<1>3. \A c, o : Do(c, o) \in R => c = "destroy"
  BY DoFields
<1>4. CASE win.cancel # 0 /\ Current(win.cancel)
  <2>1. EndFlow(t, rest, 0) /\ Goes(t, ToEnd(StillToStop) \cup R)
    BY <1>4 DEF Click, Clicked
  <2> QED
    BY <1>1, <1>2, <1>3, <2>1, FlowEnds
<1>5. CASE ~(win.cancel # 0 /\ Current(win.cancel))
  <2>1. UNCHANGED <<gen, timer, state, loc>> /\ Goes(t, R)
    BY <1>5 DEF Click, Clicked
  <2>2. Elems(todo[t]) = {} /\ ~Has(t, "destroy", "window")
    <3>1. Elems(todo[t]) = {}
      BY <1>1, <1>2, IdleHas
    <3> QED
      BY <3>1 DEF Has
  <2>3. \A n \in Counting : \A d \in Showing(n) : d \notin R
    BY <1>3 DEF Showing
  <2>4. Calmly(t, R)
    BY <1>2, <1>3, <2>1 DEF Calmly
  <2>5. HidesOK' /\ ArmingOK' /\ (Arming' => Arming)
    BY <1>1, <2>1, <2>4, CalmHides
  <2>6. ShowsOK'
    BY <1>1, <1>2, <2>1, <2>3, <2>5, ShowsStay
  <2>7. state \in Counting => win.cancel # gen
    BY <1>1, <1>5 DEF ArmingOK, FlowOK, Current, Counting
  <2>8. state \in Counting =>
           /\ win'.hides > 0 => win'.doomed \/ Has("window", "destroy", "window")'
           /\ OnScreen => OnScreen'
           /\ \A u \in Threads :
                 Beginning(u) /\ ~Has(u, "show", state) /\ win'.up => win'.cancel = gen
    <3>1. win'.hides = win.hides /\ win'.up = win.up
      BY <1>1, <1>2 DEF WinType, Hidden
    <3> QED
      BY <1>1, <1>2, <2>2, <2>7, <3>1 DEF CountdownOK, OnScreen, Beginning
  <2>9. CountdownOK'
    <3> HIDE DEF t
    <3>1. GivingUp \notin Elems(todo[t])
      BY <2>2
    <3> QED
      BY <1>1, <1>2, <2>1, <2>2, <2>3, <2>5, <2>8, <3>1, CountdownLasts
  <2> QED
    BY <2>5, <2>6, <2>9 DEF CancelInv
<1> QED
  BY <1>4, <1>5

LEMMA ClicksCancel ==
  ASSUME CancelInv, Inv, Inv', CancelClick \/ CloseClick
  PROVE  CancelInv'
<1>1. LoopInv
  BY DEF Inv
<1>2. CASE CancelClick
  BY <1>1, <1>2, CancelClickStep, ClickCancels DEF CancelClick
<1>3. CASE CloseClick
  BY <1>1, <1>3, CloseClickStep, ClickCancels DEF CloseClick
<1> QED
  BY <1>2, <1>3

LEMMA HideCancels ==
  ASSUME CancelInv, Inv, Inv', NEW t \in Threads, Hide(t)
  PROVE  CancelInv'
<1> DEFINE C == Elems(todo[t]) \ {Do("hide", Now(t))}
<1>1. LoopInv /\ LoopInv' /\ HidesOK /\ TimersOK /\ loc[t] \in LocRec(gen)
  BY LocOf, Facts DEF Inv, CancelInv
<1>2. /\ At(t, "hide") /\ Proceed(t) /\ UNCHANGED <<gen, state, closed, timer>>
      /\ loc' = [loc EXCEPT ![t] = [loc[t] EXCEPT !.timer = NoTimer]]
  BY DEF Hide, ctrl
<1>3. Goes(t, C) /\ todo[t] # <<>> /\ Has(t, "hide", "window") /\ Now(t) = "window"
  BY <1>1, <1>2, ProceedCalls, Facts, AtCall DEF At, Called, Has
<1>4. state \notin Counting
  BY <1>1, <1>3 DEF HidesOK, TimersOK, Counting
<1>5. loc'[t].gen = loc[t].gen /\ \A u \in Threads \ {t} : loc'[u] = loc[u]
  BY <1>1, <1>2, OneLocal DEF LocRec
<1>6. Do("hide", "window") \notin C /\ \A c, o : Do(c, o) \in C => Has(t, c, o)
  BY <1>3 DEF Has
<1>7. \A n \in Counting : \A d \in Showing(n) : d \notin C
  BY <1>1, <1>2, ShowsNone
<1> HIDE DEF C
<1>8. Calmly(t, C)
  BY <1>2, <1>3, <1>5, <1>6 DEF Calmly
<1>9. HidesOK' /\ ArmingOK' /\ (Arming' => Arming)
  BY <1>1, <1>3, <1>8, CalmHides
<1>10. ShowsOK'
  <2>1. \A u \in Threads \ {t}, n \in Counting : ~Begun(u, n)
    BY <1>4 DEF Begun
  <2> QED
    BY <1>2, <1>3, <1>5, <1>7, <1>9, <2>1, ShowsStay
<1>11. CountdownOK'
  BY <1>2, <1>4 DEF CountdownOK
<1> QED
  BY <1>9, <1>10, <1>11 DEF CancelInv

\* A countdown is begun by the one thread that may, when nobody is about to hide the window.
LEMMA CountdownBegins ==
  ASSUME CancelInv, Inv, Inv', NEW t \in Threads, At(t, "countdown"), MayCount(t), Drained,
         NEW C, Goes(t, C), C = Showing(Now(t)) \/ C = {GivingUp},
         UNCHANGED <<gen, closed, win>>, state' = Now(t), loc'[t].gen = loc[t].gen,
         \A u \in Threads \ {t} : loc'[u] = loc[u]
  PROVE  /\ HidesOK' /\ ArmingOK'
         /\ \A u \in Threads \ {t}, n \in Counting : \A d \in Showing(n) : d \notin Elems(todo'[u])
         /\ win'.hides > 0 => win'.doomed \/ Has("window", "destroy", "window")'
<1>1. /\ LoopInv /\ LoopInv' /\ HidesOK /\ ArmingOK /\ ShowsOK /\ TimersOK /\ StopsOK /\ FlowOK
      /\ ActiveOK /\ ProgramOK /\ "window" \in Threads /\ "api" \in Threads /\ win \in WinType
  BY Facts DEF Inv, MonitorInv, CancelInv
<1>2. /\ \/ t = "api" /\ Now(t) = "initial" /\ state = "idle"
         \/ t = "power" /\ Now(t) = "reprotection" /\ state = "waiting"
      /\ gen = loc[t].gen /\ ~closed /\ todo[t] # <<>> /\ ~Has(t, "hide", "window")
      /\ Has(t, "countdown", Now(t))
  BY <1>1, AtCall DEF Called, MayCount, Current, Expected, Has
<1>3. /\ \A u \in Threads \ {t} : todo'[u] = todo[u] /\ \A c, o : Has(u, c, o)' <=> Has(u, c, o)
      /\ \A c, o : Has(t, c, o)' <=> Do(c, o) \in C
  BY OthersSame
<1>4. \A c, o : Do(c, o) \in C => c \in {"show", "send_show", "verify", "start_timer", "deactivate"}
  BY DoFields DEF Showing, GivingUp
<1>5. t = "api" => Arming
  BY <1>2 DEF Arming
<1>6. \A u \in Threads : ~Has(u, "hide", "window")
  BY <1>1, <1>2, <1>5 DEF HidesOK, TimersOK
<1>7. HidesOK'
  BY <1>3, <1>4, <1>6 DEF HidesOK
<1>8. ArmingOK'
  <2>1. CASE t = "api"
    BY <1>1, <1>2, <1>3, <1>4, <2>1 DEF ArmingOK
  <2>2. CASE t = "power"
    <3>1. "api" \in Threads \ {t}
      BY <1>1, <2>2
    <3>2. ~Arming'
      BY <1>1, <1>2, <1>3, <2>2, <3>1 DEF Arming, ArmingOK
    <3> QED
      BY <1>1, <1>2, <1>3, <2>2, <3>1, <3>2 DEF ArmingOK
  <2> QED
    BY <1>2, <2>1, <2>2
<1>9. ASSUME NEW u \in Threads \ {t}, NEW n \in Counting, NEW d \in Showing(n), d \in Elems(todo'[u])
      PROVE  FALSE
  <2>1. Begun(u, n) \/ (state = "idle" /\ ~Arming)
    BY <1>1, <1>3, <1>9 DEF ShowsOK
  <2> QED
    BY <1>2, <1>5, <2>1 DEF Begun, Counting
<1>10. ASSUME win'.hides > 0 PROVE Has("window", "destroy", "window")'
  <2>1. todo["window"] # <<>> /\ t # "window"
    BY <1>1, <1>2, <1>10 DEF Drained, Idle, WinType
  <2>2. PICK d \in Elems(todo["window"]) : d \in Own("window")
    BY <1>1, <2>1, NextCall
  <2>3. \A m \in Monitors : ~Stopping("window", m)
    BY <1>1, <1>2, <2>1 DEF StopsOK, FlowOK, ActiveOK
  <2>4. d # Do("hide", "window") /\ \A m \in Monitors : d \notin Stops(m)
    BY <1>1, <1>6, <2>2, <2>3 DEF Has, Stopping, Stops
  <2>5. d = Do("destroy", "window")
    BY <1>1, <2>2, <2>4, OwnCalls, ConstantsAssumption
  <2>6. Has("window", "destroy", "window")
    BY <2>2, <2>5 DEF Has
  <2> QED
    BY <1>1, <1>3, <2>1, <2>6
<1> QED
  BY <1>7, <1>8, <1>9, <1>10

LEMMA CountdownCancels ==
  ASSUME CancelInv, Inv, Inv', NEW t \in Threads, Countdown(t)
  PROVE  CancelInv'
<1>1. LoopInv /\ LoopInv' /\ loc \in LocType(gen) /\ timers \in TimersType /\ loc[t] \in LocRec(gen)
      /\ gen \in Nat /\ NoTimer \notin Timers
  BY LocOf, Facts, ConstantsAssumption DEF Inv
<1>2. At(t, "countdown")
  BY DEF Countdown
<1>3. PICK n \in Counting :
        n = Now(t) /\ ((t = "api" /\ n = "initial") \/ (t = "power" /\ n = "reprotection"))
  BY <1>1, CountdownCalls DEF Counting
<1>4. /\ Drained /\ UNCHANGED <<gen, closed, win>>
      /\ \/ ~MayCount(t) /\ Return(t) /\ UNCHANGED <<timer, state, timers>>
         \/ /\ MayCount(t) /\ state' = n
            /\ \E k \in Timers :
                  /\ timers' = [timers EXCEPT ![k] = [gen |-> gen, st |-> "new"]]
                  /\ timer' = k /\ loc' = [loc EXCEPT ![t].timer = k]
            /\ Then(t, <<Do("show", n), Do("send_show", n), Do("verify", n), Do("start_timer", n)>>)
         \/ MayCount(t) /\ state' = n /\ GiveUp(t) /\ UNCHANGED <<timer, timers, loc>>
  BY <1>3 DEF Countdown
<1>5. CASE ~MayCount(t) /\ Return(t) /\ UNCHANGED <<timer, state, timers>>
  <2>1. GivingUp \notin Elems(todo[t])
    BY <1>2, LateCall DEF Monitors
  <2> QED
    BY <1>1, <1>2, <1>3, <1>4, <1>5, <2>1, CallsOver
<1>6. CASE /\ MayCount(t) /\ state' = n
           /\ \E k \in Timers :
                 /\ timers' = [timers EXCEPT ![k] = [gen |-> gen, st |-> "new"]]
                 /\ timer' = k /\ loc' = [loc EXCEPT ![t].timer = k]
           /\ Then(t, <<Do("show", n), Do("send_show", n), Do("verify", n), Do("start_timer", n)>>)
  <2>1. Goes(t, Showing(n))
    BY <1>1, <1>3, <1>6, ShowProgram, Moved, Facts
  <2>2. PICK k \in Timers :
          /\ timers' = [timers EXCEPT ![k] = [gen |-> gen, st |-> "new"]]
          /\ timer' = k /\ loc' = [loc EXCEPT ![t].timer = k]
    BY <1>6
  <2>3. /\ loc'[t].gen = loc[t].gen /\ loc'[t].timer = k /\ timers'[k] = [gen |-> gen, st |-> "new"]
        /\ \A u \in Threads \ {t} : loc'[u] = loc[u]
    BY <1>1, <2>2 DEF LocType, TimersType
  <2>4. /\ HidesOK' /\ ArmingOK'
        /\ \A u \in Threads \ {t}, m \in Counting : \A d \in Showing(m) : d \notin Elems(todo'[u])
        /\ win'.hides > 0 => win'.doomed \/ Has("window", "destroy", "window")'
    BY <1>2, <1>3, <1>4, <1>6, <2>1, <2>3, CountdownBegins
  <2>5. Begun(t, n)' /\ Elems(todo'[t]) = Showing(n)
    BY <1>1, <1>4, <1>6, <2>1, <2>2, <2>3 DEF Begun, MayCount, Current, Goes
  <2>6. Has(t, "start_timer", n)' /\ Has(t, "show", n)' /\ Has(t, "send_show", n)'
    BY <2>5 DEF Has, Showing
  <2>7. ShowsOK'
    <3> SUFFICES ASSUME NEW u \in Threads, NEW m \in Counting, NEW d \in Showing(m), d \in Elems(todo'[u])
                 PROVE  /\ Has(u, "start_timer", m)' /\ Elems(todo'[u]) \subseteq Showing(m)
                        /\ Begun(u, m)' \/ (state' = "idle" /\ ~Arming')
      BY DEF ShowsOK
    <3>1. u = t
      BY <2>4
    <3>2. m = n
      BY <2>5, <3>1, DoFields DEF Showing
    <3> QED
      BY <2>5, <2>6, <3>1, <3>2
  <2>8. Beginning(t)'
    BY <1>6, <2>6 DEF Beginning
  <2> QED
    BY <2>4, <2>7, <2>8 DEF CancelInv, CountdownOK
<1>7. CASE MayCount(t) /\ state' = n /\ GiveUp(t) /\ UNCHANGED <<timer, timers, loc>>
  <2>1. Goes(t, {GivingUp})
    BY <1>1, <1>3, <1>7, GiveUpCalls
  <2>2. /\ HidesOK' /\ ArmingOK'
        /\ \A u \in Threads \ {t}, m \in Counting : \A d \in Showing(m) : d \notin Elems(todo'[u])
        /\ win'.hides > 0 => win'.doomed \/ Has("window", "destroy", "window")'
    BY <1>2, <1>3, <1>4, <1>7, <2>1, CountdownBegins
  <2>3. Elems(todo'[t]) = {GivingUp} /\ \A m \in Counting : GivingUp \notin Showing(m)
    BY <2>1, DoFields DEF Goes, Showing, GivingUp
  <2>4. \A u \in Threads, m \in Counting : \A d \in Showing(m) : d \notin Elems(todo'[u])
    BY <2>2, <2>3
  <2>5. ShowsOK'
    BY <2>4 DEF ShowsOK
  <2>6. \A u \in Threads : ~Has(u, "start_timer", state)'
    BY <1>7, <2>4 DEF Has, Showing
  <2>7. Abandoned(t)'
    BY <1>4, <1>7, <2>3, <2>6 DEF Abandoned, MayCount, Current
  <2> QED
    BY <2>2, <2>5, <2>7 DEF CancelInv, CountdownOK
<1> QED
  BY <1>4, <1>5, <1>6, <1>7

\* A thread in the middle of showing a countdown.
LEMMA ShowCalls ==
  ASSUME CancelInv, LoopInv, NEW t \in Threads, NEW c \in {"show", "send_show", "verify", "start_timer"},
         At(t, c)
  PROVE  \E n \in Counting :
            /\ n = Now(t) /\ Do(c, n) \in Elems(todo[t]) /\ todo[t] # <<>> /\ t # "window"
            /\ Has(t, "start_timer", n) /\ Elems(todo[t]) \subseteq Showing(n)
            /\ Begun(t, n) \/ (state = "idle" /\ ~Arming)
            /\ \A u \in Threads : Has(u, "start_timer", n) => u = t
            /\ t # "api" => n = "reprotection"
            /\ c # "show" => ~Has(t, "show", n)
            /\ c \in {"verify", "start_timer"} => ~Has(t, "send_show", n)
<1>1. /\ Called(t, c) /\ ProgramOK
  BY Facts, AtCall
<1>2. PICK n \in Counting :
        n = Now(t) /\ ((t = "api" /\ n = "initial") \/ (t = "power" /\ n = "reprotection"))
  BY <1>1 DEF Called, Counting
<1>3. Do(c, n) \in Elems(todo[t]) /\ Do(c, n) \in Showing(n) /\ todo[t] # <<>> /\ Head(todo[t]) = Do(c, n)
  BY <1>1, <1>2 DEF Called, Showing
<1>4. /\ Has(t, "start_timer", n) /\ Elems(todo[t]) \subseteq Showing(n)
      /\ Begun(t, n) \/ (state = "idle" /\ ~Arming)
  BY <1>3 DEF CancelInv, ShowsOK
<1>5. ASSUME NEW u \in Threads, Has(u, "start_timer", n) PROVE u = t
  <2>1. Do("start_timer", n) \in Own(u)
    BY <1>1, <1>5, IdleHasNone, NextCall DEF Has
  <2> QED
    BY <1>2, <2>1, Kinds, DoFields
<1>6. \A d \in Elems(todo[t]) : d # Do(c, n) => Position(Do(c, n)) < Position(d)
  BY <1>1, <1>3, NextCall
<1>7. /\ Position(Do("show", n)) = 17 /\ Position(Do("send_show", n)) = 18
      /\ Position(Do("verify", n)) = 19 /\ Position(Do("start_timer", n)) = 20
  BY Places
<1>8. c # "show" => ~Has(t, "show", n)
  BY <1>6, <1>7, DoFields DEF Has
<1>9. c \in {"verify", "start_timer"} => ~Has(t, "send_show", n)
  BY <1>6, <1>7, DoFields DEF Has
<1> QED
  BY <1>2, <1>3, <1>4, <1>5, <1>8, <1>9

\* The countdown it shows is the one that counts.
LEMMA BeginningNow ==
  ASSUME CancelInv, LoopInv, NEW t \in Threads, NEW c \in {"show", "send_show", "verify", "start_timer"},
         At(t, c), state \in Counting
  PROVE  Beginning(t) /\ Begun(t, state) /\ Now(t) = state
<1>1. PICK n \in Counting :
            /\ n = Now(t) /\ Has(t, "start_timer", n)
            /\ Begun(t, n) \/ (state = "idle" /\ ~Arming)
            /\ \A u \in Threads : Has(u, "start_timer", n) => u = t
  BY ShowCalls
<1>2. Begun(t, n) /\ n = state
  BY <1>1 DEF Begun, Counting
<1>3. ~CountingDown
  BY <1>2 DEF Begun, CountingDown
<1>4. \A u \in Threads : ~Abandoned(u) /\ (Beginning(u) => u = t)
  BY <1>1, <1>2 DEF Abandoned, Beginning
<1> QED
  BY <1>1, <1>2, <1>3, <1>4 DEF CancelInv, CountdownOK

LEMMA ShowProceeds ==
  ASSUME CancelInv, LoopInv, LoopInv', NEW t \in Threads, NEW c \in {"show", "send_show", "verify"},
         At(t, c), Proceed(t), UNCHANGED <<gen, state, closed, timer, timers, loc>>,
         state \in Counting =>
             /\ win'.hides > 0 => win'.doomed \/ Has("window", "destroy", "window")'
             /\ win'.up => win'.cancel = gen
             /\ c = "send_show" \/ OnScreen => OnScreen'
  PROVE  CancelInv'
<1>1. PICK n \in Counting :
            /\ n = Now(t) /\ todo[t] # <<>>
            /\ Has(t, "start_timer", n) /\ Elems(todo[t]) \subseteq Showing(n)
  BY ShowCalls
<1> DEFINE C == Elems(todo[t]) \ {Do(c, n)}
<1>2. Goes(t, C)
  BY <1>1, ProceedCalls
<1>3. Do("start_timer", n) \in C /\ C \subseteq Elems(todo[t]) /\ C \subseteq Showing(n)
  BY <1>1, DoFields DEF Has
<1>4. \A m, o : Do(m, o) \in C => m \in {"show", "send_show", "verify", "start_timer"} /\ o = n
  BY <1>3, DoFields DEF Showing
<1>5. c # "send_show" => (Do("send_show", n) \in C <=> Has(t, "send_show", n))
  BY DoFields DEF Has
<1> HIDE DEF C
<1>6. Calmly(t, C)
  BY <1>1, <1>4 DEF Calmly
<1>7. HidesOK' /\ ArmingOK' /\ (Arming' => Arming)
  BY <1>2, <1>6, CalmHides
<1>8. ShowsOK'
  <2>1. \A m \in Counting : \A d \in Showing(m) : d \in C => m = n
    BY <1>3, DoFields DEF Showing
  <2> QED
    BY <1>2, <1>3, <1>7, <2>1, ShowsStay
<1>9. CountdownOK'
  <2> SUFFICES ASSUME state \in Counting
               PROVE  /\ win'.hides > 0 => win'.doomed \/ Has("window", "destroy", "window")'
                      /\ Beginning(t)'
    BY DEF CountdownOK
  <2>1. Beginning(t) /\ n = state
    BY <1>1, BeginningNow
  <2>2. \A m, o : Has(t, m, o)' <=> Do(m, o) \in C
    BY <1>2 DEF Goes, Has
  <2> QED
    BY <1>3, <1>5, <2>1, <2>2 DEF Beginning
<1> QED
  BY <1>7, <1>8, <1>9 DEF CancelInv

LEMMA ShowGivenUp ==
  ASSUME CancelInv, LoopInv, LoopInv', NEW t \in Threads, NEW c \in {"show", "send_show", "start_timer"},
         At(t, c), GiveUp(t), UNCHANGED <<gen, state, closed, timer, timers, win, loc>>
  PROVE  CancelInv'
<1>1. PICK n \in Counting :
            /\ n = Now(t) /\ todo[t] # <<>> /\ t # "window"
            /\ \A u \in Threads : Has(u, "start_timer", n) => u = t
  BY ShowCalls
<1> DEFINE C == {GivingUp}
<1>2. Goes(t, C) /\ t # "window"
  <2>1. t \notin {"input", "window"}
    BY Facts, AtCall DEF Called
  <2> QED
    BY <2>1, GiveUpCalls
<1>3. \A m, o : Do(m, o) \in C => m = "deactivate"
  BY DoFields DEF GivingUp
<1>4. \A m \in Counting : \A d \in Showing(m) : d \notin C
  BY <1>3 DEF Showing
<1>5. GivingUp \in C
  OBVIOUS
<1> HIDE DEF C
<1>6. Calmly(t, C)
  BY <1>1, <1>3 DEF Calmly
<1>7. HidesOK' /\ ArmingOK' /\ (Arming' => Arming)
  BY <1>2, <1>6, CalmHides
<1>8. ShowsOK'
  BY <1>2, <1>4, <1>7, ShowsStay
<1>9. CountdownOK'
  <2> SUFFICES ASSUME state \in Counting
               PROVE  /\ win.hides > 0 => win.doomed \/ Has("window", "destroy", "window")'
                      /\ Abandoned(t)'
    BY DEF CountdownOK
  <2>1. Begun(t, n) /\ n = state
    BY <1>1, BeginningNow
  <2>2. Elems(todo'[t]) = C /\ \A u \in Threads \ {t} : Elems(todo'[u]) = Elems(todo[u])
    BY <1>2 DEF Goes
  <2>3. \A u \in Threads : ~Has(u, "start_timer", state)'
    BY <1>1, <1>3, <2>1, <2>2 DEF Has
  <2>4. Abandoned(t)'
    BY <1>5, <2>1, <2>2, <2>3 DEF Abandoned, Begun
  <2>5. Has("window", "destroy", "window")' <=> Has("window", "destroy", "window")
    BY <1>2, <2>2 DEF Has, Threads, Loops
  <2> QED
    BY <2>4, <2>5 DEF CancelInv, CountdownOK
<1> QED
  BY <1>7, <1>8, <1>9 DEF CancelInv

LEMMA ShowCancels ==
  ASSUME CancelInv, Inv, Inv', NEW t \in Threads, Show(t)
  PROVE  CancelInv'
<1>1. LoopInv /\ LoopInv' /\ win \in WinType /\ ProgramOK
  BY Facts DEF Inv
<1>2. /\ At(t, "show") /\ UNCHANGED <<gen, state, closed, timer, timers, loc>>
      /\ (win' = Opened(loc[t].gen) /\ Proceed(t)) \/ (GiveUp(t) /\ UNCHANGED win)
  BY DEF Show, ctrl
<1>3. CASE win' = Opened(loc[t].gen) /\ Proceed(t)
  <2>1. ASSUME state \in Counting
        PROVE  /\ win'.hides > 0 => win'.doomed \/ Has("window", "destroy", "window")'
               /\ win'.up => win'.cancel = gen
               /\ OnScreen => OnScreen'
    <3>1. loc[t].gen = gen /\ t # "window"
      BY <1>1, <1>2, <2>1, BeginningNow, ShowCalls DEF Begun
    <3>2. /\ win'.hides = win.hides /\ win'.doomed = win.doomed /\ win'.visible = win.visible
          /\ win'.up /\ win'.cancel = gen
      BY <1>1, <1>3, <3>1 DEF WinType, Opened
    <3>3. Has("window", "destroy", "window")' <=> Has("window", "destroy", "window")
      BY <1>1, <1>2, <1>3, <3>1, ProceedCalls DEF Goes, Has, Threads, Loops
    <3> QED
      BY <1>2, <2>1, <3>2, <3>3 DEF CancelInv, CountdownOK, OnScreen
  <2> QED
    BY <1>1, <1>2, <1>3, <2>1, ShowProceeds
<1>4. CASE GiveUp(t) /\ UNCHANGED win
  BY <1>1, <1>2, <1>4, ShowGivenUp
<1> QED
  BY <1>2, <1>3, <1>4

LEMMA SendShowCancels ==
  ASSUME CancelInv, Inv, Inv', NEW t \in Threads, SendShow(t)
  PROVE  CancelInv'
<1>1. LoopInv /\ LoopInv' /\ win \in WinType /\ ProgramOK
  BY Facts DEF Inv
<1>2. /\ At(t, "send_show") /\ UNCHANGED <<gen, state, closed, timer, timers, loc>>
      /\ \/ /\ win.up /\ ~win.doomed /\ Idle("window")
            /\ win' = [win EXCEPT !.visible = TRUE] /\ Proceed(t)
         \/ GiveUp(t) /\ UNCHANGED win
  BY DEF SendShow, ctrl
<1>3. CASE /\ win.up /\ ~win.doomed /\ Idle("window")
           /\ win' = [win EXCEPT !.visible = TRUE] /\ Proceed(t)
  <2>1. ASSUME state \in Counting
        PROVE  /\ win'.hides > 0 => win'.doomed \/ Has("window", "destroy", "window")'
               /\ win'.up => win'.cancel = gen
               /\ OnScreen'
    <3>1. PICK n \in Counting : n = Now(t) /\ t # "window" /\ ~Has(t, "show", n)
      BY <1>1, <1>2, ShowCalls
    <3>2. Beginning(t) /\ n = state
      BY <1>1, <1>2, <2>1, <3>1, BeginningNow
    <3>3. "window" \in Threads /\ Elems(todo["window"]) = {}
      BY <1>1, <1>3, IdleHas, Facts
    <3>4. ~Has("window", "destroy", "window") /\ ~Has("window", "destroy", "window")'
      BY <1>1, <1>2, <1>3, <3>1, <3>3, ProceedCalls DEF Goes, Has
    <3>5. /\ win'.hides = win.hides /\ win'.doomed = win.doomed /\ win'.visible
          /\ win'.up /\ win'.cancel = win.cancel /\ win.hides \in Nat
      BY <1>1, <1>3 DEF WinType
    <3>6. win.hides = 0 /\ win.cancel = gen
      BY <1>3, <2>1, <3>1, <3>2, <3>4, <3>5 DEF CancelInv, CountdownOK, Beginning
    <3> QED
      BY <1>2, <1>3, <3>4, <3>5, <3>6 DEF OnScreen
  <2> QED
    BY <1>1, <1>2, <1>3, <2>1, ShowProceeds
<1>4. CASE GiveUp(t) /\ UNCHANGED win
  BY <1>1, <1>2, <1>4, ShowGivenUp
<1> QED
  BY <1>2, <1>3, <1>4

LEMMA VerifyCancels ==
  ASSUME CancelInv, Inv, Inv', NEW t \in Threads, Verify(t)
  PROVE  CancelInv'
<1>1. LoopInv /\ LoopInv' /\ FlowOK
  BY DEF Inv, MonitorInv
<1>2. /\ At(t, "verify") /\ UNCHANGED <<gen, state, closed, timer, win>>
      /\ \/ Proceed(t) /\ UNCHANGED <<timers, loc>>
         \/ /\ ~(Current(loc[t].gen) /\ timer = loc[t].timer /\ state = Now(t))
            /\ Return(t)
  BY DEF Verify, ctrl
<1>3. CASE Proceed(t) /\ UNCHANGED <<timers, loc>>
  <2>1. PICK n \in Counting : n = Now(t) /\ ~Has(t, "show", n) /\ ~Has(t, "send_show", n) /\ t # "window"
    BY <1>1, <1>2, ShowCalls
  <2>2. ASSUME state \in Counting
        PROVE  /\ win'.hides > 0 => win'.doomed \/ Has("window", "destroy", "window")'
               /\ win'.up => win'.cancel = gen
               /\ OnScreen => OnScreen'
    <3>1. Beginning(t) /\ n = state
      BY <1>1, <1>2, <2>1, <2>2, BeginningNow
    <3>2. Has("window", "destroy", "window")' <=> Has("window", "destroy", "window")
      BY <1>1, <1>2, <1>3, <2>1, ProceedCalls DEF Goes, Has, Threads, Loops
    <3> QED
      BY <1>2, <2>1, <2>2, <3>1, <3>2 DEF CancelInv, CountdownOK, OnScreen, Beginning
  <2> QED
    BY <1>1, <1>2, <1>3, <2>2, ShowProceeds
<1>4. CASE /\ ~(Current(loc[t].gen) /\ timer = loc[t].timer /\ state = Now(t))
           /\ Return(t)
  <2>1. state = "idle" /\ todo[t] # <<>>
    <3>1. PICK n \in Counting : n = Now(t) /\ todo[t] # <<>> /\ (Begun(t, n) \/ state = "idle")
      BY <1>1, <1>2, ShowCalls
    <3>2. ~Begun(t, n)
      BY <1>1, <1>4, <3>1 DEF Begun, Current, FlowOK, Counting
    <3> QED
      BY <3>1, <3>2
  <2>2. Goes(t, {}) /\ loc' = [loc EXCEPT ![t] = Locals]
    BY <1>1, <1>4, ReturnCalls DEF Return
  <2>3. \A u \in Threads \ {t} : loc'[u] = loc[u]
    BY <1>1, <2>2, OneLocal
  <2>4. Calmly(t, {})
    BY <1>2, <2>1, <2>3 DEF Calmly
  <2>5. HidesOK' /\ ArmingOK' /\ (Arming' => Arming)
    BY <1>1, <2>2, <2>4, CalmHides
  <2>6. \A u \in Threads \ {t}, n \in Counting : ~Begun(u, n)
    BY <2>1 DEF Begun, Counting
  <2>7. ShowsOK'
    BY <1>2, <2>2, <2>3, <2>5, <2>6, ShowsStay
  <2>8. CountdownOK'
    BY <1>2, <2>1 DEF CountdownOK, Counting
  <2> QED
    BY <2>5, <2>7, <2>8 DEF CancelInv
<1> QED
  BY <1>2, <1>3, <1>4

\* The timer starts: from here the countdown counts by itself.
LEMMA StartTimerCancels ==
  ASSUME CancelInv, Inv, Inv', NEW t \in Threads, StartTimer(t)
  PROVE  CancelInv'
<1>1. LoopInv /\ LoopInv' /\ ProgramOK /\ ProgramOK' /\ ArmingOK /\ timers \in TimersType
  BY Facts DEF Inv, LoopInv, CancelInv
<1>2. /\ At(t, "start_timer") /\ UNCHANGED <<gen, state, closed, timer, win>>
      /\ \/ timers' = Started(loc[t].timer) /\ Return(t)
         \/ GiveUp(t) /\ UNCHANGED <<timers, loc>>
  BY DEF StartTimer, ctrl
<1>3. CASE timers' = Started(loc[t].timer) /\ Return(t)
  <2>1. PICK n \in Counting :
          /\ n = Now(t) /\ todo[t] # <<>> /\ t # "window"
          /\ ~Has(t, "show", n) /\ ~Has(t, "send_show", n)
          /\ Begun(t, n) \/ (state = "idle" /\ ~Arming)
          /\ \A u \in Threads : Has(u, "start_timer", n) => u = t
          /\ t # "api" => n = "reprotection"
    BY <1>1, <1>2, ShowCalls
  <2>2. Goes(t, {}) /\ loc' = [loc EXCEPT ![t] = Locals] /\ Then(t, <<>>)
    BY <1>1, <1>3, ReturnCalls DEF Return
  <2>3. \A u \in Threads \ {t} : loc'[u] = loc[u]
    BY <1>1, <2>2, OneLocal
  <2>4. Calmly(t, {})
    BY <1>2, <2>1, <2>3 DEF Calmly
  <2>5. HidesOK' /\ ArmingOK' /\ (Arming' => Arming)
    BY <1>1, <2>2, <2>4, CalmHides
  <2>6. ASSUME NEW u \in Threads \ {t}, NEW m \in Counting, Has(u, "start_timer", m), Begun(u, m)
        PROVE  FALSE
    BY <2>1, <2>6 DEF Begun, Counting
  <2>7. ShowsOK'
    BY <1>2, <2>2, <2>3, <2>5, <2>6, ShowsStay
  <2>8. ASSUME state \in Counting
        PROVE  win.hides = 0 /\ CountingDown'
    <3>1. Beginning(t) /\ Begun(t, state) /\ n = state
      BY <1>1, <1>2, <2>1, <2>8, BeginningNow
    <3>2. OnScreen
      BY <2>1, <3>1 DEF Beginning
    <3>3. Has("window", "destroy", "window")' <=> Has("window", "destroy", "window")
      BY <1>1, <2>1, <2>2 DEF Goes, Has, Threads, Loops
    <3>4. timer \in Timers
      BY <1>1, <3>1, Facts DEF Begun
    <3>5. timers'[timer] = [gen |-> gen, st |-> "running"]
      BY <1>1, <1>3, <3>1, <3>4 DEF Begun, Started, TimersType
    <3>6. ~Arming'
      <4>1. CASE t = "api"
        <5>1. todo'["api"] = <<>>
          <6>1. "api" \in DOMAIN todo
            BY <1>1, Facts
          <6> QED
            BY <2>2, <4>1, <6>1 DEF Then
        <5> QED
          BY <5>1 DEF Arming
      <4>2. CASE t # "api"
        BY <1>1, <2>1, <2>5, <3>1, <4>2 DEF ArmingOK
      <4> QED
        BY <4>1, <4>2
    <3> QED
      BY <1>2, <3>1, <3>2, <3>3, <3>5, <3>6 DEF CountingDown, OnScreen, Begun
  <2>9. CountdownOK'
    BY <1>2, <2>8 DEF CountdownOK
  <2> QED
    BY <2>5, <2>7, <2>9 DEF CancelInv
<1>4. CASE GiveUp(t) /\ UNCHANGED <<timers, loc>>
  BY <1>1, <1>2, <1>4, ShowGivenUp
<1> QED
  BY <1>2, <1>3, <1>4

\* The controller's timer, if it runs, is the one of the countdown.
LEMMA RunningCounts ==
  ASSUME CancelInv, Inv, NEW k \in Timers, timer = k, timers[k].st = "running"
  PROVE  CountingDown /\ state \in Counting /\ Current(timers[k].gen)
<1>1. /\ TimersOK /\ FlowOK /\ ShowsOK /\ CountdownOK /\ timer # NoTimer /\ state \in Counting
      /\ state # "idle"
  BY ConstantsAssumption DEF Inv, LoopInv, MonitorInv, CancelInv, TimersOK, Counting
<1>2. ASSUME NEW u \in Threads PROVE ~Beginning(u) /\ ~Abandoned(u)
  <2>1. Has(u, "start_timer", state) => Begun(u, state)
    BY <1>1 DEF ShowsOK, Showing, Has
  <2> QED
    BY <1>1, <2>1 DEF Begun, Beginning, Abandoned
<1>3. CountingDown
  BY <1>1, <1>2 DEF CountdownOK
<1> QED
  BY <1>1, <1>3 DEF CountingDown, FlowOK, Current

LEMMA TimerFiresCancels ==
  ASSUME CancelInv, Inv, Inv', NEW k \in Timers, TimerFires(k)
  PROVE  CancelInv'
<1>1. /\ LoopInv /\ LoopInv' /\ ProgramOK /\ HidesOK /\ ArmingOK /\ ShowsOK /\ CountdownOK /\ TimersOK
      /\ k \in Threads /\ "api" \in Threads \ {k} /\ k # "window" /\ timers \in TimersType
      /\ timer \in Timers \cup {NoTimer}
  BY Facts DEF Inv, LoopInv, CancelInv
<1>2. /\ timers[k].st = "running" /\ Idle(k) /\ timers' = Cancelled(k) /\ UNCHANGED <<gen, closed, win>>
      /\ \/ /\ Current(timers[k].gen) /\ timer = k /\ timer' = NoTimer /\ state' = "turning_off"
            /\ Then(k, <<Do("hide", "window"), Do("turn_off", "display"), Do("settle", "flow")>>)
            /\ loc' = [loc EXCEPT ![k].gen = timers[k].gen]
         \/ ~(Current(timers[k].gen) /\ timer = k) /\ UNCHANGED <<timer, state, todo, loc>>
  BY DEF TimerFires
<1>3. Elems(todo[k]) = {}
  BY <1>1, <1>2, IdleHas
<1>4. CASE /\ Current(timers[k].gen) /\ timer = k /\ timer' = NoTimer /\ state' = "turning_off"
           /\ Then(k, <<Do("hide", "window"), Do("turn_off", "display"), Do("settle", "flow")>>)
           /\ loc' = [loc EXCEPT ![k].gen = timers[k].gen]
  <2>1. Goes(k, FireSet)
    BY <1>1, <1>4, Facts, FireProgram, Moved
  <2>2. CountingDown /\ state \in Counting /\ timers[k].gen = gen
    BY <1>2, <1>4, RunningCounts DEF Current
  <2>3. loc'[k].gen = gen /\ \A u \in Threads \ {k} : loc'[u] = loc[u]
    <3>1. loc \in LocType(gen)
      BY <1>1, Facts
    <3> QED
      BY <1>1, <1>4, <2>2, <3>1 DEF LocType
  <2>4. /\ \A u \in Threads \ {k} : todo'[u] = todo[u] /\ \A c, o : Has(u, c, o)' <=> Has(u, c, o)
        /\ \A c, o : Has(k, c, o)' <=> Do(c, o) \in FireSet
    BY <1>1, <2>1, OthersSame
  <2>5. ~Arming'
    BY <1>1, <1>2, <2>2, <2>3, <2>4 DEF CountingDown, Arming
  <2>6. HidesOK'
    <3>1. ASSUME NEW u \in Threads, Has(u, "hide", "window")'
          PROVE  Has(u, "settle", "flow")' /\ loc'[u].gen = gen'
      <4>1. CASE u = k
        BY <1>2, <2>3, <2>4, <4>1 DEF FireSet
      <4>2. CASE u # k
        BY <1>1, <2>2, <2>4, <3>1, <4>2 DEF HidesOK, TimersOK, Counting
      <4> QED
        BY <4>1, <4>2
    <3> QED
      BY <2>5, <3>1 DEF HidesOK
  <2>7. ArmingOK'
    BY <1>1, <1>2, <2>2, <2>3, <2>4, <2>5 DEF ArmingOK, Counting
  <2>8. ShowsOK'
    <3>1. ASSUME NEW u \in Threads, NEW n \in Counting, NEW d \in Showing(n), d \in Elems(todo'[u])
          PROVE  FALSE
      <4>1. CASE u = k
        BY <2>1, <3>1, <4>1, DoFields DEF Goes, FireSet, Showing
      <4>2. CASE u # k
        <5>1. d \in Elems(todo[u])
          BY <2>4, <3>1, <4>2
        <5> QED
          BY <1>1, <2>2, <3>1, <5>1 DEF ShowsOK, Begun, CountingDown, Counting
      <4> QED
        BY <4>1, <4>2
    <3> QED
      BY <3>1 DEF ShowsOK
  <2>9. CountdownOK'
    BY <1>4 DEF CountdownOK, Counting
  <2> QED
    BY <2>6, <2>7, <2>8, <2>9 DEF CancelInv
<1>5. CASE ~(Current(timers[k].gen) /\ timer = k) /\ UNCHANGED <<timer, state, todo, loc>>
  <2>1. timer # k
    BY <1>2, <1>5, RunningCounts
  <2>2. timer # NoTimer => timers'[timer] = timers[timer]
    BY <1>1, <1>2, <2>1 DEF Cancelled
  <2>3. Goes(k, {})
    BY <1>1, <1>3, <1>5, NobodyGoes
  <2>4. Arming' => Arming
    BY <1>2, <1>5 DEF Arming
  <2>5. HidesOK' /\ ArmingOK'
    BY <1>1, <1>2, <1>5 DEF HidesOK, ArmingOK, Has, Arming
  <2>6. ShowsOK'
    BY <1>1, <1>2, <1>5, <2>2, <2>3, <2>4, ShowsStay DEF Begun
  <2>7. CountdownOK'
    <3>1. GivingUp \notin Elems(todo[k])
      BY <1>3
    <3>2. \A n \in Counting : \A d \in Showing(n) : d \notin Elems(todo[k]) /\ d \notin {}
      BY <1>3
    <3> QED
      BY <1>1, <1>2, <1>5, <2>2, <2>3, <2>4, <3>1, <3>2, CountdownStays
  <2> QED
    BY <2>5, <2>6, <2>7 DEF CancelInv
<1> QED
  BY <1>2, <1>4, <1>5

\* The window is closed after the flow has ended, and destroyed once it is out of sight.
LEMMA CloseWindowCancels ==
  ASSUME CancelInv, Inv, Inv', NEW t \in Threads, CloseWindow(t)
  PROVE  CancelInv'
<1>1. /\ LoopInv /\ LoopInv' /\ ProgramOK /\ FlowOK /\ ArmingOK /\ CountdownOK /\ "window" \in Threads
      /\ win \in WinType
  BY Facts DEF Inv, MonitorInv, CancelInv
<1>2. PICK c \in {"close", "destroy"} : At(t, c)
  BY DEF CloseWindow
<1>3. /\ Proceed(t) /\ UNCHANGED <<gen, state, closed, timer, timers, loc>>
      /\ At(t, "close") \/ win' = [win EXCEPT !.doomed = TRUE]
  BY DEF CloseWindow, ctrl
<1> DEFINE C == Elems(todo[t]) \ {Do(c, Now(t))}
<1>4. Goes(t, C) /\ todo[t] # <<>> /\ ~Has(t, "hide", "window") /\ Has(t, c, "window")
  BY <1>1, <1>2, <1>3, ProceedCalls, AtCall DEF Called, Has
<1>5. (\A m, o : Do(m, o) \in C => Has(t, m, o)) /\ (GivingUp \in C <=> GivingUp \in Elems(todo[t]))
  BY <1>2, DoFields DEF Has, GivingUp
<1>6. \A n \in Counting : \A d \in Showing(n) : d \notin Elems(todo[t]) /\ d \notin C
  BY <1>1, <1>2, ShowsNone
<1> HIDE DEF C
<1>7. Calmly(t, C)
  BY <1>3, <1>4, <1>5 DEF Calmly
<1>8. HidesOK' /\ ArmingOK' /\ (Arming' => Arming)
  BY <1>1, <1>4, <1>7, CalmHides
<1>9. ShowsOK'
  BY <1>3, <1>4, <1>6, <1>8, ShowsStay
<1>10. CountdownOK'
  <2>1. CASE c = "close"
    <3>1. t = "api" /\ closed /\ state = "idle"
      BY <1>1, <1>2, <1>4, <2>1, AtCall DEF Called, ArmingOK, FlowOK
    <3> QED
      BY <1>3, <3>1 DEF CountdownOK, Counting
  <2>2. CASE c = "destroy"
    <3>1. t = "window" /\ ~At(t, "close")
      <4>1. Do("destroy", "window") \in Own(t) /\ Head(todo[t]).call = "destroy"
        BY <1>1, <1>2, <1>4, <2>2, NextCall DEF Has, At
      <4> QED
        BY <4>1, Kinds, DoFields DEF At
    <3>2. win'.doomed /\ win'.up = win.up /\ win'.cancel = win.cancel
      BY <1>1, <1>3, <3>1 DEF WinType
    <3>3. ~OnScreen
      BY <1>4, <2>2, <3>1 DEF OnScreen
    <3>4. state \in Counting =>
             /\ GivingUp \in Elems(todo[t]) /\ loc[t].gen = gen => GivingUp \in C /\ loc'[t].gen = gen
             /\ win'.hides > 0 => win'.doomed \/ Has("window", "destroy", "window")'
             /\ OnScreen => OnScreen'
             /\ \A u \in Threads :
                   Beginning(u) /\ ~Has(u, "show", state) /\ win'.up => win'.cancel = gen
      BY <1>3, <1>5, <3>2, <3>3 DEF Beginning
    <3> QED
      BY <1>3, <1>4, <1>6, <1>8, <3>4, CountdownLasts
  <2> QED
    BY <2>1, <2>2
<1> QED
  BY <1>8, <1>9, <1>10 DEF CancelInv

\* The window's own loop: a window that counts down has nothing to hide or to end for.
LEMMA WindowCancels ==
  ASSUME CancelInv, Inv, Inv', WindowHides \/ WindowExits
  PROVE  CancelInv'
<1> DEFINE t == "window"
<1>1. /\ LoopInv /\ LoopInv' /\ ProgramOK /\ CountdownOK /\ t \in Threads /\ win \in WinType
      /\ HidesOK /\ ArmingOK /\ ShowsOK
  BY Facts DEF Inv, CancelInv
<1>2. /\ Idle(t) /\ UNCHANGED <<gen, state, closed, timer, timers, todo, loc>>
      /\ \/ win.hides > 0 /\ ~win.doomed
         \/ /\ win.doomed
            /\ win' = [up |-> FALSE, visible |-> FALSE, cancel |-> 0, hides |-> 0, doomed |-> FALSE]
  BY DEF WindowHides, WindowExits, ctrl
<1>3. Elems(todo[t]) = {} /\ ~Has(t, "destroy", "window") /\ Goes(t, {})
  BY <1>1, <1>2, IdleHas, NobodyGoes DEF Has
<1>4. HidesOK' /\ ArmingOK' /\ ShowsOK' /\ (Arming' => Arming)
  BY <1>1, <1>2 DEF HidesOK, ArmingOK, ShowsOK, Arming, Begun, Has
<1>5. CountdownOK'
  <2>1. state \in Counting =>
           /\ GivingUp \in Elems(todo[t]) /\ loc[t].gen = gen => GivingUp \in {} /\ loc'[t].gen = gen
           /\ win'.hides > 0 => win'.doomed \/ Has("window", "destroy", "window")'
           /\ OnScreen => OnScreen'
           /\ \A u \in Threads :
                 Beginning(u) /\ ~Has(u, "show", state) /\ win'.up => win'.cancel = gen
    BY <1>1, <1>2, <1>3 DEF CountdownOK, OnScreen
  <2>2. \A n \in Counting : \A d \in Showing(n) : d \notin Elems(todo[t]) /\ d \notin {}
    BY <1>3
  <2> HIDE DEF t
  <2> QED
    BY <1>1, <1>2, <1>3, <1>4, <2>1, <2>2, CountdownLasts
<1> QED
  BY <1>4, <1>5 DEF CancelInv

LEMMA CancelInit == Init => CancelInv
<1> SUFFICES ASSUME Init PROVE CancelInv
  OBVIOUS
<1>1. /\ \A t \in Threads : todo[t] = <<>>
      /\ state = "idle" /\ "api" \in Threads
  BY DEF Init, Threads
<1>2. \A t \in Threads : \A c, o : ~Has(t, c, o)
  BY <1>1, NoCalls DEF Has
<1>3. \A t \in Threads : Elems(todo[t]) = {}
  BY <1>1, NoCalls
<1> QED
  BY <1>1, <1>2, <1>3 DEF CancelInv, HidesOK, ArmingOK, ShowsOK, CountdownOK, Arming, Counting

LEMMA CancelNext ==
  ASSUME Overlap = FALSE, CancelInv, Inv, Inv', [Next]_vars
  PROVE  CancelInv'
<1>1. CASE UNCHANGED vars
  BY <1>1, NothingCancels DEF vars, ctrl, env
<1>2. CASE Arm
  BY <1>2, ArmCancels
<1>3. CASE Close
  BY <1>3, CloseCancels
<1>4. CASE KeyDown
  BY <1>4, KeyDownCancels
<1>5. CASE CancelClick \/ CloseClick
  BY <1>5, ClicksCancel
<1>6. CASE Wake
  BY <1>6, NothingCancels DEF Wake, ctrl
<1>7. ASSUME NEW k \in Timers, TimerFires(k) PROVE CancelInv'
  BY <1>7, TimerFiresCancels
<1>8. CASE PowerOn
  BY <1>8, PowerOnCancels
<1>9. CASE WindowHides \/ WindowExits
  BY <1>9, WindowCancels
<1>10. ASSUME NEW m \in Monitors, MonitorExits(m) PROVE CancelInv'
  BY <1>10, NothingCancels DEF MonitorExits, ctrl
<1>11. ASSUME NEW t \in Threads, Step(t) PROVE CancelInv'
  <2>1. CASE Check(t) \/ Hide(t) \/ Deactivate(t)
    BY <2>1, CheckCancels, HideCancels, DeactivateCancels
  <2>2. CASE RequestStop(t) \/ Join(t) \/ RecordStop(t)
    BY <2>2, RequestStopCancels, JoinCancels, RecordStopCancels
  <2>3. CASE Start(t) \/ Spawn(t) \/ Ready(t) \/ RecordStart(t)
    BY <2>3, StartCancels, SpawnCancels, ReadyCancels, RecordStartCancels
  <2>4. CASE Countdown(t) \/ Show(t) \/ SendShow(t) \/ Verify(t) \/ StartTimer(t)
    BY <2>4, CountdownCancels, ShowCancels, SendShowCancels, VerifyCancels, StartTimerCancels
  <2>5. CASE TurnOff(t) \/ Settle(t) \/ CloseWindow(t)
    BY <2>5, TurnOffCancels, SettleCancels, CloseWindowCancels
  <2> QED
    BY <1>11, <2>1, <2>2, <2>3, <2>4, <2>5 DEF Step
<1> QED
  BY <1>1, <1>2, <1>3, <1>4, <1>5, <1>6, <1>7, <1>8, <1>9, <1>10, <1>11 DEF Next, SomeoneRuns

\* The state and the timer never disagree for longer than the handler that is changing
\* them: a countdown has a timer that is running, a visible window and a cancel button
\* that ends this very flow; no other state has a timer.
THEOREM CountdownHasAWayOut ==
  ASSUME Overlap = FALSE
  PROVE  Spec => []CountdownIsCancellable
<1>1. Init => Inv /\ CancelInv
  BY LoopInit, MonitorInit, CancelInit DEF Inv
<1>2. Inv /\ CancelInv /\ [Next]_vars => (Inv /\ CancelInv)'
  BY InvNext, CancelNext
<1>3. Inv /\ CancelInv => CountdownIsCancellable
  <2> SUFFICES ASSUME Inv, CancelInv, Quiet
               PROVE  IF state \in Counting
                      THEN /\ timer # NoTimer /\ timers[timer].st = "running" /\ timers[timer].gen = gen
                           /\ win.visible /\ win.cancel = gen
                      ELSE timer = NoTimer
    BY DEF CountdownIsCancellable
  <2>1. TimersOK /\ CountdownOK /\ ProgramOK
    BY DEF Inv, LoopInv, CancelInv
  <2>2. \A t \in Threads : Elems(todo[t]) = {}
    BY <2>1, IdleHas DEF Quiet
  <2>3. \A t \in Threads : ~Beginning(t) /\ ~Abandoned(t)
    BY <2>2 DEF Beginning, Abandoned, Has
  <2>4. CASE state \in Counting
    BY <2>1, <2>3, <2>4 DEF CountdownOK, CountingDown, OnScreen
  <2>5. CASE state \notin Counting
    BY <2>1, <2>5 DEF TimersOK
  <2> QED
    BY <2>4, <2>5
<1> QED
  BY <1>1, <1>2, <1>3, PTL DEF Spec

-----------------------------------------------------------------------------
(* Who waits for whom.                                                     *)

\* A thread that joins a monitor has asked it to stop, or there is a newer one, and
\* only close() joins the window.
JoinsOK ==
    /\ \A t \in Threads, m \in Monitors : AtJoin(t, m) =>
          loc[t].id <= mon[m].id /\ (loc[t].id = mon[m].id => mon[m].stop)
    /\ Has("api", "join", "window") => closed

\* The last flow has ended, and no callback or handler belongs to the next one yet.
Dead ==
    /\ gen > 0 /\ state = "idle" /\ timer = NoTimer
    /\ \A t \in Threads : loc[t].gen # gen
    /\ \A m \in Monitors : mon[m].gen # gen
    /\ win.cancel # gen

\* A flow that a message loop is ending, or that ended while the power monitor was
\* showing its countdown, can be ended by nobody else.
DeadOK ==
    /\ win.cancel <= gen
    /\ (\E t \in Loops, m \in Monitors : Stopping(t, m)) => Dead
    /\ state = "idle" /\ Has("power", "start_timer", "reprotection") => Dead

\* At most one message loop stops monitors, and it is not the window's while the power
\* monitor sends to it.
OneEnder ==
    /\ \A t, u \in Loops, m, n \in Monitors : Stopping(t, m) /\ Stopping(u, n) => t = u
    /\ Has("power", "send_show", "reprotection") => \A m \in Monitors : ~Stopping("window", m)

\* A window that is seen is in its loop, and before the display is off and the next
\* countdown shown, it is about to be hidden.
SeenOK ==
    /\ win.visible => win.up /\ Idle("window")
    /\ state \in {"turning_off", "waiting"} /\ win.visible =>
          win.hides > 0 \/ win.doomed \/ \E t \in Threads : Has(t, "hide", "window")
    /\ state = "reprotection" /\ Has("power", "send_show", "reprotection") /\ win.visible =>
          win.doomed

WaitInv == JoinsOK /\ DeadOK /\ OneEnder /\ SeenOK

\* A handler does not join a monitor before it has asked it to stop.
LEMMA NoJoinNext ==
  ASSUME LoopInv, NEW t \in Threads, NEW c, At(t, c), c # "request_stop", NEW m \in Monitors,
         NEW C, C = Elems(todo[t]) \ {Do(c, Now(t))}, Do("join", m) \in C
  PROVE  Do("request_stop", m) \in C
<1>1. /\ Head(todo[t]) = Do(c, Now(t)) /\ Program(t, todo[t])
      /\ \A d \in Elems(todo[t]) : Position(d) \in Nat
      /\ \A d \in Elems(todo[t]) : d # Head(todo[t]) => Position(Head(todo[t])) < Position(d)
      /\ Head(todo[t]) \in Elems(todo[t])
  BY Facts, AtCall, NextCall DEF Called, ProgramOK
<1>2. Do("join", m) \in Elems(todo[t]) /\ Do("join", m) # Head(todo[t])
  BY <1>1
<1>3. Position(Do("join", m)) = 2 + OfMonitor[m] /\ OfMonitor[m] \in Nat
  BY Places
<1>4. Do("request_stop", m) \in Elems(todo[t])
  <2>1. ~(Position(Head(todo[t])) >= 2 + OfMonitor[m])
    BY <1>1, <1>2, <1>3
  <2> QED
    BY <1>1, <1>2, <2>1 DEF Program, Whole
<1> QED
  BY <1>4, DoFields

\* The joins that a step leaves are the ones of a stop that has just been requested.
LEMMA JoinsStay ==
  ASSUME JoinsOK, LoopInv, LoopInv', NEW t \in Threads, NEW C, Goes(t, C), closed => closed',
         \A u \in Threads \ {t} : loc'[u].id = loc[u].id,
         \A m \in Monitors : Do("join", m) \in C /\ Do("request_stop", m) \notin C =>
             loc'[t].id = mon'[m].id /\ mon'[m].stop,
         t = "api" /\ Do("join", "window") \in C => closed',
         \A m \in Monitors :
             \/ mon'[m].id = mon[m].id /\ (mon[m].stop => mon'[m].stop)
             \/ mon'[m].id > mon[m].id
  PROVE  JoinsOK'
<1>1. /\ \A u \in Threads \ {t} : todo'[u] = todo[u] /\ \A c, o : Has(u, c, o)' <=> Has(u, c, o)
      /\ \A c, o : Has(t, c, o)' <=> Do(c, o) \in C
  BY OthersSame
<1>2. /\ \A u \in Threads : loc[u].id \in Nat
      /\ \A m \in Monitors : mon[m].id \in Nat /\ mon'[m].id \in Nat
  BY LocOf, Facts DEF LocRec, LoopInv, TypeInv, TypeOK
<1>3. ASSUME NEW u \in Threads, NEW m \in Monitors, AtJoin(u, m)'
      PROVE  loc'[u].id <= mon'[m].id /\ (loc'[u].id = mon'[m].id => mon'[m].stop)
  <2>1. CASE u = t
    BY <1>1, <1>2, <1>3, <2>1 DEF AtJoin
  <2>2. CASE u # t
    <3>1. AtJoin(u, m) /\ loc'[u].id = loc[u].id
      BY <1>1, <1>3, <2>2 DEF AtJoin
    <3>2. loc[u].id <= mon[m].id /\ (loc[u].id = mon[m].id => mon[m].stop)
      BY <3>1 DEF JoinsOK
    <3> QED
      BY <1>2, <3>1, <3>2
  <2> QED
    BY <2>1, <2>2
<1>4. Has("api", "join", "window")' => closed'
  BY <1>1 DEF JoinsOK, Threads
<1> QED
  BY <1>3, <1>4 DEF JoinsOK

\* Nobody who does not end or begin a flow takes part in the one to come.
LEMMA DeadStays ==
  ASSUME LoopInv, UNCHANGED <<gen, state, timer>>, NEW t \in Threads,
         \A u \in Threads \ {t} : loc'[u] = loc[u],
         loc'[t].gen \in {0, loc[t].gen} \cup {mon[m].gen : m \in Monitors},
         \A m \in Monitors : mon'[m].gen \in {mon[m].gen} \cup {loc[u].gen : u \in Threads},
         win'.cancel \in {0, win.cancel} \cup {loc[u].gen : u \in Threads}
  PROVE  (Dead => Dead') /\ (win.cancel <= gen => win'.cancel <= gen')
<1>1. gen \in Nat /\ \A u \in Threads : loc[u].gen \in 0..gen
  BY LocOf, Facts DEF LocRec
<1>2. win.cancel <= gen => win'.cancel <= gen'
  BY <1>1
<1>3. Dead => Dead'
  BY <1>1 DEF Dead
<1> QED
  BY <1>2, <1>3

\* No other thread begins to stop monitors, and nobody begins to show a countdown
\* while the window's thread does.
LEMMA EndersStay ==
  ASSUME DeadOK, OneEnder, NEW t \in Threads, NEW C, Goes(t, C),
         win'.cancel <= gen', Dead => Dead',
         state' = "idle" => state = "idle",
         t \in Loops => \A m \in Monitors : \A d \in Stops(m) : d \in C => Stopping(t, m),
         t = "power" => \A d \in Showing("reprotection") :
             d \in C => d \in Elems(todo[t]) \/ (~Dead /\ state' # "idle")
  PROVE  DeadOK' /\ OneEnder'
<1>1. /\ \A u \in Threads \ {t} : todo'[u] = todo[u] /\ \A c, o : Has(u, c, o)' <=> Has(u, c, o)
      /\ \A c, o : Has(t, c, o)' <=> Do(c, o) \in C
  BY OthersSame
<1>2. Loops \subseteq Threads /\ "power" \in Loops /\ "window" \in Loops
  BY DEF Threads, Loops, Monitors
<1>3. ASSUME NEW u \in Loops, NEW m \in Monitors, Stopping(u, m)' PROVE Stopping(u, m)
  <2>1. CASE u = t
    <3>1. \E d \in Stops(m) : d \in C
      BY <1>1, <1>3, <2>1 DEF Stopping, Stops
    <3> QED
      BY <2>1, <3>1
  <2>2. CASE u # t
    BY <1>1, <1>2, <1>3, <2>2 DEF Stopping
  <2> QED
    BY <2>1, <2>2
<1>4. ASSUME NEW c \in {"send_show", "start_timer"}, Has("power", c, "reprotection")'
      PROVE  Has("power", c, "reprotection") \/ (~Dead /\ state' # "idle")
  BY <1>1, <1>2, <1>4 DEF Has, Showing
<1>5. (\E u \in Loops, m \in Monitors : Stopping(u, m)') => Dead'
  BY <1>3 DEF DeadOK
<1>6. state' = "idle" /\ Has("power", "start_timer", "reprotection")' => Dead'
  BY <1>4 DEF DeadOK
<1>7. Has("power", "send_show", "reprotection")' => \A m \in Monitors : ~Stopping("window", m)'
  BY <1>2, <1>3, <1>4 DEF DeadOK, OneEnder
<1>8. \A u, v \in Loops, m, n \in Monitors : Stopping(u, m)' /\ Stopping(v, n)' => u = v
  BY <1>3 DEF OneEnder
<1> QED
  BY <1>5, <1>6, <1>7, <1>8 DEF DeadOK, OneEnder

\* The window is not shown, and who has hidden it has posted HIDE.
LEMMA SeenStays ==
  ASSUME SeenOK, NEW t \in Threads, NEW C, Goes(t, C),
         win'.visible =>
             /\ win'.up /\ (t = "window" => C = {})
             /\ \/ win.visible
                \/ /\ Idle("window") /\ state \notin {"turning_off", "waiting"}
                   /\ state = "reprotection" => t = "power" /\ Do("send_show", state) \notin C
             /\ win.doomed => win'.doomed
             /\ win.hides > 0 => win'.hides > 0,
         Has(t, "hide", "window") =>
             Do("hide", "window") \in C \/ (win'.visible => win'.hides > 0 \/ win'.doomed),
         state' \in {"turning_off", "waiting"} =>
             state \in {"turning_off", "waiting"} \/ Do("hide", "window") \in C,
         state' = "reprotection" => state = "reprotection" \/ (win'.visible => win'.doomed),
         t = "power" /\ state = "reprotection" =>
             (Do("send_show", state) \in C => Has(t, "send_show", state)),
         ProgramOK'
  PROVE  SeenOK'
<1>1. /\ \A u \in Threads \ {t} : todo'[u] = todo[u] /\ \A c, o : Has(u, c, o)' <=> Has(u, c, o)
      /\ \A c, o : Has(t, c, o)' <=> Do(c, o) \in C
      /\ Elems(todo'[t]) = C
  BY OthersSame DEF Goes
<1>2. "window" \in Threads /\ "power" \in Threads
  BY DEF Threads, Loops, Monitors
<1>3. ASSUME win'.visible PROVE win'.up /\ Idle("window")'
  <2>1. Idle("window")
    BY <1>3 DEF SeenOK
  <2>2. CASE t = "window"
    <3>1. Elems(todo'["window"]) = {} /\ Program("window", todo'["window"])
      BY <1>1, <1>2, <1>3, <2>2 DEF ProgramOK
    <3> QED
      BY <1>2, <1>3, <3>1, EmptyProgram DEF Idle
  <2>3. CASE t # "window"
    BY <1>1, <1>2, <1>3, <2>1, <2>3 DEF Idle
  <2> QED
    BY <2>2, <2>3
<1>4. ASSUME state' \in {"turning_off", "waiting"}, win'.visible
      PROVE  win'.hides > 0 \/ win'.doomed \/ \E u \in Threads : Has(u, "hide", "window")'
  <2>1. CASE Do("hide", "window") \in C
    BY <1>1, <2>1
  <2>2. CASE Do("hide", "window") \notin C
    <3>1. state \in {"turning_off", "waiting"} /\ win.visible
      BY <1>4, <2>2 DEF Counting
    <3>2. win.hides > 0 \/ win.doomed \/ \E u \in Threads : Has(u, "hide", "window")
      BY <3>1 DEF SeenOK
    <3>3. ASSUME NEW u \in Threads, Has(u, "hide", "window")
          PROVE  win'.hides > 0 \/ win'.doomed \/ Has(u, "hide", "window")'
      BY <1>1, <1>4, <2>2, <3>3
    <3> QED
      BY <1>4, <3>2, <3>3
  <2> QED
    BY <2>1, <2>2
<1>5. ASSUME state' = "reprotection", Has("power", "send_show", "reprotection")', win'.visible
      PROVE  win'.doomed
  <2>1. CASE state # "reprotection"
    BY <1>5, <2>1
  <2>2. CASE state = "reprotection" /\ t = "power"
    BY <1>1, <1>5, <2>2 DEF SeenOK
  <2>3. CASE state = "reprotection" /\ t # "power"
    BY <1>1, <1>2, <1>5, <2>3 DEF SeenOK
  <2> QED
    BY <2>1, <2>2, <2>3
<1> QED
  BY <1>3, <1>4, <1>5 DEF SeenOK

\* A step that shows no window, begins no flow and ends none.
Works(t, C) ==
    /\ Goes(t, C) /\ UNCHANGED <<gen, closed, state, timer>>
    /\ \A u \in Threads \ {t} : loc'[u] = loc[u]
    /\ loc'[t].gen \in {0, loc[t].gen} \cup {mon[m].gen : m \in Monitors}
    /\ \A m \in Monitors : Do("join", m) \in C /\ Do("request_stop", m) \notin C =>
          loc'[t].id = mon'[m].id /\ mon'[m].stop
    /\ Do("join", "window") \in C => Has(t, "join", "window")
    /\ t \in Loops => \A m \in Monitors : \A d \in Stops(m) : d \in C => Stopping(t, m)
    /\ t = "power" => \A d \in Showing("reprotection") : d \in C => d \in Elems(todo[t])
    /\ Has(t, "hide", "window") =>
          Do("hide", "window") \in C \/ (win'.visible => win'.hides > 0 \/ win'.doomed)
    /\ t = "window" /\ C # {} => ~win'.visible

SameMonitors ==
    \A m \in Monitors :
        /\ mon'[m].gen \in {mon[m].gen} \cup {loc[u].gen : u \in Threads}
        /\ \/ mon'[m].id = mon[m].id /\ (mon[m].stop => mon'[m].stop)
           \/ mon'[m].id > mon[m].id

SameWindow ==
    /\ win'.cancel \in {0, win.cancel} \cup {loc[u].gen : u \in Threads}
    /\ win'.visible =>
          /\ win'.up /\ win.visible /\ (win.doomed => win'.doomed)
          /\ win.hides > 0 => win'.hides > 0

LEMMA WorkWaits ==
  ASSUME WaitInv, LoopInv, LoopInv', NEW t \in Threads, NEW C, Works(t, C), SameMonitors, SameWindow
  PROVE  WaitInv'
<1>1. JoinsOK /\ DeadOK /\ OneEnder /\ SeenOK /\ ProgramOK'
  BY DEF WaitInv, LoopInv
<1>2. JoinsOK'
  BY <1>1, JoinsStay DEF Works, SameMonitors, JoinsOK
<1>3. (Dead => Dead') /\ win'.cancel <= gen'
  BY <1>1, DeadStays DEF Works, SameMonitors, SameWindow, DeadOK
<1>4. DeadOK' /\ OneEnder'
  BY <1>1, <1>3, EndersStay DEF Works
<1>5. t = "power" /\ state = "reprotection" =>
         (Do("send_show", state) \in C => Has(t, "send_show", state))
  BY DEF Works, Showing, Has
<1>6. SeenOK'
  BY <1>1, <1>5, SeenStays DEF Works, SameWindow
<1> QED
  BY <1>2, <1>4, <1>6 DEF WaitInv

\* The flow ends: what it leaves is dead, unless arm() begins the next one.
LEMMA EndWaits ==
  ASSUME WaitInv, LoopInv, LoopInv', NEW t \in Threads, NEW rest, NEW g, EndFlow(t, rest, g),
         NEW R, Goes(t, ToEnd(StillToStop) \cup R), UNCHANGED mon,
         \A c, o : Do(c, o) \in R => c \notin {"request_stop", "join", "send_show", "start_timer"}
                                     \/ (c = "join" /\ o = "window" /\ closed'),
         closed => closed', win' = win \/ (win' = Hidden(win) /\ ~win'.visible),
         t = "window" => win' = Hidden(win) /\ ~Has("power", "send_show", "reprotection"),
         t \in Loops => g = 0 /\ ~Dead,
         g = 0 \/ \A u \in Threads \ {t} : Idle(u)
  PROVE  WaitInv'
<1>1. /\ gen' = gen + 1 /\ state' = "idle" /\ timer' = NoTimer /\ gen \in Nat /\ loc'[t].gen = g
      /\ \A u \in Threads \ {t} : loc'[u] = loc[u]
  BY EndFlowLocals, Facts DEF EndFlow
<1>2. /\ \A u \in Threads \ {t} : todo'[u] = todo[u] /\ \A c, o : Has(u, c, o)' <=> Has(u, c, o)
      /\ \A c, o : Has(t, c, o)' <=> Do(c, o) \in ToEnd(StillToStop) \cup R
  BY OthersSame
<1>3. /\ JoinsOK /\ DeadOK /\ OneEnder /\ SeenOK /\ ProgramOK
      /\ Loops \subseteq Threads /\ "power" \in Loops /\ "window" \in Loops /\ "window" \notin Monitors
      /\ win \in WinType /\ \A u \in Threads : loc[u].gen \in 0..gen
      /\ \A m \in Monitors : mon[m].gen <= gen /\ mon[m].gen \in Nat
  BY LocOf, Facts, MonGen DEF WaitInv, LocRec, Threads, Loops, Monitors, LoopInv, TypeInv, TypeOK
<1>4. win'.up = win.up /\ win'.cancel \in {0, win.cancel} /\ (win'.visible => win.visible /\ win' = win)
  BY <1>3 DEF Hidden, WinType
<1>5. ASSUME NEW c, NEW o, Do(c, o) \in ToEnd(StillToStop)
      PROVE  /\ c \in {"hide", "request_stop", "join", "record_stop"}
             /\ c = "join" => o \in Monitors /\ Do("request_stop", o) \in ToEnd(StillToStop)
  <2>1. CASE Do(c, o) = Do("hide", "window")
    BY <2>1, DoFields
  <2>2. ASSUME NEW m \in Monitors, Do(c, o) \in Stops(m), Stops(m) \subseteq ToEnd(StillToStop)
        PROVE  /\ c \in {"hide", "request_stop", "join", "record_stop"}
               /\ c = "join" => o \in Monitors /\ Do("request_stop", o) \in ToEnd(StillToStop)
    BY <2>2, DoFields DEF Stops
  <2>3. \/ Do(c, o) = Do("hide", "window")
        \/ \E m \in Monitors : Do(c, o) \in Stops(m) /\ Stops(m) \subseteq ToEnd(StillToStop)
    BY <1>5 DEF ToEnd, ToStop, Monitors
  <2> QED
    BY <2>1, <2>2, <2>3
<1>6. JoinsOK'
  <2>1. \A m \in Monitors : Do("join", m) \in ToEnd(StillToStop) \cup R =>
                            Do("request_stop", m) \in ToEnd(StillToStop) \cup R
    BY <1>3, <1>5
  <2>2. Do("join", "window") \in ToEnd(StillToStop) \cup R => closed'
    BY <1>3, <1>5
  <2> QED
    BY <1>1, <1>3, <2>1, <2>2, JoinsStay
<1>7. g = 0 => Dead'
  BY <1>1, <1>3, <1>4 DEF Dead, DeadOK, WinType
<1>8. ASSUME g # 0, NEW u \in Loops
      PROVE  (\A m \in Monitors : ~Stopping(u, m)') /\ \A c, o : ~Has(u, c, o)'
  <2>1. Idle(u) /\ u # t
    BY <1>3, <1>8
  <2>2. Elems(todo[u]) = {}
    BY <1>3, <2>1, IdleHas
  <2> QED
    BY <1>2, <1>3, <2>1, <2>2 DEF Has, Stopping
<1>9. DeadOK'
  <2>1. win'.cancel <= gen'
    BY <1>1, <1>3, <1>4 DEF DeadOK, WinType
  <2> QED
    BY <1>3, <1>7, <1>8, <2>1 DEF DeadOK
<1>10. OneEnder'
  <2>1. ASSUME NEW u \in Loops, NEW m \in Monitors, Stopping(u, m)'
        PROVE  Stopping(u, m) \/ u = t
    BY <1>2, <1>3, <2>1 DEF Stopping
  <2>2. t \in Loops => \A u \in Loops, m \in Monitors : ~Stopping(u, m)
    BY <1>3 DEF DeadOK
  <2>3. \A u, v \in Loops, m, n \in Monitors : Stopping(u, m)' /\ Stopping(v, n)' => u = v
    BY <1>3, <2>1, <2>2 DEF OneEnder
  <2>4. Has("power", "send_show", "reprotection")' => Has("power", "send_show", "reprotection")
    BY <1>2, <1>3, <1>5
  <2>5. Has("power", "send_show", "reprotection") => \A m \in Monitors : ~Stopping("window", m)'
    BY <1>3, <2>1 DEF OneEnder
  <2> QED
    BY <2>3, <2>4, <2>5 DEF OneEnder
<1>11. SeenOK'
  <2>1. ASSUME win'.visible PROVE win'.up /\ Idle("window")'
    <3>1. t # "window" /\ win.visible
      BY <1>3, <1>4, <2>1 DEF Hidden, WinType
    <3> QED
      BY <1>2, <1>3, <1>4, <2>1, <3>1 DEF SeenOK, Idle
  <2> QED
    BY <1>1, <2>1 DEF SeenOK
<1> QED
  BY <1>6, <1>9, <1>10, <1>11 DEF WaitInv

\* The next call of a handler that neither hides the window nor asks a monitor to stop.
LEMMA CallWaits ==
  ASSUME WaitInv, LoopInv, LoopInv', NEW t \in Threads, NEW c, At(t, c), c # "hide",
         NEW C, Goes(t, C), UNCHANGED <<gen, closed, state, timer>>, SameMonitors, SameWindow,
         \A u \in Threads \ {t} : loc'[u] = loc[u], loc'[t].gen \in {0, loc[t].gen},
         \A d, o : Do(d, o) \in C =>
             \/ Has(t, d, o) \/ d = "deactivate"
             \/ t = "api" /\ o \in Monitors /\ d \in {"request_stop", "join", "record_stop"},
         \A m \in Monitors : Do("join", m) \in C => Do("request_stop", m) \in C
  PROVE  WaitInv'
<1>1. ~Has(t, "hide", "window") /\ todo[t] # <<>> /\ "window" \notin Monitors /\ "api" \notin Loops
  BY Facts, AtCall DEF Called, Loops, Monitors
<1>2. Do("join", "window") \in C => Has(t, "join", "window")
  BY <1>1
<1>3. t \in Loops => \A m \in Monitors : \A d \in Stops(m) : d \in C => Stopping(t, m)
  BY <1>1 DEF Stops, Stopping
<1>4. \A d \in Showing("reprotection") : d \in C => d \in Elems(todo[t])
  BY DEF Showing, Has
<1>5. t = "window" => ~win'.visible
  BY <1>1 DEF WaitInv, SeenOK, SameWindow, Idle
<1>6. Works(t, C)
  BY <1>1, <1>2, <1>3, <1>4, <1>5 DEF Works
<1> QED
  BY <1>6, WorkWaits

LEMMA NextWaits ==
  ASSUME WaitInv, LoopInv, LoopInv', NEW t \in Threads, NEW c, At(t, c),
         c \notin {"hide", "request_stop"}, Proceed(t), UNCHANGED <<gen, closed, state, timer>>,
         SameMonitors, SameWindow,
         \A u \in Threads \ {t} : loc'[u] = loc[u], loc'[t].gen = loc[t].gen
  PROVE  WaitInv'
<1> DEFINE C == Elems(todo[t]) \ {Do(c, Now(t))}
<1>1. Goes(t, C)
  BY ProceedCalls
<1>2. \A d, o : Do(d, o) \in C => Has(t, d, o)
  BY DEF Has
<1>3. \A m \in Monitors : Do("join", m) \in C => Do("request_stop", m) \in C
  <2>1. C = Elems(todo[t]) \ {Do(c, Now(t))}
    OBVIOUS
  <2> HIDE DEF C
  <2> QED
    BY <2>1, NoJoinNext
<1> HIDE DEF C
<1> QED
  BY <1>1, <1>2, <1>3, CallWaits

LEMMA ReturnWaits ==
  ASSUME WaitInv, LoopInv, LoopInv', NEW t \in Threads, NEW c, At(t, c), c # "hide", Return(t),
         UNCHANGED <<gen, closed, state, timer>>, SameMonitors, SameWindow
  PROVE  WaitInv'
<1>1. Goes(t, {}) /\ loc' = [loc EXCEPT ![t] = Locals]
  BY ReturnCalls DEF Return
<1>2. loc'[t] = Locals /\ \A u \in Threads \ {t} : loc'[u] = loc[u]
  BY <1>1, OneLocal
<1>3. loc'[t].gen = 0
  BY <1>2 DEF Locals
<1> QED
  BY <1>1, <1>2, <1>3, CallWaits

LEMMA GiveUpWaits ==
  ASSUME WaitInv, LoopInv, LoopInv', NEW t \in Threads, NEW c, At(t, c), c # "hide",
         t \notin {"input", "window"}, GiveUp(t),
         UNCHANGED <<gen, closed, state, timer, loc>>, SameMonitors, SameWindow
  PROVE  WaitInv'
<1>1. Goes(t, {GivingUp})
  BY GiveUpCalls
<1>2. \A d, o : Do(d, o) \in {GivingUp} => d = "deactivate"
  BY DoFields DEF GivingUp
<1> QED
  BY <1>1, <1>2, CallWaits

LEMMA StartFailsWaits ==
  ASSUME WaitInv, LoopInv, LoopInv', NEW c, At("api", c), c # "hide", Now("api") \in Monitors,
         StartFails("api"), UNCHANGED <<gen, closed, state, timer, loc>>, SameMonitors, SameWindow
  PROVE  WaitInv'
<1> DEFINE m == Now("api")
           C == Stops(m) \cup {GivingUp}
<1>1. Goes("api", C) /\ "api" \in Threads
  BY StartFailsCalls, Facts
<1>2. \A d, o : Do(d, o) \in C =>
         d = "deactivate" \/ (o \in Monitors /\ d \in {"request_stop", "join", "record_stop"})
  BY DoFields DEF Stops, GivingUp
<1>3. \A n \in Monitors : Do("join", n) \in C => Do("request_stop", n) \in C
  BY DoFields DEF Stops, GivingUp
<1> HIDE DEF C
<1> QED
  BY <1>1, <1>2, <1>3, CallWaits

LEMMA NothingWaits ==
  ASSUME LoopInv
  PROVE  /\ UNCHANGED mon => SameMonitors
         /\ UNCHANGED win /\ WaitInv => SameWindow
BY DEF SameMonitors, SameWindow, WaitInv, SeenOK

LEMMA CheckWaits ==
  ASSUME WaitInv, Inv, Inv', NEW t \in Threads, Check(t)
  PROVE  WaitInv'
<1>1. LoopInv /\ LoopInv'
  BY DEF Inv
<1>2. /\ At(t, "check") /\ UNCHANGED <<gen, closed, state, timer>>
      /\ (Proceed(t) /\ UNCHANGED loc) \/ Return(t)
      /\ SameMonitors /\ SameWindow
  BY <1>1, NothingWaits DEF Check, ctrl, env
<1> QED
  BY <1>1, <1>2, NextWaits, ReturnWaits

LEMMA JoinWaits ==
  ASSUME WaitInv, Inv, Inv', NEW t \in Threads, Join(t)
  PROVE  WaitInv'
<1>1. LoopInv /\ LoopInv' /\ loc[t] \in LocRec(gen)
  BY LocOf DEF Inv
<1>2. /\ At(t, "join") /\ UNCHANGED <<gen, closed, state, timer>> /\ Proceed(t)
      /\ SameMonitors /\ SameWindow
      /\ \E x : loc' = [loc EXCEPT ![t] = [loc[t] EXCEPT !.ok = x]]
  BY <1>1, NothingWaits DEF Join, ctrl
<1>3. loc'[t].gen = loc[t].gen /\ \A u \in Threads \ {t} : loc'[u] = loc[u]
  BY <1>1, <1>2, OneLocal DEF LocRec
<1> QED
  BY <1>1, <1>2, <1>3, NextWaits

LEMMA RecordStopWaits ==
  ASSUME WaitInv, Inv, Inv', NEW t \in Threads, RecordStop(t)
  PROVE  WaitInv'
<1>1. LoopInv /\ LoopInv' /\ loc[t] \in LocRec(gen)
  BY LocOf DEF Inv
<1>2. /\ At(t, "record_stop") /\ UNCHANGED <<gen, closed, state, timer>>
      /\ SameMonitors /\ SameWindow
      /\ \/ Return(t)
         \/ Proceed(t) /\ loc' = [loc EXCEPT ![t] = [loc[t] EXCEPT !.id = 0, !.ok = FALSE]]
  BY <1>1, NothingWaits DEF RecordStop, env
<1>3. CASE Proceed(t) /\ loc' = [loc EXCEPT ![t] = [loc[t] EXCEPT !.id = 0, !.ok = FALSE]]
  <2>1. loc'[t].gen = loc[t].gen /\ \A u \in Threads \ {t} : loc'[u] = loc[u]
    BY <1>1, <1>3, OneLocal DEF LocRec
  <2> QED
    BY <1>1, <1>2, <1>3, <2>1, NextWaits
<1> QED
  BY <1>1, <1>2, <1>3, ReturnWaits

LEMMA StartWaits ==
  ASSUME WaitInv, Inv, Inv', NEW t \in Threads, Start(t)
  PROVE  WaitInv'
<1>1. LoopInv /\ LoopInv'
  BY DEF Inv
<1>2. /\ At(t, "start") /\ UNCHANGED <<gen, closed, state, timer, loc>>
      /\ SameMonitors /\ SameWindow
  BY <1>1, NothingWaits DEF Start, ctrl, env
<1> DEFINE E == Elems(todo[t]) \ {Do("start", Now(t))}
           X == {Do("request_stop", Now(t)), Do("join", Now(t))}
<1>3. t = "api" /\ Now(t) \in Monitors /\ (Goes(t, E \cup X) \/ Goes(t, E \cup {}))
  <2>1. E \cup {} = E
    OBVIOUS
  <2> QED
    BY <1>1, <2>1, StartCallsLeft
<1>4. PICK Y \in {X, {}} : Goes(t, E \cup Y)
  BY <1>3
<1> DEFINE C == E \cup Y
<1>5. \A d, o : Do(d, o) \in C =>
         Has(t, d, o) \/ (o \in Monitors /\ d \in {"request_stop", "join", "record_stop"})
  BY <1>3, DoFields DEF Has
<1>6. \A m \in Monitors : Do("join", m) \in E => Do("request_stop", m) \in E
  BY <1>1, <1>2, NoJoinNext
<1>7. \A m \in Monitors : Do("join", m) \in Y => Do("request_stop", m) \in Y
  BY DoFields
<1>8. \A m \in Monitors : Do("join", m) \in C => Do("request_stop", m) \in C
  BY <1>6, <1>7
<1>9. Goes(t, C)
  BY <1>4
<1> HIDE DEF C
<1> QED
  BY <1>1, <1>2, <1>3, <1>5, <1>8, <1>9, CallWaits

LEMMA ReadyWaits ==
  ASSUME WaitInv, Inv, Inv', NEW t \in Threads, Ready(t)
  PROVE  WaitInv'
<1>1. LoopInv /\ LoopInv'
  BY DEF Inv
<1>2. /\ At(t, "ready") /\ UNCHANGED <<gen, closed, state, timer, loc>>
      /\ SameMonitors /\ SameWindow /\ (Proceed(t) \/ StartFails(t))
  BY <1>1, NothingWaits DEF Ready, ctrl, env
<1>3. t = "api" /\ Now(t) \in Monitors
  BY <1>1, <1>2, Facts, AtCall DEF Called
<1> QED
  BY <1>1, <1>2, <1>3, NextWaits, StartFailsWaits

\* The new thread of a monitor has arm()'s generation and a new identity.
LEMMA SpawnWaits ==
  ASSUME WaitInv, Inv, Inv', NEW t \in Threads, Spawn(t)
  PROVE  WaitInv'
<1>1. LoopInv /\ LoopInv' /\ mon \in MonType
  BY Facts DEF Inv
<1>2. /\ At(t, "spawn") /\ UNCHANGED <<gen, closed, state, timer, win, loc>>
      /\ Proceed(t) \/ StartFails(t)
      /\ UNCHANGED mon \/ \E up : mon' = [mon EXCEPT ![Now(t)] = NewThread(t, Now(t), up)]
  BY DEF Spawn, ctrl
<1>3. t = "api" /\ Now(t) \in Monitors
  BY <1>1, <1>2, Facts, AtCall DEF Called
<1>4. SameWindow
  BY <1>1, <1>2, NothingWaits
<1>5. SameMonitors
  BY <1>1, <1>2, <1>3 DEF SameMonitors, NewThread, MonType
<1> QED
  BY <1>1, <1>2, <1>3, <1>4, <1>5, NextWaits, StartFailsWaits

LEMMA RecordStartWaits ==
  ASSUME WaitInv, Inv, Inv', NEW t \in Threads, RecordStart(t)
  PROVE  WaitInv'
<1>1. LoopInv /\ LoopInv'
  BY DEF Inv
<1>2. /\ At(t, "record_start") /\ UNCHANGED <<gen, closed, state, timer, loc>>
      /\ SameMonitors /\ SameWindow
  BY <1>1, NothingWaits DEF RecordStart, env
<1>3. /\ t = "api" /\ Now(t) \in Monitors
      /\ Proceed(t) \/ Goes(t, StopNew(Now(t)))
  BY <1>1, RecordStartCalls
<1>4. CASE Goes(t, StopNew(Now(t)))
  <2> DEFINE C == StopNew(Now(t))
  <2>1. \A d, o : Do(d, o) \in C =>
           d = "deactivate" \/ (o \in Monitors /\ d \in {"request_stop", "join", "record_stop"})
    BY <1>3, DoFields DEF StopNew, Stops, GivingUp
  <2>2. \A n \in Monitors : Do("join", n) \in C => Do("request_stop", n) \in C
    BY DoFields DEF StopNew, Stops, GivingUp
  <2>3. Goes(t, C)
    BY <1>4
  <2> HIDE DEF C
  <2> QED
    BY <1>1, <1>2, <1>3, <2>1, <2>2, <2>3, CallWaits
<1> QED
  BY <1>1, <1>2, <1>3, <1>4, NextWaits

LEMMA RequestStopWaits ==
  ASSUME WaitInv, Inv, Inv', NEW t \in Threads, RequestStop(t)
  PROVE  WaitInv'
<1> DEFINE m == Now(t)
           C == Elems(todo[t]) \ {Do("request_stop", m)}
<1>1. LoopInv /\ LoopInv' /\ ProgramOK /\ loc[t] \in LocRec(gen) /\ mon \in MonType
  BY LocOf, Facts DEF Inv
<1>2. /\ At(t, "request_stop") /\ UNCHANGED <<gen, closed, state, timer, win>> /\ Proceed(t)
      /\ mon' = [mon EXCEPT ![m].stop = TRUE]
      /\ loc' = [loc EXCEPT ![t] = [loc[t] EXCEPT !.id = mon[m].id]]
  BY DEF RequestStop, ctrl
<1>3. Goes(t, C) /\ m \in Monitors /\ ~Has(t, "hide", "window") /\ todo[t] # <<>>
  BY <1>1, <1>2, ProceedCalls, AtCall DEF Called
<1>4. /\ loc'[t].gen = loc[t].gen /\ loc'[t].id = mon[m].id
      /\ \A u \in Threads \ {t} : loc'[u] = loc[u]
  <2>1. loc'[t] = [loc[t] EXCEPT !.id = mon[m].id] /\ \A u \in Threads \ {t} : loc'[u] = loc[u]
    BY <1>1, <1>2, OneLocal
  <2> QED
    BY <1>1, <2>1 DEF LocRec
<1>5. mon'[m].stop /\ \A n \in Monitors : mon'[n].id = mon[n].id /\ mon'[n].gen = mon[n].gen
                                          /\ (mon[n].stop => mon'[n].stop)
  BY <1>1, <1>2, <1>3 DEF MonType
<1>6. \A n \in Monitors : Do("join", n) \in C /\ Do("request_stop", n) \notin C => n = m
  <2>1. \A n \in Monitors : n # m => ~AtJoin(t, n)
    BY <1>1, <1>2, <1>3, OneStop
  <2> QED
    BY <2>1, DoFields DEF AtJoin, Has
<1>7. t = "window" => ~win'.visible
  BY <1>2, <1>3 DEF WaitInv, SeenOK, Idle
<1>8. t \in Loops => \A n \in Monitors : \A d \in Stops(n) : d \in C => Stopping(t, n)
  BY DEF Stops, Stopping, Has
<1>9. C \subseteq Elems(todo[t])
  OBVIOUS
<1> HIDE DEF C, m
<1>10. Works(t, C)
  BY <1>2, <1>3, <1>4, <1>5, <1>6, <1>7, <1>8, <1>9 DEF Works, Has
<1>11. SameMonitors /\ SameWindow
  BY <1>1, <1>2, <1>5, NothingWaits DEF SameMonitors
<1> QED
  BY <1>1, <1>10, <1>11, WorkWaits

LEMMA HideWaits ==
  ASSUME WaitInv, Inv, Inv', NEW t \in Threads, Hide(t)
  PROVE  WaitInv'
<1> DEFINE C == Elems(todo[t]) \ {Do("hide", Now(t))}
<1>1. LoopInv /\ LoopInv' /\ ProgramOK /\ loc[t] \in LocRec(gen) /\ win \in WinType /\ SeenOK
  BY LocOf, Facts DEF Inv, WaitInv
<1>2. /\ At(t, "hide") /\ UNCHANGED <<gen, closed, state, timer, mon>> /\ Proceed(t)
      /\ loc' = [loc EXCEPT ![t] = [loc[t] EXCEPT !.timer = NoTimer]]
      /\ win' = IF win.up /\ ~win.doomed THEN [win EXCEPT !.hides = @ + 1] ELSE win
  BY DEF Hide, ctrl
<1>3. Goes(t, C) /\ todo[t] # <<>>
  BY <1>1, <1>2, ProceedCalls DEF At
<1>4. loc'[t].gen = loc[t].gen /\ \A u \in Threads \ {t} : loc'[u] = loc[u]
  BY <1>1, <1>2, OneLocal DEF LocRec
<1>5. \A m \in Monitors : Do("join", m) \in C => Do("request_stop", m) \in C
  <2>1. C = Elems(todo[t]) \ {Do("hide", Now(t))}
    OBVIOUS
  <2> HIDE DEF C
  <2> QED
    BY <1>1, <1>2, <2>1, NoJoinNext
<1>6. /\ win'.visible = win.visible /\ win'.up = win.up /\ win'.doomed = win.doomed
      /\ win'.cancel = win.cancel /\ (win.hides > 0 => win'.hides > 0)
      /\ win.up /\ ~win.doomed => win'.hides > 0
  BY <1>1, <1>2 DEF WinType
<1>7. SameMonitors /\ SameWindow
  BY <1>1, <1>2, <1>6, NothingWaits DEF SameWindow, SeenOK
<1>8. t = "window" => ~win'.visible
  BY <1>1, <1>3, <1>6 DEF SeenOK, Idle
<1>9. t \in Loops => \A n \in Monitors : \A d \in Stops(n) : d \in C => Stopping(t, n)
  BY DEF Stops, Stopping, Has
<1>10. C \subseteq Elems(todo[t])
  OBVIOUS
<1> HIDE DEF C
<1>11. Works(t, C)
  BY <1>1, <1>2, <1>3, <1>4, <1>5, <1>6, <1>8, <1>9, <1>10 DEF Works, Has, SeenOK
<1> QED
  BY <1>1, <1>7, <1>11, WorkWaits

LEMMA DeactivateWaits ==
  ASSUME WaitInv, Inv, Inv', NEW t \in Threads, Deactivate(t)
  PROVE  WaitInv'
<1>1. LoopInv /\ LoopInv' /\ SameMonitors /\ SameWindow
  BY NothingWaits DEF Inv, Deactivate, env
<1>2. At(t, "deactivate") /\ t # "window" /\ UNCHANGED <<closed, mon, win>>
  BY <1>1, Facts, AtCall DEF Called, Deactivate, env
<1>3. CASE gen = loc[t].gen
  <2>1. Goes(t, ToEnd(StillToStop) \cup {}) /\ EndFlow(t, <<>>, 0)
    BY <1>1, <1>3, DeactivateStep DEF Deactivate
  <2>2. ~Dead
    BY <1>3 DEF Dead
  <2> QED
    BY <1>1, <1>2, <2>1, <2>2, EndWaits
<1>4. CASE gen # loc[t].gen
  BY <1>1, <1>2, <1>4, ReturnWaits DEF Deactivate
<1> QED
  BY <1>3, <1>4

\* A countdown begins in a flow that is not dead, with the window out of sight.
LEMMA CountdownWaits ==
  ASSUME WaitInv, CancelInv, Inv, Inv', NEW t \in Threads, Countdown(t)
  PROVE  WaitInv'
<1>1. /\ LoopInv /\ LoopInv' /\ ProgramOK' /\ HidesOK /\ TimersOK /\ loc[t] \in LocRec(gen)
      /\ JoinsOK /\ DeadOK /\ OneEnder /\ SeenOK /\ win \in WinType
  BY LocOf, Facts DEF Inv, LoopInv, CancelInv, WaitInv
<1>2. /\ At(t, "countdown") /\ Drained /\ UNCHANGED <<gen, closed, mon, win>>
      /\ \/ ~MayCount(t) /\ Return(t) /\ UNCHANGED <<timer, state>>
         \/ MayCount(t) /\ state' = Now(t) /\ \E x : loc' = [loc EXCEPT ![t] = [loc[t] EXCEPT !.timer = x]]
         \/ MayCount(t) /\ state' = Now(t) /\ loc' = loc
  BY DEF Countdown
<1>3. /\ (t = "api" /\ Now(t) = "initial") \/ (t = "power" /\ Now(t) = "reprotection")
      /\ \/ ~MayCount(t) \/ Goes(t, Showing(Now(t))) \/ Goes(t, {GivingUp})
      /\ ~Has(t, "hide", "window")
  BY <1>1, <1>2, CountdownCalls, Facts, AtCall DEF Called
<1>4. CASE ~MayCount(t)
  BY <1>1, <1>2, <1>4, NothingWaits, ReturnWaits
<1>5. CASE MayCount(t)
  <2>1. PICK C \in {Showing(Now(t)), {GivingUp}} : Goes(t, C)
    BY <1>3, <1>5
  <2>2. \A c, o : Do(c, o) \in C => c \in {"show", "send_show", "verify", "start_timer", "deactivate"}
    BY DoFields DEF Showing, GivingUp
  <2>3. /\ state = Expected[Now(t)] /\ state' = Now(t) /\ loc[t].gen = gen /\ ~Dead
        /\ loc'[t].gen = loc[t].gen /\ \A u \in Threads \ {t} : loc'[u] = loc[u]
    BY <1>1, <1>2, <1>5, OneLocal DEF MayCount, Current, Dead, LocRec
  <2>4. JoinsOK'
    BY <1>1, <1>2, <2>1, <2>2, <2>3, JoinsStay
  <2>5. DeadOK' /\ OneEnder'
    <3>1. \A m \in Monitors : \A d \in Stops(m) : d \notin C
      BY <2>2 DEF Stops
    <3>2. win'.cancel <= gen' /\ state' # "idle"
      BY <1>1, <1>2, <1>3, <2>3 DEF DeadOK
    <3> QED
      BY <1>1, <2>1, <2>3, <3>1, <3>2, EndersStay
  <2>6. state' = "reprotection" => (win'.visible => win'.doomed)
    <3> SUFFICES ASSUME state = "waiting", win.visible PROVE win.doomed
      BY <1>2, <1>3, <2>3 DEF Expected
    <3>1. win.hides = 0
      BY <1>1, <1>2 DEF SeenOK, Drained
    <3>2. \A u \in Threads : ~Has(u, "hide", "window")
      BY <1>1 DEF HidesOK, TimersOK
    <3> QED
      BY <1>1, <3>1, <3>2 DEF SeenOK
  <2>7. win'.visible => win'.up /\ win.visible
    BY <1>1, <1>2 DEF SeenOK
  <2>8. state # "reprotection" /\ state' \notin {"turning_off", "waiting"} /\ t # "window"
    BY <1>3, <2>3 DEF Expected
  <2>9. SeenOK'
    BY <1>1, <1>2, <1>3, <2>1, <2>6, <2>7, <2>8, SeenStays
  <2> QED
    BY <2>4, <2>5, <2>9 DEF WaitInv
<1> QED
  BY <1>4, <1>5

LEMMA ShowWaits ==
  ASSUME WaitInv, Inv, Inv', NEW t \in Threads, Show(t)
  PROVE  WaitInv'
<1>1. LoopInv /\ LoopInv' /\ win \in WinType
  BY Facts DEF Inv
<1>2. /\ At(t, "show") /\ UNCHANGED <<gen, closed, state, timer, loc>> /\ SameMonitors
      /\ (win' = Opened(loc[t].gen) /\ Proceed(t)) \/ (GiveUp(t) /\ UNCHANGED win)
  BY <1>1, NothingWaits DEF Show, ctrl
<1>3. t \notin {"input", "window"}
  BY <1>1, <1>2, Facts, AtCall DEF Called
<1>4. SameWindow
  BY <1>1, <1>2, NothingWaits DEF SameWindow, Opened, WinType
<1> QED
  BY <1>1, <1>2, <1>3, <1>4, NextWaits, GiveUpWaits

LEMMA SendShowWaits ==
  ASSUME WaitInv, CancelInv, Inv, Inv', NEW t \in Threads, SendShow(t)
  PROVE  WaitInv'
<1>1. /\ LoopInv /\ LoopInv' /\ ProgramOK' /\ win \in WinType
      /\ JoinsOK /\ DeadOK /\ OneEnder /\ SeenOK
  BY Facts DEF Inv, LoopInv, WaitInv
<1>2. /\ At(t, "send_show") /\ UNCHANGED <<gen, closed, state, timer, mon, loc>> /\ SameMonitors
      /\ \/ /\ win.up /\ ~win.doomed /\ Idle("window")
            /\ win' = [win EXCEPT !.visible = TRUE] /\ Proceed(t)
         \/ GiveUp(t) /\ UNCHANGED win
  BY <1>1, NothingWaits DEF SendShow, ctrl
<1>3. /\ t \notin {"input", "window"} /\ ~Has(t, "hide", "window")
      /\ (t = "api" /\ Now(t) = "initial") \/ (t = "power" /\ Now(t) = "reprotection")
  BY <1>1, <1>2, Facts, AtCall DEF Called
<1>4. CASE GiveUp(t) /\ UNCHANGED win
  BY <1>1, <1>2, <1>3, <1>4, NothingWaits, GiveUpWaits
<1>5. CASE /\ win.up /\ ~win.doomed /\ Idle("window")
           /\ win' = [win EXCEPT !.visible = TRUE] /\ Proceed(t)
  <2>1. PICK n \in Counting :
          /\ n = Now(t) /\ Elems(todo[t]) \subseteq Showing(n)
          /\ Begun(t, n) \/ (state = "idle" /\ ~Arming)
    BY <1>1, <1>2, ShowCalls
  <2> DEFINE C == Elems(todo[t]) \ {Do("send_show", n)}
  <2>2. Goes(t, C)
    BY <1>1, <1>2, <1>5, <2>1, ProceedCalls
  <2>3. C \subseteq Elems(todo[t]) /\ Do("send_show", n) \notin C
    OBVIOUS
  <2> HIDE DEF C
  <2>4. \A c, o : Do(c, o) \in C => c \in {"show", "send_show", "verify", "start_timer"}
    BY <2>1, <2>3, DoFields DEF Showing
  <2>5. /\ win'.up /\ win'.cancel = win.cancel /\ win'.doomed = win.doomed
        /\ win'.hides = win.hides
    BY <1>1, <1>5 DEF WinType
  <2>6. JoinsOK'
    BY <1>1, <1>2, <2>2, <2>4, JoinsStay DEF JoinsOK
  <2>7. (Dead => Dead') /\ win'.cancel <= gen'
    BY <1>1, <1>2, <2>5, DeadStays DEF DeadOK
  <2>8. DeadOK' /\ OneEnder'
    <3>1. \A m \in Monitors : \A d \in Stops(m) : d \notin C
      BY <2>4 DEF Stops
    <3> QED
      BY <1>1, <1>2, <2>2, <2>3, <2>7, <3>1, EndersStay
  <2>9. /\ state \notin {"turning_off", "waiting"}
        /\ state = "reprotection" => t = "power" /\ n = state
    BY <1>3, <2>1 DEF Begun, Counting
  <2>10. t = "power" /\ state = "reprotection" =>
            (Do("send_show", state) \in C => Has(t, "send_show", state))
    BY <2>3 DEF Has
  <2>11. SeenOK'
    BY <1>1, <1>2, <1>3, <1>5, <2>2, <2>3, <2>5, <2>9, <2>10, SeenStays
  <2> QED
    BY <2>6, <2>8, <2>11 DEF WaitInv
<1> QED
  BY <1>2, <1>4, <1>5

LEMMA VerifyWaits ==
  ASSUME WaitInv, Inv, Inv', NEW t \in Threads, Verify(t) \/ StartTimer(t) \/ TurnOff(t)
  PROVE  WaitInv'
<1>1. LoopInv /\ LoopInv'
  BY DEF Inv
<1>2. PICK c \in {"verify", "start_timer", "turn_off"} :
        /\ At(t, c) /\ UNCHANGED <<gen, closed, state, timer, mon, win>>
        /\ Return(t) \/ ((Proceed(t) \/ GiveUp(t)) /\ UNCHANGED loc)
  BY DEF Verify, StartTimer, TurnOff, ctrl
<1>3. SameMonitors /\ SameWindow
  BY <1>1, <1>2, NothingWaits
<1>4. t \notin {"input", "window"}
  BY <1>1, <1>2, Facts, AtCall, ConstantsAssumption DEF Called
<1> QED
  BY <1>1, <1>2, <1>3, <1>4, NextWaits, ReturnWaits, GiveUpWaits

LEMMA SettleWaits ==
  ASSUME WaitInv, Inv, Inv', NEW t \in Threads, Settle(t)
  PROVE  WaitInv'
<1>1. /\ LoopInv /\ LoopInv' /\ ProgramOK' /\ TimersOK
      /\ JoinsOK /\ DeadOK /\ OneEnder /\ SeenOK
  BY DEF Inv, LoopInv, WaitInv
<1>2. /\ At(t, "settle") /\ UNCHANGED <<gen, timer, closed, mon, win>> /\ Return(t)
      /\ state' = IF Current(loc[t].gen) THEN "waiting" ELSE state
  BY DEF Settle, env
<1>3. /\ Has(t, "settle", "flow") /\ ~Has(t, "hide", "window") /\ t \notin {"input", "window", "power"}
  BY <1>1, <1>2, Facts, AtCall, ConstantsAssumption DEF Called, Has
<1>4. CASE ~Current(loc[t].gen)
  BY <1>1, <1>2, <1>4, NothingWaits, ReturnWaits
<1>5. CASE Current(loc[t].gen)
  <2>1. state = "turning_off" /\ state' = "waiting" /\ ~Dead
    BY <1>1, <1>2, <1>3, <1>5 DEF TimersOK, Current, Dead
  <2>2. Goes(t, {}) /\ \A u \in Threads \ {t} : loc'[u] = loc[u]
    BY <1>1, <1>2, ReturnCalls, OneLocal DEF Return
  <2>3. JoinsOK'
    BY <1>1, <1>2, <2>2, JoinsStay
  <2>4. DeadOK' /\ OneEnder'
    <3>1. win'.cancel <= gen'
      BY <1>1, <1>2 DEF DeadOK
    <3> QED
      BY <1>1, <2>1, <2>2, <3>1, EndersStay
  <2>5. win'.visible => win'.up
    BY <1>1, <1>2 DEF SeenOK
  <2>6. SeenOK'
    BY <1>1, <1>2, <1>3, <2>1, <2>2, <2>5, SeenStays
  <2> QED
    BY <2>3, <2>4, <2>6 DEF WaitInv
<1> QED
  BY <1>4, <1>5

LEMMA CloseWindowWaits ==
  ASSUME WaitInv, Inv, Inv', NEW t \in Threads, CloseWindow(t)
  PROVE  WaitInv'
<1>1. LoopInv /\ LoopInv' /\ win \in WinType /\ SeenOK
  BY Facts DEF Inv, WaitInv
<1>2. PICK c \in {"close", "destroy"} : At(t, c)
  BY DEF CloseWindow
<1>3. /\ Proceed(t) /\ UNCHANGED <<gen, state, closed, timer, mon, loc>>
      /\ \/ win' = [win EXCEPT !.doomed = win.up, !.cancel = 0]
         \/ win' = [win EXCEPT !.doomed = TRUE]
  BY DEF CloseWindow, ctrl
<1>4. SameMonitors /\ SameWindow
  BY <1>1, <1>3, NothingWaits DEF SameWindow, WinType, SeenOK
<1> QED
  BY <1>1, <1>2, <1>3, <1>4, NextWaits

LEMMA TimerFiresWaits ==
  ASSUME WaitInv, Inv, Inv', NEW k \in Timers, TimerFires(k)
  PROVE  WaitInv'
<1>1. /\ LoopInv /\ LoopInv' /\ ProgramOK /\ ProgramOK' /\ k \in Threads /\ k # NoTimer
      /\ k \notin {"input", "window", "power", "api"} /\ Monitors = {"input", "power"}
      /\ JoinsOK /\ DeadOK /\ OneEnder /\ SeenOK /\ loc[k] \in LocRec(gen) /\ timers \in TimersType
  BY LocOf, Facts, ConstantsAssumption DEF Inv, LoopInv, WaitInv
<1>2. /\ Idle(k) /\ UNCHANGED <<gen, closed, mon, win>>
      /\ \/ /\ Current(timers[k].gen) /\ timer = k /\ state' = "turning_off"
            /\ Then(k, <<Do("hide", "window"), Do("turn_off", "display"), Do("settle", "flow")>>)
            /\ loc' = [loc EXCEPT ![k] = [loc[k] EXCEPT !.gen = timers[k].gen]]
         \/ UNCHANGED <<timer, state, todo, loc>>
  BY DEF TimerFires
<1>3. Elems(todo[k]) = {} /\ ~Has(k, "hide", "window")
  BY <1>1, <1>2, IdleHas
<1>4. CASE UNCHANGED <<timer, state, todo, loc>>
  <2>1. Goes(k, {})
    BY <1>1, <1>3, <1>4, NobodyGoes
  <2>2. Works(k, {})
    BY <1>1, <1>2, <1>3, <1>4, <2>1 DEF Works
  <2> QED
    BY <1>1, <1>2, <2>2, NothingWaits, WorkWaits
<1>5. CASE /\ Current(timers[k].gen) /\ timer = k /\ state' = "turning_off"
           /\ Then(k, <<Do("hide", "window"), Do("turn_off", "display"), Do("settle", "flow")>>)
           /\ loc' = [loc EXCEPT ![k] = [loc[k] EXCEPT !.gen = timers[k].gen]]
  <2>1. Goes(k, FireSet)
    BY <1>1, <1>5, Facts, FireProgram, Moved
  <2>2. ~Dead /\ \A u \in Threads \ {k} : loc'[u] = loc[u]
    BY <1>1, <1>5, OneLocal DEF Dead
  <2>3. /\ \A c, o : Do(c, o) \in FireSet => c \in {"hide", "turn_off", "settle"}
        /\ Do("hide", "window") \in FireSet
    BY DoFields DEF FireSet
  <2> HIDE DEF FireSet
  <2>4. JoinsOK'
    BY <1>1, <1>2, <2>1, <2>2, <2>3, JoinsStay
  <2>5. DeadOK' /\ OneEnder'
    <3>1. win'.cancel <= gen'
      BY <1>1, <1>2 DEF DeadOK
    <3>2. k \notin Loops
      BY <1>1 DEF Loops
    <3> QED
      BY <1>1, <1>5, <2>1, <2>2, <3>1, <3>2, EndersStay
  <2>6. win'.visible => win'.up
    BY <1>1, <1>2 DEF SeenOK
  <2>7. SeenOK'
    BY <1>1, <1>2, <1>3, <1>5, <2>1, <2>3, <2>6, SeenStays
  <2> QED
    BY <2>4, <2>5, <2>7 DEF WaitInv
<1> QED
  BY <1>2, <1>4, <1>5

LEMMA PowerOnWaits ==
  ASSUME WaitInv, Inv, Inv', PowerOn
  PROVE  WaitInv'
<1> DEFINE t == "power"
           C == {Do("countdown", "reprotection")}
<1>1. LoopInv /\ LoopInv' /\ Goes(t, C) /\ t \in Threads /\ ProgramOK /\ loc[t] \in LocRec(gen)
      /\ mon \in MonType /\ t \in Monitors
  BY LocOf, PowerOnStep, Facts DEF Inv
<1>2. /\ Idle(t) /\ UNCHANGED <<gen, closed, state, timer, mon, win>>
      /\ loc' = [loc EXCEPT ![t] = [loc[t] EXCEPT !.gen = mon[t].gen]]
  BY DEF PowerOn, ctrl
<1>3. loc'[t] = [loc[t] EXCEPT !.gen = mon[t].gen] /\ \A u \in Threads \ {t} : loc'[u] = loc[u]
  BY <1>1, <1>2, OneLocal
<1>4. loc'[t].gen = mon[t].gen
  BY <1>1, <1>3 DEF LocRec
<1>5. ~Has(t, "hide", "window")
  BY <1>1, <1>2, IdleHas
<1>6. \A d, o : Do(d, o) \in C => d = "countdown"
  BY DoFields
<1> HIDE DEF C
<1>7. Works(t, C)
  BY <1>1, <1>2, <1>3, <1>4, <1>5, <1>6 DEF Works, Stops, Showing
<1> QED
  BY <1>1, <1>2, <1>7, NothingWaits, WorkWaits

\* A message loop serves its queue or ends.
LEMMA LoopWaits ==
  ASSUME WaitInv, Inv, Inv', NEW t \in Loops, Idle(t),
         UNCHANGED <<gen, closed, state, timer, todo, loc>>, SameMonitors, SameWindow
  PROVE  WaitInv'
<1>1. LoopInv /\ LoopInv' /\ t \in Threads /\ ProgramOK
  BY DEF Inv, LoopInv, Threads
<1>2. Elems(todo[t]) = {} /\ ~Has(t, "hide", "window")
  BY <1>1, IdleHas
<1>3. Goes(t, {})
  BY <1>1, <1>2, NobodyGoes
<1>4. Works(t, {})
  BY <1>1, <1>2, <1>3 DEF Works
<1> QED
  BY <1>1, <1>4, WorkWaits

LEMMA WindowWaits ==
  ASSUME WaitInv, Inv, Inv', WindowHides \/ WindowExits
  PROVE  WaitInv'
<1>1. LoopInv /\ win \in WinType /\ "window" \in Loops
  BY Facts DEF Inv, Loops
<1>2. /\ Idle("window") /\ UNCHANGED <<gen, closed, state, timer, mon, todo, loc>>
      /\ \/ win' = [Hidden(win) EXCEPT !.hides = @ - 1]
         \/ win' = [up |-> FALSE, visible |-> FALSE, cancel |-> 0, hides |-> 0, doomed |-> FALSE]
  BY DEF WindowHides, WindowExits, ctrl
<1>3. Hidden(win) \in WinType /\ Hidden(win).cancel = 0 /\ ~Hidden(win).visible
  BY <1>1 DEF Hidden, WinType
<1>4. win'.cancel = 0 /\ ~win'.visible
  BY <1>2, <1>3 DEF WinType
<1>5. SameMonitors /\ SameWindow
  BY <1>1, <1>2, <1>4, NothingWaits DEF SameWindow
<1> QED
  BY <1>1, <1>2, <1>5, LoopWaits

LEMMA MonitorExitsWaits ==
  ASSUME WaitInv, Inv, Inv', NEW m \in Monitors, MonitorExits(m)
  PROVE  WaitInv'
<1>1. LoopInv /\ mon \in MonType /\ m \in Loops
  BY Facts DEF Inv, Loops
<1>2. /\ Idle(m) /\ UNCHANGED <<gen, closed, state, timer, win, todo, loc>>
      /\ mon' = [mon EXCEPT ![m].alive = FALSE]
  BY DEF MonitorExits, ctrl
<1>3. SameMonitors
  BY <1>1, <1>2 DEF SameMonitors, MonType
<1>4. SameWindow
  BY <1>1, <1>2, NothingWaits
<1> QED
  BY <1>1, <1>2, <1>3, <1>4, LoopWaits

LEMMA StillWaits ==
  ASSUME WaitInv, UNCHANGED <<gen, closed, state, timer, mon, win, todo, loc>>
  PROVE  WaitInv'
BY DEF WaitInv, JoinsOK, DeadOK, Dead, OneEnder, SeenOK, AtJoin, Stopping, Has, Idle

LEMMA ArmWaits ==
  ASSUME Overlap = FALSE, WaitInv, Inv, Inv', Arm
  PROVE  WaitInv'
<1>1. LoopInv /\ LoopInv' /\ Goes("api", ToEnd(StillToStop) \cup ArmSet) /\ "api" \in Threads
      /\ "api" \notin Loops
  BY ArmStep, Facts DEF Inv, Loops, Monitors
<1>2. /\ EndFlow("api", ArmCalls, gen + 1) /\ ~closed /\ UNCHANGED <<mon, win>>
      /\ \A t \in Threads : Idle(t)
  BY DEF Arm, Quiet
<1>3. \A c, o : Do(c, o) \in ArmSet => c \notin {"request_stop", "join", "send_show", "start_timer"}
  BY DoFields DEF ArmSet, Starts
<1> QED
  BY <1>1, <1>2, <1>3, EndWaits DEF Loops

LEMMA CloseWaits ==
  ASSUME WaitInv, Inv, Inv', Close
  PROVE  WaitInv'
<1>1. LoopInv /\ LoopInv' /\ Goes("api", ToEnd(StillToStop) \cup CloseSet) /\ "api" \in Threads
      /\ "api" \notin Loops
  BY CloseStep, Facts DEF Inv, Loops, Monitors
<1>2. /\ EndFlow("api", <<Do("close", "window"), Do("join", "window")>>, 0) /\ closed'
      /\ UNCHANGED <<mon, win>>
  BY DEF Close, env
<1>3. \A c, o : Do(c, o) \in CloseSet =>
         \/ c \notin {"request_stop", "join", "send_show", "start_timer"}
         \/ c = "join" /\ o = "window" /\ closed'
  BY <1>2, DoFields DEF CloseSet
<1> QED
  BY <1>1, <1>2, <1>3, EndWaits

LEMMA KeyDownWaits ==
  ASSUME WaitInv, Inv, Inv', KeyDown
  PROVE  WaitInv'
<1>1. LoopInv /\ LoopInv' /\ Goes("input", ToEnd(StillToStop) \cup {}) /\ "input" \in Threads
      /\ "input" \in Monitors
  BY KeyDownStep, Facts DEF Inv
<1>2. EndFlow("input", <<>>, 0) /\ UNCHANGED <<closed, mon, win>> /\ Current(mon["input"].gen)
  BY DEF KeyDown, env
<1>3. ~Dead
  BY <1>1, <1>2 DEF Dead, Current
<1> QED
  BY <1>1, <1>2, <1>3, EndWaits

\* The window that is seen is not the one that the power monitor is about to show.
LEMMA ClickWaits ==
  ASSUME WaitInv, CancelInv, Inv, Inv', NEW rest, Click(rest), NEW R,
         R \subseteq {Do("destroy", "window")}, Goes("window", Clicked(R))
  PROVE  WaitInv'
<1> DEFINE t == "window"
<1>1. /\ LoopInv /\ LoopInv' /\ t \in Threads /\ "power" \in Threads /\ win \in WinType /\ ProgramOK
      /\ ShowsOK /\ DeadOK /\ SeenOK
  BY Facts DEF Inv, WaitInv, CancelInv
<1>2. /\ Idle(t) /\ ~win.doomed /\ win.visible /\ win' = Hidden(win) /\ UNCHANGED <<closed, mon>>
  BY DEF Click
<1>3. \A c, o : Do(c, o) \in R => c = "destroy"
  BY DoFields
<1>4. win'.cancel = 0 /\ ~win'.visible
  BY <1>1, <1>2 DEF Hidden, WinType
<1>5. CASE win.cancel # 0 /\ Current(win.cancel)
  <2>1. EndFlow(t, rest, 0) /\ Goes(t, ToEnd(StillToStop) \cup R) /\ ~Dead
    BY <1>5 DEF Click, Clicked, Dead, Current
  <2>2. ~Has("power", "send_show", "reprotection")
    <3> SUFFICES ASSUME Has("power", "send_show", "reprotection") PROVE FALSE
      OBVIOUS
    <3>1. /\ Has("power", "start_timer", "reprotection")
          /\ Begun("power", "reprotection") \/ state = "idle"
      BY <1>1 DEF ShowsOK, Showing, Counting, Has
    <3>2. state = "reprotection"
      BY <1>1, <2>1, <3>1 DEF DeadOK, Begun
    <3> QED
      BY <1>1, <1>2, <3>2 DEF SeenOK
  <2> QED
    BY <1>1, <1>2, <1>3, <1>4, <2>1, <2>2, EndWaits
<1>6. CASE ~(win.cancel # 0 /\ Current(win.cancel))
  <2>1. UNCHANGED <<gen, timer, state, loc>> /\ Goes(t, R)
    BY <1>6 DEF Click, Clicked
  <2>2. ~Has(t, "hide", "window")
    BY <1>1, <1>2, IdleHas
  <2>3. Works(t, R)
    BY <1>1, <1>2, <1>3, <1>4, <2>1, <2>2 DEF Works, Stops, Showing
  <2>4. SameMonitors /\ SameWindow
    BY <1>1, <1>2, <1>4, NothingWaits DEF SameWindow
  <2> QED
    BY <1>1, <2>3, <2>4, WorkWaits
<1> QED
  BY <1>5, <1>6

LEMMA ClicksWait ==
  ASSUME WaitInv, CancelInv, Inv, Inv', CancelClick \/ CloseClick
  PROVE  WaitInv'
<1>1. LoopInv
  BY DEF Inv
<1>2. CASE CancelClick
  BY <1>1, <1>2, CancelClickStep, ClickWaits DEF CancelClick
<1>3. CASE CloseClick
  BY <1>1, <1>3, CloseClickStep, ClickWaits DEF CloseClick
<1> QED
  BY <1>2, <1>3

LEMMA WaitInit == Init => WaitInv
<1> SUFFICES ASSUME Init PROVE WaitInv
  OBVIOUS
<1>1. /\ \A t \in Threads : todo[t] = <<>>
      /\ Loops \subseteq Threads /\ "power" \in Threads /\ "api" \in Threads
  BY DEF Init, Threads, Loops, Monitors
<1>2. \A t \in Threads : \A c, o : ~Has(t, c, o)
  BY <1>1, NoCalls DEF Has
<1>3. state = "idle" /\ gen = 0 /\ win.cancel = 0 /\ ~win.visible
  BY DEF Init
<1> QED
  BY <1>1, <1>2, <1>3 DEF WaitInv, JoinsOK, DeadOK, OneEnder, SeenOK, AtJoin, Stopping

LEMMA WaitNext ==
  ASSUME Overlap = FALSE, WaitInv, CancelInv, Inv, Inv', [Next]_vars
  PROVE  WaitInv'
<1>1. CASE UNCHANGED vars
  BY <1>1, StillWaits DEF vars, ctrl, env
<1>2. CASE Arm
  BY <1>2, ArmWaits
<1>3. CASE Close
  BY <1>3, CloseWaits
<1>4. CASE KeyDown
  BY <1>4, KeyDownWaits
<1>5. CASE CancelClick \/ CloseClick
  BY <1>5, ClicksWait
<1>6. CASE Wake
  BY <1>6, StillWaits DEF Wake, ctrl
<1>7. ASSUME NEW k \in Timers, TimerFires(k) PROVE WaitInv'
  BY <1>7, TimerFiresWaits
<1>8. CASE PowerOn
  BY <1>8, PowerOnWaits
<1>9. CASE WindowHides \/ WindowExits
  BY <1>9, WindowWaits
<1>10. ASSUME NEW m \in Monitors, MonitorExits(m) PROVE WaitInv'
  BY <1>10, MonitorExitsWaits
<1>11. ASSUME NEW t \in Threads, Step(t) PROVE WaitInv'
  <2>1. CASE Check(t) \/ Hide(t) \/ Deactivate(t)
    BY <2>1, CheckWaits, HideWaits, DeactivateWaits
  <2>2. CASE RequestStop(t) \/ Join(t) \/ RecordStop(t)
    BY <2>2, RequestStopWaits, JoinWaits, RecordStopWaits
  <2>3. CASE Start(t) \/ Spawn(t) \/ Ready(t) \/ RecordStart(t)
    BY <2>3, StartWaits, SpawnWaits, ReadyWaits, RecordStartWaits
  <2>4. CASE Countdown(t) \/ Show(t) \/ SendShow(t) \/ Verify(t) \/ StartTimer(t) \/ TurnOff(t)
    BY <2>4, CountdownWaits, ShowWaits, SendShowWaits, VerifyWaits
  <2>5. CASE Settle(t) \/ CloseWindow(t)
    BY <2>5, SettleWaits, CloseWindowWaits
  <2> QED
    BY <1>11, <2>1, <2>2, <2>3, <2>4, <2>5 DEF Step
<1> QED
  BY <1>1, <1>2, <1>3, <1>4, <1>5, <1>6, <1>7, <1>8, <1>9, <1>10, <1>11 DEF Next, SomeoneRuns

\* What keeps a busy thread that cannot go on.
LEMMA WaitsFor ==
  ASSUME Inv, CancelInv, WaitInv, ~LoopRuns, count.timeouts = 0,
         \A t \in Threads : ~Idle(t) => Waits(t), NEW t \in Threads, ~Idle(t)
  PROVE  \/ \E m \in Monitors : AtJoin(t, m) /\ ~Idle(m) /\ m # t
         \/ t = "api" /\ ~Idle("window")
         \/ t = "power" /\ Has(t, "send_show", "reprotection") /\ ~Idle("window")
<1>1. /\ LoopInv /\ ProgramOK /\ CloseOK /\ JoinsOK /\ win \in WinType /\ "api" \in Threads
      /\ count["timeouts"] = 0
  BY Facts DEF Inv, MonitorInv, WaitInv
<1>2. Drained
  BY <1>1 DEF Drained, LoopRuns, WinType
<1>3. CASE At(t, "join") /\ ~MayReturn(t)
  <2>1. Called(t, "join")
    BY <1>1, <1>3, AtCall
  <2>2. CASE Now(t) \in Monitors
    <3>1. AtJoin(t, Now(t))
      BY <1>1, <1>3, <2>2, OneStop
    <3>2. Now(t) # "window" /\ mon[Now(t)].alive /\ mon[Now(t)].id = loc[t].id /\ Now(t) # t
      BY <1>3, <2>2 DEF MayReturn, Gone, Monitors
    <3>3. mon[Now(t)].stop
      BY <1>1, <2>2, <3>1, <3>2 DEF JoinsOK
    <3> QED
      BY <2>2, <3>1, <3>2, <3>3 DEF LoopRuns
  <2>3. CASE Now(t) = "window" /\ t = "api"
    <3>1. win.up /\ Has("api", "join", "window") /\ Head(todo["api"]) = Do("join", "window")
      BY <1>3, <2>1, <2>3 DEF MayReturn, Gone, Called, Has
    <3>2. ~Has("api", "close", "window")
      <4>1. Position(Do("join", "window")) = 17 /\ Position(Do("close", "window")) = 16
        BY Places
      <4>2. \A d \in Elems(todo["api"]) :
               d # Head(todo["api"]) => Position(Head(todo["api"])) < Position(d)
        BY <1>1, <2>1, <2>3, NextCall DEF Called
      <4> QED
        BY <3>1, <4>1, <4>2, DoFields DEF Has
    <3>3. win.doomed
      BY <1>1, <3>1, <3>2 DEF JoinsOK, CloseOK
    <3> QED
      BY <2>3, <3>3 DEF LoopRuns
  <2> QED
    BY <2>1, <2>2, <2>3 DEF Called
<1>4. CASE At(t, "send_show") /\ ~Idle("window")
  <2>1. Called(t, "send_show")
    BY <1>1, <1>4, AtCall
  <2> QED
    BY <1>4, <2>1 DEF Called, Has
<1> QED
  BY <1>2, <1>3, <1>4 DEF Waits

\* The handlers wait for each other's threads, but never all of them: as long as one has
\* not returned, some thread can run without any join having to give up.
THEOREM NobodyWaitsInACircle ==
  ASSUME Overlap = FALSE
  PROVE  Spec => []NoDeadlock
<1>1. Init => Inv /\ CancelInv /\ WaitInv
  BY LoopInit, MonitorInit, CancelInit, WaitInit DEF Inv
<1>2. Inv /\ CancelInv /\ WaitInv /\ [Next]_vars => (Inv /\ CancelInv /\ WaitInv)'
  BY InvNext, CancelNext, WaitNext
<1>3. Inv /\ CancelInv /\ WaitInv => NoDeadlock
  <2> SUFFICES ASSUME Inv, CancelInv, WaitInv, ~Quiet, count.timeouts = 0, ~LoopRuns,
                      \A t \in Threads : ~Idle(t) => Waits(t)
               PROVE  FALSE
    BY DEF NoDeadlock
  <2>1. /\ "api" \in Threads /\ "window" \in Loops /\ "power" \in Loops /\ "input" \in Loops
        /\ Loops \subseteq Threads /\ Monitors = {"input", "power"} /\ win \in WinType
        /\ OneEnder
    BY Facts DEF Inv, WaitInv, Loops, Threads, Monitors
  <2>2. \A t \in Threads : ~Idle(t) =>
           \/ \E m \in Monitors : Stopping(t, m) /\ ~Idle(m) /\ m # t
           \/ t = "api" /\ ~Idle("window")
           \/ t = "power" /\ Has(t, "send_show", "reprotection") /\ ~Idle("window")
    BY WaitsFor DEF AtJoin, Stopping
  <2>3. ASSUME ~Idle("window") PROVE \E m \in Monitors : Stopping("window", m) /\ ~Idle(m)
    BY <2>1, <2>2, <2>3
  <2>4. Idle("input")
    <3> SUFFICES ASSUME ~Idle("input") PROVE FALSE
      OBVIOUS
    <3>1. Stopping("input", "power") /\ ~Idle("power")
      BY <2>1, <2>2
    <3>2. (\E m \in Monitors : Stopping("power", m)) \/ \E m \in Monitors : Stopping("window", m)
      BY <2>1, <2>2, <2>3, <3>1
    <3> QED
      BY <2>1, <3>1, <3>2 DEF OneEnder
  <2>5. Idle("window")
    <3> SUFFICES ASSUME ~Idle("window") PROVE FALSE
      OBVIOUS
    <3>1. Stopping("window", "power") /\ ~Idle("power")
      BY <2>1, <2>3, <2>4
    <3> QED
      BY <2>1, <2>2, <2>4, <3>1 DEF OneEnder
  <2>6. Idle("power")
    BY <2>1, <2>2, <2>4, <2>5
  <2>7. \A t \in Threads : Idle(t)
    BY <2>1, <2>2, <2>4, <2>5, <2>6
  <2>8. win.hides = 0
    BY <2>1, <2>5 DEF LoopRuns, WinType
  <2> QED
    BY <2>7, <2>8 DEF Quiet
<1> QED
  BY <1>1, <1>2, <1>3, PTL DEF Spec
=============================================================================
