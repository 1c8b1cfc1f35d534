--------------------------- MODULE CommandTracking ---------------------------
(***************************************************************************)
(* How the phone follows its asynchronous commands: ControlController's    *)
(* sendAction, pollPending, trackPending, trackAllPending, the             *)
(* PendingCommandStore below it, and the parts of MainActivity and         *)
(* ControlPageGate that start and cancel the tracking.                     *)
(*                                                                         *)
(* The Server is the queue of TaskQueue, which CommandTasks implements: a  *)
(* crash of it is the end "service_restarted", an expiry a QForget.  Each  *)
(* opened page has a ControlController of its own; a request under way     *)
(* when its page is left is not aborted (EzApiClient.close ends streams).  *)
(* What a poll learns of an ended or a forgotten task stays true, so a     *)
(* poll and the handling of its answer are one step.                       *)
(***************************************************************************)
EXTENDS TaskQueue, FiniteSets

CONSTANTS Commands,    \* <<action, sub_action>> pairs, the keys of the store
          MaxPages,    \* bound: pages opened
          MaxPolls,    \* polls of one tracking, 60 in the code
          MaxFaults,   \* bound: lost requests and lost answers
          MaxBacks,    \* bound: times the user leaves the page
          MaxStops,    \* bound: times the activity is stopped
          MaxDeaths,   \* bound: ends of the phone's process
          MaxOthers    \* bound: commands another device submits

ASSUME TrackingConstants ==
    /\ {MaxPages, MaxPolls, MaxFaults, MaxBacks, MaxStops, MaxDeaths, MaxOthers}
          \subseteq Nat
    /\ MaxPolls > 0 /\ NoJob \notin Jobs \cup Commands /\ "none" \notin Results

Pages == 1..MaxPages
Answers == {"posting", "answered"}
NoSend == [at |-> "none", cmd |-> NoJob, got |-> NoJob]
Sends == {NoSend} \cup [at: Answers, cmd: Commands, got: Jobs \cup {NoJob}]
Store == [key: [Commands -> Jobs \cup {NoJob}], meta: [Jobs -> Commands \cup {NoJob}]]

VARIABLES
    cmdOf,     \* the command of each task the Server was given
    mine,      \* the tasks this phone's device owns
    store,     \* the preferences of PendingCommandStore: key and pending_meta_
    disk,      \* what of them is on disk: apply() writes behind
    page,      \* "none", "loading", "open", or "blank" (its load was discarded)
    cur,       \* the number of the page opened last
    gate,      \* its ticket is current
    visible,   \* the activity is started
    sends,     \* the request of each page's sendAction
    polls,     \* polls left to the tracking of each task, 0 without one
    soft,      \* tasks whose tracking ended with "still running"
    faults, backs, stops, deaths, others

serverVars == <<qvars, cmdOf, mine>>
pageVars == <<page, cur, gate, visible>>
bounds == <<faults, backs, stops, deaths, others>>
vars == <<serverVars, store, disk, pageVars, sends, polls, soft, bounds>>

Init ==
    /\ QInit
    /\ cmdOf = [j \in Jobs |-> NoJob] /\ mine = {}
    /\ store = [key |-> [c \in Commands |-> NoJob], meta |-> [j \in Jobs |-> NoJob]]
    /\ disk = store
    /\ page = "none" /\ cur = 0 /\ gate = FALSE /\ visible = TRUE
    /\ sends = [p \in Pages |-> NoSend]
    /\ polls = [j \in Jobs |-> 0] /\ soft = {}
    /\ faults = 0 /\ backs = 0 /\ stops = 0 /\ deaths = 0 /\ others = 0

-----------------------------------------------------------------------------
(* The Server *)

Live(j) == j = active \/ \E n \in DOMAIN waiting: waiting[n] = j
LiveOf(c) == {j \in Jobs: Live(j) /\ cmdOf[j] = c}
Fresh == {j \in Jobs: cmdOf[j] = NoJob}

\* submit: a task of its own, unless one of the same command is not finished.
NewTask(c, j) ==
    /\ LiveOf(c) = {} /\ j \in Fresh
    /\ QSubmit(j)
    /\ cmdOf' = [cmdOf EXCEPT ![j] = c]

Work ==
    /\ QStart \/ \E r \in Results: QEnd(r)
    /\ UNCHANGED <<cmdOf, mine, store, disk, pageVars, sends, polls, soft, bounds>>

Expire ==
    /\ \E j \in Jobs: result[j] # "none" /\ QForget({j})
    /\ UNCHANGED <<cmdOf, mine, store, disk, pageVars, sends, polls, soft, bounds>>

OtherDevice ==
    /\ others < MaxOthers /\ others' = others + 1
    /\ \E c \in Commands, j \in Jobs: NewTask(c, j)
    /\ UNCHANGED <<mine, store, disk, pageVars, sends, polls, soft, faults, backs,
                   stops, deaths>>

-----------------------------------------------------------------------------
(* PendingCommandStore *)

\* The meta entry is the one by which allPending finds the command again.
Put(c, j) == store' = [store EXCEPT !.key[c] = j, !.meta[j] = c]

\* remove: the key, and the meta entry of whatever id the key holds now.
Remove(c) ==
    store' = [key |-> [store.key EXCEPT ![c] = NoJob],
              meta |-> [j \in Jobs |-> IF j = store.key[c] THEN NoJob
                                       ELSE store.meta[j]]]

\* removeById: the meta entry, and the key of the command it names.
RemoveById(j) ==
    store' = [key |-> [c \in Commands |-> IF store.meta[j] = c THEN NoJob
                                          ELSE store.key[c]],
              meta |-> [store.meta EXCEPT ![j] = NoJob]]

Flush ==
    /\ disk # store /\ disk' = store
    /\ UNCHANGED <<serverVars, store, pageVars, sends, polls, soft, bounds>>

-----------------------------------------------------------------------------
(* sendAction *)

Usable == page = "open" /\ visible

\* trackPending: a tracking that runs goes on.
Tracked(S) == [j \in Jobs |-> IF j \in S /\ polls[j] = 0 THEN MaxPolls ELSE polls[j]]

\* A command the store knows is not sent again, it is tracked again.
Press(c) ==
    /\ Usable /\ sends[cur] = NoSend
    /\ IF store.key[c] # NoJob
       THEN /\ polls' = Tracked({store.key[c]}) /\ soft' = soft \ {store.key[c]}
            /\ UNCHANGED sends
       ELSE /\ Fresh # {} \/ LiveOf(c) # {}
            /\ sends' = [sends EXCEPT ![cur] = [at |-> "posting", cmd |-> c,
                                               got |-> NoJob]]
            /\ UNCHANGED <<polls, soft>>
    /\ UNCHANGED <<serverVars, store, disk, pageVars, bounds>>

\* POST /api/command: a task, the unfinished task of the same command, or 409
\* when that is another device's.
PostHandled(p) ==
    LET c == sends[p].cmd IN
    /\ sends[p].at = "posting"
    /\ \E got \in Jobs \cup {NoJob}:
          /\ sends' = [sends EXCEPT ![p].at = "answered", ![p].got = got]
          /\ \/ NewTask(c, got) /\ mine' = mine \cup {got}
             \/ got \in LiveOf(c) \cap mine /\ UNCHANGED serverVars
             \/ /\ got = NoJob /\ (LiveOf(c) \ mine # {} \/ Fresh = {})
                /\ UNCHANGED serverVars
    /\ UNCHANGED <<store, disk, pageVars, polls, soft, bounds>>

\* The answer is kept, also by the controller of a page that was left since; the
\* page that is open tracks it.
AnswerArrives(p) ==
    /\ sends[p].at = "answered"
    /\ sends' = [sends EXCEPT ![p] = NoSend]
    /\ IF sends[p].got # NoJob
       THEN /\ Put(sends[p].cmd, sends[p].got)
            /\ IF p = cur /\ page # "none"
               THEN polls' = Tracked({sends[p].got}) /\ soft' = soft \ {sends[p].got}
               ELSE UNCHANGED <<polls, soft>>
       ELSE UNCHANGED <<store, polls, soft>>
    /\ UNCHANGED <<serverVars, disk, pageVars, bounds>>

\* The request or its answer is lost.
SendLost(p) ==
    /\ sends[p] # NoSend /\ faults < MaxFaults /\ faults' = faults + 1
    /\ sends' = [sends EXCEPT ![p] = NoSend]
    /\ UNCHANGED <<serverVars, store, disk, pageVars, polls, soft, backs, stops,
                   deaths, others>>

-----------------------------------------------------------------------------
(* pollPending *)

\* GET /api/commands/{id} answers 404; were a failed request taken for that, or
\* were it not taken for an end ...
UnknownOrFailed(j) == result[j] = "none"
NeverUnknown(j) == FALSE
Unknown(j) == result[j] = "none" /\ ~Live(j)

EndOfTracking(j) == polls' = [polls EXCEPT ![j] = 0]

PollEnded(j) ==
    /\ polls[j] > 0 /\ result[j] # "none"
    /\ Remove(cmdOf[j]) /\ EndOfTracking(j)
    /\ UNCHANGED <<serverVars, disk, pageVars, sends, soft, bounds>>

PollUnknown(j) ==
    /\ polls[j] > 0 /\ Unknown(j)
    /\ RemoveById(j) /\ EndOfTracking(j)
    /\ UNCHANGED <<serverVars, disk, pageVars, sends, soft, bounds>>

\* Still queued or running, or no answer: the last poll says "still running".
PollAgain(j) ==
    /\ polls[j] > 0
    /\ \/ Live(j) /\ UNCHANGED faults
       \/ faults < MaxFaults /\ faults' = faults + 1
    /\ polls' = [polls EXCEPT ![j] = @ - 1]
    /\ soft' = IF polls[j] = 1 THEN soft \cup {j} ELSE soft
    /\ UNCHANGED <<serverVars, store, disk, pageVars, sends, backs, stops, deaths,
                   others>>

Poll(j) == PollEnded(j) \/ PollUnknown(j) \/ PollAgain(j)

-----------------------------------------------------------------------------
(* The page *)

CancelTracking == polls' = [j \in Jobs |-> 0]

OpenPage ==
    /\ visible /\ page = "none" /\ cur < MaxPages
    /\ page' = "loading" /\ cur' = cur + 1 /\ gate' = TRUE
    /\ UNCHANGED <<serverVars, store, disk, visible, sends, polls, soft, bounds>>

\* trackAllPending: for each meta entry, the id the key of its command holds.
PendingNone == {}
Pending == {store.key[store.meta[j]]: j \in {i \in Jobs: store.meta[i] # NoJob}} \ {NoJob}

\* afterLoad: a current ticket starts the tracking.
Loaded ==
    /\ page = "loading"
    /\ IF gate THEN page' = "open" /\ polls' = Tracked(Pending) /\ soft' = soft \ Pending
       ELSE page' = "blank" /\ UNCHANGED <<polls, soft>>
    /\ UNCHANGED <<serverVars, store, disk, cur, gate, visible, sends, bounds>>

Back ==
    /\ Usable /\ backs < MaxBacks /\ backs' = backs + 1
    /\ page' = "none" /\ gate' = FALSE /\ CancelTracking
    /\ UNCHANGED <<serverVars, store, disk, cur, visible, sends, soft, faults, stops,
                   deaths, others>>

\* onStop; the system writes pending preferences before the activity is stopped.
Stop ==
    /\ visible /\ stops < MaxStops /\ stops' = stops + 1
    /\ visible' = FALSE /\ gate' = FALSE /\ CancelTracking /\ disk' = store
    /\ UNCHANGED <<serverVars, store, page, cur, sends, soft, faults, backs, deaths,
                   others>>

\* onStart: ControlPageGate.onStarted tracks only while a ticket is current.
Start ==
    /\ ~visible /\ visible' = TRUE
    /\ polls' = IF gate THEN Tracked(Pending) ELSE polls
    /\ UNCHANGED <<serverVars, store, disk, page, cur, gate, sends, soft, bounds>>

\* The process ends and is started again later, with what the disk has.
Death ==
    /\ deaths < MaxDeaths /\ deaths' = deaths + 1
    /\ store' = disk /\ page' = "none" /\ gate' = FALSE /\ visible' = TRUE
    /\ sends' = [p \in Pages |-> NoSend] /\ soft' = {} /\ CancelTracking
    /\ UNCHANGED <<serverVars, disk, cur, faults, backs, stops, others>>

-----------------------------------------------------------------------------
Sending == \E p \in Pages: PostHandled(p) \/ AnswerArrives(p)

Next ==
    \/ Work \/ Expire \/ OtherDevice
    \/ \E c \in Commands: Press(c)
    \/ Sending \/ \E p \in Pages: SendLost(p)
    \/ \E j \in Jobs: Poll(j)
    \/ Flush \/ OpenPage \/ Loaded \/ Back \/ Stop \/ Start \/ Death

Spec == Init /\ [][Next]_vars

\* Tasks end, requests time out, polls repeat; the user opens the page again and
\* comes back to it.
Running == /\ WF_vars(Work) /\ WF_vars(Sending) /\ WF_vars(Loaded)
           /\ WF_vars(OpenPage) /\ WF_vars(Start)
           /\ \A j \in Jobs: WF_vars(Poll(j))

FairSpec == Spec /\ Running

\* ... and presses a button that is offered time and again.
PressingSpec == FairSpec /\ \A c \in Commands: SF_vars(Press(c))

-----------------------------------------------------------------------------
(* Properties *)

\* Types, and a command's key has the meta entry it is found by after a restart.
TypeOK ==
    /\ cmdOf \in [Jobs -> Commands \cup {NoJob}] /\ mine \subseteq Jobs
    /\ {store, disk} \subseteq Store
    /\ \A c \in Commands: store.key[c] # NoJob => store.meta[store.key[c]] = c
    /\ page \in {"none", "loading", "open", "blank"} /\ cur \in 0..MaxPages
    /\ {gate, visible} \subseteq BOOLEAN
    /\ sends \in [Pages -> Sends]
    /\ polls \in [Jobs -> 0..MaxPolls] /\ soft \subseteq Jobs
    /\ faults \in 0..MaxFaults /\ backs \in 0..MaxBacks /\ stops \in 0..MaxStops
    /\ deaths \in 0..MaxDeaths /\ others \in 0..MaxOthers

\* The phone forgets a command only when the Server has ended or forgotten it:
\* neither failed requests nor a stop, a reload or a repeated press make it do so.
\* (What a death of the process loses of the last apply() is left out.)
KeptUntilOverAlways ==
    [][\A c \in Commands: LET j == store.key[c] IN
          j # NoJob /\ store'.key[c] # j /\ deaths' = deaths => ~Live(j)]_vars

\* ... as long as no page was left: the late answer of a page that was left may
\* take the place of what the next page has sent.
KeptUntilOver ==
    [][\A c \in Commands: LET j == store.key[c] IN
          j # NoJob /\ store'.key[c] # j /\ deaths' = deaths /\ backs' = 0
             => ~Live(j)]_vars

\* A page that was loaded and not stopped follows every command the phone knows,
\* those of an earlier process included, until it has told the user of it.  (The
\* late answer of a page that was left is followed by no page.)
AllFollowed ==
    page = "open" /\ gate /\ backs = 0 =>
        \A c \in Commands: LET j == store.key[c] IN
            j # NoJob => polls[j] > 0 \/ j \in soft

\* A user who keeps pressing is not told "the same command is running" for ever:
\* not after a stop, nor a restart on either side, nor an expiry.
NeverBlocked ==
    \A c \in Commands: store.key[c] # NoJob ~> store.key[c] = NoJob \/ page = "blank"

\* A page that is looked at learns the end of a command the phone has kept.
QueryResumes ==
    \A c \in Commands:
        store.key[c] # NoJob /\ page = "open"
           ~> store.key[c] = NoJob \/ page # "open" \/ store.key[c] \in soft
=============================================================================
