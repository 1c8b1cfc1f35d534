------------------------ MODULE CommandTrackingProofs ------------------------
(***************************************************************************)
(* Proofs about CommandTracking, for any tasks, commands, pages and bounds *)
(* on polls, faults, stops and deaths: a page that was loaded follows all  *)
(* the commands the phone knows, and the phone forgets none of them before *)
(* the Server has ended or forgotten it.                                   *)
(***************************************************************************)
EXTENDS CommandTracking, TLAPS

\* A queued or running task is so once, and has no result yet.
QueueOK ==
    /\ waiting \in Seq(Jobs) /\ active \in Jobs \cup {NoJob}
    /\ result \in [Jobs -> Results \cup {"none"}]
    /\ \A n \in 1..Len(waiting) :
          /\ result[waiting[n]] = "none" /\ waiting[n] # active
          /\ \A m \in 1..Len(waiting) : waiting[m] = waiting[n] => m = n
    /\ active # NoJob => result[active] = "none"

\* Key and meta entries name tasks of their own commands, and a key is found by
\* its meta entry.
EntriesOK(st) ==
    /\ \A c \in Commands : st.key[c] # NoJob =>
          st.meta[st.key[c]] = c /\ cmdOf[st.key[c]] = c
    /\ \A j \in Jobs : st.meta[j] # NoJob => cmdOf[j] = st.meta[j]

\* What is answered, and what is polled, is a task of the Server.
TasksOK ==
    /\ \A p \in Pages : sends[p].got # NoJob => cmdOf[sends[p].got] = sends[p].cmd
    /\ \A j \in Jobs : polls[j] > 0 => cmdOf[j] # NoJob

\* While no page was left: the one request under way is of the page that is open,
\* its command is not in the store yet, and a task that is polled, or has a meta
\* entry, is the one its command's key names.
NoOther ==
    /\ \A p \in Pages : sends[p] # NoSend =>
          p = cur /\ page # "none" /\ store.key[sends[p].cmd] = NoJob
    /\ \A j \in Jobs : store.meta[j] # NoJob => store.key[store.meta[j]] = j
    /\ \A j \in Jobs : disk.meta[j] # NoJob => disk.key[disk.meta[j]] = j
    /\ \A j \in Jobs : polls[j] > 0 => store.key[cmdOf[j]] = j

Inv ==
    /\ QueueOK /\ TypeOK
    /\ EntriesOK(store) /\ EntriesOK(disk) /\ TasksOK
    /\ backs = 0 => NoOther
    /\ AllFollowed

-----------------------------------------------------------------------------
(* The Server's queue *)

LEMMA QueueSubmits == ASSUME QueueOK, NEW j \in Jobs, QSubmit(j) PROVE QueueOK'
<1>1. /\ waiting \in Seq(Jobs) /\ waiting' = Append(waiting, j) /\ UNCHANGED <<active, result>>
      /\ j # active /\ result[j] = "none" /\ \A n \in 1..Len(waiting) : waiting[n] # j
    BY DEF QSubmit, QueueOK
<1>2. /\ waiting' \in Seq(Jobs) /\ Len(waiting') = Len(waiting) + 1 /\ Len(waiting) \in Nat
      /\ \A n \in 1..Len(waiting) : waiting'[n] = waiting[n]
      /\ waiting'[Len(waiting) + 1] = j
    BY <1>1
<1>3. \A n \in 1..Len(waiting') : n \in 1..Len(waiting) \/ n = Len(waiting) + 1
    BY <1>2
<1> QED BY <1>1, <1>2, <1>3 DEF QueueOK

LEMMA QueueStarts == ASSUME QueueOK, QStart PROVE QueueOK'
<1>1. /\ waiting \in Seq(Jobs) /\ waiting # <<>> /\ waiting' = Tail(waiting)
      /\ active' = Head(waiting) /\ UNCHANGED result
    BY DEF QStart, QueueOK
<1>2. /\ waiting' \in Seq(Jobs) /\ Len(waiting) \in Nat \ {0} /\ Len(waiting') = Len(waiting) - 1
      /\ \A n \in 1..Len(waiting') : waiting'[n] = waiting[n + 1]
      /\ active' = waiting[1] /\ waiting[1] \in Jobs
    BY <1>1
<1>3. 1 \in 1..Len(waiting) /\ \A n \in 1..Len(waiting') : n + 1 \in 1..Len(waiting) /\ n + 1 # 1
    BY <1>2
<1>4. \A n \in 1..Len(waiting') : result[waiting'[n]] = "none" /\ waiting'[n] # active'
    BY <1>2, <1>3 DEF QueueOK
<1>5. ASSUME NEW n \in 1..Len(waiting'), NEW m \in 1..Len(waiting'), waiting'[m] = waiting'[n]
      PROVE  m = n
    <2>1. m + 1 = n + 1
        BY <1>2, <1>3, <1>5 DEF QueueOK
    <2> QED BY <1>2, <2>1
<1> QED BY <1>1, <1>2, <1>3, <1>4, <1>5 DEF QueueOK

LEMMA QueueEnds == ASSUME QueueOK, NEW r \in Results, QEnd(r) PROVE QueueOK'
<1>1. /\ active \in Jobs /\ active' = NoJob /\ result' = [result EXCEPT ![active] = r]
      /\ UNCHANGED waiting
    BY DEF QEnd, QueueOK
<1>2. \A n \in 1..Len(waiting) : waiting[n] # active /\ waiting[n] \in Jobs /\ waiting[n] # NoJob
    BY TrackingConstants DEF QueueOK
<1>3. result' \in [Jobs -> Results \cup {"none"}]
    BY <1>1 DEF QueueOK
<1>4. \A n \in 1..Len(waiting) : result'[waiting[n]] = "none"
    BY <1>1, <1>2 DEF QueueOK
<1>5. waiting' \in Seq(Jobs) /\ active' \in Jobs \cup {NoJob}
    BY <1>1 DEF QueueOK
<1> QED BY <1>1, <1>2, <1>3, <1>4, <1>5 DEF QueueOK

LEMMA QueueForgets == ASSUME QueueOK, NEW S \in SUBSET Jobs, QForget(S) PROVE QueueOK'
<1>1. /\ result' = [j \in Jobs |-> IF j \in S THEN "none" ELSE result[j]]
      /\ UNCHANGED <<waiting, active>>
    BY DEF QForget
<1>2. \A n \in 1..Len(waiting) : waiting[n] \in Jobs
    BY DEF QueueOK
<1>3. result' \in [Jobs -> Results \cup {"none"}]
    BY <1>1 DEF QueueOK
<1>4. \A j \in Jobs : result[j] = "none" => result'[j] = "none"
    BY <1>1
<1> QED BY <1>1, <1>2, <1>3, <1>4 DEF QueueOK

LEMMA LiveHasNoResult == ASSUME QueueOK, NEW j \in Jobs, Live(j) PROVE result[j] = "none"
BY TrackingConstants DEF QueueOK, Live

-----------------------------------------------------------------------------
(* The preferences *)

LEMMA PutWrites ==
    ASSUME store \in Store, NEW c \in Commands, NEW j \in Jobs, Put(c, j)
    PROVE  /\ store' \in Store
           /\ store'.key = [store.key EXCEPT ![c] = j]
           /\ store'.meta = [store.meta EXCEPT ![j] = c]
BY DEF Put, Store

LEMMA RemoveWrites ==
    ASSUME store \in Store, NEW c \in Commands, Remove(c)
    PROVE  /\ store' \in Store
           /\ store'.key = [store.key EXCEPT ![c] = NoJob]
           /\ \A j \in Jobs : store'.meta[j] = IF j = store.key[c] THEN NoJob ELSE store.meta[j]
BY DEF Remove, Store

LEMMA RemoveByIdWrites ==
    ASSUME store \in Store, NEW j \in Jobs, RemoveById(j)
    PROVE  /\ store' \in Store
           /\ \A c \in Commands :
                 store'.key[c] = IF store.meta[j] = c THEN NoJob ELSE store.key[c]
           /\ store'.meta = [store.meta EXCEPT ![j] = NoJob]
BY DEF RemoveById, Store

\* What is tracked is polled, and nothing else begins to be.
LEMMA TrackedPolls ==
    ASSUME TypeOK, NEW S, polls' = Tracked(S)
    PROVE  /\ polls' \in [Jobs -> 0..MaxPolls]
           /\ \A j \in Jobs : polls'[j] > 0 <=> j \in S \/ polls[j] > 0
<1>1. polls \in [Jobs -> 0..MaxPolls] /\ MaxPolls \in Nat /\ MaxPolls > 0
    BY TrackingConstants DEF TypeOK
<1>2. \A j \in Jobs : polls'[j] = IF j \in S /\ polls[j] = 0 THEN MaxPolls ELSE polls[j]
    BY DEF Tracked
<1>3. polls' = [j \in Jobs |-> IF j \in S /\ polls[j] = 0 THEN MaxPolls ELSE polls[j]]
    BY DEF Tracked
<1> QED BY <1>1, <1>2, <1>3

\* Every command in the store is found by trackAllPending.
LEMMA PendingAll ==
    ASSUME TypeOK, EntriesOK(store)
    PROVE  /\ \A c \in Commands : store.key[c] # NoJob => store.key[c] \in Pending
           /\ \A j \in Pending : j \in Jobs /\ cmdOf[j] \in Commands /\ store.key[cmdOf[j]] = j
<1>1. /\ store.key \in [Commands -> Jobs \cup {NoJob}] /\ store.meta \in [Jobs -> Commands \cup {NoJob}]
      /\ NoJob \notin Jobs \cup Commands
    BY TrackingConstants DEF TypeOK, Store
<1>2. ASSUME NEW c \in Commands, store.key[c] # NoJob
      PROVE  store.key[c] \in Pending
    <2>1. store.key[c] \in Jobs /\ store.meta[store.key[c]] = c
        BY <1>1, <1>2 DEF EntriesOK
    <2> QED BY <1>1, <1>2, <2>1 DEF Pending
<1>3. ASSUME NEW j \in Pending
      PROVE  j \in Jobs /\ cmdOf[j] \in Commands /\ store.key[cmdOf[j]] = j
    <2>1. PICK i \in Jobs : store.meta[i] # NoJob /\ j = store.key[store.meta[i]] /\ j # NoJob
        BY DEF Pending
    <2>2. store.meta[i] \in Commands /\ j \in Jobs /\ cmdOf[j] = store.meta[i]
        BY <1>1, <2>1 DEF EntriesOK
    <2> QED BY <2>1, <2>2
<1> QED BY <1>2, <1>3

-----------------------------------------------------------------------------
(* Steps *)

LEMMA TypeFacts ==
    ASSUME TypeOK
    PROVE  /\ NoJob \notin Jobs \cup Commands /\ backs \in Nat
           /\ cmdOf \in [Jobs -> Commands \cup {NoJob}]
           /\ store \in Store /\ disk \in Store
           /\ store.key \in [Commands -> Jobs \cup {NoJob}]
           /\ store.meta \in [Jobs -> Commands \cup {NoJob}]
           /\ polls \in [Jobs -> 0..MaxPolls] /\ \A j \in Jobs : polls[j] \in Nat
           /\ sends \in [Pages -> Sends]
           /\ \A p \in Pages : /\ sends[p].cmd \in Commands \cup {NoJob}
                               /\ sends[p].got \in Jobs \cup {NoJob}
                               /\ sends[p] # NoSend => sends[p] \in [at : Answers, cmd : Commands, got : Jobs \cup {NoJob}]
<1>1. sends \in [Pages -> Sends]
    BY DEF TypeOK
<1>2. ASSUME NEW p \in Pages
      PROVE  /\ sends[p].cmd \in Commands \cup {NoJob}
             /\ sends[p].got \in Jobs \cup {NoJob}
             /\ sends[p] # NoSend => sends[p] \in [at : Answers, cmd : Commands, got : Jobs \cup {NoJob}]
    <2>1. sends[p] \in Sends
        BY <1>1
    <2> QED BY <2>1 DEF Sends, NoSend
<1> QED BY <1>1, <1>2, TrackingConstants DEF TypeOK, Store

LEMMA TrackingInit == Init => Inv
<1> SUFFICES ASSUME Init PROVE Inv
    OBVIOUS
<1>0. NoJob \notin Jobs \cup Commands /\ MaxPolls \in Nat
      /\ MaxPages \in Nat /\ MaxFaults \in Nat /\ MaxBacks \in Nat /\ MaxStops \in Nat
      /\ MaxDeaths \in Nat /\ MaxOthers \in Nat
    BY TrackingConstants
<1>1. QueueOK
    BY DEF Init, QInit, QueueOK
<1>2. /\ store \in Store /\ disk = store
      /\ \A c \in Commands : store.key[c] = NoJob
      /\ \A j \in Jobs : store.meta[j] = NoJob /\ disk.meta[j] = NoJob /\ polls[j] = 0
      /\ \A p \in Pages : sends[p] = NoSend /\ sends[p].got = NoJob
    BY DEF Init, Store, NoSend
<1>3. TypeOK
    <2>1. sends \in [Pages -> Sends] /\ polls \in [Jobs -> 0..MaxPolls]
        BY <1>0 DEF Init, Sends
    <2>2. cmdOf \in [Jobs -> Commands \cup {NoJob}] /\ mine \subseteq Jobs /\ soft \subseteq Jobs
        BY DEF Init
    <2>3. /\ cur \in 0..MaxPages /\ faults \in 0..MaxFaults /\ backs \in 0..MaxBacks
          /\ stops \in 0..MaxStops /\ deaths \in 0..MaxDeaths /\ others \in 0..MaxOthers
          /\ page = "none"
        BY <1>0 DEF Init
    <2>4. {gate, visible} \subseteq BOOLEAN
        BY ZenonT(20) DEF Init
    <2> QED BY <1>2, <2>1, <2>2, <2>3, <2>4 DEF TypeOK
<1>4. EntriesOK(store) /\ EntriesOK(disk) /\ TasksOK /\ NoOther /\ AllFollowed
    BY <1>2 DEF Init, EntriesOK, TasksOK, NoOther, AllFollowed
<1> QED BY <1>1, <1>3, <1>4 DEF Inv

\* Everything but the Server's queue.
PhoneInv ==
    /\ TypeOK /\ EntriesOK(store) /\ EntriesOK(disk) /\ TasksOK
    /\ backs = 0 => NoOther
    /\ AllFollowed

LEMMA PhoneUnchanged ==
    ASSUME PhoneInv, UNCHANGED <<cmdOf, mine, store, disk, pageVars, sends, polls, soft, bounds>>
    PROVE  PhoneInv'
BY DEF PhoneInv, TypeOK, EntriesOK, TasksOK, NoOther, AllFollowed, pageVars, bounds

LEMMA WorkStep == ASSUME Inv, Work \/ Expire PROVE Inv'
<1>1. QueueOK'
    BY QueueStarts, QueueEnds, QueueForgets DEF Inv, Work, Expire
<1>2. PhoneInv'
    BY PhoneUnchanged DEF Work, Expire, Inv, PhoneInv
<1> QED BY <1>1, <1>2 DEF Inv, PhoneInv

\* A new task of the Server is none that the phone knows.
LEMMA NewTaskStep ==
    ASSUME Inv, NEW c \in Commands, NEW j \in Jobs, NewTask(c, j), UNCHANGED <<store, disk>>
    PROVE  /\ QueueOK' /\ cmdOf' \in [Jobs -> Commands \cup {NoJob}] /\ cmdOf'[j] = c
           /\ \A i \in Jobs : cmdOf[i] # NoJob => cmdOf'[i] = cmdOf[i]
           /\ EntriesOK(store)' /\ EntriesOK(disk)'
<1>1. cmdOf' = [cmdOf EXCEPT ![j] = c] /\ cmdOf[j] = NoJob /\ QSubmit(j)
    BY DEF NewTask, Fresh
<1>2. cmdOf \in [Jobs -> Commands \cup {NoJob}] /\ NoJob \notin Commands
    BY TypeFacts DEF Inv
<1>3. \A i \in Jobs : cmdOf[i] # NoJob => cmdOf'[i] = cmdOf[i]
    BY <1>1, <1>2
<1>4. ASSUME NEW st \in Store, EntriesOK(st)
      PROVE  /\ \A d \in Commands : st.key[d] # NoJob =>
                    st.meta[st.key[d]] = d /\ cmdOf'[st.key[d]] = d
             /\ \A i \in Jobs : st.meta[i] # NoJob => cmdOf'[i] = st.meta[i]
    <2>1. \A d \in Commands : st.key[d] # NoJob => st.key[d] \in Jobs
        BY DEF Store
    <2> QED BY <1>2, <1>3, <1>4, <2>1 DEF EntriesOK
<1>5. EntriesOK(store)' /\ EntriesOK(disk)'
    BY <1>4, TypeFacts DEF Inv, EntriesOK
<1> QED BY <1>1, <1>2, <1>3, <1>5, QueueSubmits DEF Inv

LEMMA OtherDeviceStep == ASSUME Inv, OtherDevice PROVE Inv'
<1>1. PICK c \in Commands, j \in Jobs : NewTask(c, j)
    BY DEF OtherDevice
<1>2. /\ others < MaxOthers /\ others' = others + 1
      /\ UNCHANGED <<mine, store, disk, page, cur, gate, visible, sends, polls, soft, faults,
                     backs, stops, deaths>>
    BY DEF OtherDevice, pageVars
<1>3. /\ QueueOK' /\ cmdOf' \in [Jobs -> Commands \cup {NoJob}]
      /\ \A i \in Jobs : cmdOf[i] # NoJob => cmdOf'[i] = cmdOf[i]
      /\ EntriesOK(store)' /\ EntriesOK(disk)'
    BY <1>1, <1>2, NewTaskStep
<1>4. TypeOK'
    BY <1>2, <1>3, TrackingConstants DEF Inv, TypeOK
<1>5. TasksOK'
    <2>1. ASSUME NEW p \in Pages, sends[p].got # NoJob
          PROVE  cmdOf'[sends[p].got] = sends[p].cmd
        <3>1. sends[p].got \in Jobs /\ cmdOf[sends[p].got] = sends[p].cmd
            BY <2>1, TypeFacts DEF Inv, TasksOK
        <3>2. sends[p] # NoSend /\ sends[p].cmd # NoJob
            BY <2>1, TypeFacts DEF Inv, NoSend
        <3> QED BY <1>3, <3>1, <3>2
    <2> QED BY <1>2, <1>3, <2>1 DEF Inv, TasksOK
<1>6. (backs = 0 => NoOther)'
    BY <1>2, <1>3 DEF Inv, NoOther, TasksOK
<1>7. AllFollowed'
    BY <1>2 DEF Inv, AllFollowed
<1> QED BY <1>3, <1>4, <1>5, <1>6, <1>7 DEF Inv

LEMMA FlushStep == ASSUME Inv, Flush PROVE Inv'
<1>1. disk' = store /\ UNCHANGED <<qvars, cmdOf, mine, store, pageVars, sends, polls, soft, bounds>>
    BY DEF Flush, serverVars
<1>2. QueueOK'
    BY <1>1 DEF Inv, QueueOK, qvars
<1>3. TypeOK'
    BY <1>1 DEF Inv, TypeOK, pageVars, bounds
<1>4. EntriesOK(store)' /\ EntriesOK(disk)' /\ TasksOK' /\ (backs = 0 => NoOther)' /\ AllFollowed'
    BY <1>1 DEF Inv, EntriesOK, TasksOK, NoOther, AllFollowed, pageVars, bounds
<1> QED BY <1>2, <1>3, <1>4 DEF Inv


LEMMA QueueUnchanged == ASSUME QueueOK, UNCHANGED qvars PROVE QueueOK'
BY DEF QueueOK, qvars

LEMMA PressStep == ASSUME Inv, NEW c \in Commands, Press(c) PROVE Inv'
<1>1. /\ page = "open" /\ sends[cur] = NoSend
      /\ UNCHANGED <<qvars, cmdOf, mine, store, disk, page, cur, gate, visible, faults, backs,
                     stops, deaths, others>>
    BY DEF Press, Usable, serverVars, pageVars, bounds
<1>0. UNCHANGED qvars
    BY <1>1
<1>2. QueueOK'
    BY <1>0, QueueUnchanged DEF Inv
<1>3. EntriesOK(store)' /\ EntriesOK(disk)'
    BY <1>1 DEF Inv, EntriesOK
<1>4. CASE store.key[c] # NoJob
    <2> DEFINE j == store.key[c]
    <2>1. j \in Jobs /\ cmdOf[j] = c /\ j # NoJob
        BY <1>4, TypeFacts DEF Inv, EntriesOK
    <2>2. polls' = Tracked({j}) /\ soft' = soft \ {j} /\ sends' = sends
        BY <1>4 DEF Press
    <2> HIDE DEF j
    <2>3. /\ polls' \in [Jobs -> 0..MaxPolls]
          /\ \A i \in Jobs : polls'[i] > 0 <=> i = j \/ polls[i] > 0
        BY <2>2, TrackedPolls DEF Inv
    <2>4. TypeOK'
        BY <1>1, <2>2, <2>3 DEF Inv, TypeOK
    <2>5. TasksOK'
        BY <1>1, <2>1, <2>2, <2>3, TypeFacts DEF Inv, TasksOK
    <2>6. (backs = 0 => NoOther)'
        BY <1>1, <2>1, <2>2, <2>3 DEF Inv, NoOther, j
    <2>7. AllFollowed'
        <3> SUFFICES ASSUME gate, backs = 0, NEW d \in Commands, store.key[d] # NoJob
                     PROVE  polls'[store.key[d]] > 0 \/ store.key[d] \in soft'
            BY <1>1 DEF AllFollowed
        <3>1. store.key[d] \in Jobs /\ (polls[store.key[d]] > 0 \/ store.key[d] \in soft)
            BY <1>1, TypeFacts DEF Inv, AllFollowed
        <3> QED BY <2>2, <2>3, <3>1
    <2> QED BY <1>2, <1>3, <2>4, <2>5, <2>6, <2>7 DEF Inv
<1>5. CASE store.key[c] = NoJob
    <2>1. /\ sends' = [sends EXCEPT ![cur] = [at |-> "posting", cmd |-> c, got |-> NoJob]]
          /\ UNCHANGED <<polls, soft>>
        BY <1>5 DEF Press
    <2>2. PICK r : r = [at |-> "posting", cmd |-> c, got |-> NoJob]
        OBVIOUS
    <2>3. r \in Sends /\ r.cmd = c /\ r.got = NoJob
        BY <2>2 DEF Sends, Answers
    <2>4. sends \in [Pages -> Sends] /\ sends' = [sends EXCEPT ![cur] = r]
        BY <2>1, <2>2, TypeFacts DEF Inv
    <2>5. sends' \in [Pages -> Sends] /\ \A p \in Pages : sends'[p] = IF p = cur THEN r ELSE sends[p]
        BY <2>3, <2>4
    <2>6. TypeOK'
        BY <1>1, <2>1, <2>5 DEF Inv, TypeOK
    <2>7. TasksOK'
        BY <1>1, <2>1, <2>3, <2>5 DEF Inv, TasksOK
    <2>8. (backs = 0 => NoOther)'
        BY <1>1, <1>5, <2>1, <2>3, <2>5 DEF Inv, NoOther
    <2>9. AllFollowed'
        BY <1>1, <2>1 DEF Inv, AllFollowed
    <2> QED BY <1>2, <1>3, <2>6, <2>7, <2>8, <2>9 DEF Inv
<1> QED BY <1>4, <1>5

LEMMA SendLostStep == ASSUME Inv, NEW p \in Pages, SendLost(p) PROVE Inv'
<1>1. /\ sends' = [sends EXCEPT ![p] = NoSend] /\ faults < MaxFaults /\ faults' = faults + 1
      /\ UNCHANGED <<qvars, cmdOf, mine, store, disk, page, cur, gate, visible, polls, soft,
                     backs, stops, deaths, others>>
    BY DEF SendLost, serverVars, pageVars
<1>0. UNCHANGED qvars
    BY <1>1
<1>2. QueueOK'
    BY <1>0, QueueUnchanged DEF Inv
<1>3. /\ sends' \in [Pages -> Sends] /\ NoSend.got = NoJob
      /\ \A q \in Pages : sends'[q] = IF q = p THEN NoSend ELSE sends[q]
    BY <1>1, TypeFacts DEF Inv, Sends, NoSend
<1>4. TypeOK'
    BY <1>1, <1>3, TrackingConstants DEF Inv, TypeOK
<1>5. EntriesOK(store)' /\ EntriesOK(disk)'
    BY <1>1 DEF Inv, EntriesOK
<1>6. TasksOK' /\ (backs = 0 => NoOther)'
    BY <1>1, <1>3 DEF Inv, TasksOK, NoOther
<1>7. AllFollowed'
    BY <1>1 DEF Inv, AllFollowed
<1> QED BY <1>2, <1>4, <1>5, <1>6, <1>7 DEF Inv

LEMMA PostHandledStep == ASSUME Inv, NEW p \in Pages, PostHandled(p) PROVE Inv'
<1> DEFINE c == sends[p].cmd
<1>1. PICK got \in Jobs \cup {NoJob} :
        /\ sends' = [sends EXCEPT ![p].at = "answered", ![p].got = got]
        /\ \/ NewTask(c, got) /\ mine' = mine \cup {got}
           \/ got \in LiveOf(c) \cap mine /\ UNCHANGED serverVars
           \/ got = NoJob /\ UNCHANGED serverVars
    BY DEF PostHandled
<1>2. /\ sends[p].at = "posting"
      /\ UNCHANGED <<store, disk, page, cur, gate, visible, polls, soft, faults, backs, stops,
                     deaths, others>>
    BY DEF PostHandled, pageVars, bounds
<1>3. sends[p] # NoSend /\ c \in Commands /\ sends[p] \in [at : Answers, cmd : Commands, got : Jobs \cup {NoJob}]
    BY <1>2, TypeFacts DEF Inv, NoSend
<1> HIDE DEF c
<1>4. /\ sends'[p].cmd = c /\ sends'[p].got = got /\ sends'[p] \in Sends /\ sends'[p] # NoSend
      /\ \A q \in Pages : q # p => sends'[q] = sends[q]
      /\ sends' \in [Pages -> Sends]
    <2>1. PICK r : r = [sends[p] EXCEPT !.at = "answered", !.got = got]
        OBVIOUS
    <2>2. r.cmd = c /\ r.got = got /\ r \in Sends /\ r.at = "answered"
        BY <1>3, <2>1 DEF Sends, Answers, c
    <2>3. sends \in [Pages -> Sends] /\ sends' = [sends EXCEPT ![p] = r]
        BY <1>1, <2>1, TypeFacts DEF Inv
    <2>4. r # NoSend
        BY <2>2 DEF NoSend
    <2> QED BY <2>2, <2>3, <2>4
<1>5. /\ QueueOK' /\ cmdOf' \in [Jobs -> Commands \cup {NoJob}] /\ mine' \subseteq Jobs
      /\ \A i \in Jobs : cmdOf[i] # NoJob => cmdOf'[i] = cmdOf[i]
      /\ EntriesOK(store)' /\ EntriesOK(disk)'
      /\ got # NoJob => cmdOf'[got] = c
    <2>0. NoJob \notin Jobs \cup Commands /\ mine \subseteq Jobs
        BY TypeFacts DEF Inv, TypeOK
    <2>1. CASE NewTask(c, got) /\ mine' = mine \cup {got}
        <3>1. got \in Jobs
            BY <1>1, <2>0, <2>1 DEF NewTask, Fresh
        <3> QED BY <1>2, <1>3, <2>0, <2>1, <3>1, NewTaskStep
    <2>2. CASE (got \in LiveOf(c) \/ got = NoJob) /\ UNCHANGED serverVars
        <3>1. UNCHANGED <<qvars, cmdOf, mine>> /\ UNCHANGED qvars
            BY <2>2 DEF serverVars
        <3>2. QueueOK'
            BY <3>1, QueueUnchanged DEF Inv
        <3>3. EntriesOK(store)' /\ EntriesOK(disk)'
            BY <1>2, <3>1 DEF Inv, EntriesOK
        <3>4. got # NoJob => cmdOf'[got] = c
            BY <2>2, <3>1 DEF LiveOf
        <3> QED BY <2>0, <3>1, <3>2, <3>3, <3>4, TypeFacts DEF Inv
    <2> QED BY <1>1, <2>1, <2>2
<1>6. TypeOK'
    BY <1>2, <1>4, <1>5 DEF Inv, TypeOK
<1>7. TasksOK'
    <2>1. ASSUME NEW q \in Pages, q # p, sends[q].got # NoJob
          PROVE  cmdOf'[sends[q].got] = sends[q].cmd
        <3>1. sends[q].got \in Jobs /\ cmdOf[sends[q].got] = sends[q].cmd
            BY <2>1, TypeFacts DEF Inv, TasksOK
        <3>2. sends[q].cmd # NoJob
            BY <2>1, TypeFacts DEF Inv, NoSend
        <3> QED BY <1>5, <3>1, <3>2
    <2> QED BY <1>2, <1>4, <1>5, <2>1 DEF Inv, TasksOK
<1>8. (backs = 0 => NoOther)'
    BY <1>2, <1>3, <1>4, <1>5 DEF Inv, NoOther, TasksOK, c
<1>9. AllFollowed'
    BY <1>2 DEF Inv, AllFollowed
<1> QED BY <1>5, <1>6, <1>7, <1>8, <1>9 DEF Inv


\* What KeptUntilOver says of a step.
Kept ==
    \A c \in Commands :
        store.key[c] # NoJob /\ store'.key[c] # store.key[c] /\ deaths' = deaths /\ backs' = 0
            => ~Live(store.key[c])

LEMMA AnswerArrivesStep == ASSUME Inv, NEW p \in Pages, AnswerArrives(p) PROVE Inv' /\ Kept
<1> DEFINE c == sends[p].cmd
           j == sends[p].got
<1>1. /\ sends[p].at = "answered" /\ sends' = [sends EXCEPT ![p] = NoSend]
      /\ UNCHANGED <<qvars, cmdOf, mine, disk, page, cur, gate, visible, faults, backs, stops,
                     deaths, others>>
    BY DEF AnswerArrives, serverVars, pageVars, bounds
<1>0. UNCHANGED qvars
    BY <1>1
<1>2. QueueOK'
    BY <1>0, QueueUnchanged DEF Inv
<1>3. /\ sends[p] # NoSend /\ c \in Commands /\ j \in Jobs \cup {NoJob}
      /\ j # NoJob => cmdOf[j] = c
    BY <1>1, TypeFacts DEF Inv, NoSend, TasksOK
<1>4. /\ sends' \in [Pages -> Sends] /\ NoSend.got = NoJob
      /\ \A q \in Pages : sends'[q] = IF q = p THEN NoSend ELSE sends[q]
    BY <1>1, TypeFacts DEF Inv, Sends, NoSend
<1>5. EntriesOK(disk)'
    BY <1>1 DEF Inv, EntriesOK
<1>6. CASE j = NoJob
    <2>1. UNCHANGED <<store, polls, soft>>
        BY <1>6 DEF AnswerArrives
    <2>2. TypeOK'
        BY <1>1, <1>4, <2>1 DEF Inv, TypeOK
    <2>3. EntriesOK(store)' /\ TasksOK' /\ (backs = 0 => NoOther)' /\ AllFollowed' /\ Kept
        BY <1>1, <1>4, <2>1 DEF Inv, EntriesOK, TasksOK, NoOther, AllFollowed, Kept
    <2> QED BY <1>2, <1>5, <2>2, <2>3 DEF Inv
<1>7. CASE j # NoJob
    <2>1. /\ Put(c, j)
          /\ IF p = cur /\ page # "none" THEN polls' = Tracked({j}) /\ soft' = soft \ {j}
                                         ELSE UNCHANGED <<polls, soft>>
        BY <1>7 DEF AnswerArrives
    <2>2. j \in Jobs /\ cmdOf[j] = c
        BY <1>3, <1>7
    <2> HIDE DEF c, j
    <2>3. /\ store' \in Store /\ store'.key = [store.key EXCEPT ![c] = j]
          /\ store'.meta = [store.meta EXCEPT ![j] = c]
        BY <1>3, <2>1, <2>2, PutWrites, TypeFacts DEF Inv
    <2>4. /\ \A d \in Commands : store'.key[d] = IF d = c THEN j ELSE store.key[d]
          /\ \A i \in Jobs : store'.meta[i] = IF i = j THEN c ELSE store.meta[i]
          /\ NoJob \notin Jobs \cup Commands
        BY <2>3, TypeFacts DEF Inv
    <2>5. /\ polls' \in [Jobs -> 0..MaxPolls] /\ soft' \subseteq Jobs
          /\ \A i \in Jobs : /\ polls'[i] > 0 => i = j \/ polls[i] > 0
                             /\ polls[i] > 0 => polls'[i] > 0
                             /\ i \in soft /\ i # j => i \in soft'
          /\ p = cur /\ page # "none" => polls'[j] > 0
        <3>1. CASE p = cur /\ page # "none"
            <4>1. /\ polls' \in [Jobs -> 0..MaxPolls]
                  /\ \A i \in Jobs : polls'[i] > 0 <=> i = j \/ polls[i] > 0
                BY <2>1, <3>1, TrackedPolls DEF Inv
            <4> QED BY <2>1, <2>2, <3>1, <4>1 DEF Inv, TypeOK
        <3>2. CASE ~(p = cur /\ page # "none")
            BY <2>1, <3>2 DEF Inv, TypeOK
        <3> QED BY <3>1, <3>2
    <2>6. EntriesOK(store)'
        <3>1. ASSUME NEW d \in Commands, store'.key[d] # NoJob
              PROVE  store'.meta[store'.key[d]] = d /\ cmdOf[store'.key[d]] = d
            <4>1. CASE d = c
                BY <2>2, <2>4, <4>1
            <4>2. CASE d # c
                <5>1. store'.key[d] = store.key[d] /\ store.key[d] # NoJob
                    BY <2>4, <3>1, <4>2
                <5>2. store.meta[store.key[d]] = d /\ cmdOf[store.key[d]] = d /\ store.key[d] \in Jobs
                    BY <5>1, TypeFacts DEF Inv, EntriesOK
                <5> QED BY <2>2, <2>4, <4>2, <5>1, <5>2
            <4> QED BY <4>1, <4>2
        <3> QED BY <1>1, <2>2, <2>4, <3>1 DEF Inv, EntriesOK
    <2>7. TypeOK'
        <3>1. \A d \in Commands : store'.key[d] # NoJob => store'.meta[store'.key[d]] = d
            BY <2>6 DEF EntriesOK
        <3> QED BY <1>1, <1>4, <2>3, <2>5, <3>1 DEF Inv, TypeOK
    <2>8. TasksOK'
        BY <1>1, <1>3, <1>4, <2>2, <2>4, <2>5 DEF Inv, TasksOK
    <2>9. ASSUME backs = 0
          PROVE  NoOther' /\ p = cur /\ page # "none" /\ store.key[c] = NoJob
        <3>1. /\ p = cur /\ page # "none" /\ store.key[c] = NoJob
              /\ \A q \in Pages : sends[q] # NoSend => q = cur
              /\ \A i \in Jobs : store.meta[i] # NoJob => store.key[store.meta[i]] = i
              /\ \A i \in Jobs : disk.meta[i] # NoJob => disk.key[disk.meta[i]] = i
              /\ \A i \in Jobs : polls[i] > 0 => store.key[cmdOf[i]] = i
            BY <1>3, <2>9 DEF Inv, NoOther, c
        <3>2. \A q \in Pages : sends'[q] = NoSend
            BY <1>4, <3>1
        <3>3. ASSUME NEW i \in Jobs, store'.meta[i] # NoJob
              PROVE  store'.key[store'.meta[i]] = i
            BY <1>3, <2>4, <3>1, <3>3, TypeFacts DEF Inv
        <3>4. ASSUME NEW i \in Jobs, polls'[i] > 0
              PROVE  store'.key[cmdOf[i]] = i
            <4>1. cmdOf[i] \in Commands
                BY <1>3, <2>2, <2>5, <3>4, TypeFacts DEF Inv, TasksOK
            <4> QED BY <2>2, <2>4, <2>5, <3>1, <3>4, <4>1
        <3> QED BY <1>1, <3>1, <3>2, <3>3, <3>4 DEF NoOther
    <2>10. AllFollowed'
        <3> SUFFICES ASSUME page = "open", gate, backs = 0, NEW d \in Commands, store'.key[d] # NoJob
                     PROVE  polls'[store'.key[d]] > 0 \/ store'.key[d] \in soft'
            BY <1>1 DEF AllFollowed
        <3>1. CASE d = c
            BY <2>4, <2>5, <2>9, <3>1
        <3>2. CASE d # c
            <4>1. store'.key[d] = store.key[d] /\ store.key[d] \in Jobs
                BY <2>4, <3>2, TypeFacts DEF Inv
            <4>2. polls[store.key[d]] > 0 \/ store.key[d] \in soft
                BY <4>1, <2>4 DEF Inv, AllFollowed
            <4>3. store.key[d] # j
                BY <2>2, <2>4, <3>2, <4>1 DEF Inv, EntriesOK
            <4> QED BY <2>5, <4>1, <4>2, <4>3
        <3> QED BY <3>1, <3>2
    <2>11. Kept
        BY <1>1, <2>4, <2>9 DEF Kept
    <2> QED BY <1>1, <1>2, <1>5, <2>6, <2>7, <2>8, <2>9, <2>10, <2>11 DEF Inv
<1> QED BY <1>6, <1>7


\* A poll that takes the task j of command c, which its key names while no page
\* was left, out of the store.
LEMMA PollEndsStep ==
    ASSUME Inv, NEW j \in Jobs, polls[j] > 0, ~Live(j),
           NEW c \in Commands, backs = 0 => store.key[c] = j,
           polls' = [polls EXCEPT ![j] = 0], store' \in Store,
           \A d \in Commands : store'.key[d] = IF d = c THEN NoJob ELSE store.key[d],
           \A d \in Commands : d # c => store.key[d] # j,
           \A i \in Jobs : /\ store'.meta[i] = NoJob \/ store'.meta[i] = store.meta[i]
                           /\ i # j /\ i # store.key[c] => store'.meta[i] = store.meta[i],
           backs = 0 => store'.meta[j] = NoJob,
           UNCHANGED <<serverVars, disk, pageVars, sends, soft, bounds>>
    PROVE  Inv' /\ Kept
<1>1. UNCHANGED <<qvars, cmdOf, mine, disk, page, cur, gate, visible, sends, soft, faults, backs,
                  stops, deaths, others>>
    BY DEF serverVars, pageVars, bounds
<1>0. UNCHANGED qvars
    BY <1>1
<1>2. QueueOK'
    BY <1>0, QueueUnchanged DEF Inv
<1>3. /\ NoJob \notin Jobs \cup Commands
      /\ \A d \in Commands : store.key[d] \in Jobs \cup {NoJob}
      /\ \A i \in Jobs : store.meta[i] \in Commands \cup {NoJob}
      /\ MaxPolls \in Nat /\ polls \in [Jobs -> 0..MaxPolls]
    BY TypeFacts, TrackingConstants DEF Inv
<1>4. /\ polls' \in [Jobs -> 0..MaxPolls]
      /\ \A i \in Jobs : polls'[i] = IF i = j THEN 0 ELSE polls[i]
    BY <1>3
<1>5. ASSUME NEW d \in Commands, d # c, store.key[d] # NoJob
      PROVE  /\ store.key[d] \in Jobs /\ store.key[d] # j /\ store.key[d] # store.key[c]
             /\ store.meta[store.key[d]] = d /\ cmdOf[store.key[d]] = d
             /\ store'.meta[store.key[d]] = d
    <2>1. store.key[d] \in Jobs /\ store.meta[store.key[d]] = d /\ cmdOf[store.key[d]] = d
        BY <1>3, <1>5 DEF Inv, EntriesOK
    <2>2. store.key[d] # j /\ store.key[d] # store.key[c]
        BY <1>5, <2>1 DEF Inv, EntriesOK
    <2> QED BY <2>1, <2>2
<1>6. EntriesOK(store)'
    <2>1. \A d \in Commands : store'.key[d] # NoJob =>
              store'.meta[store'.key[d]] = d /\ cmdOf[store'.key[d]] = d
        <3> SUFFICES ASSUME NEW d \in Commands, store'.key[d] # NoJob
                     PROVE  store'.meta[store'.key[d]] = d /\ cmdOf[store'.key[d]] = d
            OBVIOUS
        <3>1. d # c /\ store'.key[d] = store.key[d]
            OBVIOUS
        <3> QED BY <1>5, <3>1
    <2>2. \A i \in Jobs : store'.meta[i] # NoJob => cmdOf[i] = store'.meta[i]
        BY DEF Inv, EntriesOK
    <2> QED BY <1>1, <2>1, <2>2 DEF EntriesOK
<1>7. EntriesOK(disk)'
    BY <1>1 DEF Inv, EntriesOK
<1>8. TypeOK'
    <2>1. \A d \in Commands : store'.key[d] # NoJob => store'.meta[store'.key[d]] = d
        BY <1>6 DEF EntriesOK
    <2> QED BY <1>1, <1>4, <2>1 DEF Inv, TypeOK
<1>9. TasksOK'
    BY <1>1, <1>4 DEF Inv, TasksOK
<1>10. ASSUME backs = 0
       PROVE  NoOther'
    <2>1. /\ store.key[c] = j
          /\ \A q \in Pages : sends[q] # NoSend =>
                q = cur /\ page # "none" /\ store.key[sends[q].cmd] = NoJob
          /\ \A i \in Jobs : store.meta[i] # NoJob => store.key[store.meta[i]] = i
          /\ \A i \in Jobs : disk.meta[i] # NoJob => disk.key[disk.meta[i]] = i
          /\ \A i \in Jobs : polls[i] > 0 => store.key[cmdOf[i]] = i
        BY <1>10 DEF Inv, NoOther
    <2>2. ASSUME NEW q \in Pages, sends[q] # NoSend
          PROVE  store'.key[sends[q].cmd] = NoJob
        <3>1. sends[q].cmd \in Commands
            BY <2>2, TypeFacts DEF Inv
        <3> QED BY <2>1, <2>2, <3>1
    <2>3. ASSUME NEW i \in Jobs, store'.meta[i] # NoJob
          PROVE  store'.key[store'.meta[i]] = i
        <3>1. i # j /\ store'.meta[i] = store.meta[i] /\ store.meta[i] \in Commands
            BY <1>3, <1>10, <2>3
        <3>2. store.key[store.meta[i]] = i
            BY <2>1, <2>3, <3>1
        <3>3. store.meta[i] # c
            BY <2>1, <3>1, <3>2
        <3> QED BY <3>1, <3>2, <3>3
    <2>4. ASSUME NEW i \in Jobs, polls'[i] > 0
          PROVE  store'.key[cmdOf[i]] = i
        <3>1. i # j /\ polls[i] > 0
            BY <1>4, <2>4
        <3>2. cmdOf[i] \in Commands /\ store.key[cmdOf[i]] = i
            BY <2>1, <3>1, TypeFacts DEF Inv, TasksOK
        <3> QED BY <2>1, <3>1, <3>2
    <2> QED BY <1>1, <2>1, <2>2, <2>3, <2>4 DEF NoOther
<1>11. AllFollowed'
    BY <1>1, <1>4, <1>5 DEF Inv, AllFollowed
<1>12. Kept
    BY <1>1 DEF Kept
<1> QED BY <1>1, <1>2, <1>6, <1>7, <1>8, <1>9, <1>10, <1>11, <1>12 DEF Inv

LEMMA PollEndedStep == ASSUME Inv, NEW j \in Jobs, PollEnded(j) PROVE Inv' /\ Kept
<1> DEFINE c == cmdOf[j]
<1>1. /\ polls[j] > 0 /\ result[j] # "none" /\ Remove(c) /\ polls' = [polls EXCEPT ![j] = 0]
      /\ UNCHANGED <<serverVars, disk, pageVars, sends, soft, bounds>>
    BY DEF PollEnded, EndOfTracking
<1>2. c \in Commands /\ NoJob \notin Jobs \cup Commands
    BY <1>1, TypeFacts DEF Inv, TasksOK
<1>3. ~Live(j)
    BY <1>1, LiveHasNoResult DEF Inv
<1>4. \A d \in Commands : d # c => store.key[d] # j
    BY <1>2 DEF Inv, EntriesOK
<1>5. backs = 0 => store.key[c] = j
    BY <1>1 DEF Inv, NoOther
<1> HIDE DEF c
<1>6. /\ store' \in Store /\ store'.key = [store.key EXCEPT ![c] = NoJob]
      /\ \A i \in Jobs : store'.meta[i] = IF i = store.key[c] THEN NoJob ELSE store.meta[i]
      /\ store.key \in [Commands -> Jobs \cup {NoJob}]
    BY <1>1, <1>2, RemoveWrites, TypeFacts DEF Inv
<1>7. \A d \in Commands : store'.key[d] = IF d = c THEN NoJob ELSE store.key[d]
    BY <1>2, <1>6
<1>8. /\ \A i \in Jobs : /\ store'.meta[i] = NoJob \/ store'.meta[i] = store.meta[i]
                         /\ i # j /\ i # store.key[c] => store'.meta[i] = store.meta[i]
      /\ backs = 0 => store'.meta[j] = NoJob
    BY <1>5, <1>6
<1> QED BY <1>1, <1>2, <1>3, <1>4, <1>5, <1>6, <1>7, <1>8, PollEndsStep

LEMMA PollUnknownStep == ASSUME Inv, NEW j \in Jobs, PollUnknown(j) PROVE Inv' /\ Kept
<1> DEFINE c == cmdOf[j]
<1>1. /\ polls[j] > 0 /\ ~Live(j) /\ RemoveById(j) /\ polls' = [polls EXCEPT ![j] = 0]
      /\ UNCHANGED <<serverVars, disk, pageVars, sends, soft, bounds>>
    BY DEF PollUnknown, Unknown, EndOfTracking
<1>2. c \in Commands /\ NoJob \notin Jobs \cup Commands
    BY <1>1, TypeFacts DEF Inv, TasksOK
<1>3. store.meta[j] \in {NoJob, c} /\ (backs = 0 => store.key[c] = j)
    BY <1>1, <1>2 DEF Inv, EntriesOK, NoOther
<1>4. \A d \in Commands : d # c => store.key[d] # j
    BY <1>2 DEF Inv, EntriesOK
<1>5. backs = 0 => store.meta[j] = c
    BY <1>2, <1>3 DEF Inv, EntriesOK
<1>6. /\ store' \in Store /\ store'.meta = [store.meta EXCEPT ![j] = NoJob]
      /\ \A d \in Commands : store'.key[d] = IF store.meta[j] = d THEN NoJob ELSE store.key[d]
      /\ store.meta \in [Jobs -> Commands \cup {NoJob}]
    BY <1>1, RemoveByIdWrites, TypeFacts DEF Inv
<1>7. CASE store.meta[j] = c
    <2> HIDE DEF c
    <2>1. \A d \in Commands : store'.key[d] = IF d = c THEN NoJob ELSE store.key[d]
        BY <1>6, <1>7
    <2>2. /\ \A i \in Jobs : /\ store'.meta[i] = NoJob \/ store'.meta[i] = store.meta[i]
                             /\ i # j /\ i # store.key[c] => store'.meta[i] = store.meta[i]
          /\ backs = 0 => store'.meta[j] = NoJob
        BY <1>6
    <2>3. store' \in Store /\ (backs = 0 => store.key[c] = j)
        BY <1>3, <1>6
    <2> QED BY <1>1, <1>2, <1>4, <2>1, <2>2, <2>3, PollEndsStep
<1>8. CASE store.meta[j] = NoJob
    <2>1. backs # 0
        BY <1>2, <1>5, <1>8
    <2>2. store \in Store /\ store' = store
        <3>1. store' = [key |-> [d \in Commands |-> IF store.meta[j] = d THEN NoJob ELSE store.key[d]],
                        meta |-> [store.meta EXCEPT ![j] = NoJob]]
            BY <1>1 DEF RemoveById
        <3>2. /\ store = [key |-> store.key, meta |-> store.meta] /\ store \in Store
              /\ store.key \in [Commands -> Jobs \cup {NoJob}]
            BY TypeFacts DEF Inv, Store
        <3>3. [d \in Commands |-> IF store.meta[j] = d THEN NoJob ELSE store.key[d]] = store.key
            BY <1>2, <1>8, <3>2
        <3>4. [store.meta EXCEPT ![j] = NoJob] = store.meta
            BY <1>6, <1>8
        <3> QED BY <3>1, <3>2, <3>3, <3>4
    <2>3. /\ polls' \in [Jobs -> 0..MaxPolls]
          /\ \A i \in Jobs : polls'[i] = IF i = j THEN 0 ELSE polls[i]
        BY <1>1, TypeFacts, TrackingConstants DEF Inv
    <2>4. UNCHANGED <<qvars, cmdOf, mine, disk, page, cur, gate, visible, sends, soft, faults, backs,
                      stops, deaths, others>> /\ UNCHANGED qvars
        BY <1>1 DEF serverVars, pageVars, bounds
    <2>5. QueueOK'
        BY <2>4, QueueUnchanged DEF Inv
    <2>6. TypeOK'
        BY <2>2, <2>3, <2>4 DEF Inv, TypeOK
    <2>7. EntriesOK(store)' /\ EntriesOK(disk)' /\ TasksOK' /\ AllFollowed' /\ Kept
        BY <2>1, <2>2, <2>3, <2>4 DEF Inv, EntriesOK, TasksOK, AllFollowed, Kept
    <2> QED BY <2>1, <2>4, <2>5, <2>6, <2>7 DEF Inv
<1> QED BY <1>3, <1>7, <1>8

LEMMA PollAgainStep == ASSUME Inv, NEW j \in Jobs, PollAgain(j) PROVE Inv'
<1>1. /\ polls[j] > 0 /\ polls' = [polls EXCEPT ![j] = @ - 1]
      /\ soft' = IF polls[j] = 1 THEN soft \cup {j} ELSE soft
      /\ UNCHANGED <<qvars, cmdOf, mine, store, disk, page, cur, gate, visible, sends, backs, stops,
                     deaths, others>>
    BY DEF PollAgain, serverVars, pageVars
<1>2. faults' \in 0..MaxFaults
    BY TrackingConstants DEF PollAgain, Inv, TypeOK
<1>3. /\ polls' \in [Jobs -> 0..MaxPolls]
      /\ \A i \in Jobs : /\ polls'[i] > 0 => polls[i] > 0
                         /\ polls[i] > 0 => polls'[i] > 0 \/ i \in soft'
    <2>1. polls[j] \in 1..MaxPolls /\ polls[j] - 1 \in 0..MaxPolls /\ polls \in [Jobs -> 0..MaxPolls]
        BY <1>1, TypeFacts, TrackingConstants DEF Inv
    <2>2. polls[j] > 1 => polls[j] - 1 > 0
        BY <2>1
    <2>3. polls[j] > 1 \/ polls[j] = 1
        BY <2>1
    <2> QED BY <1>1, <2>1, <2>2, <2>3
<1>0. UNCHANGED qvars
    BY <1>1
<1>4. QueueOK'
    BY <1>0, QueueUnchanged DEF Inv
<1>5. TypeOK'
    BY <1>1, <1>2, <1>3 DEF Inv, TypeOK
<1>6. EntriesOK(store)' /\ EntriesOK(disk)' /\ TasksOK' /\ (backs = 0 => NoOther)'
    BY <1>1, <1>3 DEF Inv, EntriesOK, TasksOK, NoOther
<1>7. AllFollowed'
    <2> SUFFICES ASSUME page = "open", gate, backs = 0, NEW d \in Commands, store.key[d] # NoJob
                 PROVE  polls'[store.key[d]] > 0 \/ store.key[d] \in soft'
        BY <1>1 DEF AllFollowed
    <2>1. store.key[d] \in Jobs /\ (polls[store.key[d]] > 0 \/ store.key[d] \in soft)
        BY TypeFacts DEF Inv, AllFollowed
    <2> QED BY <1>1, <1>3, <2>1
<1> QED BY <1>4, <1>5, <1>6, <1>7 DEF Inv


LEMMA NothingPolled == [j \in Jobs |-> 0] \in [Jobs -> 0..MaxPolls]
<1>1. MaxPolls \in Nat
    BY TrackingConstants
<1>2. 0 \in 0..MaxPolls
    BY <1>1
<1> QED BY <1>2

\* A step that ends all tracking and leaves the store as it is.
LEMMA CancelStep == ASSUME Inv, OpenPage \/ Back \/ Stop PROVE Inv'
<1>1. /\ UNCHANGED <<qvars, cmdOf, mine, store, sends, soft, faults, deaths, others>>
      /\ UNCHANGED qvars
    BY DEF OpenPage, Back, Stop, serverVars, bounds
<1>2. QueueOK'
    BY <1>1, QueueUnchanged DEF Inv
<1>3. CASE OpenPage
    <2>1. /\ page = "none" /\ page' = "loading" /\ cur < MaxPages /\ cur' = cur + 1 /\ gate' = TRUE
          /\ UNCHANGED <<disk, visible, polls, backs, stops>>
        BY <1>3 DEF OpenPage, bounds
    <2>2. cur' \in 0..MaxPages
        BY <2>1, TrackingConstants DEF Inv, TypeOK
    <2>3. gate' \in BOOLEAN
        BY <2>1
    <2>4. TypeOK'
        BY <1>1, <2>1, <2>2, <2>3 DEF Inv, TypeOK
    <2>5. EntriesOK(store)' /\ EntriesOK(disk)' /\ TasksOK'
        BY <1>1, <2>1 DEF Inv, EntriesOK, TasksOK
    <2>6. (backs = 0 => NoOther)' /\ AllFollowed'
        BY <1>1, <2>1 DEF Inv, NoOther, AllFollowed
    <2> QED BY <1>2, <2>4, <2>5, <2>6 DEF Inv
<1>4. CASE Back
    <2>1. /\ backs < MaxBacks /\ backs' = backs + 1 /\ page' = "none" /\ gate' = FALSE
          /\ polls' = [j \in Jobs |-> 0]
          /\ UNCHANGED <<disk, cur, visible, stops>>
        BY <1>4 DEF Back, CancelTracking
    <2>2. backs' \in 0..MaxBacks /\ backs' # 0
        BY <2>1, TrackingConstants DEF Inv, TypeOK
    <2>3. gate' \in BOOLEAN
        BY <2>1
    <2>7. polls' \in [Jobs -> 0..MaxPolls]
        BY <2>1, NothingPolled
    <2>4. TypeOK'
        BY <1>1, <2>1, <2>2, <2>3, <2>7 DEF Inv, TypeOK
    <2>5. EntriesOK(store)' /\ EntriesOK(disk)' /\ TasksOK' /\ AllFollowed'
        BY <1>1, <2>1 DEF Inv, EntriesOK, TasksOK, AllFollowed
    <2> QED BY <1>2, <2>2, <2>4, <2>5 DEF Inv
<1>5. CASE Stop
    <2>1. /\ stops < MaxStops /\ stops' = stops + 1 /\ visible' = FALSE /\ gate' = FALSE
          /\ disk' = store /\ polls' = [j \in Jobs |-> 0]
          /\ UNCHANGED <<page, cur, backs>>
        BY <1>5 DEF Stop, CancelTracking
    <2>2. stops' \in 0..MaxStops
        BY <2>1, TrackingConstants DEF Inv, TypeOK
    <2>3. gate' \in BOOLEAN /\ visible' \in BOOLEAN
        BY <2>1
    <2>7. polls' \in [Jobs -> 0..MaxPolls]
        BY <2>1, NothingPolled
    <2>4. TypeOK'
        BY <1>1, <2>1, <2>2, <2>3, <2>7 DEF Inv, TypeOK
    <2>5. EntriesOK(store)' /\ EntriesOK(disk)' /\ TasksOK' /\ AllFollowed'
        BY <1>1, <2>1 DEF Inv, EntriesOK, TasksOK, AllFollowed
    <2>6. (backs = 0 => NoOther)'
        BY <1>1, <2>1 DEF Inv, NoOther
    <2> QED BY <1>2, <2>4, <2>5, <2>6 DEF Inv
<1> QED BY <1>3, <1>4, <1>5

\* All that is in the store is tracked.
LEMMA ResumeStep ==
    ASSUME Inv, polls' = Tracked(Pending), soft' = soft \/ soft' = soft \ Pending,
           page' = page \/ (page = "loading" /\ page' = "open"),
           visible' \in BOOLEAN,
           UNCHANGED <<serverVars, store, disk, cur, gate, sends, bounds>>
    PROVE  Inv'
<1>1. /\ UNCHANGED <<qvars, cmdOf, mine, store, disk, cur, gate, sends, faults, backs, stops, deaths,
                     others>> /\ UNCHANGED qvars
    BY DEF serverVars, bounds
<1>2. QueueOK'
    BY <1>1, QueueUnchanged DEF Inv
<1>3. /\ polls' \in [Jobs -> 0..MaxPolls]
      /\ \A j \in Jobs : polls'[j] > 0 <=> j \in Pending \/ polls[j] > 0
    BY TrackedPolls DEF Inv
<1>4. /\ \A c \in Commands : store.key[c] # NoJob => store.key[c] \in Pending
      /\ \A j \in Pending : j \in Jobs /\ cmdOf[j] \in Commands /\ store.key[cmdOf[j]] = j
    BY PendingAll DEF Inv
<1>5. TypeOK'
    BY <1>1, <1>3 DEF Inv, TypeOK
<1>6. EntriesOK(store)' /\ EntriesOK(disk)'
    BY <1>1 DEF Inv, EntriesOK
<1>7. TasksOK'
    BY <1>1, <1>3, <1>4, TypeFacts DEF Inv, TasksOK
<1>8. (backs = 0 => NoOther)'
    BY <1>1, <1>3, <1>4 DEF Inv, NoOther
<1>9. AllFollowed'
    BY <1>1, <1>3, <1>4 DEF AllFollowed
<1> QED BY <1>2, <1>5, <1>6, <1>7, <1>8, <1>9 DEF Inv

LEMMA LoadedStep == ASSUME Inv, Loaded PROVE Inv'
<1>1. /\ page = "loading"
      /\ UNCHANGED <<serverVars, store, disk, cur, gate, visible, sends, bounds>>
    BY DEF Loaded
<1>2. CASE gate
    <2>1. page' = "open" /\ polls' = Tracked(Pending) /\ soft' = soft \ Pending
        BY <1>2 DEF Loaded
    <2>2. visible' \in BOOLEAN
        BY <1>1 DEF Inv, TypeOK
    <2>3. UNCHANGED <<serverVars, store, disk, cur, gate, sends, bounds>>
        BY <1>1
    <2> QED BY <1>1, <2>1, <2>2, <2>3, ResumeStep
<1>3. CASE ~gate
    <2>1. page' = "blank" /\ UNCHANGED <<polls, soft>>
        BY <1>3 DEF Loaded
    <2>2. /\ UNCHANGED <<qvars, cmdOf, mine, store, disk, cur, gate, visible, sends, faults, backs,
                         stops, deaths, others>> /\ UNCHANGED qvars
        BY <1>1 DEF serverVars, bounds
    <2>3. QueueOK'
        BY <2>2, QueueUnchanged DEF Inv
    <2>4. TypeOK'
        BY <2>1, <2>2 DEF Inv, TypeOK
    <2>5. EntriesOK(store)' /\ EntriesOK(disk)' /\ TasksOK' /\ (backs = 0 => NoOther)' /\ AllFollowed'
        BY <2>1, <2>2 DEF Inv, EntriesOK, TasksOK, NoOther, AllFollowed
    <2> QED BY <2>3, <2>4, <2>5 DEF Inv
<1> QED BY <1>2, <1>3

LEMMA StartStep == ASSUME Inv, Start PROVE Inv'
<1>1. /\ visible' = TRUE
      /\ UNCHANGED <<serverVars, store, disk, page, cur, gate, sends, soft, bounds>>
    BY DEF Start
<1>0. visible' \in BOOLEAN
    BY <1>1
<1>2. CASE gate
    <2>1. polls' = Tracked(Pending)
        BY <1>2 DEF Start
    <2>2. /\ UNCHANGED <<serverVars, store, disk, cur, gate, sends, bounds>>
          /\ soft' = soft /\ page' = page
        BY <1>1
    <2>3. /\ soft' = soft \/ soft' = soft \ Pending
          /\ page' = page \/ (page = "loading" /\ page' = "open")
        BY <2>2
    <2> QED BY <1>0, <2>1, <2>2, <2>3, ResumeStep
<1>3. CASE ~gate
    <2>1. polls' = polls
        BY <1>3 DEF Start
    <2>2. /\ UNCHANGED <<qvars, cmdOf, mine, store, disk, page, cur, gate, sends, soft, faults, backs,
                         stops, deaths, others>> /\ UNCHANGED qvars
        BY <1>1 DEF serverVars, bounds
    <2>3. QueueOK'
        BY <2>2, QueueUnchanged DEF Inv
    <2>4. TypeOK'
        BY <1>0, <2>1, <2>2 DEF Inv, TypeOK
    <2>5. EntriesOK(store)' /\ EntriesOK(disk)' /\ TasksOK' /\ (backs = 0 => NoOther)' /\ AllFollowed'
        BY <2>1, <2>2 DEF Inv, EntriesOK, TasksOK, NoOther, AllFollowed
    <2> QED BY <2>3, <2>4, <2>5 DEF Inv
<1> QED BY <1>2, <1>3

LEMMA DeathStep == ASSUME Inv, Death PROVE Inv'
<1>1. /\ deaths < MaxDeaths /\ deaths' = deaths + 1 /\ store' = disk /\ page' = "none"
      /\ gate' = FALSE /\ visible' = TRUE /\ sends' = [p \in Pages |-> NoSend] /\ soft' = {}
      /\ polls' = [j \in Jobs |-> 0]
      /\ UNCHANGED <<qvars, cmdOf, mine, disk, cur, faults, backs, stops, others>>
    BY DEF Death, CancelTracking, serverVars
<1>0. UNCHANGED qvars
    BY <1>1
<1>2. QueueOK'
    BY <1>0, QueueUnchanged DEF Inv
<1>3. deaths' \in 0..MaxDeaths
    BY <1>1, TrackingConstants DEF Inv, TypeOK
<1>10. polls' \in [Jobs -> 0..MaxPolls]
    BY <1>1, NothingPolled
<1>11. gate' \in BOOLEAN /\ visible' \in BOOLEAN
    BY <1>1
<1>4. sends' \in [Pages -> Sends] /\ \A p \in Pages : sends'[p] = NoSend
    BY <1>1 DEF Sends
<1>5. TypeOK'
    BY <1>1, <1>3, <1>4, <1>10, <1>11 DEF Inv, TypeOK, EntriesOK
<1>6. EntriesOK(store)' /\ EntriesOK(disk)'
    BY <1>1 DEF Inv, EntriesOK
<1>7. TasksOK'
    BY <1>1, <1>4 DEF TasksOK, NoSend
<1>8. (backs = 0 => NoOther)'
    BY <1>1, <1>4 DEF Inv, NoOther
<1>9. AllFollowed'
    BY <1>1 DEF AllFollowed
<1> QED BY <1>2, <1>5, <1>6, <1>7, <1>8, <1>9 DEF Inv

LEMMA TrackingStep == Inv /\ [Next]_vars => Inv'
<1> SUFFICES ASSUME Inv, [Next]_vars PROVE Inv'
    OBVIOUS
<1>1. CASE Work \/ Expire
    BY <1>1, WorkStep
<1>2. CASE OtherDevice
    BY <1>2, OtherDeviceStep
<1>3. ASSUME NEW c \in Commands, Press(c) PROVE Inv'
    BY <1>3, PressStep
<1>4. CASE Sending
    BY <1>4, PostHandledStep, AnswerArrivesStep DEF Sending
<1>5. ASSUME NEW p \in Pages, SendLost(p) PROVE Inv'
    BY <1>5, SendLostStep
<1>6. ASSUME NEW j \in Jobs, Poll(j) PROVE Inv'
    BY <1>6, PollEndedStep, PollUnknownStep, PollAgainStep DEF Poll
<1>7. CASE Flush
    BY <1>7, FlushStep
<1>8. CASE OpenPage \/ Back \/ Stop
    BY <1>8, CancelStep
<1>9. CASE Loaded
    BY <1>9, LoadedStep
<1>10. CASE Start
    BY <1>10, StartStep
<1>11. CASE Death
    BY <1>11, DeathStep
<1>12. CASE UNCHANGED vars
    <2>1. /\ UNCHANGED <<cmdOf, mine, store, disk, pageVars, sends, polls, soft, bounds>>
          /\ UNCHANGED qvars
        BY <1>12 DEF vars, serverVars
    <2> QED BY <2>1, QueueUnchanged, PhoneUnchanged DEF Inv, PhoneInv
<1> QED BY <1>1, <1>2, <1>3, <1>4, <1>5, <1>6, <1>7, <1>8, <1>9, <1>10, <1>11, <1>12 DEF Next

LEMMA Safe == Spec => []Inv
BY TrackingInit, TrackingStep, PTL DEF Spec

-----------------------------------------------------------------------------
(* Theorems *)

\* Every variable keeps its type, and a key has the meta entry it is found by.
THEOREM TrackingTypes == Spec => []TypeOK
<1>1. Inv => TypeOK
    BY DEF Inv
<1> QED BY <1>1, Safe, PTL

\* A page that was loaded and not stopped follows every command the phone knows,
\* those of an earlier process included, until it has told the user of it.
THEOREM EveryCommandFollowed == Spec => []AllFollowed
<1>1. Inv => AllFollowed
    BY DEF Inv
<1> QED BY <1>1, Safe, PTL

\* While no page was left, the phone forgets a command only when the Server has
\* ended or forgotten it: a poll takes out the task it asked for and no other.
THEOREM ForgottenWhenOver == Spec => KeptUntilOver
<1>1. Inv /\ [Next]_vars => [Kept]_vars
    <2> SUFFICES ASSUME Inv, [Next]_vars, store' # store, deaths' = deaths PROVE Kept
        BY DEF vars, Kept
    <2>1. CASE Sending
        BY <2>1, AnswerArrivesStep DEF Sending, PostHandled
    <2>2. ASSUME NEW j \in Jobs, Poll(j) PROVE Kept
        BY <2>2, PollEndedStep, PollUnknownStep DEF Poll, PollAgain
    <2>3. CASE Death
        BY <2>3 DEF Death, Inv, TypeOK
    <2>4. ASSUME NEW c \in Commands, Press(c) PROVE store' = store
        BY <2>4 DEF Press
    <2>5. ASSUME NEW p \in Pages, SendLost(p) PROVE store' = store
        BY <2>5 DEF SendLost
    <2>6. CASE Work \/ Expire \/ OtherDevice \/ Flush \/ OpenPage \/ Loaded \/ Back \/ Stop \/ Start
        BY <2>6 DEF Work, Expire, OtherDevice, Flush, OpenPage, Loaded, Back, Stop, Start
    <2>7. CASE UNCHANGED vars
        BY <2>7 DEF vars
    <2> QED BY <2>1, <2>2, <2>3, <2>4, <2>5, <2>6, <2>7 DEF Next
<1>2. [Kept]_vars => [\A c \in Commands : LET j == store.key[c] IN
          j # NoJob /\ store'.key[c] # j /\ deaths' = deaths /\ backs' = 0 => ~Live(j)]_vars
    BY DEF Kept
<1> QED BY <1>1, <1>2, Safe, PTL DEF Spec, KeptUntilOver
=============================================================================
