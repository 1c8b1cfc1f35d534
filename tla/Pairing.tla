------------------------------- MODULE Pairing -------------------------------
(***************************************************************************)
(* Pairing requests and paired devices of the Server: AuthManager          *)
(* (agent/auth.py) over DeviceStore (agent/device_store.py).               *)
(*                                                                         *)
(* Every handler runs under one lock or on the event loop, so one handler  *)
(* is one action; what interleaves is the order of the phones' calls, the  *)
(* clock, a save that fails and a restart.  A code is right or wrong, a    *)
(* key stands for the device it authorises (device_id is one to one with   *)
(* it), and a record keeps when it was last seen and whether it was        *)
(* renamed.  An entry of sessions with status "new" is an identifier that  *)
(* was not drawn yet, "gone" one the dictionary has no longer.             *)
(***************************************************************************)
EXTENDS Integers, FiniteSets, Functions

CONSTANTS
    Pairings,       \* identifiers of pairing requests
    Keys,           \* device keys
    None,
    MaxFailed,      \* wrong codes before a request is locked
    LockFor,        \* how long it is locked
    Ttl,            \* how long a request may be completed
    Retention,      \* how long an ended request is still listed
    WriteInterval,  \* last_seen is saved at most once in this time
    MaxTime,        \* bound: the clock stops here
    MaxFaults,      \* bound: saves that fail
    MaxRestarts     \* bound: restarts of the Server

ASSUME PairingAssumption ==
    /\ {MaxFailed, LockFor, Ttl, Retention, WriteInterval} \subseteq Nat \ {0}
    /\ {MaxTime, MaxFaults, MaxRestarts} \subseteq Nat
    /\ None \notin Pairings \cup Keys

VARIABLES
    sessions,   \* _pairings
    store,      \* _data["devices"]: key -> record, in memory
    disk,       \* devices.json
    written,    \* _last_seen_writes: key -> time of the last saved touch
    now,        \* time.time()
    faults, restarts,
    born,       \* history: the request each key was issued for
    wrong,      \* history: wrong codes compared with a request's code
    used        \* history: when a key was last let through

store_vars == <<store, disk, written>>
history == <<born, wrong, used>>
vars == <<sessions, store_vars, now, faults, restarts, history>>

Live(s) == s.status \in {"pending", "locked"}
Over(s) == s.status \in {"consumed", "cancelled", "expired"}

NoSession == [status |-> "new", failed |-> 0, until |-> 0, ends |-> 0, over |-> 0]

Init ==
    /\ sessions = [p \in Pairings |-> NoSession]
    /\ store = << >> /\ disk = << >> /\ written = << >>
    /\ now = 0 /\ faults = 0 /\ restarts = 0
    /\ born = [k \in Keys |-> None]
    /\ wrong = [p \in Pairings |-> 0]
    /\ used = [k \in Keys |-> 0]

-----------------------------------------------------------------------------
(* The device store *)

(* DeviceStore._commit: the file is replaced first in a temporary file, a  *)
(* failing save leaves the old file and brings the old snapshot back.      *)
Commit(candidate, saved) ==
    /\ store' = IF saved THEN candidate ELSE store
    /\ disk' = IF saved THEN candidate ELSE disk

(* What the disk allows, and what it costs of the bound. *)
SaveEnds(saved) ==
    /\ saved \/ faults < MaxFaults
    /\ faults' = IF saved THEN faults ELSE faults + 1

With(k, record) == [j \in DOMAIN store \cup {k} |-> IF j = k THEN record ELSE store[j]]
Without(f, k) == Restrict(f, DOMAIN f \ {k})

NewRecord == [seen |-> now, renamed |-> FALSE]

(* touch: within WriteInterval of the last save nothing is written.        *)
Due(k) == k \in DOMAIN written => now - written[k] >= WriteInterval

(* The middleware lets a paired device's request through: device_id_for_key,*)
(* is_authorized and touch, whose failing save makes the request fail.     *)
Request(k, saved) ==
    /\ k \in DOMAIN store
    /\ IF Due(k)
       THEN /\ SaveEnds(saved)
            /\ Commit(With(k, [store[k] EXCEPT !.seen = now]), saved)
            /\ written' = IF saved
                          THEN [j \in DOMAIN written \cup {k} |-> IF j = k THEN now ELSE written[j]]
                          ELSE written
       ELSE saved /\ UNCHANGED <<store_vars, faults>>
    /\ used' = IF saved THEN [used EXCEPT ![k] = now] ELSE used
    /\ UNCHANGED <<sessions, now, restarts, born, wrong>>

(* remove_device: the record leaves the file, then the throttle's entry.   *)
Revoke(k, saved) ==
    /\ k \in DOMAIN store
    /\ SaveEnds(saved)
    /\ Commit(Without(store, k), saved)
    /\ written' = IF saved THEN Without(written, k) ELSE written
    /\ UNCHANGED <<sessions, now, restarts, history>>

(* rename_device *)
Rename(k, saved) ==
    /\ k \in DOMAIN store
    /\ SaveEnds(saved)
    /\ Commit(With(k, [store[k] EXCEPT !.renamed = TRUE]), saved)
    /\ UNCHANGED <<sessions, written, now, restarts, history>>

-----------------------------------------------------------------------------
(* Pairing requests *)

EndedAs(s, status) == [s EXCEPT !.status = status, !.over = now]
Unlocked(s) == [s EXCEPT !.failed = 0, !.status = "pending", !.until = 0]

(* create_pairing *)
Create(p) ==
    /\ sessions[p].status = "new"
    /\ sessions' = [sessions EXCEPT ![p] = [NoSession EXCEPT !.status = "pending", !.ends = now + Ttl]]
    /\ UNCHANGED <<store_vars, now, faults, restarts, history>>

(* The pass of list_pairings over one request: it expires, or its lock     *)
(* ends; an ended one is dropped Retention after its end.                  *)
Relisted(s) ==
    IF Live(s) /\ now >= s.ends THEN EndedAs(s, "expired")
    ELSE IF s.status = "locked" /\ now >= s.until THEN Unlocked(s)
    ELSE IF Over(s) /\ now - s.over >= Retention THEN [s EXCEPT !.status = "gone"]
    ELSE s

List ==
    /\ sessions' = [p \in Pairings |-> Relisted(sessions[p])]
    /\ UNCHANGED <<store_vars, now, faults, restarts, history>>

(* A wrong code: one attempt less, and the lock with the last of them.     *)
NeverLocked(s) == [s EXCEPT !.failed = @ + 1]
Failed(s) ==
    LET n == s.failed + 1
        locks == n >= MaxFailed
    IN [s EXCEPT !.failed = n,
                 !.status = IF locks THEN "locked" ELSE s.status,
                 !.until = IF locks THEN now + LockFor ELSE s.until]

(* The request as complete_pairing sees it when it compares the code.      *)
AtCompare(s) == IF s.status = "locked" THEN Unlocked(s) ELSE s
NotConsumed(s) == s
Consumed(s) == EndedAs(s, "consumed")

(* complete_pairing with the right code; add_device may fail, and the      *)
(* request can then be completed again.                                    *)
Pair(p, k, saved) ==
    /\ born[k] = None
    /\ SaveEnds(saved)
    /\ Commit(With(k, NewRecord), saved)
    /\ sessions' = [sessions EXCEPT ![p] = IF saved THEN Consumed(AtCompare(@)) ELSE AtCompare(@)]
    /\ born' = IF saved THEN [born EXCEPT ![k] = p] ELSE born
    /\ used' = IF saved THEN [used EXCEPT ![k] = now] ELSE used
    /\ UNCHANGED <<written, wrong>>

(* complete_pairing with a wrong code *)
Miss(p) ==
    /\ sessions' = [sessions EXCEPT ![p] = Failed(AtCompare(@))]
    /\ wrong' = [wrong EXCEPT ![p] = @ + 1]
    /\ UNCHANGED <<store_vars, faults, born, used>>

(* complete_pairing: too late, locked, or the code is compared.            *)
Complete(p) ==
    LET s == sessions[p] IN
    /\ Live(s)
    /\ \/ /\ now >= s.ends
          /\ sessions' = [sessions EXCEPT ![p] = EndedAs(s, "expired")]
          /\ UNCHANGED <<store_vars, faults, history>>
       \/ /\ now < s.ends /\ now < s.until
          /\ UNCHANGED <<sessions, store_vars, faults, history>>
       \/ /\ now < s.ends /\ now >= s.until
          /\ Miss(p) \/ \E k \in Keys, saved \in BOOLEAN : Pair(p, k, saved)
    /\ UNCHANGED <<now, restarts>>

(* cancel_pairing *)
Cancel(p) ==
    /\ Live(sessions[p])
    /\ sessions' = [sessions EXCEPT ![p] = EndedAs(@, "cancelled")]
    /\ UNCHANGED <<store_vars, now, faults, restarts, history>>

-----------------------------------------------------------------------------

(* The process ends and starts again: requests and the throttle are memory *)
(* only, the devices are loaded from the file.                             *)
Restart ==
    /\ restarts < MaxRestarts
    /\ restarts' = restarts + 1
    /\ sessions' = [p \in Pairings |->
                       IF sessions[p].status = "new" THEN NoSession
                       ELSE [sessions[p] EXCEPT !.status = "gone"]]
    /\ store' = disk
    /\ written' = << >>
    /\ UNCHANGED <<disk, now, faults, history>>

Tick ==
    /\ now < MaxTime
    /\ now' = now + 1
    /\ UNCHANGED <<sessions, store_vars, faults, restarts, history>>

Next ==
    \/ \E p \in Pairings : Create(p) \/ Complete(p) \/ Cancel(p)
    \/ \E k \in Keys, saved \in BOOLEAN : Request(k, saved) \/ Revoke(k, saved) \/ Rename(k, saved)
    \/ List
    \/ Restart
    \/ Tick

Spec == Init /\ [][Next]_vars

-----------------------------------------------------------------------------

Records == [seen : 0..MaxTime, renamed : BOOLEAN]
Session == [status : {"new", "pending", "locked", "consumed", "cancelled", "expired", "gone"},
            failed : 0..MaxFailed, until : 0..MaxTime + LockFor,
            ends : 0..MaxTime + Ttl, over : 0..MaxTime]

(* Types, and the shape of a request: it is locked exactly while it has    *)
(* used up its attempts.                                                   *)
TypeOK ==
    /\ sessions \in [Pairings -> Session]
    /\ \A f \in {store, disk} : DOMAIN f \subseteq Keys /\ Range(f) \subseteq Records
    /\ DOMAIN written \subseteq Keys /\ Range(written) \subseteq 0..MaxTime
    /\ now \in 0..MaxTime /\ faults \in 0..MaxFaults /\ restarts \in 0..MaxRestarts
    /\ born \in [Keys -> Pairings \cup {None}]
    /\ wrong \in [Pairings -> Nat] /\ used \in [Keys -> 0..MaxTime]
    /\ \A p \in Pairings : Live(sessions[p]) =>
           (sessions[p].status = "locked" <=> sessions[p].failed = MaxFailed)

(* What the Server answers from is what a restart would load: a save that  *)
(* fails leaves neither a device that vanishes at the next start nor one   *)
(* that comes back (DeviceStore._commit).                                  *)
StoreIsDisk == store = disk

(* "Only a successful completion makes a device, and one device": the      *)
(* request a key was issued for was completed, and issued no other key.    *)
OneDevicePerPairing ==
    /\ \A k \in Keys : born[k] # None => sessions[born[k]].status \in {"consumed", "gone"}
    /\ \A j, k \in Keys : born[j] # None /\ born[j] = born[k] => j = k

(* However the calls and the clock interleave, and whether the lock ends in*)
(* complete_pairing or in list_pairings, a request compares at most        *)
(* MaxFailed wrong codes for every LockFor of its life.                    *)
GuessesBounded ==
    \A p \in Pairings : Live(sessions[p]) =>
        wrong[p] <= MaxFailed * (1 + (now - (sessions[p].ends - Ttl)) \div LockFor)

(* Throttled or not, saved or not, restarted or not: the last_seen on disk *)
(* of a device is less than WriteInterval older than its last request.     *)
LastSeenIsRecent ==
    \A k \in DOMAIN disk : used[k] - disk[k].seen < WriteInterval

(* A request that ended stays ended until it is dropped, and a dropped one *)
(* never comes back.                                                       *)
EndIsFinal ==
    [][\A p \in Pairings :
          /\ Over(sessions[p]) => sessions'[p].status \in {sessions[p].status, "gone"}
          /\ sessions[p].status = "gone" => sessions'[p].status = "gone"]_vars
=============================================================================
