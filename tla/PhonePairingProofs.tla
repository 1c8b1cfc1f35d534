------------------------- MODULE PhonePairingProofs -------------------------
(***************************************************************************)
(* Proofs about Pairing, the Server's side, and PhonePairing, which puts   *)
(* one phone beside it, for any number of requests, keys and coroutines    *)
(* and every bound.                                                        *)
(*                                                                         *)
(* The first half is about the Server alone.  The second shows that every  *)
(* step of the composition is a step of the Server or leaves it alone, and *)
(* carries the Server's theorems over.                                     *)
(***************************************************************************)
EXTENDS PhonePairing, TLAPS

-----------------------------------------------------------------------------
(* The Server's invariant *)

\* Wrong codes that as many whole locks allow as fit into an age.
Wrongs(age) == MaxFailed * (age \div LockFor)

\* One request at a time, w being the wrong codes compared with it.  The
\* property to prove counts whole locks in the request's age; the count is only
\* kept if a request under a lock is measured at the lock's end instead.
Good(s, w, t) ==
    /\ s \in Session /\ w \in Nat
    /\ s.status = "new" => w = 0
    /\ Live(s) => /\ s.status = "locked" <=> s.failed = MaxFailed
                  /\ s.ends - Ttl \in 0..t
    /\ s.status = "pending" => w <= Wrongs(t - (s.ends - Ttl)) + s.failed
    /\ s.status = "locked" => /\ s.until - LockFor \in s.ends - Ttl..t
                              /\ w <= Wrongs(s.until - (s.ends - Ttl))

\* The throttle remembers what the file says, of devices that are still there,
\* and a device has a key that was issued.
ThrottleOK ==
    /\ \A k \in DOMAIN written : k \in DOMAIN store /\ written[k] = store[k].seen
    /\ \A k \in DOMAIN store : born[k] # None

StoreOK == StoreIsDisk /\ ThrottleOK /\ LastSeenIsRecent

ServerInv ==
    /\ TypeOK
    /\ \A p \in Pairings : Good(sessions[p], wrong[p], now)
    /\ OneDevicePerPairing
    /\ StoreOK

-----------------------------------------------------------------------------
(* One request *)

\* Whole locks in an age: more with time, and one more after LockFor.
LEMMA WrongsGrow ==
    /\ \A a \in Nat : Wrongs(a) \in Nat /\ Wrongs(a + LockFor) = Wrongs(a) + MaxFailed
    /\ \A a, b \in Nat : a <= b => Wrongs(a) <= Wrongs(b)
<1>1. MaxFailed \in Nat /\ LockFor \in Nat \ {0}
    BY PairingAssumption
<1>2. \A a \in Nat : a \div LockFor \in Nat /\ (a + LockFor) \div LockFor = (a \div LockFor) + 1
    BY <1>1, SMT
<1>3. \A a, b \in Nat : a <= b => a \div LockFor <= b \div LockFor
    BY <1>1, SMT
<1>4. ASSUME NEW m \in Nat, NEW q \in Nat
      PROVE  m * q \in Nat /\ m * (q + 1) = m * q + m
    BY SMT
<1>5. ASSUME NEW m \in Nat, NEW q \in Nat, NEW r \in Nat, q <= r
      PROVE  m * q <= m * r
    BY <1>5, SMT
<1>6. ASSUME NEW a \in Nat
      PROVE  Wrongs(a) \in Nat /\ Wrongs(a + LockFor) = Wrongs(a) + MaxFailed
    BY <1>1, <1>2, <1>4 DEF Wrongs
<1>7. ASSUME NEW a \in Nat, NEW b \in Nat, a <= b
      PROVE  Wrongs(a) <= Wrongs(b)
    BY <1>1, <1>2, <1>3, <1>5, <1>7 DEF Wrongs
<1> QED BY <1>6, <1>7

\* An unused identifier, and a request that was just created.
LEMMA GoodBegins ==
    ASSUME NEW t \in 0..MaxTime
    PROVE  /\ Good(NoSession, 0, t)
           /\ Good([NoSession EXCEPT !.status = "pending", !.ends = t + Ttl], 0, t)
<1> USE PairingAssumption DEF Session, NoSession, Live
<1>1. Good(NoSession, 0, t)
    BY DEF Good
<1> DEFINE s == [NoSession EXCEPT !.status = "pending", !.ends = t + Ttl]
<1>2. NoSession \in Session /\ t + Ttl \in 0..MaxTime + Ttl
    OBVIOUS
<1>3. s \in Session /\ s.status = "pending" /\ s.ends - Ttl = t /\ s.failed = 0
    <2>1. NoSession.failed = 0
        OBVIOUS
    <2>2. ASSUME NEW r \in Session, NEW e \in 0..MaxTime + Ttl
          PROVE  LET c == [r EXCEPT !.status = "pending", !.ends = e] IN
                 c \in Session /\ c.status = "pending" /\ c.ends = e /\ c.failed = r.failed
        OBVIOUS
    <2>3. s \in Session /\ s.status = "pending" /\ s.ends = t + Ttl /\ s.failed = 0
        BY <1>2, <2>1, <2>2
    <2> QED BY <2>3
<1> HIDE DEF s
<1>4. Wrongs(t - (s.ends - Ttl)) \in Nat
    BY <1>3, WrongsGrow
<1>5. Good(s, 0, t)
    BY <1>3, <1>4 DEF Good
<1> QED BY <1>1, <1>5 DEF s

\* A request ends, is dropped, or grows older.
LEMMA GoodEnds ==
    ASSUME NEW s, NEW w, now \in 0..MaxTime, Good(s, w, now)
    PROVE  /\ \A status \in {"consumed", "cancelled", "expired"} :
                  Good(EndedAs(s, status), w, now)
           /\ Good([s EXCEPT !.status = "gone"], w, now)
BY PairingAssumption DEF Good, EndedAs, Session, Live

LEMMA GoodLater ==
    ASSUME NEW s, NEW w, NEW t \in 0..MaxTime, Good(s, w, t)
    PROVE  Good(s, w, t + 1)
<1>1. CASE s.status = "pending"
    <2>1. /\ t - (s.ends - Ttl) \in Nat /\ (t + 1) - (s.ends - Ttl) \in Nat
          /\ t - (s.ends - Ttl) <= (t + 1) - (s.ends - Ttl)
        BY <1>1, PairingAssumption DEF Good, Live, Session
    <2>2. /\ Wrongs(t - (s.ends - Ttl)) <= Wrongs((t + 1) - (s.ends - Ttl))
          /\ Wrongs(t - (s.ends - Ttl)) \in Nat /\ Wrongs((t + 1) - (s.ends - Ttl)) \in Nat
        BY <2>1, WrongsGrow
    <2> QED BY <1>1, <2>1, <2>2, PairingAssumption DEF Good, Live, Session
<1>2. CASE s.status # "pending"
    BY <1>2, PairingAssumption DEF Good, Live, Session
<1> QED BY <1>1, <1>2

\* The lock ends, wherever that is noticed.
LEMMA GoodUnlocked ==
    ASSUME NEW s, NEW w, now \in 0..MaxTime, Good(s, w, now),
           s.status = "locked", now >= s.until
    PROVE  Good(Unlocked(s), w, now) /\ Unlocked(s).status = "pending"
<1> DEFINE c == s.ends - Ttl
<1>1. /\ c \in Nat /\ s.until - c \in Nat /\ now - c \in Nat /\ s.until - c <= now - c
      /\ w \in Nat /\ w <= Wrongs(s.until - c)
    BY PairingAssumption DEF Good, Live, Session
<1>2. /\ Wrongs(s.until - c) <= Wrongs(now - c)
      /\ Wrongs(s.until - c) \in Nat /\ Wrongs(now - c) \in Nat
    BY <1>1, WrongsGrow
<1>3. w <= Wrongs(now - c) + 0
    BY <1>1, <1>2
<1> DEFINE u == Unlocked(s)
<1>4. /\ u \in Session /\ u.status = "pending" /\ u.failed = 0 /\ u.ends = s.ends
      /\ MaxFailed # 0 /\ s.ends - Ttl \in 0..now
    <2>1. s \in Session /\ s.ends - Ttl \in 0..now
        BY DEF Good, Live
    <2> DEFINE g == [s EXCEPT !.failed = 0, !.status = "pending", !.until = 0]
    <2>2. u = g
        BY DEF Unlocked
    <2>3. 0 \in 0..MaxFailed /\ 0 \in 0..MaxTime + LockFor
        BY PairingAssumption
    <2>4. g \in Session /\ g.status = "pending" /\ g.failed = 0 /\ g.ends = s.ends
        BY <2>1, <2>3 DEF Session
    <2> HIDE DEF u, g
    <2> QED BY <2>1, <2>2, <2>4, PairingAssumption
<1> HIDE DEF u
<1>5. Good(u, w, now)
    BY <1>1, <1>3, <1>4 DEF Good, Live
<1> QED BY <1>4, <1>5 DEF u

\* A wrong code is compared: one more, and the lock with the last of them.
LEMMA GoodFailed ==
    ASSUME NEW s, NEW w, now \in 0..MaxTime, Good(s, w, now), s.status = "pending"
    PROVE  Good(Failed(s), w + 1, now)
<1> DEFINE c == s.ends - Ttl
           n == s.failed + 1
           f == Failed(s)
<1>1. /\ c \in 0..now /\ now - c \in Nat /\ s.failed \in 0..MaxFailed /\ s.failed # MaxFailed
      /\ w \in Nat /\ w <= Wrongs(now - c) + s.failed /\ LockFor \in Nat /\ MaxFailed \in Nat
    BY PairingAssumption DEF Good, Live, Session
<1>2. Wrongs(now - c) \in Nat /\ Wrongs((now - c) + LockFor) = Wrongs(now - c) + MaxFailed
    BY <1>1, WrongsGrow
<1>3. n \in 1..MaxFailed
    BY <1>1
<1>4. CASE n >= MaxFailed
    <2>1. /\ f \in Session /\ f.status = "locked" /\ f.failed = MaxFailed /\ f.ends = s.ends
          /\ f.until = now + LockFor
        <3> DEFINE g == [s EXCEPT !.failed = n, !.status = "locked", !.until = now + LockFor]
        <3>1. f = g
            BY <1>4 DEF Failed
        <3>2. n \in 0..MaxFailed /\ now + LockFor \in 0..MaxTime + LockFor /\ n = MaxFailed
            BY <1>1, <1>3, <1>4, PairingAssumption
        <3>3. s \in Session
            BY DEF Good
        <3>4. g \in Session /\ g.status = "locked" /\ g.failed = n /\ g.until = now + LockFor /\ g.ends = s.ends
            BY <3>2, <3>3 DEF Session
        <3> HIDE DEF f, g
        <3> QED BY <3>1, <3>2, <3>4
    <2>2. f.until - (f.ends - Ttl) = (now - c) + LockFor /\ f.until - LockFor = now
        BY <1>1, <2>1, PairingAssumption DEF Good, Session
    <2>3. w + 1 <= Wrongs(f.until - (f.ends - Ttl))
        BY <1>1, <1>2, <1>3, <1>4, <2>2
    <2> HIDE DEF f
    <2>4. Good(f, w + 1, now)
        BY <1>1, <2>1, <2>2, <2>3 DEF Good, Live
    <2> QED BY <2>4 DEF f
<1>5. CASE ~(n >= MaxFailed)
    <2>1. /\ f \in Session /\ f.status = "pending" /\ f.failed = n /\ f.ends = s.ends
        <3> DEFINE g == [s EXCEPT !.failed = n, !.status = "pending", !.until = s.until]
        <3>1. f = g
            BY <1>5 DEF Failed
        <3>2. n \in 0..MaxFailed /\ s.until \in 0..MaxTime + LockFor
            BY <1>1, <1>3 DEF Good, Session
        <3>3. s \in Session
            BY DEF Good
        <3>4. g \in Session /\ g.status = "pending" /\ g.failed = n /\ g.until = s.until /\ g.ends = s.ends
            BY <3>2, <3>3 DEF Session
        <3> HIDE DEF f, g
        <3> QED BY <3>1, <3>2, <3>4
    <2>2. w + 1 <= Wrongs(now - c) + n /\ n # MaxFailed
        BY <1>1, <1>2, <1>3, <1>5
    <2> HIDE DEF f
    <2>3. Good(f, w + 1, now)
        BY <1>1, <2>1, <2>2 DEF Good, Live
    <2> QED BY <2>3 DEF f
<1> QED BY <1>4, <1>5

\* What list_pairings makes of a request; an ended one stays as it is or goes.
LEMMA GoodRelisted ==
    ASSUME NEW s, NEW w, now \in 0..MaxTime, Good(s, w, now)
    PROVE  /\ Good(Relisted(s), w, now)
           /\ Over(s) => Relisted(s).status \in {s.status, "gone"}
           /\ s.status = "gone" => Relisted(s).status = "gone"
<1>1. CASE Live(s) /\ now >= s.ends
    BY <1>1, GoodEnds DEF Relisted, Live, Over
<1>2. CASE ~(Live(s) /\ now >= s.ends) /\ s.status = "locked" /\ now >= s.until
    BY <1>2, GoodUnlocked DEF Relisted, Over
<1>3. CASE /\ ~(Live(s) /\ now >= s.ends) /\ ~(s.status = "locked" /\ now >= s.until)
           /\ Over(s) /\ now - s.over >= Retention
    <2>1. Relisted(s) = [s EXCEPT !.status = "gone"]
        BY <1>3 DEF Relisted
    <2>2. [s EXCEPT !.status = "gone"].status = "gone"
        BY DEF Good, Session
    <2> QED BY <2>1, <2>2, GoodEnds
<1>4. CASE /\ ~(Live(s) /\ now >= s.ends) /\ ~(s.status = "locked" /\ now >= s.until)
           /\ ~(Over(s) /\ now - s.over >= Retention)
    BY <1>4 DEF Relisted
<1> QED BY <1>1, <1>2, <1>3, <1>4

-----------------------------------------------------------------------------
(* The Server's steps *)

\* What EndIsFinal says of a step.
Final ==
    \A p \in Pairings :
        /\ Over(sessions[p]) => sessions'[p].status \in {sessions[p].status, "gone"}
        /\ sessions[p].status = "gone" => sessions'[p].status = "gone"

LEMMA InitServerInv == Init => ServerInv
<1> SUFFICES ASSUME Init PROVE ServerInv
    OBVIOUS
<1>1. 0 \in 0..MaxTime /\ 0 \in 0..MaxFaults /\ 0 \in 0..MaxRestarts
    BY PairingAssumption
<1>2. \A p \in Pairings : Good(sessions[p], wrong[p], now)
    BY <1>1, GoodBegins DEF Init
<1>3. sessions \in [Pairings -> Session]
    BY <1>2 DEF Init, Good
<1>4. \A p \in Pairings : ~Live(sessions[p])
    BY DEF Init, NoSession, Live
<1>5. DOMAIN store = {} /\ DOMAIN written = {} /\ Range(store) = {} /\ Range(written) = {}
      /\ store = disk
    BY DEF Init, Range
<1>6. TypeOK
    BY <1>1, <1>3, <1>4, <1>5 DEF Init, TypeOK
<1>7. OneDevicePerPairing
    BY DEF Init, OneDevicePerPairing
<1>8. StoreOK
    BY <1>5 DEF StoreOK, StoreIsDisk, ThrottleOK, LastSeenIsRecent
<1> QED BY <1>2, <1>6, <1>7, <1>8 DEF ServerInv

\* A step that changes requests only.
LEMMA SessionsStep ==
    ASSUME ServerInv, UNCHANGED <<store_vars, now, restarts, born, used>>,
           faults' \in 0..MaxFaults, DOMAIN sessions' = Pairings, sessions' = [p \in Pairings |-> sessions'[p]],
           wrong' \in [Pairings -> Nat],
           \A p \in Pairings : Good(sessions'[p], wrong'[p], now),
           Final
    PROVE  ServerInv'
<1>1. sessions' \in [Pairings -> Session]
    BY DEF Good
<1>2. \A p \in Pairings : Live(sessions'[p]) =>
          (sessions'[p].status = "locked" <=> sessions'[p].failed = MaxFailed)
    BY DEF Good
<1>3. TypeOK'
    BY <1>1, <1>2 DEF ServerInv, TypeOK, store_vars, Live
<1>4. OneDevicePerPairing'
    BY PairingAssumption DEF ServerInv, OneDevicePerPairing, TypeOK, Final, Over
<1>5. StoreOK'
    BY DEF ServerInv, StoreOK, StoreIsDisk, ThrottleOK, LastSeenIsRecent, store_vars
<1>6. \A p \in Pairings : Good(sessions'[p], wrong'[p], now')
    BY DEF store_vars
<1>7. (\A p \in Pairings : Good(sessions[p], wrong[p], now))'
    BY <1>6 DEF Good, Live, Wrongs
<1> QED BY <1>3, <1>4, <1>5, <1>7 DEF ServerInv

\* One request moves on, the others stay.
LEMMA OneSession ==
    ASSUME ServerInv, UNCHANGED <<store_vars, now, restarts, born, used>>,
           faults' \in 0..MaxFaults, NEW p \in Pairings, NEW s, NEW w \in Nat,
           sessions' = [sessions EXCEPT ![p] = s], wrong' = [wrong EXCEPT ![p] = w],
           Good(s, w, now), Live(sessions[p]) \/ sessions[p].status = "new"
    PROVE  ServerInv' /\ Final
<1>1. sessions \in [Pairings -> Session] /\ wrong \in [Pairings -> Nat]
    BY DEF ServerInv, TypeOK
<1>2. /\ DOMAIN sessions' = Pairings /\ sessions' = [q \in Pairings |-> sessions'[q]]
      /\ sessions'[p] = s /\ wrong'[p] = w /\ wrong' \in [Pairings -> Nat]
      /\ \A q \in Pairings : q # p => sessions'[q] = sessions[q] /\ wrong'[q] = wrong[q]
    BY <1>1
<1>3. \A q \in Pairings : Good(sessions'[q], wrong'[q], now)
    <2>1. \A q \in Pairings : Good(sessions[q], wrong[q], now)
        BY DEF ServerInv
    <2> QED BY <1>2, <2>1, Zenon
<1>4. Final
    BY <1>2 DEF Final, Over, Live
<1> QED BY <1>2, <1>3, <1>4, SessionsStep

LEMMA CreateStep ==
    ASSUME ServerInv, NEW p \in Pairings, Create(p)
    PROVE  ServerInv' /\ Final
<1> DEFINE s == [NoSession EXCEPT !.status = "pending", !.ends = now + Ttl]
<1>1. now \in 0..MaxTime /\ faults \in 0..MaxFaults /\ wrong \in [Pairings -> Nat] /\ Good(sessions[p], wrong[p], now)
    BY DEF ServerInv, TypeOK
<1>2. wrong[p] = 0 /\ wrong' = [wrong EXCEPT ![p] = wrong[p]] /\ wrong[p] \in Nat
    BY <1>1 DEF Create, Good, history
<1>3. Good(s, wrong[p], now)
    BY <1>1, <1>2, GoodBegins
<1>4. sessions' = [sessions EXCEPT ![p] = s] /\ sessions[p].status = "new"
    BY DEF Create
<1>5. UNCHANGED <<store_vars, now, faults, restarts, born, used>>
    BY DEF Create, history
<1> HIDE DEF s
<1> QED BY <1>1, <1>2, <1>3, <1>4, <1>5, OneSession

\* A request ends without a device: cancelled, or too late.
LEMMA EndedStep ==
    ASSUME ServerInv, NEW p \in Pairings, Live(sessions[p]),
           NEW status \in {"cancelled", "expired"},
           sessions' = [sessions EXCEPT ![p] = EndedAs(sessions[p], status)],
           UNCHANGED <<store_vars, now, faults, restarts, history>>
    PROVE  ServerInv' /\ Final
<1> DEFINE s == EndedAs(sessions[p], status)
<1>1. now \in 0..MaxTime /\ faults \in 0..MaxFaults /\ wrong \in [Pairings -> Nat] /\ Good(sessions[p], wrong[p], now)
    BY DEF ServerInv, TypeOK
<1>2. Good(s, wrong[p], now)
    BY <1>1, GoodEnds
<1>3. wrong' = [wrong EXCEPT ![p] = wrong[p]] /\ sessions' = [sessions EXCEPT ![p] = s]
    BY <1>1 DEF history
<1>4. UNCHANGED <<store_vars, now, faults, restarts, born, used>> /\ wrong[p] \in Nat
    BY <1>1 DEF history
<1> HIDE DEF s
<1> QED BY <1>1, <1>2, <1>3, <1>4, OneSession

LEMMA ListStep == ASSUME ServerInv, List PROVE ServerInv' /\ Final
<1>1. now \in 0..MaxTime /\ faults \in 0..MaxFaults /\ wrong \in [Pairings -> Nat]
      /\ \A p \in Pairings : Good(sessions[p], wrong[p], now)
    BY DEF ServerInv, TypeOK
<1>2. UNCHANGED <<store_vars, now, faults, restarts, born, used, wrong>>
    BY DEF List, history
<1>3. /\ DOMAIN sessions' = Pairings /\ sessions' = [p \in Pairings |-> sessions'[p]]
      /\ \A p \in Pairings : sessions'[p] = Relisted(sessions[p])
    BY DEF List
<1>4. \A p \in Pairings : Good(sessions'[p], wrong'[p], now)
    BY <1>1, <1>2, <1>3, GoodRelisted
<1>5. Final
    BY <1>1, <1>3, GoodRelisted DEF Final
<1> QED BY <1>1, <1>2, <1>3, <1>4, <1>5, SessionsStep

\* What complete_pairing compares the code with.
LEMMA AtCompareGood ==
    ASSUME ServerInv, NEW p \in Pairings, Live(sessions[p]), now >= sessions[p].until
    PROVE  /\ Good(AtCompare(sessions[p]), wrong[p], now)
           /\ AtCompare(sessions[p]).status = "pending"
<1>1. now \in 0..MaxTime /\ Good(sessions[p], wrong[p], now)
    BY DEF ServerInv, TypeOK
<1> QED BY <1>1, GoodUnlocked DEF AtCompare, Live

LEMMA MissStep ==
    ASSUME ServerInv, NEW p \in Pairings, Live(sessions[p]), now >= sessions[p].until,
           Miss(p), UNCHANGED <<now, restarts>>
    PROVE  ServerInv' /\ Final
<1> DEFINE s == Failed(AtCompare(sessions[p]))
<1>1. now \in 0..MaxTime /\ faults \in 0..MaxFaults /\ wrong \in [Pairings -> Nat] /\ sessions \in [Pairings -> Session]
    BY DEF ServerInv, TypeOK
<1>2. Good(s, wrong[p] + 1, now)
    BY <1>1, AtCompareGood, GoodFailed
<1>3. /\ sessions' = [sessions EXCEPT ![p] = s] /\ wrong' = [wrong EXCEPT ![p] = wrong[p] + 1]
      /\ wrong[p] + 1 \in Nat
    BY <1>1 DEF Miss
<1>4. UNCHANGED <<store_vars, now, faults, restarts, born, used>>
    BY DEF Miss
<1> HIDE DEF s
<1> QED BY <1>1, <1>2, <1>3, <1>4, OneSession

\* What a record put into the devices makes of them, and what it leaves.
LEMMA WithDevices ==
    ASSUME ServerInv, NEW k \in Keys, NEW record \in Records
    PROVE  /\ DOMAIN With(k, record) = DOMAIN store \cup {k}
           /\ With(k, record)[k] = record
           /\ \A j \in DOMAIN store : j # k => With(k, record)[j] = store[j]
           /\ DOMAIN With(k, record) \subseteq Keys /\ Range(With(k, record)) \subseteq Records
BY DEF With, Range, ServerInv, TypeOK

LEMMA WithoutDevices ==
    ASSUME NEW f, NEW k
    PROVE  /\ DOMAIN Without(f, k) = DOMAIN f \ {k}
           /\ \A j \in DOMAIN f : j # k => Without(f, k)[j] = f[j]
           /\ Range(Without(f, k)) \subseteq Range(f)
BY DEF Without, Restrict, Range

\* A step that changes the devices, their throttle and when they were used.
LEMMA DevicesStep ==
    ASSUME ServerInv, UNCHANGED <<sessions, now, restarts, born, wrong>>,
           faults' \in 0..MaxFaults, used' \in [Keys -> 0..MaxTime], store' = disk',
           DOMAIN store' \subseteq DOMAIN store, Range(store') \subseteq Records,
           DOMAIN written' \subseteq Keys, Range(written') \subseteq 0..MaxTime,
           \A k \in DOMAIN written' : k \in DOMAIN store' /\ written'[k] = store'[k].seen,
           \A k \in DOMAIN store' : used'[k] - store'[k].seen < WriteInterval
    PROVE  ServerInv' /\ Final
<1>1. TypeOK'
    BY DEF ServerInv, TypeOK, Live
<1>2. OneDevicePerPairing'
    BY DEF ServerInv, OneDevicePerPairing
<1>3. StoreOK'
    BY DEF ServerInv, StoreOK, StoreIsDisk, ThrottleOK, LastSeenIsRecent
<1>4. (\A p \in Pairings : Good(sessions[p], wrong[p], now))'
    BY DEF ServerInv, Good, Live, Wrongs
<1>5. Final
    BY DEF Final
<1> QED BY <1>1, <1>2, <1>3, <1>4, <1>5 DEF ServerInv

LEMMA SaveType ==
    ASSUME ServerInv, NEW ok \in BOOLEAN, SaveEnds(ok)
    PROVE  faults' \in 0..MaxFaults
BY PairingAssumption DEF ServerInv, TypeOK, SaveEnds

\* Nothing but the count of failed saves changes.
LEMMA NothingStep ==
    ASSUME ServerInv, UNCHANGED <<sessions, store_vars, now, restarts, history>>,
           faults' \in 0..MaxFaults
    PROVE  ServerInv' /\ Final
<1>1. UNCHANGED <<sessions, now, restarts, born, wrong, store, disk, written, used>>
    BY DEF store_vars, history
<1> QED BY <1>1, DevicesStep DEF ServerInv, TypeOK, StoreOK, StoreIsDisk, ThrottleOK, LastSeenIsRecent

LEMMA RequestStep ==
    ASSUME ServerInv, NEW k \in Keys, NEW ok \in BOOLEAN, Request(k, ok)
    PROVE  ServerInv' /\ Final
<1>1. /\ now \in 0..MaxTime /\ used \in [Keys -> 0..MaxTime] /\ k \in DOMAIN store
      /\ DOMAIN store \subseteq Keys /\ Range(store) \subseteq Records /\ store = disk
      /\ DOMAIN written \subseteq Keys /\ Range(written) \subseteq 0..MaxTime
      /\ store[k] \in Records /\ faults \in 0..MaxFaults
    BY DEF ServerInv, TypeOK, Request, Range, StoreOK, StoreIsDisk
<1>2. /\ \A j \in DOMAIN written : j \in DOMAIN store /\ written[j] = store[j].seen
      /\ \A j \in DOMAIN store : used[j] - store[j].seen < WriteInterval
    BY <1>1 DEF ServerInv, StoreOK, ThrottleOK, LastSeenIsRecent
<1>3. UNCHANGED <<sessions, now, restarts, born, wrong>>
    BY DEF Request
<1>4. CASE Due(k) /\ ok = FALSE
    BY <1>4, NothingStep, SaveType DEF Request, Commit, store_vars, history
<1>5. CASE Due(k) /\ ok = TRUE
    <2> DEFINE record == [store[k] EXCEPT !.seen = now]
               to == With(k, record)
    <2>1. record \in Records /\ record.seen = now
        BY <1>1 DEF Records
    <2>2. /\ store' = to /\ disk' = to
          /\ written' = [j \in DOMAIN written \cup {k} |-> IF j = k THEN now ELSE written[j]]
          /\ used' = [used EXCEPT ![k] = now] /\ faults' \in 0..MaxFaults
        BY <1>5, SaveType DEF Request, Commit
    <2> HIDE DEF record
    <2>3. /\ DOMAIN to = DOMAIN store \cup {k} /\ to[k] = record
          /\ \A j \in DOMAIN store : j # k => to[j] = store[j]
          /\ Range(to) \subseteq Records
        BY <2>1, WithDevices
    <2> HIDE DEF to
    <2>4. /\ used' \in [Keys -> 0..MaxTime] /\ used'[k] = now
          /\ \A j \in Keys : j # k => used'[j] = used[j]
        BY <1>1, <2>2
    <2>5. /\ DOMAIN written' = DOMAIN written \cup {k} /\ written'[k] = now
          /\ \A j \in DOMAIN written : j # k => written'[j] = written[j]
          /\ Range(written') \subseteq 0..MaxTime
        BY <1>1, <2>2 DEF Range
    <2>6. \A j \in DOMAIN written' : j \in DOMAIN store' /\ written'[j] = store'[j].seen
        BY <1>1, <1>2, <2>1, <2>2, <2>3, <2>5
    <2>7. \A j \in DOMAIN store' : used'[j] - store'[j].seen < WriteInterval
        BY <1>1, <1>2, <2>1, <2>2, <2>3, <2>4, PairingAssumption
    <2> QED BY <1>1, <1>3, <2>2, <2>3, <2>4, <2>5, <2>6, <2>7, DevicesStep
<1>6. CASE ~Due(k)
    <2>1. /\ UNCHANGED <<store, disk, written, faults>> /\ used' = [used EXCEPT ![k] = now]
          /\ k \in DOMAIN written /\ now - written[k] < WriteInterval
        BY <1>1, <1>6, PairingAssumption DEF Request, Due, store_vars, Range
    <2>2. /\ used' \in [Keys -> 0..MaxTime] /\ used'[k] = now
          /\ \A j \in Keys : j # k => used'[j] = used[j]
        BY <1>1, <2>1
    <2>3. \A j \in DOMAIN store' : used'[j] - store'[j].seen < WriteInterval
        BY <1>1, <1>2, <2>1, <2>2
    <2> QED BY <1>1, <1>2, <1>3, <2>1, <2>2, <2>3, DevicesStep
<1> QED BY <1>4, <1>5, <1>6

LEMMA RevokeStep ==
    ASSUME ServerInv, NEW k \in Keys, NEW ok \in BOOLEAN, Revoke(k, ok)
    PROVE  ServerInv' /\ Final
<1>1. CASE ok = FALSE
    BY <1>1, NothingStep, SaveType DEF Revoke, Commit, store_vars
<1>2. CASE ok = TRUE
    <2>1. /\ store' = Without(store, k) /\ disk' = store' /\ written' = Without(written, k)
          /\ UNCHANGED <<sessions, now, restarts, born, wrong, used>>
        BY <1>2 DEF Revoke, Commit, history
    <2>2. faults' \in 0..MaxFaults
        BY SaveType DEF Revoke
    <2>3. /\ DOMAIN store' = DOMAIN store \ {k} /\ DOMAIN written' = DOMAIN written \ {k}
          /\ \A j \in DOMAIN store : j # k => store'[j] = store[j]
          /\ \A j \in DOMAIN written : j # k => written'[j] = written[j]
          /\ Range(store') \subseteq Range(store) /\ Range(written') \subseteq Range(written)
        BY <2>1, WithoutDevices
    <2>4. /\ used \in [Keys -> 0..MaxTime] /\ DOMAIN store \subseteq Keys
          /\ Range(store) \subseteq Records /\ store = disk
          /\ DOMAIN written \subseteq Keys /\ Range(written) \subseteq 0..MaxTime
        BY DEF ServerInv, TypeOK, StoreOK, StoreIsDisk
    <2>5. /\ \A j \in DOMAIN written : j \in DOMAIN store /\ written[j] = store[j].seen
          /\ \A j \in DOMAIN store : used[j] - store[j].seen < WriteInterval
        BY <2>4 DEF ServerInv, StoreOK, ThrottleOK, LastSeenIsRecent
    <2>6. /\ \A j \in DOMAIN written' : j \in DOMAIN store' /\ written'[j] = store'[j].seen
          /\ \A j \in DOMAIN store' : used'[j] - store'[j].seen < WriteInterval
        BY <2>1, <2>3, <2>5
    <2> QED BY <2>1, <2>2, <2>3, <2>4, <2>6, DevicesStep
<1> QED BY <1>1, <1>2

LEMMA RenameStep ==
    ASSUME ServerInv, NEW k \in Keys, NEW ok \in BOOLEAN, Rename(k, ok)
    PROVE  ServerInv' /\ Final
<1>1. CASE ok = FALSE
    BY <1>1, NothingStep, SaveType DEF Rename, Commit, store_vars
<1>2. CASE ok = TRUE
    <2> DEFINE record == [store[k] EXCEPT !.renamed = TRUE]
               to == With(k, record)
    <2>1. /\ store' = to /\ disk' = to /\ k \in DOMAIN store
          /\ UNCHANGED <<sessions, now, restarts, born, wrong, used, written>>
        BY <1>2 DEF Rename, Commit, history
    <2>2. faults' \in 0..MaxFaults
        BY SaveType DEF Rename
    <2>3. /\ used \in [Keys -> 0..MaxTime] /\ DOMAIN store \subseteq Keys
          /\ Range(store) \subseteq Records /\ store = disk
          /\ DOMAIN written \subseteq Keys /\ Range(written) \subseteq 0..MaxTime
        BY DEF ServerInv, TypeOK, StoreOK, StoreIsDisk
    <2>4. store[k] \in Records
        BY <2>1, <2>3 DEF Range
    <2>5. record \in Records /\ record.seen = store[k].seen
        BY <2>4 DEF Records
    <2> HIDE DEF record
    <2>6. /\ DOMAIN to = DOMAIN store \cup {k} /\ to[k] = record
          /\ \A j \in DOMAIN store : j # k => to[j] = store[j]
          /\ Range(to) \subseteq Records
        BY <2>5, WithDevices
    <2> HIDE DEF to
    <2>7. /\ \A j \in DOMAIN written : j \in DOMAIN store /\ written[j] = store[j].seen
          /\ \A j \in DOMAIN store : used[j] - store[j].seen < WriteInterval
        BY <2>3 DEF ServerInv, StoreOK, ThrottleOK, LastSeenIsRecent
    <2>8. \A j \in DOMAIN store : store'[j].seen = store[j].seen
        BY <2>1, <2>5, <2>6
    <2> QED BY <2>1, <2>2, <2>3, <2>6, <2>7, <2>8, DevicesStep
<1> QED BY <1>1, <1>2

\* A right code: a device and a completed request, or the old snapshot again.
LEMMA PairStep ==
    ASSUME ServerInv, NEW p \in Pairings, Live(sessions[p]), now >= sessions[p].until,
           NEW k \in Keys, NEW ok \in BOOLEAN, Pair(p, k, ok), UNCHANGED <<now, restarts>>
    PROVE  ServerInv' /\ Final
<1>1. /\ now \in 0..MaxTime /\ wrong \in [Pairings -> Nat] /\ sessions \in [Pairings -> Session]
      /\ born \in [Keys -> Pairings \cup {None}] /\ used \in [Keys -> 0..MaxTime]
      /\ restarts \in 0..MaxRestarts
      /\ DOMAIN written \subseteq Keys /\ Range(written) \subseteq 0..MaxTime
      /\ store = disk /\ DOMAIN store \subseteq Keys
    BY DEF ServerInv, TypeOK, StoreOK, StoreIsDisk
<1>2. /\ Good(AtCompare(sessions[p]), wrong[p], now)
      /\ \A q \in Pairings : Good(sessions[q], wrong[q], now)
    BY AtCompareGood DEF ServerInv
<1>3. faults' \in 0..MaxFaults
    BY SaveType DEF Pair
<1>4. CASE ok = FALSE
    <2> DEFINE s == AtCompare(sessions[p])
    <2>1. /\ UNCHANGED <<store_vars, now, restarts, born, used>>
          /\ sessions' = [sessions EXCEPT ![p] = s] /\ wrong' = [wrong EXCEPT ![p] = wrong[p]]
        BY <1>1, <1>4 DEF Pair, Commit, store_vars
    <2>2. Good(s, wrong[p], now) /\ wrong[p] \in Nat
        BY <1>1, <1>2
    <2> HIDE DEF s
    <2> QED BY <1>1, <1>3, <2>1, <2>2, OneSession
<1>5. CASE ok = TRUE
    <2> DEFINE s == Consumed(AtCompare(sessions[p]))
               to == With(k, NewRecord)
    <2>1. /\ store' = to /\ disk' = to /\ sessions' = [sessions EXCEPT ![p] = s]
          /\ born' = [born EXCEPT ![k] = p] /\ used' = [used EXCEPT ![k] = now]
          /\ UNCHANGED <<written, wrong>> /\ born[k] = None
        BY <1>5 DEF Pair, Commit
    <2>2. Good(s, wrong[p], now) /\ s.status = "consumed"
        <3>1. EndedAs(AtCompare(sessions[p]), "consumed").status = "consumed"
            BY <1>2 DEF EndedAs, Good, Session
        <3> QED BY <1>1, <1>2, <3>1, GoodEnds DEF Consumed
    <2> HIDE DEF s
    <2>3. /\ sessions'[p] = s /\ DOMAIN sessions' = Pairings
          /\ \A q \in Pairings : q # p => sessions'[q] = sessions[q]
          /\ born'[k] = p /\ \A j \in Keys : j # k => born'[j] = born[j]
          /\ used'[k] = now /\ \A j \in Keys : j # k => used'[j] = used[j]
        BY <1>1, <2>1
    <2>4. /\ sessions' \in [Pairings -> Session] /\ born' \in [Keys -> Pairings \cup {None}]
          /\ used' \in [Keys -> 0..MaxTime]
        BY <1>1, <2>1, <2>2 DEF Good
    <2>5. NewRecord \in Records /\ NewRecord.seen = now
        BY <1>1 DEF NewRecord, Records
    <2> HIDE DEF to
    <2>6. /\ DOMAIN to = DOMAIN store \cup {k} /\ to[k].seen = now
          /\ \A j \in DOMAIN store : j # k => to[j] = store[j]
          /\ DOMAIN to \subseteq Keys /\ Range(to) \subseteq Records
        BY <2>5, WithDevices DEF to
    <2>7. \A q \in Pairings : Good(sessions'[q], wrong'[q], now)
        BY <1>2, <2>1, <2>2, <2>3
    <2>8. TypeOK'
        <3>1. \A q \in Pairings : Live(sessions'[q]) =>
                  (sessions'[q].status = "locked" <=> sessions'[q].failed = MaxFailed)
            BY <2>7 DEF Good
        <3> QED BY <1>1, <1>3, <2>1, <2>4, <2>6, <3>1 DEF TypeOK, Live
    <2>9. Final
        BY <1>1, <2>2, <2>3 DEF Final, Over, Live
    <2>10. OneDevicePerPairing'
        <3>1. \A j \in Keys : born[j] # p
            BY <1>1, PairingAssumption DEF ServerInv, OneDevicePerPairing, Live
        <3>2. \A j \in Keys : born'[j] # None =>
                  sessions'[born'[j]].status \in {"consumed", "gone"}
            BY <1>1, <2>2, <2>3, <3>1 DEF ServerInv, OneDevicePerPairing
        <3>3. \A i, j \in Keys : born'[i] # None /\ born'[i] = born'[j] => i = j
            BY <1>1, <2>3, <3>1 DEF ServerInv, OneDevicePerPairing
        <3> QED BY <3>2, <3>3 DEF OneDevicePerPairing
    <2>11. StoreOK'
        <3>1. /\ \A j \in DOMAIN written : j \in DOMAIN store /\ written[j] = store[j].seen
              /\ \A j \in DOMAIN store : born[j] # None
              /\ \A j \in DOMAIN store : used[j] - store[j].seen < WriteInterval
            BY <1>1 DEF ServerInv, StoreOK, ThrottleOK, LastSeenIsRecent
        <3>2. k \notin DOMAIN store /\ k \notin DOMAIN written
            BY <2>1, <3>1
        <3>3. ThrottleOK'
            BY <1>1, <2>1, <2>3, <2>6, <3>1, <3>2, PairingAssumption DEF ThrottleOK
        <3>4. \A j \in DOMAIN store' : used'[j] - store'[j].seen < WriteInterval
            BY <1>1, <2>1, <2>3, <2>6, <3>1, <3>2, PairingAssumption
        <3> QED BY <2>1, <3>3, <3>4 DEF StoreOK, StoreIsDisk, LastSeenIsRecent
    <2>12. (\A q \in Pairings : Good(sessions[q], wrong[q], now))'
        BY <2>7 DEF Good, Live, Wrongs
    <2> QED BY <2>8, <2>9, <2>10, <2>11, <2>12 DEF ServerInv
<1> QED BY <1>4, <1>5

LEMMA CompleteStep ==
    ASSUME ServerInv, NEW p \in Pairings, Complete(p)
    PROVE  ServerInv' /\ Final
<1>1. Live(sessions[p]) /\ UNCHANGED <<now, restarts>>
    BY DEF Complete
<1>2. CASE /\ sessions' = [sessions EXCEPT ![p] = EndedAs(sessions[p], "expired")]
           /\ UNCHANGED <<store_vars, faults, history>>
    BY <1>1, <1>2, EndedStep
<1>3. CASE UNCHANGED <<sessions, store_vars, faults, history>>
    BY <1>1, <1>3, NothingStep DEF ServerInv, TypeOK
<1>4. CASE now >= sessions[p].until /\ Miss(p)
    BY <1>1, <1>4, MissStep
<1>5. CASE now >= sessions[p].until /\ \E k \in Keys, ok \in BOOLEAN : Pair(p, k, ok)
    BY <1>1, <1>5, PairStep
<1> QED BY <1>2, <1>3, <1>4, <1>5 DEF Complete

LEMMA RestartStep == ASSUME ServerInv, Restart PROVE ServerInv' /\ Final
<1>1. /\ now \in 0..MaxTime /\ wrong \in [Pairings -> Nat] /\ sessions \in [Pairings -> Session]
      /\ store' = store /\ disk' = store /\ store = disk
      /\ UNCHANGED <<now, faults, born, wrong, used>>
      /\ restarts' \in 0..MaxRestarts
    BY PairingAssumption DEF ServerInv, TypeOK, Restart, StoreOK, StoreIsDisk, history
<1>2. DOMAIN written' = {} /\ Range(written') = {}
    BY DEF Restart, Range
<1>3. /\ DOMAIN sessions' = Pairings /\ sessions' = [p \in Pairings |-> sessions'[p]]
      /\ \A p \in Pairings : sessions'[p] = IF sessions[p].status = "new" THEN NoSession
                                            ELSE [sessions[p] EXCEPT !.status = "gone"]
    BY DEF Restart
<1>4. \A p \in Pairings : Good(sessions[p], wrong[p], now)
    BY DEF ServerInv
<1>5. \A p \in Pairings : /\ Good(sessions'[p], wrong[p], now)
                          /\ sessions'[p].status \in {"new", "gone"}
                          /\ sessions[p].status # "new" => sessions'[p].status = "gone"
    <2> TAKE p \in Pairings
    <2>1. CASE sessions[p].status = "new"
        <3>1. sessions'[p] = NoSession /\ wrong[p] = 0 /\ Good(NoSession, 0, now)
            BY <1>1, <1>3, <1>4, <2>1, GoodBegins DEF Good
        <3>2. Good(sessions'[p], wrong[p], now)
            BY <3>1
        <3>3. sessions'[p].status = "new"
            BY <3>1 DEF NoSession
        <3> QED BY <2>1, <3>2, <3>3
    <2>2. CASE sessions[p].status # "new"
        <3> DEFINE s == sessions[p]
                   g == [s EXCEPT !.status = "gone"]
        <3>1. g.status = "gone"
            BY <1>4 DEF Good, Session
        <3>2. Good(g, wrong[p], now)
            BY <1>1, <1>4, GoodEnds
        <3>3. sessions'[p] = g
            BY <1>3, <2>2
        <3> HIDE DEF g
        <3> QED BY <3>1, <3>2, <3>3
    <2> QED BY <2>1, <2>2
<1>6. Final
    BY <1>5 DEF Final, Over
<1>7. TypeOK'
    <2>1. sessions' \in [Pairings -> Session]
        BY <1>3, <1>5 DEF Good
    <2>2. \A p \in Pairings : ~Live(sessions[p])'
        BY <1>5 DEF Live
    <2> QED BY <1>1, <1>2, <2>1, <2>2 DEF ServerInv, TypeOK, Live
<1>8. OneDevicePerPairing'
    BY <1>1, <1>5, PairingAssumption DEF ServerInv, OneDevicePerPairing, TypeOK
<1>9. StoreOK'
    BY <1>1, <1>2 DEF ServerInv, StoreOK, StoreIsDisk, ThrottleOK, LastSeenIsRecent
<1>10. (\A p \in Pairings : Good(sessions[p], wrong[p], now))'
    BY <1>1, <1>5 DEF Good, Live, Wrongs
<1> QED BY <1>6, <1>7, <1>8, <1>9, <1>10 DEF ServerInv

LEMMA TickStep == ASSUME ServerInv, Tick PROVE ServerInv' /\ Final
<1>1. /\ now \in 0..MaxTime /\ now' = now + 1 /\ now' \in 0..MaxTime
      /\ UNCHANGED <<sessions, store, disk, written, faults, restarts, born, wrong, used>>
    BY PairingAssumption DEF ServerInv, TypeOK, Tick, store_vars, history
<1>2. \A p \in Pairings : Good(sessions[p], wrong[p], now + 1)
    BY <1>1, GoodLater DEF ServerInv
<1>3. (\A p \in Pairings : Good(sessions[p], wrong[p], now))'
    BY <1>1, <1>2 DEF Good, Live, Wrongs
<1>4. TypeOK'
    BY <1>1 DEF ServerInv, TypeOK, Live
<1>5. OneDevicePerPairing' /\ StoreOK'
    BY <1>1 DEF ServerInv, OneDevicePerPairing, StoreOK, StoreIsDisk, ThrottleOK, LastSeenIsRecent
<1>6. Final
    BY <1>1 DEF Final
<1> QED BY <1>3, <1>4, <1>5, <1>6 DEF ServerInv

LEMMA ServerNext == ServerInv /\ [Next]_vars => ServerInv' /\ Final
<1> SUFFICES ASSUME ServerInv, [Next]_vars PROVE ServerInv' /\ Final
    OBVIOUS
<1>1. CASE UNCHANGED vars
    BY <1>1, NothingStep DEF vars, ServerInv, TypeOK
<1>2. ASSUME NEW p \in Pairings, Cancel(p)
      PROVE  ServerInv' /\ Final
    BY <1>2, EndedStep DEF Cancel
<1> QED BY <1>1, <1>2, CreateStep, CompleteStep, RequestStep, RevokeStep, RenameStep,
           ListStep, RestartStep, TickStep DEF Next

-----------------------------------------------------------------------------
(* What the Server promises *)

LEMMA ServerInvAlways == Spec => []ServerInv
BY InitServerInv, ServerNext, PTL DEF Spec

\* The state of AuthManager and DeviceStore is what its declarations say, and a
\* request is locked exactly while it has used up its attempts.
THEOREM ServerTypes == Spec => []TypeOK
<1>1. ServerInv => TypeOK
    BY DEF ServerInv
<1> QED BY <1>1, ServerInvAlways, PTL

\* A save that fails leaves neither a device that vanishes at the next start nor
\* one that comes back (DeviceStore._commit).
THEOREM MemoryIsFile == Spec => []StoreIsDisk
<1>1. ServerInv => StoreIsDisk
    BY DEF ServerInv, StoreOK
<1> QED BY <1>1, ServerInvAlways, PTL

\* Throttled or not, saved or not: the last_seen on disk is less than
\* WriteInterval older than the device's last request (DeviceStore.touch).
THEOREM SeenIsRecent == Spec => []LastSeenIsRecent
<1>1. ServerInv => LastSeenIsRecent
    BY DEF ServerInv, StoreOK
<1> QED BY <1>1, ServerInvAlways, PTL

\* A request that ended stays ended until it is dropped, and a dropped one never
\* comes back (complete_pairing, cancel_pairing, list_pairings).
THEOREM EndedStaysEnded == Spec => EndIsFinal
<1>1. ServerInv /\ [Next]_vars => [Final]_vars
    BY ServerNext
<1>2. [Final]_vars =>
        [\A p \in Pairings :
            /\ Over(sessions[p]) => sessions'[p].status \in {sessions[p].status, "gone"}
            /\ sessions[p].status = "gone" => sessions'[p].status = "gone"]_vars
    BY DEF Final
<1> QED BY <1>1, <1>2, ServerInvAlways, PTL DEF Spec, EndIsFinal

LEMMA GuessesAreBounded == ServerInv => GuessesBounded
<1> SUFFICES ASSUME ServerInv, NEW p \in Pairings, Live(sessions[p])
             PROVE  wrong[p] <= MaxFailed * (1 + (now - (sessions[p].ends - Ttl)) \div LockFor)
    BY DEF GuessesBounded
<1> DEFINE s == sessions[p]
           age == now - (s.ends - Ttl)
<1>1. /\ Good(s, wrong[p], now) /\ s \in Session /\ s.ends - Ttl \in 0..now /\ wrong[p] \in Nat
      /\ now \in Nat /\ MaxFailed \in Nat \ {0} /\ LockFor \in Nat \ {0}
    BY PairingAssumption DEF ServerInv, TypeOK, Good
<1>2. age \in Nat
    BY <1>1
<1>3. Wrongs(age) \in Nat /\ Wrongs(age + LockFor) = Wrongs(age) + MaxFailed
    BY <1>2, WrongsGrow
<1>4. wrong[p] <= Wrongs(age) + MaxFailed
    <2>1. CASE s.status = "pending"
        BY <1>1, <1>3, <2>1 DEF Good, Session
    <2>2. CASE s.status = "locked"
        <3>1. /\ s.until - (s.ends - Ttl) \in Nat /\ s.until - (s.ends - Ttl) <= age + LockFor
              /\ age + LockFor \in Nat /\ wrong[p] <= Wrongs(s.until - (s.ends - Ttl))
            BY <1>1, <2>2, PairingAssumption DEF Good, Session
        <3>2. /\ Wrongs(s.until - (s.ends - Ttl)) <= Wrongs(age + LockFor)
              /\ Wrongs(s.until - (s.ends - Ttl)) \in Nat
            BY <3>1, WrongsGrow
        <3> QED BY <1>1, <1>3, <3>1, <3>2
    <2> QED BY <2>1, <2>2 DEF Live
<1>5. /\ age \div LockFor \in Nat
      /\ \A m, q \in Nat : m * (1 + q) = m * q + m
    BY <1>1, <1>2, SMT
<1>6. MaxFailed * (1 + age \div LockFor) = Wrongs(age) + MaxFailed
    BY <1>1, <1>5 DEF Wrongs
<1> QED BY <1>4, <1>6

-----------------------------------------------------------------------------
(* The phone's invariant *)

Flow == [pc : {"idle", "identity", "actions", "resolve", "create", "cancel"},
         kind : {"none", "test", "restore", "control"}, op : Nat,
         key : Keys \cup Pairings \cup {None}]
Job == [pc : {"idle", "sent", "served"}, pairing : Pairings \cup {None},
        op : Nat, page : Nat, key : Keys \cup {None}]

PhoneTypes ==
    /\ {saved, flash} \subseteq Keys \cup {None}
    /\ operation \in Nat /\ page \in 0..MaxPages /\ mishaps \in Nat
    /\ pending \in {None} \cup [op : Nat, pairing : Pairings]
    /\ front \in Flows \cup {None}
    /\ flow \in [Flows -> Flow] /\ job \in [Flows -> Job]
    /\ dialog \in [Flows -> {"none", "open", "submitting"}]
    /\ ui \in {"main", "control", "error"}

\* A coroutine that connects has no dialog yet, and a completion that this page
\* started still has its dialog.
FlowsOK ==
    \A f \in Flows :
        /\ flow[f].pc # "idle" =>
               dialog[f] = "none" /\ (job[f].pc # "idle" => job[f].page # page)
        /\ flow[f].pc = "create" => flow[f].kind = "test"
        /\ flow[f].pc = "cancel" => flow[f].key \in Pairings
        /\ job[f].pc # "idle" =>
               /\ job[f].page <= page
               /\ job[f].page = page => dialog[f] = "submitting"

\* One attempt at a time is wanted: a test of the current operation has no rival,
\* and none is left once a dialog is open.
OneAttempt ==
    /\ \A f \in Flows : flow[f].kind = "test" => flow[f].op <= operation
    /\ \A f, g \in Flows :
          /\ dialog[f] # "none" /\ dialog[g] # "none" => f = g
          /\ dialog[f] # "none" => ~(flow[g].kind = "test" /\ flow[g].op = operation)
          /\ /\ flow[f].kind = "test" /\ flow[f].op = operation
             /\ flow[g].kind = "test" /\ flow[g].op = operation
             => f = g

\* A request the phone waits for, or has sent a code for, was created; so a new
\* one is none of them.
RequestsOK ==
    /\ pending # None => sessions[pending.pairing].status # "new"
    /\ \A f \in Flows : job[f].pc # "idle" =>
          job[f].pairing \in Pairings /\ sessions[job[f].pairing].status # "new"

\* The dialog in front is there and waits for the request it can complete, and
\* nobody else's completion is for that request.
FrontOK ==
    front # None =>
        /\ dialog[front] # "none" /\ pending # None /\ pending.op = operation
        /\ \A f \in Flows :
              job[f].pc # "idle" /\ job[f].pairing = pending.pairing => f = front
        /\ job[front].pc # "idle" /\ job[front].page = page =>
              job[front].op = operation /\ job[front].pairing = pending.pairing

\* While nothing went wrong: an attempt to pair begins without a usable session
\* and stays without one until its answer is saved.
Calm == mishaps = 0 /\ page = 0 /\ faults = 0

CalmOK ==
    Calm =>
        /\ saved # None => born[saved] # None
        /\ \A f \in Flows :
              /\ job[f].key # None => born[job[f].key] # None
              /\ dialog[f] # "none" => front = f /\ saved \notin DOMAIN store
              /\ flow[f].pc = "create" /\ flow[f].op = operation => saved \notin DOMAIN store

PhoneInv == PhoneTypes /\ FlowsOK /\ OneAttempt /\ RequestsOK /\ FrontOK /\ CalmOK

\* What NoGhost and PairedIsSaved say of a step.
GhostStep ==
    mishaps' = 0 /\ page' = 0 /\ faults' = 0 /\ ~RemovesValid => Ghosts' \subseteq Ghosts
PairedStep ==
    \A f \in Flows :
        dialog[f] = "submitting" /\ dialog'[f] = "none" /\ ui' = "control" =>
            saved' = job[f].key /\ flash' = job[f].key

-----------------------------------------------------------------------------
(* What the phone needs of the Server's steps *)

\* No identifier is drawn twice, no key is issued twice, failed saves add up.
LEMMA ServerMonotone ==
    ASSUME ServerInv, [Next]_vars
    PROVE  /\ \A p \in Pairings : sessions[p].status # "new" => sessions'[p].status # "new"
           /\ \A k \in Keys : born[k] # None => born'[k] # None
           /\ faults \in Nat /\ faults' \in Nat /\ faults <= faults'
<1>1. /\ sessions \in [Pairings -> Session] /\ born \in [Keys -> Pairings \cup {None}]
      /\ faults \in 0..MaxFaults /\ now \in 0..MaxTime
      /\ \A p \in Pairings : Good(sessions[p], wrong[p], now)
    BY DEF ServerInv, TypeOK
<1>2. faults \in Nat /\ faults' \in Nat /\ faults <= faults'
    <2>1. ServerInv'
        BY ServerNext
    <2>2. faults' = faults \/ faults' = faults + 1
        BY <1>1 DEF Next, vars, Create, Cancel, Complete, Pair, Miss, Request, Revoke, Rename,
           List, Restart, Tick, SaveEnds
    <2> QED BY <1>1, <2>1, <2>2, PairingAssumption DEF ServerInv, TypeOK
<1>3. \A k \in Keys : born[k] # None => born'[k] # None
    <2>1. \/ UNCHANGED born
          \/ \E p \in Pairings, k \in Keys : born' = [born EXCEPT ![k] = p]
        BY DEF Next, vars, Create, Cancel, Complete, Pair, Miss, Request, Revoke, Rename,
           List, Restart, Tick, history
    <2> QED BY <1>1, <2>1, PairingAssumption
<1>4. ASSUME NEW p \in Pairings, sessions[p].status # "new"
      PROVE  sessions'[p].status # "new"
    <2>1. /\ ~Live(sessions[p]) => Over(sessions[p]) \/ sessions[p].status = "gone"
          /\ Good(sessions[p], wrong[p], now)
        BY <1>1, <1>4 DEF Live, Over, Session
    <2>2. CASE ~Live(sessions[p])
        BY <2>1, <2>2, ServerNext DEF Final, Over
    <2>3. CASE Live(sessions[p])
        <3>1. CASE List
            <4>1. Relisted(sessions[p]).status # "new"
                <5>1. CASE now >= sessions[p].ends
                    BY <1>1, <2>3, <5>1 DEF Relisted, EndedAs, Session
                <5>2. CASE ~(now >= sessions[p].ends) /\ sessions[p].status = "locked" /\ now >= sessions[p].until
                    BY <1>1, <2>1, <5>2, GoodUnlocked DEF Relisted
                <5>3. CASE /\ ~(now >= sessions[p].ends)
                           /\ ~(sessions[p].status = "locked" /\ now >= sessions[p].until)
                    BY <1>4, <2>3, <5>3 DEF Relisted, Live, Over
                <5> QED BY <5>1, <5>2, <5>3
            <4> QED BY <3>1, <4>1 DEF List
        <3>2. CASE Restart
            BY <1>1, <1>4, <3>2 DEF Restart, Session
        <3>3. ASSUME NEW q \in Pairings, Create(q) \/ Cancel(q) \/ Complete(q)
              PROVE  sessions'[p].status # "new"
            <4>1. CASE q # p
                BY <1>1, <1>4, <3>3, <4>1 DEF Create, Cancel, Complete, Miss, Pair
            <4>2. ASSUME NEW r, Good(r, wrong[p], now), r.status = "pending"
                  PROVE  Failed(r).status # "new" /\ Consumed(r).status # "new"
                <5>1. Consumed(r).status = "consumed"
                    BY <4>2 DEF Consumed, EndedAs, Good, Session
                <5>2. Failed(r).status = IF r.failed + 1 >= MaxFailed THEN "locked" ELSE "pending"
                    BY <4>2 DEF Failed, Good, Session
                <5> QED BY <5>1, <5>2
            <4>3. \A status \in {"cancelled", "expired"} : EndedAs(sessions[p], status).status = status
                BY <1>1 DEF EndedAs, Session
            <4>4. CASE q = p
                <5>1. CASE Create(p)
                    BY <1>4, <5>1 DEF Create
                <5>2. CASE Cancel(p)
                    BY <1>1, <4>3, <5>2 DEF Cancel
                <5>3. CASE Complete(p)
                    <6>1. CASE sessions' = [sessions EXCEPT ![p] = EndedAs(sessions[p], "expired")]
                        BY <1>1, <4>3, <6>1
                    <6>2. CASE UNCHANGED sessions
                        BY <1>4, <6>2
                    <6>3. CASE now >= sessions[p].until /\ Miss(p)
                        BY <1>1, <2>3, <4>2, <6>3, AtCompareGood DEF Miss
                    <6>4. CASE now >= sessions[p].until /\ \E k \in Keys, ok \in BOOLEAN : Pair(p, k, ok)
                        <7>1. /\ AtCompare(sessions[p]).status # "new"
                              /\ Consumed(AtCompare(sessions[p])).status # "new"
                            BY <2>3, <4>2, <6>4, AtCompareGood
                        <7> QED BY <1>1, <6>4, <7>1 DEF Pair
                    <6> QED BY <5>3, <6>1, <6>2, <6>3, <6>4 DEF Complete
                <5> QED BY <3>3, <4>4, <5>1, <5>2, <5>3
            <4> QED BY <4>1, <4>4
        <3>4. CASE UNCHANGED sessions
            BY <1>4, <3>4
        <3> QED BY <3>1, <3>2, <3>3, <3>4 DEF Next, vars, Request, Revoke, Rename, Tick
    <2> QED BY <2>2, <2>3
<1> QED BY <1>2, <1>3, <1>4

\* Every step of the composition is a step of the Server or leaves it alone.
LEMMA ServerStep ==
    ASSUME ServerInv, PhoneTypes, FlowsOK, RequestsOK, [PhoneNext]_all_vars
    PROVE  [Next]_vars
<1> USE DEF server_vars, vars
<1>1. DOMAIN store \subseteq Keys
    BY DEF ServerInv, TypeOK
<1>2. CASE UNCHANGED all_vars
    BY <1>2 DEF all_vars
<1>3. CASE SelfRevoke
    <2>1. saved \in Keys /\ Revoke(saved, TRUE)
        BY <1>1, <1>3 DEF SelfRevoke, Revoke
    <2> QED BY <2>1 DEF Next
<1>4. CASE RevokedElsewhere
    BY <1>4 DEF RevokedElsewhere, Next
<1>5. CASE ServerRestarts \/ ServerActs
    BY <1>5 DEF ServerRestarts, ServerActs, Next
<1>6. CASE Return \/ Stop
    BY <1>6 DEF Return, Stop
<1>7. ASSUME NEW f \in Flows, Actions(f)
      PROVE  Next \/ UNCHANGED vars
    <2>1. \/ UNCHANGED server_vars
          \/ \E ok \in BOOLEAN : Request(flow[f].key, ok)
        BY <1>7, Zenon DEF Actions
    <2>2. Request(flow[f].key, TRUE) \/ Request(flow[f].key, FALSE) => flow[f].key \in Keys
        BY <1>1 DEF Request
    <2> QED BY <2>1, <2>2 DEF Next
<1>8. ASSUME NEW f \in Flows, CreatePairing(f)
      PROVE  Next \/ UNCHANGED vars
    BY <1>8 DEF CreatePairing, Next
<1>9. ASSUME NEW f \in Flows, CancelPairing(f)
      PROVE  Next \/ UNCHANGED vars
    <2>1. flow[f].key \in Pairings
        BY <1>9 DEF CancelPairing, FlowsOK
    <2> QED BY <1>9, <2>1 DEF CancelPairing, Next
<1>10. ASSUME NEW f \in Flows, Serve(f)
       PROVE  Next \/ UNCHANGED vars
    <2>1. job[f].pairing \in Pairings
        BY <1>10 DEF Serve, RequestsOK
    <2> QED BY <1>10, <2>1 DEF Serve, Next
<1>11. ASSUME NEW f \in Flows, Identity(f) \/ Resolve(f) \/ Submit(f) \/ Answer(f) \/ Fails(f)
                               \/ TimesOut(f) \/ Close(f) \/ Test(f) \/ Refused(f)
       PROVE  UNCHANGED vars
    BY <1>11, Zenon DEF Test, Refused, Identity, Resolve, Submit, Answer, Fails, TimesOut, Close
<1>12. ASSUME NEW f \in Flows, Recreate(f) \/ Death(f)
       PROVE  UNCHANGED vars
    BY <1>12 DEF Recreate, Death, NewPage
<1> QED BY <1>2, <1>3, <1>4, <1>5, <1>6, <1>7, <1>8, <1>9, <1>10, <1>11, <1>12 DEF PhoneNext

-----------------------------------------------------------------------------
(* The phone's steps *)

LEMMA InitPhoneInv == PhoneInit => PhoneInv
<1> SUFFICES ASSUME PhoneInit PROVE PhoneInv
    OBVIOUS
<1>1. Idle \in Flow /\ NoJob \in Job
    BY DEF Idle, NoJob, Flow, Job
<1>2. PhoneTypes
    BY <1>1, PhoneAssumption DEF PhoneInit, PhoneTypes
<1>3. FlowsOK /\ OneAttempt /\ RequestsOK /\ FrontOK /\ CalmOK
    BY DEF PhoneInit, FlowsOK, OneAttempt, RequestsOK, FrontOK, CalmOK, Idle, NoJob, Init
<1> QED BY <1>2, <1>3 DEF PhoneInv

\* A coroutine goes on or ends, others are cancelled; the page, the dialogs and
\* the completions stay.
LEMMA FlowsMove ==
    ASSUME ServerInv, PhoneInv, [Next]_vars, DOMAIN store' \subseteq DOMAIN store,
           UNCHANGED <<operation, pending, dialog, front, job, page>>,
           mishaps' \in Nat, mishaps <= mishaps',
           {saved', flash'} \subseteq Keys \cup {None}, mishaps' = 0 => saved' \in {saved, None},
           ui' \in {"main", "control", "error"}, flow' \in [Flows -> Flow],
           \A g \in Flows :
               \/ flow'[g] = flow[g] \/ flow'[g] = Idle
               \/ /\ flow[g].pc # "idle"
                  /\ flow'[g].kind = flow[g].kind /\ flow'[g].op = flow[g].op
                  /\ flow'[g].pc = "cancel" => flow'[g].key \in Pairings
                  /\ flow'[g].pc = "create" =>
                         flow[g].kind = "test" /\ (Calm' => saved' \notin DOMAIN store')
               \/ /\ dialog[g] = "none" /\ job[g].pc = "idle"
                  /\ flow'[g].kind = "control" /\ flow'[g].pc = "resolve"
    PROVE  PhoneInv' /\ GhostStep /\ PairedStep
<1> USE DEF PhoneInv
<1>1. Idle.kind = "none" /\ Idle.pc = "idle"
    BY DEF Idle
<1>2. /\ \A p \in Pairings : sessions[p].status # "new" => sessions'[p].status # "new"
      /\ \A k \in Keys : born[k] # None => born'[k] # None
      /\ Calm' => Calm
    BY ServerMonotone DEF Calm, PhoneTypes
<1>3. PhoneTypes'
    BY DEF PhoneTypes
<1>4. FlowsOK'
    BY <1>1 DEF FlowsOK
<1>5. OneAttempt'
    BY <1>1 DEF OneAttempt
<1>6. RequestsOK'
    BY <1>2 DEF RequestsOK, PhoneTypes
<1>7. FrontOK'
    BY DEF FrontOK
<1>8. saved' \in {saved, None} /\ saved \notin DOMAIN store => saved' \notin DOMAIN store'
    BY PairingAssumption DEF ServerInv, TypeOK
<1>9. CalmOK'
    <2> SUFFICES ASSUME Calm' PROVE CalmOK'
        BY DEF CalmOK
    <2>1. Calm /\ saved' \in {saved, None}
        BY <1>2 DEF Calm
    <2>2. saved' # None => born'[saved'] # None
        BY <1>2, <2>1 DEF CalmOK, PhoneTypes
    <2>3. \A f \in Flows : job'[f].key # None => born'[job'[f].key] # None
        BY <1>2, <2>1 DEF CalmOK, PhoneTypes, Job
    <2>4. \A f \in Flows : dialog'[f] # "none" => front' = f /\ saved' \notin DOMAIN store'
        BY <1>8, <2>1 DEF CalmOK
    <2>5. \A f \in Flows : flow'[f].pc = "create" /\ flow'[f].op = operation' =>
             saved' \notin DOMAIN store'
        BY <1>1, <1>8, <2>1 DEF CalmOK
    <2> QED BY <2>2, <2>3, <2>4, <2>5 DEF CalmOK
<1>10. GhostStep
    BY DEF GhostStep, RemovesValid, Ghosts
<1>11. PairedStep
    BY DEF PairedStep
<1> QED BY <1>3, <1>4, <1>5, <1>6, <1>7, <1>9, <1>10, <1>11

\* What a step makes of one coroutine.
LEMMA FlowSet ==
    ASSUME PhoneTypes, NEW f \in Flows, NEW pc, At(f, pc),
           pc \in {"idle", "identity", "actions", "resolve", "create", "cancel"}
    PROVE  /\ flow' \in [Flows -> Flow] /\ \A g \in Flows : g # f => flow'[g] = flow[g]
           /\ flow'[f].pc = pc /\ flow'[f].kind = flow[f].kind /\ flow'[f].op = flow[f].op
           /\ flow'[f].key = flow[f].key
BY DEF PhoneTypes, Flow, At

LEMMA FlowEnds ==
    ASSUME PhoneTypes, NEW f \in Flows, Ends(f)
    PROVE  /\ flow' \in [Flows -> Flow] /\ \A g \in Flows : g # f => flow'[g] = flow[g]
           /\ flow'[f] = Idle
<1>1. Idle \in Flow
    BY DEF Idle, Flow
<1> QED BY <1>1 DEF PhoneTypes, Ends

LEMMA ReturnStep ==
    ASSUME ServerInv, PhoneInv, [Next]_vars, Return
    PROVE  PhoneInv' /\ GhostStep /\ PairedStep
<1>1. UNCHANGED <<store, saved, flash, operation, pending, dialog, front, job, page, mishaps>>
      /\ ui' = "main"
    BY DEF Return, server_vars, store_vars
<1>2. Idle \in Flow
    BY DEF Idle, Flow
<1>3. flow' \in [Flows -> Flow] /\ \A g \in Flows : flow'[g] = flow[g] \/ flow'[g] = Idle
    BY <1>2 DEF Return, PhoneInv, PhoneTypes
<1> QED BY <1>1, <1>3, FlowsMove DEF PhoneInv, PhoneTypes

\* Steps of the Server that the phone does not notice.
LEMMA ServerActsStep ==
    ASSUME ServerInv, PhoneInv, [Next]_vars, RevokedElsewhere \/ ServerRestarts \/ ServerActs
    PROVE  PhoneInv' /\ GhostStep /\ PairedStep
<1>1. UNCHANGED <<saved, flash, operation, pending, flow, dialog, front, job, ui, page, mishaps>>
    BY DEF RevokedElsewhere, ServerRestarts, ServerActs, phone_vars
<1>2. DOMAIN store' \subseteq DOMAIN store
    <2>1. CASE RevokedElsewhere
        <3>1. PICK k \in Keys : Revoke(k, TRUE)
            BY <2>1 DEF RevokedElsewhere
        <3> QED BY <3>1, WithoutDevices DEF Revoke, Commit
    <2>2. store = disk
        BY DEF ServerInv, StoreOK, StoreIsDisk
    <2>3. CASE ServerRestarts
        BY <2>2, <2>3 DEF ServerRestarts, Restart
    <2>4. CASE ServerActs
        BY <2>4 DEF ServerActs, List, Tick, store_vars
    <2> QED BY <2>1, <2>3, <2>4
<1> QED BY <1>1, <1>2, FlowsMove DEF PhoneInv, PhoneTypes

LEMMA SelfRevokeStep ==
    ASSUME ServerInv, PhoneInv, [Next]_vars, SelfRevoke
    PROVE  PhoneInv' /\ GhostStep /\ PairedStep
<1>1. UNCHANGED <<operation, pending, flow, dialog, front, job, page>>
    BY DEF SelfRevoke
<1>2. DOMAIN store' \subseteq DOMAIN store
    BY WithoutDevices DEF SelfRevoke, Revoke, Commit
<1>3. /\ mishaps' \in Nat /\ mishaps <= mishaps'
      /\ mishaps' = 0 => saved' \in {saved, None}
      /\ {saved', flash'} \subseteq Keys \cup {None} /\ ui' \in {"main", "control", "error"}
    BY DEF SelfRevoke, PhoneInv, PhoneTypes, Unsaved, Saved, SaveFailed, Fine, Mishap
<1> QED BY <1>1, <1>2, <1>3, FlowsMove DEF PhoneInv, PhoneTypes

LEMMA IdentityStep ==
    ASSUME ServerInv, PhoneInv, [Next]_vars, NEW f \in Flows, Identity(f)
    PROVE  PhoneInv' /\ GhostStep /\ PairedStep
<1> USE DEF PhoneInv
<1>1. /\ UNCHANGED <<store, saved, flash, operation, pending, dialog, front, job, ui, page>>
      /\ mishaps' \in Nat /\ mishaps <= mishaps' /\ flow[f].pc = "identity"
    BY DEF Identity, server_vars, store_vars, Mishap, Fine, PhoneTypes
<1>2. CASE Ends(f)
    BY <1>1, <1>2, FlowEnds, FlowsMove DEF PhoneTypes
<1>3. CASE Usable /\ flow' = [flow EXCEPT ![f].pc = "actions", ![f].key = saved]
    <2>1. /\ flow' \in [Flows -> Flow] /\ \A g \in Flows : g # f => flow'[g] = flow[g]
          /\ flow'[f].pc = "actions" /\ flow'[f].kind = flow[f].kind /\ flow'[f].op = flow[f].op
        BY <1>3 DEF PhoneTypes, Flow
    <2> QED BY <1>1, <2>1, FlowsMove DEF PhoneTypes
<1>4. CASE ~Usable /\ flow[f].kind = "test" /\ At(f, "create")
    <2>1. saved' \notin DOMAIN store'
        BY <1>1, <1>4, PairingAssumption DEF Usable, ServerInv, TypeOK
    <2> QED BY <1>1, <1>4, <2>1, FlowSet, FlowsMove DEF PhoneTypes
<1> QED BY <1>2, <1>3, <1>4 DEF Identity

LEMMA ActionsStep ==
    ASSUME ServerInv, PhoneInv, [Next]_vars, NEW f \in Flows, Actions(f)
    PROVE  PhoneInv' /\ GhostStep /\ PairedStep
<1> USE DEF PhoneInv
<1>1. UNCHANGED <<operation, pending, dialog, front, job, page>> /\ flow[f].pc = "actions"
    BY DEF Actions
<1>2. ASSUME NEW ok \in BOOLEAN, Request(flow[f].key, ok)
      PROVE  DOMAIN store' \subseteq DOMAIN store
    BY <1>2 DEF Request, Commit, With, store_vars
<1>3. CASE /\ NotTried(f)
           /\ \/ /\ Mishap("request") \/ Mishap("answer")
                 /\ UNCHANGED <<server_vars, saved, flash, ui>>
              \/ /\ Request(flow[f].key, FALSE) /\ Fine
                 /\ UNCHANGED <<saved, flash, ui>>
    <2>1. mishaps' \in Nat /\ mishaps <= mishaps' /\ UNCHANGED <<saved, flash, ui>>
        <3>1. mishaps \in Nat
            BY DEF PhoneTypes
        <3>2. Mishap("request") \/ Mishap("answer") \/ Fine
            BY <1>3
        <3>3. mishaps' = mishaps \/ mishaps' = mishaps + 1
            BY <3>2 DEF Mishap, Fine
        <3>4. UNCHANGED <<saved, flash, ui>>
            BY <1>3
        <3> QED BY <3>1, <3>3, <3>4
    <2>2. DOMAIN store' \subseteq DOMAIN store
        BY <1>2, <1>3 DEF server_vars, store_vars
    <2>3. ~Calm'
        <3>1. CASE Mishap("request") \/ Mishap("answer")
            <4>1. mishaps \in Nat /\ mishaps' = mishaps + 1
                BY <3>1 DEF PhoneTypes, Mishap
            <4> QED BY <4>1 DEF Calm
        <3>2. CASE Request(flow[f].key, FALSE)
            <4>1. faults' = faults + 1 /\ faults \in Nat
                BY <3>2, ServerMonotone DEF Request, SaveEnds
            <4> QED BY <4>1 DEF Calm
        <3> QED BY <1>3, <3>1, <3>2
    <2>4. CASE Ends(f)
        BY <1>1, <2>1, <2>2, <2>4, FlowEnds, FlowsMove DEF PhoneTypes
    <2>5. CASE flow[f].kind = "test" /\ At(f, "create")
        BY <1>1, <2>1, <2>2, <2>3, <2>5, FlowSet, FlowsMove DEF PhoneTypes
    <2> QED BY <1>3, <2>4, <2>5 DEF NotTried
<1>4. CASE /\ Request(flow[f].key, TRUE) /\ Ends(f)
           /\ IF StillWanted(f)
              THEN /\ ui' = "control"
                   /\ IF saved = None THEN Unsaved /\ Fine
                      ELSE Saved(saved) \/ SaveFailed(saved)
              ELSE UNCHANGED ui /\ Unsaved /\ Fine
    <2>1. /\ mishaps' \in Nat /\ mishaps <= mishaps' /\ saved' = saved
          /\ {saved', flash'} \subseteq Keys \cup {None} /\ ui' \in {"main", "control", "error"}
        BY <1>4 DEF Unsaved, Saved, SaveFailed, PhoneTypes, Mishap, Fine
    <2> QED BY <1>1, <1>2, <1>4, <2>1, FlowEnds, FlowsMove
<1>5. CASE /\ Fine /\ UNCHANGED <<server_vars, saved, flash, ui>>
           /\ At(f, "resolve") \/ Ends(f)
    <2>1. UNCHANGED store /\ mishaps' \in Nat /\ mishaps <= mishaps'
        BY <1>5 DEF server_vars, store_vars, Fine, PhoneTypes
    <2>2. CASE Ends(f)
        BY <1>1, <1>5, <2>1, <2>2, FlowEnds, FlowsMove DEF PhoneTypes
    <2>3. CASE At(f, "resolve")
        BY <1>1, <1>5, <2>1, <2>3, FlowSet, FlowsMove DEF PhoneTypes
    <2> QED BY <1>5, <2>2, <2>3
<1> QED BY <1>3, <1>4, <1>5 DEF Actions

LEMMA ResolveStep ==
    ASSUME ServerInv, PhoneInv, [Next]_vars, NEW f \in Flows, Resolve(f)
    PROVE  PhoneInv' /\ GhostStep /\ PairedStep
<1> USE DEF PhoneInv
<1>1. /\ UNCHANGED <<store, operation, pending, dialog, front, job, page>>
      /\ flow[f].pc = "resolve"
    BY DEF Resolve, server_vars, store_vars
<1>2. saved \in Keys \cup {None} /\ flash \in Keys \cup {None} /\ mishaps \in Nat
      /\ ui \in {"main", "control", "error"}
    BY DEF PhoneTypes
<1>3. /\ mishaps' = mishaps \/ mishaps' = mishaps + 1
      /\ saved' \in {saved, None} /\ flash' \in {flash, None}
      /\ ui' \in {ui, "error"}
    BY DEF Resolve, Confirmed, Unconfirmed, Mishap, Fine, Unsaved, Saved, SaveFailed
<1>4. CASE Ends(f)
    BY <1>1, <1>2, <1>3, <1>4, FlowEnds, FlowsMove
<1>5. CASE flow[f].kind = "test" /\ At(f, "create") /\ saved' = None
    <2>1. saved' \notin DOMAIN store'
        BY <1>1, <1>5, PairingAssumption DEF ServerInv, TypeOK
    <2> QED BY <1>1, <1>2, <1>3, <1>5, <2>1, FlowSet, FlowsMove
<1> QED BY <1>4, <1>5 DEF Resolve, Confirmed, Unconfirmed, Unsaved, Saved

LEMMA CancelPairingStep ==
    ASSUME ServerInv, PhoneInv, [Next]_vars, NEW f \in Flows, CancelPairing(f)
    PROVE  PhoneInv' /\ GhostStep /\ PairedStep
<1> USE DEF PhoneInv
<1>1. /\ UNCHANGED <<store, saved, flash, operation, pending, dialog, front, job, ui, page>>
      /\ Ends(f)
    BY DEF CancelPairing, Cancel, server_vars, store_vars
<1>2. mishaps \in Nat
    BY DEF PhoneTypes
<1>3. mishaps' = mishaps \/ mishaps' = mishaps + 1
    BY DEF CancelPairing, Mishap, Fine
<1> QED BY <1>1, <1>2, <1>3, FlowEnds, FlowsMove DEF PhoneTypes

\* The request is created and still wanted: its dialog opens.
LEMMA DialogOpens ==
    ASSUME ServerInv, PhoneInv, [Next]_vars, NEW f \in Flows, flow[f].pc = "create",
           NEW p \in Pairings, Create(p), Fine, StillWanted(f),
           pending' = [op |-> flow[f].op, pairing |-> p],
           dialog' = [dialog EXCEPT ![f] = "open"], front' = f, Ends(f),
           UNCHANGED <<saved, flash, operation, job, ui, page>>
    PROVE  PhoneInv' /\ GhostStep /\ PairedStep
<1> USE DEF PhoneInv
<1>1. /\ flow' \in [Flows -> Flow] /\ \A g \in Flows : g # f => flow'[g] = flow[g]
      /\ flow'[f] = Idle /\ Idle.kind = "none" /\ Idle.pc = "idle"
    BY FlowEnds DEF Idle
<1>2. /\ dialog' \in [Flows -> {"none", "open", "submitting"}] /\ dialog'[f] = "open"
      /\ \A g \in Flows : g # f => dialog'[g] = dialog[g]
    BY DEF PhoneTypes
<1>3. /\ flow[f].kind = "test" /\ flow[f].op = operation /\ flow[f].op \in Nat
      /\ dialog[f] = "none" /\ (job[f].pc # "idle" => job[f].page # page)
    BY DEF FlowsOK, StillWanted, PhoneTypes, Flow
<1>4. /\ pending' \in [op : Nat, pairing : Pairings] /\ pending' # None
      /\ pending'.op = operation /\ pending'.pairing = p
    BY <1>3, PhoneAssumption
<1>5. /\ sessions[p].status = "new" /\ sessions'[p].status # "new" /\ UNCHANGED <<store, mishaps>>
    <2>1. sessions' = [sessions EXCEPT ![p] = [NoSession EXCEPT !.status = "pending", !.ends = now + Ttl]]
        BY DEF Create
    <2>2. [NoSession EXCEPT !.status = "pending", !.ends = now + Ttl].status = "pending"
        BY DEF NoSession
    <2>3. sessions \in [Pairings -> Session]
        BY DEF ServerInv, TypeOK
    <2>4. sessions'[p].status = "pending"
        BY <2>1, <2>2, <2>3
    <2> QED BY <2>4 DEF Create, Fine, store_vars
<1>6. /\ \A q \in Pairings : sessions[q].status # "new" => sessions'[q].status # "new"
      /\ \A k \in Keys : born[k] # None => born'[k] # None
      /\ Calm' => Calm
    BY <1>5, ServerMonotone DEF Calm
<1>7. PhoneTypes'
    BY <1>1, <1>2, <1>4, <1>5 DEF PhoneTypes
<1>8. FlowsOK'
    BY <1>1, <1>2, <1>3 DEF FlowsOK
<1>9. \A g \in Flows : dialog[g] = "none"
    BY <1>3 DEF OneAttempt, PhoneTypes
<1>10. OneAttempt'
    BY <1>1, <1>2, <1>3, <1>9 DEF OneAttempt
<1>11. RequestsOK'
    BY <1>4, <1>5, <1>6 DEF RequestsOK
<1>12. FrontOK'
    BY <1>2, <1>3, <1>4, <1>5 DEF FrontOK, RequestsOK
<1>13. CalmOK'
    <2> SUFFICES ASSUME Calm' PROVE CalmOK'
        BY DEF CalmOK
    <2>1. Calm /\ saved \notin DOMAIN store
        BY <1>3, <1>6 DEF CalmOK
    <2>2. \A g \in Flows : job[g].key \in Keys \cup {None}
        BY DEF PhoneTypes, Job
    <2>3. saved # None => born'[saved] # None
        BY <1>6, <2>1 DEF CalmOK, PhoneTypes
    <2>4. \A g \in Flows : job[g].key # None => born'[job[g].key] # None
        BY <1>6, <2>1, <2>2 DEF CalmOK
    <2>5. \A g \in Flows : dialog'[g] # "none" => front' = g
        BY <1>2, <1>9
    <2> QED BY <1>5, <2>1, <2>3, <2>4, <2>5 DEF CalmOK
<1>14. GhostStep
    BY <1>5 DEF GhostStep, Ghosts
<1>15. PairedStep
    BY <1>2 DEF PairedStep
<1> QED BY <1>7, <1>8, <1>10, <1>11, <1>12, <1>13, <1>14, <1>15

LEMMA CreatePairingStep ==
    ASSUME ServerInv, PhoneInv, [Next]_vars, NEW f \in Flows, CreatePairing(f)
    PROVE  PhoneInv' /\ GhostStep /\ PairedStep
<1> USE DEF PhoneInv
<1>1. UNCHANGED <<saved, flash, operation, job, ui, page>> /\ flow[f].pc = "create"
    BY DEF CreatePairing
<1>2. mishaps \in Nat
    BY DEF PhoneTypes
<1>3. CASE /\ Mishap("request") \/ Mishap("answer")
           /\ Ends(f) /\ UNCHANGED <<pending, dialog, front>>
           /\ UNCHANGED server_vars \/ \E p \in Pairings : Create(p)
    <2>1. mishaps' = mishaps + 1
        BY <1>3 DEF Mishap
    <2>2. UNCHANGED store
        BY <1>3 DEF Create, server_vars, store_vars
    <2> QED BY <1>1, <1>2, <1>3, <2>1, <2>2, FlowEnds, FlowsMove DEF PhoneTypes
<1>4. ASSUME NEW p \in Pairings, Create(p), Fine, ~StillWanted(f),
             flow' = [flow EXCEPT ![f].pc = "cancel", ![f].key = p],
             UNCHANGED <<pending, dialog, front>>
      PROVE  PhoneInv' /\ GhostStep /\ PairedStep
    <2>1. UNCHANGED <<store, mishaps>>
        BY <1>4 DEF Create, store_vars, Fine
    <2>2. /\ flow' \in [Flows -> Flow] /\ \A g \in Flows : g # f => flow'[g] = flow[g]
          /\ flow'[f].pc = "cancel" /\ flow'[f].kind = flow[f].kind /\ flow'[f].op = flow[f].op
          /\ flow'[f].key = p
        BY <1>4 DEF PhoneTypes, Flow
    <2> QED BY <1>1, <1>2, <1>4, <2>1, <2>2, FlowsMove DEF PhoneTypes
<1>5. ASSUME NEW p \in Pairings, Create(p), Fine, StillWanted(f),
             pending' = [op |-> flow[f].op, pairing |-> p],
             dialog' = [dialog EXCEPT ![f] = "open"], front' = f, Ends(f)
      PROVE  PhoneInv' /\ GhostStep /\ PairedStep
    BY <1>1, <1>5, DialogOpens
<1> QED BY <1>3, <1>4, <1>5 DEF CreatePairing

LEMMA RefusedStep ==
    ASSUME ServerInv, PhoneInv, [Next]_vars, NEW f \in Flows, Refused(f)
    PROVE  PhoneInv' /\ GhostStep /\ PairedStep
<1>1. /\ UNCHANGED <<store, saved, flash, operation, pending, dialog, front, job, ui, page, mishaps>>
      /\ dialog[f] = "none" /\ job[f].pc = "idle"
    BY DEF Refused, Free, server_vars, store_vars
<1> DEFINE r == [Idle EXCEPT !.pc = "resolve", !.kind = "control"]
<1>2. r \in Flow /\ r.kind = "control" /\ r.pc = "resolve"
    BY DEF Idle, Flow
<1>3. flow' = [flow EXCEPT ![f] = r]
    BY DEF Refused
<1> HIDE DEF r
<1>4. flow' \in [Flows -> Flow] /\ flow'[f] = r /\ \A g \in Flows : g # f => flow'[g] = flow[g]
    BY <1>2, <1>3 DEF PhoneInv, PhoneTypes
<1> QED BY <1>1, <1>2, <1>4, FlowsMove DEF PhoneInv, PhoneTypes

\* A new operation begins: no dialog is open, none of the older tests is wanted.
LEMMA TestStep ==
    ASSUME ServerInv, PhoneInv, [Next]_vars, NEW f \in Flows, Test(f)
    PROVE  PhoneInv' /\ GhostStep /\ PairedStep
<1> USE DEF PhoneInv
<1>1. /\ UNCHANGED <<store, sessions, born, faults, saved, flash, dialog, front, job, ui, page, mishaps>>
      /\ operation' = operation + 1 /\ pending' = None
      /\ flow[f].pc = "idle" /\ dialog[f] = "none" /\ job[f].pc = "idle"
      /\ \A g \in Flows : dialog[g] = "none"
    BY DEF Test, Free, Uncovered, server_vars, store_vars, history
<1> DEFINE r == [Idle EXCEPT !.pc = "identity", !.kind = "test", !.op = operation + 1]
<1>2. r \in Flow /\ r.kind = "test" /\ r.pc = "identity" /\ r.op = operation + 1
    <2>1. operation + 1 \in Nat
        BY DEF PhoneTypes
    <2> QED BY <2>1 DEF Idle, Flow
<1>3. flow' = [flow EXCEPT ![f] = r]
    BY DEF Test
<1> HIDE DEF r
<1>4. flow' \in [Flows -> Flow] /\ flow'[f] = r /\ \A g \in Flows : g # f => flow'[g] = flow[g]
    BY <1>2, <1>3 DEF PhoneTypes
<1>5. front = None
    BY <1>1 DEF FrontOK, PhoneTypes
<1>6. PhoneTypes'
    BY <1>1, <1>4 DEF PhoneTypes
<1>7. FlowsOK'
    BY <1>1, <1>2, <1>4 DEF FlowsOK
<1>8. OneAttempt'
    BY <1>1, <1>2, <1>4 DEF OneAttempt, PhoneTypes, Flow
<1>9. RequestsOK' /\ FrontOK'
    BY <1>1, <1>5 DEF RequestsOK, FrontOK
<1>10. CalmOK'
    <2>1. Calm' => Calm
        BY <1>1 DEF Calm
    <2>2. \A g \in Flows : flow'[g].pc = "create" => flow'[g].op # operation'
        BY <1>1, <1>2, <1>4 DEF FlowsOK, OneAttempt, PhoneTypes, Flow
    <2> QED BY <1>1, <2>1, <2>2 DEF CalmOK
<1>11. GhostStep /\ PairedStep
    BY <1>1 DEF GhostStep, Ghosts, PairedStep
<1> QED BY <1>6, <1>7, <1>8, <1>9, <1>10, <1>11

\* What is shown is given up, by the user or with the activity.
LEMMA CancelCurrentStep ==
    ASSUME ServerInv, PhoneInv, UNCHANGED server_vars, CancelCurrent, front' = None,
           UNCHANGED <<saved, flash, flow, job, ui, page>>,
           mishaps' \in Nat, mishaps <= mishaps',
           dialog' \in [Flows -> {"none", "open", "submitting"}],
           \A g \in Flows : dialog'[g] = dialog[g] \/ (dialog[g] = "open" /\ dialog'[g] = "none"),
           mishaps' = 0 => \A g \in Flows : dialog'[g] = "none"
    PROVE  PhoneInv' /\ GhostStep /\ PairedStep
<1> USE DEF PhoneInv
<1>1. /\ operation' = operation + 1 /\ operation \in Nat /\ pending' = None
      /\ UNCHANGED <<store, sessions, born, faults>>
    BY DEF CancelCurrent, server_vars, store_vars, history, PhoneTypes
<1>2. PhoneTypes'
    BY <1>1 DEF PhoneTypes
<1>3. FlowsOK'
    BY DEF FlowsOK
<1>4. OneAttempt'
    BY <1>1 DEF OneAttempt, PhoneTypes, Flow
<1>5. RequestsOK' /\ FrontOK'
    BY <1>1 DEF RequestsOK, FrontOK
<1>6. CalmOK'
    <2>1. Calm' => Calm /\ \A g \in Flows : dialog'[g] = "none"
        BY <1>1 DEF Calm, PhoneTypes
    <2>2. \A g \in Flows : flow[g].pc = "create" => flow[g].op # operation'
        BY <1>1 DEF FlowsOK, OneAttempt, PhoneTypes, Flow
    <2> QED BY <1>1, <2>1, <2>2 DEF CalmOK
<1>7. GhostStep /\ PairedStep
    BY <1>1 DEF GhostStep, Ghosts, PairedStep
<1> QED BY <1>2, <1>3, <1>4, <1>5, <1>6, <1>7

LEMMA StopStep ==
    ASSUME ServerInv, PhoneInv, Stop
    PROVE  PhoneInv' /\ GhostStep /\ PairedStep
<1>1. mishaps \in Nat /\ mishaps' = mishaps + 1 /\ dialog' = dialog
      /\ dialog \in [Flows -> {"none", "open", "submitting"}]
    BY DEF Stop, Mishap, PhoneInv, PhoneTypes
<1> QED BY <1>1, CancelCurrentStep DEF Stop

LEMMA CloseStep ==
    ASSUME ServerInv, PhoneInv, NEW f \in Flows, Close(f)
    PROVE  PhoneInv' /\ GhostStep /\ PairedStep
<1> USE DEF PhoneInv
<1>1. /\ UNCHANGED <<server_vars, saved, flash, flow, job, ui, page, mishaps>>
      /\ dialog[f] = "open" /\ dialog' = [dialog EXCEPT ![f] = "none"] /\ mishaps \in Nat
    BY DEF Close, Closable, PhoneTypes
<1>2. /\ dialog' \in [Flows -> {"none", "open", "submitting"}] /\ dialog'[f] = "none"
      /\ \A g \in Flows : g # f => dialog'[g] = dialog[g] /\ dialog[g] = "none"
    BY <1>1 DEF PhoneTypes, OneAttempt
<1>3. CASE front = f
    BY <1>1, <1>2, <1>3, CancelCurrentStep DEF Close
<1>4. CASE front # f
    <2>1. UNCHANGED <<operation, pending, front, store, sessions, born, faults>>
        BY <1>1, <1>4 DEF Close, server_vars, store_vars, history
    <2>2. PhoneTypes'
        BY <1>1, <1>2, <2>1 DEF PhoneTypes
    <2>3. FlowsOK'
        BY <1>1, <1>2, <2>1 DEF FlowsOK
    <2>4. OneAttempt' /\ RequestsOK'
        BY <1>1, <1>2, <2>1 DEF OneAttempt, RequestsOK
    <2>5. FrontOK'
        BY <1>1, <1>2, <1>4, <2>1 DEF FrontOK, PhoneTypes
    <2>6. CalmOK'
        BY <1>1, <1>2, <2>1 DEF CalmOK, Calm
    <2>7. GhostStep /\ PairedStep
        BY <1>1, <2>1 DEF GhostStep, Ghosts, PairedStep
    <2> QED BY <2>2, <2>3, <2>4, <2>5, <2>6, <2>7
<1> QED BY <1>3, <1>4

\* A new activity: nothing of the old one is left but its completions.
LEMMA NewPageStep ==
    ASSUME ServerInv, PhoneInv, NEW f \in Flows, Recreate(f) \/ Death(f)
    PROVE  PhoneInv' /\ GhostStep /\ PairedStep
<1> USE DEF PhoneInv
<1>1. /\ NewPage(f) /\ mishaps' = mishaps
      /\ \/ UNCHANGED <<saved, flash, job>>
         \/ saved' = flash /\ flash' = flash /\ job' = [g \in Flows |-> NoJob]
    BY DEF Recreate, Death, Fine
<1>2. /\ UNCHANGED <<store, sessions, born, faults>>
      /\ page' = page + 1 /\ page \in 0..MaxPages /\ page < MaxPages
      /\ operation' = 0 /\ pending' = None /\ front' = None /\ ui' = "main"
      /\ dialog' = [g \in Flows |-> "none"]
    BY <1>1 DEF NewPage, server_vars, store_vars, history, PhoneTypes
<1> DEFINE r == [Idle EXCEPT !.pc = "identity", !.kind = "restore"]
<1>3. /\ r \in Flow /\ r.kind = "restore" /\ r.pc = "identity"
      /\ Idle \in Flow /\ Idle.kind = "none" /\ Idle.pc = "idle"
    BY DEF Idle, Flow
<1>4. flow' = [g \in Flows |-> IF g = f /\ saved' # None THEN r ELSE Idle]
    BY <1>1 DEF NewPage
<1> HIDE DEF r
<1>5. flow' \in [Flows -> Flow] /\ \A g \in Flows : flow'[g] \in {r, Idle}
    BY <1>3, <1>4
<1>6. NoJob \in Job /\ NoJob.pc = "idle"
    BY DEF NoJob, Job
<1>7. /\ job' \in [Flows -> Job] /\ {saved', flash'} \subseteq Keys \cup {None}
      /\ \A g \in Flows : job'[g] = job[g] \/ job'[g].pc = "idle"
    BY <1>1, <1>6 DEF PhoneTypes
<1>8. page' \in 0..MaxPages /\ \A g \in Flows : job[g].page \in Nat
    BY <1>2, PhoneAssumption DEF PhoneTypes, Job
<1>9. PhoneTypes'
    BY <1>1, <1>2, <1>5, <1>7, <1>8 DEF PhoneTypes
<1>10. FlowsOK'
    BY <1>2, <1>3, <1>5, <1>7, <1>8 DEF FlowsOK
<1>11. OneAttempt'
    BY <1>2, <1>3, <1>5 DEF OneAttempt
<1>12. RequestsOK' /\ FrontOK'
    BY <1>2, <1>7 DEF RequestsOK, FrontOK
<1>13. page' # 0
    BY <1>2
<1>14. CalmOK'
    BY <1>13 DEF CalmOK, Calm
<1>15. GhostStep /\ PairedStep
    BY <1>2, <1>13 DEF GhostStep, PairedStep
<1> QED BY <1>9, <1>10, <1>11, <1>12, <1>14, <1>15

LEMMA SubmitStep ==
    ASSUME ServerInv, PhoneInv, NEW f \in Flows, Submit(f)
    PROVE  PhoneInv' /\ GhostStep /\ PairedStep
<1> USE DEF PhoneInv
<1>1. /\ UNCHANGED <<store, sessions, born, faults, saved, flash, operation, pending, flow, front, ui, page, mishaps>>
      /\ front = f /\ dialog[f] = "open" /\ job[f].pc = "idle" /\ pending # None
      /\ dialog' = [dialog EXCEPT ![f] = "submitting"]
    BY DEF Submit, server_vars, store_vars, history
<1> DEFINE r == [NoJob EXCEPT !.pc = "sent", !.pairing = pending.pairing,
                              !.op = pending.op, !.page = page]
<1>2. pending.pairing \in Pairings /\ pending.op \in Nat /\ page \in Nat
    BY <1>1, PhoneAssumption DEF PhoneTypes
<1>3. /\ r \in Job /\ r.pc = "sent" /\ r.pairing = pending.pairing
      /\ r.op = pending.op /\ r.page = page /\ r.key = None
    BY <1>2 DEF NoJob, Job
<1>4. job' = [job EXCEPT ![f] = r]
    BY DEF Submit
<1> HIDE DEF r
<1>5. job' \in [Flows -> Job] /\ job'[f] = r /\ \A g \in Flows : g # f => job'[g] = job[g]
    BY <1>3, <1>4 DEF PhoneTypes
<1>6. /\ dialog' \in [Flows -> {"none", "open", "submitting"}] /\ dialog'[f] = "submitting"
      /\ \A g \in Flows : g # f => dialog'[g] = dialog[g]
    BY <1>1 DEF PhoneTypes
<1>7. PhoneTypes'
    BY <1>1, <1>5, <1>6 DEF PhoneTypes
<1>8. FlowsOK'
    BY <1>1, <1>2, <1>3, <1>5, <1>6 DEF FlowsOK
<1>9. OneAttempt'
    BY <1>1, <1>6 DEF OneAttempt
<1>10. RequestsOK'
    BY <1>1, <1>2, <1>3, <1>5 DEF RequestsOK
<1>11. FrontOK'
    BY <1>1, <1>3, <1>5, <1>6 DEF FrontOK
<1>12. CalmOK'
    BY <1>1, <1>3, <1>5, <1>6 DEF CalmOK, Calm
<1>13. GhostStep
    BY <1>1, <1>3, <1>5 DEF GhostStep, Ghosts
<1>14. PairedStep
    BY <1>6 DEF PairedStep
<1> QED BY <1>7, <1>8, <1>9, <1>10, <1>11, <1>12, <1>13, <1>14

\* The key the answer will bring is the one the Server just issued.
LEMMA IssuedKey ==
    ASSUME ServerInv, [Next]_vars, NEW p \in Pairings, Complete(p) \/ UNCHANGED server_vars
    PROVE  \/ store' = store /\ born' = born /\ Issued = None
           \/ \E k \in Keys : /\ DOMAIN store' = DOMAIN store \cup {k}
                              /\ born[k] = None /\ born'[k] = p /\ Issued = k
<1>1. born \in [Keys -> Pairings \cup {None}] /\ None \notin Pairings
    BY PairingAssumption DEF ServerInv, TypeOK
<1>2. CASE UNCHANGED <<store, born>>
    BY <1>2 DEF Issued
<1>3. ASSUME NEW k \in Keys, Pair(p, k, TRUE)
      PROVE  \E j \in Keys : /\ DOMAIN store' = DOMAIN store \cup {j}
                             /\ born[j] = None /\ born'[j] = p /\ Issued = j
    <2>1. /\ born[k] = None /\ born' = [born EXCEPT ![k] = p]
          /\ DOMAIN store' = DOMAIN store \cup {k}
        BY <1>3 DEF Pair, Commit, With
    <2>2. born'[k] = p /\ born' # born /\ \A j \in Keys : born'[j] # born[j] <=> j = k
        BY <1>1, <2>1
    <2>3. Issued = k
        BY <2>2 DEF Issued
    <2> QED BY <2>1, <2>2, <2>3
<1>4. ASSUME NEW k \in Keys, Pair(p, k, FALSE)
      PROVE  UNCHANGED <<store, born>>
    BY <1>4 DEF Pair, Commit
<1> QED BY <1>2, <1>3, <1>4 DEF Complete, Miss, server_vars, store_vars, history

LEMMA ServeStep ==
    ASSUME ServerInv, PhoneInv, [Next]_vars, NEW f \in Flows, Serve(f)
    PROVE  PhoneInv' /\ GhostStep /\ PairedStep
<1> USE DEF PhoneInv
<1>1. /\ UNCHANGED <<saved, flash, operation, pending, flow, dialog, front, ui, page, mishaps>>
      /\ job[f].pc = "sent" /\ job' = [job EXCEPT ![f].pc = "served", ![f].key = Issued]
    BY DEF Serve
<1>2. /\ \A p \in Pairings : sessions[p].status # "new" => sessions'[p].status # "new"
      /\ \A k \in Keys : born[k] # None => born'[k] # None
      /\ Calm' => Calm
    BY <1>1, ServerMonotone DEF Calm
<1>3. job[f].pairing \in Pairings
    BY <1>1 DEF RequestsOK
<1>4. \/ store' = store /\ born' = born /\ Issued = None
      \/ \E k \in Keys : /\ DOMAIN store' = DOMAIN store \cup {k}
                         /\ born[k] = None /\ born'[k] # None /\ Issued = k
    BY <1>3, IssuedKey, PairingAssumption DEF Serve
<1>5. Issued \in Keys \cup {None}
    BY <1>4
<1>6. /\ job' \in [Flows -> Job] /\ \A g \in Flows : g # f => job'[g] = job[g]
      /\ job'[f].pc = "served" /\ job'[f].key = Issued /\ job'[f].pairing = job[f].pairing
      /\ job'[f].op = job[f].op /\ job'[f].page = job[f].page
    BY <1>1, <1>5 DEF PhoneTypes, Job
<1>7. PhoneTypes'
    BY <1>1, <1>6 DEF PhoneTypes
<1>8. FlowsOK'
    BY <1>1, <1>6 DEF FlowsOK
<1>9. OneAttempt'
    BY <1>1 DEF OneAttempt
<1>10. RequestsOK'
    BY <1>1, <1>2, <1>6 DEF RequestsOK, PhoneTypes
<1>11. FrontOK'
    BY <1>1, <1>6 DEF FrontOK, PhoneTypes
<1>12. CalmOK'
    <2> SUFFICES ASSUME Calm' PROVE CalmOK'
        BY DEF CalmOK
    <2>1. /\ saved # None => born[saved] # None
          /\ \A g \in Flows :
                /\ job[g].key # None => born[job[g].key] # None
                /\ dialog[g] # "none" => front = g /\ saved \notin DOMAIN store
                /\ flow[g].pc = "create" /\ flow[g].op = operation => saved \notin DOMAIN store
        BY <1>2 DEF CalmOK
    <2>2. saved \in Keys \cup {None} /\ \A g \in Flows : job[g].key \in Keys \cup {None}
        BY DEF PhoneTypes, Job
    <2>3. saved \notin DOMAIN store => saved \notin DOMAIN store'
        BY <1>4, <2>1, PairingAssumption
    <2>4. saved # None => born'[saved] # None
        BY <1>2, <2>1, <2>2
    <2>5. \A g \in Flows : job'[g].key # None => born'[job'[g].key] # None
        BY <1>2, <1>4, <1>6, <2>1, <2>2
    <2> QED BY <1>1, <2>1, <2>3, <2>4, <2>5 DEF CalmOK
<1>13. GhostStep
    BY <1>1, <1>4, <1>6 DEF GhostStep, Ghosts
<1>14. PairedStep
    BY <1>1 DEF PairedStep
<1> QED BY <1>7, <1>8, <1>9, <1>10, <1>11, <1>12, <1>13, <1>14

\* A completion returns to pair(): what its dialog is told, and the next request.
LEMMA ReturnsStep ==
    ASSUME ServerInv, PhoneInv, NEW f \in Flows, NEW paired \in BOOLEAN, job[f].pc # "idle",
           Returns(f, paired), UNCHANGED <<server_vars, operation, flow, page>>,
           mishaps' \in Nat, mishaps <= mishaps', {saved', flash'} \subseteq Keys \cup {None},
           paired => saved' = job[f].key /\ flash' = job[f].key,
           mishaps' = 0 => /\ job[f].pc = "served"
                           /\ paired \/ (job[f].key = None /\ saved' = saved)
    PROVE  PhoneInv' /\ GhostStep /\ PairedStep
<1> USE DEF PhoneInv
<1>1. UNCHANGED <<store, sessions, born, faults>>
    BY DEF server_vars, store_vars, history
<1>2. /\ dialog \in [Flows -> {"none", "open", "submitting"}] /\ job[f] \in Job
      /\ mishaps \in Nat /\ page \in Nat /\ ui \in {"main", "control", "error"}
    BY PhoneAssumption DEF PhoneTypes
<1>3. NoJob \in Job /\ NoJob.pc = "idle" /\ NoJob.key = None
    BY DEF NoJob, Job
<1>4. /\ job' \in [Flows -> Job] /\ job'[f] = NoJob
      /\ \A g \in Flows : g # f => job'[g] = job[g]
    BY <1>3 DEF Returns, PhoneTypes
<1>5. /\ job[f].page <= page /\ (job[f].page = page => dialog[f] = "submitting")
      /\ job[f].page = page /\ front = f => Current(f)
      /\ front # None /\ Current(f) => front = f
    <2>1. job[f].page <= page /\ (job[f].page = page => dialog[f] = "submitting")
        BY DEF FlowsOK
    <2>2. front = f => front # None
        BY PhoneAssumption
    <2> QED BY <2>1, <2>2 DEF FrontOK, Current
<1>6. \/ job[f].page # page /\ UNCHANGED <<pending, dialog, front, ui>>
      \/ /\ job[f].page = page /\ front # f /\ UNCHANGED <<dialog, front, ui>>
         /\ pending' = pending \/ (pending' = None /\ front = None)
      \/ /\ job[f].page = page /\ front = f /\ Current(f) /\ paired /\ pending' = None
         /\ dialog' = [dialog EXCEPT ![f] = "none"] /\ front' = None /\ ui' = "control"
      \/ /\ job[f].page = page /\ front = f /\ Current(f) /\ ~paired
         /\ dialog' = [dialog EXCEPT ![f] = "open"] /\ UNCHANGED <<pending, front, ui>>
    BY <1>5 DEF Returns, Reopened, Dismissed
<1>7. /\ dialog' \in [Flows -> {"none", "open", "submitting"}]
      /\ \A g \in Flows : g # f => dialog'[g] = dialog[g]
      /\ dialog'[f] # "none" => dialog[f] # "none"
      /\ ui' \in {"main", "control", "error"} /\ pending' \in {pending, None}
      /\ front' \in {front, None}
    BY <1>2, <1>5, <1>6
<1>8. PhoneTypes'
    BY <1>4, <1>7 DEF PhoneTypes
<1>9. FlowsOK'
    BY <1>2, <1>3, <1>4, <1>5, <1>6, <1>7 DEF FlowsOK
<1>10. OneAttempt'
    BY <1>7 DEF OneAttempt
<1>11. RequestsOK'
    BY <1>1, <1>3, <1>4, <1>7 DEF RequestsOK
<1>12. FrontOK'
    BY <1>2, <1>3, <1>4, <1>6, <1>7 DEF FrontOK, PhoneTypes
<1>13. ASSUME Calm'
       PROVE  /\ Calm /\ job[f].page = page /\ dialog[f] # "none" /\ front = f
              /\ saved \notin DOMAIN store /\ job[f].pc = "served"
              /\ \A g \in Flows : dialog[g] # "none" => g = f
              /\ \A g \in Flows : ~(flow[g].pc = "create" /\ flow[g].op = operation)
    <2>1. Calm /\ page = 0
        BY <1>1, <1>2, <1>13 DEF Calm
    <2>2. job[f].page = page
        BY <1>2, <1>5, <2>1 DEF Job
    <2> QED BY <1>5, <1>13, <2>1, <2>2 DEF Calm, CalmOK, OneAttempt, FlowsOK
<1>14. CalmOK'
    <2> SUFFICES ASSUME Calm' PROVE CalmOK'
        BY DEF CalmOK
    <2>1. /\ saved # None => born[saved] # None
          /\ \A g \in Flows : job[g].key # None => born[job[g].key] # None
        BY <1>13 DEF CalmOK
    <2>2. \A g \in Flows : job'[g].key # None => born'[job'[g].key] # None
        BY <1>1, <1>3, <1>4, <2>1
    <2>3. saved' # None => born'[saved'] # None
        BY <1>1, <2>1 DEF Calm
    <2>4. \A g \in Flows : dialog'[g] # "none" => front' = g /\ saved' \notin DOMAIN store'
        <3>1. CASE paired
            BY <1>2, <1>6, <1>7, <1>13, <3>1
        <3>2. CASE ~paired
            BY <1>1, <1>6, <1>7, <1>13, <3>2 DEF Calm
        <3> QED BY <3>1, <3>2
    <2> QED BY <1>13, <2>2, <2>3, <2>4 DEF CalmOK
<1>15. GhostStep
    <2> SUFFICES ASSUME Calm', NEW k \in Ghosts' PROVE k \in Ghosts
        BY DEF GhostStep, Calm
    <2>1. k \in DOMAIN store /\ k # saved' /\ k \in Keys
        BY <1>1 DEF Ghosts, ServerInv, TypeOK
    <2>2. k # saved
        BY <1>13, <2>1
    <2>3. \A g \in Flows : g # f /\ job[g].pc = "served" => job[g].key # k
        BY <1>4 DEF Ghosts
    <2>4. job[f].key # k
        BY <2>1, PairingAssumption DEF Calm
    <2> QED BY <2>1, <2>2, <2>3, <2>4 DEF Ghosts
<1>16. PairedStep
    <2> SUFFICES ASSUME NEW g \in Flows, dialog[g] = "submitting", dialog'[g] = "none"
                 PROVE  saved' = job[g].key /\ flash' = job[g].key
        BY DEF PairedStep
    <2>1. g = f /\ paired
        BY <1>2, <1>6, <1>7
    <2> QED BY <2>1
<1> QED BY <1>8, <1>9, <1>10, <1>11, <1>12, <1>14, <1>15, <1>16

LEMMA AnswerStep ==
    ASSUME ServerInv, PhoneInv, NEW f \in Flows, Answer(f) \/ Fails(f)
    PROVE  PhoneInv' /\ GhostStep /\ PairedStep
<1>1. /\ mishaps \in Nat /\ {saved, flash, job[f].key} \subseteq Keys \cup {None}
      /\ job[f].pc # "idle" /\ UNCHANGED <<server_vars, operation, flow, page>>
    <2>1. mishaps \in Nat /\ {saved, flash} \subseteq Keys \cup {None} /\ job[f] \in Job
        BY DEF PhoneInv, PhoneTypes
    <2> QED BY <2>1 DEF Job, Answer, Fails
<1>2. CASE /\ job[f].pc = "served" /\ job[f].key = None
           /\ Unsaved /\ Fine /\ Returns(f, FALSE)
    <2>1. mishaps' = mishaps /\ saved' = saved /\ flash' = flash
        BY <1>2 DEF Unsaved, Fine
    <2>2. mishaps' \in Nat /\ mishaps <= mishaps' /\ {saved', flash'} \subseteq Keys \cup {None}
        BY <1>1, <2>1
    <2> QED BY <1>1, <1>2, <2>1, <2>2, ReturnsStep
<1>3. CASE job[f].pc = "served" /\ Saved(job[f].key) /\ Returns(f, Verified(TRUE))
    <2>1. mishaps' = mishaps /\ saved' = job[f].key /\ flash' = job[f].key
        BY <1>3 DEF Saved, Fine
    <2>2. mishaps' \in Nat /\ mishaps <= mishaps' /\ {saved', flash'} \subseteq Keys \cup {None}
        BY <1>1, <2>1
    <2> QED BY <1>1, <1>3, <2>1, <2>2, ReturnsStep DEF Verified
<1>4. CASE SaveFailed(job[f].key) /\ Returns(f, Verified(FALSE))
    <2>1. mishaps' = mishaps + 1 /\ {saved', flash'} \subseteq Keys \cup {None}
        BY <1>1, <1>4 DEF SaveFailed, Mishap
    <2>2. mishaps' \in Nat /\ mishaps <= mishaps' /\ mishaps' # 0
        BY <1>1, <2>1
    <2> QED BY <1>1, <1>4, <2>1, <2>2, ReturnsStep DEF Verified
<1>5. CASE Fails(f)
    <2>1. mishaps' = mishaps + 1 /\ {saved', flash'} \subseteq Keys \cup {None}
        BY <1>1, <1>5 DEF Fails, Mishap, Unsaved
    <2>2. mishaps' \in Nat /\ mishaps <= mishaps' /\ mishaps' # 0
        BY <1>1, <2>1
    <2> QED BY <1>1, <1>5, <2>1, <2>2, ReturnsStep DEF Fails
<1> QED BY <1>2, <1>3, <1>4, <1>5 DEF Answer

LEMMA TimesOutStep ==
    ASSUME ServerInv, PhoneInv, NEW f \in Flows, TimesOut(f)
    PROVE  PhoneInv' /\ GhostStep /\ PairedStep
<1> USE DEF PhoneInv
<1>1. /\ UNCHANGED <<sessions, saved, flash, operation, pending, flow, dialog, front, ui, page>>
      /\ job' = [job EXCEPT ![f] = NoJob]
    BY DEF TimesOut, server_vars
<1>2. mishaps' \in Nat /\ mishaps' # 0
    BY DEF TimesOut, Mishap, PhoneTypes
<1>3. NoJob \in Job /\ NoJob.pc = "idle"
    BY DEF NoJob, Job
<1>4. /\ job' \in [Flows -> Job] /\ job'[f] = NoJob
      /\ \A g \in Flows : g # f => job'[g] = job[g]
    BY <1>1, <1>3 DEF PhoneTypes
<1>5. PhoneTypes'
    BY <1>1, <1>2, <1>4 DEF PhoneTypes
<1>6. FlowsOK' /\ OneAttempt'
    BY <1>1, <1>3, <1>4 DEF FlowsOK, OneAttempt
<1>7. RequestsOK' /\ FrontOK'
    BY <1>1, <1>3, <1>4 DEF RequestsOK, FrontOK, PhoneTypes
<1>8. CalmOK' /\ GhostStep
    BY <1>2 DEF CalmOK, Calm, GhostStep
<1>9. PairedStep
    BY <1>1 DEF PairedStep
<1> QED BY <1>5, <1>6, <1>7, <1>8, <1>9

-----------------------------------------------------------------------------
(* What the composition promises *)

LEMMA PhoneStep ==
    ServerInv /\ PhoneInv /\ [PhoneNext]_all_vars =>
        /\ ServerInv' /\ PhoneInv'
        /\ [Next]_vars /\ [GhostStep]_all_vars /\ [PairedStep]_all_vars
<1> SUFFICES ASSUME ServerInv, PhoneInv, [PhoneNext]_all_vars
             PROVE  /\ ServerInv' /\ PhoneInv'
                    /\ [Next]_vars /\ [GhostStep]_all_vars /\ [PairedStep]_all_vars
    OBVIOUS
<1>1. [Next]_vars
    BY ServerStep DEF PhoneInv
<1>2. ServerInv'
    BY <1>1, ServerNext
<1>3. CASE UNCHANGED all_vars
    <2>1. PhoneInv'
        BY <1>3 DEF all_vars, server_vars, store_vars, history, phone_vars, PhoneInv, PhoneTypes,
           FlowsOK, OneAttempt, RequestsOK, FrontOK, CalmOK, Calm
    <2> QED BY <1>1, <1>2, <1>3, <2>1
<1>4. CASE PhoneNext
    <2>1. PhoneInv' /\ GhostStep /\ PairedStep
        BY <1>1, <1>4, TestStep, RefusedStep, IdentityStep, ActionsStep, ResolveStep,
           CreatePairingStep, CancelPairingStep, SubmitStep, ServeStep, AnswerStep, TimesOutStep,
           CloseStep, NewPageStep, ReturnStep, SelfRevokeStep, StopStep, ServerActsStep DEF PhoneNext
    <2> QED BY <1>1, <1>2, <2>1
<1> QED BY <1>3, <1>4

LEMMA PhoneInvAlways == PhoneSpec => [](ServerInv /\ PhoneInv)
<1>1. PhoneInit => ServerInv /\ PhoneInv
    BY InitServerInv, InitPhoneInv DEF PhoneInit
<1> QED BY <1>1, PhoneStep, PTL DEF PhoneSpec

\* The phone uses the Server only as any phone may: the composition implements
\* the Server, and what is proved of the Server alone holds beside the phone.
THEOREM PhoneUsesServer == PhoneSpec => Spec
<1>1. PhoneInit => Init
    BY DEF PhoneInit
<1>2. ServerInv /\ PhoneInv /\ [PhoneNext]_all_vars => [Next]_vars
    BY PhoneStep
<1> QED BY <1>1, <1>2, PhoneInvAlways, PTL DEF PhoneSpec, Spec

\* Only a completed request makes a device, and one device
\* (AuthManager.complete_pairing with DeviceStore.add_device).
THEOREM OneDeviceEach == PhoneSpec => []OneDevicePerPairing
<1>1. ServerInv => OneDevicePerPairing
    BY DEF ServerInv
<1> QED BY <1>1, PhoneInvAlways, PTL

\* A request compares at most MaxFailed wrong codes for every LockFor of its
\* life, however complete_pairing, list_pairings and the clock interleave.
THEOREM GuessesLimited == PhoneSpec => []GuessesBounded
BY GuessesAreBounded, PhoneInvAlways, PTL

\* The same of the Server alone, whoever calls it.
THEOREM ServerGuessesLimited == Spec => []GuessesBounded
BY GuessesAreBounded, ServerInvAlways, PTL

\* The state of the repository, the session store and the page is what their
\* declarations say, and a completion of this page still has its dialog.
THEOREM PhoneTypeCorrect == PhoneSpec => []PhoneTypeOK
<1>1. ServerInv /\ PhoneInv => PhoneTypeOK
    <2> SUFFICES ASSUME PhoneInv PROVE PhoneTypeOK
        OBVIOUS
    <2>1. \A f \in Flows : flow[f] \in Flow /\ job[f] \in Job
        BY DEF PhoneInv, PhoneTypes
    <2> QED BY <2>1 DEF PhoneInv, PhoneTypes, FlowsOK, PhoneTypeOK, Flow, Job
<1> QED BY <1>1, PhoneInvAlways, PTL

\* The dialog in front always has a request its code can complete: a coroutine
\* of an older operation that comes back late neither opens a dialog nor
\* replaces what the newer one waits for (ConnectionRepository.operation).
THEOREM DialogIsServed == PhoneSpec => []DialogHasRequest
<1>1. ServerInv /\ PhoneInv => DialogHasRequest
    BY DEF PhoneInv, FrontOK, DialogHasRequest
<1> QED BY <1>1, PhoneInvAlways, PTL

\* The control page opens only when the session is safely saved: the key the
\* Server issued is the one on disk (saveNewCredential, onPairingSuccess).
THEOREM EntersWhenSaved == PhoneSpec => PairedIsSaved
<1>1. ServerInv /\ PhoneInv /\ [PhoneNext]_all_vars =>
        [\A f \in Flows :
            dialog[f] = "submitting" /\ dialog'[f] = "none" /\ ui' = "control" =>
                saved' = job[f].key /\ flash' = job[f].key]_all_vars
    BY PhoneStep DEF PairedStep
<1> QED BY <1>1, PhoneInvAlways, PTL DEF PhoneSpec, PairedIsSaved

\* As long as nothing is lost, stopped or re-created and every save succeeds, no
\* order of tests, completions, cancellations and revocations leaves a device at
\* the Server that the phone cannot use, unless a late refusal removes a session
\* whose key is valid (resolveAuthorizationFailure).
THEOREM NoDeviceLeftBehind == PhoneSpec => NoGhost
<1>1. ServerInv /\ PhoneInv /\ [PhoneNext]_all_vars =>
        [mishaps' = 0 /\ page' = 0 /\ faults' = 0 /\ ~RemovesValid =>
            Ghosts' \subseteq Ghosts]_all_vars
    BY PhoneStep DEF GhostStep
<1> QED BY <1>1, PhoneInvAlways, PTL DEF PhoneSpec, NoGhost
=============================================================================
