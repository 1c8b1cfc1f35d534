---------------------------- MODULE MediaHubProofs ----------------------------
(***************************************************************************)
(* Proofs about MediaHub, for any streams, devices, replay window and      *)
(* number of revisions: no revoked device hears another state or is cut    *)
(* off silently, no stream that waits has missed a state, and every step   *)
(* is one of the latest-value feed of MediaFeed.  The second part is about *)
(* MediaConnection, the reader of the feed on the phone.                   *)
(***************************************************************************)
EXTENDS MediaHub, MediaConnection, TLAPS

\* The replay is a contiguous window that ends where the posted states begin, and
\* forgets only when it is full.
ReplayOK ==
    /\ \A i \in 1..Len(replay) : replay[i] = replay[1] + i - 1
    /\ replay[1] = 0 \/ Len(replay) = Window
    /\ \A i \in 1..Len(posted) : posted[i] = Newest + i
    /\ Newest + Len(posted) = svc

\* What a stream will have been told when its batch is empty.
Heard(s) == IF batch[s] = <<>> THEN since[s] ELSE batch[s][1] + Len(batch[s]) - 1

\* A batch continues what was told, except over a whole window, without a gap of
\* its own and not beyond the service.
BatchOK(s) ==
    /\ since[s] <= svc
    /\ \A i \in 1..Len(batch[s]) : batch[s][i] = batch[s][1] + i - 1
    /\ batch[s] # <<>> =>
          /\ batch[s][1] > since[s] /\ Heard(s) <= svc
          /\ batch[s][1] > since[s] + 1 => since[s] + Window <= svc

\* Only an open stream has a batch and a queue; the queue of a revoked device
\* says so, and an empty queue means that nothing accepted is missed.
QueueOK(s) ==
    /\ phase[s] # "cut"
    /\ phase[s] # "open" => batch[s] = <<>> /\ queue[s] = Nothing
    /\ phase[s] = "open" =>
          /\ reader[s] \in revoked <=> queue[s] = Revoked
          /\ queue[s] = Nothing => Heard(s) >= Newest

Inv == TypeOK /\ ReplayOK /\ \A s \in Streams : BatchOK(s) /\ QueueOK(s)

-----------------------------------------------------------------------------
(* What a reader is told first *)

LEMMA ReplayShape ==
    ASSUME TypeOK, ReplayOK
    PROVE  /\ svc \in Nat /\ Len(replay) \in 1..Window /\ Window \in Nat \ {0}
           /\ \A i \in 1..Len(replay) : replay[i] \in Nat
           /\ replay[1] \in Nat /\ Newest \in Nat /\ Newest = replay[1] + Len(replay) - 1
           /\ Newest <= svc /\ Head(replay) = replay[1] /\ (posted = <<>> => Newest = svc)
<1>1. /\ svc \in Nat /\ replay \in Seq(Nat) /\ posted \in Seq(Nat)
      /\ Len(replay) \in 1..Window /\ Window \in Nat \ {0} /\ replay # <<>>
    BY ConstantsAssumption DEF TypeOK, Revisions
<1>2. (\A i \in 1..Len(replay) : replay[i] \in Nat) /\ Len(posted) \in Nat
    BY <1>1
<1>3. 1 \in 1..Len(replay) /\ Len(replay) \in 1..Len(replay) /\ Head(replay) = replay[1]
    BY <1>1
<1>4. replay[1] \in Nat /\ Newest \in Nat /\ Newest = replay[1] + Len(replay) - 1
    BY <1>2, <1>3 DEF Newest, ReplayOK
<1>5. Newest + Len(posted) = svc /\ (posted = <<>> => Len(posted) = 0)
    BY DEF ReplayOK
<1>6. Newest <= svc /\ (posted = <<>> => Newest = svc)
    BY <1>1, <1>2, <1>4, <1>5
<1> QED BY <1>1, <1>2, <1>3, <1>4, <1>6

\* The states after n, when the replay reaches back to n.
LEMMA LaterStates ==
    ASSUME TypeOK, ReplayOK, NEW n \in Nat, n >= replay[1]
    PROVE  /\ Later(n) \in Seq(Revisions)
           /\ n >= Newest => Later(n) = <<>>
           /\ n < Newest => /\ Len(Later(n)) = Newest - n
                            /\ \A i \in 1..Len(Later(n)) : Later(n)[i] = n + i
<1>1. /\ replay \in Seq(Revisions) /\ Len(replay) \in Nat
      /\ \A i \in 1..Len(replay) : replay[i] = replay[1] + i - 1
      /\ replay[1] \in Nat /\ Newest = replay[1] + Len(replay) - 1 /\ Newest \in Nat
    BY ReplayShape DEF TypeOK, ReplayOK
<1> DEFINE after == {i \in DOMAIN replay : replay[i] > n}
<1>2. DOMAIN replay = 1..Len(replay)
    BY <1>1
<1>5. /\ replay[1] \in Nat /\ Newest = replay[1] + Len(replay) - 1 /\ Newest \in Nat
      /\ Len(replay) \in Nat
    BY <1>1
<1>3. CASE n >= Newest
    <2>1. after = {}
        BY <1>1, <1>2, <1>3
    <2>2. Later(n) = <<>>
        BY <2>1 DEF Later
    <2>3. ~(n < Newest)
        BY <1>3, <1>5
    <2> QED BY <2>2, <2>3
<1>4. CASE n < Newest
    <2> DEFINE k == n - replay[1] + 2
    <2>1. k \in 1..Len(replay)
        BY <1>1, <1>4
    <2>2. after = k..Len(replay)
        <3>1. ASSUME NEW i \in 1..Len(replay)
              PROVE  replay[i] > n <=> i >= k
            <4>1. replay[i] = replay[1] + i - 1
                BY <1>1
            <4> QED BY <1>5, <4>1
        <3> QED BY <1>1, <1>2, <2>1, <3>1
    <2>3. k \in after /\ \A i \in after : (\A j \in after : i <= j) => i = k
        BY <1>1, <2>1, <2>2
    <2>4. (CHOOSE i \in after : \A j \in after : i <= j) = k
        <3>1. \A j \in after : k <= j
            BY <1>1, <2>1, <2>2
        <3> QED BY <2>3, <3>1
    <2>5. Later(n) = SubSeq(replay, k, Len(replay))
        BY <2>3, <2>4 DEF Later
    <2> HIDE DEF k
    <2>6. /\ SubSeq(replay, k, Len(replay)) \in Seq(Revisions)
          /\ Len(SubSeq(replay, k, Len(replay))) = Len(replay) - k + 1
          /\ \A i \in 1..Len(replay) - k + 1 : SubSeq(replay, k, Len(replay))[i] = replay[k + i - 1]
        BY <1>1, <2>1
    <2>7. Len(replay) - k + 1 = Newest - n
        BY <1>1 DEF k
    <2>8. ASSUME NEW i \in 1..Newest - n
          PROVE  replay[k + i - 1] = n + i
        <3>1. k + i - 1 \in 1..Len(replay)
            BY <1>1, <1>4, <2>1, <2>7
        <3>2. replay[k + i - 1] = replay[1] + (k + i - 1) - 1
            BY <1>1, <3>1
        <3>3. replay[1] + (k + i - 1) - 1 = n + i
            <4>1. i \in Int /\ replay[1] \in Int
                BY <1>5
            <4> QED BY <4>1 DEF k
        <3> QED BY <3>2, <3>3
    <2>9. ~(n >= Newest)
        BY <1>4, <1>5
    <2> QED BY <2>5, <2>6, <2>7, <2>8, <2>9
<1> QED BY <1>1, <1>3, <1>4

LEMMA InitialStates ==
    ASSUME TypeOK, ReplayOK, NEW n \in Nat, n <= svc
    PROVE  LET b == Initial(n) IN
           /\ b \in Seq(Revisions)
           /\ \A i \in 1..Len(b) : b[i] = b[1] + i - 1
           /\ b = <<>> => n >= Newest
           /\ b # <<>> => /\ b[1] > n /\ b[1] + Len(b) - 1 \in Newest..svc
                          /\ b[1] > n + 1 => n + Window <= svc
<1>1. /\ svc \in Nat /\ Newest \in Nat /\ Newest <= svc /\ replay[1] \in Nat
      /\ Newest = replay[1] + Len(replay) - 1 /\ Head(replay) = replay[1]
      /\ Len(replay) \in Nat /\ Window \in Nat /\ (replay[1] = 0 \/ Len(replay) = Window)
    BY ReplayShape DEF ReplayOK
<1>2. CASE n = svc
    <2>1. Initial(n) = <<>>
        BY <1>2 DEF Initial
    <2> QED BY <1>1, <1>2, <2>1
<1>3. CASE n # svc /\ n < replay[1]
    <2>1. Initial(n) = <<svc>> /\ svc \in Revisions
        BY <1>1, <1>3 DEF Initial, TypeOK
    <2>2. n + Window <= svc
        BY <1>1, <1>3
    <2> QED BY <1>1, <1>3, <2>1, <2>2
<1>4. CASE n # svc /\ n >= replay[1]
    <2>1. Initial(n) = Later(n)
        BY <1>1, <1>4 DEF Initial
    <2>2. CASE n >= Newest
        BY <1>1, <1>4, <2>1, <2>2, LaterStates
    <2>3. CASE n < Newest
        <3> DEFINE b == Later(n)
        <3>1. b \in Seq(Revisions) /\ Len(b) = Newest - n /\ \A i \in 1..Len(b) : b[i] = n + i
            BY <1>4, <2>3, LaterStates
        <3> HIDE DEF b
        <3>2. 1 \in 1..Len(b) /\ b # <<>>
            BY <1>1, <2>3, <3>1
        <3>3. b[1] = n + 1
            BY <3>1, <3>2
        <3>4. /\ \A i \in 1..Len(b) : b[i] = b[1] + i - 1
              /\ b[1] > n /\ b[1] + Len(b) - 1 = Newest
            BY <1>1, <2>3, <3>1, <3>3
        <3> QED BY <1>1, <2>1, <3>1, <3>2, <3>3, <3>4 DEF b
    <2> QED BY <1>1, <2>2, <2>3
<1> QED BY <1>1, <1>2, <1>3, <1>4

-----------------------------------------------------------------------------
(* The hub *)

LEMMA InitInv == Init => Inv
<1> SUFFICES ASSUME Init PROVE Inv
    OBVIOUS
<1>1. <<0>> \in Seq(Revisions) /\ <<>> \in Seq(Revisions) /\ Len(<<0>>) = 1 /\ <<0>>[1] = 0
    BY ConstantsAssumption DEF Revisions
<1>2. TypeOK
    BY <1>1, ConstantsAssumption DEF Init, TypeOK, Revisions, Phases, Readers
<1>3. ReplayOK
    BY <1>1 DEF Init, ReplayOK, Newest
<1>4. \A s \in Streams : BatchOK(s) /\ QueueOK(s)
    BY DEF Init, BatchOK, QueueOK
<1> QED BY <1>2, <1>3, <1>4 DEF Inv

LEMMA PublishStep == ASSUME Inv, Publish PROVE Inv'
<1> USE DEF Inv
<1>1. /\ svc' = svc + 1 /\ svc < MaxRev /\ posted' = Append(posted, svc + 1)
      /\ UNCHANGED <<replay, revoked, phase, reader, since, batch, queue>>
    BY DEF Publish, streamVars
<1>2. /\ svc \in Nat /\ Newest \in Nat /\ posted \in Seq(Revisions) /\ Len(posted) \in Nat
      /\ svc + 1 \in Revisions /\ MaxRev \in Nat
    BY <1>1, ReplayShape, ConstantsAssumption DEF TypeOK, Revisions
<1>3. /\ posted' \in Seq(Revisions) /\ Len(posted') = Len(posted) + 1
      /\ \A i \in 1..Len(posted) : posted'[i] = posted[i]
      /\ posted'[Len(posted) + 1] = svc + 1 /\ Newest' = Newest
    BY <1>1, <1>2 DEF Newest
<1>4. TypeOK'
    BY <1>1, <1>2, <1>3 DEF TypeOK
<1>5. ReplayOK'
    BY <1>1, <1>2, <1>3 DEF ReplayOK
<1>6. \A s \in Streams : since[s] \in Nat
    BY DEF TypeOK, Revisions
<1>7. \A s \in Streams : Heard(s)' = Heard(s) /\ (batch[s] # <<>> /\ Heard(s) <= svc => Heard(s) <= svc + 1)
    <2> SUFFICES ASSUME NEW s \in Streams, batch[s] # <<>>, Heard(s) <= svc
                 PROVE  Heard(s) <= svc + 1
        BY <1>1 DEF Heard
    <2>1. batch[s] \in Seq(Revisions) /\ Revisions \subseteq Int
        BY DEF TypeOK, Revisions
    <2>2. Heard(s) \in Int
        <3>1. Len(batch[s]) \in Nat \ {0}
            BY <2>1
        <3>2. batch[s][1] \in Int
            <4>1. 1 \in 1..Len(batch[s])
                BY <3>1
            <4>2. batch[s][1] \in Revisions
                BY <2>1, <4>1
            <4> QED BY <2>1, <4>2
        <3> QED BY <3>1, <3>2 DEF Heard
    <2> QED BY <1>2, <2>2
<1>8. \A s \in Streams : BatchOK(s)'
    BY <1>1, <1>2, <1>6, <1>7, ConstantsAssumption DEF BatchOK
<1>9. \A s \in Streams : QueueOK(s)'
    BY <1>1, <1>3, <1>7 DEF QueueOK
<1> QED BY <1>4, <1>5, <1>8, <1>9

\* The replay after one more state.
LEMMA ReplayGrows ==
    ASSUME TypeOK, ReplayOK, NEW r \in Revisions, r = Newest + 1
    PROVE  LET q == Kept(Append(replay, r)) IN
           /\ q \in Seq(Revisions) /\ Len(q) \in 1..Window /\ q[Len(q)] = r
           /\ \A i \in 1..Len(q) : q[i] = q[1] + i - 1
           /\ q[1] = 0 \/ Len(q) = Window
<1>1. /\ replay \in Seq(Revisions) /\ Len(replay) \in Nat \ {0} /\ Len(replay) <= Window
      /\ Window \in Nat \ {0} /\ Newest = replay[1] + Len(replay) - 1 /\ replay[1] \in Nat
    BY ReplayShape DEF TypeOK
<1> DEFINE a == Append(replay, r)
<1>2. /\ a \in Seq(Revisions) /\ Len(a) = Len(replay) + 1 /\ a[Len(a)] = r
      /\ \A i \in 1..Len(replay) : a[i] = replay[i]
    BY <1>1
<1>3. a[1] = replay[1]
    BY <1>1, <1>2
<1>4. \A i \in 1..Len(a) : a[i] = replay[1] + i - 1
    <2> SUFFICES ASSUME NEW i \in 1..Len(a) PROVE a[i] = replay[1] + i - 1
        OBVIOUS
    <2>1. i \in 1..Len(replay) \/ i = Len(a)
        BY <1>1, <1>2
    <2>2. Len(a) = Len(replay) + 1 /\ a[Len(a)] = replay[1] + Len(replay)
        BY <1>1, <1>2
    <2>3. CASE i = Len(a)
        BY <1>1, <2>2, <2>3
    <2>4. CASE i \in 1..Len(replay)
        BY <1>2, <2>4 DEF ReplayOK
    <2> QED BY <2>1, <2>3, <2>4
<1>5. CASE Len(replay) < Window
    <2>1. Kept(a) = a
        BY <1>1, <1>2, <1>5 DEF Kept
    <2>2. replay[1] = 0
        BY <1>1, <1>5 DEF ReplayOK
    <2>3. Len(a) \in 1..Window
        BY <1>1, <1>2, <1>5
    <2> QED BY <1>2, <1>3, <1>4, <2>1, <2>2, <2>3
<1>6. CASE Len(replay) = Window
    <2> HIDE DEF a
    <2> DEFINE q == Tail(a)
    <2>1. Kept(a) = q
        BY <1>1, <1>2, <1>6 DEF Kept
    <2>2. q \in Seq(Revisions) /\ Len(q) = Window /\ \A i \in 1..Window : q[i] = a[i + 1]
        BY <1>1, <1>2, <1>6
    <2> HIDE DEF q
    <2>3. \A i \in 1..Window : i + 1 \in 1..Len(a) /\ q[i] = replay[1] + i
        BY <1>1, <1>2, <1>4, <1>6, <2>2
    <2>4. 1 \in 1..Window /\ Window \in 1..Window
        BY <1>1
    <2>5. q[1] = replay[1] + 1 /\ q[Window] = r
        BY <1>1, <1>6, <2>3, <2>4
    <2>6. \A i \in 1..Window : q[i] = q[1] + i - 1
        BY <1>1, <2>3, <2>5
    <2> QED BY <2>1, <2>2, <2>4, <2>5, <2>6 DEF a
<1> QED BY <1>1, <1>5, <1>6

LEMMA AcceptStep == ASSUME Inv, Accept PROVE Inv'
<1> USE DEF Inv
<1>1. /\ posted # <<>> /\ posted' = Tail(posted)
      /\ UNCHANGED <<svc, revoked, phase, reader, since, batch>>
    BY DEF Accept
<1>2. /\ posted \in Seq(Revisions) /\ Len(posted) \in Nat \ {0} /\ Newest \in Nat
      /\ Head(posted) = posted[1] /\ posted[1] \in Revisions
    BY <1>1, ReplayShape DEF TypeOK
<1>3. posted[1] = Newest + 1 /\ Revisions \subseteq Int
    <2>1. 1 \in 1..Len(posted)
        BY <1>2
    <2> QED BY <2>1 DEF ReplayOK, Revisions
<1>4. /\ replay' = Kept(Append(replay, posted[1]))
      /\ queue' = [s \in Streams |-> IF Subscribed(s) /\ reader[s] \notin revoked
                                     THEN posted[1] ELSE queue[s]]
    BY <1>2, <1>3 DEF Accept
<1>5. /\ replay' \in Seq(Revisions) /\ Len(replay') \in 1..Window /\ Newest' = Newest + 1
      /\ \A i \in 1..Len(replay') : replay'[i] = replay'[1] + i - 1
      /\ replay'[1] = 0 \/ Len(replay') = Window
    BY <1>2, <1>3, <1>4, ReplayGrows DEF Newest
<1>6. /\ posted' \in Seq(Revisions) /\ Len(posted') = Len(posted) - 1
      /\ \A i \in 1..Len(posted') : posted'[i] = posted[i + 1]
    BY <1>1, <1>2
<1>7. TypeOK'
    BY <1>1, <1>2, <1>4, <1>5, <1>6 DEF TypeOK
<1>8. ReplayOK'
    <2>1. \A i \in 1..Len(posted') : posted'[i] = Newest' + i
        BY <1>2, <1>5, <1>6 DEF ReplayOK
    <2> QED BY <1>1, <1>2, <1>5, <1>6, <2>1 DEF ReplayOK
<1>9. \A s \in Streams : BatchOK(s)'
    BY <1>1 DEF BatchOK, Heard
<1>10. \A s \in Streams : QueueOK(s)'
    <2>1. posted[1] # Nothing /\ posted[1] # Revoked
        BY <1>2, <1>3, ConstantsAssumption
    <2> QED BY <1>1, <1>4, <2>1, ConstantsAssumption DEF QueueOK, Subscribed
<1> QED BY <1>7, <1>8, <1>9, <1>10

LEMMA RevokeStep == ASSUME Inv, NEW d \in Devices, Revoke(d) PROVE Inv'
<1> USE DEF Inv
<1>1. /\ UNCHANGED <<svc, posted, replay, phase, reader, since, batch>>
      /\ revoked' = revoked \cup {d}
      /\ queue' = [s \in Streams |-> IF Subscribed(s) /\ reader[s] = d THEN Revoked ELSE queue[s]]
    BY DEF Revoke, Replaced
<1>2. TypeOK'
    BY <1>1 DEF TypeOK
<1>3. ReplayOK' /\ \A s \in Streams : BatchOK(s)'
    BY <1>1 DEF ReplayOK, Newest, BatchOK, Heard
<1>4. \A s \in Streams : QueueOK(s)'
    BY <1>1, ConstantsAssumption DEF QueueOK, Subscribed, Heard, Newest
<1> QED BY <1>2, <1>3, <1>4

-----------------------------------------------------------------------------
(* The streams *)

\* Only one stream changes.
LEMMA StreamStep ==
    ASSUME Inv, NEW s \in Streams, UNCHANGED <<svc, posted, replay, revoked>>,
           NEW p \in Phases, phase' = [phase EXCEPT ![s] = p],
           NEW d \in Readers, reader' = [reader EXCEPT ![s] = d],
           NEW n \in Revisions, since' = [since EXCEPT ![s] = n],
           NEW b \in Seq(Revisions), batch' = [batch EXCEPT ![s] = b],
           NEW q \in Revisions \cup {Nothing, Revoked}, queue' = [queue EXCEPT ![s] = q]
    PROVE  /\ phase'[s] = p /\ reader'[s] = d /\ since'[s] = n /\ batch'[s] = b /\ queue'[s] = q
           /\ Newest' = Newest
           /\ BatchOK(s)' /\ QueueOK(s)' => Inv'
<1> USE DEF Inv
<1>1. /\ phase'[s] = p /\ reader'[s] = d /\ since'[s] = n /\ batch'[s] = b /\ queue'[s] = q
      /\ \A t \in Streams : t # s => /\ phase'[t] = phase[t] /\ reader'[t] = reader[t]
                                     /\ since'[t] = since[t] /\ batch'[t] = batch[t]
                                     /\ queue'[t] = queue[t]
    BY DEF TypeOK
<1>2. Newest' = Newest
    BY DEF Newest
<1>3. TypeOK'
    BY DEF TypeOK
<1>4. ReplayOK'
    BY <1>2 DEF ReplayOK
<1>5. ASSUME NEW t \in Streams, t # s
      PROVE  BatchOK(t)' /\ QueueOK(t)'
    BY <1>1, <1>2, <1>5 DEF BatchOK, QueueOK, Heard
<1> QED BY <1>1, <1>2, <1>3, <1>4, <1>5

\* What a stream keeps is what it had.
LEMMA StreamTypes ==
    ASSUME Inv, NEW s \in Streams
    PROVE  /\ phase[s] \in Phases /\ reader[s] \in Readers /\ since[s] \in Revisions
           /\ batch[s] \in Seq(Revisions) /\ queue[s] \in Revisions \cup {Nothing, Revoked}
           /\ phase = [phase EXCEPT ![s] = phase[s]] /\ reader = [reader EXCEPT ![s] = reader[s]]
           /\ since = [since EXCEPT ![s] = since[s]] /\ batch = [batch EXCEPT ![s] = batch[s]]
           /\ queue = [queue EXCEPT ![s] = queue[s]]
           /\ 0 \in Revisions /\ <<>> \in Seq(Revisions) /\ Revisions \subseteq Int
BY ConstantsAssumption DEF Inv, TypeOK, Revisions

LEMMA EndStep ==
    ASSUME Inv, NEW s \in Streams, NEW how \in Phases \ {"open", "cut"}, End(s, how),
           UNCHANGED <<svc, posted, replay, revoked, reader>>
    PROVE  Inv'
<1>1. svc \in Nat
    BY DEF Inv, TypeOK, Revisions
<1>2. /\ phase'[s] = how /\ since'[s] = 0 /\ batch'[s] = <<>> /\ queue'[s] = Nothing
      /\ BatchOK(s)' /\ QueueOK(s)' => Inv'
    <2>1. /\ how \in Phases /\ 0 \in Revisions /\ <<>> \in Seq(Revisions) /\ reader[s] \in Readers
          /\ reader' = [reader EXCEPT ![s] = reader[s]] /\ Nothing \in Revisions \cup {Nothing, Revoked}
        BY StreamTypes
    <2>2. /\ phase' = [phase EXCEPT ![s] = how] /\ since' = [since EXCEPT ![s] = 0]
          /\ batch' = [batch EXCEPT ![s] = <<>>] /\ queue' = [queue EXCEPT ![s] = Nothing]
        BY DEF End
    <2> QED BY <2>1, <2>2, StreamStep
<1>3. BatchOK(s)' /\ QueueOK(s)'
    BY <1>1, <1>2 DEF BatchOK, QueueOK
<1> QED BY <1>2, <1>3

LEMMA AdmitStep ==
    ASSUME Inv, NEW s \in Streams, NEW d \in Readers, NEW n \in Revisions, Admit(s, d, n)
    PROVE  Inv'
<1>1. /\ phase[s] # "open" /\ n <= svc
      /\ phase' = [phase EXCEPT ![s] = "admitted"] /\ reader' = [reader EXCEPT ![s] = d]
      /\ since' = [since EXCEPT ![s] = n]
      /\ UNCHANGED <<svc, posted, replay, revoked, batch, queue>>
    BY DEF Admit
<1>2. batch[s] = <<>> /\ queue[s] = Nothing
    BY <1>1 DEF Inv, QueueOK
<1>3. "admitted" \in Phases
    BY DEF Phases
<1>4. /\ phase'[s] = "admitted" /\ since'[s] = n /\ batch'[s] = <<>> /\ queue'[s] = Nothing
      /\ BatchOK(s)' /\ QueueOK(s)' => Inv'
    <2>1. /\ batch' = [batch EXCEPT ![s] = <<>>] /\ <<>> \in Seq(Revisions)
          /\ queue' = [queue EXCEPT ![s] = Nothing] /\ Nothing \in Revisions \cup {Nothing, Revoked}
        BY <1>1, <1>2, StreamTypes
    <2>2. UNCHANGED <<svc, posted, replay, revoked>>
        BY <1>1
    <2>3. /\ phase' = [phase EXCEPT ![s] = "admitted"] /\ reader' = [reader EXCEPT ![s] = d]
          /\ since' = [since EXCEPT ![s] = n]
        BY <1>1
    <2> QED BY <1>3, <2>1, <2>2, <2>3, StreamStep
<1>5. BatchOK(s)' /\ QueueOK(s)'
    BY <1>1, <1>4 DEF BatchOK, QueueOK
<1> QED BY <1>4, <1>5

\* A stream that is not revoked and has just got the batch b for what it was told, n.
LEMMA CollectedStep ==
    ASSUME Inv, NEW s \in Streams, reader[s] \notin revoked,
           UNCHANGED <<svc, posted, replay, revoked>>,
           NEW d \in Readers, d = reader[s], reader' = [reader EXCEPT ![s] = d],
           NEW p \in Phases, p = "open", phase' = [phase EXCEPT ![s] = p],
           NEW n \in Revisions, n <= svc, since' = [since EXCEPT ![s] = n],
           NEW b \in Seq(Revisions), batch' = [batch EXCEPT ![s] = b],
           NEW q \in Revisions \cup {Nothing, Revoked}, q = Nothing,
           queue' = [queue EXCEPT ![s] = q],
           \A i \in 1..Len(b) : b[i] = b[1] + i - 1,
           b = <<>> => n >= Newest,
           b # <<>> => /\ b[1] > n /\ b[1] + Len(b) - 1 \in Newest..svc
                       /\ b[1] > n + 1 => n + Window <= svc
    PROVE  Inv'
<1>1. n \in Nat /\ svc \in Nat /\ Newest \in Nat
    BY ReplayShape DEF Inv, Revisions
<1>2. /\ phase'[s] = p /\ reader'[s] = d /\ since'[s] = n /\ batch'[s] = b /\ queue'[s] = q
      /\ Newest' = Newest
      /\ BatchOK(s)' /\ QueueOK(s)' => Inv'
    BY StreamStep
<1>3. BatchOK(s)'
    BY <1>1, <1>2 DEF BatchOK, Heard
<1>4. QueueOK(s)'
    <2>1. Heard(s)' >= Newest
        BY <1>1, <1>2 DEF Heard
    <2> QED BY <1>2, <2>1, ConstantsAssumption DEF QueueOK
<1> QED BY <1>2, <1>3, <1>4

\* The stream starts, or goes on, with what is new for it.
Collect(s) ==
    /\ phase' = [phase EXCEPT ![s] = "open"]
    /\ batch' = [batch EXCEPT ![s] = Initial(since[s])]
    /\ queue' = [queue EXCEPT ![s] = Nothing]
    /\ UNCHANGED <<svc, posted, replay, revoked, reader, since>>

LEMMA CollectStep ==
    ASSUME Inv, NEW s \in Streams, reader[s] \notin revoked, Collect(s)
    PROVE  Inv'
<1>1. since[s] \in Nat /\ since[s] <= svc /\ since[s] \in Revisions
    BY DEF Inv, BatchOK, TypeOK, Revisions
<1>2. PICK n \in Revisions, b \in Seq(Revisions) :
        /\ n = since[s] /\ n <= svc /\ b = Initial(n)
        /\ \A i \in 1..Len(b) : b[i] = b[1] + i - 1
        /\ b = <<>> => n >= Newest
        /\ b # <<>> => /\ b[1] > n /\ b[1] + Len(b) - 1 \in Newest..svc
                       /\ b[1] > n + 1 => n + Window <= svc
    BY <1>1, InitialStates DEF Inv
<1>3. PICK p \in Phases, q \in Revisions \cup {Nothing, Revoked}, d \in Readers :
        p = "open" /\ q = Nothing /\ d = reader[s]
    BY StreamTypes DEF Phases
<1>4. /\ reader' = [reader EXCEPT ![s] = d] /\ phase' = [phase EXCEPT ![s] = p]
      /\ since' = [since EXCEPT ![s] = n] /\ batch' = [batch EXCEPT ![s] = b]
      /\ queue' = [queue EXCEPT ![s] = q] /\ UNCHANGED <<svc, posted, replay, revoked>>
    BY <1>2, <1>3, StreamTypes DEF Collect
<1>5. /\ n <= svc /\ p = "open" /\ q = Nothing /\ d = reader[s]
      /\ \A i \in 1..Len(b) : b[i] = b[1] + i - 1
      /\ b = <<>> => n >= Newest
      /\ b # <<>> => /\ b[1] > n /\ b[1] + Len(b) - 1 \in Newest..svc
                     /\ b[1] > n + 1 => n + Window <= svc
    BY <1>2, <1>3
<1> QED BY <1>4, <1>5, CollectedStep

LEMMA SubscribeStep == ASSUME Inv, NEW s \in Streams, Subscribe(s) PROVE Inv'
<1>1. /\ phase[s] = "admitted" /\ UNCHANGED <<svc, posted, replay, revoked, reader, queue>>
      /\ batch[s] = <<>> /\ queue[s] = Nothing
    BY DEF Subscribe, Inv, QueueOK
<1>2. CASE reader[s] \in revoked
    <2>1. End(s, "told_revoked")
        BY <1>1, <1>2, StreamTypes DEF Subscribe, End
    <2>2. "told_revoked" \in Phases \ {"open", "cut"}
        BY DEF Phases
    <2> QED BY <1>1, <2>1, <2>2, EndStep
<1>3. CASE reader[s] \notin revoked
    <2>1. queue' = [queue EXCEPT ![s] = Nothing]
        BY <1>1, StreamTypes
    <2>2. Collect(s)
        BY <1>1, <1>3, <2>1 DEF Subscribe, Collect
    <2> QED BY <1>3, <2>2, CollectStep
<1> QED BY <1>2, <1>3

\* Telling the first of a batch leaves a batch, and is what the feed allows.
LEMMA TellStep ==
    ASSUME Inv, NEW s \in Streams, Tell(s), reader[s] \notin revoked
    PROVE  /\ Inv'
           /\ since' = [since EXCEPT ![s] = batch[s][1]]
           /\ batch[s][1] \in (since[s] + 1)..svc
           /\ batch[s][1] > since[s] + 1 => since[s] + Window <= svc
<1> DEFINE b == batch[s]
           c == Tail(batch[s])
<1>1. /\ phase[s] = "open" /\ b # <<>>
      /\ UNCHANGED <<svc, posted, replay, revoked, reader, phase, queue>>
      /\ since' = [since EXCEPT ![s] = Head(b)] /\ batch' = [batch EXCEPT ![s] = c]
    BY DEF Tell, Forbidden
<1>2. /\ since[s] \in Nat /\ b \in Seq(Revisions) /\ Revisions \subseteq Int /\ svc \in Nat
      /\ Revisions \subseteq Nat /\ Newest \in Nat
    BY StreamTypes, ReplayShape DEF Inv, TypeOK, Revisions
<1>3. /\ Len(b) \in Nat \ {0} /\ Head(b) = b[1] /\ b[1] \in Revisions
      /\ c \in Seq(Revisions) /\ Len(c) = Len(b) - 1 /\ \A i \in 1..Len(c) : c[i] = b[i + 1]
    BY <1>1, <1>2
<1>4. /\ \A i \in 1..Len(b) : b[i] = b[1] + i - 1
      /\ b[1] > since[s] /\ b[1] + Len(b) - 1 <= svc
      /\ b[1] > since[s] + 1 => since[s] + Window <= svc
    BY <1>1 DEF Inv, BatchOK, Heard
<1>5. \A i \in 1..Len(c) : c[i] = b[1] + i
    <2>1. \A i \in 1..Len(c) : i + 1 \in 1..Len(b) /\ i \in Int
        BY <1>3
    <2>2. b[1] \in Int
        BY <1>2, <1>3
    <2> QED BY <1>3, <1>4, <2>1, <2>2
<1>6. /\ phase'[s] = "open" /\ reader'[s] = reader[s] /\ since'[s] = b[1] /\ batch'[s] = c
      /\ queue'[s] = queue[s] /\ Newest' = Newest
      /\ BatchOK(s)' /\ QueueOK(s)' => Inv'
    <2>1. /\ reader[s] \in Readers /\ reader' = [reader EXCEPT ![s] = reader[s]]
          /\ "open" \in Phases /\ phase' = [phase EXCEPT ![s] = "open"]
          /\ queue[s] \in Revisions \cup {Nothing, Revoked} /\ queue' = [queue EXCEPT ![s] = queue[s]]
        BY <1>1, StreamTypes DEF Phases
    <2>2. /\ since' = [since EXCEPT ![s] = b[1]] /\ b[1] \in Revisions
          /\ batch' = [batch EXCEPT ![s] = c] /\ c \in Seq(Revisions)
        BY <1>1, <1>3
    <2>3. UNCHANGED <<svc, posted, replay, revoked>>
        BY <1>1
    <2> HIDE DEF b, c
    <2> QED BY <2>1, <2>2, <2>3, StreamStep
<1> HIDE DEF b, c
<1>7. b[1] \in Nat /\ Len(b) \in Nat \ {0} /\ Len(c) = Len(b) - 1
    BY <1>2, <1>3
<1>8. c # <<>> => c[1] = b[1] + 1 /\ Len(c) \in Nat \ {0}
    <2> SUFFICES ASSUME c # <<>> PROVE c[1] = b[1] + 1 /\ Len(c) \in Nat \ {0}
        OBVIOUS
    <2>1. Len(c) \in Nat \ {0}
        BY <1>3
    <2> QED BY <1>5, <2>1
<1>9. BatchOK(s)'
    <2>1. since'[s] <= svc
        BY <1>2, <1>4, <1>6, <1>7
    <2>2. \A i \in 1..Len(c) : c[i] = c[1] + i - 1
        <3> SUFFICES ASSUME NEW i \in 1..Len(c) PROVE c[i] = c[1] + i - 1
            OBVIOUS
        <3>1. c # <<>> /\ i \in Int
            BY <1>3, <1>7
        <3> QED BY <1>5, <1>7, <1>8, <3>1
    <2>3. c # <<>> => c[1] > b[1] /\ c[1] + Len(c) - 1 <= svc /\ ~(c[1] > b[1] + 1)
        BY <1>2, <1>4, <1>7, <1>8
    <2> QED BY <1>1, <1>6, <2>1, <2>2, <2>3 DEF BatchOK, Heard
<1>10. QueueOK(s)'
    <2>1. Heard(s)' = b[1] + Len(b) - 1
        <3>1. CASE c = <<>>
            <4>1. Len(b) = 1
                BY <1>7, <3>1
            <4> QED BY <1>6, <1>7, <3>1, <4>1 DEF Heard
        <3>2. CASE c # <<>>
            BY <1>6, <1>7, <1>8, <3>2 DEF Heard
        <3> QED BY <3>1, <3>2
    <2>2. Heard(s) = b[1] + Len(b) - 1
        BY <1>1 DEF Heard, b
    <2>3. /\ reader[s] \in revoked <=> queue[s] = Revoked
          /\ queue[s] = Nothing => Heard(s) >= Newest
        BY <1>1 DEF Inv, QueueOK
    <2> QED BY <1>1, <1>6, <2>1, <2>2, <2>3 DEF QueueOK
<1>11. b[1] \in (since[s] + 1)..svc
    BY <1>2, <1>4, <1>7
<1>12. since' = [since EXCEPT ![s] = b[1]]
    BY <1>1, <1>3
<1> QED BY <1>4, <1>6, <1>9, <1>10, <1>11, <1>12 DEF b


LEMMA WakeStep == ASSUME Inv, NEW s \in Streams, Wake(s) PROVE Inv'
<1>1. /\ phase[s] = "open" /\ batch[s] = <<>> /\ queue[s] # Nothing
      /\ UNCHANGED <<svc, posted, replay, revoked, reader>>
      /\ reader[s] \in revoked <=> queue[s] = Revoked
    BY DEF Wake, Inv, QueueOK
<1>2. CASE queue[s] = Revoked
    <2>1. End(s, "told_revoked")
        BY <1>2 DEF Wake
    <2>2. "told_revoked" \in Phases \ {"open", "cut"}
        BY DEF Phases
    <2> QED BY <1>1, <2>1, <2>2, EndStep
<1>3. CASE queue[s] # Revoked
    <2>1. phase' = [phase EXCEPT ![s] = "open"]
        BY <1>1, <1>3, StreamTypes DEF Wake
    <2>2. Collect(s)
        BY <1>1, <1>3, <2>1 DEF Wake, Collect
    <2> QED BY <1>1, <1>3, <2>2, CollectStep
<1> QED BY <1>2, <1>3

LEMMA DisconnectStep == ASSUME Inv, NEW s \in Streams, Disconnect(s) PROVE Inv'
<1>1. End(s, "closed") /\ UNCHANGED <<svc, posted, replay, revoked, reader>>
    BY DEF Disconnect
<1>2. "closed" \in Phases \ {"open", "cut"}
    BY DEF Phases
<1> QED BY <1>1, <1>2, EndStep

LEMMA TellEndStep == ASSUME Inv, NEW s \in Streams, Tell(s), reader[s] \in revoked PROVE Inv'
<1>1. End(s, "told_revoked") /\ UNCHANGED <<svc, posted, replay, revoked, reader>>
    BY DEF Tell, Forbidden
<1>2. "told_revoked" \in Phases \ {"open", "cut"}
    BY DEF Phases
<1> QED BY <1>1, <1>2, EndStep

LEMMA NextInv == Inv /\ [Next]_vars => Inv'
<1> SUFFICES ASSUME Inv, [Next]_vars PROVE Inv'
    OBVIOUS
<1>1. CASE Publish
    BY <1>1, PublishStep
<1>2. CASE Accept
    BY <1>2, AcceptStep
<1>3. ASSUME NEW d \in Devices, Revoke(d) PROVE Inv'
    BY <1>3, RevokeStep
<1>4. ASSUME NEW s \in Streams, NEW d \in Readers, NEW n \in Revisions, Admit(s, d, n) PROVE Inv'
    BY <1>4, AdmitStep
<1>5. ASSUME NEW s \in Streams, Subscribe(s) PROVE Inv'
    BY <1>5, SubscribeStep
<1>6. ASSUME NEW s \in Streams, Tell(s) PROVE Inv'
    BY <1>6, TellStep, TellEndStep
<1>7. ASSUME NEW s \in Streams, Wake(s) PROVE Inv'
    BY <1>7, WakeStep
<1>8. ASSUME NEW s \in Streams, Disconnect(s) PROVE Inv'
    BY <1>8, DisconnectStep
<1>9. CASE UNCHANGED vars
    BY <1>9 DEF Inv, TypeOK, ReplayOK, Newest, BatchOK, QueueOK, Heard, vars, streamVars
<1> QED BY <1>1, <1>2, <1>3, <1>4, <1>5, <1>6, <1>7, <1>8, <1>9 DEF Next

\* Inv is invariant.
LEMMA Safe == Spec => []Inv
BY InitInv, NextInv, PTL DEF Spec

-----------------------------------------------------------------------------
(* Theorems *)

\* Every variable keeps its type.
THEOREM HubTypes == Spec => []TypeOK
<1>1. Inv => TypeOK
    BY DEF Inv
<1> QED BY <1>1, Safe, PTL

\* The Server never ends a stream without the frame that says why: the queue of
\* every stream of a revoked device holds the revocation, which no accepted state
\* replaces (MediaEventHub.revoke and _accept).
THEOREM RevokedAreTold == Spec => []RevokedIsTold
<1>1. Inv => RevokedIsTold
    BY DEF Inv, QueueOK, RevokedIsTold
<1> QED BY <1>1, Safe, PTL

\* A stream that waits knows the newest state, unless one is posted or queued.
THEOREM NothingLost == Spec => []NoLostState
<1>1. Inv => NoLostState
    <2> SUFFICES ASSUME Inv, NEW s \in Streams, phase[s] = "open", batch[s] = <<>>,
                        queue[s] = Nothing, posted = <<>>
                 PROVE  since[s] = svc
        BY DEF NoLostState
    <2>1. since[s] >= Newest /\ since[s] <= svc
        BY DEF Inv, QueueOK, BatchOK, Heard
    <2>2. Newest = svc /\ svc \in Nat /\ since[s] \in Nat
        BY ReplayShape DEF Inv, TypeOK, Revisions
    <2> QED BY <2>1, <2>2
<1> QED BY <1>1, Safe, PTL

\* No step of a stream that stays open tells the reader of a revoked device
\* another state, whatever was collected or queued for it before.
THEOREM RevokedToldNothing == Spec => RevokedHearsNothing
<1> DEFINE Quiet == \A s \in Streams :
        reader[s] \in revoked /\ phase[s] = "open" /\ phase'[s] = "open" => since'[s] = since[s]
<1>1. Inv /\ [Next]_vars => [Quiet]_vars
    <2> SUFFICES ASSUME Inv, [Next]_vars, NEW s \in Streams,
                        reader[s] \in revoked, phase[s] = "open", phase'[s] = "open"
                 PROVE  since'[s] = since[s]
        BY DEF vars
    <2>0. phase \in [Streams -> Phases] /\ since \in [Streams -> Revisions]
        BY DEF Inv, TypeOK
    <2>1. CASE Publish
        BY <2>1 DEF Publish, streamVars
    <2>2. CASE Accept
        BY <2>2 DEF Accept
    <2>3. ASSUME NEW d \in Devices, Revoke(d) PROVE since'[s] = since[s]
        BY <2>3 DEF Revoke
    <2>4. ASSUME NEW t \in Streams, NEW d \in Readers, NEW n \in Revisions, Admit(t, d, n)
          PROVE  since'[s] = since[s]
        BY <2>0, <2>4 DEF Admit
    <2>5. ASSUME NEW t \in Streams, Subscribe(t) PROVE since'[s] = since[s]
        BY <2>0, <2>5 DEF Subscribe
    <2>6. ASSUME NEW t \in Streams, Tell(t) PROVE since'[s] = since[s]
        BY <2>0, <2>6 DEF Tell, Forbidden, End
    <2>7. ASSUME NEW t \in Streams, Wake(t) PROVE since'[s] = since[s]
        BY <2>0, <2>7 DEF Wake, End
    <2>8. ASSUME NEW t \in Streams, Disconnect(t) PROVE since'[s] = since[s]
        BY <2>0, <2>8 DEF Disconnect, End
    <2>9. CASE UNCHANGED vars
        BY <2>9 DEF vars, streamVars
    <2> QED BY <2>1, <2>2, <2>3, <2>4, <2>5, <2>6, <2>7, <2>8, <2>9 DEF Next
<1> QED BY <1>1, Safe, PTL DEF Spec, RevokedHearsNothing


-----------------------------------------------------------------------------
(* The hub implements the latest-value feed, step by step *)

Reading == {s \in Streams : phase[s] \in {"admitted", "open"}}

\* The end of a stream that was being read.
LEMMA EndIsClose ==
    ASSUME TypeOK, NEW s \in Streams, s \in Reading, UNCHANGED svc,
           NEW how \in Phases \ {"admitted", "open"}, phase' = [phase EXCEPT ![s] = how],
           since' = [since EXCEPT ![s] = 0]
    PROVE  Feed!FeedClose(s)
<1>1. Reading' = Reading \ {s}
    BY DEF TypeOK, Reading
<1> QED BY <1>1 DEF Feed!FeedClose, Reading

\* Every step of the hub is a step of the feed, or one that its readers do not see.
LEMMA FeedStep == Inv /\ [Next]_vars => [Feed!FeedNext]_Feed!feedVars
<1> SUFFICES ASSUME Inv, [Next]_vars PROVE Feed!FeedNext \/ UNCHANGED <<svc, Reading, since>>
    BY DEF Feed!feedVars, Reading
<1>0. /\ TypeOK /\ phase \in [Streams -> Phases] /\ since \in [Streams -> Revisions]
      /\ {"told_revoked", "cut", "closed"} \subseteq Phases \ {"admitted", "open"}
    BY DEF Inv, TypeOK, Phases
<1>1. CASE Publish
    BY <1>1 DEF Publish, streamVars, Feed!FeedNext, Feed!FeedPublish
<1>2. CASE Accept
    BY <1>2 DEF Accept, Reading
<1>3. ASSUME NEW d \in Devices, Revoke(d) PROVE UNCHANGED <<svc, Reading, since>>
    BY <1>3 DEF Revoke, Reading
<1>4. ASSUME NEW s \in Streams, NEW d \in Readers, NEW n \in Revisions, Admit(s, d, n)
      PROVE  Feed!FeedOpen(s)
    <2>1. s \notin Reading /\ Reading' = Reading \cup {s}
        BY <1>0, <1>4 DEF Admit, Reading
    <2>2. n \in 0..svc /\ since' = [since EXCEPT ![s] = n] /\ UNCHANGED svc
        BY <1>4 DEF Admit, Revisions, Inv, TypeOK
    <2> QED BY <2>1, <2>2 DEF Feed!FeedOpen, Reading
<1>5. ASSUME NEW s \in Streams, Subscribe(s)
      PROVE  Feed!FeedClose(s) \/ UNCHANGED <<svc, Reading, since>>
    <2>1. CASE reader[s] \in revoked
        <3>1. s \in Reading /\ phase' = [phase EXCEPT ![s] = "told_revoked"]
            BY <1>5, <2>1 DEF Subscribe, Reading
        <3>2. since' = [since EXCEPT ![s] = 0] /\ UNCHANGED svc
            BY <1>5, <2>1 DEF Subscribe
        <3> QED BY <1>0, <3>1, <3>2, EndIsClose
    <2>2. CASE reader[s] \notin revoked
        BY <1>0, <1>5, <2>2 DEF Subscribe, Reading
    <2> QED BY <2>1, <2>2
<1>6. ASSUME NEW s \in Streams, Tell(s) PROVE Feed!FeedClose(s) \/ Feed!FeedTell(s)
    <2>1. s \in Reading
        BY <1>6 DEF Tell, Reading
    <2>2. CASE reader[s] \in revoked
        <3>1. End(s, "told_revoked") /\ UNCHANGED svc
            BY <1>6, <2>2 DEF Tell, Forbidden
        <3> QED BY <1>0, <2>1, <3>1, EndIsClose DEF End
    <2>3. CASE reader[s] \notin revoked
        <3>1. UNCHANGED <<svc, Reading>>
            BY <1>6, <2>3 DEF Tell, Forbidden, Reading
        <3>2. \E r \in (since[s] + 1)..svc :
                /\ r > since[s] + 1 => since[s] + Window <= svc
                /\ since' = [since EXCEPT ![s] = r]
            BY <1>6, <2>3, TellStep
        <3> QED BY <2>1, <3>1, <3>2 DEF Feed!FeedTell, Reading
    <2> QED BY <2>2, <2>3
<1>7. ASSUME NEW s \in Streams, Wake(s)
      PROVE  Feed!FeedClose(s) \/ UNCHANGED <<svc, Reading, since>>
    <2>1. s \in Reading /\ UNCHANGED svc
        BY <1>7 DEF Wake, Reading
    <2>2. \/ End(s, "told_revoked") \/ End(s, "cut") \/ UNCHANGED <<svc, phase, since>>
        BY <1>7 DEF Wake
    <2>3. CASE End(s, "told_revoked") \/ End(s, "cut")
        BY <1>0, <2>1, <2>3, EndIsClose DEF End
    <2> QED BY <2>2, <2>3 DEF Reading
<1>8. ASSUME NEW s \in Streams, Disconnect(s) PROVE Feed!FeedClose(s)
    <2>1. s \in Reading /\ UNCHANGED svc /\ End(s, "closed")
        BY <1>8 DEF Disconnect, Reading
    <2> QED BY <1>0, <2>1, EndIsClose DEF End
<1>9. CASE UNCHANGED vars
    BY <1>9 DEF vars, streamVars, Reading
<1> QED BY <1>1, <1>2, <1>3, <1>4, <1>5, <1>6, <1>7, <1>8, <1>9 DEF Next, Feed!FeedNext

\* What a stream is told only grows, is never ahead of the service and skips states
\* only over a whole window: the safety part of ImplementsFeed.
THEOREM ToldInOrder == Spec => Feed!FeedSafety
<1>1. Init => Feed!FeedInit
    BY DEF Init, Feed!FeedInit
<1> QED BY <1>1, FeedStep, Safe, PTL DEF Spec, Feed!FeedSafety

-----------------------------------------------------------------------------
(* The reader of the feed on the phone (MediaConnection): for any covers,  *)
(* any number of restarts of the Server, visits of the page, failures and  *)
(* events that wait.                                                       *)

\* A state that some process of the Server has published.
Published(st) == st \in States /\ st[1] <= epoch /\ st[2] <= last[st[1]]

\* What is shown was published, and is what was applied last.  What was read is of
\* the past; an answer that was not yet applied is of the running process.
SeenOK ==
    /\ shown # NoState => Published(shown) /\ shown[2] > 0
    /\ lastApplied # -1 => shown # NoState /\ lastApplied = shown[2]
    /\ \A k \in Requests :
          req[k].kind = "state" => Published(req[k].state) /\ req[k].state[1] = epoch
    /\ \A i \in DOMAIN ready : Published(ready[i])
    /\ \A i \in DOMAIN waiting : Published(waiting[i])
    /\ peer <= epoch

\* Where the loop is, what is under way.
LoopOK ==
    /\ stream # "none" => loop = "streaming"
    /\ stream = "opening" => gate = "none" /\ req["recovery"] = Idle
    /\ stream = "open" => gate \in {"pending", "passed"}
    /\ loop \notin {"streaming", "closing"} => gate = "none" /\ req["recovery"] = Idle
    /\ loop = "closing" => reason # "none"
    /\ gate # "pending" => waiting = <<>>
    /\ gate = "passed" => lastApplied > 0
    /\ ~Active =>
           /\ req = [k \in Requests |-> Idle]
           /\ stream = "none" /\ ~straggler /\ ready = <<>> /\ coverTries = 0

\* Before anything was applied in this visit of the page, all that may still be
\* applied is at least as new as what an earlier visit has left on the screen.
ReturnOK ==
    lastApplied = -1 =>
        /\ \A k \in Requests : req[k].kind = "state" =>
              req[k].state[1] > shown[1] \/ req[k].state[2] >= shown[2]
        /\ \A i \in DOMAIN ready : ready[i][1] > shown[1]
        /\ \A i \in DOMAIN waiting : waiting[i][1] > shown[1]
        /\ stream = "opening" => epoch > shown[1]
        /\ stream = "open" \/ straggler => peer > shown[1]

\* What the stream has been told of is applied or is still to be applied.
ToldOK ==
    stream # "none" /\ told # 0 =>
        \/ lastApplied >= told
        \/ \E i \in DOMAIN ready : ready[i][2] >= told
        \/ \E i \in DOMAIN waiting : waiting[i][2] >= told

\* The picture and the state it was loaded for.
CoverOK ==
    /\ lastApplied > 0 => loadedPath = CoverOf[lastApplied]
    /\ starts <= 1 => artwork \in {NoCover, loadedPath}
    /\ starts = 0 => ~Active /\ artwork = NoCover /\ coverTries = 0

\* Only the end of a process makes the Server refuse what it has told itself.
RefusalOK ==
    epoch = 1 => /\ stream # "none" => told <= last[1]
                 /\ reason # "refused" /\ loop # "ended"

PageInv == ConnectionTypeOK /\ SeenOK /\ LoopOK /\ ReturnOK /\ ToldOK /\ CoverOK /\ RefusalOK

-----------------------------------------------------------------------------
LEMMA PageInitInv == ConnectionInit => PageInv
<1> SUFFICES ASSUME ConnectionInit PROVE PageInv
    OBVIOUS
<1>1. 0 \in StateRevisions /\ 1 \in Epochs /\ 0 \in 0..MaxStarts /\ 0 \in 0..MaxFaults
    BY ConnectionAssumption DEF StateRevisions, Epochs
<1>2. ConnectionTypeOK
    <2>1. <<>> \in Seq(States) /\ Idle \in Request
        BY DEF Idle, Request
    <2>2. 0 \in 0..ArtworkAttempts
        BY DEF ArtworkAttempts
    <2> QED BY <1>1, <2>1, <2>2 DEF ConnectionInit, ConnectionTypeOK, Loops, Reasons
<1>3. SeenOK /\ LoopOK /\ ReturnOK
    <2>1. /\ \A k \in Requests : req[k].kind # "state" /\ req[k] = Idle
          /\ "recovery" \in Requests
        BY DEF ConnectionInit, Idle, Requests
    <2>2. \A i : i \notin DOMAIN <<>>
        OBVIOUS
    <2>3. SeenOK
        BY <2>1, <2>2 DEF ConnectionInit, SeenOK
    <2>4. LoopOK /\ ReturnOK
        BY <2>1, <2>2 DEF ConnectionInit, LoopOK, ReturnOK, Active
    <2> QED BY <2>3, <2>4
<1>4. ToldOK /\ CoverOK /\ RefusalOK
    BY <1>1 DEF ConnectionInit, ToldOK, CoverOK, RefusalOK, Active
<1> QED BY <1>2, <1>3, <1>4 DEF PageInv

\* What the constants and the types say of numbers.
LEMMA Numbers ==
    ASSUME ConnectionTypeOK
    PROVE  /\ epoch \in Nat /\ epoch > 0 /\ peer \in Nat /\ peer > 0 /\ told \in Nat
           /\ lastApplied \in Int /\ lastApplied >= -1 /\ coverTries \in Nat
           /\ \A e \in Epochs : e \in Nat /\ e > 0 /\ last[e] \in Nat /\ last[e] \in StateRevisions
           /\ last[epoch] \in Nat /\ last[peer] \in Nat
           /\ \A st \in States :
                 st = <<st[1], st[2]>> /\ st[1] \in Epochs /\ st[2] \in StateRevisions
                                 /\ st[1] \in Nat /\ st[1] > 0 /\ st[2] \in Nat
                                 /\ st # NoState
           /\ shown[1] \in Nat /\ shown[2] \in Nat
           /\ starts \in Nat /\ faults \in Nat
           /\ 0 \in StateRevisions /\ 1 \in Epochs /\ StateRevisions \subseteq Nat
<1>1. StateRevisions \subseteq Nat /\ 0 \in StateRevisions /\ 1 \in Epochs
      /\ \A e \in Epochs : e \in Nat /\ e > 0
    BY ConnectionAssumption DEF StateRevisions, Epochs
<1>2. \A st \in States : st = <<st[1], st[2]>> /\ st[1] \in Epochs /\ st[2] \in StateRevisions
                         /\ st[1] \in Nat /\ st[1] > 0 /\ st[2] \in Nat /\ st # NoState
    <2>1. ASSUME NEW st \in Epochs \X StateRevisions
          PROVE  st = <<st[1], st[2]>> /\ st[1] \in Epochs /\ st[2] \in StateRevisions
        OBVIOUS
    <2>2. NoState[1] = 0
        BY DEF NoState
    <2>3. ASSUME NEW st \in States
          PROVE  /\ st = <<st[1], st[2]>> /\ st[1] \in Epochs /\ st[2] \in StateRevisions
                 /\ st[1] \in Nat /\ st[1] > 0 /\ st[2] \in Nat
        BY <1>1, <2>1 DEF States
    <2>4. \A st \in States : st # NoState
        BY <2>2, <2>3
    <2> QED BY <2>3, <2>4
<1>3. \A e \in Epochs : last[e] \in StateRevisions
    BY DEF ConnectionTypeOK
<1>4. shown[1] \in Nat /\ shown[2] \in Nat
    BY <1>2 DEF ConnectionTypeOK, NoState
<1>5. /\ epoch \in Epochs /\ peer \in Epochs /\ told \in StateRevisions
      /\ lastApplied \in {-1} \cup StateRevisions /\ coverTries \in 0..ArtworkAttempts
      /\ starts \in 0..MaxStarts /\ faults \in 0..MaxFaults
    BY DEF ConnectionTypeOK
<1>6. coverTries \in Nat /\ starts \in Nat /\ faults \in Nat
    BY <1>5, ConnectionAssumption DEF ArtworkAttempts
<1>7. lastApplied \in Int /\ lastApplied >= -1
    BY <1>1, <1>5
<1> QED BY <1>1, <1>2, <1>3, <1>4, <1>5, <1>6, <1>7

-----------------------------------------------------------------------------
(* The Server and the requests *)

\* What was published stays published.
LEMMA StaysPublished ==
    ASSUME ConnectionTypeOK, epoch' >= epoch, epoch' \in Nat,
           \A e \in Epochs : last'[e] \in Nat /\ last'[e] >= last[e],
           NEW st, Published(st)
    PROVE  Published(st)'
<1>1. st \in States /\ st[1] \in Epochs /\ st[1] \in Nat /\ st[2] \in Nat
      /\ st[1] <= epoch /\ st[2] <= last[st[1]] /\ last[st[1]] \in Nat /\ epoch \in Nat
    BY Numbers DEF Published
<1>2. last'[st[1]] >= last[st[1]] /\ last'[st[1]] \in Nat
    BY <1>1
<1> QED BY <1>1, <1>2 DEF Published

LEMMA ServerStep ==
    PageInv /\ (PublishState \/ Restart \/ Unpair) => PageInv'
<1> SUFFICES ASSUME PageInv, PublishState \/ Restart \/ Unpair
             PROVE  PageInv'
    OBVIOUS
<1> USE DEF PageInv
<1>1. /\ UNCHANGED <<starts, loop, reason, req, readerVars, eventVars, screenVars, faults>>
      /\ epoch' \in Epochs /\ epoch' >= epoch /\ last' \in [Epochs -> StateRevisions]
      /\ paired' \in BOOLEAN
      /\ \A e \in Epochs : last'[e] >= last[e] /\ last'[e] \in Nat
      /\ epoch' # epoch => \A k \in Requests : req[k].kind # "state"
    <2>1. CASE PublishState
        <3>1. last[epoch] + 1 \in StateRevisions
            <4>1. last[epoch] \in Nat /\ MaxStates \in Nat /\ last[epoch] < MaxStates
                BY <2>1, Numbers, ConnectionAssumption DEF PublishState
            <4> QED BY <4>1 DEF StateRevisions
        <3>2. last' = [last EXCEPT ![epoch] = last[epoch] + 1] /\ last \in [Epochs -> StateRevisions]
            BY <2>1 DEF PublishState, ConnectionTypeOK
        <3>3. last' \in [Epochs -> StateRevisions]
            BY <3>1, <3>2
        <3>4. \A e \in Epochs : last'[e] >= last[e] /\ last'[e] \in Nat
            BY <3>1, <3>2, Numbers
        <3>5. epoch \in Nat /\ epoch >= epoch
            BY Numbers
        <3> QED BY <2>1, <3>3, <3>4, <3>5 DEF PublishState, ConnectionTypeOK
    <2>2. CASE Restart
        <3>1. epoch \in Nat /\ epoch > 0 /\ MaxEpochs \in Nat /\ epoch < MaxEpochs
            BY <2>2, Numbers, ConnectionAssumption DEF Restart
        <3>2. epoch + 1 \in Epochs /\ epoch + 1 >= epoch
            BY <3>1 DEF Epochs
        <3>3. \A e \in Epochs : last[e] >= last[e] /\ last[e] \in Nat
            BY Numbers
        <3> QED BY <2>2, <3>2, <3>3 DEF Restart, ConnectionTypeOK
    <2>3. CASE Unpair
        <3>1. epoch >= epoch /\ \A e \in Epochs : last[e] >= last[e] /\ last[e] \in Nat
            BY Numbers
        <3> QED BY <2>3, <3>1 DEF Unpair, ConnectionTypeOK
    <2> QED BY <2>1, <2>2, <2>3
<1>2. ConnectionTypeOK'
    BY <1>1 DEF ConnectionTypeOK, readerVars, eventVars, screenVars
<1>3. \A st : Published(st) => Published(st)'
    BY <1>1, <1>2, Numbers, StaysPublished DEF ConnectionTypeOK
<1>4. SeenOK'
    <2>1. /\ shown' = shown /\ lastApplied' = lastApplied /\ req' = req /\ ready' = ready
          /\ waiting' = waiting /\ peer' = peer
        BY <1>1 DEF readerVars, eventVars, screenVars
    <2>2. peer' <= epoch'
        BY <1>1, <2>1, Numbers DEF SeenOK, Epochs
    <2>3. \A k \in Requests : req[k].kind = "state" =>
              Published(req[k].state)' /\ req[k].state[1] = epoch'
        BY <1>1, <1>3 DEF SeenOK
    <2> QED BY <1>3, <2>1, <2>2, <2>3 DEF SeenOK
<1>5. LoopOK' /\ ToldOK' /\ CoverOK'
    BY <1>1
       DEF LoopOK, ToldOK, CoverOK, Active, readerVars, eventVars, screenVars
<1>6. ReturnOK'
    BY <1>1, Numbers DEF ReturnOK, readerVars, eventVars, screenVars, Epochs
<1>7. RefusalOK'
    BY <1>1, Numbers DEF RefusalOK, readerVars, Epochs
<1> QED BY <1>2, <1>4, <1>5, <1>6, <1>7

\* An answer brings what the running process has, so nothing older than the screen.
LEMMA RequestStep ==
    ASSUME PageInv, NEW k \in Requests, Answer(k) \/ RequestFails(k)
    PROVE  PageInv'
<1> USE DEF PageInv
<1>1. /\ UNCHANGED <<serverVars, starts, loop, reason, readerVars, eventVars, screenVars>>
      /\ faults' \in 0..MaxFaults /\ req[k] = Asked
      /\ \E r \in Request :
             /\ req' = [req EXCEPT ![k] = r]
             /\ r.kind = "state" => r.state = NewestState
    <2>1. CASE Answer(k)
        <3>1. NewestState \in States
            BY Numbers DEF NewestState, States, ConnectionTypeOK
        <3>2. [kind |-> "state", state |-> NewestState] \in Request
              /\ [kind |-> "unauthorized", state |-> NoState] \in Request
            BY <3>1 DEF Request
        <3> QED BY <2>1, <3>2 DEF Answer, ConnectionTypeOK
    <2>2. CASE RequestFails(k)
        <3>1. [kind |-> "failed", state |-> NoState] \in Request
            BY DEF Request
        <3>2. faults' \in 0..MaxFaults
            BY <2>2, Numbers, ConnectionAssumption DEF RequestFails
        <3> QED BY <2>2, <3>1, <3>2 DEF RequestFails
    <2> QED BY <2>1, <2>2
<1>2. PICK r \in Request :
          /\ req' = [req EXCEPT ![k] = r]
          /\ r.kind = "state" => r.state = NewestState
    BY <1>1
<1>3. req'[k] = r /\ \A j \in Requests : j # k => req'[j] = req[j]
    BY <1>2 DEF ConnectionTypeOK
<1>4. ConnectionTypeOK'
    BY <1>1, <1>2
       DEF ConnectionTypeOK, serverVars, readerVars, eventVars, screenVars
<1>5. /\ UNCHANGED <<epoch, last, paired, starts, loop, reason, stream, peer, told, straggler,
                     gate, waiting, ready, lastApplied, shown, loadedPath, artwork, coverTries>>
      /\ \A st : Published(st)' = Published(st)
    BY <1>1 DEF serverVars, readerVars, eventVars, screenVars, Published
<1>6. Published(NewestState) /\ NewestState[1] = epoch /\ NewestState[2] = last[epoch]
    BY Numbers DEF NewestState, Published, States, ConnectionTypeOK
<1>7. SeenOK'
    BY <1>2, <1>3, <1>5, <1>6 DEF SeenOK
<1>8. req[k] # Idle
    BY <1>1 DEF Asked, Idle
<1>9. LoopOK'
    <2>1. Active
        BY <1>8 DEF LoopOK
    <2>2. "recovery" \in Requests /\ (req["recovery"] = Idle => req'["recovery"] = Idle)
        BY <1>3, <1>8 DEF Requests
    <2> QED BY <1>5, <2>1, <2>2 DEF LoopOK, Active
<1>10. ReturnOK'
    <2>1. NewestState[1] > shown[1] \/ NewestState[2] >= shown[2]
        <3>1. shown # NoState => Published(shown)
            BY DEF SeenOK
        <3> QED BY <1>6, <3>1, Numbers DEF Published, NoState
    <2> QED BY <1>2, <1>3, <1>5, <2>1 DEF ReturnOK
<1>11. ToldOK' /\ CoverOK' /\ RefusalOK'
    BY <1>5 DEF ToldOK, CoverOK, RefusalOK, Active
<1> QED BY <1>4, <1>7, <1>9, <1>10, <1>11

-----------------------------------------------------------------------------
(* The screen *)

\* What applying a state does to the screen: nothing older than what was applied
\* is shown, and the picture goes with the cover.
LEMMA Applied ==
    ASSUME PageInv, NEW st, Published(st), ApplyState(st)
    PROVE  /\ lastApplied' \in {-1} \cup StateRevisions /\ shown' \in {shown, st}
           /\ shown' \in States \cup {NoState}
           /\ loadedPath' \in Covers \cup {NoCover} /\ artwork' \in Covers \cup {NoCover}
           /\ coverTries' \in 0..ArtworkAttempts
           /\ shown' # NoState => (shown' = shown \/ shown' = st) /\ shown'[2] > 0
           /\ lastApplied' # -1 => shown' # NoState /\ lastApplied' = shown'[2]
           /\ lastApplied' >= lastApplied
           /\ st[2] = 0 \/ lastApplied' >= st[2]
           /\ lastApplied' = -1 => lastApplied = -1 /\ shown' = shown /\ st[2] = 0
           /\ lastApplied' > 0 => loadedPath' = CoverOf[lastApplied']
           /\ artwork \in {NoCover, loadedPath} => artwork' \in {NoCover, loadedPath'}
<1> USE DEF PageInv
<1>1. st \in States /\ st[2] \in StateRevisions /\ st[2] \in Nat /\ st # NoState
    BY Numbers DEF Published
<1>2. lastApplied \in Int /\ lastApplied >= -1
    BY Numbers
<1>3. CASE Outdated(st)
    <2>1. /\ lastApplied' = lastApplied /\ shown' = shown /\ loadedPath' = loadedPath
          /\ artwork' = artwork /\ coverTries' = coverTries
        BY <1>3 DEF ApplyState, screenVars
    <2>2. st[2] = 0 \/ lastApplied > st[2]
        BY <1>1, <1>2, <1>3 DEF Outdated
    <2> QED BY <1>1, <1>2, <2>1, <2>2 DEF ConnectionTypeOK, SeenOK, CoverOK
<1>4. CASE ~Outdated(st)
    <2>1. /\ lastApplied' = st[2] /\ shown' = st /\ st[2] # 0 /\ st[2] >= lastApplied
        BY <1>1, <1>2, <1>4 DEF ApplyState, Outdated
    <2>2. /\ CoverOf[st[2]] \in Covers \cup {NoCover}
          /\ Attempts(CoverOf[st[2]]) \in 0..ArtworkAttempts
        BY <1>1, ConnectionAssumption DEF Attempts, ArtworkAttempts
    <2>3. IF CoverOf[st[2]] # loadedPath
          THEN /\ loadedPath' = CoverOf[st[2]]
               /\ artwork' = NoCover
               /\ coverTries' = Attempts(CoverOf[st[2]])
          ELSE UNCHANGED <<loadedPath, artwork, coverTries>>
        BY <1>4 DEF ApplyState, CoverChanges
    <2>4. loadedPath' = CoverOf[st[2]]
        BY <2>3
    <2> QED BY <1>1, <1>2, <2>1, <2>2, <2>3, <2>4 DEF ConnectionTypeOK
<1> QED BY <1>3, <1>4

\* The page becomes idle; the screen stays as it is.
LEMMA InvalidateStep ==
    ASSUME PageInv, NEW next \in {"off", "unauthorized"},
           Invalidate(next), Active
    PROVE  PageInv'
<1> USE DEF PageInv
<1>1. /\ UNCHANGED <<epoch, last, paired, starts, peer, lastApplied, shown, loadedPath,
                     artwork, faults>>
      /\ \A st : Published(st)' = Published(st)
    BY DEF Invalidate, serverVars, Published
<1>2. /\ loop' = next /\ reason' = "none" /\ req' = [k \in Requests |-> Idle]
      /\ stream' = "none" /\ told' = 0 /\ straggler' = FALSE
      /\ gate' = "none" /\ waiting' = <<>> /\ ready' = <<>> /\ coverTries' = 0
    BY DEF Invalidate
<1>3. /\ \A k \in Requests : req'[k] = Idle
      /\ "recovery" \in Requests /\ Idle \in Request /\ Idle.kind # "state"
    BY <1>2 DEF Requests, Idle, Request
<1>4. ConnectionTypeOK'
    <2>1. req' \in [Requests -> Request] /\ <<>> \in Seq(States)
        BY <1>2, <1>3
    <2>2. 0 \in 0..ArtworkAttempts /\ 0 \in StateRevisions /\ next \in Loops /\ "none" \in Reasons
        BY Numbers DEF Loops, Reasons, ArtworkAttempts
    <2> QED BY <1>1, <1>2, <2>1, <2>2 DEF ConnectionTypeOK
<1>5. SeenOK' /\ LoopOK' /\ ReturnOK'
    BY <1>1, <1>2, <1>3 DEF SeenOK, LoopOK, ReturnOK, Active
<1>6. ToldOK' /\ CoverOK' /\ RefusalOK'
    BY <1>1, <1>2 DEF ToldOK, CoverOK, RefusalOK, Active
<1> QED BY <1>4, <1>5, <1>6

\* A cover that arrives is that of the state it was loaded for.
LEMMA CoverStep == PageInv /\ CoverArrives => PageInv'
<1> SUFFICES ASSUME PageInv, CoverArrives PROVE PageInv'
    OBVIOUS
<1> USE DEF PageInv
<1>1. /\ UNCHANGED <<epoch, last, paired, starts, loop, reason, req, stream, peer, told,
                     straggler, gate, waiting, ready, lastApplied, shown, loadedPath, faults>>
      /\ coverTries > 0 /\ artwork' \in {artwork, loadedPath}
      /\ coverTries' \in 0..ArtworkAttempts
    BY Numbers
       DEF CoverArrives, serverVars, readerVars, eventVars, ConnectionTypeOK,
           ArtworkAttempts
<1>2. ConnectionTypeOK'
    BY <1>1 DEF ConnectionTypeOK
<1>3. \A st : Published(st)' = Published(st)
    BY <1>1 DEF Published
<1>4. Active
    BY <1>1 DEF LoopOK
<1>5. SeenOK' /\ LoopOK' /\ ReturnOK'
    BY <1>1, <1>3, <1>4 DEF SeenOK, LoopOK, ReturnOK, Active
<1>6. ToldOK' /\ CoverOK' /\ RefusalOK'
    BY <1>1, <1>4 DEF ToldOK, CoverOK, RefusalOK, Active
<1> QED BY <1>2, <1>5, <1>6

\* The page comes back with the old screen and nothing under way, ...
LEMMA StartStep == PageInv /\ Start => PageInv'
<1> SUFFICES ASSUME PageInv, Start PROVE PageInv'
    OBVIOUS
<1> USE DEF PageInv
<1>1. /\ UNCHANGED <<epoch, last, paired, reason, stream, peer, told, straggler,
                     gate, waiting, ready, shown, artwork, coverTries, faults>>
      /\ loop = "off" /\ loop' = "snapshot" /\ starts' = starts + 1 /\ starts < MaxStarts
      /\ req' = [req EXCEPT !["snapshot"] = Asked]
      /\ lastApplied' = -1 /\ loadedPath' = NoCover
      /\ \A st : Published(st)' = Published(st)
    BY DEF Start, serverVars, readerVars, eventVars, Published
<1>2. /\ req = [k \in Requests |-> Idle] /\ stream = "none" /\ ~straggler
      /\ ready = <<>>
      /\ coverTries = 0 /\ gate = "none" /\ waiting = <<>>
    BY <1>1 DEF LoopOK, Active
<1>3. /\ \A k \in Requests : req'[k] \in {Idle, Asked}
      /\ "recovery" \in Requests /\ req'["recovery"] = Idle
      /\ {Idle, Asked} \subseteq Request /\ Idle.kind # "state"
      /\ Asked.kind # "state"
    BY <1>1, <1>2 DEF Requests, Idle, Asked, Request
<1>4. starts' \in 0..MaxStarts /\ (starts' <= 1 => starts = 0) /\ starts' # 0
    BY <1>1, Numbers, ConnectionAssumption
<1>5. ConnectionTypeOK'
    BY <1>1, <1>3, <1>4 DEF ConnectionTypeOK, Loops
<1>6. SeenOK' /\ ReturnOK'
    BY <1>1, <1>2, <1>3 DEF SeenOK, ReturnOK
<1>7. LoopOK' /\ ToldOK'
    BY <1>1, <1>2, <1>3 DEF LoopOK, ToldOK, Active
<1>8. CoverOK' /\ RefusalOK'
    BY <1>1, <1>2, <1>4 DEF CoverOK, RefusalOK, Active
<1> QED BY <1>5, <1>6, <1>7, <1>8

\* ... or asks again.
LEMMA AskStep ==
    PageInv /\ (Refresh \/ Retry \/ SnapshotFailed) => PageInv'
<1> SUFFICES ASSUME PageInv, Refresh \/ Retry \/ SnapshotFailed
             PROVE  PageInv'
    OBVIOUS
<1> USE DEF PageInv
<1>1. /\ UNCHANGED <<epoch, last, paired, starts, reason, stream, peer, told, straggler, gate,
                     waiting, ready, lastApplied, shown, loadedPath, artwork, coverTries, faults>>
      /\ \E k \in {"snapshot", "refresh"} : \E r \in {Idle, Asked} : req' = [req EXCEPT ![k] = r]
      /\ \/ loop' = loop /\ Active
         \/ loop \in {"snapshot", "delay"} /\ loop' \in {"snapshot", "delay"}
      /\ \A st : Published(st)' = Published(st)
    BY DEF Refresh, Retry, SnapshotFailed, serverVars, readerVars,
           eventVars, screenVars, Published
<1>2. /\ \A k \in Requests : req'[k] \in {Idle, Asked} \/ req'[k] = req[k]
      /\ "recovery" \in Requests /\ req'["recovery"] = req["recovery"]
      /\ {Idle, Asked} \subseteq Request /\ Idle.kind # "state"
      /\ Asked.kind # "state"
      /\ req' \in [Requests -> Request]
    BY <1>1 DEF ConnectionTypeOK, Requests, Idle, Asked, Request
<1>3. Active /\ Active'
    BY <1>1 DEF Active
<1>4. ConnectionTypeOK'
    BY <1>1, <1>2 DEF ConnectionTypeOK, Loops
<1>5. SeenOK' /\ ReturnOK'
    BY <1>1, <1>2 DEF SeenOK, ReturnOK
<1>6. LoopOK' /\ ToldOK'
    BY <1>1, <1>2, <1>3 DEF LoopOK, ToldOK
<1>7. CoverOK' /\ RefusalOK'
    BY <1>1, <1>3 DEF CoverOK, RefusalOK
<1> QED BY <1>4, <1>5, <1>6, <1>7

-----------------------------------------------------------------------------
(* The stream *)

\* Queue t is queue s with e at its end.
Grown(s, e, t) ==
    /\ \A i \in DOMAIN t : t[i] = e \/ (i \in DOMAIN s /\ t[i] = s[i])
    /\ \A i \in DOMAIN s : i \in DOMAIN t /\ t[i] = s[i]
    /\ \E i \in DOMAIN t : t[i] = e

LEMMA Queued ==
    ASSUME NEW S, NEW s \in Seq(S), NEW e \in S
    PROVE  Append(s, e) \in Seq(S) /\ Grown(s, e, Append(s, e))
<1>1. /\ Len(s) \in Nat /\ DOMAIN s = 1..Len(s) /\ Append(s, e) \in Seq(S)
      /\ DOMAIN Append(s, e) = 1..Len(s) + 1
      /\ \A i \in 1..Len(s) : Append(s, e)[i] = s[i]
      /\ Append(s, e)[Len(s) + 1] = e
    OBVIOUS
<1>2. Len(s) + 1 \in DOMAIN Append(s, e) /\ \A i \in 1..Len(s) + 1 : i \in 1..Len(s) \/ i = Len(s) + 1
    BY <1>1
<1> QED BY <1>1, <1>2 DEF Grown

\* Queue u has the elements of the queues s and t.
Merged(s, t, u) ==
    /\ \A i \in DOMAIN u : (\E j \in DOMAIN s : u[i] = s[j]) \/ (\E j \in DOMAIN t : u[i] = t[j])
    /\ \A j \in DOMAIN s : \E i \in DOMAIN u : u[i] = s[j]
    /\ \A j \in DOMAIN t : \E i \in DOMAIN u : u[i] = t[j]

LEMMA Combined ==
    ASSUME NEW S, NEW s \in Seq(S), NEW t \in Seq(S)
    PROVE  s \o t \in Seq(S) /\ Merged(s, t, s \o t)
<1>1. /\ Len(s) \in Nat /\ Len(t) \in Nat /\ DOMAIN s = 1..Len(s) /\ DOMAIN t = 1..Len(t)
      /\ s \o t \in Seq(S) /\ DOMAIN (s \o t) = 1..Len(s) + Len(t)
      /\ \A i \in 1..Len(s) + Len(t) :
            (s \o t)[i] = IF i <= Len(s) THEN s[i] ELSE t[i - Len(s)]
    OBVIOUS
<1> DEFINE u == s \o t
<1> HIDE DEF u
<1>2. /\ DOMAIN u = 1..Len(s) + Len(t)
      /\ \A i \in 1..Len(s) + Len(t) : u[i] = IF i <= Len(s) THEN s[i] ELSE t[i - Len(s)]
    BY <1>1 DEF u
<1>3. ASSUME NEW i \in DOMAIN u
      PROVE  (\E j \in DOMAIN s : u[i] = s[j]) \/ (\E j \in DOMAIN t : u[i] = t[j])
    <2>1. CASE i <= Len(s)
        BY <1>1, <1>2, <1>3, <2>1
    <2>2. CASE i > Len(s)
        <3>1. i - Len(s) \in DOMAIN t /\ u[i] = t[i - Len(s)]
            BY <1>1, <1>2, <1>3, <2>2
        <3> QED BY <3>1
    <2> QED BY <1>1, <1>2, <1>3, <2>1, <2>2
<1>4. \A j \in DOMAIN s : j \in DOMAIN u /\ u[j] = s[j]
    BY <1>1, <1>2
<1>5. \A j \in DOMAIN t : j + Len(s) \in DOMAIN u /\ u[j + Len(s)] = t[j]
    BY <1>1, <1>2
<1>6. Merged(s, t, u)
    BY <1>3, <1>4, <1>5 DEF Merged
<1> QED BY <1>1, <1>6 DEF u

LEMMA Taken ==
    ASSUME NEW S, NEW s \in Seq(S), s # <<>>
    PROVE  /\ Head(s) \in S /\ Tail(s) \in Seq(S) /\ 1 \in DOMAIN s /\ Head(s) = s[1]
           /\ \A i \in DOMAIN Tail(s) : \E j \in DOMAIN s : Tail(s)[i] = s[j]
           /\ \A j \in DOMAIN s : s[j] = Head(s) \/ \E i \in DOMAIN Tail(s) : Tail(s)[i] = s[j]
<1>1. /\ Len(s) \in Nat /\ Len(s) > 0 /\ DOMAIN s = 1..Len(s)
      /\ Head(s) \in S /\ Head(s) = s[1]
      /\ Tail(s) \in Seq(S) /\ DOMAIN Tail(s) = 1..Len(s) - 1
      /\ \A i \in 1..Len(s) - 1 : Tail(s)[i] = s[i + 1]
    OBVIOUS
<1>2. \A i \in DOMAIN Tail(s) : i + 1 \in DOMAIN s /\ Tail(s)[i] = s[i + 1]
    BY <1>1
<1>3. ASSUME NEW j \in DOMAIN s, s[j] # Head(s)
      PROVE  \E i \in DOMAIN Tail(s) : Tail(s)[i] = s[j]
    <2>1. j - 1 \in DOMAIN Tail(s) /\ Tail(s)[j - 1] = s[j]
        BY <1>1, <1>3
    <2> QED BY <2>1
<1> QED BY <1>1, <1>2, <1>3

\* The stream is opened, ends or is refused.
LEMMA ConnectionStep ==
    /\ PageInv
    /\ StreamOpens \/ StreamRefused \/ StreamBreaks \/ StreamRevoked
    => PageInv'
<1> SUFFICES ASSUME PageInv,
                    \/ StreamOpens \/ StreamRefused
                    \/ StreamBreaks \/ StreamRevoked
             PROVE  PageInv'
    OBVIOUS
<1> USE DEF PageInv
<1>1. /\ UNCHANGED <<epoch, last, paired, starts, told, straggler, waiting, ready,
                     lastApplied, shown, loadedPath, artwork, coverTries>>
      /\ stream # "none" /\ loop = "streaming" /\ Active
      /\ \A st : Published(st)' = Published(st)
    BY DEF StreamOpens, StreamRefused, StreamBreaks, StreamRevoked, LoopOK,
           Active,
           serverVars, readerVars, eventVars, screenVars, Published
<1>2. CASE StreamOpens
    <2>1. /\ stream = "opening" /\ told <= last[epoch] /\ stream' = "open" /\ peer' = epoch
          /\ gate' = "pending" /\ req' = [req EXCEPT !["recovery"] = Asked]
          /\ loop' = loop /\ reason' = reason /\ faults' = faults
        BY <1>2 DEF StreamOpens
    <2>2. /\ \A k \in Requests : req'[k] = Asked \/ req'[k] = req[k]
          /\ Asked \in Request /\ Asked.kind # "state"
          /\ req' \in [Requests -> Request]
        BY <2>1 DEF ConnectionTypeOK, Requests, Asked, Request
    <2>3. ConnectionTypeOK'
        BY <1>1, <2>1, <2>2 DEF ConnectionTypeOK
    <2>4. SeenOK'
        BY <1>1, <2>1, <2>2, Numbers DEF SeenOK
    <2>5. LoopOK'
        BY <1>1, <2>1 DEF LoopOK, Active
    <2>6. ReturnOK'
        <3>1. straggler => stream # "opening" \/ epoch > shown[1] \/ lastApplied # -1
            BY DEF ReturnOK
        <3> QED BY <1>1, <2>1, <2>2, Numbers DEF ReturnOK
    <2>7. ToldOK' /\ CoverOK' /\ RefusalOK'
        BY <1>1, <2>1 DEF ToldOK, CoverOK, RefusalOK, Active
    <2> QED BY <2>3, <2>4, <2>5, <2>6, <2>7
<1>3. CASE ~StreamOpens
    <2>1. /\ UNCHANGED <<peer, req, gate>> /\ faults' \in 0..MaxFaults
          /\ stream' = "none" /\ loop' = "closing"
          /\ reason' \in {"unauthorized", "refused", "network", "eof"}
          /\ reason' = "refused" => told > last[epoch] /\ stream # "none"
        <3>1. faults < MaxFaults /\ faults' = faults + 1 => faults' \in 0..MaxFaults
            BY Numbers, ConnectionAssumption
        <3> QED BY <1>1, <1>3, <3>1
                DEF StreamRefused, StreamBreaks, StreamRevoked, Terminate,
                    eventVars, ConnectionTypeOK
    <2>2. ConnectionTypeOK'
        BY <1>1, <2>1 DEF ConnectionTypeOK, Loops, Reasons
    <2>3. SeenOK' /\ LoopOK' /\ ReturnOK'
        BY <1>1, <2>1 DEF SeenOK, LoopOK, ReturnOK, Active
    <2>4. ToldOK' /\ CoverOK'
        BY <1>1, <2>1 DEF ToldOK, CoverOK, Active
    <2>5. RefusalOK'
        BY <1>1, <2>1, Numbers DEF RefusalOK
    <2> QED BY <2>2, <2>3, <2>4, <2>5
<1> QED BY <1>2, <1>3

\* An event that is read is queued, and so is one that is read late, though only
\* the first counts as told.
LEMMA EventStep == PageInv /\ (Event \/ LateEvent) => PageInv'
<1> SUFFICES ASSUME PageInv, Event \/ LateEvent PROVE PageInv'
    OBVIOUS
<1> USE DEF PageInv
<1>1. /\ UNCHANGED <<epoch, last, paired, starts, loop, reason, req, stream, peer, gate,
                     lastApplied, shown, loadedPath, artwork, coverTries, faults>>
      /\ stream = "open" \/ straggler
      /\ \A st : Published(st)' = Published(st)
    BY DEF Event, LateEvent, serverVars, screenVars, Published
<1>2. PICK n \in StateRevisions :
          /\ n <= last[peer] /\ Handed(<<peer, n>>)
          /\ \/ stream = "open" /\ told' = n /\ straggler' = straggler
             \/ told' = told /\ straggler' = FALSE
    <2>1. CASE Event
        <3>1. PICK n \in (told + 1)..last[peer] : told' = n /\ Handed(<<peer, n>>)
            BY <2>1 DEF Event
        <3>2. n \in StateRevisions /\ n <= last[peer]
            <4>1. last[peer] \in Nat /\ last[peer] <= MaxStates /\ told \in Nat /\ MaxStates \in Nat
                BY Numbers, ConnectionAssumption DEF StateRevisions, ConnectionTypeOK
            <4> QED BY <3>1, <4>1 DEF StateRevisions
        <3> QED BY <2>1, <3>1, <3>2 DEF Event
    <2>2. CASE LateEvent
        BY <2>2 DEF LateEvent
    <2> QED BY <2>1, <2>2
<1> DEFINE st == <<peer, n>>
<1>3. Published(st) /\ st[1] = peer /\ st[2] = n /\ st \in States
    BY <1>2 DEF Published, SeenOK, States, ConnectionTypeOK
<1> HIDE DEF st
<1>4. /\ waiting' = IF gate = "pending" THEN Append(waiting, st) ELSE waiting
      /\ ready' = IF gate \in {"passed", "none"} THEN Append(ready, st) ELSE ready
    BY <1>2 DEF Handed, st
<1>5. waiting \in Seq(States) /\ ready \in Seq(States)
    BY DEF ConnectionTypeOK
<1>6. /\ waiting' \in Seq(States) /\ ready' \in Seq(States)
      /\ \A i \in DOMAIN waiting' : waiting'[i] = st \/ (i \in DOMAIN waiting /\ waiting'[i] = waiting[i])
      /\ \A i \in DOMAIN ready' : ready'[i] = st \/ (i \in DOMAIN ready /\ ready'[i] = ready[i])
      /\ \A i \in DOMAIN waiting : i \in DOMAIN waiting' /\ waiting'[i] = waiting[i]
      /\ \A i \in DOMAIN ready : i \in DOMAIN ready' /\ ready'[i] = ready[i]
      /\ gate = "pending" => \E i \in DOMAIN waiting' : waiting'[i] = st
      /\ gate = "passed" => \E i \in DOMAIN ready' : ready'[i] = st
    <2>1. Append(waiting, st) \in Seq(States) /\ Grown(waiting, st, Append(waiting, st))
        BY <1>3, <1>5, Queued
    <2>2. Append(ready, st) \in Seq(States) /\ Grown(ready, st, Append(ready, st))
        BY <1>3, <1>5, Queued
    <2>3. CASE gate = "pending"
        BY <1>4, <1>5, <2>1, <2>3 DEF Grown
    <2>4. CASE gate \in {"passed", "none"}
        BY <1>4, <1>5, <2>2, <2>4 DEF Grown
    <2>5. CASE gate = "refused"
        BY <1>4, <1>5, <2>5
    <2> QED BY <2>3, <2>4, <2>5 DEF ConnectionTypeOK
<1>7. ConnectionTypeOK'
    BY <1>1, <1>2, <1>6 DEF ConnectionTypeOK
<1>8. SeenOK'
    BY <1>1, <1>3, <1>6 DEF SeenOK
<1>9. Active
    BY <1>1 DEF LoopOK
<1>10. LoopOK'
    BY <1>1, <1>2, <1>4, <1>9 DEF LoopOK, Active
<1>11. ReturnOK'
    BY <1>1, <1>2, <1>3, <1>6, Numbers DEF ReturnOK
<1>12. ToldOK'
    <2>1. CASE stream = "open" /\ told' = n
        <3>1. n \in Nat /\ n >= n
            BY <1>2, Numbers
        <3>2. gate \in {"pending", "passed"}
            BY <2>1 DEF LoopOK
        <3> QED BY <1>3, <1>6, <2>1, <3>1, <3>2 DEF ToldOK
    <2>2. CASE told' = told
        BY <1>1, <1>6, <2>2 DEF ToldOK
    <2> QED BY <1>2, <2>1, <2>2
<1>13. CoverOK'
    BY <1>1 DEF CoverOK, Active
<1>14. RefusalOK'
    <2>1. epoch = 1 => peer = 1
        <3>1. peer \in Nat /\ peer > 0 /\ peer <= epoch
            BY Numbers DEF SeenOK
        <3> QED BY <3>1
    <2> QED BY <1>1, <1>2, <2>1 DEF RefusalOK
<1> QED BY <1>7, <1>8, <1>10, <1>11, <1>12, <1>13, <1>14

-----------------------------------------------------------------------------
(* The states that are applied *)

\* Applying a state keeps what the invariant says of the screen.
LEMMA ScreenStep ==
    ASSUME PageInv, NEW st, Published(st), ApplyState(st),
           UNCHANGED <<epoch, last, starts>>, Active
    PROVE  /\ CoverOK'
           /\ shown' # NoState => Published(shown)' /\ shown'[2] > 0
           /\ lastApplied' # -1 => shown' # NoState /\ lastApplied' = shown'[2]
           /\ \A x : Published(x)' = Published(x)
<1> USE DEF PageInv
<1>1. \A x : Published(x)' = Published(x)
    BY DEF Published
<1>2. shown' # NoState => Published(shown)' /\ shown'[2] > 0
    BY <1>1, Applied DEF SeenOK
<1>3. lastApplied' # -1 => shown' # NoState /\ lastApplied' = shown'[2]
    BY Applied
<1>4. CoverOK'
    BY Applied DEF CoverOK
<1> QED BY <1>1, <1>2, <1>3, <1>4

LEMMA RefreshStep == PageInv /\ RefreshDone => PageInv'
<1> SUFFICES ASSUME PageInv, RefreshDone PROVE PageInv'
    OBVIOUS
<1> USE DEF PageInv
<1>1. /\ UNCHANGED <<epoch, last, paired, starts, loop, reason, stream, peer, told, straggler,
                     gate, waiting, ready, faults>>
      /\ req' = [req EXCEPT !["refresh"] = Idle]
      /\ req["refresh"].kind \in {"state", "failed"}
      /\ \A st : Published(st)' = Published(st)
    BY DEF RefreshDone, serverVars, readerVars, eventVars, Published
<1>2. /\ \A k \in Requests : req'[k] = Idle \/ req'[k] = req[k]
      /\ "recovery" \in Requests /\ req'["recovery"] = req["recovery"]
      /\ "refresh" \in Requests
      /\ Idle \in Request /\ Idle.kind = "idle"
      /\ req' \in [Requests -> Request]
    BY <1>1 DEF ConnectionTypeOK, Requests, Idle, Request
<1>3. Active /\ Active'
    BY <1>1, <1>2 DEF LoopOK, Active
<1>4. CASE req["refresh"].kind = "state"
    <2> DEFINE st == req["refresh"].state
    <2>1. Published(st) /\ ApplyState(st)
        BY <1>1, <1>2, <1>4 DEF SeenOK, RefreshDone
    <2>2. ConnectionTypeOK'
        BY <1>1, <1>2, <2>1, Applied DEF ConnectionTypeOK
    <2>3. SeenOK'
        BY <1>1, <1>2, <1>3, <2>1, ScreenStep DEF SeenOK
    <2>4. lastApplied' >= lastApplied /\ (lastApplied' = -1 => lastApplied = -1 /\ shown' = shown)
          /\ lastApplied' \in Int
        BY <2>1, Applied, Numbers
    <2>5. LoopOK' /\ ToldOK'
        BY <1>1, <1>2, <1>3, <2>4, Numbers DEF LoopOK, ToldOK
    <2>6. ReturnOK'
        BY <1>1, <1>2, <2>4 DEF ReturnOK
    <2>7. CoverOK' /\ RefusalOK'
        BY <1>1, <1>3, <2>1, ScreenStep DEF RefusalOK
    <2> QED BY <2>2, <2>3, <2>5, <2>6, <2>7
<1>5. CASE req["refresh"].kind # "state"
    <2>1. UNCHANGED <<lastApplied, shown, loadedPath, artwork, coverTries>>
        BY <1>5 DEF RefreshDone, screenVars
    <2>2. ConnectionTypeOK' /\ SeenOK' /\ ReturnOK'
        BY <1>1, <1>2, <2>1 DEF ConnectionTypeOK, SeenOK, ReturnOK
    <2>3. LoopOK' /\ ToldOK' /\ CoverOK' /\ RefusalOK'
        BY <1>1, <1>2, <1>3, <2>1 DEF LoopOK, ToldOK, CoverOK, RefusalOK
    <2> QED BY <2>2, <2>3
<1> QED BY <1>4, <1>5

\* The snapshot is where the stream is to begin.
LEMMA SnapshotStep == PageInv /\ SnapshotApplied => PageInv'
<1> SUFFICES ASSUME PageInv, SnapshotApplied PROVE PageInv'
    OBVIOUS
<1> USE DEF PageInv
<1> DEFINE st == req["snapshot"].state
<1>1. /\ UNCHANGED <<epoch, last, paired, starts, reason, peer, straggler,
                     gate, waiting, ready, faults>>
      /\ loop = "snapshot" /\ loop' = "streaming"
      /\ req' = [req EXCEPT !["snapshot"] = Idle] /\ req["snapshot"].kind = "state"
      /\ stream' = "opening" /\ told' = st[2] /\ ApplyState(st)
      /\ \A x : Published(x)' = Published(x)
    BY DEF SnapshotApplied, serverVars, eventVars, Published
<1>2. /\ \A k \in Requests : req'[k] = Idle \/ req'[k] = req[k]
      /\ "snapshot" \in Requests /\ "recovery" \in Requests
      /\ req'["recovery"] = req["recovery"]
      /\ Idle \in Request /\ Idle.kind = "idle"
      /\ req' \in [Requests -> Request]
    BY <1>1 DEF ConnectionTypeOK, Requests, Idle, Request
<1>3. /\ Active /\ Active' /\ gate = "none" /\ waiting = <<>>
    BY <1>1 DEF LoopOK, Active
<1>4. Published(st) /\ st[1] = epoch /\ st \in States
    BY <1>1, <1>2 DEF SeenOK, Published
<1>5. st[2] \in StateRevisions /\ st[2] \in Nat /\ st[1] \in Nat /\ st[2] <= last[epoch]
    BY <1>4, Numbers DEF Published
<1> HIDE DEF st
<1>6. ConnectionTypeOK'
    BY <1>1, <1>2, <1>4, <1>5, Applied DEF ConnectionTypeOK, Loops
<1>7. SeenOK'
    BY <1>1, <1>2, <1>3, <1>4, ScreenStep DEF SeenOK
<1>8. /\ lastApplied' >= lastApplied /\ (st[2] = 0 \/ lastApplied' >= st[2])
      /\ lastApplied' = -1 => lastApplied = -1 /\ shown' = shown /\ st[2] = 0
      /\ lastApplied' \in Int
    BY <1>1, <1>4, Applied, Numbers
<1>9. LoopOK'
    BY <1>1, <1>2, <1>3, <1>8, Numbers DEF LoopOK
<1>10. ToldOK'
    BY <1>1, <1>8 DEF ToldOK
<1>11. ReturnOK'
    <2> SUFFICES ASSUME lastApplied' = -1 PROVE ReturnOK'
        BY DEF ReturnOK
    <2>1. lastApplied = -1 /\ shown' = shown /\ st[2] = 0
        BY <1>8
    <2>2. epoch > shown[1]
        <3>1. st[1] > shown[1] \/ st[2] >= shown[2]
            BY <1>1, <1>2, <2>1 DEF ReturnOK, st
        <3>2. CASE shown = NoState
            BY <3>2, Numbers DEF NoState
        <3>3. CASE shown # NoState
            BY <1>4, <2>1, <3>1, <3>3, Numbers DEF SeenOK
        <3> QED BY <3>2, <3>3
    <2> QED BY <1>1, <1>2, <2>1, <2>2 DEF ReturnOK
<1>12. CoverOK'
    BY <1>1, <1>3, <1>4, ScreenStep
<1>13. RefusalOK'
    BY <1>1, <1>5 DEF RefusalOK
<1> QED BY <1>6, <1>7, <1>9, <1>10, <1>11, <1>12, <1>13

\* An event leaves the queue for the screen.
LEMMA ApplyStep == PageInv /\ ApplyEvent => PageInv'
<1> SUFFICES ASSUME PageInv, ApplyEvent PROVE PageInv'
    OBVIOUS
<1> USE DEF PageInv
<1> DEFINE st == Head(ready)
<1>1. /\ UNCHANGED <<epoch, last, paired, starts, loop, reason, req, stream, peer, told,
                     straggler, gate, waiting, faults>>
      /\ ready # <<>> /\ ready' = Tail(ready) /\ ApplyState(st)
      /\ \A x : Published(x)' = Published(x)
    BY DEF ApplyEvent, serverVars, readerVars, Published
<1>2. ready \in Seq(States)
    BY DEF ConnectionTypeOK
<1>3. /\ st \in States /\ ready' \in Seq(States) /\ 1 \in DOMAIN ready /\ st = ready[1]
      /\ \A i \in DOMAIN ready' : \E j \in DOMAIN ready : ready'[i] = ready[j]
      /\ \A j \in DOMAIN ready : ready[j] = st \/ \E i \in DOMAIN ready' : ready'[i] = ready[j]
    BY <1>1, <1>2, Taken
<1>4. Active /\ Active' /\ Published(st)
    BY <1>1, <1>3 DEF LoopOK, Active, SeenOK
<1> HIDE DEF st
<1>5. ConnectionTypeOK'
    BY <1>1, <1>3, <1>4, Applied DEF ConnectionTypeOK
<1>6. SeenOK'
    <2>1. (\A i \in DOMAIN ready : Published(ready[i]))'
        BY <1>1, <1>3 DEF SeenOK
    <2> QED BY <1>1, <1>4, <2>1, ScreenStep DEF SeenOK
<1>7. /\ lastApplied' >= lastApplied /\ (st[2] = 0 \/ lastApplied' >= st[2])
      /\ lastApplied' = -1 => lastApplied = -1 /\ shown' = shown
      /\ lastApplied' \in Int
    BY <1>1, <1>4, Applied, Numbers
<1>8. LoopOK'
    BY <1>1, <1>4, <1>7, Numbers DEF LoopOK
<1>9. ReturnOK'
    <2>1. lastApplied' = -1 => \A i \in DOMAIN ready' : ready'[i][1] > shown'[1]
        BY <1>3, <1>7 DEF ReturnOK
    <2> QED BY <1>1, <1>7, <2>1 DEF ReturnOK
<1>10. ToldOK'
    <2> SUFFICES ASSUME stream # "none", told # 0, ~(lastApplied' >= told),
                        ~(\E i \in DOMAIN waiting : waiting[i][2] >= told)
                 PROVE  \E i \in DOMAIN ready' : ready'[i][2] >= told
        BY <1>1 DEF ToldOK
    <2>1. PICK j \in DOMAIN ready : ready[j][2] >= told
        BY <1>7, Numbers DEF ToldOK
    <2>2. ready[j] # st
        BY <1>3, <1>7, <2>1, Numbers
    <2> QED BY <1>3, <2>1, <2>2
<1>11. CoverOK' /\ RefusalOK'
    BY <1>1, <1>4, ScreenStep DEF RefusalOK
<1> QED BY <1>5, <1>6, <1>8, <1>9, <1>10, <1>11

-----------------------------------------------------------------------------
(* The recovery and the end of a connection *)

LEMMA RecoveryStep == PageInv /\ RecoveryApplied => PageInv'
<1> SUFFICES ASSUME PageInv, RecoveryApplied PROVE PageInv'
    OBVIOUS
<1> USE DEF PageInv
<1> DEFINE st == req["recovery"].state
<1>1. /\ UNCHANGED <<epoch, last, paired, starts, loop, reason, stream, peer, told,
                     straggler, faults>>
      /\ req' = [req EXCEPT !["recovery"] = Idle] /\ req["recovery"].kind = "state"
      /\ gate' = "passed" /\ ready' = ready \o waiting /\ waiting' = <<>>
      /\ st[2] # 0 /\ ApplyState(st)
      /\ \A x : Published(x)' = Published(x)
    BY DEF RecoveryApplied, Released, serverVars, readerVars, Published
<1>2. /\ \A k \in Requests : req'[k] = Idle \/ req'[k] = req[k]
      /\ "recovery" \in Requests /\ req'["recovery"] = Idle
      /\ Idle \in Request /\ Idle.kind = "idle"
      /\ req' \in [Requests -> Request]
    BY <1>1 DEF ConnectionTypeOK, Requests, Idle, Request
<1>3. Published(st) /\ st \in States /\ st[2] \in Nat
    BY <1>1, <1>2, Numbers DEF SeenOK, Published
<1>4. /\ loop \in {"streaming", "closing"} /\ Active /\ Active'
    BY <1>1, <1>2 DEF LoopOK, Active
<1> HIDE DEF st
<1>5. /\ ready' \in Seq(States) /\ waiting' \in Seq(States)
      /\ \A i \in DOMAIN ready' : \/ \E j \in DOMAIN ready : ready'[i] = ready[j]
                                  \/ \E j \in DOMAIN waiting : ready'[i] = waiting[j]
      /\ \A j \in DOMAIN ready : \E i \in DOMAIN ready' : ready'[i] = ready[j]
      /\ \A j \in DOMAIN waiting : \E i \in DOMAIN ready' : ready'[i] = waiting[j]
      /\ \A i : i \notin DOMAIN waiting'
    <2>1. ready \in Seq(States) /\ waiting \in Seq(States)
        BY DEF ConnectionTypeOK
    <2>2. ready \o waiting \in Seq(States) /\ Merged(ready, waiting, ready \o waiting)
        BY <2>1, Combined
    <2>3. Merged(ready, waiting, ready')
        BY <1>1, <2>2
    <2>4. <<>> \in Seq(States) /\ \A i : i \notin DOMAIN <<>>
        OBVIOUS
    <2> QED BY <1>1, <2>2, <2>3, <2>4 DEF Merged
<1>6. ConnectionTypeOK'
    BY <1>1, <1>2, <1>3, <1>5, Applied DEF ConnectionTypeOK
<1>7. SeenOK'
    <2>1. (\A i \in DOMAIN ready : Published(ready[i]))'
        BY <1>1, <1>5 DEF SeenOK
    <2> QED BY <1>1, <1>2, <1>3, <1>4, <1>5, <2>1, ScreenStep DEF SeenOK
<1>8. /\ lastApplied' >= lastApplied /\ lastApplied' > 0 /\ lastApplied' # -1
      /\ lastApplied' \in Int
    BY <1>1, <1>3, Applied, Numbers
<1>9. LoopOK' /\ ReturnOK'
    BY <1>1, <1>2, <1>4, <1>8 DEF LoopOK, ReturnOK
<1>10. ToldOK'
    <2>1. ASSUME lastApplied >= told PROVE lastApplied' >= told
        BY <1>8, <2>1, Numbers
    <2>2. ASSUME NEW j \in DOMAIN ready, ready[j][2] >= told
          PROVE  \E i \in DOMAIN ready' : ready'[i][2] >= told
        BY <1>5, <2>2
    <2>3. ASSUME NEW j \in DOMAIN waiting, waiting[j][2] >= told
          PROVE  \E i \in DOMAIN ready' : ready'[i][2] >= told
        BY <1>5, <2>3
    <2> QED BY <1>1, <2>1, <2>2, <2>3 DEF ToldOK
<1>11. CoverOK' /\ RefusalOK'
    BY <1>1, <1>3, <1>4, ScreenStep DEF RefusalOK
<1> QED BY <1>6, <1>7, <1>9, <1>10, <1>11

LEMMA FailureStep == PageInv /\ (RecoveryFailed \/ Reconnect) => PageInv'
<1> SUFFICES ASSUME PageInv, RecoveryFailed \/ Reconnect PROVE PageInv'
    OBVIOUS
<1> USE DEF PageInv
<1>1. /\ UNCHANGED <<epoch, last, paired, starts, peer, told, ready, lastApplied, shown,
                     loadedPath, artwork, coverTries, faults>>
      /\ req' = [req EXCEPT !["recovery"] = Idle] /\ waiting' = <<>>
      /\ \A x : Published(x)' = Published(x)
    BY DEF RecoveryFailed, Reconnect, serverVars, readerVars,
           screenVars, Published
<1>2. /\ \A k \in Requests : req'[k] = Idle \/ req'[k] = req[k]
      /\ "recovery" \in Requests /\ req'["recovery"] = Idle
      /\ Idle \in Request /\ Idle.kind = "idle"
      /\ req' \in [Requests -> Request]
      /\ <<>> \in Seq(States) /\ \A i : i \notin DOMAIN <<>>
    BY <1>1 DEF ConnectionTypeOK, Requests, Idle, Request
<1>3. /\ loop \in {"streaming", "closing"} /\ loop' \in {"closing", "delay", "ended"}
      /\ Active /\ Active' /\ stream' = "none"
      /\ straggler' \in BOOLEAN
      /\ straggler' => straggler \/ stream = "open"
      /\ gate' \in {"none", "refused"} /\ (gate' # "none" => loop' = "closing")
      /\ reason' \in Reasons /\ (loop' = "closing" => reason' # "none")
      /\ reason' = "refused" => reason = "refused"
      /\ loop' = "ended" => reason = "refused"
    <2>1. CASE RecoveryFailed
        <3>1. loop \in {"streaming", "closing"}
            BY <1>2, <2>1 DEF RecoveryFailed, LoopOK
        <3>2. reason \in Reasons
            BY DEF ConnectionTypeOK
        <3> QED BY <2>1, <3>1, <3>2
                DEF RecoveryFailed, Terminate, Active, LoopOK, Reasons
    <2>2. CASE Reconnect
        <3>1. loop = "closing" /\ reason # "none" /\ stream = "none" /\ straggler \in BOOLEAN
            BY <2>2 DEF Reconnect, LoopOK, ConnectionTypeOK
        <3>2. reason \in {"network", "eof", "refused"}
            BY <2>2, <3>1 DEF ConnectionTypeOK, Reasons, Reconnect
        <3> QED BY <2>2, <3>1, <3>2
                   DEF Reconnect, Active, Reasons, Retryable, readerVars
    <2> QED BY <2>1, <2>2
<1>4. ConnectionTypeOK'
    <2>1. loop' \in Loops /\ gate' \in {"none", "pending", "passed", "refused"}
        BY <1>3 DEF Loops
    <2>2. stream' \in {"none", "opening", "open"} /\ waiting' \in Seq(States)
        BY <1>1, <1>2, <1>3
    <2>3. req' \in [Requests -> Request] /\ reason' \in Reasons /\ straggler' \in BOOLEAN
        BY <1>2, <1>3
    <2> QED BY <1>1, <2>1, <2>2, <2>3 DEF ConnectionTypeOK
<1>5. SeenOK' /\ LoopOK'
    BY <1>1, <1>2, <1>3 DEF SeenOK, LoopOK
<1>6. ReturnOK'
    BY <1>1, <1>2, <1>3 DEF ReturnOK
<1>7. ToldOK' /\ CoverOK' /\ RefusalOK'
    BY <1>1, <1>3 DEF ToldOK, CoverOK, RefusalOK
<1> QED BY <1>4, <1>5, <1>6, <1>7

LEMMA PageNextInv == PageInv /\ [ConnectionNext]_connectionVars => PageInv'
<1> SUFFICES ASSUME PageInv, [ConnectionNext]_connectionVars PROVE PageInv'
    OBVIOUS
<1>1. CASE UNCHANGED connectionVars
    BY <1>1
       DEF connectionVars, serverVars, readerVars, eventVars, screenVars, PageInv,
           ConnectionTypeOK, SeenOK,
                LoopOK, ReturnOK, ToldOK, CoverOK, RefusalOK, Published, Active
<1>2. ASSUME NEW k \in Requests, Answer(k) \/ RequestFails(k) PROVE PageInv'
    BY <1>2, RequestStep
<1>3. CASE \/ Close \/ CoverUnauthorized
           \/ RefreshUnauthorized \/ SnapshotUnauthorized
           \/ RecoveryUnauthorized \/ StreamUnauthorized
    <2>1. Active
        <3>1. CASE CoverUnauthorized
            BY <3>1 DEF CoverUnauthorized, PageInv, LoopOK, ConnectionTypeOK
        <3>2. CASE RefreshUnauthorized \/ RecoveryUnauthorized
            <4>1. PICK k \in Requests : req[k].kind = "unauthorized"
                BY <3>2 DEF RefreshUnauthorized, RecoveryUnauthorized, Requests
            <4>2. req # [j \in Requests |-> Idle]
                BY <4>1 DEF Idle
            <4> QED BY <4>2 DEF PageInv, LoopOK
        <3> QED BY <1>3, <3>1, <3>2
                   DEF Close, SnapshotUnauthorized, StreamUnauthorized, Active
    <2>2. Invalidate("off") \/ Invalidate("unauthorized")
        BY <1>3
           DEF Close, CoverUnauthorized, RefreshUnauthorized,
               SnapshotUnauthorized,
                    SnapshotRejected, RecoveryUnauthorized, StreamUnauthorized,
                    TerminateAuthorization
    <2> QED BY <2>1, <2>2, InvalidateStep
<1> QED BY <1>1, <1>2, <1>3, ServerStep, CoverStep, StartStep, AskStep, ConnectionStep, EventStep,
           RefreshStep, SnapshotStep, ApplyStep, RecoveryStep, FailureStep
        DEF ConnectionNext, Client

-----------------------------------------------------------------------------
\* The page is what its declarations say (MediaConnectionController, MainActivity).
THEOREM PageTypeCorrect == ConnectionSpec => []ConnectionTypeOK
<1>1. PageInv => ConnectionTypeOK
    BY DEF PageInv
<1>2. ConnectionInit => PageInv
    BY PageInitInv
<1>3. PageInv /\ [ConnectionNext]_connectionVars => PageInv'
    BY PageNextInv
<1> QED BY <1>1, <1>2, <1>3, PTL DEF ConnectionSpec

\* As long as the Server runs, a connected page with nothing left to read shows
\* its newest state: snapshot, recovery and events lose none between them, however
\* they overlap and fail and however often the page is left and comes back
\* (runConnectionLoop, recoveryGate, applyStateOnMain).
THEOREM PageShowsNewest == ConnectionSpec => []ShowsNewest
<1>1. ASSUME PageInv PROVE ShowsNewest
    <2> SUFFICES ASSUME CaughtUp, epoch = 1 PROVE shown = NewestState
        BY DEF ShowsNewest
    <2> USE <1>1 DEF PageInv
    <2>1. /\ loop = "streaming" /\ stream = "open" /\ gate = "passed" /\ ready = <<>>
          /\ told = last[1]
        BY DEF CaughtUp
    <2>2. lastApplied > 0 /\ waiting = <<>> /\ \A i : i \notin DOMAIN <<>>
        BY <2>1 DEF LoopOK
    <2>3. shown # NoState /\ lastApplied = shown[2] /\ Published(shown) /\ shown \in States
        BY <2>2, Numbers DEF SeenOK, Published
    <2>4. shown = <<shown[1], shown[2]>> /\ shown[1] = 1 /\ shown[2] <= last[1]
        BY <2>3, Numbers DEF Published
    <2>5. told # 0 /\ lastApplied >= told
        BY <2>1, <2>2, <2>3, <2>4, Numbers DEF ToldOK
    <2>6. shown[2] = last[1]
        BY <2>1, <2>3, <2>4, <2>5, Numbers
    <2> QED BY <2>4, <2>6 DEF NewestState
<1>2. ConnectionInit => PageInv
    BY PageInitInv
<1>3. PageInv /\ [ConnectionNext]_connectionVars => PageInv'
    BY PageNextInv
<1> QED BY <1>1, <1>2, <1>3, PTL DEF ConnectionSpec

\* No state on the screen is replaced by an older one of the same process, also
\* across visits of the page, where lastAppliedRevision starts again.
THEOREM PageShownGrows == ConnectionSpec => ShownGrows
<1>1. ASSUME PageInv, [ConnectionNext]_connectionVars, shown'[1] = shown[1] PROVE shown'[2] >= shown[2]
    <2> USE <1>1 DEF PageInv
    <2>1. ASSUME NEW st, Published(st), ApplyState(st),
                 lastApplied = -1 => st[1] > shown[1] \/ st[2] >= shown[2]
          PROVE  shown'[2] >= shown[2]
        <3>1. st[1] \in Nat /\ st[2] \in Nat
            BY <2>1, Numbers DEF Published
        <3>2. /\ shown' = shown \/ shown' = st
              /\ lastApplied' # -1 => lastApplied' = shown'[2]
              /\ lastApplied' >= lastApplied
            BY <2>1, Applied
        <3>3. CASE shown' = shown
            BY <3>3, Numbers
        <3>4. CASE shown' = st /\ lastApplied = -1
            BY <1>1, <2>1, <3>1, <3>4, Numbers
        <3>5. CASE lastApplied # -1
            BY <3>2, <3>5, Numbers DEF SeenOK
        <3> QED BY <3>2, <3>3, <3>4, <3>5
    <2>2. ASSUME NEW k \in Requests, req[k].kind = "state", ApplyState(req[k].state)
          PROVE  shown'[2] >= shown[2]
        BY <2>1, <2>2 DEF SeenOK, ReturnOK
    <2>3. CASE RefreshDone
        BY <2>2, <2>3, Numbers DEF RefreshDone, Requests, screenVars
    <2>4. CASE SnapshotApplied
        BY <2>2, <2>4 DEF SnapshotApplied, Requests
    <2>5. CASE RecoveryApplied
        BY <2>2, <2>5 DEF RecoveryApplied, Requests
    <2>6. CASE ApplyEvent
        <3>1. ready \in Seq(States) /\ ready # <<>> /\ ApplyState(Head(ready))
            BY <2>6 DEF ApplyEvent, ConnectionTypeOK
        <3>2. Head(ready) = ready[1] /\ 1 \in DOMAIN ready
            BY <3>1, Taken
        <3> QED BY <2>1, <3>1, <3>2 DEF SeenOK, ReturnOK
    <2>7. CASE shown' = shown
        BY <2>7, Numbers
    <2>8. \/ shown' = shown \/ RefreshDone \/ SnapshotApplied
          \/ RecoveryApplied \/ ApplyEvent
        BY <1>1
           DEF ConnectionNext, Client, connectionVars, screenVars, serverVars,
               readerVars, eventVars,
              PublishState, Restart, Unpair, Answer, RequestFails,
              Start, Close, Refresh,
              StreamOpens, StreamBreaks, StreamRevoked, Event,
              LateEvent, Retry,
              CoverArrives, CoverUnauthorized, RefreshUnauthorized,
              SnapshotFailed,
              SnapshotUnauthorized, SnapshotRejected, StreamRefused,
              RecoveryFailed,
              RecoveryUnauthorized, Reconnect, StreamUnauthorized,
              TerminateAuthorization,
              Invalidate
    <2> QED BY <2>3, <2>4, <2>5, <2>6, <2>7, <2>8
<1>2. PageInv /\ [ConnectionNext]_connectionVars => [shown'[1] = shown[1] => shown'[2] >= shown[2]]_connectionVars
    BY <1>1
<1>3. ConnectionInit => PageInv
    BY PageInitInv
<1>4. PageInv /\ [ConnectionNext]_connectionVars => PageInv'
    BY PageNextInv
<1> QED BY <1>2, <1>3, <1>4, PTL DEF ConnectionSpec, ShownGrows

\* In the first visit of the page, the picture on the screen is that of the state
\* on the screen, however late a cover comes (loadedCoverPath, coverJob).
THEOREM PageCoverIsOfTrack == ConnectionSpec => []CoverIsOfTrack
<1>1. ASSUME PageInv PROVE CoverIsOfTrack
    <2> SUFFICES ASSUME starts = 1, Active, lastApplied > 0, artwork # NoCover
                 PROVE  artwork = CoverOf[shown[2]]
        BY DEF CoverIsOfTrack, CoverIsOfTrackAlways
    <2>1. lastApplied = shown[2]
        BY <1>1, Numbers DEF PageInv, SeenOK
    <2> QED BY <1>1, <2>1 DEF PageInv, CoverOK
<1>2. ConnectionInit => PageInv
    BY PageInitInv
<1>3. PageInv /\ [ConnectionNext]_connectionVars => PageInv'
    BY PageNextInv
<1> QED BY <1>1, <1>2, <1>3, PTL DEF ConnectionSpec

\* The loop gives up only when the Server was restarted: a process of the Server
\* never refuses a revision that it has told itself.
THEOREM OnlyRestartEndsLoop == ConnectionSpec => [](epoch = 1 => KeepsTrying)
<1>1. PageInv => (epoch = 1 => KeepsTrying)
    BY DEF PageInv, RefusalOK, KeepsTrying
<1>2. ConnectionInit => PageInv
    BY PageInitInv
<1>3. PageInv /\ [ConnectionNext]_connectionVars => PageInv'
    BY PageNextInv
<1> QED BY <1>1, <1>2, <1>3, PTL DEF ConnectionSpec
=============================================================================
