--------------------------- MODULE DiscoveryProofs ---------------------------
(***************************************************************************)
(* Proofs about Discovery, for every set of Servers and every bound.       *)
(*                                                                         *)
(* The properties are not inductive: they do not say what resolves of an   *)
(* earlier scan may still be open, nor how the flag `resolving` relates to *)
(* the resolves of this one once stopLocked has cleared it.  The second    *)
(* part is about LocalConsole, the console of the PC.                      *)
(***************************************************************************)
EXTENDS Discovery, LocalConsole, SequenceTheorems, FiniteSetTheorems, TLAPS

\* No call under way is of a scan that is still to come, and every scan and
\* every stop has a generation of its own.
GenerationsOK ==
    /\ gen = scans + stops
    /\ \A r \in resolves: r.gen <= gen

\* Whatever the flag is, it is up only while a resolve of this scan will answer.
FlagOK ==
    /\ queue # <<>> => resolving
    /\ resolving => \E r \in resolves: Gated(r)

\* During a scan the flag is up whenever a resolve of it is open, and there is
\* one at most.
ScanOK ==
    scanning =>
        /\ \A r \in resolves: Gated(r) => resolving
        /\ \A r, s \in resolves: Gated(r) /\ Gated(s) => r = s

Inv == TypeOK /\ GenerationsOK /\ FlagOK /\ ScanOK

-----------------------------------------------------------------------------
\* A candidate is put at the end of the queue once.
LEMMA EnqueuedType ==
    ASSUME NEW s \in Servers, queue \in Seq(Servers), IsInjective(queue)
    PROVE  /\ Enqueued(s) \in Seq(Servers) /\ IsInjective(Enqueued(s))
           /\ Enqueued(s) # <<>>
<1>1. CASE Contains(queue, s)
    BY <1>1 DEF Enqueued, Contains
<1>2. CASE ~Contains(queue, s)
    <2>1. Enqueued(s) = Append(queue, s)
        BY <1>2 DEF Enqueued
    <2>2. \A n \in 1..Len(queue): queue[n] # s
        BY <1>2 DEF Contains
    <2> QED BY <2>1, <2>2 DEF IsInjective
<1> QED BY <1>1, <1>2

\* What is left of a queue when its first candidates are taken is a queue.
LEMMA RestType ==
    ASSUME NEW q \in Seq(Servers), IsInjective(q), NEW thrown \in 0..Len(q) - 1
    PROVE  LET rest == SubSeq(q, thrown + 1, Len(q)) IN
           /\ rest \in Seq(Servers) /\ rest # <<>> /\ IsInjective(rest)
           /\ Head(rest) \in Servers
           /\ Tail(rest) \in Seq(Servers) /\ IsInjective(Tail(rest))
<1> DEFINE rest == SubSeq(q, thrown + 1, Len(q))
<1>1. /\ rest \in Seq(Servers) /\ Len(rest) = Len(q) - thrown
      /\ \A n \in 1..Len(rest): rest[n] = q[n + thrown]
    OBVIOUS
<1>2. rest # <<>> /\ IsInjective(rest)
    BY <1>1 DEF IsInjective
<1> HIDE DEF rest
<1>3. /\ Head(rest) \in Servers /\ Tail(rest) \in Seq(Servers)
      /\ Len(Tail(rest)) = Len(rest) - 1
      /\ \A n \in 1..Len(Tail(rest)): Tail(rest)[n] = rest[n + 1]
    BY <1>1, <1>2, HeadTailProperties
<1>4. IsInjective(Tail(rest))
    BY <1>1, <1>2, <1>3 DEF IsInjective
<1> QED BY <1>1, <1>2, <1>3, <1>4 DEF rest

\* resolveNext leaves nothing waiting without a resolve that will answer for it,
\* and begins none while one is open.
LEMMA ResolveNextServes ==
    ASSUME NEW q \in Seq(Servers), IsInjective(q),
           NEW idle \in BOOLEAN, NEW open \in SUBSET Asked,
           gen \in Generations, ResolveNext(q, idle, open)
    PROVE  \/ ~idle /\ queue' = q /\ resolving' = TRUE /\ resolves' = open
           \/ idle /\ queue' = <<>> /\ resolving' = FALSE /\ resolves' = open
           \/ /\ idle /\ queue' \in Seq(Servers) /\ IsInjective(queue')
              /\ resolving' = TRUE
              /\ \E s \in Servers: resolves' = open \cup {[gen |-> gen, server |-> s]}
<1>1. CASE ~idle
    BY <1>1 DEF ResolveNext
<1>2. CASE idle
    <2>1. ASSUME NEW thrown \in 0..Len(q) - 1,
                 Resolve(SubSeq(q, thrown + 1, Len(q)), open)
          PROVE  /\ queue' \in Seq(Servers) /\ IsInjective(queue') /\ resolving' = TRUE
                 /\ \E s \in Servers: resolves' = open \cup {[gen |-> gen, server |-> s]}
        BY <2>1, RestType DEF Resolve
    <2> QED BY <1>2, <2>1, Zenon DEF ResolveNext
<1> QED BY <1>1, <1>2

LEMMA EmptyIsInjective == <<>> \in Seq(Servers) /\ IsInjective(<<>>)
BY DEF IsInjective

-----------------------------------------------------------------------------
LEMMA InitInv == Init => Inv
<1> SUFFICES ASSUME Init PROVE Inv
    OBVIOUS
<1>1. TypeOK
    <2>1. queue \in Seq(Servers) /\ IsInjective(queue) /\ posted \in Seq(Events)
        BY EmptyIsInjective DEF Init
    <2>2. {gen, listenerOf} \subseteq Generations /\ scans \in 0..MaxScans
          /\ stops \in 0..MaxStops /\ faults \in 0..MaxFaults /\ heard \in 0..MaxFound
        BY DiscoveryConstants DEF Init, Generations
    <2> QED BY <2>1, <2>2 DEF Init, TypeOK
<1>2. GenerationsOK /\ FlagOK /\ ScanOK
    BY DEF Init, GenerationsOK, FlagOK, ScanOK
<1> QED BY <1>1, <1>2 DEF Inv

\* The page starts a scan.
LEMMA ScanStep == ASSUME Inv, Scan PROVE Inv'
<1> USE DiscoveryConstants DEF Inv
<1>1. GenerationsOK' /\ gen' \in Generations
    BY DEF Scan, GenerationsOK, TypeOK, Generations, Asked
<1>2. \A r \in resolves: r.gen # gen'
    BY DEF Scan, GenerationsOK, TypeOK, Generations, Asked
<1>3. FlagOK' /\ ScanOK'
    BY <1>2 DEF Scan, StopLocked, FlagOK, ScanOK, Gated
<1>4. /\ queue' = <<>> /\ scanning' \in BOOLEAN /\ resolving' \in BOOLEAN
      /\ button' \in BOOLEAN /\ callback' \in BOOLEAN /\ visible' \in BOOLEAN
      /\ status' \in {"idle", "scanning", "finished", "unavailable"}
    BY DEF Scan, StopLocked, TypeOK
<1>5. faults' \in 0..MaxFaults /\ scans' \in 0..MaxScans
    BY DEF Scan, Fault, TypeOK
<1>6. listenerOf' \in Generations /\ list' \subseteq Servers /\ found' \subseteq Servers
    BY <1>1 DEF Scan, TypeOK
<1>7. TypeOK'
    BY <1>1, <1>4, <1>5, <1>6, EmptyIsInjective DEF Scan, TypeOK
<1> QED BY <1>1, <1>3, <1>7

\* The scan ends: the flag falls, its resolves stay open.
LEMMA EndStep ==
    ASSUME Inv, NEW kind \in {"Finished", "Unavailable"}, End(kind),
           faults' \in 0..MaxFaults
    PROVE  Inv'
<1> USE DEF Inv
<1>1. GenerationsOK' /\ FlagOK' /\ ScanOK'
    BY DEF End, StopLocked, GenerationsOK, FlagOK, ScanOK, Gated
<1>2. ending' \subseteq Events
    BY DEF End, TypeOK, Events, Kinds
<1>3. TypeOK'
    BY <1>2, EmptyIsInjective DEF End, StopLocked, TypeOK, uiVars
<1> QED BY <1>1, <1>3

\* A Server is announced, or a resolve is answered: the only steps that begin a
\* resolve.
LEMMA ServiceFoundStep == ASSUME Inv, ServiceFound PROVE Inv'
<1> USE DEF Inv
<1>1. PICK s \in Servers: ResolveNext(Enqueued(s), ~resolving, resolves)
    BY DEF ServiceFound
<1>2. /\ gen \in Generations /\ resolving \in BOOLEAN /\ resolves \in SUBSET Asked
      /\ Enqueued(s) \in Seq(Servers) /\ IsInjective(Enqueued(s))
    BY EnqueuedType DEF TypeOK
<1>3. \/ resolving /\ queue' = Enqueued(s) /\ resolving' = TRUE /\ resolves' = resolves
      \/ ~resolving /\ queue' = <<>> /\ resolving' = FALSE /\ resolves' = resolves
      \/ /\ ~resolving /\ queue' \in Seq(Servers) /\ IsInjective(queue')
         /\ resolving' = TRUE
         /\ \E t \in Servers: resolves' = resolves \cup {[gen |-> gen, server |-> t]}
    BY <1>1, <1>2, ResolveNextServes
<1>4. \A t \in Servers: /\ [gen |-> gen, server |-> t] \in Asked
                       /\ Gated([gen |-> gen, server |-> t])
    BY <1>2 DEF Asked, Gated
<1>5. resolves' \subseteq Asked /\ queue' \in Seq(Servers) /\ IsInjective(queue')
      /\ resolving' \in BOOLEAN
    BY <1>2, <1>3, <1>4, EmptyIsInjective
<1>6. TypeOK'
    BY <1>5, DiscoveryConstants DEF ServiceFound, TypeOK, uiVars
<1>7. GenerationsOK'
    BY <1>2, <1>3 DEF ServiceFound, GenerationsOK, TypeOK, Generations
<1>8. FlagOK'
    <2>1. gen' = gen
        BY DEF ServiceFound
    <2>2. resolving' = TRUE => \E r \in resolves': r.gen = gen
        BY <1>2, <1>3, <1>4 DEF FlagOK, Gated
    <2>3. queue' # <<>> => resolving' = TRUE
        BY <1>3
    <2> QED BY <1>5, <2>1, <2>2, <2>3 DEF FlagOK, Gated
<1>9. ScanOK'
    BY <1>2, <1>3 DEF ServiceFound, ScanOK, Gated, TypeOK
<1> QED BY <1>6, <1>7, <1>8, <1>9

LEMMA ResolveAnsweredStep == ASSUME Inv, ResolveAnswered PROVE Inv'
<1> USE DEF Inv
<1>1. PICK r \in resolves:
         IF ~Gated(r)
         THEN /\ resolves' = resolves \ {r}
              /\ UNCHANGED <<queue, resolving, checks, faults>>
         ELSE /\ \/ checks' = checks \cup {r} /\ UNCHANGED faults
                 \/ /\ \/ resolves # {r} /\ UNCHANGED faults
                       \/ Fault
                    /\ UNCHANGED checks
              /\ ResolveNext(queue, TRUE, resolves \ {r})
    BY DEF ResolveAnswered
<1>2. UNCHANGED <<gen, listenerOf, scanning, callback, found, ending, posted, uiVars,
                  visible, scans, stops, heard>>
    BY DEF ResolveAnswered
<1>3. CASE ~Gated(r)
    <2>1. resolves' = resolves \ {r} /\ UNCHANGED <<queue, resolving, checks, faults>>
        BY <1>1, <1>3
    <2>2. TypeOK'
        BY <1>2, <2>1 DEF TypeOK, uiVars
    <2>3. GenerationsOK' /\ FlagOK' /\ ScanOK'
        BY <1>2, <1>3, <2>1 DEF GenerationsOK, FlagOK, ScanOK, Gated
    <2> QED BY <2>2, <2>3
<1>4. CASE Gated(r)
    <2>1. ResolveNext(queue, TRUE, resolves \ {r})
        BY <1>1, <1>4
    <2>2. /\ gen \in Generations /\ resolves \in SUBSET Asked
          /\ queue \in Seq(Servers) /\ IsInjective(queue)
        BY DEF TypeOK
    <2>3. \/ queue' = <<>> /\ resolving' = FALSE /\ resolves' = resolves \ {r}
          \/ /\ queue' \in Seq(Servers) /\ IsInjective(queue') /\ resolving' = TRUE
             /\ \E t \in Servers:
                   resolves' = (resolves \ {r}) \cup {[gen |-> gen, server |-> t]}
        BY <2>1, <2>2, ResolveNextServes
    <2>4. \A t \in Servers: /\ [gen |-> gen, server |-> t] \in Asked
                           /\ Gated([gen |-> gen, server |-> t])
        BY <2>2 DEF Asked, Gated
    <2>5. resolves' \subseteq Asked /\ queue' \in Seq(Servers) /\ IsInjective(queue')
          /\ resolving' \in BOOLEAN
        BY <2>2, <2>3, <2>4, EmptyIsInjective
    <2>6. checks' \subseteq Asked /\ faults' \in 0..MaxFaults
        BY <1>1, <1>4, <2>2, DiscoveryConstants DEF TypeOK, Fault
    <2>7. TypeOK'
        BY <1>2, <2>5, <2>6 DEF TypeOK, uiVars
    <2>8. GenerationsOK'
        BY <1>2, <2>2, <2>3 DEF GenerationsOK, TypeOK, Generations
    <2>9. FlagOK'
        <3>1. resolving' = TRUE => \E s \in resolves': s.gen = gen
            BY <2>3, <2>4 DEF Gated
        <3>2. queue' # <<>> => resolving' = TRUE
            BY <2>3
        <3> QED BY <1>2, <2>5, <3>1, <3>2 DEF FlagOK, Gated
    <2>10. ScanOK'
        BY <1>2, <1>4, <2>2, <2>3 DEF ScanOK, Gated, TypeOK
    <2> QED BY <2>7, <2>8, <2>9, <2>10
<1> QED BY <1>3, <1>4

\* The activity is stopped: a new generation begins without a scan.
LEMMA StopStep == ASSUME Inv, Stop PROVE Inv'
<1> USE DiscoveryConstants DEF Inv
<1>1. gen' = gen + 1 /\ stops' = stops + 1 /\ UNCHANGED <<scans, resolves>>
    BY DEF Stop
<1>2. stops' \in 0..MaxStops /\ gen' \in Generations
    BY <1>1 DEF Stop, GenerationsOK, TypeOK, Generations
<1>3. GenerationsOK'
    <2>1. \A r \in resolves: r.gen \in Nat /\ gen \in Nat /\ scans \in Nat /\ stops \in Nat
        BY DEF TypeOK, Asked, Generations
    <2>2. gen' = scans' + stops'
        BY <1>1 DEF GenerationsOK, TypeOK
    <2> QED BY <1>1, <2>1, <2>2 DEF GenerationsOK
<1>4. FlagOK' /\ ScanOK'
    BY DEF Stop, StopLocked, FlagOK, ScanOK
<1>5. /\ scanning' = FALSE /\ callback' = FALSE /\ resolving' = FALSE /\ visible' = FALSE
      /\ queue' = <<>> /\ UNCHANGED <<listenerOf, resolves, checks, found, ending, posted,
                                     list, status, button, scans, faults, heard>>
    BY DEF Stop, StopLocked, uiVars
<1>6. TypeOK'
    BY <1>2, <1>5, EmptyIsInjective DEF TypeOK
<1> QED BY <1>3, <1>4, <1>6

\* The other steps leave the chain of resolves alone.
LEMMA PageStep ==
    ASSUME Inv, Say \/ IdentityAnswered \/ Handle \/ Start \/ UNCHANGED vars
    PROVE  Inv'
<1> USE DEF Inv
<1>1. UNCHANGED <<gen, scanning, queue, resolving, resolves, scans, stops>>
    BY DEF Say, IdentityAnswered, Handle, Start, vars, resolveVars, bounds
<1>2. GenerationsOK' /\ FlagOK' /\ ScanOK'
    BY <1>1 DEF GenerationsOK, FlagOK, ScanOK, Gated
<1>3. CASE Say
    <2>1. PICK e \in ending: ending' = ending \ {e} /\ posted' = Append(posted, e)
        BY <1>3 DEF Say
    <2>2. posted' \in Seq(Events) /\ ending' \subseteq Events
        BY <2>1 DEF TypeOK
    <2> QED BY <1>2, <1>3, <2>2 DEF Say, TypeOK, resolveVars, uiVars, bounds
<1>4. CASE IdentityAnswered
    <2>1. PICK c \in checks:
             /\ checks' = checks \ {c}
             /\ \/ /\ found' = found \cup Confirmed(c) /\ UNCHANGED faults
                   /\ posted' = IF Gated(c) /\ callback
                                THEN Append(posted, [kind |-> "Updated", servers |-> found'])
                                ELSE posted
                \/ Fault /\ UNCHANGED <<found, posted>>
        BY <1>4 DEF IdentityAnswered
    <2>2. found' \subseteq Servers /\ checks' \subseteq Asked
        BY <2>1 DEF TypeOK, Confirmed, Asked
    <2>3. [kind |-> "Updated", servers |-> found'] \in Events
        BY <2>2 DEF Events, Kinds
    <2>4. posted' \in Seq(Events)
        BY <2>1, <2>3 DEF TypeOK
    <2>5. faults' \in 0..MaxFaults
        BY <2>1, DiscoveryConstants DEF TypeOK, Fault
    <2> QED BY <1>2, <1>4, <2>2, <2>4, <2>5
            DEF IdentityAnswered, TypeOK, resolveVars, uiVars
<1>5. CASE Handle
    <2>1. Head(posted) \in Events /\ posted' \in Seq(Events)
        BY <1>5 DEF Handle, TypeOK
    <2>2. list' \subseteq Servers
          /\ status' \in {"idle", "scanning", "finished", "unavailable"}
          /\ button' \in BOOLEAN
        BY <1>5, <2>1 DEF Handle, TypeOK, Events
    <2> QED BY <1>2, <1>5, <2>1, <2>2 DEF Handle, TypeOK, resolveVars, bounds
<1>6. CASE Start
    BY <1>2, <1>6 DEF Start, TypeOK, resolveVars, uiVars
<1>7. CASE UNCHANGED vars
    BY <1>2, <1>7 DEF vars, TypeOK, resolveVars, uiVars, bounds
<1> QED BY <1>2, <1>3, <1>4, <1>5, <1>6, <1>7

LEMMA NextInv == Inv /\ [Next]_vars => Inv'
<1> SUFFICES ASSUME Inv, [Next]_vars PROVE Inv'
    OBVIOUS
<1>1. \A k \in 0..MaxFaults: k < MaxFaults => k + 1 \in 0..MaxFaults
    BY DiscoveryConstants
<1>2. ASSUME DeadlinePasses \/ StartFails \/ StopFails PROVE Inv'
    <2>1. faults' \in 0..MaxFaults
        BY <1>1, <1>2 DEF DeadlinePasses, StartFails, StopFails, Fault, Inv, TypeOK
    <2> QED BY <1>2, <2>1, EndStep DEF DeadlinePasses, StartFails, StopFails
<1> QED BY <1>2, ScanStep, ServiceFoundStep, ResolveAnsweredStep, StopStep, PageStep
        DEF Next

-----------------------------------------------------------------------------
\* The state of the discovery is what its declarations say, and no candidate
\* waits twice (NsdDiscoveryClient, MainActivity.refreshPairingPage).
THEOREM TypeCorrect == Spec => []TypeOK
<1>1. Inv => TypeOK
    BY DEF Inv
<1> QED BY <1>1, InitInv, NextInv, PTL DEF Spec

\* The chain of resolves never breaks: while candidates wait, a resolve of this
\* scan is open whose answer takes the next one (resolveNext, stopLocked).
THEOREM WaitingIsServed == Spec => []QueueIsServed
<1>1. Inv => QueueIsServed
    BY DEF Inv, FlagOK, QueueIsServed
<1> QED BY <1>1, InitInv, NextInv, PTL DEF Spec

\* During a scan at most one of its resolves is open, as NsdManager demands.
THEOREM ResolvesOneAtATime == Spec => []OneResolve
<1>1. ASSUME Inv PROVE OneResolve
    <2> SUFFICES ASSUME scanning
                 PROVE  Cardinality({r \in resolves: Gated(r)}) <= 1
        BY DEF OneResolve
    <2> DEFINE open == {r \in resolves: Gated(r)}
    <2>1. \A r, s \in open: r = s
        BY <1>1 DEF Inv, ScanOK
    <2> HIDE DEF open
    <2>2. Cardinality(open) <= 1
        <3>1. CASE open = {}
            BY <3>1, FS_EmptySet
        <3>2. CASE open # {}
            <4>1. PICK r: r \in open
                BY <3>2
            <4>2. open = {r}
                BY <2>1, <4>1
            <4>3. Cardinality(open) = 1
                BY <4>2, FS_Singleton
            <4> QED BY <4>3
        <3> QED BY <3>1, <3>2
    <2> QED BY <2>2 DEF open
<1> QED BY <1>1, InitInv, NextInv, PTL DEF Spec

-----------------------------------------------------------------------------
(* The local console (LocalConsole): for any lists, any number of changes,  *)
(* lost connections and fetches.                                            *)

\* As long as no answer has overtaken an earlier one, the page misses nothing.
InOrderMissesNothing == overtakes = 0 => NothingMissed

ConsoleInv == ConsoleTypeOK /\ InOrderMissesNothing

\* What is put at the end of a queue is its last element, ...
LEMMA Lengthened ==
    ASSUME NEW S, NEW s \in Seq(S), NEW e \in S
    PROVE  /\ Append(s, e) \in Seq(S) /\ Append(s, e) # <<>>
           /\ Last(Append(s, e)) = e
           /\ ToSet(Append(s, e)) = ToSet(s) \cup {e}
BY DEF Last, ToSet

\* ... and what is taken from its head leaves the others.
LEMMA Shortened ==
    ASSUME NEW S, NEW s \in Seq(S), s # <<>>
    PROVE  /\ Head(s) \in S /\ Tail(s) \in Seq(S) /\ Head(s) = s[1] /\ 1 \in DOMAIN s
           /\ ToSet(s) = {Head(s)} \cup ToSet(Tail(s))
           /\ IF Tail(s) = <<>> THEN Last(s) = Head(s)
                                ELSE Last(Tail(s)) = Last(s)
<1>1. /\ Len(s) \in Nat /\ Len(s) > 0 /\ DOMAIN s = 1..Len(s)
      /\ Head(s) \in S /\ Head(s) = s[1] /\ \A i \in DOMAIN s: s[i] \in S
    OBVIOUS
<1>2. /\ Tail(s) \in Seq(S) /\ Len(Tail(s)) = Len(s) - 1 /\ DOMAIN Tail(s) = 1..Len(s) - 1
      /\ \A i \in 1..Len(s) - 1: Tail(s)[i] = s[i + 1]
    OBVIOUS
<1>3. ToSet(s) = {Head(s)} \cup ToSet(Tail(s))
    <2>1. \A i \in DOMAIN s: i = 1 \/ (i - 1 \in DOMAIN Tail(s) /\ Tail(s)[i - 1] = s[i])
        BY <1>1, <1>2
    <2>2. \A i \in DOMAIN Tail(s): i + 1 \in DOMAIN s /\ Tail(s)[i] = s[i + 1]
        BY <1>1, <1>2
    <2>3. ASSUME NEW e \in ToSet(s)
          PROVE  e \in {Head(s)} \cup ToSet(Tail(s))
        BY <1>1, <2>1, <2>3 DEF ToSet
    <2>4. ASSUME NEW e \in ToSet(Tail(s)) PROVE e \in ToSet(s)
        BY <2>2, <2>4 DEF ToSet
    <2>5. Head(s) \in ToSet(s)
        BY <1>1 DEF ToSet
    <2> QED BY <2>3, <2>4, <2>5
<1>4. CASE Tail(s) = <<>>
    <2>1. Len(s) = 1
        <3>1. PICK t: t = Tail(s)
            OBVIOUS
        <3>2. t = <<>> /\ Len(t) = Len(s) - 1
            BY <1>2, <1>4, <3>1
        <3>3. Len(<<>>) = 0
            OBVIOUS
        <3>4. PICK l \in Nat: l = Len(s)
            BY <1>1
        <3> QED BY <3>2, <3>3, <3>4
    <2> QED BY <1>1, <1>2, <1>3, <1>4, <2>1 DEF Last
<1>5. CASE Tail(s) # <<>>
    <2>1. Len(s) - 1 \in 1..Len(s) - 1
        BY <1>1, <1>2, <1>5
    <2>2. Tail(s)[Len(s) - 1] = s[Len(s)]
        BY <1>1, <1>2, <2>1
    <2> QED BY <1>1, <1>2, <1>3, <1>5, <2>2 DEF Last
<1> QED BY <1>4, <1>5

\* An element that is removed, the first or another.
LEMMA Removed ==
    ASSUME NEW S, NEW s \in Seq(S), NEW n \in DOMAIN s
    PROVE  /\ RemoveAt(s, n) \in Seq(S)
           /\ n = 1 => RemoveAt(s, n) = Tail(s)
BY DEF RemoveAt

LEMMA ConsoleInitInv == ConsoleInit => ConsoleInv
<1> SUFFICES ASSUME ConsoleInit PROVE ConsoleInv
    OBVIOUS
<1>1. \A S: <<>> \in Seq(S)
    OBVIOUS
<1>2. <<"unread">> \in Seq(Contents)
    BY DEF Contents
<1>3. /\ fetches \in [Domains -> Seq(Contents)]
      /\ shown \in [Domains -> Contents]
    BY <1>2 DEF ConsoleInit, Contents
<1>4. 0 \in 0..MaxChanges /\ 0 \in 0..MaxEvents /\ 0 \in 0..MaxOvertakes
    BY ConsoleConstants
<1>5. ConsoleTypeOK
    BY <1>1, <1>3, <1>4 DEF ConsoleInit, ConsoleTypeOK
<1> QED BY <1>5 DEF ConsoleInv, InOrderMissesNothing, ConsoleInit, NothingMissed

\* The Server's side: what changes is told, and what is told is kept.
LEMMA ConsolePublish == ConsoleInv /\ Publish => ConsoleInv'
<1> SUFFICES ASSUME ConsoleInv, Publish PROVE ConsoleInv'
    OBVIOUS
<1>1. PICK D \in SUBSET Domains \ {{}}:
          /\ shown' = [d \in Domains |-> IF d \in D THEN Outdated(shown[d]) ELSE shown[d]]
          /\ fetches' = [d \in Domains |->
                 IF d \in D THEN [n \in DOMAIN fetches[d] |-> Outdated(fetches[d][n])]
                 ELSE fetches[d]]
          /\ calls' = Append(calls, D)
    BY DEF Publish
<1>2. ConsoleTypeOK
    BY DEF ConsoleInv
<1>3. /\ calls' \in Seq(SUBSET Domains)
      /\ ToSet(calls') = ToSet(calls) \cup {D}
    <2>1. calls \in Seq(SUBSET Domains) /\ D \in SUBSET Domains
        BY <1>2 DEF ConsoleTypeOK
    <2> QED BY <1>1, <2>1, Lengthened
<1>4. \A c \in Contents: Outdated(c) \in Contents
    BY DEF Outdated, Contents
<1>5. fetches' \in [Domains -> Seq(Contents)] /\ shown' \in [Domains -> Contents]
    <2>1. ASSUME NEW d \in Domains
          PROVE  /\ fetches'[d] \in Seq(Contents)
                 /\ shown'[d] \in Contents
        <3>1. fetches[d] \in Seq(Contents) /\ shown[d] \in Contents
            BY <1>2, <2>1 DEF ConsoleTypeOK
        <3>2. [n \in DOMAIN fetches[d] |-> Outdated(fetches[d][n])]
                  \in Seq(Contents)
            BY <1>4, <3>1
        <3> QED BY <1>1, <1>4, <2>1, <3>1, <3>2
    <2> QED BY <1>1, <2>1
<1>6. ConsoleTypeOK'
    BY <1>2, <1>3, <1>5, ConsoleConstants DEF ConsoleTypeOK, Publish
<1>7. ASSUME overtakes' = 0, stream', NEW d \in Domains
      PROVE  ReadsNewest(d)' \/ ToBeTold(d)'
    <2>1. CASE d \in D
        BY <1>3, <2>1 DEF ToBeTold
    <2>2. CASE d \notin D
        <3>1. fetches'[d] = fetches[d] /\ shown'[d] = shown[d]
            BY <1>1, <2>2
        <3>2. ReadsNewest(d) \/ ToBeTold(d)
            BY <1>7 DEF ConsoleInv, InOrderMissesNothing, NothingMissed, Publish
        <3> QED BY <1>3, <3>1, <3>2 DEF ReadsNewest, ToBeTold, Publish
    <2> QED BY <2>1, <2>2
<1> QED BY <1>6, <1>7 DEF ConsoleInv, InOrderMissesNothing, NothingMissed

LEMMA ConsoleDelivery ==
    ConsoleInv /\ (Accept \/ Emit \/ Changed)
        => ConsoleInv'
<1> SUFFICES ASSUME ConsoleInv,
                    Accept \/ Emit \/ Changed
             PROVE  ConsoleInv'
    OBVIOUS
<1>1. ConsoleTypeOK
    BY DEF ConsoleInv
<1>2. ASSUME overtakes = 0, stream, NEW d \in Domains
      PROVE  ReadsNewest(d) \/ ToBeTold(d)
    BY <1>2 DEF ConsoleInv, InOrderMissesNothing, NothingMissed
<1>3. CASE Accept
    <2>1. /\ calls' \in Seq(SUBSET Domains) /\ Head(calls) \in SUBSET Domains
          /\ ToSet(calls) = {Head(calls)} \cup ToSet(calls')
        BY <1>1, <1>3, Shortened DEF Accept, ConsoleTypeOK
    <2>2. slot' = IF stream THEN slot \cup Head(calls) ELSE slot
        BY <1>3 DEF Accept, Kept, Registered
    <2>3. ConsoleTypeOK'
        BY <1>1, <1>3, <2>1, <2>2 DEF ConsoleTypeOK, Accept, consoleBounds
    <2>4. ASSUME overtakes' = 0, stream', NEW d \in Domains
          PROVE  ReadsNewest(d)' \/ ToBeTold(d)'
        <3>1. stream /\ overtakes = 0 /\ wire' = wire /\ fetches' = fetches /\ shown' = shown
            BY <1>3, <2>4 DEF Accept, consoleBounds
        <3>2. ToBeTold(d) => ToBeTold(d)'
            BY <2>1, <2>2, <3>1 DEF ToBeTold
        <3> QED BY <1>2, <2>4, <3>1, <3>2 DEF ReadsNewest
    <2> QED BY <2>3, <2>4 DEF ConsoleInv, InOrderMissesNothing, NothingMissed
<1>4. CASE Emit
    <2>1. /\ wire' \in Seq(SUBSET Domains)
          /\ ToSet(wire') = ToSet(wire) \cup {slot}
        <3>1. wire \in Seq(SUBSET Domains) /\ slot \in SUBSET Domains /\ wire' = Append(wire, slot)
            BY <1>1, <1>4 DEF Emit, ConsoleTypeOK
        <3> QED BY <3>1, Lengthened
    <2>2. ConsoleTypeOK'
        BY <1>1, <1>4, <2>1 DEF ConsoleTypeOK, Emit, consoleBounds
    <2>3. ASSUME overtakes' = 0, stream', NEW d \in Domains
          PROVE  ReadsNewest(d)' \/ ToBeTold(d)'
        BY <1>2, <1>4, <2>1, <2>3
           DEF Emit, consoleBounds, ToBeTold, ReadsNewest
    <2> QED BY <2>2, <2>3 DEF ConsoleInv, InOrderMissesNothing, NothingMissed
<1>5. CASE Changed
    <2>1. /\ wire' \in Seq(SUBSET Domains) /\ Head(wire) \in SUBSET Domains
          /\ ToSet(wire) = {Head(wire)} \cup ToSet(wire')
        BY <1>1, <1>5, Shortened DEF Changed, ConsoleTypeOK
    <2>2. fetches' = [d \in Domains |-> IF d \in Head(wire) THEN Append(fetches[d], "unread")
                                        ELSE fetches[d]]
        BY <1>5 DEF Changed, Sent
    <2>3. \A d \in Domains: /\ Append(fetches[d], "unread") \in Seq(Contents)
                            /\ Append(fetches[d], "unread") # <<>>
                            /\ Last(Append(fetches[d], "unread")) = "unread"
        <3>1. ASSUME NEW d \in Domains
              PROVE  fetches[d] \in Seq(Contents) /\ "unread" \in Contents
            BY <1>1 DEF ConsoleTypeOK, Contents
        <3> QED BY <3>1, Lengthened
    <2>4. fetches' \in [Domains -> Seq(Contents)]
        BY <1>1, <2>2, <2>3 DEF ConsoleTypeOK
    <2>5. ConsoleTypeOK'
        BY <1>1, <1>5, <2>1, <2>4 DEF ConsoleTypeOK, Changed, consoleBounds
    <2>6. ASSUME overtakes' = 0, stream', NEW d \in Domains
          PROVE  ReadsNewest(d)' \/ ToBeTold(d)'
        <3>1. CASE d \in Head(wire)
            BY <2>2, <2>3, <3>1 DEF ReadsNewest
        <3>2. CASE d \notin Head(wire)
            BY <1>2, <1>5, <2>1, <2>2, <2>6, <3>2
               DEF Changed, consoleBounds, ReadsNewest, ToBeTold
        <3> QED BY <3>1, <3>2
    <2> QED BY <2>5, <2>6 DEF ConsoleInv, InOrderMissesNothing, NothingMissed
<1> QED BY <1>3, <1>4, <1>5

\* The page's side: what it reads is read in the order in which it was asked.
LEMMA ConsoleFetch ==
    ConsoleInv /\ (ListRead \/ Refetch \/ Drawn)
        => ConsoleInv'
<1> SUFFICES ASSUME ConsoleInv,
                    ListRead \/ Refetch \/ Drawn
             PROVE  ConsoleInv'
    OBVIOUS
<1>1. ConsoleTypeOK /\ \A d \in Domains: fetches[d] \in Seq(Contents)
    BY DEF ConsoleInv, ConsoleTypeOK
<1>2. /\ UNCHANGED <<calls, stream, slot, wire>>
      /\ \A d \in Domains: ToBeTold(d)' = ToBeTold(d)
    BY DEF ListRead, Refetch, Drawn, consoleBounds, ToBeTold
<1>3. ASSUME overtakes = 0, stream, NEW d \in Domains
      PROVE  ReadsNewest(d) \/ ToBeTold(d)
    BY <1>3 DEF ConsoleInv, InOrderMissesNothing, NothingMissed
<1>4. ASSUME ConsoleTypeOK', overtakes' = 0 => overtakes = 0,
             \A d \in Domains: overtakes' = 0 /\ ReadsNewest(d)
                                   => ReadsNewest(d)'
      PROVE  ConsoleInv'
    BY <1>2, <1>3, <1>4 DEF ConsoleInv, InOrderMissesNothing, NothingMissed
<1>5. CASE ListRead
    <2>0. PICK d \in Domains: \E n \in DOMAIN fetches[d]:
              /\ fetches[d][n] = "unread"
              /\ fetches' = [fetches EXCEPT ![d][n] = "newest"]
        BY <1>5 DEF ListRead
    <2>1. PICK n \in DOMAIN fetches[d]:
              /\ fetches[d][n] = "unread"
              /\ fetches' = [fetches EXCEPT ![d][n] = "newest"]
        BY <2>0
    <2>2. fetches'[d] = [fetches[d] EXCEPT ![n] = "newest"]
          /\ \A e \in Domains: e # d => fetches'[e] = fetches[e]
        BY <1>1, <2>1 DEF ConsoleTypeOK
    <2>3. /\ fetches'[d] \in Seq(Contents) /\ Len(fetches'[d]) = Len(fetches[d])
          /\ fetches[d] # <<>> /\ fetches'[d] # <<>> /\ Len(fetches[d]) \in DOMAIN fetches[d]
        BY <1>1, <2>1, <2>2 DEF Contents
    <2>4. ConsoleTypeOK'
        BY <1>1, <1>5, <2>1, <2>2, <2>3 DEF ConsoleTypeOK, ListRead, consoleBounds
    <2>5. ASSUME NEW e \in Domains, ReadsNewest(e) PROVE ReadsNewest(e)'
        <3>1. shown' = shown
            BY <1>5 DEF ListRead
        <3>2. CASE e # d
            BY <2>2, <2>5, <3>1, <3>2 DEF ReadsNewest
        <3>3. CASE e = d
            <4>1. Last(fetches[d]) \in {"unread", "newest"}
                BY <2>3, <2>5, <3>3 DEF ReadsNewest
            <4>2. fetches'[d][Len(fetches[d])] \in {"unread", "newest"}
                BY <1>1, <2>2, <2>3, <4>1 DEF Last
            <4> QED BY <2>3, <3>3, <4>2 DEF ReadsNewest, Last
        <3> QED BY <3>2, <3>3
    <2> QED BY <1>4, <1>5, <2>4, <2>5 DEF ListRead, consoleBounds
<1>6. CASE Refetch
    <2>1. PICK d \in Domains: Sent({d})
        BY <1>6 DEF Refetch
    <2>2. fetches' = [e \in Domains |-> IF e = d THEN Append(fetches[e], "unread")
                                        ELSE fetches[e]]
        BY <2>1 DEF Sent
    <2>3. \A e \in Domains: /\ Append(fetches[e], "unread") \in Seq(Contents)
                            /\ Append(fetches[e], "unread") # <<>>
                            /\ Last(Append(fetches[e], "unread")) = "unread"
        <3>1. "unread" \in Contents
            BY DEF Contents
        <3> QED BY <1>1, <3>1, Lengthened
    <2>4. fetches' \in [Domains -> Seq(Contents)] /\ events' \in 0..MaxEvents
        BY <1>1, <1>6, <2>2, <2>3, ConsoleConstants DEF ConsoleTypeOK, Refetch
    <2>5. ConsoleTypeOK'
        BY <1>1, <1>6, <2>4 DEF ConsoleTypeOK, Refetch
    <2>6. ASSUME NEW e \in Domains, ReadsNewest(e) PROVE ReadsNewest(e)'
        BY <1>6, <2>2, <2>3, <2>6 DEF ReadsNewest, Refetch
    <2> QED BY <1>4, <1>6, <2>5, <2>6 DEF Refetch
<1>7. CASE Drawn
    <2>0. PICK d \in Domains: \E n \in DOMAIN fetches[d]:
              /\ fetches[d][n] # "unread"
              /\ \/ n = 1 /\ UNCHANGED overtakes
                 \/ n > 1 /\ overtakes < MaxOvertakes /\ overtakes' = overtakes + 1
              /\ fetches' = [fetches EXCEPT ![d] = RemoveAt(@, n)]
              /\ shown' = [shown EXCEPT ![d] = fetches[d][n]]
        BY <1>7 DEF Drawn
    <2>1. PICK n \in DOMAIN fetches[d]:
              /\ fetches[d][n] # "unread"
              /\ \/ n = 1 /\ UNCHANGED overtakes
                 \/ n > 1 /\ overtakes < MaxOvertakes /\ overtakes' = overtakes + 1
              /\ fetches' = [fetches EXCEPT ![d] = RemoveAt(@, n)]
              /\ shown' = [shown EXCEPT ![d] = fetches[d][n]]
        BY <2>0
    <2>2. /\ fetches'[d] = RemoveAt(fetches[d], n) /\ shown'[d] = fetches[d][n]
          /\ \A e \in Domains: e # d => fetches'[e] = fetches[e] /\ shown'[e] = shown[e]
        BY <1>1, <2>1 DEF ConsoleTypeOK
    <2>3. /\ RemoveAt(fetches[d], n) \in Seq(Contents)
          /\ n = 1 => RemoveAt(fetches[d], n) = Tail(fetches[d])
        BY <1>1, <2>1, Removed
    <2>4. fetches[d][n] \in Contents /\ overtakes' \in 0..MaxOvertakes
          /\ (overtakes' = 0 => n = 1 /\ overtakes = 0)
        BY <1>1, <2>1, ConsoleConstants DEF ConsoleTypeOK
    <2>5. ConsoleTypeOK'
        BY <1>1, <1>7, <2>1, <2>2, <2>3, <2>4 DEF ConsoleTypeOK, Drawn
    <2>6. ASSUME overtakes' = 0, NEW e \in Domains, ReadsNewest(e)
          PROVE  ReadsNewest(e)'
        <3>1. CASE e # d
            BY <2>2, <2>6, <3>1 DEF ReadsNewest
        <3>2. CASE e = d
            <4>1. n = 1 /\ fetches[d] # <<>> /\ Last(fetches[d]) \in {"unread", "newest"}
                BY <1>1, <2>1, <2>4, <2>6, <3>2 DEF ReadsNewest
            <4>2. /\ Head(fetches[d]) = fetches[d][1]
                  /\ IF Tail(fetches[d]) = <<>>
                     THEN Last(fetches[d]) = Head(fetches[d])
                     ELSE Last(Tail(fetches[d])) = Last(fetches[d])
                BY <1>1, <4>1, Shortened
            <4> QED BY <2>1, <2>2, <2>3, <3>2, <4>1, <4>2 DEF ReadsNewest
        <3> QED BY <3>1, <3>2
    <2> QED BY <1>4, <2>4, <2>5, <2>6
<1> QED BY <1>5, <1>6, <1>7

LEMMA ConsoleNextInv == ConsoleInv /\ [ConsoleNext]_consoleVars => ConsoleInv'
<1> SUFFICES ASSUME ConsoleInv, [ConsoleNext]_consoleVars PROVE ConsoleInv'
    OBVIOUS
<1>1. CASE Connect
    <2>1. /\ wire' = <<Domains>> /\ wire' \in Seq(SUBSET Domains)
          /\ ToSet(wire') = {Domains}
        BY <1>1 DEF Connect, Greeting, ToSet
    <2>2. ConsoleTypeOK'
        BY <1>1, <2>1 DEF ConsoleInv, ConsoleTypeOK, Connect, consoleBounds
    <2> QED BY <2>1, <2>2 DEF ConsoleInv, InOrderMissesNothing, NothingMissed,
                               ToBeTold
<1>2. CASE TrayExit
    BY <1>2, ConsoleConstants DEF ConsoleInv, InOrderMissesNothing, ConsoleTypeOK, NothingMissed,
                TrayExit, ReadsNewest, ToBeTold
<1>3. CASE Shutdown
    BY <1>3 DEF ConsoleInv, InOrderMissesNothing, ConsoleTypeOK, NothingMissed,
                Shutdown, consoleBounds
<1>4. CASE Drop
    <2>1. fetches' \in [Domains -> Seq(Contents)]
        <3>1. fetches \in [Domains -> Seq(Contents)]
            BY DEF ConsoleInv, ConsoleTypeOK
        <3>2. [d \in Domains |-> <<>>] \in [Domains -> Seq(Contents)]
            OBVIOUS
        <3> QED BY <1>4, <3>1, <3>2 DEF Drop
    <2>2. wire' \in Seq(SUBSET Domains) /\ events' \in 0..MaxEvents
        BY <1>4, ConsoleConstants DEF ConsoleInv, ConsoleTypeOK, Drop
    <2> QED BY <2>2, <1>4, <2>1, ConsoleConstants DEF ConsoleInv, InOrderMissesNothing, ConsoleTypeOK,
                              NothingMissed, Drop
<1>5. CASE UNCHANGED consoleVars
    BY <1>5 DEF ConsoleInv, InOrderMissesNothing, ConsoleTypeOK, NothingMissed,
                consoleVars, consoleBounds, ReadsNewest, ToBeTold
<1> QED BY <1>1, <1>2, <1>3, <1>4, <1>5, ConsolePublish, ConsoleDelivery, ConsoleFetch
        DEF ConsoleNext

-----------------------------------------------------------------------------
\* The page of the PC misses no change of its lists, however many names are
\* merged in its queue, lost with its connection or published while it fetches,
\* as long as no answer overtakes an earlier one (LocalEventHub.publish, the
\* "open" and "changed" listeners of app.js).
THEOREM ConsoleMissesNothing == ConsoleSpec => [](overtakes = 0 => NothingMissed)
<1>1. ConsoleInv => InOrderMissesNothing
    BY DEF ConsoleInv
<1>2. ConsoleInit => ConsoleInv
    BY ConsoleInitInv
<1>3. ConsoleInv /\ [ConsoleNext]_consoleVars => ConsoleInv'
    BY ConsoleNextInv
<1> QED BY <1>1, <1>2, <1>3, PTL DEF ConsoleSpec, InOrderMissesNothing
=============================================================================
