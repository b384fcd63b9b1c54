---------------------------- MODULE EventLoopProofs ----------------------------
(***************************************************************************)
(* The event loop never calls back on freed memory, on a stale report of   *)
(* select or on a closed descriptor, for any number of connections,        *)
(* endpoints and descriptors and for every order of callbacks.             *)
(***************************************************************************)
EXTENDS EventLoop, TLAPS, WellFoundedInduction, FiniteSetTheorems

\* The events that are not to be removed.
Live(list) == {e \in ToSet(list) : ~e.rm}

\* Whose events an event can be.
TimerShape(e) == e.kind = "timer" /\ e.obj \in Eps
FdShape(e) ==
    /\ e.kind \in FdKinds /\ e.fd \in Fds
    /\ e.kind \in {"accept", "frame"} => e.obj = Server
    /\ e.kind \in {"read", "second", "write"} => e.obj \in Conns
    /\ e.kind \in {"rtp", "rtcp"} => e.obj \in Eps
ShapeInv ==
    /\ \A e \in ToSet(timers) : TimerShape(e)
    /\ \A e \in ToSet(fdl) : FdShape(e)

\* An event is off as soon as it is removed.
OffWhenRemoved(e) == e.running \/ e.enabled => ~e.rm
FlagsInv == \A e \in ToSet(timers) \cup ToSet(fdl) : OffWhenRemoved(e)

\* An event that is not removed belongs to a live object.
OwnersInv == \A e \in Live(timers) \cup Live(fdl) : e.obj \in alive \cup {Server}

\* Its descriptor, too, enabled or not: the write event is disabled and enabled again.
FdsInv == \A e \in Live(fdl) : fdOwner[e.fd] = e.obj

\* An event of the second descriptor of a tunnel shares it with no other kind of event;
\* an object has one descriptor for each kind of event.
Compatible(x, y) ==
    /\ x.fd = y.fd => (x.kind = "second" <=> y.kind = "second")
    /\ x.obj = y.obj /\ x.kind = y.kind => x.fd = y.fd
PairsInv == \A x, y \in Live(fdl) : Compatible(x, y)

Inv ==
    /\ TypeOK /\ ShapeInv /\ FlagsInv /\ OwnersInv /\ FdsInv /\ PairsInv
    /\ NoStaleReadiness /\ OpenFdsWatched

-----------------------------------------------------------------------------
(* Numbers in order.                                                        *)

\* Every set of natural numbers has a least one.
LEMMA Least ==
    ASSUME NEW T \in SUBSET Nat, T # {}
    PROVE  \E x \in T : \A y \in T : x <= y
<1>1. PICK x \in T : \A y \in T : ~ (<<y, x>> \in OpToRel(<, Nat))
    BY NatLessThanWellFounded, WFMin
<1>2. \A y \in T : ~(y < x)
    BY <1>1 DEF OpToRel
<1> QED BY <1>2

\* Every bounded one has a greatest.
LEMMA Greatest ==
    ASSUME NEW N \in Nat, NEW T \in SUBSET (0 .. N), T # {}
    PROVE  \E x \in T : \A y \in T : y <= x
<1> DEFINE U == {n \in Nat : \A y \in T : y <= n}
<1>1. U # {} /\ U \subseteq Nat
    BY N \in U
<1>2. PICK x \in U : \A y \in U : x <= y
    BY <1>1, Least
<1>3. x \in T
    <2>1. SUFFICES ASSUME x \notin T PROVE FALSE
        OBVIOUS
    <2>2. x # 0
        <3>1. PICK y \in T : TRUE
            OBVIOUS
        <3>2. y \in Nat /\ y <= x /\ y # x
            BY <1>2, <2>1
        <3> QED BY <3>2
    <2>3. x - 1 \in U
        BY <1>2, <2>1, <2>2
    <2> QED BY <1>2, <2>3
<1> QED BY <1>2, <1>3

\* The members of a set below a number, as Nth counts them.
Below(S, x) == {y \in S : y < x}

LEMMA BelowFinite ==
    ASSUME NEW N \in Nat, NEW S \in SUBSET (0 .. N), NEW x
    PROVE  /\ IsFiniteSet(S) /\ Cardinality(S) \in Nat
           /\ Below(S, x) \in SUBSET S /\ Below(S, x) \in SUBSET (0 .. N)
           /\ IsFiniteSet(Below(S, x)) /\ Cardinality(Below(S, x)) \in Nat
<1>1. IsFiniteSet(S)
    <2>1. IsFiniteSet(0 .. N)
        BY FS_Interval
    <2> QED BY <2>1, FS_Subset
<1>2. Below(S, x) \in SUBSET S
    BY DEF Below
<1>3. IsFiniteSet(Below(S, x))
    BY <1>1, <1>2, FS_Subset
<1> QED BY <1>1, <1>2, <1>3, FS_CardinalityType

\* What is left below the greatest of those below x.
LEMMA BelowPredecessor ==
    ASSUME NEW N \in Nat, NEW S \in SUBSET (0 .. N), NEW x \in Nat, Below(S, x) # {}
    PROVE  \E z \in S : z < x /\ Cardinality(Below(S, z)) = Cardinality(Below(S, x)) - 1
<1>0. Below(S, x) \in SUBSET (0 .. N) /\ IsFiniteSet(Below(S, x))
    BY BelowFinite
<1>1. PICK z \in Below(S, x) : \A y \in Below(S, x) : y <= z
    BY <1>0, Greatest
<1>2. z \in S /\ z < x /\ z \in Nat
    BY DEF Below
<1>3. ASSUME NEW y \in S PROVE y < z <=> y < x /\ y # z
    <2>1. y \in Nat
        OBVIOUS
    <2>2. y < x => y <= z
        BY <1>1 DEF Below
    <2> QED BY <1>2, <2>1, <2>2
<1>4. Below(S, z) = Below(S, x) \ {z}
    BY <1>3 DEF Below
<1>5. Cardinality(Below(S, z)) = Cardinality(Below(S, x)) - 1
    BY <1>0, <1>1, <1>4, FS_RemoveElement
<1> QED BY <1>2, <1>5

\* A greater member has more below it.
LEMMA BelowGrows ==
    ASSUME NEW N \in Nat, NEW S \in SUBSET (0 .. N), NEW y \in S, NEW z, z \in Nat, y < z
    PROVE  Cardinality(Below(S, y)) < Cardinality(Below(S, z))
<1>1. Below(S, y) \cup {y} \in SUBSET Below(S, z) /\ y \notin Below(S, y)
    <2>1. ASSUME NEW u \in S, u < y PROVE u < z
        <3>1. u \in Nat /\ y \in Nat
            OBVIOUS
        <3> QED BY <2>1, <3>1
    <2>2. ~(y < y)
        <3>1. y \in Nat
            OBVIOUS
        <3> QED BY <3>1
    <2> QED BY <2>1, <2>2 DEF Below
<1>2. Cardinality(Below(S, y) \cup {y}) = Cardinality(Below(S, y)) + 1
    BY <1>1, BelowFinite, FS_AddElement
<1>3. Cardinality(Below(S, y) \cup {y}) <= Cardinality(Below(S, z))
    BY <1>1, BelowFinite, FS_Subset
<1>4. Cardinality(Below(S, y)) \in Nat /\ Cardinality(Below(S, z)) \in Nat
    BY BelowFinite
<1> QED BY <1>2, <1>3, <1>4

\* All of the set is below a number greater than its members.
LEMMA BelowAll ==
    ASSUME NEW N \in Nat, NEW S \in SUBSET (0 .. N)
    PROVE  Below(S, N + 1) = S
<1>1. ASSUME NEW y \in S PROVE y < N + 1
    OBVIOUS
<1> QED BY <1>1 DEF Below

\* Nth finds the number it is asked for.
LEMMA NthFound ==
    ASSUME NEW N \in Nat, NEW S \in SUBSET (0 .. N), NEW n \in 1 .. Cardinality(S)
    PROVE  Nth(S, n) \in S /\ Cardinality(Below(S, Nth(S, n))) = n - 1
<1> DEFINE T == {x \in Nat : Cardinality(Below(S, x)) >= n}
<1>1. Cardinality(S) \in Nat /\ n \in Nat \ {0}
    BY BelowFinite
<1>2. N + 1 \in T
    BY <1>1, BelowAll
<1>3. PICK x \in T : \A y \in T : x <= y
    BY <1>2, Least
<1>4. x \in Nat /\ Cardinality(Below(S, x)) >= n /\ Cardinality(Below(S, x)) \in Nat
    BY BelowFinite
<1>5. Below(S, x) # {}
    BY <1>1, <1>4, FS_EmptySet
<1>6. PICK z \in S : z < x /\ Cardinality(Below(S, z)) = Cardinality(Below(S, x)) - 1
    BY <1>4, <1>5, BelowPredecessor
<1>7. z \in Nat /\ z \notin T
    <2>1. z \in Nat
        OBVIOUS
    <2> QED BY <1>3, <1>4, <1>6, <2>1
<1>8. Cardinality(Below(S, z)) = n - 1
    <2>1. ~(Cardinality(Below(S, z)) >= n)
        BY <1>7
    <2> QED BY <1>1, <1>4, <1>6, <2>1
<1>9. \E y \in S : Cardinality({u \in S : u < y}) = n - 1
    BY <1>8 DEF Below
<1> QED BY <1>9 DEF Nth, Below

\* Every member of the set is found.
LEMMA NthComplete ==
    ASSUME NEW N \in Nat, NEW S \in SUBSET (0 .. N), NEW x \in S
    PROVE  \E n \in 1 .. Cardinality(S) : Nth(S, n) = x
<1> DEFINE n == Cardinality(Below(S, x)) + 1
<1>1. Cardinality(S) \in Nat /\ Cardinality(Below(S, x)) \in Nat /\ x \in Nat /\ x < N + 1
    BY BelowFinite
<1>2. Cardinality(Below(S, x)) < Cardinality(S)
    BY <1>1, BelowGrows, BelowAll
<1>3. n \in 1 .. Cardinality(S)
    BY <1>1, <1>2
<1> HIDE DEF n
<1> DEFINE c == Nth(S, n)
<1>4. c \in S /\ Cardinality(Below(S, c)) = n - 1
    BY <1>3, NthFound
<1> HIDE DEF c
<1>5. c \in Nat /\ Cardinality(Below(S, c)) = Cardinality(Below(S, x))
    BY <1>1, <1>4 DEF n
<1>6. ~(c < x) /\ ~(x < c)
    <2>1. ~(c < x)
        BY <1>1, <1>4, <1>5, BelowGrows
    <2>2. ~(x < c)
        <3>1. x < c => Cardinality(Below(S, x)) < Cardinality(Below(S, c))
            BY <1>5, BelowGrows
        <3> QED BY <1>1, <1>5, <3>1
    <2> QED BY <2>1, <2>2
<1>7. c = x
    BY <1>1, <1>5, <1>6
<1> QED BY <1>3, <1>7 DEF c
-----------------------------------------------------------------------------
(* Events and lists of them.                                                *)

\* Members of a sequence.
LEMMA ToSetFacts ==
    ASSUME NEW S, NEW s \in Seq(S)
    PROVE  /\ ToSet(s) \subseteq S
           /\ \A k \in 1 .. Len(s) : s[k] \in ToSet(s)
           /\ \A x \in ToSet(s) : \E k \in 1 .. Len(s) : s[k] = x
    BY DEF ToSet

\* A list with another one in front.
LEMMA ToSetConcat ==
    ASSUME NEW S, NEW s \in Seq(S), NEW t \in Seq(S)
    PROVE  ToSet(s \o t) = ToSet(s) \cup ToSet(t)
<1>1. s \o t \in Seq(S) /\ Len(s \o t) = Len(s) + Len(t) /\ Len(s) \in Nat /\ Len(t) \in Nat
    OBVIOUS
<1>2. ASSUME NEW k \in 1 .. Len(s \o t) PROVE (s \o t)[k] \in ToSet(s) \cup ToSet(t)
    <2>1. CASE k <= Len(s)
        <3>1. (s \o t)[k] = s[k] /\ k \in 1 .. Len(s)
            BY <1>1, <2>1
        <3> QED BY <3>1, ToSetFacts
    <2>2. CASE k > Len(s)
        <3>1. (s \o t)[k] = t[k - Len(s)] /\ k - Len(s) \in 1 .. Len(t)
            BY <1>1, <2>2
        <3> QED BY <3>1, ToSetFacts
    <2> QED BY <1>1, <2>1, <2>2
<1>3. ASSUME NEW x \in ToSet(s) PROVE x \in ToSet(s \o t)
    <2>1. PICK k \in 1 .. Len(s) : s[k] = x
        BY ToSetFacts
    <2>2. k \in 1 .. Len(s \o t) /\ (s \o t)[k] = x
        BY <1>1, <2>1
    <2> QED BY <1>1, <2>2, ToSetFacts
<1>4. ASSUME NEW x \in ToSet(t) PROVE x \in ToSet(s \o t)
    <2>1. PICK k \in 1 .. Len(t) : t[k] = x
        BY ToSetFacts
    <2>2. k + Len(s) \in 1 .. Len(s \o t) /\ (s \o t)[k + Len(s)] = x
        BY <1>1, <2>1
    <2> QED BY <1>1, <2>2, ToSetFacts
<1>5. ASSUME NEW x \in ToSet(s \o t) PROVE x \in ToSet(s) \cup ToSet(t)
    <2>1. PICK k \in 1 .. Len(s \o t) : (s \o t)[k] = x
        BY <1>1, ToSetFacts
    <2> QED BY <1>2, <2>1
<1> QED BY <1>3, <1>4, <1>5

\* The top of event_loop changes RUNNING alone.
LEMMA ArmFacts ==
    ASSUME NEW e \in Events
    PROVE  /\ Arm(e) \in Events
           /\ Arm(e).kind = e.kind /\ Arm(e).obj = e.obj /\ Arm(e).fd = e.fd
           /\ Arm(e).enabled = e.enabled /\ Arm(e).rm = e.rm /\ Arm(e).running = e.enabled
    BY DEF Arm, Events

\* strip_events keeps the events that are not removed, and only those.
LEMMA StripFacts ==
    ASSUME NEW list \in Seq(Events)
    PROVE  /\ StripAndArm(list) \in Seq(Events)
           /\ \A x \in ToSet(StripAndArm(list)) : \E e \in Live(list) : x = Arm(e)
           /\ \A e \in Live(list) : Arm(e) \in ToSet(StripAndArm(list))
<1> DEFINE kept == {n \in DOMAIN list : ~list[n].rm}
           strip == [k \in 1 .. Cardinality(kept) |-> Arm(list[Nth(kept, k)])]
<1>1. Len(list) \in Nat /\ kept \in SUBSET (0 .. Len(list)) /\ kept \in SUBSET (1 .. Len(list))
    OBVIOUS
<1>2. Cardinality(kept) \in Nat
    BY <1>1, BelowFinite
<1>3. ASSUME NEW k \in 1 .. Cardinality(kept)
      PROVE  Nth(kept, k) \in kept
    BY <1>1, NthFound
<1>4. ASSUME NEW n \in kept
      PROVE  list[n] \in Live(list) /\ list[n] \in Events
    <2>1. n \in 1 .. Len(list) /\ ~list[n].rm
        BY <1>1
    <2> QED BY <2>1, ToSetFacts DEF Live
<1>5. strip \in Seq(Events)
    <2>1. ASSUME NEW k \in 1 .. Cardinality(kept) PROVE Arm(list[Nth(kept, k)]) \in Events
        BY <1>3, <1>4, ArmFacts
    <2> QED BY <1>2, <2>1
<1>6. ASSUME NEW x \in ToSet(strip) PROVE \E e \in Live(list) : x = Arm(e)
    <2>1. PICK k \in 1 .. Cardinality(kept) : x = Arm(list[Nth(kept, k)])
        BY <1>2 DEF ToSet
    <2> QED BY <1>3, <1>4, <2>1
<1>7. ASSUME NEW e \in Live(list) PROVE Arm(e) \in ToSet(strip)
    <2>1. PICK n \in 1 .. Len(list) : list[n] = e /\ ~e.rm
        BY ToSetFacts DEF Live
    <2>2. n \in kept
        BY <2>1
    <2>3. PICK k \in 1 .. Cardinality(kept) : Nth(kept, k) = n
        BY <1>1, <2>2, NthComplete
    <2>4. strip[k] = Arm(e) /\ k \in DOMAIN strip
        BY <2>1, <2>3
    <2> QED BY <2>4 DEF ToSet
<1>8. StripAndArm(list) = strip
    BY DEF StripAndArm
<1> HIDE DEF strip
<1> QED BY <1>5, <1>6, <1>7, <1>8

\* A callback changes the flags of an event; it starts none and brings none back.
LEMMA FlaggedFacts ==
    ASSUME NEW e \in Events, NEW gone, NEW enable, NEW disable
    PROVE  LET x == Flagged(e, gone, enable, disable) IN
           /\ x \in Events
           /\ x.kind = e.kind /\ x.obj = e.obj /\ x.fd = e.fd
           /\ x.running => e.running
           /\ ~x.rm <=> ~e.rm /\ <<e.obj, e.kind>> \notin gone
           /\ OffWhenRemoved(e) => OffWhenRemoved(x)
           /\ e.enabled /\ ~x.rm /\ <<e.obj, e.kind>> \notin disable => x.enabled
    BY DEF Flagged, RemoveEvent, Events, OffWhenRemoved

\* resched_event of a timer that is due.
LEMMA ReschedFacts ==
    ASSUME NEW e \in Events, e.lag > 0
    PROVE  LET x == Resched(e) IN
           /\ x \in Events /\ x.kind = e.kind /\ x.obj = e.obj /\ x.fd = e.fd
           /\ x.running = e.running /\ ~x.rm
<1> DEFINE lag == IF e.enabled THEN e.lag - 1 ELSE 0
<1>1. lag \in 0 .. MaxLag
    <2>1. e.lag \in 0 .. MaxLag /\ MaxLag \in Nat
        BY BoundsAssumption DEF Events
    <2> QED BY <2>1
<1>2. Resched(e) = [e EXCEPT !.enabled = TRUE, !.rm = FALSE, !.lag = lag]
    BY DEF Resched
<1> HIDE DEF lag
<1> QED BY <1>1, <1>2 DEF Events

\* The event that is called: an armed timer that is due, or an armed event of a
\* descriptor.
Called(e) ==
    \/ e \in ToSet(timers) /\ e.running /\ e.lag > 0
    \/ e \in ToSet(fdl) /\ e.running

\* What a callback leaves in a list with events in front.
Effected(list, listAfter, new, gone, enable, disable) ==
    /\ listAfter \in Seq(Events)
    /\ \A x \in ToSet(listAfter) :
         \/ x \in ToSet(new)
         \/ \E y \in ToSet(list) : x = Flagged(y, gone, enable, disable)
    /\ \A y \in ToSet(list) : Flagged(y, gone, enable, disable) \in ToSet(listAfter)
    /\ ToSet(new) \subseteq ToSet(listAfter)

LEMMA FlagList ==
    ASSUME NEW list \in Seq(Events), NEW new \in Seq(Events), NEW gone, NEW enable, NEW disable
    PROVE  LET after == new \o [k \in DOMAIN list |-> Flagged(list[k], gone, enable, disable)]
           IN  Effected(list, after, new, gone, enable, disable) /\ Len(after) >= Len(list)
<1> DEFINE flagged == [k \in DOMAIN list |-> Flagged(list[k], gone, enable, disable)]
           after == new \o flagged
<1>1. DOMAIN list = 1 .. Len(list) /\ Len(list) \in Nat /\ Len(new) \in Nat
    OBVIOUS
<1>2. ASSUME NEW k \in 1 .. Len(list)
      PROVE  list[k] \in Events /\ Flagged(list[k], gone, enable, disable) \in Events
    <2>1. list[k] \in Events
        OBVIOUS
    <2> QED BY <2>1, FlaggedFacts
<1>3. flagged \in Seq(Events) /\ Len(flagged) = Len(list)
    BY <1>1, <1>2
<1>4. ASSUME NEW x \in ToSet(flagged)
      PROVE  \E y \in ToSet(list) : x = Flagged(y, gone, enable, disable)
    <2>1. PICK k \in 1 .. Len(list) : x = Flagged(list[k], gone, enable, disable)
        BY <1>1 DEF ToSet
    <2> QED BY <2>1, ToSetFacts
<1>5. ASSUME NEW y \in ToSet(list)
      PROVE  Flagged(y, gone, enable, disable) \in ToSet(flagged)
    <2>1. PICK k \in 1 .. Len(list) : list[k] = y
        BY ToSetFacts
    <2>2. flagged[k] = Flagged(y, gone, enable, disable) /\ k \in DOMAIN flagged
        BY <1>1, <2>1
    <2> QED BY <2>2 DEF ToSet
<1> HIDE DEF flagged
<1>6. ToSet(after) = ToSet(new) \cup ToSet(flagged)
    BY <1>3, ToSetConcat
<1>7. after \in Seq(Events) /\ Len(after) >= Len(list)
    BY <1>1, <1>3
<1> HIDE DEF after
<1>8. Effected(list, after, new, gone, enable, disable)
    BY <1>4, <1>5, <1>6, <1>7 DEF Effected
<1> QED BY <1>7, <1>8 DEF after, flagged

\* The lists after a callback.  In the list of timers the one that is called was
\* rescheduled: timed stands for the list as it was then.
LEMMA EffectLists ==
    ASSUME TypeOK, ShapeInv, NEW e, Called(e), NEW gone, NEW enable, NEW disable,
           NEW newTimers \in Seq(Events), NEW newFds \in Seq(Events),
           EffectOn(e, gone, enable, disable, newTimers, newFds)
    PROVE  /\ Effected(fdl, fdl', newFds, gone, enable, disable)
           /\ \E timed \in Seq(Events) :
                /\ Effected(timed, timers', newTimers, gone, enable, disable)
                /\ \A x \in ToSet(timed) :
                     \/ x \in ToSet(timers)
                     \/ x = Resched(e) /\ e \in ToSet(timers) /\ e.lag > 0
           /\ pc' \in {"time", "fd"} /\ left' \in 0 .. Len(IF pc' = "time" THEN timers' ELSE fdl')
<1> DEFINE list == IF e.kind = "timer" THEN timers ELSE fdl
           n == CHOOSE n \in DOMAIN list : list[n] = e
           timed == IF e.kind = "timer" THEN [timers EXCEPT ![n] = Resched(e)] ELSE timers
<1>1. timers \in Seq(Events) /\ fdl \in Seq(Events)
    BY DEF TypeOK
<1>2. /\ e \in ToSet(list) /\ list \in Seq(Events)
      /\ e.kind = "timer" => e \in ToSet(timers) /\ e.lag > 0
    BY <1>1 DEF Called, ShapeInv, FdShape, TimerShape, FdKinds
<1>3. n \in DOMAIN list /\ list[n] = e
    BY <1>2 DEF ToSet
<1> HIDE DEF n, list
<1>4. n \in 1 .. Len(list) /\ Len(list) \in Nat /\ e \in Events
    BY <1>2, <1>3
<1> USE DEF list
<1>5. timed \in Seq(Events) /\ Len(timed) = Len(timers)
      /\ \A x \in ToSet(timed) :
           x \in ToSet(timers) \/ (x = Resched(e) /\ e \in ToSet(timers) /\ e.lag > 0)
    <2>1. CASE e.kind # "timer"
        BY <1>1, <2>1
    <2>2. CASE e.kind = "timer"
        <3>1. Resched(e) \in Events /\ n \in 1 .. Len(timers)
            BY <1>2, <1>4, <2>2, ReschedFacts
        <3>2. timed = [timers EXCEPT ![n] = Resched(e)]
            BY <2>2
        <3>3. timed \in Seq(Events) /\ Len(timed) = Len(timers) /\ DOMAIN timed = 1 .. Len(timers)
            BY <1>1, <3>1, <3>2
        <3>4. ASSUME NEW k \in 1 .. Len(timers) PROVE timed[k] = timers[k] \/ timed[k] = Resched(e)
            BY <1>1, <3>1, <3>2
        <3> HIDE DEF timed
        <3>5. ASSUME NEW x \in ToSet(timed) PROVE x \in ToSet(timers) \/ x = Resched(e)
            <4>1. PICK k \in 1 .. Len(timers) : timed[k] = x
                BY <3>3, ToSetFacts
            <4> QED BY <1>1, <3>4, <4>1, ToSetFacts
        <3> QED BY <1>2, <2>2, <3>3, <3>5
    <2> QED BY <2>1, <2>2
<1>6. /\ timers' = newTimers \o [k \in DOMAIN timed |-> Flagged(timed[k], gone, enable, disable)]
      /\ fdl' = newFds \o [k \in DOMAIN fdl |-> Flagged(fdl[k], gone, enable, disable)]
      /\ pc' = (IF e.kind = "timer" THEN "time" ELSE "fd")
      /\ left' = Len(list) - n \/ (e.kind # "timer" /\ left' = Len(list) - n + 1)
    BY DEF EffectOn, n, WalkOn, ReadsOn
<1> HIDE DEF timed
<1>7. Effected(fdl, fdl', newFds, gone, enable, disable) /\ Len(fdl') >= Len(fdl)
    BY <1>1, <1>6, FlagList
<1>8. Effected(timed, timers', newTimers, gone, enable, disable) /\ Len(timers') >= Len(timed)
    BY <1>5, <1>6, FlagList
<1>9. pc' \in {"time", "fd"} /\ left' \in 0 .. Len(IF pc' = "time" THEN timers' ELSE fdl')
    <2>1. Len(timers') \in Nat /\ Len(fdl') \in Nat
        BY <1>7, <1>8 DEF Effected
    <2>2. CASE e.kind = "timer"
        BY <1>1, <1>4, <1>5, <1>6, <1>8, <2>1, <2>2
    <2>3. CASE e.kind # "timer"
        BY <1>1, <1>4, <1>6, <1>7, <2>1, <2>3
    <2> QED BY <2>2, <2>3
<1> QED BY <1>5, <1>7, <1>8, <1>9

-----------------------------------------------------------------------------
(* One callback.                                                            *)

\* The objects and descriptors after a callback fit the events it keeps ...
Keeps(gone) ==
    /\ \A y \in Live(fdl) : <<y.obj, y.kind>> \notin gone =>
         /\ y.obj \in alive' \cup {Server} /\ fdOwner'[y.fd] = y.obj
         /\ y.running => y.fd \notin fresh'
    /\ \A y \in Live(timers) : <<y.obj, y.kind>> \notin gone => y.obj \in alive' \cup {Server}

\* ... the events it adds ...
AddsTimers(new) ==
    /\ new \in Seq(Events)
    /\ \A x \in ToSet(new) :
         TimerShape(x) /\ ~x.running /\ OffWhenRemoved(x) /\ (~x.rm => x.obj \in alive')
AddsFds(new, gone) ==
    /\ new \in Seq(Events)
    /\ \A x \in ToSet(new) :
         /\ FdShape(x) /\ ~x.running /\ ~x.rm
         /\ x.obj \in alive' /\ fdOwner'[x.fd] = x.obj
         /\ \A y \in Live(fdl) : <<y.obj, y.kind>> \notin gone => Compatible(x, y)
         /\ \A y \in ToSet(new) : Compatible(x, y)

\* ... and leave no open descriptor without an event.
Watches(new, gone) ==
    \A f \in Fds : fdOwner'[f] \notin {None, Nobody} =>
      \/ \E x \in ToSet(new) : x.fd = f /\ x.kind # "write" /\ x.enabled
      \/ /\ fdOwner[f] \notin {None, Nobody}
         /\ \A y \in Live(fdl) : y.fd = f /\ y.kind # "write" => <<y.obj, y.kind>> \notin gone

RestTyped ==
    /\ alive' \subseteq Conns \cup Eps
    /\ fdOwner' \in [Fds -> Objects \cup {None, Nobody}]
    /\ on' \in [Eps -> Conns \cup {None}]
    /\ fresh' \subseteq Fds

\* Then the invariant survives the callback.
LEMMA CallbackInv ==
    ASSUME Inv, NEW e, Called(e), NEW gone, NEW enable, NEW disable,
           NEW newTimers, NEW newFds,
           EffectOn(e, gone, enable, disable, newTimers, newFds),
           \A o : \A k : <<o, k>> \in disable => k = "write",
           Keeps(gone), AddsTimers(newTimers), AddsFds(newFds, gone), Watches(newFds, gone),
           RestTyped
    PROVE  Inv'
<1> DEFINE Flag(y) == Flagged(y, gone, enable, disable)
<1>0. TypeOK /\ ShapeInv /\ FlagsInv /\ timers \in Seq(Events) /\ fdl \in Seq(Events)
    BY DEF Inv, TypeOK
<1>1. newTimers \in Seq(Events) /\ newFds \in Seq(Events)
    BY DEF AddsTimers, AddsFds
<1>2. /\ Effected(fdl, fdl', newFds, gone, enable, disable)
      /\ pc' \in {"time", "fd"} /\ left' \in 0 .. Len(IF pc' = "time" THEN timers' ELSE fdl')
    BY <1>0, <1>1, EffectLists
<1>3. PICK timed \in Seq(Events) :
        /\ Effected(timed, timers', newTimers, gone, enable, disable)
        /\ \A x \in ToSet(timed) :
             \/ x \in ToSet(timers)
             \/ x = Resched(e) /\ e \in ToSet(timers) /\ e.lag > 0
    BY <1>0, <1>1, EffectLists
<1>4. TypeOK'
    BY <1>2, <1>3 DEF TypeOK, RestTyped, Effected
\* where the events of the new lists come from
<1>5. ASSUME NEW x \in ToSet(fdl') PROVE x \in ToSet(newFds) \/ \E y \in ToSet(fdl) : x = Flag(y)
    BY <1>2 DEF Effected
<1>6. ASSUME NEW y \in ToSet(fdl)
      PROVE  /\ y \in Events /\ FdShape(y) /\ OffWhenRemoved(y)
             /\ Flag(y) \in ToSet(fdl') /\ Flag(y) \in Events
             /\ Flag(y).kind = y.kind /\ Flag(y).obj = y.obj /\ Flag(y).fd = y.fd
             /\ Flag(y).running => y.running
             /\ ~Flag(y).rm => y \in Live(fdl) /\ <<y.obj, y.kind>> \notin gone
             /\ OffWhenRemoved(Flag(y))
             /\ y.enabled /\ <<y.obj, y.kind>> \notin gone \cup disable => Flag(y).enabled
    <2>1. y \in Events
        BY <1>0, ToSetFacts
    <2>2. FdShape(y) /\ OffWhenRemoved(y)
        BY <1>0 DEF ShapeInv, FlagsInv
    <2>3. Flag(y) \in ToSet(fdl')
        BY <1>2 DEF Effected
    <2>4. /\ Flag(y) \in Events
          /\ Flag(y).kind = y.kind /\ Flag(y).obj = y.obj /\ Flag(y).fd = y.fd
          /\ Flag(y).running => y.running
          /\ ~Flag(y).rm <=> ~y.rm /\ <<y.obj, y.kind>> \notin gone
          /\ OffWhenRemoved(y) => OffWhenRemoved(Flag(y))
          /\ y.enabled /\ ~Flag(y).rm /\ <<y.obj, y.kind>> \notin disable => Flag(y).enabled
        BY <2>1, FlaggedFacts
    <2>5. y.enabled => ~y.rm
        BY <2>2 DEF OffWhenRemoved
    <2> QED BY <2>1, <2>2, <2>3, <2>4, <2>5 DEF Live
<1>7. ASSUME NEW y \in ToSet(timed)
      PROVE  /\ y \in Events /\ TimerShape(y) /\ OffWhenRemoved(y)
             /\ ~y.rm /\ <<y.obj, y.kind>> \notin gone => y.obj \in alive' \cup {Server}
    <2>1. CASE y \in ToSet(timers)
        BY <1>0, <2>1, ToSetFacts DEF ShapeInv, FlagsInv, Keeps, Live
    <2>2. CASE y = Resched(e) /\ e \in ToSet(timers) /\ e.lag > 0
        <3>1. e \in Events /\ TimerShape(e)
            BY <1>0, <2>2, ToSetFacts DEF ShapeInv
        <3>2. e.running
            BY <1>0, <3>1 DEF Called, ShapeInv, FdShape, TimerShape, FdKinds
        <3>3. e \in Live(timers)
            BY <1>0, <2>2, <3>2 DEF FlagsInv, OffWhenRemoved, Live
        <3>4. y \in Events /\ y.kind = e.kind /\ y.obj = e.obj /\ ~y.rm
            BY <2>2, <3>1, ReschedFacts
        <3>5. OffWhenRemoved(y) /\ TimerShape(y)
            BY <3>1, <3>4 DEF OffWhenRemoved, TimerShape
        <3> QED BY <3>3, <3>4, <3>5 DEF Keeps
    <2> QED BY <1>3, <2>1, <2>2
<1>8. ASSUME NEW x \in ToSet(timers')
      PROVE  /\ TimerShape(x) /\ OffWhenRemoved(x)
             /\ ~x.rm => x.obj \in alive' \cup {Server}
    <2>1. CASE x \in ToSet(newTimers)
        BY <2>1 DEF AddsTimers
    <2>2. ASSUME NEW y \in ToSet(timed), x = Flag(y)
          PROVE  TimerShape(x) /\ OffWhenRemoved(x) /\ (~x.rm => x.obj \in alive' \cup {Server})
        <3>1. y \in Events /\ TimerShape(y) /\ OffWhenRemoved(y)
            BY <1>7
        <3>2. /\ x.kind = y.kind /\ x.obj = y.obj
              /\ ~x.rm <=> ~y.rm /\ <<y.obj, y.kind>> \notin gone
              /\ OffWhenRemoved(y) => OffWhenRemoved(x)
            BY <2>2, <3>1, FlaggedFacts
        <3> QED BY <1>7, <3>1, <3>2 DEF TimerShape
    <2> QED BY <1>3, <2>1, <2>2 DEF Effected
<1>9. ShapeInv'
    <2>1. ASSUME NEW x \in ToSet(fdl') PROVE FdShape(x)
        <3>1. CASE x \in ToSet(newFds)
            BY <3>1 DEF AddsFds
        <3>2. CASE \E y \in ToSet(fdl) : x = Flag(y)
            BY <1>6, <3>2 DEF FdShape
        <3> QED BY <1>5, <3>1, <3>2
    <2> QED BY <1>8, <2>1 DEF ShapeInv, TimerShape, FdShape, ToSet
<1>10. ASSUME NEW x \in ToSet(fdl')
       PROVE  /\ OffWhenRemoved(x)
              /\ x.running => x.fd \notin fresh'
              /\ ~x.rm => x.obj \in alive' \cup {Server} /\ fdOwner'[x.fd] = x.obj
    <2>1. CASE x \in ToSet(newFds)
        BY <2>1 DEF AddsFds, OffWhenRemoved
    <2>2. ASSUME NEW y \in ToSet(fdl), x = Flag(y)
          PROVE  /\ OffWhenRemoved(x)
                 /\ x.running => x.fd \notin fresh'
                 /\ ~x.rm => x.obj \in alive' \cup {Server} /\ fdOwner'[x.fd] = x.obj
        <3>1. /\ x.obj = y.obj /\ x.fd = y.fd /\ OffWhenRemoved(x)
              /\ x.running => y.running
              /\ ~x.rm => y \in Live(fdl) /\ <<y.obj, y.kind>> \notin gone
            BY <1>6, <2>2
        <3>2. x.running => ~x.rm
            BY <3>1 DEF OffWhenRemoved
        <3> QED BY <3>1, <3>2 DEF Keeps
    <2> QED BY <1>5, <2>1, <2>2
<1>11. FlagsInv' /\ OwnersInv' /\ FdsInv' /\ NoStaleReadiness'
    BY <1>8, <1>10 DEF FlagsInv, OwnersInv, FdsInv, NoStaleReadiness, OffWhenRemoved, Live, ToSet
\* an event of the new list that is not removed was added, or is one that was kept
<1>12. ASSUME NEW x \in ToSet(fdl'), ~x.rm
       PROVE  \/ x \in ToSet(newFds)
              \/ \E y \in Live(fdl) : /\ <<y.obj, y.kind>> \notin gone
                                      /\ x.kind = y.kind /\ x.obj = y.obj /\ x.fd = y.fd
    <2>1. ASSUME NEW y \in ToSet(fdl), x = Flag(y)
          PROVE  /\ y \in Live(fdl) /\ <<y.obj, y.kind>> \notin gone
                 /\ x.kind = y.kind /\ x.obj = y.obj /\ x.fd = y.fd
        BY <1>6, <1>12, <2>1
    <2> QED BY <1>5, <2>1
<1>13. PairsInv'
    <2>1. SUFFICES ASSUME NEW x1 \in ToSet(fdl'), NEW x2 \in ToSet(fdl'), ~x1.rm, ~x2.rm
                   PROVE  Compatible(x1, x2)
        BY DEF PairsInv, Live, Compatible, ToSet
    <2>2. CASE x1 \in ToSet(newFds) /\ x2 \in ToSet(newFds)
        BY <2>2 DEF AddsFds
    <2>3. ASSUME NEW x \in ToSet(newFds), NEW z \in ToSet(fdl'), NEW y \in Live(fdl),
                 <<y.obj, y.kind>> \notin gone, z.kind = y.kind, z.obj = y.obj, z.fd = y.fd
          PROVE  Compatible(x, z) /\ Compatible(z, x)
        BY <2>3 DEF AddsFds, Compatible
    <2>4. ASSUME NEW y1 \in Live(fdl), x1.kind = y1.kind, x1.obj = y1.obj, x1.fd = y1.fd,
                 NEW y2 \in Live(fdl), x2.kind = y2.kind, x2.obj = y2.obj, x2.fd = y2.fd
          PROVE  Compatible(x1, x2)
        <3>1. Compatible(y1, y2)
            BY DEF Inv, PairsInv
        <3> QED BY <2>4, <3>1 DEF Compatible
    <2> QED BY <1>12, <2>1, <2>2, <2>3, <2>4
<1>14. OpenFdsWatched'
    <2>1. SUFFICES ASSUME NEW f \in Fds, fdOwner'[f] \notin {None, Nobody}
                   PROVE  \E x \in ToSet(fdl') : x.fd = f /\ x.kind # "write" /\ x.enabled
        BY DEF OpenFdsWatched, ToSet
    <2>2. CASE \E x \in ToSet(newFds) : x.fd = f /\ x.kind # "write" /\ x.enabled
        BY <1>2, <2>2 DEF Effected
    <2>3. CASE /\ fdOwner[f] \notin {None, Nobody}
               /\ \A y \in Live(fdl) : y.fd = f /\ y.kind # "write" => <<y.obj, y.kind>> \notin gone
        <3>1. PICK y \in ToSet(fdl) : y.fd = f /\ y.kind # "write" /\ y.enabled
            BY <2>3 DEF Inv, OpenFdsWatched
        <3>2. y \in Live(fdl)
            BY <1>6, <3>1 DEF OffWhenRemoved, Live
        <3>3. <<y.obj, y.kind>> \notin gone \cup disable
            BY <2>3, <3>1, <3>2
        <3> QED BY <1>6, <3>1, <3>3
    <2> QED BY <2>1, <2>2, <2>3 DEF Watches
<1> QED BY <1>4, <1>9, <1>11, <1>13, <1>14 DEF Inv

\* No event is added.
LEMMA AddsNothing == ASSUME NEW gone PROVE AddsTimers(<<>>) /\ AddsFds(<<>>, gone)
<1>1. <<>> \in Seq(Events) /\ ToSet(<<>>) = {}
    BY DEF ToSet
<1> QED BY <1>1 DEF AddsTimers, AddsFds

\* What the invariant says of a live event of a descriptor.
LEMMA LiveFdFacts ==
    ASSUME Inv, NEW y \in Live(fdl)
    PROVE  /\ y \in ToSet(fdl) /\ y \in Events /\ ~y.rm /\ FdShape(y)
           /\ y.obj \in alive \cup {Server} /\ fdOwner[y.fd] = y.obj /\ y.fd \in Fds
           /\ y.running => y.fd \notin fresh
<1>1. y \in ToSet(fdl) /\ ~y.rm
    BY DEF Live
<1>2. fdl \in Seq(Events)
    BY DEF Inv, TypeOK
<1>3. y \in Events
    BY <1>1, <1>2, ToSetFacts
<1>4. FdShape(y)
    BY <1>1 DEF Inv, ShapeInv
<1> QED BY <1>1, <1>3, <1>4 DEF Inv, OwnersInv, FdsInv, NoStaleReadiness, FdShape

\* A callback that frees nothing and adds no event.
LEMMA QuietInv ==
    ASSUME Inv, NEW e, Called(e), NEW enable, NEW disable,
           \A o : \A k : <<o, k>> \in disable => k = "write",
           EffectOn(e, {}, enable, disable, <<>>, <<>>),
           UNCHANGED <<alive, fdOwner, on, fresh>>
    PROVE  Inv'
<1>1. Keeps({})
    BY LiveFdFacts DEF Keeps, Inv, OwnersInv
<1>2. Watches(<<>>, {})
    BY DEF Watches
<1>3. RestTyped
    BY DEF RestTyped, Inv, TypeOK
<1> QED BY <1>1, <1>2, <1>3, AddsNothing, CallbackInv

\* A callback that frees the objects objs and closes their descriptors.
LEMMA FreeInv ==
    ASSUME Inv, NEW e, Called(e), NEW enable, NEW objs, objs \subseteq Conns \cup Eps,
           EffectOn(e, EventsOf(objs), enable, {}, <<>>, <<>>),
           alive' = alive \ objs, fdOwner' = Closed(objs), UNCHANGED <<on, fresh>>
    PROVE  Inv'
<1> DEFINE gone == EventsOf(objs)
<1>0. TypeOK /\ fdOwner \in [Fds -> Objects \cup {None, Nobody}]
    BY DEF Inv, TypeOK
<1>1. ASSUME NEW y \in Live(fdl)
      PROVE  <<y.obj, y.kind>> \in gone <=> y.obj \in objs
    <2>1. FdShape(y)
        BY LiveFdFacts
    <2>2. y.obj \in objs => y.kind \in {"read", "second", "write", "timer", "rtp", "rtcp"}
        BY <2>1, ObjectsAssumption DEF FdShape, FdKinds
    <2> QED BY <2>2 DEF EventsOf
<1>2. ASSUME NEW y \in Live(timers)
      PROVE  <<y.obj, y.kind>> \in gone <=> y.obj \in objs
    <2>1. y.kind = "timer"
        BY DEF Inv, ShapeInv, TimerShape, Live
    <2> QED BY <2>1 DEF EventsOf
<1>3. ASSUME NEW f \in Fds
      PROVE  fdOwner'[f] = IF fdOwner[f] \in objs THEN None ELSE fdOwner[f]
    BY DEF Closed
<1> HIDE DEF gone
<1>4. Keeps(gone)
    <2>1. ASSUME NEW y \in Live(fdl), <<y.obj, y.kind>> \notin gone
          PROVE  /\ y.obj \in alive' \cup {Server} /\ fdOwner'[y.fd] = y.obj
                 /\ y.running => y.fd \notin fresh'
        BY <1>1, <1>3, <2>1, LiveFdFacts
    <2>2. ASSUME NEW y \in Live(timers), <<y.obj, y.kind>> \notin gone
          PROVE  y.obj \in alive' \cup {Server}
        BY <1>2, <2>2 DEF Inv, OwnersInv
    <2> QED BY <2>1, <2>2 DEF Keeps
<1>5. Watches(<<>>, gone)
    <2>1. SUFFICES ASSUME NEW f \in Fds, fdOwner'[f] \notin {None, Nobody}
                   PROVE  /\ fdOwner[f] \notin {None, Nobody}
                          /\ \A y \in Live(fdl) :
                               y.fd = f /\ y.kind # "write" => <<y.obj, y.kind>> \notin gone
        BY DEF Watches
    <2>2. fdOwner[f] \notin objs /\ fdOwner[f] \notin {None, Nobody}
        BY <1>3, <2>1
    <2> QED BY <1>1, <2>2, LiveFdFacts
<1>6. RestTyped
    <2>1. alive' \subseteq Conns \cup Eps /\ on' \in [Eps -> Conns \cup {None}] /\ fresh' \subseteq Fds
        BY <1>0 DEF TypeOK
    <2>2. fdOwner' \in [Fds -> Objects \cup {None, Nobody}]
        BY <1>0 DEF Closed
    <2> QED BY <2>1, <2>2 DEF RestTyped
<1> QED BY <1>4, <1>5, <1>6, AddsNothing, CallbackInv DEF gone

\* The events that are made.
LEMMA NewEventFacts ==
    ASSUME NEW k \in FdKinds \cup {"timer"}, NEW o \in Objects, NEW f \in Fds \cup {NoFd}
    PROVE  LET x == AddFdEvent(k, o, f) IN
           /\ x \in Events /\ x.kind = k /\ x.obj = o /\ x.fd = f
           /\ x.enabled /\ ~x.running /\ ~x.rm
    BY BoundsAssumption DEF AddFdEvent, Events

LEMMA DisabledFacts ==
    ASSUME NEW e \in Events
    PROVE  /\ LET x == [e EXCEPT !.enabled = FALSE] IN
              /\ x \in Events /\ x.kind = e.kind /\ x.obj = e.obj /\ x.fd = e.fd
              /\ ~x.enabled /\ x.running = e.running /\ x.rm = e.rm
           /\ LET x == RemoveEvent(e) IN
              /\ x \in Events /\ x.kind = e.kind /\ x.obj = e.obj /\ x.fd = e.fd
              /\ ~x.enabled /\ ~x.running /\ x.rm
    BY DEF RemoveEvent, Events

LEMMA NewWriteFacts ==
    ASSUME NEW o \in Conns, NEW f \in Fds
    PROVE  LET x == AddWriteEvent(o, f) IN
           x \in Events /\ x.kind = "write" /\ x.obj = o /\ x.fd = f /\ ~x.running /\ ~x.rm
<1> DEFINE y == AddFdEvent("write", o, f)
<1>1. y \in Events /\ y.kind = "write" /\ y.obj = o /\ y.fd = f /\ ~y.running /\ ~y.rm
    BY NewEventFacts DEF FdKinds, Objects
<1> HIDE DEF y
<1>2. AddWriteEvent(o, f) = [y EXCEPT !.enabled = FALSE]
    BY DEF AddWriteEvent, y
<1> QED BY <1>1, <1>2, DisabledFacts

LEMMA NewTimerFacts ==
    ASSUME NEW p \in Eps
    PROVE  /\ LET x == AddRtcpTimer(p)
              IN  x \in Events /\ TimerShape(x) /\ x.obj = p /\ ~x.running /\ ~x.enabled
           /\ LET x == RemoveEvent(AddRtcpTimer(p))
              IN  x \in Events /\ TimerShape(x) /\ x.obj = p /\ ~x.running /\ ~x.enabled /\ x.rm
<1> DEFINE y == AddFdEvent("timer", p, NoFd)
           x == AddRtcpTimer(p)
<1>1. y \in Events /\ y.kind = "timer" /\ y.obj = p /\ ~y.running
    BY NewEventFacts DEF Objects
<1> HIDE DEF y
<1>2. x = [y EXCEPT !.enabled = FALSE]
    BY DEF AddRtcpTimer, y
<1> HIDE DEF x
<1>3. x \in Events /\ x.kind = "timer" /\ x.obj = p /\ ~x.running /\ ~x.enabled
    BY <1>1, <1>2, DisabledFacts
<1>4. /\ RemoveEvent(x) \in Events /\ RemoveEvent(x).kind = "timer" /\ RemoveEvent(x).obj = p
      /\ ~RemoveEvent(x).running /\ ~RemoveEvent(x).enabled /\ RemoveEvent(x).rm
    BY <1>3, DisabledFacts
<1> QED BY <1>3, <1>4 DEF TimerShape, x

\* The descriptors the kernel hands out.
LEMMA FreeFdFacts ==
    ASSUME NEW n \in 0 .. Cardinality(FreeFds)
    PROVE  /\ \A k \in 1 .. n : Nth(FreeFds, k) \in FreeFds
           /\ n >= 2 => Nth(FreeFds, 1) # Nth(FreeFds, 2)
<1>1. 2 + NFds \in Nat /\ FreeFds \in SUBSET (0 .. 2 + NFds)
    BY BoundsAssumption DEF FreeFds, Fds
<1>2. Cardinality(FreeFds) \in Nat
    BY <1>1, BelowFinite
<1>3. ASSUME NEW k \in 1 .. n
      PROVE  Nth(FreeFds, k) \in FreeFds /\ Cardinality(Below(FreeFds, Nth(FreeFds, k))) = k - 1
    <2>1. k \in 1 .. Cardinality(FreeFds)
        BY <1>2
    <2> QED BY <1>1, <2>1, NthFound
<1>4. ASSUME n >= 2 PROVE Nth(FreeFds, 1) # Nth(FreeFds, 2)
    <2>1. 1 \in 1 .. n /\ 2 \in 1 .. n
        BY <1>2, <1>4
    <2>2. /\ Cardinality(Below(FreeFds, Nth(FreeFds, 1))) = 0
          /\ Cardinality(Below(FreeFds, Nth(FreeFds, 2))) = 1
        BY <1>3, <2>1
    <2> QED BY <2>2
<1> QED BY <1>3, <1>4

LEMMA SomeFreeFd == FreeFds # {} => 1 \in 0 .. Cardinality(FreeFds)
<1>1. 2 + NFds \in Nat /\ FreeFds \in SUBSET (0 .. 2 + NFds)
    BY BoundsAssumption DEF FreeFds, Fds
<1>2. IsFiniteSet(FreeFds) /\ Cardinality(FreeFds) \in Nat
    BY <1>1, BelowFinite
<1> QED BY <1>2, FS_EmptySet

\* No live event is on a free descriptor.
LEMMA FreeFdUnwatched ==
    ASSUME Inv, NEW f \in FreeFds, NEW y \in Live(fdl)
    PROVE  y.fd # f
<1>1. fdOwner[y.fd] = y.obj /\ y.obj \in Conns \cup Eps \cup {Server}
    BY LiveFdFacts DEF Inv, TypeOK
<1>2. None \notin Conns \cup Eps \cup {Server}
    BY ObjectsAssumption DEF None, Server
<1> QED BY <1>1, <1>2 DEF FreeFds

\* The events a callback makes for the object o, on the free descriptors in opened.
MakesTimers(o, new) ==
    /\ new \in Seq(Events)
    /\ \A x \in ToSet(new) : TimerShape(x) /\ x.obj = o /\ ~x.running /\ ~x.enabled
MakesFds(o, new, opened) ==
    /\ opened \subseteq FreeFds /\ new \in Seq(Events)
    /\ \A x \in ToSet(new) : FdShape(x) /\ x.obj = o /\ x.fd \in opened /\ ~x.running /\ ~x.rm
    /\ \A x, y \in ToSet(new) : Compatible(x, y)
    /\ \A f \in opened : \E x \in ToSet(new) : x.fd = f /\ x.kind # "write" /\ x.enabled
Makes(o, opened) ==
    /\ o \in (Conns \cup Eps) \ alive
    /\ fdOwner' = [f \in Fds |-> IF f \in opened THEN o ELSE fdOwner[f]]
    /\ alive' = alive \cup {o} /\ fresh' = fresh \cup opened
    /\ on' \in [Eps -> Conns \cup {None}]

LEMMA MakeInv ==
    ASSUME Inv, NEW e, Called(e), NEW enable, NEW o, NEW newTimers, NEW newFds, NEW opened,
           EffectOn(e, {}, enable, {}, newTimers, newFds),
           MakesTimers(o, newTimers), MakesFds(o, newFds, opened), Makes(o, opened)
    PROVE  Inv'
<1> USE DEF MakesTimers, MakesFds, Makes
<1>0. /\ fdOwner \in [Fds -> Objects \cup {None, Nobody}] /\ fresh \subseteq Fds
      /\ alive \subseteq Conns \cup Eps
    BY DEF Inv, TypeOK
<1>1. opened \subseteq Fds /\ o # Server /\ o \in Objects
    BY ObjectsAssumption DEF FreeFds, Objects
<1>2. ASSUME NEW y \in Live(fdl)
      PROVE  /\ y.fd \notin opened /\ y.obj # o
             /\ y.obj \in alive' \cup {Server} /\ fdOwner'[y.fd] = y.obj
             /\ y.running => y.fd \notin fresh'
    <2>1. y.fd \notin opened
        BY FreeFdUnwatched
    <2> QED BY <1>1, <2>1, LiveFdFacts
<1>3. Keeps({})
    BY <1>2 DEF Keeps, Inv, OwnersInv
<1>4. AddsTimers(newTimers)
    BY DEF AddsTimers, OffWhenRemoved
<1>5. AddsFds(newFds, {})
    <2>1. ASSUME NEW x \in ToSet(newFds)
          PROVE  /\ x.obj \in alive' /\ fdOwner'[x.fd] = x.obj
                 /\ \A y \in Live(fdl) : Compatible(x, y)
        <3>1. x.obj = o /\ x.fd \in opened /\ x.fd \in Fds
            BY <1>1
        <3>2. ASSUME NEW y \in Live(fdl) PROVE Compatible(x, y)
            BY <1>2, <3>1 DEF Compatible
        <3> QED BY <3>1, <3>2
    <2> QED BY <2>1 DEF AddsFds
<1>6. Watches(newFds, {})
    BY <1>0 DEF Watches
<1>7. RestTyped
    <2>1. fdOwner' \in [Fds -> Objects \cup {None, Nobody}]
        BY <1>0, <1>1
    <2> QED BY <1>0, <1>1, <2>1 DEF RestTyped
<1> HIDE DEF MakesTimers, MakesFds, Makes
<1> QED BY <1>3, <1>4, <1>5, <1>6, <1>7, CallbackInv

-----------------------------------------------------------------------------
(* The callbacks of the server.                                             *)

\* do_accept.
LEMMA AcceptInv ==
    ASSUME Inv, NEW e, Called(e), NEW o \in Conns, Accept(e, o)
    PROVE  Inv'
<1> DEFINE f == Nth(FreeFds, 1)
           x1 == AddWriteEvent(o, f)
           x2 == AddFdEvent("read", o, f)
<1>1. f \in FreeFds /\ f \in Fds
    <2>1. 1 \in 0 .. Cardinality(FreeFds)
        BY SomeFreeFd DEF Accept
    <2> QED BY <2>1, FreeFdFacts DEF FreeFds
<1>2. /\ EffectOn(e, {}, {}, {}, <<>>, <<x1, x2>>)
      /\ fdOwner' = [fdOwner EXCEPT ![f] = o] /\ fresh' = fresh \cup {f}
      /\ alive' = alive \cup {o} /\ on' = on /\ o \notin alive
    BY DEF Accept, Effect
<1> HIDE DEF f
<1>3. x1 \in Events /\ x1.kind = "write" /\ x1.obj = o /\ x1.fd = f /\ ~x1.running /\ ~x1.rm
    BY <1>1, NewWriteFacts
<1>4. /\ x2 \in Events /\ x2.kind = "read" /\ x2.obj = o /\ x2.fd = f
      /\ x2.enabled /\ ~x2.running /\ ~x2.rm
    BY <1>1, NewEventFacts DEF FdKinds, Objects
<1> HIDE DEF x1, x2
<1>5. <<x1, x2>> \in Seq(Events) /\ ToSet(<<x1, x2>>) = {x1, x2}
    BY <1>3, <1>4 DEF ToSet
<1>6. \A x \in {x1, x2} : FdShape(x) /\ x.obj = o /\ x.fd \in {f} /\ ~x.running /\ ~x.rm
    BY <1>1, <1>3, <1>4 DEF FdShape, FdKinds
<1>7. \A x, y \in {x1, x2} : Compatible(x, y)
    BY <1>3, <1>4 DEF Compatible
<1>8. /\ fdOwner' = [g \in Fds |-> IF g \in {f} THEN o ELSE fdOwner[g]]
      /\ on' \in [Eps -> Conns \cup {None}]
    BY <1>1, <1>2 DEF Inv, TypeOK
<1>9. <<>> \in Seq(Events) /\ ToSet(<<>>) = {}
    BY DEF ToSet
<1>10. MakesTimers(o, <<>>)
    BY <1>9 DEF MakesTimers
<1>11. MakesFds(o, <<x1, x2>>, {f})
    BY <1>1, <1>4, <1>5, <1>6, <1>7 DEF MakesFds
<1>12. Makes(o, {f})
    BY <1>2, <1>8 DEF Makes
<1> QED BY <1>2, <1>10, <1>11, <1>12, MakeInv

\* connect_udp_endpoint.
LEMMA SetupUdpInv ==
    ASSUME Inv, NEW e, Called(e), NEW p \in Eps, SetupUdp(e, p)
    PROVE  Inv'
<1> DEFINE f == Nth(FreeFds, 1)
           g == Nth(FreeFds, 2)
           t == AddRtcpTimer(p)
           x1 == AddFdEvent("rtcp", p, g)
           x2 == AddFdEvent("rtp", p, f)
<1>1. f \in FreeFds /\ g \in FreeFds /\ f # g
    <2>1. Cardinality(FreeFds) >= 2
        BY DEF SetupUdp
    <2>2. Cardinality(FreeFds) \in Nat
        <3>1. 2 + NFds \in Nat /\ FreeFds \in SUBSET (0 .. 2 + NFds)
            BY BoundsAssumption DEF FreeFds, Fds
        <3> QED BY <3>1, BelowFinite
    <2>3. 2 \in 0 .. Cardinality(FreeFds)
        BY <2>1, <2>2
    <2> QED BY <2>3, FreeFdFacts
<1>2. /\ EffectOn(e, {}, Writes(e.obj), {}, <<t>>, <<x1, x2>>)
      /\ fdOwner' = [fdOwner EXCEPT ![f] = p, ![g] = p] /\ fresh' = fresh \cup {f, g}
      /\ alive' = alive \cup {p} /\ on' = [on EXCEPT ![p] = None] /\ p \notin alive
    BY DEF SetupUdp, Effect
<1> HIDE DEF f, g
<1>f. f \in Fds /\ g \in Fds
    BY <1>1 DEF FreeFds
<1>3. t \in Events /\ TimerShape(t) /\ t.obj = p /\ ~t.running /\ ~t.enabled
    BY NewTimerFacts
<1>4. /\ x1 \in Events /\ x1.kind = "rtcp" /\ x1.obj = p /\ x1.fd = g
      /\ x1.enabled /\ ~x1.running /\ ~x1.rm
    BY <1>f, NewEventFacts DEF FdKinds, Objects
<1>5. /\ x2 \in Events /\ x2.kind = "rtp" /\ x2.obj = p /\ x2.fd = f
      /\ x2.enabled /\ ~x2.running /\ ~x2.rm
    BY <1>f, NewEventFacts DEF FdKinds, Objects
<1> HIDE DEF t, x1, x2
<1>6. <<x1, x2>> \in Seq(Events) /\ ToSet(<<x1, x2>>) = {x1, x2}
    BY <1>4, <1>5 DEF ToSet
<1>7. <<t>> \in Seq(Events) /\ ToSet(<<t>>) = {t}
    BY <1>3 DEF ToSet
<1>8. \A x \in {x1, x2} : FdShape(x) /\ x.obj = p /\ x.fd \in {f, g} /\ ~x.running /\ ~x.rm
    BY <1>f, <1>4, <1>5 DEF FdShape, FdKinds
<1>9. \A x, y \in {x1, x2} : Compatible(x, y)
    BY <1>1, <1>4, <1>5 DEF Compatible
<1>10. /\ fdOwner' = [h \in Fds |-> IF h \in {f, g} THEN p ELSE fdOwner[h]]
       /\ on' \in [Eps -> Conns \cup {None}]
    BY <1>f, <1>2 DEF Inv, TypeOK
<1>11. \A h \in {f, g} : \E x \in ToSet(<<x1, x2>>) : x.fd = h /\ x.kind # "write" /\ x.enabled
    BY <1>4, <1>5, <1>6
<1>12. {f, g} \in SUBSET FreeFds /\ p \in (Conns \cup Eps) \ alive
    BY <1>1, <1>2
<1>13. \A x \in ToSet(<<t>>) : TimerShape(x) /\ x.obj = p /\ ~x.running /\ ~x.enabled
    BY <1>3, <1>7
<1>14. MakesTimers(p, <<t>>)
    BY <1>7, <1>13 DEF MakesTimers
<1>15. MakesFds(p, <<x1, x2>>, {f, g})
    BY <1>6, <1>8, <1>9, <1>11, <1>12 DEF MakesFds
<1>16. Makes(p, {f, g})
    BY <1>2, <1>10, <1>12 DEF Makes
<1> QED BY <1>2, <1>14, <1>15, <1>16, MakeInv
\* What the invariant says of the event that is called.
LEMMA CalledFacts ==
    ASSUME Inv, NEW e, Called(e)
    PROVE  /\ e \in Events /\ e.running /\ e.obj \in alive \cup {Server}
           /\ e.kind = "timer" => e \in Live(timers) /\ e.obj \in Eps
           /\ e.kind # "timer" => e \in Live(fdl) /\ FdShape(e)
<1>1. timers \in Seq(Events) /\ fdl \in Seq(Events)
    BY DEF Inv, TypeOK
<1>2. CASE e \in ToSet(timers) /\ e.running
    <2>1. e \in Live(timers) /\ e \in Events
        BY <1>1, <1>2, ToSetFacts DEF Inv, FlagsInv, OffWhenRemoved, Live
    <2> QED BY <1>2, <2>1 DEF Inv, ShapeInv, TimerShape, OwnersInv
<1>3. CASE e \in ToSet(fdl) /\ e.running
    <2>1. e \in Live(fdl)
        BY <1>3 DEF Inv, FlagsInv, OffWhenRemoved, Live
    <2>2. e \in Events /\ FdShape(e) /\ e.obj \in alive \cup {Server}
        BY <2>1, LiveFdFacts
    <2> QED BY <1>3, <2>1, <2>2 DEF FdShape, FdKinds
<1> QED BY <1>2, <1>3 DEF Called

\* A SETUP on an interleaved channel.
LEMMA SetupInterleavedInv ==
    ASSUME Inv, NEW e, Called(e), e.kind \in {"read", "second"}, NEW p \in Eps,
           SetupInterleaved(e, p)
    PROVE  Inv'
<1> DEFINE t == AddRtcpTimer(p)
<1>1. e.obj \in Conns
    BY CalledFacts DEF FdShape
<1>2. /\ EffectOn(e, {}, Writes(e.obj), {}, <<t>>, <<>>)
      /\ alive' = alive \cup {p} /\ on' = [on EXCEPT ![p] = e.obj] /\ p \notin alive
      /\ fdOwner' = fdOwner /\ fresh' = fresh
    BY DEF SetupInterleaved, Effect
<1>3. t \in Events /\ TimerShape(t) /\ t.obj = p /\ ~t.running /\ ~t.enabled
    BY NewTimerFacts
<1> HIDE DEF t
<1>4. <<t>> \in Seq(Events) /\ ToSet(<<t>>) = {t} /\ <<>> \in Seq(Events) /\ ToSet(<<>>) = {}
    BY <1>3 DEF ToSet
<1>5. MakesTimers(p, <<t>>)
    BY <1>3, <1>4 DEF MakesTimers
<1>6. MakesFds(p, <<>>, {})
    BY <1>4 DEF MakesFds
<1>7. Makes(p, {})
    <2>1. on' \in [Eps -> Conns \cup {None}] /\ fdOwner = [f \in Fds |-> fdOwner[f]]
        BY <1>1, <1>2 DEF Inv, TypeOK
    <2> QED BY <1>2, <2>1 DEF Makes
<1> QED BY <1>2, <1>5, <1>6, <1>7, MakeInv

\* A SETUP that is refused, with the descriptors it forgets.
LEMMA SetupRefusedInv ==
    ASSUME Inv, NEW e, Called(e), NEW p \in Eps, NEW forgotten \in 0 .. 2,
           SetupRefused(e, p, forgotten)
    PROVE  Inv'
<1> DEFINE lost == {Nth(FreeFds, k) : k \in 1 .. forgotten}
           t == RemoveEvent(AddRtcpTimer(p))
<1>1. lost \subseteq FreeFds
    <2>1. Cardinality(FreeFds) >= forgotten
        BY DEF SetupRefused
    <2>2. Cardinality(FreeFds) \in Nat
        <3>1. 2 + NFds \in Nat /\ FreeFds \in SUBSET (0 .. 2 + NFds)
            BY BoundsAssumption DEF FreeFds, Fds
        <3> QED BY <3>1, BelowFinite
    <2>3. forgotten \in 0 .. Cardinality(FreeFds)
        BY <2>1, <2>2
    <2> QED BY <2>3, FreeFdFacts
<1>2. /\ EffectOn(e, {}, Writes(e.obj), {}, <<t>>, <<>>)
      /\ fdOwner' = [f \in Fds |-> IF f \in lost THEN Nobody ELSE fdOwner[f]]
      /\ alive' = alive /\ on' = on /\ fresh' = fresh
    BY DEF SetupRefused, Effect
<1>3. t \in Events /\ TimerShape(t) /\ ~t.running /\ ~t.enabled /\ t.rm
    BY NewTimerFacts
<1> HIDE DEF lost, t
<1>4. <<t>> \in Seq(Events) /\ ToSet(<<t>>) = {t}
    BY <1>3 DEF ToSet
<1>5. ASSUME NEW f \in Fds PROVE fdOwner'[f] = IF f \in lost THEN Nobody ELSE fdOwner[f]
    BY <1>2
<1>6. Keeps({})
    <2>1. ASSUME NEW y \in Live(fdl) PROVE fdOwner'[y.fd] = y.obj
        <3>1. y.fd \notin lost
            BY <1>1, FreeFdUnwatched
        <3> QED BY <1>5, <3>1, LiveFdFacts
    <2> QED BY <1>2, <2>1, LiveFdFacts DEF Keeps, Inv, OwnersInv
<1>7. AddsTimers(<<t>>)
    BY <1>3, <1>4 DEF AddsTimers, OffWhenRemoved
<1>8. Watches(<<>>, {})
    BY <1>5 DEF Watches
<1>9. RestTyped
    <2>1. fdOwner' \in [Fds -> Objects \cup {None, Nobody}]
        BY <1>2 DEF Inv, TypeOK
    <2> QED BY <1>2, <2>1 DEF RestTyped, Inv, TypeOK
<1>10. \A o : \A k : <<o, k>> \in {} => k = "write"
    OBVIOUS
<1> QED BY <1>2, <1>6, <1>7, <1>8, <1>9, <1>10, AddsNothing, CallbackInv

\* The descriptors of second events.
LEMMA SecondFdFacts ==
    ASSUME NEW o, NEW f
    PROVE  f \in SecondFd(o) <=> \E z \in Live(fdl) : z.obj = o /\ z.kind = "second" /\ z.fd = f
    BY DEF SecondFd, Live, ToSet

\* The end of a tunnel's second descriptor.
LEMMA TunnelClosesInv ==
    ASSUME Inv, NEW e, Called(e), TunnelCloses(e)
    PROVE  Inv'
<1> DEFINE gone == {<<e.obj, "second">>}
<1>1. e \in Live(fdl) /\ e.kind = "second"
    BY CalledFacts DEF TunnelCloses
<1>2. fdOwner[e.fd] = e.obj /\ e.fd \in Fds
    BY <1>1, LiveFdFacts
<1>3. /\ EffectOn(e, gone, {}, {}, <<>>, <<>>)
      /\ fdOwner' = [fdOwner EXCEPT ![e.fd] = None]
      /\ alive' = alive /\ on' = on /\ fresh' = fresh
    BY DEF TunnelCloses, Effect
<1>4. ASSUME NEW y \in Live(fdl)
      PROVE  <<y.obj, y.kind>> \in gone <=> y.fd = e.fd
    <2>1. Compatible(e, y)
        BY <1>1 DEF Inv, PairsInv
    <2>2. fdOwner[y.fd] = y.obj
        BY LiveFdFacts
    <2> QED BY <1>1, <1>2, <2>1, <2>2 DEF Compatible
<1>5. ASSUME NEW f \in Fds PROVE fdOwner'[f] = IF f = e.fd THEN None ELSE fdOwner[f]
    BY <1>2, <1>3 DEF Inv, TypeOK
<1> HIDE DEF gone
<1>6. Keeps(gone)
    BY <1>3, <1>4, <1>5, LiveFdFacts DEF Keeps, Inv, OwnersInv
<1>7. Watches(<<>>, gone)
    BY <1>4, <1>5 DEF Watches
<1>8. RestTyped
    BY <1>3 DEF RestTyped, Inv, TypeOK
<1>9. \A o : \A k : <<o, k>> \in {} => k = "write"
    OBVIOUS
<1> QED BY <1>3, <1>6, <1>7, <1>8, <1>9, AddsNothing, CallbackInv

\* handle_QT_tunnel: the connection of the POST gives its descriptor away.
LEMMA JoinTunnelInv ==
    ASSUME Inv, NEW e, Called(e), NEW g \in Conns, JoinTunnel(e, g)
    PROVE  Inv'
<1> DEFINE gone == {<<g, "second">>} \cup EventsOf({e.obj})
           x == AddFdEvent("second", g, e.fd)
<1>1. e \in Live(fdl) /\ e.kind = "read"
    BY CalledFacts DEF JoinTunnel
<1>2. fdOwner[e.fd] = e.obj /\ e.fd \in Fds /\ e.obj \in Conns
    BY <1>1, LiveFdFacts DEF FdShape
<1>3. /\ EffectOn(e, gone, {}, {}, <<>>, <<x>>)
      /\ fdOwner' = [f \in Fds |-> IF f = e.fd THEN g
                                   ELSE IF f \in SecondFd(g) THEN None ELSE fdOwner[f]]
      /\ alive' = alive \ {e.obj} /\ on' = on /\ fresh' = fresh
      /\ g \in alive /\ g # e.obj /\ SecondFd(e.obj) = {}
    BY DEF JoinTunnel, Effect
<1>4. /\ x \in Events /\ x.kind = "second" /\ x.obj = g /\ x.fd = e.fd
      /\ x.enabled /\ ~x.running /\ ~x.rm
    BY <1>2, NewEventFacts DEF FdKinds, Objects
<1>5. ASSUME NEW y \in Live(fdl)
      PROVE  <<y.obj, y.kind>> \in gone <=> y.obj = e.obj \/ (y.obj = g /\ y.kind = "second")
    <2>1. FdShape(y)
        BY LiveFdFacts
    <2>2. y.obj = e.obj => y.kind \in {"read", "second", "write", "timer", "rtp", "rtcp"}
        BY <1>2, <2>1, ObjectsAssumption DEF FdShape, FdKinds
    <2> QED BY <2>2 DEF EventsOf
<1>6. ASSUME NEW y \in Live(timers) PROVE y.obj # e.obj
    <2>1. y.obj \in Eps
        BY DEF Inv, ShapeInv, TimerShape, Live
    <2> QED BY <1>2, <2>1, ObjectsAssumption
<1> HIDE DEF gone, x
<1>7. ASSUME NEW f \in Fds
      PROVE  fdOwner'[f] = IF f = e.fd THEN g ELSE IF f \in SecondFd(g) THEN None ELSE fdOwner[f]
    BY <1>3
\* what is kept has a descriptor that is neither given away nor closed
<1>8. ASSUME NEW y \in Live(fdl), <<y.obj, y.kind>> \notin gone
      PROVE  y.obj # e.obj /\ y.fd # e.fd /\ y.fd \notin SecondFd(g)
    <2>1. fdOwner[y.fd] = y.obj
        BY LiveFdFacts
    <2>2. y.obj # e.obj /\ y.fd # e.fd
        BY <1>2, <1>5, <1>8, <2>1
    <2>3. ASSUME NEW z \in Live(fdl), z.obj = g, z.kind = "second", z.fd = y.fd PROVE FALSE
        <3>1. Compatible(z, y) /\ fdOwner[z.fd] = g
            BY <2>3, LiveFdFacts DEF Inv, PairsInv
        <3>2. y.kind = "second" /\ y.obj = g
            BY <2>1, <2>3, <3>1 DEF Compatible
        <3> QED BY <1>5, <1>8, <3>2
    <2> QED BY <2>2, <2>3, SecondFdFacts
<1>9. Keeps(gone)
    <2>1. ASSUME NEW y \in Live(fdl), <<y.obj, y.kind>> \notin gone
          PROVE  /\ y.obj \in alive' \cup {Server} /\ fdOwner'[y.fd] = y.obj
                 /\ y.running => y.fd \notin fresh'
        BY <1>3, <1>7, <1>8, <2>1, LiveFdFacts
    <2> QED BY <1>3, <1>6, <2>1 DEF Keeps, Inv, OwnersInv
<1>10. <<x>> \in Seq(Events) /\ ToSet(<<x>>) = {x}
    BY <1>4 DEF ToSet
<1>11. AddsFds(<<x>>, gone)
    <2>1. FdShape(x) /\ g \in alive' /\ fdOwner'[x.fd] = g
        BY <1>2, <1>3, <1>4, <1>7 DEF FdShape, FdKinds
    <2>2. ASSUME NEW y \in Live(fdl), <<y.obj, y.kind>> \notin gone PROVE Compatible(x, y)
        BY <1>4, <1>5, <1>8, <2>2 DEF Compatible
    <2>3. Compatible(x, x)
        BY DEF Compatible
    <2> QED BY <1>4, <1>10, <2>1, <2>2, <2>3 DEF AddsFds
<1>12. Watches(<<x>>, gone)
    <2>1. SUFFICES ASSUME NEW f \in Fds, fdOwner'[f] \notin {None, Nobody}, f # e.fd
                   PROVE  /\ fdOwner[f] \notin {None, Nobody}
                          /\ \A y \in Live(fdl) :
                               y.fd = f /\ y.kind # "write" => <<y.obj, y.kind>> \notin gone
        BY <1>4, <1>10 DEF Watches
    <2>2. f \notin SecondFd(g) /\ fdOwner[f] \notin {None, Nobody}
        BY <1>7, <2>1
    <2>3. ASSUME NEW y \in Live(fdl), y.fd = f, y.kind # "write", <<y.obj, y.kind>> \in gone
          PROVE  FALSE
        <3>1. CASE y.obj = g /\ y.kind = "second"
            BY <2>2, <2>3, <3>1, SecondFdFacts
        <3>2. CASE y.obj = e.obj
            <4>1. FdShape(y) /\ Compatible(e, y)
                BY <1>1, LiveFdFacts DEF Inv, PairsInv
            <4>2. y.kind \in {"read", "second"}
                BY <1>2, <2>3, <3>2, <4>1, ObjectsAssumption DEF FdShape, FdKinds
            <4>3. y.kind # "second"
                BY <1>3, <3>2, SecondFdFacts
            <4> QED BY <1>1, <2>1, <2>3, <3>2, <4>1, <4>2, <4>3 DEF Compatible
        <3> QED BY <1>5, <2>3, <3>1, <3>2
    <2> QED BY <2>2, <2>3
<1>13. RestTyped
    <2>1. fdOwner' \in [Fds -> Objects \cup {None, Nobody}]
        BY <1>3 DEF Inv, TypeOK, Objects
    <2> QED BY <1>3, <2>1 DEF RestTyped, Inv, TypeOK
<1>14. \A o : \A k : <<o, k>> \in {} => k = "write"
    OBVIOUS
<1> QED BY <1>3, <1>9, <1>11, <1>12, <1>13, <1>14, AddsNothing, CallbackInv

\* drop_conn, del_rtp_endpoint.
LEMMA DropInv ==
    ASSUME Inv, NEW e, Called(e), NEW objs, objs \subseteq Conns \cup Eps, Drop(e, objs)
    PROVE  Inv'
    BY FreeInv DEF Drop, Effect

\* All outcomes of a callback.
LEMMA CallbacksInv ==
    ASSUME Inv, NEW e, Called(e), Callback(e)
    PROVE  Inv'
<1>0. \A o : \A k : <<o, k>> \in {} => k = "write"
    OBVIOUS
<1>1. ASSUME Quiet(e) PROVE Inv'
    BY <1>0, <1>1, QuietInv DEF Quiet, Effect
<1>2. ASSUME NEW o, Reply(e, o) PROVE Inv'
    BY <1>0, <1>2, QuietInv DEF Reply, Effect
<1>3. CASE DoAccept(e)
    BY <1>1, <1>3, AcceptInv DEF DoAccept
<1>4. ASSUME e.kind \in {"read", "second", "write"} PROVE Freed(e.obj) \subseteq Conns \cup Eps
    BY <1>4, CalledFacts DEF Freed, FdShape
<1>5. CASE DoRead(e)
    <2>1. e.kind \in {"read", "second"}
        BY <1>5 DEF DoRead
    <2>2. ASSUME NEW ps \in SUBSET Eps, TeardownEps(e, ps) PROVE Inv'
        <3>1. /\ EffectOn(e, EventsOf(ps), Writes(e.obj), {}, <<>>, <<>>)
              /\ alive' = alive \ ps /\ fdOwner' = Closed(ps) /\ UNCHANGED <<on, fresh>>
            BY <2>2 DEF TeardownEps, Effect
        <3> QED BY <3>1, FreeInv
    <2>3. CASE Drop(e, Freed(e.obj))
        BY <1>4, <2>1, <2>3, DropInv
    <2> QED BY <1>1, <1>2, <1>5, <2>1, <2>2, <2>3, SetupUdpInv, SetupInterleavedInv,
               SetupRefusedInv, JoinTunnelInv, TunnelClosesInv DEF DoRead
<1>6. CASE ConnWrite(e)
    <2>1. CASE EffectOn(e, {}, {}, Writes(e.obj), <<>>, <<>>) /\ UNCHANGED <<alive, fdOwner, on, fresh>>
        <3>1. \A o : \A k : <<o, k>> \in Writes(e.obj) => k = "write"
            BY DEF Writes
        <3> QED BY <2>1, <3>1, QuietInv
    <2>2. CASE Drop(e, Freed(e.obj))
        BY <1>4, <1>6, <2>2, DropInv DEF ConnWrite
    <2> QED BY <1>6, <2>1, <2>2 DEF ConnWrite
<1>7. CASE EpEvent(e)
    <2>1. e.obj \in Eps
        BY <1>7, CalledFacts DEF EpEvent, FdShape
    <2>2. CASE Drop(e, {e.obj})
        BY <2>1, <2>2, DropInv
    <2> QED BY <1>2, <1>7, <2>2 DEF EpEvent
<1>8. ASSUME NEW failed \in SUBSET Eps, NEW served \in SUBSET Eps, Frame(e, failed, served)
      PROVE  Inv'
    <2> DEFINE enable == (served \X {"timer"}) \cup UNION {Writes(on[p]) : p \in served}
    <2>1. /\ EffectOn(e, EventsOf(failed), enable, {}, <<>>, <<>>)
          /\ alive' = alive \ failed /\ fdOwner' = Closed(failed) /\ UNCHANGED <<on, fresh>>
        BY <1>8 DEF Frame, Effect
    <2> HIDE DEF enable
    <2> QED BY <2>1, FreeInv
<1> QED BY <1>3, <1>5, <1>6, <1>7, <1>8 DEF Callback

-----------------------------------------------------------------------------
(* The pass and the clock.                                                  *)

\* What the top of event_loop leaves in a list.
LEMMA ArmedFacts ==
    ASSUME NEW list \in Seq(Events), \A e \in ToSet(list) : OffWhenRemoved(e),
           NEW x \in ToSet(StripAndArm(list))
    PROVE  /\ ~x.rm /\ OffWhenRemoved(x)
           /\ \E e \in Live(list) : x.kind = e.kind /\ x.obj = e.obj /\ x.fd = e.fd
<1>1. PICK e \in Live(list) : x = Arm(e)
    BY StripFacts
<1>2. e \in ToSet(list) /\ ~e.rm
    BY DEF Live
<1>3. e \in Events
    BY <1>2, ToSetFacts
<1> QED BY <1>1, <1>2, <1>3, ArmFacts DEF OffWhenRemoved

\* The start of a pass.
LEMMA NextPassInv ==
    ASSUME Inv, NextPass
    PROVE  Inv'
<1>1. timers \in Seq(Events) /\ fdl \in Seq(Events)
    BY DEF Inv, TypeOK
<1>2. /\ timers' = StripAndArm(timers) /\ fdl' = StripAndArm(fdl)
      /\ pc' = "time" /\ left' = Len(timers') /\ fresh' = {}
      /\ alive' = alive /\ fdOwner' = fdOwner /\ on' = on
    BY DEF NextPass
<1>3. TypeOK'
    <2>1. timers' \in Seq(Events) /\ fdl' \in Seq(Events)
        BY <1>1, <1>2, StripFacts
    <2>2. Len(timers') \in Nat
        BY <2>1
    <2> QED BY <1>2, <2>1, <2>2 DEF TypeOK, Inv
<1>4. ASSUME NEW x \in ToSet(timers')
      PROVE  TimerShape(x) /\ OffWhenRemoved(x) /\ x.obj \in alive \cup {Server}
    <2>1. PICK e \in Live(timers) : x.kind = e.kind /\ x.obj = e.obj
        BY <1>1, <1>2, ArmedFacts DEF Inv, FlagsInv
    <2>2. OffWhenRemoved(x)
        BY <1>1, <1>2, ArmedFacts DEF Inv, FlagsInv
    <2>3. TimerShape(e) /\ e.obj \in alive \cup {Server}
        BY DEF Inv, ShapeInv, OwnersInv, Live
    <2> QED BY <2>1, <2>2, <2>3 DEF TimerShape
<1>5. ASSUME NEW x \in ToSet(fdl')
      PROVE  \E e \in Live(fdl) : x.kind = e.kind /\ x.obj = e.obj /\ x.fd = e.fd
    BY <1>1, <1>2, ArmedFacts DEF Inv, FlagsInv
<1>6. ASSUME NEW x \in ToSet(fdl')
      PROVE  /\ FdShape(x) /\ OffWhenRemoved(x)
             /\ x.obj \in alive \cup {Server} /\ fdOwner[x.fd] = x.obj
    <2>1. PICK e \in Live(fdl) : x.kind = e.kind /\ x.obj = e.obj /\ x.fd = e.fd
        BY <1>5
    <2>2. OffWhenRemoved(x)
        BY <1>1, <1>2, ArmedFacts DEF Inv, FlagsInv
    <2> QED BY <2>1, <2>2, LiveFdFacts DEF FdShape
<1>7. ShapeInv' /\ FlagsInv' /\ OwnersInv' /\ FdsInv' /\ NoStaleReadiness'
    BY <1>2, <1>4, <1>6 DEF ShapeInv, FlagsInv, OwnersInv, FdsInv, NoStaleReadiness, Live,
       TimerShape, FdShape, OffWhenRemoved, ToSet
<1>8. PairsInv'
    <2>1. SUFFICES ASSUME NEW x1 \in ToSet(fdl'), NEW x2 \in ToSet(fdl')
                   PROVE  Compatible(x1, x2)
        BY DEF PairsInv, Live, Compatible, ToSet
    <2>2. PICK y1 \in Live(fdl) : x1.kind = y1.kind /\ x1.obj = y1.obj /\ x1.fd = y1.fd
        BY <1>5
    <2>3. PICK y2 \in Live(fdl) : x2.kind = y2.kind /\ x2.obj = y2.obj /\ x2.fd = y2.fd
        BY <1>5
    <2>4. Compatible(y1, y2)
        BY DEF Inv, PairsInv
    <2> QED BY <2>2, <2>3, <2>4 DEF Compatible
<1>9. OpenFdsWatched'
    <2>1. SUFFICES ASSUME NEW f \in Fds, fdOwner[f] \notin {None, Nobody}
                   PROVE  \E x \in ToSet(fdl') : x.fd = f /\ x.kind # "write" /\ x.enabled
        BY <1>2 DEF OpenFdsWatched, ToSet
    <2>2. PICK e \in ToSet(fdl) : e.fd = f /\ e.kind # "write" /\ e.enabled
        BY <2>1 DEF Inv, OpenFdsWatched
    <2>3. e \in Live(fdl) /\ e \in Events
        BY <1>1, <2>2, ToSetFacts DEF Inv, FlagsInv, OffWhenRemoved, Live
    <2>4. Arm(e) \in ToSet(fdl')
        BY <1>1, <1>2, <2>3, StripFacts
    <2> QED BY <2>2, <2>3, <2>4, ArmFacts
<1> QED BY <1>3, <1>7, <1>8, <1>9 DEF Inv

\* An interval passes for a timer.
LEMMA TickInv ==
    ASSUME Inv, NEW n \in DOMAIN timers, Tick(n)
    PROVE  Inv'
<1> DEFINE e == timers[n]
           x == [e EXCEPT !.lag = @ + 1]
<1>1. timers \in Seq(Events) /\ n \in 1 .. Len(timers) /\ Len(timers) \in Nat
    BY DEF Inv, TypeOK
<1>2. e \in Events /\ e \in ToSet(timers)
    BY <1>1, ToSetFacts
<1>3. e.lag < MaxLag /\ timers' = [timers EXCEPT ![n] = x]
      /\ UNCHANGED <<fdl, alive, fdOwner, on, pc, left, fresh>>
    BY <1>1 DEF Tick
<1> HIDE DEF e
<1>4. /\ x \in Events /\ x.kind = e.kind /\ x.obj = e.obj /\ x.rm = e.rm
      /\ x.running = e.running /\ x.enabled = e.enabled
    <2>1. e.lag \in 0 .. MaxLag /\ MaxLag \in Nat
        BY <1>2, BoundsAssumption DEF Events
    <2>2. e.lag + 1 \in 0 .. MaxLag
        BY <1>3, <2>1
    <2> QED BY <1>2, <2>2 DEF Events
<1> HIDE DEF x
<1>5. timers' \in Seq(Events) /\ Len(timers') = Len(timers)
    BY <1>1, <1>3, <1>4
<1>6. ASSUME NEW k \in 1 .. Len(timers) PROVE timers'[k] = x \/ timers'[k] = timers[k]
    BY <1>1, <1>3
<1>7. ASSUME NEW y \in ToSet(timers')
      PROVE  \E z \in ToSet(timers) :
               /\ y.kind = z.kind /\ y.obj = z.obj /\ y.rm = z.rm
               /\ y.running = z.running /\ y.enabled = z.enabled
    <2>1. PICK k \in 1 .. Len(timers) : timers'[k] = y
        BY <1>5, ToSetFacts
    <2>2. CASE y = x
        BY <1>2, <1>4, <2>2
    <2>3. CASE y = timers[k]
        BY <1>1, <2>1, <2>3, ToSetFacts
    <2> QED BY <1>6, <2>1, <2>2, <2>3
<1>8. TypeOK'
    BY <1>3, <1>5 DEF Inv, TypeOK
<1>9. ShapeInv' /\ FlagsInv'
    <2>1. ASSUME NEW y \in ToSet(timers') PROVE TimerShape(y) /\ OffWhenRemoved(y)
        BY <1>7 DEF Inv, ShapeInv, FlagsInv, TimerShape, OffWhenRemoved
    <2> QED BY <1>3, <2>1 DEF Inv, ShapeInv, FlagsInv, TimerShape, FdShape, OffWhenRemoved, ToSet
<1>10. OwnersInv'
    <2>1. ASSUME NEW y \in ToSet(timers'), ~y.rm PROVE y.obj \in alive \cup {Server}
        BY <1>7, <2>1 DEF Inv, OwnersInv, Live
    <2> QED BY <1>3, <2>1 DEF Inv, OwnersInv, Live, ToSet
<1>11. FdsInv' /\ PairsInv' /\ NoStaleReadiness' /\ OpenFdsWatched'
    BY <1>3 DEF Inv, FdsInv, PairsInv, Compatible, NoStaleReadiness, OpenFdsWatched, Live, ToSet
<1> QED BY <1>8, <1>9, <1>10, <1>11 DEF Inv

-----------------------------------------------------------------------------
(* The invariant.                                                           *)

LEMMA InvInit == Init => Inv
<1> DEFINE x1 == AddFdEvent("accept", Server, ListenFd)
           x2 == AddFdEvent("frame", Server, PipeFd)
<1>1. SUFFICES ASSUME Init PROVE Inv
    OBVIOUS
<1>2. ListenFd \in Fds /\ PipeFd \in Fds /\ ListenFd # PipeFd /\ Fds \subseteq 1 .. 2 + NFds
    BY BoundsAssumption DEF ListenFd, PipeFd, Fds
<1>3. /\ x1 \in Events /\ x1.kind = "accept" /\ x1.obj = Server /\ x1.fd = ListenFd
      /\ x1.enabled /\ ~x1.running /\ ~x1.rm
    BY <1>2, NewEventFacts DEF FdKinds, Objects
<1>4. /\ x2 \in Events /\ x2.kind = "frame" /\ x2.obj = Server /\ x2.fd = PipeFd
      /\ x2.enabled /\ ~x2.running /\ ~x2.rm
    BY <1>2, NewEventFacts DEF FdKinds, Objects
<1>5. /\ timers = <<>> /\ fdl = <<x1, x2>> /\ alive = {}
      /\ fdOwner = [f \in Fds |-> IF f \in {ListenFd, PipeFd} THEN Server ELSE None]
      /\ on = [p \in Eps |-> None] /\ pc = "fd" /\ left = 0 /\ fresh = {}
    BY <1>1 DEF Init
<1> HIDE DEF x1, x2
<1>6. /\ fdl \in Seq(Events) /\ Len(fdl) = 2 /\ ToSet(fdl) = {x1, x2} /\ Live(fdl) = {x1, x2}
      /\ timers \in Seq(Events) /\ ToSet(timers) = {} /\ Live(timers) = {}
    BY <1>3, <1>4, <1>5 DEF ToSet, Live
<1>7. TypeOK
    BY <1>5, <1>6 DEF TypeOK, Objects
<1>8. ShapeInv /\ FlagsInv /\ OwnersInv
    BY <1>2, <1>3, <1>4, <1>6 DEF ShapeInv, FlagsInv, OwnersInv, FdShape, FdKinds, OffWhenRemoved
<1>9. FdsInv /\ PairsInv /\ NoStaleReadiness
    BY <1>2, <1>3, <1>4, <1>5, <1>6 DEF FdsInv, PairsInv, NoStaleReadiness, Compatible
<1>10. OpenFdsWatched
    BY <1>3, <1>4, <1>5, <1>6 DEF OpenFdsWatched
<1> QED BY <1>7, <1>8, <1>9, <1>10 DEF Inv

LEMMA InvNext == Inv /\ [Next]_vars => Inv'
<1>1. SUFFICES ASSUME Inv, [Next]_vars PROVE Inv'
    OBVIOUS
<1>2. timers \in Seq(Events) /\ fdl \in Seq(Events)
    BY <1>1 DEF Inv, TypeOK
<1>3. ASSUME NEW n \in DOMAIN timers, CallsTimer(n) PROVE Called(timers[n])
    <2>1. n \in 1 .. Len(timers) /\ timers[n].running /\ timers[n].lag > 0
        BY <1>2, <1>3 DEF CallsTimer, TimersAhead, Due
    <2> QED BY <1>2, <2>1, ToSetFacts DEF Called
<1>4. ASSUME NEW n \in DOMAIN fdl, CallsFd(n) PROVE Called(fdl[n])
    <2>1. n \in 1 .. Len(fdl) /\ fdl[n].running
        BY <1>2, <1>4 DEF CallsFd
    <2> QED BY <1>2, <2>1, ToSetFacts DEF Called
<1>5. CASE NextPass
    BY <1>1, <1>5, NextPassInv
<1>6. ASSUME NEW n \in DOMAIN timers, CallsTimer(n), Callback(timers[n]) PROVE Inv'
    BY <1>1, <1>3, <1>6, CallbacksInv
<1>7. ASSUME NEW n \in DOMAIN fdl, CallsFd(n), Callback(fdl[n]) PROVE Inv'
    BY <1>1, <1>4, <1>7, CallbacksInv
<1>8. ASSUME NEW n \in DOMAIN timers, Tick(n) PROVE Inv'
    BY <1>1, <1>8, TickInv
<1>9. CASE UNCHANGED vars
    BY <1>1, <1>9 DEF vars, Inv, TypeOK, ShapeInv, FlagsInv, OwnersInv, FdsInv, PairsInv,
       NoStaleReadiness, OpenFdsWatched, Live, ToSet, TimerShape, FdShape, OffWhenRemoved, Compatible
<1> QED BY <1>1, <1>5, <1>6, <1>7, <1>8, <1>9 DEF Next, Loop

\* The lists, the owners of events and of descriptors and the descriptors that are
\* watched fit one another, in every state of the loop and within a pass.
THEOREM Invariance == Spec => []Inv
<1> QED BY InvInit, InvNext, PTL DEF Spec

\* Every event of the lists is one that event.c can make, and the walk stays in its list.
THEOREM TypeCorrect == Spec => []TypeOK
<1>1. Inv => TypeOK
    BY DEF Inv
<1> QED BY <1>1, Invariance, PTL

\* Whatever callbacks free during a walk, no event that the walk can still call belongs
\* to a freed connection or endpoint.
THEOREM CallbacksOnLiveObjects == Spec => []RunningOwnersAlive
<1>1. ASSUME Inv PROVE RunningOwnersAlive
    <2>1. ToSet(timers \o fdl) = ToSet(timers) \cup ToSet(fdl)
        BY <1>1, ToSetConcat DEF Inv, TypeOK
    <2> QED BY <1>1, <2>1 DEF Inv, FlagsInv, OwnersInv, OffWhenRemoved, Live, RunningOwnersAlive
<1> QED BY <1>1, Invariance, PTL

\* No callback gets the report of select on an earlier descriptor of the same number.
THEOREM NoStaleReports == Spec => []NoStaleReadiness
<1>1. Inv => NoStaleReadiness
    BY DEF Inv
<1> QED BY <1>1, Invariance, PTL

\* select is given open descriptors alone, each of the object its callback gets.
THEOREM SelectGetsOpenFds == Spec => []WatchedFdsOpen
<1>1. ASSUME Inv PROVE WatchedFdsOpen
    BY <1>1 DEF Inv, FlagsInv, FdsInv, OffWhenRemoved, Live, WatchedFdsOpen
<1> QED BY <1>1, Invariance, PTL

\* Every open descriptor but the forgotten ones has an enabled event that reads it.
THEOREM NoFdForgotten == Spec => []OpenFdsWatched
<1>1. Inv => OpenFdsWatched
    BY DEF Inv
<1> QED BY <1>1, Invariance, PTL
=============================================================================
