----------------------------- MODULE SoundProofs -----------------------------
(* Proofs about the media time of module Sound, for every clock, every frame *)
(* rate and any number of pauses.  The timeline subtracts each pause from    *)
(* the time since the start.  A pause that is over lies before everything    *)
(* that is asked later, so it is subtracted as a whole, once, and what is    *)
(* left grows with the clock by exactly the ticks that were recorded.        *)
EXTENDS Sound, FiniteSets, FiniteSetTheorems, WellFoundedInduction, TLAPS

(* Induction over the natural numbers, about a set of them. *)
LEMMA Induct ==
  ASSUME NEW S, 0 \in S, \A n \in Nat : n \in S => n + 1 \in S
  PROVE  Nat \subseteq S
<1> DEFINE Less == {p \in Nat \X Nat : p[1] < p[2]}
           Rest == Nat \ S
<1>1. IsWellFoundedOn(Less, Nat)
  BY NatLessThanWellFounded DEF OpToRel
<1>2. SUFFICES ASSUME Rest # {} PROVE FALSE
  OBVIOUS
<1>3. PICK n \in Rest : \A m \in Rest : <<m, n>> \notin Less
  <2> HIDE DEF Less
  <2> QED BY <1>1, <1>2, WFMin
<1>4. n # 0 /\ n - 1 \in Nat /\ n - 1 < n
  BY <1>3
<1>5. n - 1 \in Rest
  BY <1>4, <1>3
<1> QED BY <1>3, <1>4, <1>5

-----------------------------------------------------------------------------
(* What MediaAfter is: the recursion has a solution. *)

Pauses == Seq([start : Nat, end : Nat])

(* What is left of t after the first n pauses of ps. *)
IsAfter(ps, from, t, f) ==
  f = [n \in 0 .. Len(ps) |-> IF n = 0 THEN t - from ELSE f[n - 1] - PausedBefore(ps[n], t)]

LEMMA PauseType ==
  ASSUME NEW ps \in Pauses
  PROVE  Len(ps) \in Nat /\ \A n \in 1 .. Len(ps) : ps[n] \in [start : Nat, end : Nat]
<1> DEFINE P == [start : Nat, end : Nat]
<1>1. ps \in Seq(P)
  BY DEF Pauses
<1> HIDE DEF P
<1>2. Len(ps) \in Nat /\ \A n \in 1 .. Len(ps) : ps[n] \in P
  BY <1>1
<1> QED BY <1>2 DEF P

LEMMA NoPauses == <<>> \in Pauses /\ Len(<<>>) = 0
<1>1. \A P : <<>> \in Seq(P)
  OBVIOUS
<1>2. Pauses = Seq([start : Nat, end : Nat])
  BY DEF Pauses
<1> HIDE DEF Pauses
<1> QED BY <1>1, <1>2

LEMMA PauseAppended ==
  ASSUME NEW ps \in Pauses, NEW p \in [start : Nat, end : Nat]
  PROVE  /\ Append(ps, p) \in Pauses /\ Len(Append(ps, p)) = Len(ps) + 1
         /\ Append(ps, p)[Len(ps) + 1] = p /\ \A n \in 1 .. Len(ps) : Append(ps, p)[n] = ps[n]
<1>1. \A P, x : ps \in Seq(P) /\ x \in P =>
        /\ Append(ps, x) \in Seq(P) /\ Len(Append(ps, x)) = Len(ps) + 1
        /\ Append(ps, x)[Len(ps) + 1] = x /\ \A n \in 1 .. Len(ps) : Append(ps, x)[n] = ps[n]
  OBVIOUS
<1>2. ps \in Seq([start : Nat, end : Nat])
  BY DEF Pauses
<1> QED BY <1>1, <1>2, Zenon DEF Pauses

LEMMA PausedType ==
  ASSUME NEW p \in [start : Nat, end : Nat], NEW t \in Int
  PROVE  PausedBefore(p, t) \in Nat
BY DEF PausedBefore, Greatest, Least

(* Each further pause extends the solution by one value. *)
LEMMA AfterExists ==
  ASSUME NEW ps \in Pauses, NEW from \in Int, NEW t \in Int
  PROVE  \E f : IsAfter(ps, from, t, f) /\ \A n \in 0 .. Len(ps) : f[n] \in Int
<1> DEFINE Value(f, n) == IF n = 0 THEN t - from ELSE f[n - 1] - PausedBefore(ps[n], t)
           Good(k) == \E f \in [0 .. k -> Int] : \A n \in 0 .. k : f[n] = Value(f, n)
           S == {k \in Nat : k <= Len(ps) => Good(k)}
<1>1. 0 \in S
  <2> DEFINE g == [n \in 0 .. 0 |-> t - from]
  <2>1. g \in [0 .. 0 -> Int]
    OBVIOUS
  <2>2. \A n \in 0 .. 0 : g[n] = Value(g, n)
    OBVIOUS
  <2>3. Good(0)
    <3> HIDE DEF g, Value
    <3> QED BY <2>1, <2>2
  <2> QED BY <2>3
<1>2. ASSUME NEW k \in Nat, k \in S PROVE k + 1 \in S
  <2>1. SUFFICES ASSUME k + 1 <= Len(ps) PROVE Good(k + 1)
    <3> HIDE DEF Good
    <3> QED OBVIOUS
  <2>2. Len(ps) \in Nat /\ k <= Len(ps) /\ ps[k + 1] \in [start : Nat, end : Nat]
    BY <2>1, PauseType
  <2>3. PICK f \in [0 .. k -> Int] : \A n \in 0 .. k : f[n] = Value(f, n)
    BY <1>2, <2>2
  <2> DEFINE g == [n \in 0 .. k + 1 |-> IF n = k + 1 THEN f[k] - PausedBefore(ps[k + 1], t) ELSE f[n]]
  <2>4. g \in [0 .. k + 1 -> Int]
    <3>1. PausedBefore(ps[k + 1], t) \in Nat
      BY <2>2, PausedType
    <3> QED BY <3>1
  <2>5. ASSUME NEW n \in 0 .. k + 1 PROVE g[n] = Value(g, n)
    <3>1. CASE n = k + 1
      BY <3>1
    <3>2. CASE n # k + 1
      <4>1. n \in 0 .. k /\ g[n] = f[n] /\ f[n] = Value(f, n)
        BY <3>2, <2>3
      <4>2. n # 0 => n - 1 \in 0 .. k + 1 /\ n - 1 # k + 1 /\ g[n - 1] = f[n - 1]
        BY <3>2
      <4> QED BY <4>1, <4>2
    <3> QED BY <3>1, <3>2
  <2> QED
    <3> HIDE DEF g, Value
    <3> QED BY <2>4, <2>5
<1>3. Good(Len(ps))
  <2>1. Len(ps) \in Nat
    BY DEF Pauses
  <2> HIDE DEF Good
  <2>2. Nat \subseteq S
    <3> HIDE DEF S
    <3> QED BY <1>1, <1>2, Induct
  <2> QED BY <2>1, <2>2
<1>4. PICK f \in [0 .. Len(ps) -> Int] : \A n \in 0 .. Len(ps) : f[n] = Value(f, n)
  BY <1>3
<1>5. f = [n \in 0 .. Len(ps) |-> Value(f, n)]
  BY <1>4
<1> QED BY <1>4, <1>5 DEF IsAfter

LEMMA MediaAfterDef ==
  ASSUME NEW tl, tl.pauses \in Pauses, tl.origin \in Int, NEW t \in Int
  PROVE  \A n \in 0 .. Len(tl.pauses) :
           /\ MediaAfter(tl, t)[n] =
                IF n = 0 THEN t - tl.origin ELSE MediaAfter(tl, t)[n - 1] - PausedBefore(tl.pauses[n], t)
           /\ MediaAfter(tl, t)[n] \in Int
<1>1. MediaAfter(tl, t) = CHOOSE f : IsAfter(tl.pauses, tl.origin, t, f)
  BY Zenon DEF MediaAfter, IsAfter
<1>2. IsAfter(tl.pauses, tl.origin, t, MediaAfter(tl, t))
  BY <1>1, AfterExists
<1> DEFINE f == MediaAfter(tl, t)
           Len0 == Len(tl.pauses)
           S == {n \in Nat : n <= Len0 => f[n] \in Int}
<1>3. \A n \in 0 .. Len0 : f[n] = IF n = 0 THEN t - tl.origin ELSE f[n - 1] - PausedBefore(tl.pauses[n], t)
  <2> HIDE DEF f
  <2> QED BY <1>2, Zenon DEF IsAfter, f
<1> HIDE DEF f
<1>4. Len0 \in Nat
  BY DEF Pauses
<1>5. 0 \in S
  BY <1>3, <1>4
<1>6. ASSUME NEW n \in Nat, n \in S PROVE n + 1 \in S
  <2>1. SUFFICES ASSUME n + 1 <= Len0 PROVE f[n + 1] \in Int
    OBVIOUS
  <2>2. n + 1 \in 0 .. Len0 /\ n + 1 # 0 /\ n + 1 - 1 = n
    BY <2>1, <1>4
  <2>3. f[n + 1] = f[n] - PausedBefore(tl.pauses[n + 1], t)
    BY <1>3, <2>2
  <2>4. tl.pauses[n + 1] \in [start : Nat, end : Nat]
    BY <2>2, <1>4, PauseType
  <2>5. PausedBefore(tl.pauses[n + 1], t) \in Nat
    BY <2>4, PausedType
  <2>6. f[n] \in Int
    BY <1>6, <2>1, <1>4
  <2> QED BY <2>3, <2>5, <2>6
<1>7. Nat \subseteq S
  <2> HIDE DEF S
  <2> QED BY <1>5, <1>6, Induct
<1>8. \A n \in 0 .. Len0 : f[n] \in Int
  BY <1>4, <1>7
<1> QED BY <1>3, <1>8 DEF f

Behind(ps, t) == \A n \in 1 .. Len(ps) : ps[n].start <= ps[n].end /\ ps[n].end <= t
Begins(ps, qs) == Len(ps) <= Len(qs) /\ \A n \in 1 .. Len(ps) : qs[n] = ps[n]

(* When every pause of tl lies before t, what is left after any number of   *)
(* them grows as the time does; and pauses that come later change nothing.  *)
LEMMA LeftGrowsWithTime ==
  ASSUME NEW tl, tl.pauses \in Pauses, tl.origin \in Int,
         NEW next, next.pauses \in Pauses, next.origin = tl.origin, Begins(tl.pauses, next.pauses),
         NEW t \in Int, NEW u \in Int, Behind(tl.pauses, t), Behind(tl.pauses, u)
  PROVE  /\ MediaAfter(next, u)[Len(tl.pauses)] = MediaAfter(tl, t)[Len(tl.pauses)] + u - t
         /\ MediaAfter(tl, t)[Len(tl.pauses)] \in Int
<1> DEFINE f == MediaAfter(tl, t)
           g == MediaAfter(next, u)
           last == Len(tl.pauses)
           S == {n \in Nat : n <= last => g[n] = f[n] + u - t}
<1>1. \A n \in 0 .. last :
        /\ f[n] = IF n = 0 THEN t - tl.origin ELSE f[n - 1] - PausedBefore(tl.pauses[n], t)
        /\ f[n] \in Int
  <2> HIDE DEF f
  <2> QED BY MediaAfterDef DEF f
<1>2. \A n \in 0 .. Len(next.pauses) :
        /\ g[n] = IF n = 0 THEN u - next.origin ELSE g[n - 1] - PausedBefore(next.pauses[n], u)
        /\ g[n] \in Int
  <2>1. next.origin \in Int
    OBVIOUS
  <2> HIDE DEF g
  <2> QED BY <2>1, MediaAfterDef DEF g
<1>3. last \in Nat /\ Len(next.pauses) \in Nat /\ last <= Len(next.pauses)
  BY PauseType DEF Begins
<1> HIDE DEF f, g
<1>4. 0 \in S
  BY <1>1, <1>2, <1>3
<1>5. ASSUME NEW n \in Nat, n \in S PROVE n + 1 \in S
  <2>1. SUFFICES ASSUME n + 1 <= last PROVE g[n + 1] = f[n + 1] + u - t
    OBVIOUS
  <2> DEFINE p == tl.pauses[n + 1]
  <2>2. n + 1 \in 0 .. last /\ n + 1 \in 0 .. Len(next.pauses) /\ n + 1 # 0 /\ n + 1 - 1 = n
        /\ n + 1 \in 1 .. last /\ n \in 0 .. last
    BY <2>1, <1>3
  <2>3. p \in [start : Nat, end : Nat] /\ next.pauses[n + 1] = p
    BY <2>2, PauseType DEF Begins
  <2>4. PausedBefore(p, u) = PausedBefore(p, t) /\ PausedBefore(p, t) \in Nat
    <3>1. PausedBefore(p, t) \in Nat
      BY <2>3, PausedType
    <3>2. p.start \in Nat /\ p.end \in Nat /\ p.start <= p.end /\ p.end <= t /\ p.end <= u
      BY <2>2, <2>3 DEF Behind
    <3> QED BY <3>1, <3>2 DEF PausedBefore, Greatest, Least
  <2>5. f[n + 1] = f[n] - PausedBefore(p, t)
    BY <1>1, <2>2
  <2>6. g[n + 1] = g[n] - PausedBefore(p, t)
    BY <1>2, <2>2, <2>3, <2>4
  <2>7. f[n] \in Int /\ g[n] = f[n] + u - t
    BY <1>1, <1>5, <2>1, <2>2
  <2> HIDE DEF p
  <2> QED BY <2>4, <2>5, <2>6, <2>7
<1>6. Nat \subseteq S
  <2> HIDE DEF S
  <2> QED BY <1>4, <1>5, Induct
<1>7. g[last] = f[last] + u - t
  BY <1>6, <1>3
<1> QED BY <1>7, <1>1, <1>3 DEF f, g

-----------------------------------------------------------------------------
(* The media time is the time on air. *)

(* Until when the session has recorded. *)
Until == IF timeline.open # None THEN timeline.open
         ELSE IF timeline.stopped # None THEN timeline.stopped ELSE now

Times ==
  /\ now \in Nat
  /\ timeline \in [origin : Nat \cup {None}, pauses : Pauses, open : Nat \cup {None}, stopped : Nat \cup {None}]

(* Before the start there is nothing; afterwards a pause, and the stop, lie  *)
(* behind the pauses before them, and none lies in the future.               *)
TimesAreOrdered ==
  /\ timeline.origin = None =>
       timeline.pauses = <<>> /\ timeline.open = None /\ timeline.stopped = None /\ onAir = {}
  /\ Behind(timeline.pauses, Until)
  /\ timeline.open # None /\ timeline.stopped # None => timeline.open <= timeline.stopped
  /\ Until <= now
  /\ timeline.stopped # None => timeline.stopped <= now

(* What is left of the time until then is the ticks on air. *)
LeftIsOnAir ==
  /\ IsFiniteSet(onAir) /\ \A t \in onAir : t \in Nat /\ t < now
  /\ timeline.origin # None =>
       MediaAfter(timeline, Until)[Len(timeline.pauses)] = Cardinality(onAir)

TimeInv == Times /\ TimesAreOrdered /\ LeftIsOnAir

LEMMA TimeInit == Init => TimeInv
<1> SUFFICES ASSUME Init PROVE TimeInv
  OBVIOUS
<1>1. Times
  BY NoPauses DEF Init, Times, NewTimeline, None
<1>2. TimesAreOrdered
  BY NoPauses DEF Init, TimesAreOrdered, NewTimeline, Behind, Until, None
<1>3. LeftIsOnAir
  BY FS_EmptySet DEF Init, LeftIsOnAir, NewTimeline
<1> QED BY <1>1, <1>2, <1>3 DEF TimeInv

(* While the position does not move, neither does what is left. *)
LEMMA NothingHappens ==
  ASSUME TimeInv, timeline' = timeline, onAir' = onAir, now' \in Nat, now <= now', Until' = Until
  PROVE  TimeInv'
<1>1. Times'
  BY DEF TimeInv, Times
<1>2. TimesAreOrdered'
  BY DEF TimeInv, TimesAreOrdered, Times, Until, None
<1>3. LeftIsOnAir'
  <2>1. \A t \in onAir : t < now'
    BY DEF TimeInv, LeftIsOnAir, Times
  <2>2. timeline.origin # None => MediaAfter(timeline, Until)[Len(timeline.pauses)] = Cardinality(onAir)
    BY DEF TimeInv, LeftIsOnAir
  <2>3. (MediaAfter(timeline, Until)[Len(timeline.pauses)])' = MediaAfter(timeline, Until)[Len(timeline.pauses)]
    BY Zenon DEF MediaAfter
  <2> QED BY <2>1, <2>2, <2>3 DEF TimeInv, LeftIsOnAir
<1> QED BY <1>1, <1>2, <1>3 DEF TimeInv

LEMMA TimeOnAir ==
  ASSUME TimeInv, Tick
  PROVE  TimeInv'
<1> USE DEF Tick
<1>1. now \in Nat /\ now' = now + 1 /\ timeline' = timeline
  BY DEF TimeInv, Times
<1>2. CASE timeline.origin = None
  <2>1. timeline.pauses = <<>> /\ timeline.open = None /\ timeline.stopped = None /\ onAir = {} /\ onAir' = onAir
    BY <1>2 DEF TimeInv, TimesAreOrdered, Recording
  <2>2. Times' /\ LeftIsOnAir'
    BY <1>1, <1>2, <2>1, FS_EmptySet DEF TimeInv, Times, LeftIsOnAir
  <2>3. TimesAreOrdered'
    BY <1>1, <1>2, <2>1, NoPauses DEF TimesAreOrdered, Behind, Until, None
  <2> QED BY <2>2, <2>3 DEF TimeInv
<1>3. CASE timeline.origin # None /\ ~Recording
  <2>1. Until' = Until /\ onAir' = onAir
    BY <1>1, <1>3 DEF Recording, Until
  <2> QED BY <1>1, <2>1, NothingHappens
<1>4. CASE Recording
  <2>1. Until = now /\ Until' = now + 1 /\ onAir' = onAir \cup {now} /\ timeline.origin \in Nat
    BY <1>1, <1>4 DEF Recording, Until, TimeInv, Times, None
  <2>2. Times'
    BY <1>1 DEF TimeInv, Times
  <2>3. TimesAreOrdered'
    <3>1. Behind(timeline.pauses, now) /\ Behind(timeline.pauses, now + 1)
      <4>1. Behind(timeline.pauses, now)
        BY <2>1 DEF TimeInv, TimesAreOrdered
      <4>2. \A n \in 1 .. Len(timeline.pauses) : timeline.pauses[n].end \in Nat
        BY PauseType DEF TimeInv, Times
      <4> QED BY <1>1, <4>1, <4>2 DEF Behind
    <3> QED BY <1>1, <1>4, <2>1, <3>1 DEF TimesAreOrdered, Recording, None
  <2>4. LeftIsOnAir'
    <3>1. IsFiniteSet(onAir) /\ now \notin onAir
      BY <1>1 DEF TimeInv, LeftIsOnAir
    <3>2. IsFiniteSet(onAir') /\ Cardinality(onAir') = Cardinality(onAir) + 1
      BY <3>1, <2>1, FS_AddElement
    <3>3. MediaAfter(timeline, Until)[Len(timeline.pauses)] = Cardinality(onAir)
      BY <1>4 DEF TimeInv, LeftIsOnAir, Recording
    <3>4. MediaAfter(timeline, now + 1)[Len(timeline.pauses)]
            = MediaAfter(timeline, now)[Len(timeline.pauses)] + (now + 1) - now
      <4>1. timeline.pauses \in Pauses /\ timeline.origin \in Int
        BY <2>1 DEF TimeInv, Times
      <4>2. Begins(timeline.pauses, timeline.pauses) /\ now \in Int /\ now + 1 \in Int
        BY <1>1, <4>1, PauseType DEF Begins
      <4>3. Behind(timeline.pauses, now) /\ Behind(timeline.pauses, now + 1)
        <5>1. Behind(timeline.pauses, now)
          BY <2>1 DEF TimeInv, TimesAreOrdered
        <5>2. \A n \in 1 .. Len(timeline.pauses) : timeline.pauses[n].end \in Nat
          BY <4>1, PauseType
        <5> QED BY <1>1, <5>1, <5>2 DEF Behind
      <4> QED BY <4>1, <4>2, <4>3, LeftGrowsWithTime
    <3>5. Cardinality(onAir) \in Nat
      BY <3>1, FS_CardinalityType
    <3>6. (MediaAfter(timeline, Until)[Len(timeline.pauses)])' = MediaAfter(timeline, now + 1)[Len(timeline.pauses)]
      BY <1>1, <2>1, Zenon DEF MediaAfter
    <3>7. (MediaAfter(timeline, Until)[Len(timeline.pauses)])' = Cardinality(onAir')
      BY <1>1, <2>1, <3>2, <3>3, <3>4, <3>5, <3>6
    <3>8. \A t \in onAir' : t \in Nat /\ t < now'
      BY <1>1, <2>1 DEF TimeInv, LeftIsOnAir
    <3> QED BY <3>2, <3>7, <3>8 DEF LeftIsOnAir
  <2> QED BY <2>2, <2>3, <2>4 DEF TimeInv
<1> QED BY <1>2, <1>3, <1>4 DEF Recording

LEMMA TimeStarts ==
  ASSUME TimeInv, Start
  PROVE  TimeInv'
<1> USE DEF Start, TimelineStart
<1>1. /\ now \in Nat /\ now' = now /\ onAir' = {} /\ onAir = {}
      /\ timeline' = [origin |-> now, pauses |-> <<>>, open |-> None, stopped |-> None]
  BY DEF TimeInv, Times, TimesAreOrdered
<1>2. Times'
  <2>1. \A ps \in Pauses : [origin |-> now, pauses |-> ps, open |-> None, stopped |-> None] \in
           [origin : Nat \cup {None}, pauses : Pauses, open : Nat \cup {None}, stopped : Nat \cup {None}]
    BY <1>1
  <2> QED BY <1>1, <2>1, NoPauses DEF Times
<1>3. TimesAreOrdered'
  BY <1>1, NoPauses DEF TimesAreOrdered, Behind, Until, None
<1>4. LeftIsOnAir'
  <2> DEFINE tl == timeline'
  <2>1. tl.pauses \in Pauses /\ tl.origin = now /\ Len(tl.pauses) = 0
    BY <1>1, NoPauses
  <2>2. MediaAfter(tl, now)[0] = now - now
    <3> HIDE DEF tl
    <3> QED BY <1>1, <2>1, MediaAfterDef
  <2>3. (MediaAfter(timeline, Until)[Len(timeline.pauses)])' = MediaAfter(tl, now)[0]
    <3>1. Until' = now
      BY <1>1 DEF Until
    <3>2. timeline'.pauses = <<>> /\ Len(timeline'.pauses) = 0
      BY <1>1, <2>1
    <3>3. (MediaAfter(timeline, Until)[Len(timeline.pauses)])' = MediaAfter(timeline', Until')[Len(timeline'.pauses)]
      BY Zenon DEF MediaAfter
    <3> QED BY <3>1, <3>2, <3>3
  <2> QED BY <1>1, <2>2, <2>3, FS_EmptySet DEF LeftIsOnAir
<1> QED BY <1>2, <1>3, <1>4 DEF TimeInv

LEMMA TimePauses ==
  ASSUME TimeInv, Pause
  PROVE  TimeInv'
<1> USE DEF Pause, TimelinePause, Recording
<1>1. /\ now \in Nat /\ now' = now /\ onAir' = onAir /\ Until = now
      /\ timeline' = [timeline EXCEPT !.open = now]
  BY DEF TimeInv, Times, Until
<1>2. /\ timeline'.origin = timeline.origin /\ timeline'.pauses = timeline.pauses /\ timeline'.stopped = None
      /\ timeline'.open = now /\ Until' = now
  BY <1>1 DEF TimeInv, Times, Until, None
<1>3. Times'
  BY <1>1 DEF TimeInv, Times
<1>4. TimesAreOrdered'
  BY <1>1, <1>2 DEF TimeInv, TimesAreOrdered, None
<1>5. LeftIsOnAir'
  <2>1. (MediaAfter(timeline, Until)[Len(timeline.pauses)])' = MediaAfter(timeline, Until)[Len(timeline.pauses)]
    BY <1>1, <1>2, Zenon DEF MediaAfter
  <2> QED BY <1>1, <1>2, <2>1 DEF TimeInv, LeftIsOnAir
<1> QED BY <1>3, <1>4, <1>5 DEF TimeInv

LEMMA TimeResumes ==
  ASSUME TimeInv, Resume
  PROVE  TimeInv'
<1>1. CASE timeline.stopped # None
  <2>1. timeline' = timeline /\ onAir' = onAir /\ now' = now /\ now \in Nat
    BY <1>1 DEF Resume, TimelineResume, TimeInv, Times
  <2>2. Until' = Until /\ now <= now'
    BY <2>1 DEF Until
  <2> QED BY <2>1, <2>2, NothingHappens
<1>2. CASE timeline.stopped = None
  <2> DEFINE from == timeline.open
             last == Len(timeline.pauses)
             tl == timeline'
  <2>1. /\ now \in Nat /\ now' = now /\ onAir' = onAir /\ from \in Nat /\ from <= now /\ Until = from
        /\ Greatest(now, from) = now
    BY <1>2 DEF Resume, TimeInv, Times, TimesAreOrdered, Until, Greatest, None
  <2>2. timeline' = [timeline EXCEPT !.open = None, !.pauses = Append(@, [start |-> from, end |-> now])]
    BY <1>2, <2>1 DEF Resume, TimelineResume
  <2>3. timeline.pauses \in Pauses /\ last \in Nat
    BY PauseType DEF TimeInv, Times
  <2>4. timeline.origin \in Nat
    BY <2>1 DEF TimeInv, Times, TimesAreOrdered, None
  <2>5. /\ tl.origin = timeline.origin /\ tl.open = None /\ tl.stopped = None
        /\ tl.pauses = Append(timeline.pauses, [start |-> from, end |-> now])
        /\ tl \in [origin : Nat \cup {None}, pauses : Pauses, open : Nat \cup {None}, stopped : Nat \cup {None}]
    <3>1. Append(timeline.pauses, [start |-> from, end |-> now]) \in Pauses
      BY <2>1, <2>3, PauseAppended
    <3> QED BY <3>1, <2>2, <1>2 DEF TimeInv, Times
  <2> HIDE DEF tl
  <2>6. /\ Len(tl.pauses) = last + 1 /\ tl.pauses[last + 1] = [start |-> from, end |-> now]
        /\ \A n \in 1 .. last : tl.pauses[n] = timeline.pauses[n]
        /\ tl.pauses \in Pauses
    <3> DEFINE p == [start |-> from, end |-> now]
    <3>1. p \in [start : Nat, end : Nat]
      BY <2>1
    <3>2. tl.pauses = Append(timeline.pauses, p)
      BY <2>5
    <3> HIDE DEF p
    <3>3. /\ Len(tl.pauses) = last + 1 /\ tl.pauses[last + 1] = p
          /\ \A n \in 1 .. last : tl.pauses[n] = timeline.pauses[n]
          /\ tl.pauses \in Pauses
      BY <2>3, <3>1, <3>2, PauseAppended
    <3> QED BY <3>3 DEF p
  <2>7. Until' = now
    BY <2>1, <2>5 DEF Until, tl
  <2>8. Behind(timeline.pauses, from) /\ Behind(timeline.pauses, now) /\ Begins(timeline.pauses, tl.pauses)
    <3>1. \A n \in 1 .. last : timeline.pauses[n].end \in Nat
      BY <2>3, PauseType
    <3>2. Behind(timeline.pauses, from)
      BY <2>1 DEF TimeInv, TimesAreOrdered
    <3> QED BY <3>1, <3>2, <2>1, <2>3, <2>6 DEF Behind, Begins
  <2>9. TimesAreOrdered'
    <3>1. Behind(tl.pauses, now)
      <4> SUFFICES ASSUME NEW n \in 1 .. last + 1
                   PROVE  tl.pauses[n].start <= tl.pauses[n].end /\ tl.pauses[n].end <= now
        BY <2>6 DEF Behind
      <4>1. CASE n = last + 1
        BY <4>1, <2>1, <2>6
      <4>2. CASE n # last + 1
        <5>1. n \in 1 .. last
          BY <4>2, <2>3
        <5> QED BY <5>1, <2>6, <2>8 DEF Behind
      <4> QED BY <4>1, <4>2
    <3> QED BY <2>1, <2>4, <2>5, <2>6, <2>7, <3>1 DEF TimesAreOrdered, None, tl
  <2>10. LeftIsOnAir'
    <3>1. MediaAfter(tl, now)[last] = MediaAfter(timeline, from)[last] + now - from
          /\ MediaAfter(timeline, from)[last] \in Int
      <4>1. /\ timeline.origin \in Int /\ tl.origin = timeline.origin /\ from \in Int /\ now \in Int
        BY <2>1, <2>4, <2>5
      <4> HIDE DEF from
      <4> QED BY <2>3, <2>6, <2>8, <4>1, LeftGrowsWithTime
    <3>2. MediaAfter(tl, now)[last + 1] = MediaAfter(tl, now)[last] - PausedBefore(tl.pauses[last + 1], now)
      <4>1. tl.origin \in Int /\ now \in Int /\ last + 1 \in 0 .. Len(tl.pauses) /\ last + 1 # 0 /\ (last + 1) - 1 = last
        BY <2>1, <2>3, <2>4, <2>5, <2>6
      <4> QED BY <2>6, <4>1, MediaAfterDef
    <3>3. PausedBefore(tl.pauses[last + 1], now) = now - from
      BY <2>1, <2>6 DEF PausedBefore, Greatest, Least
    <3>4. MediaAfter(timeline, from)[last] = Cardinality(onAir)
      BY <2>1, <2>4 DEF TimeInv, LeftIsOnAir, None
    <3>5. (MediaAfter(timeline, Until)[Len(timeline.pauses)])' = MediaAfter(tl, now)[last + 1]
      BY <2>6, <2>7, Zenon DEF MediaAfter, tl
    <3>6. (MediaAfter(timeline, Until)[Len(timeline.pauses)])' = Cardinality(onAir')
      <4> DEFINE a == MediaAfter(timeline, from)[last]
                 b == MediaAfter(tl, now)[last]
      <4>1. a \in Int /\ b = a + now - from
        BY <3>1
      <4>2. MediaAfter(tl, now)[last + 1] = b - (now - from)
        BY <3>2, <3>3
      <4>3. a = Cardinality(onAir)
        BY <3>4
      <4> HIDE DEF a, b
      <4> QED BY <2>1, <3>5, <4>1, <4>2, <4>3
    <3> QED BY <2>1, <3>6 DEF TimeInv, LeftIsOnAir
  <2> QED BY <2>1, <2>5, <2>9, <2>10 DEF TimeInv, Times, tl
<1> QED BY <1>1, <1>2

LEMMA TimeStops ==
  ASSUME TimeInv, Stop
  PROVE  TimeInv'
<1> USE DEF Stop, TimelineStop
<1>1. /\ now \in Nat /\ now' = now /\ onAir' = onAir
      /\ timeline' = [timeline EXCEPT !.stopped = now]
  BY DEF TimeInv, Times
<1>2. /\ timeline'.origin = timeline.origin /\ timeline'.pauses = timeline.pauses /\ timeline'.stopped = now
      /\ timeline'.open = timeline.open /\ Until' = Until
  BY <1>1 DEF TimeInv, Times, Until, None
<1>3. Times'
  BY <1>1 DEF TimeInv, Times
<1>4. TimesAreOrdered'
  BY <1>1, <1>2 DEF TimeInv, TimesAreOrdered, Until, None
<1>5. LeftIsOnAir'
  <2>1. (MediaAfter(timeline, Until)[Len(timeline.pauses)])' = MediaAfter(timeline, Until)[Len(timeline.pauses)]
    BY <1>1, <1>2, Zenon DEF MediaAfter
  <2> QED BY <1>1, <1>2, <2>1 DEF TimeInv, LeftIsOnAir
<1> QED BY <1>3, <1>4, <1>5 DEF TimeInv

LEMMA TimeNext ==
  ASSUME TimeInv, [Next]_vars
  PROVE  TimeInv'
<1>1. CASE UNCHANGED <<now, timeline, onAir>>
  <2>1. now \in Nat /\ now <= now' /\ Until' = Until
    BY <1>1 DEF TimeInv, Times, Until
  <2> QED BY <1>1, <2>1, NothingHappens
<1>2. ASSUME NEW at \in 0 .. MaxNow, NEW n \in 1 .. MaxPacket, Packet(at, n) PROVE UNCHANGED <<now, timeline, onAir>>
  BY <1>2 DEF Packet
<1>3. ASSUME NEW frames \in 1 .. MaxNow, Mix(frames) PROVE UNCHANGED <<now, timeline, onAir>>
  BY <1>3 DEF Mix
<1> QED BY <1>1, <1>2, <1>3, TimeOnAir, TimeStarts, TimePauses, TimeResumes, TimeStops DEF Next, vars

(* The invariant of the media time holds. *)
THEOREM TimesAreKept == Spec => []TimeInv
BY TimeInit, TimeNext, PTL DEF Spec

(* Pauses leave neither a gap nor drift (clock.rs, Timeline::position): the  *)
(* position is the number of ticks on which the session recorded.            *)
THEOREM PositionIsRight == Spec => []PositionIsTimeOnAir
<1>1. ASSUME TimeInv PROVE PositionIsTimeOnAir
  <2> SUFFICES ASSUME timeline.origin # None PROVE Position(timeline, now) = Cardinality(onAir)
    BY DEF PositionIsTimeOnAir
  <2>1. Position(timeline, now) = MediaOf(timeline, Until)
    BY <1>1 DEF Position, Unpaused, Until, Least, TimeInv, Times, TimesAreOrdered, None
  <2>2. MediaAfter(timeline, Until)[Len(timeline.pauses)] = Cardinality(onAir) /\ Cardinality(onAir) \in Nat
    BY <1>1, FS_CardinalityType DEF TimeInv, LeftIsOnAir
  <2> QED BY <2>1, <2>2 DEF MediaOf, Greatest
<1> QED BY <1>1, TimesAreKept, PTL

-----------------------------------------------------------------------------
(* The frames that are due are those whose stamp is reached. *)

LEMMA Division ==
  ASSUME NEW a \in Nat, NEW b \in Nat \ {0}
  PROVE  a \div b \in Nat /\ b * (a \div b) <= a /\ a < b * (a \div b) + b
BY Z3

(* A stamp is at most pos when the exact one is less than pos + 1. *)
LEMMA StampReached ==
  ASSUME NEW fps \in Nat \ {0}, NEW n \in Nat, NEW pos \in Nat, TicksPerSec \in Nat
  PROVE  Pts(fps, n) <= pos <=> n * TicksPerSec < fps * pos + fps
<1> DEFINE a == n * TicksPerSec
           q == a \div fps
<1>1. a \in Nat
  BY Z3
<1>2. q \in Nat /\ fps * q <= a /\ a < fps * q + fps
  <2> HIDE DEF a
  <2> QED BY <1>1, Division
<1>3. Pts(fps, n) = q
  BY DEF Pts
<1> HIDE DEF a, q
<1>4. ASSUME q <= pos PROVE a < fps * pos + fps
  <2>1. fps * q <= fps * pos
    BY <1>2, <1>4, Z3
  <2> QED BY <1>1, <1>2, <2>1, Z3
<1>5. ASSUME a < fps * pos + fps PROVE q <= pos
  <2>1. SUFFICES ASSUME q >= pos + 1 PROVE FALSE
    BY <1>2
  <2>2. fps * q >= fps * (pos + 1)
    BY <1>2, <2>1, Z3
  <2>3. fps * (pos + 1) = fps * pos + fps
    BY Z3
  <2> QED BY <1>1, <1>2, <1>5, <2>2, <2>3, Z3
<1> QED BY <1>3, <1>4, <1>5 DEF a

LEMMA DueFrames ==
  ASSUME NEW fps \in 1 .. TicksPerSec, NEW pos \in Nat, TicksPerSec \in Nat \ {0}
  PROVE  DueCount(fps, pos) = Cardinality({n \in 0 .. pos + 1 : Pts(fps, n) <= pos})
<1> DEFINE T == TicksPerSec
           whole == (pos * fps) \div T
           Due == {n \in 0 .. pos + 1 : Pts(fps, n) <= pos}
<1>1. pos * fps \in Nat /\ pos * fps <= pos * T
  BY Z3
<1>2. whole \in Nat /\ T * whole <= pos * fps /\ pos * fps < T * whole + T
  BY <1>1, Division
<1> HIDE DEF whole
<1>3. whole <= pos
  <2>1. SUFFICES ASSUME whole >= pos + 1 PROVE FALSE
    BY <1>2
  <2>2. T * whole >= T * (pos + 1) /\ T * (pos + 1) = T * pos + T /\ T * pos = pos * T
    BY <1>2, <2>1, Z3
  <2> QED BY <1>1, <1>2, <2>2, Z3
<1>4. \A n \in 0 .. whole : Pts(fps, n) <= pos
  <2> SUFFICES ASSUME NEW n \in 0 .. whole PROVE n * T < fps * pos + fps
    BY <1>2, StampReached
  <2>1. n * T <= T * whole
    BY <1>2, Z3
  <2>2. n * T \in Int /\ T * whole \in Int /\ fps * pos = pos * fps
    BY <1>2, Z3
  <2> QED BY <1>1, <1>2, <2>1, <2>2, Z3
<1>5. \A n \in Nat : n >= whole + 2 => ~(Pts(fps, n) <= pos)
  <2> SUFFICES ASSUME NEW n \in Nat, n >= whole + 2 PROVE ~(n * T < fps * pos + fps)
    BY <1>2, StampReached
  <2>1. n * T >= (whole + 2) * T /\ (whole + 2) * T = T * whole + T + T
    BY <1>2, Z3
  <2>2. n * T \in Int /\ T * whole \in Int /\ fps * pos = pos * fps
    BY <1>2, Z3
  <2> QED BY <1>1, <1>2, <2>1, <2>2, Z3
<1>6. CASE Pts(fps, whole + 1) <= pos
  <2>1. Due = 0 .. whole + 1
    <3>1. ASSUME NEW n \in Nat PROVE n \in Due <=> n <= whole + 1
      <4> SUFFICES n \in 0 .. pos + 1 /\ Pts(fps, n) <= pos <=> n <= whole + 1
        OBVIOUS
      <4>1. CASE n <= whole
        BY <1>2, <1>3, <1>4, <4>1
      <4>2. CASE n = whole + 1
        BY <1>2, <1>3, <1>6, <4>2
      <4>3. CASE n >= whole + 2
        BY <1>2, <1>5, <4>3
      <4> QED BY <1>2, <4>1, <4>2, <4>3
    <3>2. \A n \in Due : n \in Nat
      OBVIOUS
    <3> HIDE DEF Due
    <3>3. \A x : x \in Due <=> x \in 0 .. whole + 1
      BY <3>1, <3>2, <1>2
    <3> QED BY <3>3, Zenon
  <2>2. Cardinality(Due) = whole + 2
    <3>1. Cardinality(0 .. whole + 1) = whole + 2
      BY <1>2, FS_Interval
    <3> QED BY <2>1, <3>1, Zenon
  <2> QED BY <1>6, <2>2 DEF DueCount, whole
<1>7. CASE ~(Pts(fps, whole + 1) <= pos)
  <2>1. Due = 0 .. whole
    <3>1. ASSUME NEW n \in Nat PROVE n \in Due <=> n <= whole
      <4> SUFFICES n \in 0 .. pos + 1 /\ Pts(fps, n) <= pos <=> n <= whole
        OBVIOUS
      <4>1. CASE n <= whole
        BY <1>2, <1>3, <1>4, <4>1
      <4>2. CASE n = whole + 1
        BY <1>2, <1>7, <4>2
      <4>3. CASE n >= whole + 2
        BY <1>2, <1>5, <4>3
      <4> QED BY <1>2, <4>1, <4>2, <4>3
    <3>2. \A n \in Due : n \in Nat
      OBVIOUS
    <3> HIDE DEF Due
    <3>3. \A x : x \in Due <=> x \in 0 .. whole
      BY <3>1, <3>2, <1>2
    <3> QED BY <3>3, Zenon
  <2>2. Cardinality(Due) = whole + 1
    <3>1. Cardinality(0 .. whole) = whole + 1
      BY <1>2, FS_Interval
    <3> QED BY <2>1, <3>1, Zenon
  <2> QED BY <1>7, <2>2 DEF DueCount, whole
<1> QED BY <1>6, <1>7

(* At every position, and for every frame rate that is not finer than the    *)
(* clock, FramePacer::due_count is the number of frames whose stamp is       *)
(* reached, whatever the two divisions round.                                *)
THEOREM DueFramesAreRight == Spec => []DueFramesAreReached
<1>1. ASSUME TimeInv, PositionIsTimeOnAir PROVE DueFramesAreReached
  <2> SUFFICES ASSUME timeline.origin # None, NEW fps \in Rates
               PROVE  DueCount(fps, Position(timeline, now))
                        = Cardinality({n \in 0 .. (Position(timeline, now) + 1) : Pts(fps, n) <= Position(timeline, now)})
    BY DEF DueFramesAreReached
  <2>1. Position(timeline, now) \in Nat
    BY <1>1, FS_CardinalityType DEF PositionIsTimeOnAir, TimeInv, LeftIsOnAir
  <2>2. fps \in 1 .. TicksPerSec /\ TicksPerSec \in Nat \ {0}
    BY SoundAssumption
  <2> QED BY <2>1, <2>2, DueFrames
<1> QED BY <1>1, TimesAreKept, PositionIsRight, PTL
=============================================================================
