-------------------------- MODULE TimerQueueProofs --------------------------
(***************************************************************************)
(* Proofs about TimerQueue, for any timers, any intervals, any bound on    *)
(* the time and however often the wall clock is set.                       *)
(***************************************************************************)
EXTENDS TimerQueue, SequenceTheorems, FiniteSetTheorems, WellFoundedInduction, TLAPS

(* What is in a queue after adding at its end.                             *)
LEMMA RangeOfAppend ==
  ASSUME NEW S, NEW s \in Seq(S), NEW e \in S
  PROVE  Range(Append(s, e)) = Range(s) \cup {e}
<1>1. DOMAIN Append(s, e) = DOMAIN s \cup {Len(s) + 1}
  OBVIOUS
<1>2. \A i \in DOMAIN s : Append(s, e)[i] = s[i]
  OBVIOUS
<1>3. Append(s, e)[Len(s) + 1] = e
  OBVIOUS
<1> QED
  BY <1>1, <1>2, <1>3, Zenon DEF Range

(* What is left of a queue was in it.                                      *)
LEMMA RangeOfTail ==
  ASSUME NEW S, NEW s \in Seq(S), s # << >>
  PROVE  Head(s) \in Range(s) /\ Range(Tail(s)) \subseteq Range(s)
<1>1. \A i \in DOMAIN Tail(s) : i + 1 \in DOMAIN s /\ Tail(s)[i] = s[i + 1]
  OBVIOUS
<1>2. 1 \in DOMAIN s /\ Head(s) = s[1]
  OBVIOUS
<1>3. Range(Tail(s)) \subseteq Range(s)
  BY <1>1, Zenon DEF Range
<1>4. Head(s) \in Range(s)
  BY <1>2, Zenon DEF Range
<1> QED
  BY <1>3, <1>4

(* A queue without repetitions stays one: a new element is added ...       *)
LEMMA AppendDistinct ==
  ASSUME NEW S, NEW s \in Seq(S), IsInjective(s), NEW e \in S, e \notin Range(s)
  PROVE  IsInjective(Append(s, e))
<1>1. DOMAIN Append(s, e) = DOMAIN s \cup {Len(s) + 1}
  OBVIOUS
<1>2. \A i \in DOMAIN s : Append(s, e)[i] = s[i]
  OBVIOUS
<1>3. Append(s, e)[Len(s) + 1] = e
  OBVIOUS
<1>4. \A i \in DOMAIN s : s[i] # e
  BY Zenon DEF Range
<1>5. \A i, j \in DOMAIN s : s[i] = s[j] => i = j
  BY Zenon DEF IsInjective
<1> QED
  BY <1>1, <1>2, <1>3, <1>4, <1>5, Zenon DEF IsInjective

(* ... or the first one is taken.                                          *)
LEMMA TailDistinct ==
  ASSUME NEW S, NEW s \in Seq(S), s # << >>, IsInjective(s)
  PROVE  /\ IsInjective(Tail(s))
         /\ Head(s) \notin Range(Tail(s))
         /\ Range(s) = {Head(s)} \cup Range(Tail(s))
<1>1. \A i \in DOMAIN Tail(s) :
          i + 1 \in DOMAIN s /\ i + 1 # 1 /\ Tail(s)[i] = s[i + 1]
  OBVIOUS
<1>2. 1 \in DOMAIN s /\ Head(s) = s[1]
  OBVIOUS
<1>3. \A i, j \in DOMAIN s : s[i] = s[j] => i = j
  BY Zenon DEF IsInjective
<1>4. \A i, j \in DOMAIN Tail(s) : i + 1 = j + 1 => i = j
  OBVIOUS
<1>5. IsInjective(Tail(s))
  BY <1>1, <1>3, <1>4, Zenon DEF IsInjective
<1>6. Head(s) \notin Range(Tail(s))
  <2>1. \A i \in DOMAIN Tail(s) : Tail(s)[i] # Head(s)
    BY <1>1, <1>2, <1>3
  <2> QED
    BY <2>1, Zenon DEF Range
<1>7. ASSUME NEW i \in DOMAIN s, i # 1
      PROVE  s[i] \in Range(Tail(s))
  <2>1. i - 1 \in DOMAIN Tail(s) /\ Tail(s)[i - 1] = s[i]
    BY <1>7
  <2> QED
    BY <2>1, Zenon DEF Range
<1>8. \A x \in Range(s) : x = Head(s) \/ x \in Range(Tail(s))
  BY <1>2, <1>7, Zenon DEF Range
<1>9. Head(s) \in Range(s) /\ Range(Tail(s)) \subseteq Range(s)
  BY RangeOfTail, Zenon
<1> QED
  BY <1>5, <1>6, <1>8, <1>9

(* A set of natural numbers has a least one.                               *)
LEMMA LeastNat ==
  ASSUME NEW S \in SUBSET Nat, S # {}
  PROVE  Min(S) \in S /\ \A n \in S : Min(S) <= n
<1>1. PICK R : R = OpToRel(<, Nat)
  OBVIOUS
<1>2. IsWellFoundedOn(R, Nat)
  BY <1>1, NatLessThanWellFounded, Zenon
<1>3. \E m \in S : \A n \in S : ~(<<n, m>> \in R)
  BY <1>2, WFMin, Zenon
<1>4. \A n, m \in Nat : n < m => <<n, m>> \in R
  BY <1>1 DEF OpToRel
<1>5. \E m \in S : \A n \in S : m <= n
  <2>1. PICK m \in S : \A n \in S : ~(<<n, m>> \in R)
    BY <1>3
  <2>2. ASSUME NEW n \in S
        PROVE  m <= n
    <3>1. m \in Nat /\ n \in Nat
      OBVIOUS
    <3>2. ~(n < m)
      BY <1>4, <2>1, <3>1, Zenon
    <3> QED
      BY <3>1, <3>2
  <2> QED
    BY <2>2
<1> QED
  BY <1>5 DEF Min

(* The earliest of some timers.                                            *)
LEMMA EarliestIs ==
  ASSUME NEW T \in SUBSET Entries, T # {}
  PROVE  /\ Earliest(T) \in Nat
         /\ \E e \in T : e.when = Earliest(T)
         /\ \A e \in T : Earliest(T) <= e.when
<1>1. PICK S : S = {e.when : e \in T}
  OBVIOUS
<1>2. S \in SUBSET Nat /\ S # {}
  BY <1>1 DEF Entries
<1>3. Min(S) \in S /\ \A n \in S : Min(S) <= n
  BY <1>2, LeastNat
<1> QED
  BY <1>1, <1>2, <1>3 DEF Earliest

(* The greater of two numbers.                                             *)
LEMMA MaxOfTwo ==
  ASSUME NEW a \in Int, NEW b \in Int
  PROVE  Max({a, b}) = IF a >= b THEN a ELSE b
<1>1. \E x \in {a, b} : \A y \in {a, b} : x >= y
  OBVIOUS
<1>2. PICK m : m = Max({a, b})
  OBVIOUS
<1>3. m \in {a, b} /\ \A y \in {a, b} : m >= y
  BY <1>1, <1>2 DEF Max
<1> QED
  BY <1>2, <1>3

(* The lesser of two numbers.                                              *)
LEMMA MinOfTwo ==
  ASSUME NEW a \in Int, NEW b \in Int
  PROVE  Min({a, b}) = IF a <= b THEN a ELSE b
<1>1. \E x \in {a, b} : \A y \in {a, b} : x <= y
  OBVIOUS
<1>2. PICK m : m = Min({a, b})
  OBVIOUS
<1>3. m \in {a, b} /\ \A y \in {a, b} : m <= y
  BY <1>1, <1>2 DEF Min
<1> QED
  BY <1>2, <1>3
-----------------------------------------------------------------------------
(* The clocks: the wall clock shows a time within its bound, handleRead    *)
(* holds a time that it has shown and the timers that were due by then.    *)
Clocks ==
    /\ IsFiniteSet(batch) /\ IsFiniteSet(called)
    /\ clock \in 1 .. MaxTime /\ clock <= seen /\ now <= seen
    /\ lpc \in {"read", "run"} => now >= 1
    /\ \A e \in batch : e.when <= now

(* The timers that begin another period are finitely many.                 *)
LEMMA RestartedTypes ==
  ASSUME TypeOK, Clocks
  PROVE  /\ Restarted \in SUBSET Entries /\ IsFiniteSet(Restarted)
         /\ \A x : x \in Restarted <=>
               \E e \in called : /\ Repeats(e.timer)
                                 /\ x = Entry(e.timer, now + Interval[e.timer])
<1>1. PICK R : R = {f \in called : Repeats(f.timer)}
  OBVIOUS
<1>2. R \subseteq called /\ IsFiniteSet(R)
  BY <1>1, FS_Subset DEF Clocks
<1>3. Restarted = {Entry(e.timer, now + Interval[e.timer]) : e \in R}
  BY <1>1 DEF Restarted
<1>4. IsFiniteSet(Restarted)
  <2>1. PICK g : g = [e \in R |-> Entry(e.timer, now + Interval[e.timer])]
    OBVIOUS
  <2>2. g \in Surjection(R, Restarted)
    BY <1>3, <2>1 DEF Surjection
  <2> QED
    BY <1>2, <2>2, FS_Surjection, Zenon
<1>5. Restarted \in SUBSET Entries
  <2>1. \A e \in R : Entry(e.timer, now + Interval[e.timer]) \in Entries
    BY <1>2, IntervalAssumption DEF TypeOK, Entries, Entry
  <2> QED
    BY <1>3, <2>1
<1> QED
  BY <1>1, <1>3, <1>4, <1>5

(* The timerfd is armed for a time that is not too late.                   *)
LEMMA ArmTypes ==
  ASSUME clock \in Nat, NEW when \in Nat, Arm(when)
  PROVE  /\ left' \in Nat /\ readable' = FALSE /\ ahead' = 0
         /\ left' \in 1 .. Max({1, when - clock})
<1>1. Max({1, when - clock}) = IF 1 >= when - clock THEN 1 ELSE when - clock
  BY MaxOfTwo
<1>2. left' = IF when > clock THEN when - clock ELSE 1
  BY Zenon DEF Arm
<1> QED
  BY <1>1, <1>2 DEF Arm

(* Types and clocks at every step.  First, adding a timer ...              *)
LEMMA AddTypes ==
  ASSUME TypeOK, Clocks, NEW e \in Entries, AddTimerInLoop(e)
  PROVE  /\ timers' \in SUBSET Entries /\ IsFiniteSet(timers')
         /\ left' \in Nat /\ readable' \in BOOLEAN /\ ahead' \in Nat
<1>1. timers' = timers \cup {e}
  BY DEF AddTimerInLoop, Insert
<1>2. IsFiniteSet(timers')
  BY <1>1, FS_AddElement DEF TypeOK
<1>3. e.when \in Nat /\ clock \in Nat
  BY DEF TypeOK, Entries
<1>4. CASE timers = {} \/ e.when < Earliest(timers)
  <2>1. Arm(e.when)
    BY <1>4, Zenon DEF AddTimerInLoop
  <2>2. left' \in Nat /\ readable' = FALSE /\ ahead' = 0
    BY <1>3, <2>1, ArmTypes
  <2> QED
    BY <1>1, <1>2, <2>2 DEF TypeOK
<1>5. CASE ~(timers = {} \/ e.when < Earliest(timers))
  <2>1. UNCHANGED fd
    BY <1>5, Zenon DEF AddTimerInLoop
  <2> QED
    BY <1>1, <1>2, <2>1 DEF fd, TypeOK
<1> QED
  BY <1>4, <1>5

(* ... and reset.                                                          *)
LEMMA ResetTypes ==
  ASSUME TypeOK, Clocks, Reset
  PROVE  /\ timers' \in SUBSET Entries /\ IsFiniteSet(timers')
         /\ left' \in Nat /\ readable' \in BOOLEAN /\ ahead' \in Nat
<1>1. timers' = timers \cup Restarted
  BY DEF Reset
<1>2. IsFiniteSet(timers') /\ timers' \in SUBSET Entries
  BY <1>1, RestartedTypes, FS_Union DEF TypeOK
<1>3. PICK T : /\ T = timers'
              /\ IF T # {} /\ Earliest(T) > 0 THEN Arm(Earliest(T)) ELSE UNCHANGED fd
  BY Zenon DEF Reset
<1>4. CASE T # {} /\ Earliest(T) > 0
  <2>1. Arm(Earliest(T))
    BY <1>3, <1>4, Zenon
  <2>2. Earliest(T) \in Nat
    BY <1>2, <1>3, <1>4, EarliestIs
  <2>3. left' \in Nat /\ readable' = FALSE /\ ahead' = 0
    BY <2>1, <2>2, ArmTypes DEF TypeOK
  <2> QED
    BY <1>2, <2>3
<1>5. CASE ~(T # {} /\ Earliest(T) > 0)
  <2>1. UNCHANGED fd
    BY <1>3, <1>5, Zenon
  <2> QED
    BY <1>2, <2>1 DEF fd, TypeOK
<1> QED
  BY <1>4, <1>5

(* The wall clock goes on or is set.                                       *)
LEMMA ShowsTypes ==
  ASSUME TypeOK, Clocks, NEW time \in 1 .. MaxTime, Shows(time)
  PROVE  /\ clock' = time /\ seen' \in Nat
         /\ clock' <= seen' /\ seen <= seen' /\ (seen' = seen \/ seen' > seen)
<1>1. MaxTime \in Nat /\ time \in Nat /\ seen \in Nat
  BY BoundsAssumption DEF TypeOK
<1>2. seen' = IF seen >= time THEN seen ELSE time
  BY <1>1, MaxOfTwo DEF Shows
<1> QED
  BY <1>1, <1>2 DEF Shows

(* The next time that the wall clock shows.                                *)
LEMMA TickShows ==
  ASSUME TypeOK, Clocks
  PROVE  /\ Min({clock + 1, MaxTime}) \in 1 .. MaxTime
         /\ Min({clock + 1, MaxTime}) \in {clock, clock + 1}
<1>1. MaxTime \in Nat /\ clock \in 1 .. MaxTime
  BY BoundsAssumption DEF Clocks
<1>2. Min({clock + 1, MaxTime}) = IF clock + 1 <= MaxTime THEN clock + 1 ELSE MaxTime
  BY <1>1, MinOfTwo
<1> QED
  BY <1>1, <1>2

(* Every step keeps the types and the clocks.                              *)
LEMMA TypeStep ==
  ASSUME TypeOK, Clocks, [Next]_vars
  PROVE  TypeOK' /\ Clocks'
<1> USE BoundsAssumption
<1>1. ASSUME NEW t \in Timer, NEW when \in 0 .. MaxTime, AddFromThread(t, when)
      PROVE  TypeOK' /\ Clocks'
  <2>1. Entry(t, when) \in Entries
    BY DEF Entry, Entries
  <2>2. requests' \in Seq(Entries)
    BY <1>1, <2>1 DEF AddFromThread, TypeOK
  <2> QED
    BY <1>1, <2>2 DEF AddFromThread, TypeOK, Clocks, fd, handler, world
<1>2. ASSUME NEW t \in Timer, NEW when \in 0 .. MaxTime, AddFromLoop(t, when)
      PROVE  TypeOK' /\ Clocks'
  <2>1. Entry(t, when) \in Entries
    BY DEF Entry, Entries
  <2>2. AddTimerInLoop(Entry(t, when)) /\ UNCHANGED <<lpc, handler, requests, world, runs>>
    BY <1>2 DEF AddFromLoop
  <2>3. PICK e \in Entries : e = Entry(t, when)
    BY <2>1
  <2>4. /\ timers' \in SUBSET Entries /\ IsFiniteSet(timers')
        /\ left' \in Nat /\ readable' \in BOOLEAN /\ ahead' \in Nat
    BY <2>1, <2>2, AddTypes, Zenon
  <2> QED
    BY <2>2, <2>4 DEF TypeOK, Clocks, handler, world
<1>3. CASE RunRequest
  <2>1. requests # << >> /\ AddTimerInLoop(Head(requests))
        /\ requests' = Tail(requests) /\ UNCHANGED <<lpc, handler, world, runs>>
    BY <1>3 DEF RunRequest
  <2>2. Head(requests) \in Entries /\ requests' \in Seq(Entries)
    BY <2>1 DEF TypeOK
  <2>3. /\ timers' \in SUBSET Entries /\ IsFiniteSet(timers')
        /\ left' \in Nat /\ readable' \in BOOLEAN /\ ahead' \in Nat
    BY <2>1, <2>2, AddTypes, Zenon
  <2> QED
    BY <2>1, <2>2, <2>3 DEF TypeOK, Clocks, handler, world
<1>4. CASE Poll
  BY <1>4 DEF Poll, TypeOK, Clocks, fd, handler, world
<1>5. CASE TakeTime
  BY <1>5 DEF TakeTime, TypeOK, Clocks, fd, world
<1>6. CASE ReadTimerfd
  <2>1. GetExpired \subseteq timers /\ \A e \in GetExpired : e.when <= now
    BY DEF GetExpired
  <2>2. IsFiniteSet(batch') /\ IsFiniteSet(timers')
    BY <1>6, <2>1, FS_Subset DEF ReadTimerfd, TypeOK
  <2> QED
    BY <1>6, <2>1, <2>2 DEF ReadTimerfd, TypeOK, Clocks, world
<1>7. ASSUME NEW e \in batch, RunTimer(e)
      PROVE  TypeOK' /\ Clocks'
  <2>1. e \in Entries /\ e.timer \in Timer
    BY DEF TypeOK, Entries
  <2>2. runs' \in [Timer -> Nat]
    BY <1>7, <2>1 DEF RunTimer, TypeOK
  <2>3. IsFiniteSet(batch') /\ IsFiniteSet(called')
    BY <1>7, FS_AddElement, FS_RemoveElement DEF RunTimer, Clocks
  <2>4. batch' \subseteq batch /\ called' \in SUBSET Entries
    BY <1>7, <2>1 DEF RunTimer, TypeOK
  <2> QED
    BY <1>7, <2>2, <2>3, <2>4 DEF RunTimer, TypeOK, Clocks, fd, world
<1>8. CASE Reset
  <2>1. /\ timers' \in SUBSET Entries /\ IsFiniteSet(timers')
        /\ left' \in Nat /\ readable' \in BOOLEAN /\ ahead' \in Nat
    BY <1>8, ResetTypes
  <2>2. /\ batch = {} /\ batch' = {} /\ called' = {} /\ lpc' = "idle"
        /\ UNCHANGED <<now, requests, world, runs>>
    BY <1>8, Zenon DEF Reset
  <2>3. IsFiniteSet({})
    BY FS_EmptySet
  <2> QED
    BY <2>1, <2>2, <2>3 DEF TypeOK, Clocks, world
<1>9. CASE Tick
  <2>1. PICK time \in 1 .. MaxTime : Shows(time)
    BY <1>9, TickShows DEF Tick
  <2>2. /\ clock' = time /\ seen' \in Nat /\ clock' <= seen' /\ seen <= seen'
    BY <2>1, ShowsTypes
  <2>3. left' \in Nat /\ readable' \in BOOLEAN
        /\ UNCHANGED <<timers, lpc, handler, requests, ahead, steps, runs>>
    BY <1>9 DEF Tick, TypeOK
  <2> QED
    BY <2>2, <2>3 DEF TypeOK, Clocks, handler
<1>10. ASSUME NEW time \in 1 .. MaxTime, SetClock(time)
       PROVE  TypeOK' /\ Clocks'
  <2>1. Shows(time)
    BY <1>10 DEF SetClock
  <2>2. /\ clock' = time /\ seen' \in Nat /\ clock' <= seen' /\ seen <= seen'
    BY <2>1, ShowsTypes
  <2>3. ahead' \in Nat /\ steps' \in Nat
        /\ UNCHANGED <<timers, left, readable, lpc, handler, requests, runs>>
    BY <1>10 DEF SetClock, TypeOK
  <2> QED
    BY <2>2, <2>3 DEF TypeOK, Clocks, handler
<1>11. CASE UNCHANGED vars
  BY <1>11 DEF vars, TypeOK, Clocks, fd, handler, world
<1> QED
  BY <1>1, <1>2, <1>3, <1>4, <1>5, <1>6, <1>7, <1>8, <1>9, <1>10, <1>11, Zenon DEF Next

(* Type correctness, and the clocks.                                       *)
LEMMA TypesAndClocks == Spec => [](TypeOK /\ Clocks)
<1>1. Init => TypeOK /\ Clocks
  <2>1. IsFiniteSet({}) /\ << >> \in Seq(Entries)
    BY FS_EmptySet
  <2> SUFFICES ASSUME Init
               PROVE  TypeOK /\ Clocks
    OBVIOUS
  <2>2. TypeOK
    BY <2>1 DEF Init, TypeOK
  <2>3. Clocks
    BY <2>1, BoundsAssumption DEF Init, Clocks
  <2> QED
    BY <2>2, <2>3
<1>2. TypeOK /\ Clocks /\ [Next]_vars => (TypeOK /\ Clocks)'
  BY TypeStep
<1> QED
  BY <1>1, <1>2, PTL DEF Spec

(* TypeOK, of TimerQueue: also that nothing that expired is left over when *)
(* handleRead returns.                                                     *)
THEOREM TypeCorrect == Spec => []TypeOK
  BY TypesAndClocks, PTL
-----------------------------------------------------------------------------
(* A timer of time 0, which reset does not arm the timerfd for, was added  *)
(* by another timer of the same round, and that has armed it.              *)
TimeZero ==
    lpc = "run" /\ timers # {} /\ Earliest(timers) = 0 => readable \/ left = 1

(* What it means to be armed in time for a timer that is x ticks away.     *)
LEMMA InTime ==
  ASSUME NEW n \in Int, NEW x \in Int
  PROVE  n \in 1 .. Max({1, x}) <=> n = 1 \/ (1 <= n /\ n <= x)
<1>1. Max({1, x}) = IF 1 >= x THEN 1 ELSE x
  BY MaxOfTwo
<1> QED
  BY <1>1

(* addTimerInLoop arms the timerfd for a timer that is the first.          *)
LEMMA AddArms ==
  ASSUME TypeOK, Clocks, NEW e \in Entries, AddTimerInLoop(e),
         UNCHANGED <<lpc, clock>>, ArmedInTime, TimeZero
  PROVE  ArmedInTime' /\ TimeZero'
<1>1. PICK T : T = timers'
  OBVIOUS
<1>2. T = timers \cup {e} /\ T # {} /\ T \in SUBSET Entries /\ e.when \in Nat
  BY <1>1 DEF AddTimerInLoop, Insert, TypeOK, Entries
<1>3. /\ Earliest(T) \in Nat /\ (\E f \in T : f.when = Earliest(T))
      /\ \A f \in T : Earliest(T) <= f.when
  BY <1>2, EarliestIs
<1>4. timers # {} => /\ Earliest(timers) \in Nat
                     /\ \E f \in timers : f.when = Earliest(timers)
                     /\ \A f \in timers : Earliest(timers) <= f.when
  BY EarliestIs DEF TypeOK
<1>5. CASE timers = {} \/ e.when < Earliest(timers)
  <2>1. Arm(e.when)
    BY <1>5, Zenon DEF AddTimerInLoop
  <2>2. /\ readable' = FALSE /\ ahead' = 0
        /\ left' \in 1 .. Max({1, e.when - clock})
    BY <1>2, <2>1, ArmTypes DEF TypeOK
  <2>3. Earliest(T) = e.when
    BY <1>2, <1>3, <1>4, <1>5
  <2>4. clock \in Nat /\ clock' = clock /\ lpc' = lpc
    BY DEF TypeOK
  <2>5. e.when - clock' + ahead' = e.when - clock
    BY <1>2, <2>2, <2>4
  <2>6. ArmedInTime'
    BY <1>1, <2>2, <2>3, <2>5 DEF ArmedInTime
  <2>7. Max({1, e.when - clock}) = IF 1 >= e.when - clock THEN 1 ELSE e.when - clock
    BY <1>2, <2>4, MaxOfTwo
  <2>8. e.when = 0 => left' = 1
    BY <2>2, <2>4, <2>7
  <2>9. TimeZero'
    BY <1>1, <2>3, <2>8 DEF TimeZero
  <2> QED
    BY <2>6, <2>9
<1>6. CASE ~(timers = {} \/ e.when < Earliest(timers))
  <2>1. UNCHANGED fd
    BY <1>6, Zenon DEF AddTimerInLoop
  <2>2. Earliest(T) = Earliest(timers)
    BY <1>2, <1>3, <1>4, <1>6
  <2> QED
    BY <1>1, <1>6, <2>1, <2>2 DEF ArmedInTime, TimeZero, fd
<1> QED
  BY <1>5, <1>6

(* reset arms the timerfd for what is left and what begins again.          *)
LEMMA ResetArms ==
  ASSUME TypeOK, Clocks, Reset, TimeZero
  PROVE  ArmedInTime' /\ TimeZero'
<1>1. PICK T : /\ T = timers' /\ T = timers \cup Restarted
               /\ IF T # {} /\ Earliest(T) > 0 THEN Arm(Earliest(T)) ELSE UNCHANGED fd
  BY Zenon DEF Reset
<1>2. T \in SUBSET Entries /\ lpc = "run" /\ lpc' = "idle" /\ UNCHANGED world
  <2>1. T \in SUBSET Entries
    BY <1>1, RestartedTypes DEF TypeOK
  <2>2. lpc = "run" /\ lpc' = "idle" /\ UNCHANGED world
    BY Zenon DEF Reset
  <2> QED
    BY <2>1, <2>2
<1>3. TimeZero'
  BY <1>2 DEF TimeZero
<1>4. CASE T = {}
  BY <1>1, <1>3, <1>4 DEF ArmedInTime
<1>5. CASE T # {} /\ Earliest(T) > 0
  <2>1. Arm(Earliest(T))
    BY <1>1, <1>5, Zenon
  <2>2. Earliest(T) \in Nat /\ clock \in Nat /\ clock' = clock
    BY <1>2, <1>5, EarliestIs DEF TypeOK, world
  <2>3. /\ readable' = FALSE /\ ahead' = 0
        /\ left' \in 1 .. Max({1, Earliest(T) - clock})
    BY <2>1, <2>2, ArmTypes
  <2>4. Earliest(T) - clock' + ahead' = Earliest(T) - clock
    BY <2>2, <2>3
  <2> QED
    BY <1>1, <1>3, <2>3, <2>4 DEF ArmedInTime
<1>6. CASE T # {} /\ ~(Earliest(T) > 0)
  <2>1. UNCHANGED <<left, readable, ahead, clock>>
    BY <1>1, <1>2, <1>6, Zenon DEF fd, world
  <2>2. Earliest(T) = 0
    BY <1>2, <1>6, EarliestIs
  <2>3. PICK e \in T : e.when = 0
    BY <1>2, <1>6, <2>2, EarliestIs
  <2>4. e \in timers
    <3>1. \A x \in Restarted : x.when >= 1
      <4>1. ASSUME NEW f \in called, Repeats(f.timer)
            PROVE  Entry(f.timer, now + Interval[f.timer]).when >= 1
        <5>1. now \in Nat /\ now >= 1 /\ Interval[f.timer] \in Nat
          BY <1>2, IntervalAssumption DEF Clocks, TypeOK, Entries
        <5> QED
          BY <5>1 DEF Entry
      <4> QED
        BY <4>1, RestartedTypes
    <3> QED
      BY <1>1, <2>3, <3>1
  <2>5. Earliest(timers) = 0
    <3>1. /\ Earliest(timers) \in Nat
          /\ \A f \in timers : Earliest(timers) <= f.when
      BY <2>4, EarliestIs DEF TypeOK
    <3> QED
      BY <2>3, <2>4, <3>1
  <2>6. readable \/ left = 1
    BY <1>2, <2>4, <2>5 DEF TimeZero
  <2>7. 1 <= Max({1, Earliest(T) - clock + ahead})
    BY <2>2, MaxOfTwo DEF TypeOK
  <2> QED
    BY <1>1, <1>3, <2>1, <2>6, <2>7 DEF ArmedInTime
<1> QED
  BY <1>3, <1>4, <1>5, <1>6

(* Time goes on: the timerfd and the wall clock alike.                     *)
LEMMA TickArmed ==
  ASSUME TypeOK, Clocks, Tick, ArmedInTime, TimeZero
  PROVE  ArmedInTime' /\ TimeZero'
<1>1. /\ UNCHANGED <<timers, lpc, ahead>>
      /\ left' = IF left > 0 THEN left - 1 ELSE 0
      /\ readable' = (readable \/ left = 1)
  BY DEF Tick
<1>2. /\ clock \in Nat /\ left \in Nat /\ ahead \in Nat
      /\ clock' \in Nat /\ (clock' = clock \/ clock' = clock + 1)
  <2>1. clock' = Min({clock + 1, MaxTime})
    BY Zenon DEF Tick, Shows
  <2>2. clock' = clock \/ clock' = clock + 1
    BY <2>1, TickShows, Zenon
  <2> QED
    BY <2>2 DEF TypeOK
<1>3. TimeZero'
  BY <1>1, <1>2 DEF TimeZero
<1>4. ASSUME lpc = "idle", timers # {}, ~readable'
      PROVE  left' \in 1 .. Max({1, Earliest(timers) - clock' + ahead})
  <2>1. PICK w \in Nat : w = Earliest(timers)
    BY <1>4, EarliestIs DEF TypeOK
  <2>2. PICK x \in Int : x = w - clock + ahead
    BY <1>2
  <2>c. PICK c \in Nat : c = clock' /\ (c = clock \/ c = clock + 1)
    BY <1>2
  <2>3. PICK y \in Int : y = w - c + ahead
    BY <1>2
  <2>4. ~readable /\ left # 1
    BY <1>1, <1>4, Zenon
  <2>5. left \in 1 .. Max({1, x})
    BY <1>4, <2>1, <2>2, <2>4 DEF ArmedInTime
  <2>6. 1 <= left /\ left <= x
    BY <1>2, <2>4, <2>5, InTime
  <2>7. y >= x - 1
    <3>1. CASE c = clock
      BY <1>2, <2>2, <2>3, <3>1
    <3>2. CASE c = clock + 1
      BY <1>2, <2>2, <2>3, <3>2
    <3> QED
      BY <2>c, <3>1, <3>2
  <2>8. left' = left - 1
    <3>1. left > 0
      BY <1>2, <2>6
    <3> QED
      BY <1>1, <3>1, Zenon
  <2>9. left' \in Int /\ 1 <= left' /\ left' <= y
    BY <1>2, <2>4, <2>6, <2>7, <2>8
  <2>10. left' \in 1 .. Max({1, y})
    BY <2>9, InTime
  <2> QED
    BY <2>1, <2>c, <2>3, <2>10
<1>5. ArmedInTime'
  BY <1>1, <1>4 DEF ArmedInTime
<1> QED
  BY <1>3, <1>5

(* The wall clock is set: forward, and the timerfd is late by as much; or  *)
(* back, and it is early.                                                  *)
LEMMA SetClockArmed ==
  ASSUME TypeOK, Clocks, NEW time \in 1 .. MaxTime, SetClock(time),
         ArmedInTime, TimeZero
  PROVE  ArmedInTime' /\ TimeZero'
<1>1. /\ UNCHANGED <<timers, left, readable, lpc>>
      /\ clock' = time
      /\ ahead' = IF time > clock THEN ahead + (time - clock) ELSE ahead
  BY DEF SetClock, Shows
<1>2. clock \in Nat /\ time \in Nat /\ left \in Nat /\ ahead \in Nat
  BY BoundsAssumption DEF TypeOK
<1>3. TimeZero'
  BY <1>1 DEF TimeZero
<1>4. ASSUME lpc = "idle", timers # {}, ~readable
      PROVE  left \in 1 .. Max({1, Earliest(timers) - clock' + ahead'})
  <2>1. PICK w \in Nat : w = Earliest(timers)
    BY <1>4, EarliestIs DEF TypeOK
  <2>2. PICK x \in Int : x = w - clock + ahead
    BY <1>2
  <2>3. ahead' \in Int /\ (ahead' = ahead \/ ahead' = ahead + (time - clock))
        /\ ahead' - time >= ahead - clock
    BY <1>1, <1>2
  <2>4. PICK y \in Int : y = w - clock' + ahead' /\ y >= x
    BY <1>1, <1>2, <2>2, <2>3
  <2>5. left \in 1 .. Max({1, x})
    BY <1>4, <2>1, <2>2 DEF ArmedInTime
  <2>6. left = 1 \/ (1 <= left /\ left <= y)
    BY <1>2, <2>4, <2>5, InTime
  <2>7. left \in 1 .. Max({1, y})
    BY <1>2, <2>6, InTime
  <2> QED
    BY <2>1, <2>4, <2>7
<1>5. ArmedInTime'
  BY <1>1, <1>4 DEF ArmedInTime
<1> QED
  BY <1>3, <1>5

(* What is left in the queue by readTimerfd is later than now, and hence   *)
(* later than time 0.                                                      *)
LEMMA ReadLeavesNoZero ==
  ASSUME TypeOK, Clocks, ReadTimerfd
  PROVE  ArmedInTime' /\ TimeZero'
<1>1. PICK T : T = timers' /\ T = timers \ GetExpired
  BY Zenon DEF ReadTimerfd
<1>2. lpc = "read" /\ lpc' = "run"
  BY Zenon DEF ReadTimerfd
<1>3. T \in SUBSET Entries /\ now \in Nat /\ now >= 1
  BY <1>1, <1>2 DEF TypeOK, Clocks
<1>4. \A e \in T : e.when \in Nat /\ e.when # 0
  BY <1>1, <1>3 DEF GetExpired, Entries
<1>5. T # {} => Earliest(T) # 0
  BY <1>3, <1>4, EarliestIs
<1> QED
  BY <1>1, <1>2, <1>5 DEF ArmedInTime, TimeZero

(* Every step leaves the timerfd armed in time.                            *)
LEMMA ArmedStep ==
  ASSUME TypeOK, Clocks, [Next]_vars, ArmedInTime, TimeZero
  PROVE  ArmedInTime' /\ TimeZero'
<1>1. ASSUME NEW t \in Timer, NEW when \in 0 .. MaxTime, AddFromThread(t, when)
      PROVE  ArmedInTime' /\ TimeZero'
  BY <1>1 DEF AddFromThread, ArmedInTime, TimeZero, fd, world
<1>2. ASSUME NEW t \in Timer, NEW when \in 0 .. MaxTime, AddFromLoop(t, when)
      PROVE  ArmedInTime' /\ TimeZero'
  <2>1. Entry(t, when) \in Entries
    BY BoundsAssumption DEF Entry, Entries
  <2>2. AddTimerInLoop(Entry(t, when)) /\ UNCHANGED <<lpc, clock>>
    BY <1>2, Zenon DEF AddFromLoop, world
  <2> QED
    BY <2>1, <2>2, AddArms, Zenon
<1>3. CASE RunRequest
  <2>1. requests # << >> /\ AddTimerInLoop(Head(requests)) /\ UNCHANGED <<lpc, clock>>
    BY <1>3, Zenon DEF RunRequest, world
  <2>2. Head(requests) \in Entries
    BY <2>1 DEF TypeOK
  <2> QED
    BY <2>1, <2>2, AddArms, Zenon
<1>4. CASE Poll
  BY <1>4, Zenon DEF Poll, ArmedInTime, TimeZero
<1>5. CASE TakeTime
  BY <1>5, Zenon DEF TakeTime, ArmedInTime, TimeZero
<1>6. CASE ReadTimerfd
  BY <1>6, ReadLeavesNoZero
<1>7. ASSUME NEW e \in batch, RunTimer(e)
      PROVE  ArmedInTime' /\ TimeZero'
  <2>1. lpc = "run" /\ UNCHANGED <<timers, left, readable, lpc>>
    BY <1>7, Zenon DEF RunTimer, fd
  <2> QED
    BY <2>1 DEF ArmedInTime, TimeZero
<1>8. CASE Reset
  BY <1>8, ResetArms
<1>9. CASE Tick
  BY <1>9, TickArmed
<1>10. ASSUME NEW time \in 1 .. MaxTime, SetClock(time)
       PROVE  ArmedInTime' /\ TimeZero'
  BY <1>10, SetClockArmed
<1>11. CASE UNCHANGED vars
  BY <1>11 DEF vars, ArmedInTime, TimeZero, fd, world
<1> QED
  BY <1>1, <1>2, <1>3, <1>4, <1>5, <1>6, <1>7, <1>8, <1>9, <1>10, <1>11, Zenon DEF Next

(* ArmedInTime, of TimerQueue::addTimerInLoop, handleRead and reset: when  *)
(* the loop goes to wait and there is a timer, the timerfd has fired or    *)
(* fires no later than the first timer is due, but for what the wall clock *)
(* was set forward since it was armed.                                     *)
THEOREM TimerfdIsArmedInTime == Spec => []ArmedInTime
<1>1. Init => ArmedInTime /\ TimeZero
  BY DEF Init, ArmedInTime, TimeZero
<1>2. /\ TypeOK /\ Clocks /\ ArmedInTime /\ TimeZero /\ [Next]_vars
      => (ArmedInTime /\ TimeZero)'
  BY ArmedStep
<1> QED
  BY <1>1, <1>2, TypesAndClocks, PTL DEF Spec
-----------------------------------------------------------------------------
(* That the queue implements the service.  A timer is in one place at a    *)
(* time: T is the queue, B what expired, C what was called, and A what     *)
(* other threads have asked for.                                           *)
Places(T, B, C, A) ==
    /\ \A e, f \in T \cup B \cup C \cup A : e.timer = f.timer => e = f
    /\ \A e \in T : e \notin B /\ e \notin C /\ e \notin A
    /\ \A e \in B : e \notin C /\ e \notin A
    /\ \A e \in C : e \notin A

OnePlace ==
    /\ Places(timers, batch, called, Range(requests))
    /\ IsInjective(requests)
    /\ \A e \in called : runs[e.timer] > 0

(* The timers that are known, in terms of the places.                      *)
LEMMA KnownIs ==
  Known = timers \cup batch \cup Restarted \cup Range(requests)
BY DEF Known, Range

(* A fresh timer is in no place.                                           *)
LEMMA FreshIsNowhere ==
  ASSUME TypeOK, OnePlace, NEW t \in Timer, Fresh(t)
  PROVE  \A e \in timers \cup batch \cup called \cup Range(requests) : e.timer # t
<1>1. runs[t] = 0 /\ \A e \in Known : e.timer # t
  BY DEF Fresh, Due
<1>2. \A e \in called : e.timer # t
  BY <1>1 DEF OnePlace
<1> QED
  BY <1>1, <1>2, KnownIs

(* A new timer in the queue, or among what was asked for.                  *)
LEMMA PlaceForNew ==
  ASSUME NEW T, NEW B, NEW C, NEW A, Places(T, B, C, A), NEW x,
         \A e \in T \cup B \cup C \cup A : e.timer # x.timer
  PROVE  Places(T \cup {x}, B, C, A) /\ Places(T, B, C, A \cup {x})
<1>1. Places(T \cup {x}, B, C, A)
  BY DEF Places
<1>2. Places(T, B, C, A \cup {x})
  BY DEF Places
<1> QED
  BY <1>1, <1>2

(* What is called again is in no other place.                              *)
LEMMA PlaceForRestarted ==
  ASSUME TypeOK, Clocks, OnePlace, batch = {}
  PROVE  Places(timers \cup Restarted, {}, {}, Range(requests))
<1>1. PICK T, C, A, R : T = timers /\ C = called /\ A = Range(requests) /\ R = Restarted
  OBVIOUS
<1>2. Places(T, {}, C, A)
  BY <1>1 DEF OnePlace
<1>3. \A x \in R : \E e \in C : x = Entry(e.timer, now + Interval[e.timer])
  BY <1>1, RestartedTypes
<1>4. \A x \in R : \E e \in C : x.timer = e.timer
  BY <1>3 DEF Entry
<1>5. \A x, y \in R : x.timer = y.timer => x = y
  <2>1. ASSUME NEW x \in R, NEW y \in R, x.timer = y.timer
        PROVE  x = y
    <3>1. PICK e \in C : x = Entry(e.timer, now + Interval[e.timer])
      BY <1>3
    <3>2. PICK f \in C : y = Entry(f.timer, now + Interval[f.timer])
      BY <1>3
    <3>3. e.timer = f.timer
      BY <2>1, <3>1, <3>2 DEF Entry
    <3> QED
      BY <3>1, <3>2, <3>3
  <2> QED
    BY <2>1
<1>6. \A x \in R, y \in T \cup A : x.timer # y.timer
  <2>1. ASSUME NEW x \in R, NEW y \in T \cup A, x.timer = y.timer
        PROVE  FALSE
    <3>1. PICK e \in C : x.timer = e.timer
      BY <1>4
    <3>2. e = y
      BY <1>2, <2>1, <3>1 DEF Places
    <3> QED
      BY <1>2, <3>2 DEF Places
  <2> QED
    BY <2>1
<1>7. Places(T \cup R, {}, {}, A)
  BY <1>2, <1>5, <1>6 DEF Places
<1> QED
  BY <1>1, <1>7

(* An entry has its timer and its time.                                    *)
LEMMA EntryIs ==
  ASSUME NEW t \in Timer, NEW when \in Nat
  PROVE  /\ Entry(t, when) \in Entries
         /\ Entry(t, when).timer = t /\ Entry(t, when).when = when
BY DEF Entry, Entries

(* The steps that add a timer to what is known: addTimer by another        *)
(* thread ...                                                              *)
LEMMA AddedFromThread ==
  ASSUME TypeOK, Clocks, OnePlace,
         NEW t \in Timer, NEW when \in 0 .. MaxTime, AddFromThread(t, when)
  PROVE  OnePlace' /\ Known' = Known \cup {Entry(t, when)}
<1>1. PICK x \in Entries : x = Entry(t, when) /\ x.timer = t
  BY BoundsAssumption, EntryIs
<1>2. /\ Fresh(t) /\ requests' = Append(requests, x)
      /\ UNCHANGED <<timers, batch, called, now, runs>>
  BY <1>1, Zenon DEF AddFromThread, handler
<1>3. \A e \in timers \cup batch \cup called \cup Range(requests) : e.timer # x.timer
  BY <1>1, <1>2, FreshIsNowhere
<1>4. requests \in Seq(Entries) /\ IsInjective(requests) /\ x \notin Range(requests)
  BY <1>3 DEF TypeOK, OnePlace
<1>5. Range(requests') = Range(requests) \cup {x} /\ IsInjective(requests')
  BY <1>2, <1>4, RangeOfAppend, AppendDistinct
<1>6. Places(timers, batch, called, Range(requests) \cup {x})
  BY <1>3, PlaceForNew DEF OnePlace
<1>7. OnePlace'
  BY <1>2, <1>5, <1>6 DEF OnePlace
<1>8. Restarted' = Restarted
  BY <1>2 DEF Restarted
<1>9. Known' = timers' \cup batch' \cup Restarted' \cup Range(requests')
  BY DEF Known, Range
<1> QED
  BY <1>1, <1>2, <1>5, <1>7, <1>8, <1>9, KnownIs

(* ... and by the loop's own.                                              *)
LEMMA AddedFromLoop ==
  ASSUME TypeOK, Clocks, OnePlace,
         NEW t \in Timer, NEW when \in 0 .. MaxTime, AddFromLoop(t, when)
  PROVE  OnePlace' /\ Known' = Known \cup {Entry(t, when)}
<1>1. PICK x \in Entries : x = Entry(t, when) /\ x.timer = t
  BY BoundsAssumption, EntryIs
<1>2. /\ Fresh(t) /\ timers' = timers \cup {x}
      /\ UNCHANGED <<requests, batch, called, now, runs>>
  BY <1>1, Zenon DEF AddFromLoop, AddTimerInLoop, Insert, handler
<1>3. \A e \in timers \cup batch \cup called \cup Range(requests) : e.timer # x.timer
  BY <1>1, <1>2, FreshIsNowhere
<1>4. Places(timers \cup {x}, batch, called, Range(requests))
  BY <1>3, PlaceForNew DEF OnePlace
<1>5. OnePlace'
  BY <1>2, <1>4 DEF OnePlace
<1>6. Restarted' = Restarted
  BY <1>2 DEF Restarted
<1>7. Known' = timers' \cup batch' \cup Restarted' \cup Range(requests')
  BY DEF Known, Range
<1> QED
  BY <1>1, <1>2, <1>5, <1>6, <1>7, KnownIs

(* The steps that move timers from place to place: what is known remains.  *)
(* The functor of addTimer ...                                             *)
LEMMA MovedByRequest ==
  ASSUME TypeOK, Clocks, OnePlace, RunRequest
  PROVE  OnePlace' /\ Known' = Known
<1>1. PICK x : x = Head(requests)
  OBVIOUS
<1>2. /\ requests # << >> /\ timers' = timers \cup {x} /\ requests' = Tail(requests)
      /\ UNCHANGED <<batch, called, now, runs>>
  BY <1>1, Zenon DEF RunRequest, AddTimerInLoop, Insert, handler
<1>3. /\ IsInjective(requests') /\ x \notin Range(requests')
      /\ Range(requests) = {x} \cup Range(requests')
  BY <1>1, <1>2, TailDistinct DEF TypeOK, OnePlace
<1>4. PICK T, B, C, A, D : /\ T = timers /\ B = batch /\ C = called
                           /\ A = Range(requests) /\ D = Range(requests')
  OBVIOUS
<1>5. Places(T, B, C, A) /\ A = {x} \cup D /\ x \notin D
  BY <1>3, <1>4 DEF OnePlace
<1>6. Places(T \cup {x}, B, C, D)
  BY <1>5 DEF Places
<1>7. OnePlace'
  BY <1>2, <1>3, <1>4, <1>6 DEF OnePlace
<1>8. Restarted' = Restarted
  BY <1>2 DEF Restarted
<1>9. Known' = timers' \cup batch' \cup Restarted' \cup Range(requests')
  BY DEF Known, Range
<1> QED
  BY <1>2, <1>3, <1>7, <1>8, <1>9, KnownIs

(* ... getExpired ...                                                      *)
LEMMA MovedByRead ==
  ASSUME TypeOK, Clocks, OnePlace, ReadTimerfd
  PROVE  OnePlace' /\ Known' = Known
<1>1. PICK G : G = GetExpired /\ G \subseteq timers
  BY DEF GetExpired
<1>2. /\ lpc = "read" /\ batch' = G /\ timers' = timers \ G
      /\ UNCHANGED <<requests, called, now, runs>>
  BY <1>1, Zenon DEF ReadTimerfd
<1>3. batch = {} /\ called = {}
  BY <1>2 DEF TypeOK
<1>4. PICK T, C, A : T = timers /\ C = called /\ A = Range(requests)
  OBVIOUS
<1>5. Places(T, {}, C, A) /\ G \subseteq T
  BY <1>1, <1>3, <1>4 DEF OnePlace
<1>6. Places(T \ G, G, C, A)
  BY <1>5 DEF Places
<1>7. OnePlace'
  BY <1>2, <1>4, <1>6 DEF OnePlace
<1>8. Restarted' = Restarted
  BY <1>2 DEF Restarted
<1>9. Known' = timers' \cup batch' \cup Restarted' \cup Range(requests')
  BY DEF Known, Range
<1> QED
  BY <1>1, <1>2, <1>3, <1>7, <1>8, <1>9, KnownIs

(* ... and reset.                                                          *)
LEMMA MovedByReset ==
  ASSUME TypeOK, Clocks, OnePlace, Reset
  PROVE  OnePlace' /\ Known' = Known
<1>1. /\ batch = {} /\ timers' = timers \cup Restarted /\ called' = {}
      /\ UNCHANGED <<now, batch, requests, runs>>
  BY Zenon DEF Reset
<1>2. Places(timers \cup Restarted, {}, {}, Range(requests))
  BY <1>1, PlaceForRestarted
<1>3. OnePlace'
  BY <1>1, <1>2 DEF OnePlace
<1>4. Restarted' = {}
  BY <1>1 DEF Restarted
<1>5. Known' = timers' \cup batch' \cup Restarted' \cup Range(requests')
  BY DEF Known, Range
<1> QED
  BY <1>1, <1>3, <1>4, <1>5, KnownIs

(* Steps that move no timer.                                               *)
LEMMA Unmoved ==
  ASSUME TypeOK, OnePlace,
         UNCHANGED <<timers, batch, called, requests, runs>>,
         now' = now \/ lpc # "run"
  PROVE  OnePlace' /\ Known' = Known
<1>1. OnePlace'
  BY DEF OnePlace
<1>2. Restarted' = Restarted
  <2>1. CASE now' = now
    BY <2>1 DEF Restarted
  <2>2. CASE lpc # "run"
    BY <2>2 DEF Restarted, TypeOK
  <2> QED
    BY <2>1, <2>2
<1>3. Known' = timers' \cup batch' \cup Restarted' \cup Range(requests')
  BY DEF Known, Range
<1> QED
  BY <1>1, <1>2, <1>3, KnownIs

(* A timer that is called was known by one time, which has come; and it is *)
(* known by the next one, if it repeats.                                   *)
LEMMA CalledMoves ==
  ASSUME TypeOK, Clocks, OnePlace, NEW e \in batch, RunTimer(e)
  PROVE  /\ OnePlace'
         /\ e \in Known /\ \A f \in Known : f.timer = e.timer => f = e
         /\ Known' = (Known \ {e}) \cup
                     IF Repeats(e.timer)
                     THEN {Entry(e.timer, now + Interval[e.timer])} ELSE {}
<1>1. /\ lpc = "run" /\ batch' = batch \ {e} /\ called' = called \cup {e}
      /\ runs' = [runs EXCEPT ![e.timer] = @ + 1]
      /\ UNCHANGED <<timers, now, requests>>
  BY Zenon DEF RunTimer
<1>2. PICK T, B, C, A, R : /\ T = timers /\ B = batch /\ C = called
                           /\ A = Range(requests) /\ R = Restarted
  OBVIOUS
<1>3. Places(T, B, C, A) /\ e \in B
  BY <1>2 DEF OnePlace
<1>4. Places(T, B \ {e}, C \cup {e}, A)
  BY <1>3 DEF Places
<1>5. e.timer \in Timer /\ \A f \in called : f.timer \in Timer
  BY DEF TypeOK, Entries
<1>6. \A f \in called' : runs'[f.timer] > 0
  BY <1>1, <1>5 DEF TypeOK, OnePlace
<1>7. OnePlace'
  BY <1>1, <1>2, <1>4, <1>6 DEF OnePlace
<1>8. \A x \in R : \E f \in C : x.timer = f.timer
  BY <1>2, RestartedTypes DEF Entry
<1>9. \A x \in R : x.timer # e.timer
  BY <1>3, <1>8 DEF Places
<1>10. \A f \in T \cup B \cup R \cup A : f.timer = e.timer => f = e
  BY <1>3, <1>9 DEF Places
<1>11. e \notin T /\ e \notin A /\ e \notin R
  BY <1>3, <1>9 DEF Places
<1>12. PICK N : N = IF Repeats(e.timer)
                    THEN {Entry(e.timer, now + Interval[e.timer])} ELSE {}
  OBVIOUS
<1>13. Restarted' = R \cup N
  <2>1. Restarted' = {Entry(f.timer, now + Interval[f.timer]) :
                         f \in {g \in called \cup {e} : Repeats(g.timer)}}
    BY <1>1 DEF Restarted, Repeats
  <2>2. CASE Repeats(e.timer)
    <3>1. {g \in called \cup {e} : Repeats(g.timer)}
             = {g \in called : Repeats(g.timer)} \cup {e}
      BY <2>2
    <3>2. N = {Entry(e.timer, now + Interval[e.timer])}
      BY <1>12, <2>2, Zenon
    <3> QED
      BY <1>2, <2>1, <3>1, <3>2 DEF Restarted
  <2>3. CASE ~Repeats(e.timer)
    <3>1. {g \in called \cup {e} : Repeats(g.timer)} = {g \in called : Repeats(g.timer)}
      BY <2>3
    <3>2. N = {}
      BY <1>12, <2>3, Zenon
    <3> QED
      BY <1>2, <2>1, <3>1, <3>2 DEF Restarted
  <2> QED
    BY <2>2, <2>3
<1>14. Known = T \cup B \cup R \cup A
  BY <1>2, KnownIs
<1>15. Known' = timers' \cup batch' \cup Restarted' \cup Range(requests')
  BY DEF Known, Range
<1>16. Known' = T \cup (B \ {e}) \cup (R \cup N) \cup A
  BY <1>1, <1>2, <1>13, <1>15
<1>17. Known' = (Known \ {e}) \cup N
  BY <1>11, <1>14, <1>16
<1> QED
  BY <1>3, <1>7, <1>10, <1>12, <1>14, <1>17, Zenon

(* What the service sees of the queue: when each timer is due.             *)
Dues == [t \in Timer |-> Due(t)]

(* Adding a timer that is fresh is AddTimer of the service.                *)
LEMMA IsAdd ==
  ASSUME NEW t \in Timer, NEW when \in Nat, Fresh(t),
         Known' = Known \cup {Entry(t, when)}, UNCHANGED <<runs, seen>>
  PROVE  Service!AddTimer(t)
<1>1. PICK K, L, x : /\ K = Known /\ L = Known' /\ L = K \cup {x} /\ x = Entry(t, when)
                     /\ x.timer = t /\ x.when = when
  BY EntryIs
<1>2. \A u \in Timer : /\ Due(u) = {e.when : e \in {f \in K : f.timer = u}}
                       /\ Due(u)' = {e.when : e \in {f \in L : f.timer = u}}
  BY <1>1 DEF Due
<1>3. ASSUME NEW u \in Timer, u # t
      PROVE  Due(u)' = Due(u)
  <2>1. {f \in L : f.timer = u} = {f \in K : f.timer = u}
    BY <1>1, <1>3
  <2> QED
    BY <1>2, <2>1
<1>4. Due(t) = {} /\ runs[t] = 0
  BY DEF Fresh
<1>5. Due(t)' = {when}
  BY <1>1, <1>2, <1>4
<1>6. Dues' = [u \in Timer |-> Due(u)']
  BY DEF Dues
<1>7. Dues' = [Dues EXCEPT ![t] = {when}]
  BY <1>3, <1>5, <1>6 DEF Dues
<1>8. Dues[t] = {} /\ Dues'[t] = {when}
  BY <1>4, <1>5, <1>6 DEF Dues
<1> QED
  BY <1>4, <1>7, <1>8, Zenon DEF Service!AddTimer, Dues

(* Calling a timer is Call of the service, with now as the beginning of    *)
(* the next period.                                                        *)
LEMMA IsCall ==
  ASSUME TypeOK, Clocks, OnePlace, NEW e \in batch, RunTimer(e)
  PROVE  e.timer \in Timer /\ Service!Call(e.timer)
<1>1. PICK t \in Timer, when \in Nat : e.timer = t /\ e.when = when
  BY DEF TypeOK, Entries
<1>2. PICK K, L, N : /\ K = Known /\ L = Known' /\ L = (K \ {e}) \cup N
                     /\ e \in K /\ (\A f \in K : f.timer = t => f = e)
                     /\ N = IF Repeats(t) THEN {Entry(t, now + Interval[t])} ELSE {}
  BY <1>1, CalledMoves, Zenon
<1>3. now \in Nat /\ when <= now /\ now <= seen /\ seen \in Nat /\ Interval[t] \in Nat
  BY <1>1, IntervalAssumption DEF Clocks, TypeOK
<1>4. \A u \in Timer : /\ Due(u) = {f.when : f \in {g \in K : g.timer = u}}
                       /\ Due(u)' = {f.when : f \in {g \in L : g.timer = u}}
  BY <1>2 DEF Due
<1>5. \A f \in N : f.timer = t
  BY <1>2, <1>3, EntryIs
<1>6. ASSUME NEW u \in Timer, u # t
      PROVE  Due(u)' = Due(u)
  <2>1. {f \in L : f.timer = u} = {f \in K : f.timer = u}
    BY <1>1, <1>2, <1>5, <1>6
  <2> QED
    BY <1>4, <2>1
<1>7. Due(t) = {when}
  BY <1>1, <1>2, <1>4
<1>8. Due(t)' = {f.when : f \in N}
  <2>1. {f \in L : f.timer = t} = N
    BY <1>2, <1>5
  <2> QED
    BY <1>4, <2>1
<1>9. Dues' = [u \in Timer |-> Due(u)'] /\ Dues = [u \in Timer |-> Due(u)]
  BY DEF Dues
<1>10. runs' = [runs EXCEPT ![t] = @ + 1] /\ seen' = seen
  BY <1>1, Zenon DEF RunTimer, world
<1>11. CASE Interval[t] = 0
  <2>1. N = {}
    BY <1>2, <1>11 DEF Repeats
  <2>2. Dues' = [Dues EXCEPT ![t] = {}]
    BY <1>6, <1>8, <1>9, <2>1
  <2>3. when \in Dues[t] /\ when <= seen
    BY <1>3, <1>7, <1>9
  <2>4. Dues' \in IF Interval[t] = 0 THEN {[Dues EXCEPT ![t] = {}]}
                  ELSE {[Dues EXCEPT ![t] = {from + Interval[t]}] :
                            from \in when .. seen}
    BY <1>11, <2>2, Zenon
  <2> QED
    BY <1>1, <1>10, <2>3, <2>4, Zenon DEF Service!Call, Dues
<1>12. CASE Interval[t] # 0
  <2>1. N = {Entry(t, now + Interval[t])}
    BY <1>2, <1>3, <1>12 DEF Repeats
  <2>2. Due(t)' = {now + Interval[t]}
    BY <1>3, <1>8, <2>1, EntryIs
  <2>3. Dues' = [Dues EXCEPT ![t] = {now + Interval[t]}]
    BY <1>6, <1>9, <2>2
  <2>4. now \in when .. seen
    BY <1>3
  <2>5. when \in Dues[t] /\ when <= seen
    BY <1>3, <1>7, <1>9
  <2>6. Dues' \in {[Dues EXCEPT ![t] = {from + Interval[t]}] : from \in when .. seen}
    BY <2>3, <2>4, Zenon
  <2>7. Dues' \in IF Interval[t] = 0 THEN {[Dues EXCEPT ![t] = {}]}
                  ELSE {[Dues EXCEPT ![t] = {from + Interval[t]}] :
                            from \in when .. seen}
    BY <1>12, <2>6, Zenon
  <2> QED
    BY <1>1, <1>10, <2>5, <2>7, Zenon DEF Service!Call, Dues
<1> QED
  BY <1>11, <1>12

(* A step that changes nothing that is known is none of the service's.     *)
LEMMA IsNoStep ==
  ASSUME Known' = Known, UNCHANGED runs
  PROVE  Dues' = Dues /\ UNCHANGED runs
<1>1. \A t \in Timer : Due(t)' = Due(t)
  BY DEF Due
<1> QED
  BY <1>1 DEF Dues

(* Every step is one of the service, or none, and leaves a timer in one    *)
(* place.                                                                  *)
LEMMA ServiceStep ==
  ASSUME TypeOK, Clocks, OnePlace, [Next]_vars
  PROVE  /\ OnePlace'
         /\ \/ \E t \in Timer : Service!AddTimer(t) \/ Service!Call(t)
            \/ Service!Later
            \/ Dues' = Dues /\ UNCHANGED <<runs, seen>>
<1>1. ASSUME NEW t \in Timer, NEW when \in 0 .. MaxTime, AddFromThread(t, when)
      PROVE  OnePlace' /\ Service!AddTimer(t)
  <2>1. OnePlace' /\ Known' = Known \cup {Entry(t, when)}
    BY <1>1, AddedFromThread
  <2>2. Fresh(t) /\ UNCHANGED <<runs, seen>> /\ when \in Nat
    BY <1>1, BoundsAssumption DEF AddFromThread, world
  <2> QED
    BY <2>1, <2>2, IsAdd
<1>2. ASSUME NEW t \in Timer, NEW when \in 0 .. MaxTime, AddFromLoop(t, when)
      PROVE  OnePlace' /\ Service!AddTimer(t)
  <2>1. OnePlace' /\ Known' = Known \cup {Entry(t, when)}
    BY <1>2, AddedFromLoop
  <2>2. Fresh(t) /\ UNCHANGED <<runs, seen>> /\ when \in Nat
    BY <1>2, BoundsAssumption DEF AddFromLoop, world
  <2> QED
    BY <2>1, <2>2, IsAdd
<1>3. CASE RunRequest \/ ReadTimerfd \/ Reset
  <2>1. OnePlace' /\ Known' = Known
    BY <1>3, MovedByRequest, MovedByRead, MovedByReset
  <2>2. UNCHANGED <<runs, seen>>
    BY <1>3, Zenon DEF RunRequest, ReadTimerfd, Reset, world
  <2> QED
    BY <2>1, <2>2, IsNoStep
<1>4. CASE Poll \/ TakeTime \/ UNCHANGED vars
  <2>1. /\ UNCHANGED <<timers, batch, called, requests, runs, seen>>
        /\ now' = now \/ lpc # "run"
    <3>1. CASE Poll
      BY <3>1, Zenon DEF Poll, handler, world
    <3>2. CASE TakeTime
      BY <3>2 DEF TakeTime, world
    <3>3. CASE UNCHANGED vars
      BY <3>3 DEF vars, handler, world
    <3> QED
      BY <1>4, <3>1, <3>2, <3>3
  <2> QED
    BY <2>1, Unmoved, IsNoStep
<1>5. ASSUME NEW e \in batch, RunTimer(e)
      PROVE  OnePlace' /\ e.timer \in Timer /\ Service!Call(e.timer)
  BY <1>5, CalledMoves, IsCall
<1>6. ASSUME NEW time \in 1 .. MaxTime, Shows(time),
             UNCHANGED <<timers, batch, called, now, requests, runs>>
      PROVE  OnePlace' /\ (Service!Later \/ (Dues' = Dues /\ UNCHANGED <<runs, seen>>))
  <2>1. OnePlace' /\ Known' = Known
    BY <1>6, Unmoved
  <2>2. Dues' = Dues /\ UNCHANGED runs
    BY <1>6, <2>1, IsNoStep
  <2>3. seen' \in Nat /\ (seen' = seen \/ seen' > seen)
    BY <1>6, ShowsTypes
  <2> QED
    BY <2>1, <2>2, <2>3 DEF Service!Later, Dues
<1>7. CASE Tick
  <2>1. PICK time \in 1 .. MaxTime : Shows(time)
    BY <1>7, TickShows DEF Tick
  <2>2. UNCHANGED <<timers, batch, called, now, requests, runs>>
    BY <1>7, Zenon DEF Tick, handler
  <2> QED
    BY <1>6, <2>1, <2>2
<1>8. ASSUME NEW time \in 1 .. MaxTime, SetClock(time)
      PROVE  OnePlace' /\ (Service!Later \/ (Dues' = Dues /\ UNCHANGED <<runs, seen>>))
  <2>1. Shows(time) /\ UNCHANGED <<timers, batch, called, now, requests, runs>>
    BY <1>8, Zenon DEF SetClock, handler
  <2> QED
    BY <1>6, <2>1
<1> QED
  BY <1>1, <1>2, <1>3, <1>4, <1>5, <1>7, <1>8, Zenon DEF Next

(* ImplementsService, of TimerQueue as a whole: whichever thread adds a    *)
(* timer and whatever the wall clock does, a timer that was added stays    *)
(* known until it is called, once if it does not repeat, never before its  *)
(* time, and its next period begins when handleRead took the time.         *)
THEOREM QueueImplementsService == Spec => ImplementsService
<1>1. Init => OnePlace /\ Service!ServiceInit
  <2> SUFFICES ASSUME Init
               PROVE  OnePlace /\ Service!ServiceInit
    OBVIOUS
  <2>1. /\ timers = {} /\ batch = {} /\ called = {} /\ requests = << >>
        /\ runs = [t \in Timer |-> 0] /\ seen = 1
    BY DEF Init
  <2>2. Range(requests) = {}
    BY <2>1 DEF Range
  <2>3. OnePlace
    BY <2>1, <2>2 DEF OnePlace, Places, IsInjective
  <2>4. Known = {}
    BY <2>1, <2>2, KnownIs DEF Restarted
  <2>5. Dues = [t \in Timer |-> {}]
    BY <2>4 DEF Dues, Due
  <2> QED
    BY <2>1, <2>3, <2>5 DEF Service!ServiceInit, Dues
<1>2. TypeOK /\ Clocks /\ OnePlace /\ [Next]_vars =>
        OnePlace' /\ [Service!ServiceNext]_(Service!serviceVars)
  BY ServiceStep DEF Service!ServiceNext, Service!serviceVars, Dues
<1> QED
  BY <1>1, <1>2, TypesAndClocks, PTL DEF Spec, ImplementsService, Service!ServiceSpec
=============================================================================
