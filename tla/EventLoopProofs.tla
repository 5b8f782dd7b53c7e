-------------------------- MODULE EventLoopProofs --------------------------
(***************************************************************************)
(* Proofs about EventLoop, and about the loop of an EventLoopThread, for   *)
(* any set of callers and of functors.                                     *)
(***************************************************************************)
EXTENDS EventLoopThread, SequenceTheorems, TLAPS

(* What is in a queue after adding at its end.                             *)
LEMMA RangeOfAppend ==
  ASSUME NEW S, NEW s \in Seq(S), NEW e \in S
  PROVE  Range(Append(s, e)) = Range(s) \cup {e}
<1>1. DOMAIN Append(s, e) = DOMAIN s \cup {Len(s) + 1}
  OBVIOUS
<1>2. \A i \in DOMAIN s : Append(s, e)[i] = s[i]
  OBVIOUS
<1>3. Append(s, e)[Len(s) + 1] = e
  OBVIOUS
<1> QED
  BY <1>1, <1>2, <1>3, Zenon DEF Range

(* The element that follows a proper prefix of a queue is the first one of *)
(* what is left.                                                           *)
LEMMA NextOfPrefix ==
  ASSUME NEW S, NEW s \in Seq(S), NEW t \in Seq(S), t # << >>
  PROVE  /\ Len(s) < Len(s \o t)
         /\ (s \o t)[Len(s) + 1] = Head(t)
OBVIOUS

(* Type correctness, and the shape of the loop: the flag                   *)
(* _callingPendingFunctors, the local vector and the active channels are   *)
(* in use only where loop() uses them.                                     *)
THEOREM TypeCorrect == Spec => []TypeOK
<1>1. Init => TypeOK
  <2> SUFFICES ASSUME Init
               PROVE  TypeOK
    OBVIOUS
  <2>1. << >> \in Seq(Functor)
    OBVIOUS
  <2>2. cpc \in [Callers -> {"idle", "wake"}]
    BY DEF Init
  <2> QED
    BY <2>1, <2>2 DEF Init, TypeOK, LoopPc
<1>2. TypeOK /\ [Next]_vars => TypeOK'
  <2> SUFFICES ASSUME TypeOK, [Next]_vars
               PROVE  TypeOK'
    OBVIOUS
  <2> USE DEF TypeOK, LoopPc
  <2>1. CASE CallerNext
    <3>1. ASSUME NEW c \in Callers, NEW f \in Functor, CallerPush(c, f)
          PROVE  TypeOK'
      BY <3>1 DEF CallerPush, Push
    <3>2. ASSUME NEW c \in Callers, CallerQuit(c)
          PROVE  TypeOK'
      BY <3>2 DEF CallerQuit
    <3>3. ASSUME NEW c \in Callers, Wakeup(c)
          PROVE  TypeOK'
      BY <3>3 DEF Wakeup
    <3> QED
      BY <2>1, <3>1, <3>2, <3>3 DEF CallerNext
  <2>2. ASSUME NEW f \in Functor, OwnPush(f)
        PROVE  TypeOK'
    BY <2>2 DEF OwnPush, Push, InUserCode
  <2>3. CASE OwnQuit
    BY <2>3 DEF OwnQuit
  <2>4. CASE Enter
    BY <2>4 DEF Enter
  <2>5. CASE Test
    BY <2>5 DEF Test
  <2>6. ASSUME NEW channels \in SUBSET {"wakeup", "other"}, PollReturns(channels)
        PROVE  TypeOK'
    BY <2>6 DEF PollReturns
  <2>7. CASE HandleRead
    BY <2>7 DEF HandleRead
  <2>8. CASE OtherReturns
    BY <2>8 DEF OtherReturns
  <2>9. CASE Swap
    BY <2>9 DEF Swap
  <2>10. CASE RunNext
    BY <2>10 DEF RunNext
  <2>11. CASE FunctorReturns
    BY <2>11 DEF FunctorReturns
  <2>12. CASE DrainEnd
    BY <2>12 DEF DrainEnd
  <2>13. CASE UNCHANGED vars
    BY <2>13 DEF vars
  <2> QED
    BY <2>1, <2>2, <2>3, <2>4, <2>5, <2>6, <2>7, <2>8, <2>9, <2>10, <2>11,
       <2>12, <2>13 DEF Next, LoopNext, PollWakeup, PollOther, PollTimeout
<1> QED
  BY <1>1, <1>2, PTL DEF Spec

-----------------------------------------------------------------------------
(* No functor is lost, repeated or reordered by any interleaving.          *)
THEOREM NothingIsLost == Spec => []NothingLost
<1>1. Init => NothingLost
  BY DEF Init, NothingLost
<1>2. TypeOK /\ NothingLost /\ [Next]_vars => NothingLost'
  <2> SUFFICES ASSUME TypeOK, NothingLost, [Next]_vars
               PROVE  NothingLost'
    OBVIOUS
  <2>1. /\ pending \in Seq(Functor) /\ batch \in Seq(Functor)
        /\ submitted \in Seq(Functor) /\ executed \in Seq(Functor)
    BY DEF TypeOK
  <2>2. ASSUME NEW f \in Functor, Push(f), UNCHANGED <<batch, executed>>
        PROVE  NothingLost'
    <3>1. executed \o (batch \o Append(pending, f))
            = Append(executed \o (batch \o pending), f)
      BY <2>1
    <3> QED
      BY <2>2, <3>1, Zenon DEF Push, NothingLost
  <2>3. CASE Swap
    <3>1. batch = << >>
      BY <2>3 DEF Swap, TypeOK
    <3>2. batch \o pending = pending \o << >>
      BY <2>1, <3>1
    <3> QED
      BY <2>1, <2>3, <3>2, Zenon DEF Swap, NothingLost
  <2>4. CASE RunNext
    <3>1. batch # << >>
      BY <2>4 DEF RunNext
    <3>2. Append(executed, Head(batch)) \o (Tail(batch) \o pending)
            = executed \o (batch \o pending)
      BY <2>1, <3>1
    <3> QED
      BY <2>4, <3>2, Zenon DEF RunNext, NothingLost
  <2>5. CASE UNCHANGED <<pending, batch, submitted, executed>>
    BY <2>5 DEF NothingLost
  <2> QED
    BY <2>2, <2>3, <2>4, <2>5
    DEF Next, CallerNext, LoopNext, CallerPush, OwnPush, CallerQuit, Wakeup,
        OwnQuit, Enter, Test, PollWakeup, PollOther, PollTimeout, PollReturns,
        HandleRead, OtherReturns, FunctorReturns, DrainEnd, vars
<1> QED
  BY <1>1, <1>2, TypeCorrect, PTL DEF Spec

-----------------------------------------------------------------------------
(* Why no wakeup is lost.  NoLostWakeup speaks of the moments at which the *)
(* loop is blocked; what carries over from step to step is that a functor  *)
(* which needs a wakeup still has one coming at EVERY moment, unless the   *)
(* loop is dispatching: then the swap that follows takes it.               *)
Covered == \/ Range(pending) \subseteq early
           \/ wakeFd
           \/ Waking
           \/ lpc = "dispatch"

(* Every step of the loop and of its callers keeps the wakeup coming.      *)
LEMMA CoveredStep == TypeOK /\ Covered /\ [Next]_vars => Covered'
<1> SUFFICES ASSUME TypeOK, Covered, [Next]_vars
             PROVE  Covered'
  OBVIOUS
<1>1. CASE CallerNext
  <2>1. ASSUME NEW c \in Callers, NEW f \in Functor, CallerPush(c, f)
        PROVE  Covered'
    BY <2>1 DEF CallerPush, Covered, Waking, TypeOK
  <2>2. ASSUME NEW c \in Callers, CallerQuit(c)
        PROVE  Covered'
    BY <2>2 DEF CallerQuit, Covered, Waking, TypeOK
  <2>3. ASSUME NEW c \in Callers, Wakeup(c)
        PROVE  Covered'
    BY <2>3 DEF Wakeup, Covered
  <2> QED
    BY <1>1, <2>1, <2>2, <2>3 DEF CallerNext
<1>2. ASSUME NEW f \in Functor, OwnPush(f)
      PROVE  Covered'
  <2>1. CASE lpc = "out"
    <3>1. Range(pending') = Range(pending) \cup {f}
      BY <1>2, RangeOfAppend DEF OwnPush, Push, TypeOK
    <3> QED
      BY <1>2, <2>1, <3>1 DEF OwnPush, Covered, Waking
  <2>2. CASE lpc = "functor"
    BY <1>2, <2>2 DEF OwnPush, Covered, TypeOK
  <2>3. CASE lpc = "dispatch"
    BY <1>2, <2>3 DEF OwnPush, Covered
  <2> QED
    BY <1>2, <2>1, <2>2, <2>3 DEF OwnPush, InUserCode
<1>3. CASE Swap
  <2>1. Range(pending') = {}
    BY <1>3 DEF Swap, Range
  <2> QED
    BY <2>1 DEF Covered
<1>4. ASSUME NEW channels, PollReturns(channels)
      PROVE  Covered'
  BY <1>4 DEF PollReturns, Covered
<1>5. CASE HandleRead \/ OtherReturns
  BY <1>5 DEF HandleRead, OtherReturns, Covered
<1>6. CASE \/ OwnQuit \/ Enter \/ Test \/ RunNext \/ FunctorReturns \/ DrainEnd
           \/ UNCHANGED vars
  <2>1. UNCHANGED <<pending, early, wakeFd, cpc>> /\ lpc = "dispatch" => lpc' = "dispatch"
    BY <1>6 DEF OwnQuit, Enter, Test, RunNext, FunctorReturns, DrainEnd, vars
  <2>2. UNCHANGED <<pending, early, wakeFd, cpc>>
    BY <1>6 DEF OwnQuit, Enter, Test, RunNext, FunctorReturns, DrainEnd, vars
  <2> QED
    BY <2>1, <2>2 DEF Covered, Waking
<1> QED
  BY <1>1, <1>2, <1>3, <1>4, <1>5, <1>6
  DEF Next, LoopNext, PollWakeup, PollOther, PollTimeout

(* The loop never sleeps over a functor that another thread has submitted. *)
THEOREM NoWakeupIsLost == Spec => []NoLostWakeup
<1>1. Init => Covered
  BY DEF Init, Covered, Range
<1>2. Covered => NoLostWakeup
  BY DEF Covered, NoLostWakeup
<1> QED
  BY <1>1, <1>2, CoveredStep, TypeCorrect, PTL DEF Spec

(* Nor over a call of quit().                                              *)
THEOREM NoQuitIsSleptThrough == Spec => []QuitNotSleptThrough
<1>1. Init => QuitNotSleptThrough
  BY DEF Init, QuitNotSleptThrough
<1>2. TypeOK /\ QuitNotSleptThrough /\ [Next]_vars => QuitNotSleptThrough'
  <2> SUFFICES ASSUME TypeOK, QuitNotSleptThrough, [Next]_vars
               PROVE  QuitNotSleptThrough'
    OBVIOUS
  <2>1. CASE CallerNext
    <3>1. ASSUME NEW c \in Callers, NEW f \in Functor, CallerPush(c, f)
          PROVE  QuitNotSleptThrough'
      BY <3>1 DEF CallerPush, QuitNotSleptThrough, Waking, TypeOK
    <3>2. ASSUME NEW c \in Callers, CallerQuit(c)
          PROVE  QuitNotSleptThrough'
      BY <3>2 DEF CallerQuit, QuitNotSleptThrough, Waking, TypeOK
    <3>3. ASSUME NEW c \in Callers, Wakeup(c)
          PROVE  QuitNotSleptThrough'
      BY <3>3 DEF Wakeup, QuitNotSleptThrough
    <3> QED
      BY <2>1, <3>1, <3>2, <3>3 DEF CallerNext
  <2>2. CASE LoopNext
    <3>1. lpc' = "poll" => lpc = "test" /\ ~quit /\ quit' = quit
      BY <2>2 DEF LoopNext, OwnPush, OwnQuit, InUserCode, Enter, Test,
                  PollWakeup, PollOther, PollTimeout, PollReturns, HandleRead,
                  OtherReturns, Swap, RunNext, FunctorReturns, DrainEnd
    <3> QED
      BY <3>1 DEF QuitNotSleptThrough
  <2>3. CASE UNCHANGED vars
    BY <2>3 DEF vars, QuitNotSleptThrough, Waking
  <2> QED
    BY <2>1, <2>2, <2>3 DEF Next
<1> QED
  BY <1>1, <1>2, TypeCorrect, PTL DEF Spec

-----------------------------------------------------------------------------
(* The loop implements the abstract executor: a push is a Submit, the call *)
(* of a functor is an Execute, and every other step is a stutter.          *)
THEOREM LoopImplementsExecutor == Spec => ImplementsExecutor
<1>1. Init => Executor!ExecInit
  BY DEF Init, Executor!ExecInit
<1>2. TypeOK /\ NothingLost /\ [Next]_vars => [Executor!ExecNext]_<<submitted, executed>>
  <2> SUFFICES ASSUME TypeOK, NothingLost, [Next]_vars
               PROVE  \/ Executor!ExecNext
                      \/ UNCHANGED <<submitted, executed>>
    OBVIOUS
  <2>1. ASSUME NEW f \in Functor, Push(f), UNCHANGED executed
        PROVE  Executor!Submit
    <3>1. f \in Functor \ Range(submitted) /\ submitted' = Append(submitted, f)
      BY <2>1 DEF Push
    <3> QED
      BY <2>1, <3>1, Zenon DEF Executor!Submit, Range, Executor!Range
  <2>2. CASE RunNext
    <3>1. /\ executed \in Seq(Functor) /\ batch \in Seq(Functor)
          /\ pending \in Seq(Functor) /\ batch # << >>
      BY <2>2 DEF TypeOK, RunNext
    <3>2. batch \o pending \in Seq(Functor) /\ batch \o pending # << >>
      BY <3>1
    <3>3. Head(batch \o pending) = Head(batch)
      BY <3>1
    <3>4. /\ Len(executed) < Len(submitted)
          /\ submitted[Len(executed) + 1] = Head(batch)
      <4> DEFINE rest == batch \o pending
      <4>1. submitted = executed \o rest
        BY DEF NothingLost
      <4> HIDE DEF rest
      <4>2. /\ Len(executed) < Len(executed \o rest)
            /\ (executed \o rest)[Len(executed) + 1] = Head(rest)
        BY <3>1, <3>2, NextOfPrefix DEF rest
      <4> QED
        BY <3>3, <4>1, <4>2, Zenon DEF rest
    <3> QED
      BY <2>2, <3>4, Zenon DEF RunNext, Executor!Execute, Executor!ExecNext
  <2> QED
    BY <2>1, <2>2
    DEF Next, CallerNext, LoopNext, CallerPush, OwnPush, CallerQuit, Wakeup,
        OwnQuit, Enter, Test, PollWakeup, PollOther, PollTimeout, PollReturns,
        HandleRead, OtherReturns, Swap, FunctorReturns, DrainEnd, vars,
        Executor!ExecNext
<1> QED
  BY <1>1, <1>2, TypeCorrect, NothingIsLost, PTL
  DEF Spec, ImplementsExecutor, Executor!ExecSpec, Executor!execVars
-----------------------------------------------------------------------------
(* A loop in a thread of its own, and the base loop beside it, is a loop   *)
(* as EventLoop describes it: nothing that the two handshakes, the         *)
(* destructor or the end of the thread do adds a behaviour to it.          *)
THEOREM LifeIsALoop == LifeSpec => Spec
<1>1. ThreadInit => Init
  BY DEF ThreadInit
<1>2. [LifeNext]_allVars => [Next]_vars
  <2> SUFFICES ASSUME [LifeNext]_allVars
               PROVE  [Next]_vars
    OBVIOUS
  <2>1. CASE MainNext
    BY <2>1 DEF MainNext
  <2>2. CASE CreateThread \/ OwnerStep \/ SpuriousWakeup \/ Join \/ Begins \/ Publishes
    BY <2>2 DEF CreateThread, OwnerStep, SpuriousWakeup, Join, Begins,
                Publishes, OwnerGoes
  <2>3. CASE Destroy \/ DestroyWakes \/ DestroyDangles
    BY <2>3, OwnerIsACaller
    DEF Destroy, DestroyWakes, DestroyDangles, Next, CallerNext
  <2>4. CASE EntersLoop \/ TestsQuit
    BY <2>4 DEF EntersLoop, TestsQuit, Next, LoopNext
  <2>5. CASE GoesRound
    BY <2>5 DEF GoesRound, Next, LoopNext
  <2>6. CASE UsesLoop
    BY <2>6 DEF UsesLoop, Next, CallerNext
  <2>7. CASE Over \/ UNCHANGED allVars
    BY <2>7 DEF Over, allVars
  <2> QED
    BY <2>1, <2>2, <2>3, <2>4, <2>5, <2>6, <2>7 DEF LifeNext, ThreadNext
<1> QED
  BY <1>1, <1>2, PTL DEF LifeSpec, Spec

(* So whatever is proved of EventLoop holds of both: no wakeup is lost ... *)
THEOREM NoWakeupIsLostInLife == LifeSpec => []NoLostWakeup
  BY LifeIsALoop, NoWakeupIsLost, PTL

(* ... and functors are executed once, in the order of the pushes.         *)
THEOREM LifeImplementsExecutor == LifeSpec => ImplementsExecutor
  BY LifeIsALoop, LoopImplementsExecutor, PTL

(* Type correctness of the composition, with where the two handshakes      *)
(* stand: nobody has a loop before _loop is set, and the thread leaves it  *)
(* only after the owner's quit().                                          *)
THEOREM LifeTypeCorrect == LifeSpec => []LifeTypeOK
<1>1. ThreadInit /\ TypeOK => LifeTypeOK
  <2> SUFFICES ASSUME ThreadInit, TypeOK
               PROVE  LifeTypeOK
    OBVIOUS
  <2>1. thread = "main" \/ thread = "none"
    BY DEF ThreadInit
  <2>2. owner = "built" /\ latch = 1 /\ loopSet = FALSE
    BY DEF ThreadInit
  <2>3. latch \in 0..1
    BY <2>2
  <2>4. loopSet \in BOOLEAN
    BY <2>2, Zenon
  <2>5. /\ thread \in {"main", "none"} <=> owner = "built"
        /\ latch = 0 <=> thread \in {"begun", "published", "looping", "ended"}
        /\ loopSet <=> thread \in {"published", "looping", "ended"}
        /\ ~(thread = "ended" \/ quit)
    BY <2>1, <2>2 DEF ThreadInit, Init
  <2> QED
    BY <2>1, <2>2, <2>3, <2>4, <2>5 DEF LifeTypeOK, Destroying
<1>2. LifeTypeOK /\ TypeOK' /\ [LifeNext]_allVars => LifeTypeOK'
  <2> SUFFICES ASSUME LifeTypeOK, TypeOK', [LifeNext]_allVars
               PROVE  LifeTypeOK'
    OBVIOUS
  <2> USE DEF LifeTypeOK, Destroying
  <2>1. CASE UNCHANGED threadVars /\ (thread = "main" \/ UNCHANGED quit)
    BY <2>1 DEF threadVars
  <2>2. CASE CreateThread
    BY <2>2 DEF CreateThread, OwnerGoes, vars
  <2>3. CASE OwnerStep \/ SpuriousWakeup \/ Join
    BY <2>3 DEF OwnerStep, SpuriousWakeup, Join, OwnerGoes, vars
  <2>4. CASE Destroy \/ DestroyWakes \/ DestroyDangles
    BY <2>4 DEF Destroy, DestroyWakes, DestroyDangles
  <2>5. CASE Begins
    BY <2>5 DEF Begins, Woken, vars
  <2>6. CASE Publishes
    BY <2>6 DEF Publishes, Woken, vars
  <2>7. CASE EntersLoop \/ TestsQuit
    BY <2>7 DEF EntersLoop, TestsQuit, Enter, Test
  <2>8. CASE GoesRound
    BY <2>1, <2>8
    DEF GoesRound, OwnPush, PollWakeup, PollOther, PollTimeout, PollReturns,
        HandleRead, OtherReturns, Swap, RunNext, FunctorReturns, DrainEnd
  <2>9. CASE UsesLoop
    BY <2>1, <2>9 DEF UsesLoop, CallerPush, Wakeup
  <2> QED
    BY <2>1, <2>2, <2>3, <2>4, <2>5, <2>6, <2>7, <2>8, <2>9
    DEF LifeNext, MainNext, ThreadNext, Over, allVars, vars
<1>3. LifeSpec => []TypeOK
  BY LifeIsALoop, TypeCorrect, PTL
<1> QED
  BY <1>1, <1>2, <1>3, PTL DEF LifeSpec
=============================================================================
