-------------------------- MODULE ThreadPoolProofs --------------------------
(***************************************************************************)
(* Proofs about ThreadPool for any finite set of workers, any set of tasks *)
(* and any capacity.                                                       *)
(***************************************************************************)
EXTENDS Server, SequenceTheorems, FiniteSetTheorems, TLAPS

(* What is in a queue after adding at its end.                             *)
LEMMA RangeOfAppend ==
  ASSUME NEW S, NEW s \in Seq(S), NEW e \in S
  PROVE  Range(Append(s, e)) = Range(s) \cup {e}
<1>1. DOMAIN Append(s, e) = DOMAIN s \cup {Len(s) + 1}
  OBVIOUS
<1>2. \A i \in DOMAIN s : Append(s, e)[i] = s[i]
  OBVIOUS
<1>3. Append(s, e)[Len(s) + 1] = e
  OBVIOUS
<1> QED
  BY <1>1, <1>2, <1>3, Zenon DEF Range

(* The element that follows a proper prefix of a queue is the first one of *)
(* what is left.                                                           *)
LEMMA NextOfPrefix ==
  ASSUME NEW S, NEW s \in Seq(S), NEW t \in Seq(S), t # << >>
  PROVE  /\ Len(s) < Len(s \o t)
         /\ (s \o t)[Len(s) + 1] = Head(t)
OBVIOUS

(* What is left of a queue was in it.                                      *)
LEMMA RangeOfTail ==
  ASSUME NEW S, NEW s \in Seq(S), s # << >>
  PROVE  Head(s) \in Range(s) /\ Range(Tail(s)) \subseteq Range(s)
<1>1. \A i \in DOMAIN Tail(s) : i + 1 \in DOMAIN s /\ Tail(s)[i] = s[i + 1]
  OBVIOUS
<1>2. 1 \in DOMAIN s /\ Head(s) = s[1]
  OBVIOUS
<1>3. Range(Tail(s)) \subseteq Range(s)
  BY <1>1, Zenon DEF Range
<1>4. Head(s) \in Range(s)
  BY <1>2, Zenon DEF Range
<1> QED
  BY <1>3, <1>4

(* A queue that has become longer by one.                                  *)
LEMMA LastOfAppend ==
  ASSUME NEW S, NEW s \in Seq(S), NEW e \in S, NEW r, r = Append(s, e)
  PROVE  /\ Len(r) = Len(s) + 1 /\ r[Len(r)] = e /\ Len(s) \in Nat
         /\ \A i \in 1 .. Len(s) : r[i] = s[i]
<1>1. Len(r) = Len(s) + 1 /\ Len(s) \in Nat
  OBVIOUS
<1>2. r[Len(s) + 1] = e
  OBVIOUS
<1>3. ASSUME NEW i \in 1 .. Len(s)
      PROVE  r[i] = s[i]
  OBVIOUS
<1> QED
  BY <1>1, <1>2, <1>3

(* A queue without repetitions stays one: a new element is added ...       *)
LEMMA AppendDistinct ==
  ASSUME NEW S, NEW s \in Seq(S), IsInjective(s), NEW e \in S, e \notin Range(s)
  PROVE  IsInjective(Append(s, e))
<1>1. DOMAIN Append(s, e) = DOMAIN s \cup {Len(s) + 1}
  OBVIOUS
<1>2. \A i \in DOMAIN s : Append(s, e)[i] = s[i]
  OBVIOUS
<1>3. Append(s, e)[Len(s) + 1] = e
  OBVIOUS
<1>4. \A i \in DOMAIN s : s[i] # e
  BY Zenon DEF Range
<1>5. \A i, j \in DOMAIN s : s[i] = s[j] => i = j
  BY Zenon DEF IsInjective
<1> QED
  BY <1>1, <1>2, <1>3, <1>4, <1>5, Zenon DEF IsInjective

(* ... or the first one is taken.                                          *)
LEMMA TailDistinct ==
  ASSUME NEW S, NEW s \in Seq(S), s # << >>, IsInjective(s)
  PROVE  /\ IsInjective(Tail(s))
         /\ Head(s) \notin Range(Tail(s))
         /\ Range(s) = {Head(s)} \cup Range(Tail(s))
<1>1. \A i \in DOMAIN Tail(s) :
          i + 1 \in DOMAIN s /\ i + 1 # 1 /\ Tail(s)[i] = s[i + 1]
  OBVIOUS
<1>2. 1 \in DOMAIN s /\ Head(s) = s[1]
  OBVIOUS
<1>3. \A i, j \in DOMAIN s : s[i] = s[j] => i = j
  BY Zenon DEF IsInjective
<1>4. \A i, j \in DOMAIN Tail(s) : i + 1 = j + 1 => i = j
  OBVIOUS
<1>5. IsInjective(Tail(s))
  BY <1>1, <1>3, <1>4, Zenon DEF IsInjective
<1>6. Head(s) \notin Range(Tail(s))
  <2>1. \A i \in DOMAIN Tail(s) : Tail(s)[i] # Head(s)
    BY <1>1, <1>2, <1>3
  <2> QED
    BY <2>1, Zenon DEF Range
<1>7. ASSUME NEW i \in DOMAIN s, i # 1
      PROVE  s[i] \in Range(Tail(s))
  <2>1. i - 1 \in DOMAIN Tail(s) /\ Tail(s)[i - 1] = s[i]
    BY <1>7
  <2> QED
    BY <2>1, Zenon DEF Range
<1>8. \A x \in Range(s) : x = Head(s) \/ x \in Range(Tail(s))
  BY <1>2, <1>7, Zenon DEF Range
<1>9. Head(s) \in Range(s) /\ Range(Tail(s)) \subseteq Range(s)
  BY RangeOfTail, Zenon
<1> QED
  BY <1>5, <1>6, <1>8, <1>9

(* Type correctness; the queue never grows beyond its capacity.            *)
THEOREM TypeCorrect == Spec => []TypeOK
<1>1. Init => TypeOK
  <2> SUFFICES ASSUME Init
               PROVE  TypeOK
    OBVIOUS
  <2>1. << >> \in Seq(Task) /\ Len(<< >>) <= Capacity
    BY CapacityNat
  <2>2. wpc \in [Workers -> WorkerPc] /\ held \in [Workers -> SUBSET Task]
    BY DEF Init, WorkerPc
  <2>3. \A w \in Workers : held[w] = {}
    BY DEF Init
  <2> QED
    BY <2>1, <2>2, <2>3 DEF Init, TypeOK
<1>2. TypeOK /\ [Next]_vars => TypeOK'
  <2> SUFFICES ASSUME TypeOK, [Next]_vars
               PROVE  TypeOK'
    OBVIOUS
  <2> USE DEF TypeOK, WorkerPc
  <2>1. CASE Start
    BY <2>1 DEF Start
  <2>2. CASE Stop
    <3>1. /\ wpc' \in [Workers -> WorkerPc]
          /\ \A w \in Workers : wpc[w] = "exec" => wpc'[w] = "exec"
      BY <2>2 DEF Stop
    <3> QED
      BY <2>2, <3>1 DEF Stop
  <2>3. CASE Joined
    BY <2>3 DEF Joined
  <2>4. ASSUME NEW t \in Task, Run(t)
        PROVE  TypeOK'
    <3>1. /\ queue' \in Seq(Task) /\ Len(queue') = Len(queue) + 1
          /\ accepted' \in Seq(Task)
      BY <2>4 DEF Run, Enqueue
    <3>2. Len(queue') <= Capacity
      BY <2>4, <3>1, CapacityNat DEF Run
    <3>3. /\ wpc' \in [Workers -> WorkerPc]
          /\ \A w \in Workers : wpc'[w] = "exec" <=> wpc[w] = "exec"
      BY <2>4 DEF Run, Notify, At
    <3> QED
      BY <2>4, <3>1, <3>2, <3>3 DEF Run
  <2>5. ASSUME NEW t \in Task, RunRefused(t)
        PROVE  TypeOK'
    BY <2>5 DEF RunRefused
  <2>6. ASSUME NEW w \in Workers, StartThread(w)
        PROVE  TypeOK'
    BY <2>6 DEF StartThread
  <2>7. ASSUME NEW w \in Workers, Check(w) \/ Sleep(w) \/ TakeNothing(w)
        PROVE  TypeOK'
    BY <2>7 DEF Check, Sleep, TakeNothing, InTake
  <2>8. ASSUME NEW w \in Workers, TakeTask(w)
        PROVE  TypeOK'
    <3>1. queue # << >> /\ Head(queue) \in Task
      BY <2>8 DEF TakeTask
    <3>2. /\ queue' \in Seq(Task) /\ Len(queue') <= Capacity
          /\ taken' \in Seq(Task)
      BY <2>8, <3>1, CapacityNat DEF TakeTask
    <3>3. held' \in [Workers -> SUBSET Task] /\ wpc' \in [Workers -> WorkerPc]
      BY <2>8, <3>1 DEF TakeTask
    <3>4. \A v \in Workers : held'[v] # {} => wpc'[v] = "exec"
      BY <2>8 DEF TakeTask
    <3> QED
      BY <2>8, <3>2, <3>3, <3>4 DEF TakeTask
  <2>9. ASSUME NEW w \in Workers, Finish(w)
        PROVE  TypeOK'
    BY <2>9 DEF Finish
  <2>10. ASSUME NEW w \in Workers, SpuriousWakeup(w)
         PROVE  TypeOK'
    BY <2>10 DEF SpuriousWakeup
  <2>11. CASE UNCHANGED vars
    BY <2>11 DEF vars
  <2> QED
    BY <2>1, <2>2, <2>3, <2>4, <2>5, <2>6, <2>7, <2>8, <2>9, <2>10, <2>11
    DEF Next, WorkerStep
<1> QED
  BY <1>1, <1>2, PTL DEF Spec

-----------------------------------------------------------------------------
(* Accepted tasks are kept, in order, across every interleaving of run(),  *)
(* take(), start() and stop().                                             *)
THEOREM NothingIsLost == Spec => []NothingLost
<1>1. Init => NothingLost
  BY DEF Init, NothingLost
<1>2. TypeOK /\ NothingLost /\ [Next]_vars => NothingLost'
  <2> SUFFICES ASSUME TypeOK, NothingLost, [Next]_vars
               PROVE  NothingLost'
    OBVIOUS
  <2>1. queue \in Seq(Task) /\ accepted \in Seq(Task) /\ taken \in Seq(Task)
    BY DEF TypeOK
  <2>2. ASSUME NEW t \in Task, Run(t)
        PROVE  NothingLost'
    <3>1. taken \o Append(queue, t) = Append(taken \o queue, t)
      BY <2>1
    <3> QED
      BY <2>2, <3>1, Zenon DEF Run, Enqueue, NothingLost
  <2>3. ASSUME NEW w \in Workers, TakeTask(w)
        PROVE  NothingLost'
    <3>1. queue # << >>
      BY <2>3 DEF TakeTask
    <3>2. Append(taken, Head(queue)) \o Tail(queue) = taken \o queue
      BY <2>1, <3>1
    <3> QED
      BY <2>3, <3>2, Zenon DEF TakeTask, NothingLost
  <2>4. CASE UNCHANGED <<queue, accepted, taken>>
    BY <2>4 DEF NothingLost
  <2> QED
    BY <2>2, <2>3, <2>4
    DEF Next, WorkerStep, Start, Stop, Joined, RunRefused, StartThread, Check,
        Sleep, TakeNothing, Finish, SpuriousWakeup, vars
<1> QED
  BY <1>1, <1>2, TypeCorrect, PTL DEF Spec

-----------------------------------------------------------------------------
(* The sets of workers at each place are finite and change by one worker.  *)
LEMMA AtFinite ==
  ASSUME NEW pc
  PROVE  IsFiniteSet(At(pc)) /\ Cardinality(At(pc)) \in Nat
<1>1. At(pc) \in SUBSET Workers
  BY DEF At
<1> QED
  BY <1>1, FiniteWorkers, FS_Subset, FS_CardinalityType

(* After its broadcast stop() finds nobody asleep, and nobody falls asleep *)
(* any more.                                                               *)
THEOREM StopWakesEveryone == Spec => []StopWakesAll
<1>1. Init => StopWakesAll
  BY DEF Init, StopWakesAll
<1>2. TypeOK /\ StopWakesAll /\ [Next]_vars => StopWakesAll'
  <2> SUFFICES ASSUME TypeOK, StopWakesAll, [Next]_vars,
                      owner' \in {"joining", "stopped"}
               PROVE  At("wait")' = {}
    BY DEF StopWakesAll
  <2>1. CASE Stop
    BY <2>1 DEF Stop, At
  <2>2. CASE ~Stop
    <3>1. owner \in {"joining", "stopped"}
      BY <2>2 DEF Next, WorkerStep, Start, Joined, Run, RunRefused, StartThread,
                  Check, Sleep, TakeNothing, TakeTask, Finish, SpuriousWakeup, vars
    <3>2. At("wait") = {} /\ ~running
      BY <3>1 DEF StopWakesAll, TypeOK
    <3>3. \A w \in Workers : wpc'[w] = "wait" => wpc[w] = "wait"
      BY <2>2, <3>2 DEF Next, WorkerStep, Start, Joined, Run, Notify, RunRefused,
                  StartThread, Check, Sleep, TakeNothing, TakeTask, Finish,
                  SpuriousWakeup, vars, TypeOK, WorkerPc, At
    <3> QED
      BY <3>2, <3>3 DEF At
  <2> QED
    BY <2>1, <2>2
<1> QED
  BY <1>1, <1>2, TypeCorrect, PTL DEF Spec

(* No worker is idle while a task waits.  The invariant is inductive as it *)
(* stands: a signal moves a worker from "wait" to "woken" for every task   *)
(* that is added, a task that is taken frees at most one of the woken, and *)
(* a worker goes to sleep only on an empty queue.                          *)
THEOREM PoolIsWorkConserving == Spec => []WorkConserving
<1>1. Init => WorkConserving
  BY DEF Init, WorkConserving, At
<1>2. TypeOK /\ WorkConserving /\ [Next]_vars => WorkConserving'
  <2> SUFFICES ASSUME TypeOK, WorkConserving, [Next]_vars,
                      At("wait")' # {}
               PROVE  Len(queue') <= Cardinality(At("woken")')
    BY DEF WorkConserving
  <2>0. /\ IsFiniteSet(At("woken")) /\ Cardinality(At("woken")) \in Nat
        /\ queue \in Seq(Task) /\ Len(queue) \in Nat
        /\ wpc \in [Workers -> WorkerPc]
    BY AtFinite DEF TypeOK
  <2>1. CASE At("woken")' = At("woken") /\ queue' = queue /\ At("wait") # {}
    BY <2>1 DEF WorkConserving
  <2>2. ASSUME NEW t \in Task, Run(t)
        PROVE  Len(queue') <= Cardinality(At("woken")')
    <3>1. At("wait") # {}
      BY <2>2 DEF Run, Notify, At
    <3>2. PICK w \in At("wait") : wpc' = [wpc EXCEPT ![w] = "woken"]
      BY <2>2, <3>1 DEF Run, Notify
    <3>3. w \notin At("woken") /\ At("woken")' = At("woken") \cup {w}
      BY <2>0, <3>2 DEF At
    <3>4. Cardinality(At("woken")') = Cardinality(At("woken")) + 1
      BY <2>0, <3>3, FS_AddElement
    <3>5. Len(queue') = Len(queue) + 1
      BY <2>0, <2>2 DEF Run, Enqueue
    <3> QED
      BY <2>0, <3>1, <3>4, <3>5 DEF WorkConserving
  <2>3. ASSUME NEW w \in Workers, TakeTask(w)
        PROVE  Len(queue') <= Cardinality(At("woken")')
    <3>1. At("wait") # {}
      BY <2>0, <2>3 DEF TakeTask, At
    <3>2. At("woken")' = At("woken") \ {w}
      BY <2>0, <2>3 DEF TakeTask, At
    <3>3. Cardinality(At("woken")') >= Cardinality(At("woken")) - 1
      <4>1. Cardinality(At("woken") \ {w}) =
              IF w \in At("woken") THEN Cardinality(At("woken")) - 1
                                  ELSE Cardinality(At("woken"))
        BY <2>0, FS_RemoveElement, Zenon
      <4>2. Cardinality(At("woken") \ {w}) >= Cardinality(At("woken")) - 1
        BY <2>0, <4>1
      <4> QED
        BY <3>2, <4>2
    <3>4. Len(queue') = Len(queue) - 1
      BY <2>0, <2>3 DEF TakeTask
    <3>5. Cardinality(At("woken")') \in Nat
      BY <2>0, <3>2, FS_RemoveElement, FS_CardinalityType
    <3> QED
      BY <2>0, <3>1, <3>3, <3>4, <3>5 DEF WorkConserving
  <2>4. ASSUME NEW w \in Workers, SpuriousWakeup(w)
        PROVE  Len(queue') <= Cardinality(At("woken")')
    <3>1. At("wait") # {}
      BY <2>4 DEF SpuriousWakeup, At
    <3>2. w \notin At("woken") /\ At("woken")' = At("woken") \cup {w}
      BY <2>0, <2>4 DEF SpuriousWakeup, At
    <3>3. Cardinality(At("woken")') = Cardinality(At("woken")) + 1
      BY <2>0, <3>2, FS_AddElement
    <3> QED
      BY <2>0, <2>4, <3>1, <3>3 DEF WorkConserving, SpuriousWakeup
  <2>5. ASSUME NEW w \in Workers, Sleep(w) \/ TakeNothing(w)
        PROVE  Len(queue') <= Cardinality(At("woken")')
    <3>1. Len(queue') = 0
      BY <2>5 DEF Sleep, TakeNothing
    <3>2. At("woken")' = At("woken") \ {w}
      BY <2>0, <2>5 DEF Sleep, TakeNothing, At
    <3>3. Cardinality(At("woken")') \in Nat
      BY <2>0, <3>2, FS_RemoveElement, FS_CardinalityType
    <3> QED
      BY <3>1, <3>3
  <2>6. CASE Stop
    BY <2>6 DEF Stop, At
  <2>7. ASSUME NEW w \in Workers, StartThread(w) \/ Check(w) \/ Finish(w)
        PROVE  Len(queue') <= Cardinality(At("woken")')
    <3>1. /\ At("woken")' = At("woken") /\ At("wait")' = At("wait")
          /\ queue' = queue
      BY <2>0, <2>7 DEF StartThread, Check, Finish, At
    <3> QED
      BY <2>1, <3>1
  <2>8. CASE UNCHANGED <<queue, wpc>>
    BY <2>1, <2>8 DEF At
  <2> QED
    BY <2>2, <2>3, <2>4, <2>5, <2>6, <2>7, <2>8
    DEF Next, WorkerStep, Start, Joined, RunRefused, vars
<1> QED
  BY <1>1, <1>2, TypeCorrect, PTL DEF Spec

-----------------------------------------------------------------------------
(* The pool implements the abstract executor: run() is a Submit, the pop   *)
(* of a task is an Execute, and every other step is a stutter.             *)
THEOREM PoolImplementsExecutor == Spec => ImplementsExecutor
<1>1. Init => Executor!ExecInit
  BY DEF Init, Executor!ExecInit
<1>2. TypeOK /\ NothingLost /\ [Next]_vars => [Executor!ExecNext]_<<accepted, taken>>
  <2> SUFFICES ASSUME TypeOK, NothingLost, [Next]_vars
               PROVE  \/ Executor!ExecNext
                      \/ UNCHANGED <<accepted, taken>>
    OBVIOUS
  <2>1. ASSUME NEW t \in Task, Run(t)
        PROVE  Executor!ExecNext
    <3>1. /\ t \notin Range(accepted)
          /\ accepted' = Append(accepted, t) /\ UNCHANGED taken
      BY <2>1 DEF Run, Enqueue, Fresh
    <3> QED
      BY <3>1, Zenon DEF Executor!ExecNext, Executor!Submit, Range, Executor!Range
  <2>2. ASSUME NEW w \in Workers, TakeTask(w)
        PROVE  Executor!ExecNext
    <3>1. /\ taken \in Seq(Task) /\ queue \in Seq(Task) /\ queue # << >>
          /\ accepted = taken \o queue
      BY <2>2 DEF TypeOK, TakeTask, NothingLost
    <3>2. /\ Len(taken) < Len(taken \o queue)
          /\ (taken \o queue)[Len(taken) + 1] = Head(queue)
      BY ONLY <3>1, NextOfPrefix
    <3> QED
      BY <2>2, <3>1, <3>2, Zenon DEF TakeTask, Executor!Execute, Executor!ExecNext
  <2> QED
    BY <2>1, <2>2
    DEF Next, WorkerStep, Start, Stop, Joined, RunRefused, StartThread, Check,
        Sleep, TakeNothing, Finish, SpuriousWakeup, vars
<1> QED
  BY <1>1, <1>2, TypeCorrect, NothingIsLost, PTL
  DEF Spec, ImplementsExecutor, Executor!ExecSpec, Executor!execVars
-----------------------------------------------------------------------------
(* The lines taken from a buffer are counted from 0.                       *)
LinesCounted == lines \in [Client -> Nat]

(* ... at every moment.                                                    *)
LEMMA LinesAreCounted == ServerSpec => []LinesCounted
<1>1. ServerInit => LinesCounted
  BY DEF ServerInit, LinesCounted
<1>2. LinesCounted /\ [ServerNext]_allVars => LinesCounted'
  <2> SUFFICES ASSUME LinesCounted, [ServerNext]_allVars
               PROVE  LinesCounted'
    OBVIOUS
  <2>1. ASSUME NEW c \in Client, NEW n \in 1 .. 2 * Lines, OnMessage(c, n)
        PROVE  LinesCounted'
    BY <2>1 DEF OnMessage, LinesCounted
  <2>2. CASE UNCHANGED lines
    BY <2>2 DEF LinesCounted
  <2> QED
    BY <2>1, <2>2 DEF ServerNext, ServeNext, PoolNext, PoolStep, ClientSends,
                      ClientCloses, Reads, OnPartOfLine, Answers, netVars, allVars
<1> QED
  BY <1>1, <1>2, PTL DEF ServerSpec

(* What the server does with its pool is what ThreadPool describes.        *)
LEMMA ServerStepsPool ==
  ASSUME LinesCounted, [ServerNext]_allVars
  PROVE  [Next]_vars
<1>1. CASE PoolNext
  BY <1>1 DEF PoolNext
<1>2. CASE PoolStep
  BY <1>2 DEF PoolStep, Next, WorkerStep
<1>3. ASSUME NEW c \in Client, ClientSends(c) \/ ClientCloses(c)
      PROVE  UNCHANGED vars
  BY <1>3 DEF ClientSends, ClientCloses
<1>4. ASSUME NEW c \in Client, NEW n \in 1 .. 2 * Lines, OnPartOfLine(c, n)
      PROVE  UNCHANGED vars
  BY <1>4 DEF OnPartOfLine
<1>5. ASSUME NEW c \in Client, NEW n \in 1 .. 2 * Lines, OnMessage(c, n)
      PROVE  Next
  <2> DEFINE t == <<c, lines[c] + 1>>
  <2>1. Run(t) \/ RunRefused(t)
    BY <1>5 DEF OnMessage
  <2>2. t \in Task
    <3>1. lines[c] \in Nat /\ 2 * (lines[c] + 1) <= n
      BY <1>5 DEF OnMessage, HasLine, LinesCounted
    <3>2. lines[c] + 1 \in 1 .. Lines
      BY <3>1, LinesNat
    <3> QED
      BY <3>2, TasksAreLines
  <2> QED
    BY <2>1, <2>2 DEF Next
<1>6. ASSUME NEW w \in Workers, Answers(w)
      PROVE  Next
  BY <1>6 DEF Answers, Next, WorkerStep
<1>7. CASE UNCHANGED allVars
  BY <1>7 DEF allVars
<1> QED
  BY <1>1, <1>2, <1>3, <1>4, <1>5, <1>6, <1>7 DEF ServerNext, ServeNext, Reads

(* The pool of the server is a pool as ThreadPool describes it: what the   *)
(* clients send, when they close and what the tasks do with a connection   *)
(* that is down adds no behaviour to it.                                   *)
THEOREM ServerUsesPool == ServerSpec => Spec
<1>1. ServerInit => Init
  BY DEF ServerInit
<1>2. LinesCounted /\ [ServerNext]_allVars => [Next]_vars
  BY ServerStepsPool
<1> QED
  BY <1>1, <1>2, LinesAreCounted, PTL DEF ServerSpec, Spec

(* So in the server, too, no worker sleeps over a request ...              *)
THEOREM ServerIsWorkConserving == ServerSpec => []WorkConserving
  BY ServerUsesPool, PoolIsWorkConserving, PTL

(* ... and requests are taken in the order in which run() accepted them.   *)
THEOREM ServerTakesInOrder == ServerSpec => ImplementsExecutor
  BY ServerUsesPool, PoolImplementsExecutor, PTL
-----------------------------------------------------------------------------
(* A task that run() accepted is in the queue once or was taken once, and  *)
(* at most one worker is calling it.                                       *)
OwnPlace ==
    /\ IsInjective(queue)
    /\ Range(queue) \cap Range(taken) = {}
    /\ Range(accepted) = Range(queue) \cup Range(taken)
    /\ \A w \in Workers : held[w] \subseteq Range(taken)
    /\ \A w \in Workers : \A t, u \in held[w] : t = u
    /\ \A w, v \in Workers : w # v => held[w] \cap held[v] = {}

(* A task that a worker pops is no longer in the queue and with no other   *)
(* worker.                                                                 *)
LEMMA TakeOwnPlace ==
  ASSUME TypeOK, OwnPlace, NEW w \in Workers, TakeTask(w)
  PROVE  OwnPlace'
<1>1. /\ queue \in Seq(Task) /\ taken \in Seq(Task) /\ queue # << >>
      /\ Head(queue) \in Task /\ held \in [Workers -> SUBSET Task]
      /\ IsInjective(queue)
  BY DEF TypeOK, TakeTask, OwnPlace
<1>2. /\ IsInjective(queue') /\ Head(queue) \notin Range(queue')
      /\ Range(queue) = {Head(queue)} \cup Range(queue')
  BY <1>1, TailDistinct, Zenon DEF TakeTask
<1>3. Range(taken') = Range(taken) \cup {Head(queue)}
  <2>1. PICK t \in Task : t = Head(queue) /\ taken' = Append(taken, t)
    BY <1>1, Zenon DEF TakeTask
  <2> QED
    BY <1>1, <2>1, RangeOfAppend
<1>4. Head(queue) \notin Range(taken) /\ Range(queue') \cap Range(taken') = {}
  BY <1>2, <1>3 DEF OwnPlace
<1>5. Range(accepted') = Range(queue') \cup Range(taken')
  BY <1>2, <1>3 DEF OwnPlace, TakeTask
<1>6. held'[w] = {Head(queue)} /\ \A v \in Workers \ {w} : held'[v] = held[v]
  BY <1>1 DEF TakeTask
<1>7. \A v \in Workers : Head(queue) \notin held[v]
  BY <1>4 DEF OwnPlace
<1>8. /\ \A v \in Workers : held'[v] \subseteq Range(taken')
      /\ \A v \in Workers : \A t, u \in held'[v] : t = u
  BY <1>3, <1>6 DEF OwnPlace
<1>9. \A u, v \in Workers : u # v => held'[u] \cap held'[v] = {}
  BY <1>6, <1>7 DEF OwnPlace
<1> QED
  BY <1>2, <1>4, <1>5, <1>8, <1>9 DEF OwnPlace

(* Every task has its own place, whoever calls run() and whenever.         *)
LEMMA EachInOnePlace == Spec => []OwnPlace
<1>1. Init => OwnPlace
  <2> SUFFICES ASSUME Init
               PROVE  OwnPlace
    OBVIOUS
  <2>1. Range(<< >>) = {} /\ IsInjective(<< >>)
    BY DEF Range, IsInjective
  <2>2. \A w \in Workers : held[w] = {}
    BY DEF Init
  <2> QED
    BY <2>1, <2>2 DEF Init, OwnPlace
<1>2. TypeOK /\ OwnPlace /\ [Next]_vars => OwnPlace'
  <2> SUFFICES ASSUME TypeOK, OwnPlace, [Next]_vars
               PROVE  OwnPlace'
    OBVIOUS
  <2>1. ASSUME NEW t \in Task, Run(t)
        PROVE  OwnPlace'
    <3>1. queue \in Seq(Task) /\ accepted \in Seq(Task) /\ IsInjective(queue)
      BY DEF TypeOK, OwnPlace
    <3>2. /\ t \notin Range(accepted) /\ queue' = Append(queue, t)
          /\ accepted' = Append(accepted, t) /\ UNCHANGED <<taken, held>>
      BY <2>1 DEF Run, Enqueue, Fresh
    <3>3. t \notin Range(queue) /\ t \notin Range(taken)
      BY <3>2 DEF OwnPlace
    <3>4. Range(queue') = Range(queue) \cup {t}
      BY <3>1, <3>2, RangeOfAppend, Zenon
    <3>5. Range(accepted') = Range(accepted) \cup {t}
      BY <3>1, <3>2, RangeOfAppend, Zenon
    <3>6. IsInjective(queue')
      BY <3>1, <3>2, <3>3, AppendDistinct, Zenon
    <3>7. Range(taken') = Range(taken) /\ held' = held
      BY <3>2
    <3> QED
      BY <3>3, <3>4, <3>5, <3>6, <3>7 DEF OwnPlace
  <2>2. ASSUME NEW w \in Workers, TakeTask(w)
        PROVE  OwnPlace'
    BY <2>2, TakeOwnPlace
  <2>3. ASSUME NEW w \in Workers, Finish(w)
        PROVE  OwnPlace'
    <3>1. \A v \in Workers : held'[v] \subseteq held[v]
      BY <2>3 DEF Finish, TypeOK
    <3>2. UNCHANGED <<queue, taken, accepted>>
      BY <2>3 DEF Finish
    <3> QED
      BY <3>1, <3>2 DEF OwnPlace
  <2>4. CASE UNCHANGED <<queue, accepted, taken, held>>
    BY <2>4 DEF OwnPlace
  <2> QED
    BY <2>1, <2>2, <2>3, <2>4
    DEF Next, WorkerStep, Start, Stop, Joined, RunRefused, StartThread, Check,
        Sleep, TakeNothing, SpuriousWakeup, vars
<1> QED
  BY <1>1, <1>2, TypeCorrect, PTL DEF Spec
-----------------------------------------------------------------------------
(* What a client is sent is made of these.                                 *)
Part == [line : Task, part : {"size", "body"}]

(* The types of what the server adds to its pool.                          *)
NetTypeOK ==
    /\ serving \in BOOLEAN
    /\ sent \in [Client -> Nat]
    /\ received \in [Client -> Nat]
    /\ LinesCounted
    /\ up \in [Client -> BOOLEAN]
    /\ wire \in [Client -> Seq(Part)]

(* Only what was sent is received, and only what was received is taken for *)
(* a line; run() has seen no line that was not.                            *)
Flow ==
    /\ \A c \in Client : 2 * lines[c] <= received[c] /\ received[c] <= sent[c]
    /\ serving => \A t \in Range(accepted) : t[2] <= lines[t[1]]

(* The lines in ts were answered, in this order, each once and in one      *)
(* piece, by workers that have come back from them.                        *)
Answered(c, ts) ==
    /\ ts \in Seq(Task) /\ IsInjective(ts)
    /\ Len(wire[c]) = 2 * Len(ts)
    /\ \A j \in 1 .. Len(ts) :
          /\ wire[c][2 * j - 1] = Size(ts[j]) /\ wire[c][2 * j] = Body(ts[j])
          /\ ts[j][1] = c
          /\ ts[j] \in Range(taken) /\ \A w \in Workers : ts[j] \notin held[w]
          /\ c \in Lockstep => ts[j][2] = j

(* Nothing is sent to anybody before the server runs; then every client    *)
(* was sent answers, and one in lock step has begun one line more at most. *)
WireInv ==
    \A c \in Client :
        /\ serving => \E ts \in Seq(Task) : Answered(c, ts)
        /\ ~serving => wire[c] = << >>
        /\ serving /\ c \in Lockstep => sent[c] <= Len(wire[c]) + 2

(* The types of the server, at every step ...                              *)
LEMMA NetTypeStep ==
  ASSUME TypeOK, NetTypeOK, [ServerNext]_allVars
  PROVE  NetTypeOK'
<1>1. LinesCounted'
  <2>1. ASSUME NEW c \in Client, NEW n \in 1 .. 2 * Lines, OnMessage(c, n)
        PROVE  LinesCounted'
    BY <2>1 DEF OnMessage, LinesCounted, NetTypeOK
  <2>2. CASE UNCHANGED lines
    BY <2>2 DEF LinesCounted, NetTypeOK
  <2> QED
    BY <2>1, <2>2 DEF ServerNext, ServeNext, PoolNext, PoolStep, ClientSends,
                      ClientCloses, Reads, OnPartOfLine, Answers, netVars, allVars
<1>2. serving' = serving
  BY DEF ServerNext, ServeNext, PoolNext, PoolStep, ClientSends, ClientCloses, Reads,
         OnPartOfLine, OnMessage, Delivers, Answers, allVars
<1>3. sent' \in [Client -> Nat]
  <2>1. ASSUME NEW c \in Client, ClientSends(c)
        PROVE  sent' \in [Client -> Nat]
    BY <2>1 DEF ClientSends, NetTypeOK
  <2>2. CASE UNCHANGED sent
    BY <2>2 DEF NetTypeOK
  <2> QED
    BY <2>1, <2>2 DEF ServerNext, ServeNext, PoolNext, PoolStep, ClientCloses, Reads,
         OnPartOfLine, OnMessage, Delivers, Answers, allVars, netVars
<1>4. received' \in [Client -> Nat]
  <2>1. ASSUME NEW c \in Client, NEW n \in 1 .. 2 * Lines, Delivers(c, n)
        PROVE  received' \in [Client -> Nat]
    <3>1. n \in Nat
      BY LinesNat
    <3> QED
      BY <2>1, <3>1 DEF Delivers, NetTypeOK
  <2>2. CASE UNCHANGED received
    BY <2>2 DEF NetTypeOK
  <2> QED
    BY <2>1, <2>2 DEF ServerNext, ServeNext, PoolNext, PoolStep, ClientSends,
         ClientCloses, Reads, OnPartOfLine, OnMessage, Answers, allVars, netVars
<1>5. up' \in [Client -> BOOLEAN]
  <2>1. ASSUME NEW c \in Client, ClientCloses(c)
        PROVE  up' \in [Client -> BOOLEAN]
    BY <2>1 DEF ClientCloses, NetTypeOK
  <2>2. CASE UNCHANGED up
    BY <2>2 DEF NetTypeOK
  <2> QED
    BY <2>1, <2>2 DEF ServerNext, ServeNext, PoolNext, PoolStep, ClientSends, Reads,
         OnPartOfLine, OnMessage, Delivers, Answers, allVars, netVars
<1>6. wire' \in [Client -> Seq(Part)]
  <2>1. ASSUME NEW w \in Workers, Answers(w)
        PROVE  wire' \in [Client -> Seq(Part)]
    <3>1. PICK t \in held[w] : wire' = IF up[t[1]]
                THEN [wire EXCEPT ![t[1]] = @ \o <<Size(t), Body(t)>>] ELSE wire
      BY <2>1, Zenon DEF Answers
    <3>2. t \in Task
      BY <3>1 DEF TypeOK
    <3>3. Size(t) \in Part /\ Body(t) \in Part
      BY <3>2 DEF Size, Body, Part
    <3>4. \A s \in Seq(Part) : s \o <<Size(t), Body(t)>> \in Seq(Part)
      BY <3>3
    <3> QED
      BY <3>1, <3>4 DEF NetTypeOK
  <2>2. CASE UNCHANGED wire
    BY <2>2 DEF NetTypeOK
  <2> QED
    BY <2>1, <2>2 DEF ServerNext, ServeNext, PoolNext, PoolStep, ClientSends,
         ClientCloses, Reads, OnPartOfLine, OnMessage, Delivers, allVars, netVars
<1> QED
  BY <1>1, <1>2, <1>3, <1>4, <1>5, <1>6 DEF NetTypeOK

(* In one step of the pool the tasks that were taken stay so, and a worker *)
(* begins only tasks of the queue.                                         *)
LEMMA PoolMoves ==
  ASSUME TypeOK, [Next]_vars
  PROVE  /\ Range(taken) \subseteq Range(taken')
         /\ \A w \in Workers : held'[w] \subseteq held[w] \cup Range(queue)
<1>1. ASSUME NEW w \in Workers, TakeTask(w)
      PROVE  /\ Range(taken) \subseteq Range(taken')
             /\ \A v \in Workers : held'[v] \subseteq held[v] \cup Range(queue)
  <2>1. queue \in Seq(Task) /\ taken \in Seq(Task) /\ queue # << >>
    BY <1>1 DEF TypeOK, TakeTask
  <2>2. Head(queue) \in Range(queue) /\ Head(queue) \in Task
    BY <2>1, RangeOfTail, HeadTailProperties, Zenon
  <2>3. Range(taken') = Range(taken) \cup {Head(queue)}
    <3>1. taken' = Append(taken, Head(queue))
      BY <1>1 DEF TakeTask
    <3>2. \A t \in Task : Range(Append(taken, t)) = Range(taken) \cup {t}
      BY <2>1, RangeOfAppend, Zenon
    <3> QED
      BY <2>2, <3>1, <3>2, Zenon
  <2>4. held' = [held EXCEPT ![w] = {Head(queue)}]
    BY <1>1 DEF TakeTask
  <2> QED
    BY <2>2, <2>3, <2>4 DEF TypeOK
<1>2. ASSUME NEW w \in Workers, Finish(w)
      PROVE  /\ taken' = taken
             /\ \A v \in Workers : held'[v] \subseteq held[v]
  BY <1>2 DEF Finish, TypeOK
<1>3. CASE UNCHANGED <<taken, held>>
  BY <1>3
<1> QED
  BY <1>1, <1>2, <1>3
  DEF Next, WorkerStep, Start, Stop, Joined, Run, RunRefused, StartThread, Check,
      Sleep, TakeNothing, SpuriousWakeup, vars

(* Bytes and lines go their way from the client to run().                  *)
LEMMA FlowStep ==
  ASSUME TypeOK, NetTypeOK, Flow, [ServerNext]_allVars
  PROVE  Flow'
<1>1. CASE UNCHANGED <<lines, accepted, received, sent, serving>>
  BY <1>1 DEF Flow
<1>2. CASE PoolNext
  BY <1>2 DEF PoolNext, Flow, netVars
<1>3. ASSUME NEW c \in Client, ClientSends(c)
      PROVE  Flow'
  <2>1. \A d \in Client : sent'[d] >= sent[d]
    BY <1>3 DEF ClientSends, NetTypeOK
  <2>2. UNCHANGED <<lines, received, accepted, serving>>
    BY <1>3 DEF ClientSends, vars
  <2>3. \A d \in Client : /\ lines[d] \in Nat /\ received[d] \in Nat
                          /\ sent[d] \in Nat /\ sent'[d] \in Nat
    BY <2>1, NetTypeStep DEF NetTypeOK, LinesCounted
  <2>4. ASSUME NEW d \in Client
        PROVE  2 * lines'[d] <= received'[d] /\ received'[d] <= sent'[d]
    <3>1. 2 * lines[d] <= received[d] /\ received[d] <= sent[d] /\ sent[d] <= sent'[d]
      BY <2>1, <2>4 DEF Flow
    <3> QED
      BY <2>2, <2>3, <3>1
  <2> QED
    BY <2>2, <2>4 DEF Flow
<1>4. ASSUME NEW c \in Client, NEW n \in 1 .. 2 * Lines, OnPartOfLine(c, n)
      PROVE  Flow'
  <2>1. /\ received'[c] = n /\ received[c] < n /\ n <= sent[c]
        /\ \A d \in Client : d # c => received'[d] = received[d]
    BY <1>4 DEF OnPartOfLine, Delivers, NetTypeOK
  <2>2. UNCHANGED <<lines, sent, accepted, serving>>
    BY <1>4 DEF OnPartOfLine, Delivers, vars
  <2>3. \A d \in Client : lines[d] \in Nat /\ received[d] \in Nat /\ sent[d] \in Nat
    BY DEF NetTypeOK, LinesCounted
  <2>4. ASSUME NEW d \in Client
        PROVE  2 * lines'[d] <= received'[d] /\ received'[d] <= sent'[d]
    <3>1. 2 * lines[d] <= received[d] /\ received[d] <= sent[d]
      BY DEF Flow
    <3> QED
      BY <2>1, <2>2, <2>3, <3>1
  <2> QED
    BY <2>2, <2>4 DEF Flow
<1>5. ASSUME NEW c \in Client, NEW n \in 1 .. 2 * Lines, OnMessage(c, n)
      PROVE  Flow'
  <2>1. /\ received'[c] = n /\ received[c] < n /\ n <= sent[c]
        /\ \A d \in Client : d # c => received'[d] = received[d]
        /\ sent' = sent /\ serving' = serving
    BY <1>5 DEF OnMessage, Delivers, NetTypeOK
  <2>2. /\ lines'[c] = lines[c] + 1 /\ 2 * lines'[c] <= n
        /\ \A d \in Client : d # c => lines'[d] = lines[d]
    BY <1>5 DEF OnMessage, HasLine, NetTypeOK, LinesCounted
  <2>3. PICK t : t = <<c, lines[c] + 1>>
    OBVIOUS
  <2>4. t \in Task
    <3>1. lines[c] \in Nat /\ lines[c] + 1 \in 1 .. Lines
      BY <2>2, LinesNat DEF NetTypeOK, LinesCounted
    <3> QED
      BY <2>3, <3>1, TasksAreLines
  <2>5. Range(accepted') \subseteq Range(accepted) \cup {t}
    <3>1. accepted' = accepted \/ accepted' = Append(accepted, t)
      BY <1>5, <2>3 DEF OnMessage, Run, RunRefused, Enqueue
    <3>2. Range(Append(accepted, t)) = Range(accepted) \cup {t}
      BY <2>4, RangeOfAppend, Zenon DEF TypeOK
    <3> QED
      BY <3>1, <3>2
  <2>6. t[1] = c /\ t[2] = lines[c] + 1
    BY <2>3
  <2>7. \A d \in Client : lines[d] \in Nat /\ lines'[d] >= lines[d]
    <3>1. \A d \in Client : lines[d] \in Nat
      BY DEF NetTypeOK, LinesCounted
    <3> QED
      BY <2>2, <3>1
  <2>8. ASSUME NEW d \in Client
        PROVE  2 * lines'[d] <= received'[d] /\ received'[d] <= sent'[d]
    BY <2>1, <2>2 DEF Flow
  <2>9. ASSUME serving, NEW u \in Range(accepted')
        PROVE  u[2] <= lines'[u[1]]
    <3>1. CASE u = t
      BY <2>2, <2>6, <2>7, <3>1
    <3>2. CASE u \in Range(accepted)
      <4>1. u \in Task /\ u[2] <= lines[u[1]]
        BY <2>9, <3>2 DEF Flow, TypeOK, Range
      <4>2. u[1] \in Client /\ u[2] \in Nat
        BY <4>1, TasksAreLines
      <4>3. PICK d \in Client : d = u[1]
        BY <4>2
      <4>4. lines[d] \in Nat /\ lines'[d] \in Nat /\ lines'[d] >= lines[d]
        BY <2>7, NetTypeStep DEF NetTypeOK, LinesCounted
      <4> QED
        BY <4>1, <4>2, <4>3, <4>4
    <3> QED
      BY <2>5, <3>1, <3>2
  <2> QED
    BY <2>1, <2>8, <2>9 DEF Flow
<1> QED
  BY <1>1, <1>2, <1>3, <1>4, <1>5
  DEF ServerNext, ServeNext, PoolStep, ClientCloses, Reads, Answers, Start, StartThread,
      Check, Sleep, TakeTask, SpuriousWakeup, Finish, allVars, vars, netVars

(* Counting in pairs.                                                      *)
LEMMA Parity ==
  ASSUME NEW n \in Nat, NEW i \in 1 .. 2 * n
  PROVE  \E j \in 1 .. n : \/ i = 2 * j - 1 /\ i % 2 = 1
                           \/ i = 2 * j /\ i % 2 = 0
<1>1. CASE i % 2 = 0
  <2>1. i = 2 * (i \div 2)
    BY <1>1
  <2> QED
    BY <1>1, <2>1
<1>2. CASE i % 2 = 1
  <2>1. i + 1 = 2 * ((i + 1) \div 2)
    BY <1>2
  <2> QED
    BY <1>2, <2>1
<1> QED
  BY <1>1, <1>2

(* What was answered stays answered while nothing is written: no worker    *)
(* begins a task again that was taken before.                              *)
LEMMA AnsweredStays ==
  ASSUME TypeOK, OwnPlace, [Next]_vars, NEW c \in Client, NEW ts,
         Answered(c, ts), wire'[c] = wire[c]
  PROVE  Answered(c, ts)'
<1>1. \A j \in 1 .. Len(ts) :
          /\ ts[j] \in Range(taken')
          /\ \A w \in Workers : ts[j] \notin held'[w]
  BY PoolMoves DEF Answered, OwnPlace
<1> QED
  BY <1>1 DEF Answered, Size, Body

(* As many lines of a client are answered as its answers say.              *)
LEMMA CountAnswers ==
  ASSUME NetTypeOK, NEW c \in Client, NEW ts, Answered(c, ts)
  PROVE  2 * Cardinality(AnswersOf(c)) = Len(wire[c])
<1>1. /\ ts \in Seq(Task) /\ IsInjective(ts) /\ Len(wire[c]) = 2 * Len(ts)
      /\ wire[c] \in Seq(Part) /\ Len(ts) \in Nat
  BY DEF Answered, NetTypeOK
<1>2. ASSUME NEW j \in 1 .. Len(ts)
      PROVE  ts[j] \in AnswersOf(c)
  <2>1. 2 * j \in DOMAIN wire[c] /\ wire[c][2 * j] = Body(ts[j])
    BY <1>1 DEF Answered
  <2>2. ts[j] \in Task
    BY <1>1
  <2> QED
    BY <2>1, <2>2, Zenon DEF AnswersOf, Range
<1>3. ASSUME NEW t \in AnswersOf(c)
      PROVE  \E j \in 1 .. Len(ts) : ts[j] = t
  <2>1. PICK i \in DOMAIN wire[c] : wire[c][i] = Body(t)
    BY Zenon DEF AnswersOf, Range
  <2>2. i \in 1 .. 2 * Len(ts)
    BY <1>1
  <2>3. PICK j \in 1 .. Len(ts) : i = 2 * j - 1 \/ i = 2 * j
    BY <1>1, <2>2, Parity
  <2>4. i # 2 * j - 1
    <3>1. Size(ts[j]).part # Body(t).part
      BY DEF Size, Body
    <3>2. wire[c][2 * j - 1] = Size(ts[j])
      BY DEF Answered
    <3> QED
      BY <2>1, <3>1, <3>2, Zenon
  <2>5. Body(ts[j]) = Body(t)
    BY <2>1, <2>3, <2>4 DEF Answered
  <2>6. Body(ts[j]).line = ts[j] /\ Body(t).line = t
    BY DEF Body
  <2> QED
    BY <2>5, <2>6, Zenon
<1>4. ts \in Bijection(1 .. Len(ts), AnswersOf(c))
  <2>1. ts \in [1 .. Len(ts) -> AnswersOf(c)]
    BY <1>1, <1>2
  <2>2. ts \in Injection(1 .. Len(ts), AnswersOf(c))
    BY <1>1, <2>1, Zenon DEF Injection
  <2>3. ts \in Surjection(1 .. Len(ts), AnswersOf(c))
    BY <1>3, <2>1, Zenon DEF Surjection
  <2> QED
    BY <2>2, <2>3, Zenon DEF Bijection
<1>5. Cardinality(AnswersOf(c)) = Len(ts)
  BY <1>1, <1>4, FS_CountingElements, Zenon DEF ExistsBijection
<1> QED
  BY <1>1, <1>5

(* In lock step the only line on its way is the one after those answered.  *)
LEMMA OneUnderWay ==
  ASSUME TypeOK, NetTypeOK, OwnPlace, Flow, WireInv, serving,
         NEW c \in Lockstep, NEW ts, Answered(c, ts),
         NEW t \in Task, t[1] = c,
         \/ t[2] > lines[c] /\ 2 * t[2] <= sent[c]
         \/ t \in Range(queue)
         \/ \E w \in Workers : t \in held[w]
  PROVE  t[2] = Len(ts) + 1
<1>1. /\ c \in Client /\ lines[c] \in Nat /\ received[c] \in Nat /\ sent[c] \in Nat
      /\ ts \in Seq(Task) /\ Len(ts) \in Nat /\ Len(wire[c]) = 2 * Len(ts)
  BY LockstepClients DEF NetTypeOK, LinesCounted, Answered
<1>2. t[2] \in Nat /\ t[2] >= 1 /\ t = <<c, t[2]>>
  BY LinesNat, TasksAreLines
<1>3. /\ 2 * lines[c] <= received[c] /\ received[c] <= sent[c]
      /\ sent[c] <= 2 * Len(ts) + 2
  BY <1>1 DEF Flow, WireInv
<1>4. \A u \in Range(accepted) : u[1] = c => u[2] <= lines[c]
  BY DEF Flow
<1>5. t \in Range(queue) \/ (\E w \in Workers : t \in held[w]) => t[2] <= lines[c]
  BY <1>4 DEF OwnPlace
<1>6. t[2] <= Len(ts) + 1
  BY <1>1, <1>2, <1>3, <1>5
<1>7. ASSUME t[2] <= Len(ts)
      PROVE  FALSE
  <2>1. t[2] \in 1 .. Len(ts)
    BY <1>1, <1>2, <1>7
  <2>2. ts[t[2]] = t
    <3>1. ts[t[2]] \in Task /\ ts[t[2]][1] = c /\ ts[t[2]][2] = t[2]
      BY <1>1, <2>1 DEF Answered
    <3> QED
      BY <1>2, <3>1, TasksAreLines
  <2>3. t \in Range(taken) /\ \A w \in Workers : t \notin held[w]
    BY <2>1, <2>2 DEF Answered
  <2>4. t \notin Range(queue) /\ t[2] <= lines[c]
    BY <1>4, <2>3 DEF OwnPlace
  <2> QED
    BY <1>1, <1>2, <2>3, <2>4
<1> QED
  BY <1>1, <1>2, <1>6, <1>7

(* Two more at the end of a sequence of pairs.                             *)
AddsPair(r, s, a, b, n) ==
    /\ s \in Seq(Part) /\ a \in Part /\ b \in Part
    /\ n \in Nat /\ Len(s) = 2 * n
    /\ r = s \o <<a, b>>

(* The pair is at the end, and what was there before is as it was.         *)
LEMMA PairAtEnd ==
  ASSUME NEW r, NEW s, NEW a, NEW b, NEW n, AddsPair(r, s, a, b, n)
  PROVE  /\ Len(r) = 2 * (n + 1)
         /\ r[2 * (n + 1) - 1] = a /\ r[2 * (n + 1)] = b
         /\ \A i \in 1 .. 2 * n : r[i] = s[i]
<1>1. /\ s \in Seq(Part) /\ a \in Part /\ b \in Part /\ n \in Nat
      /\ Len(s) = 2 * n /\ r = s \o <<a, b>>
  BY DEF AddsPair
<1>2. PICK p : p = <<a, b>> /\ r = s \o p
  BY <1>1
<1>3. /\ Len(r) = Len(s) + Len(p) /\ Len(p) = 2 /\ p[1] = a /\ p[2] = b
      /\ \A i \in 1 .. Len(s) + Len(p) :
            r[i] = IF i <= Len(s) THEN s[i] ELSE p[i - Len(s)]
  <2>1. s \in Seq(Part) /\ a \in Part /\ b \in Part
    BY <1>1
  <2>2. p \in Seq(Part) /\ Len(p) = 2 /\ p[1] = a /\ p[2] = b
    BY ONLY <1>2, <2>1
  <2>3. /\ Len(s \o p) = Len(s) + Len(p)
        /\ \A i \in 1 .. Len(s) + Len(p) :
              (s \o p)[i] = IF i <= Len(s) THEN s[i] ELSE p[i - Len(s)]
    BY ONLY <2>1, <2>2, ConcatProperties, Zenon
  <2> QED
    BY ONLY <1>2, <2>2, <2>3, Zenon
<1>4. PICK m \in Nat : m = Len(s)
  BY <1>1
<1>5. Len(r) = m + 2 /\ \A i \in 1 .. m + 2 : r[i] = IF i <= m THEN s[i] ELSE p[i - m]
  BY ONLY <1>3, <1>4
<1>6. ASSUME NEW i \in 1 .. m
      PROVE  r[i] = s[i]
  BY ONLY <1>4, <1>5, <1>6
<1>7. r[m + 1] = a /\ r[m + 2] = b
  BY ONLY <1>3, <1>4, <1>5
<1>8. m = 2 * n /\ n \in Nat
  BY <1>1, <1>4
<1>9. 2 * (n + 1) = m + 2 /\ 2 * (n + 1) - 1 = m + 1
  BY <1>8
<1> QED
  BY <1>5, <1>6, <1>7, <1>8, <1>9

(* A worker adds the answer to its line: size and body at the end of what  *)
(* the client was sent.                                                    *)
LEMMA AnswerAdds ==
  ASSUME TypeOK, NetTypeOK, OwnPlace, Flow, WireInv, serving, serving',
         NEW w \in Workers, Finish(w), NEW t \in held[w], NEW c \in Client, t[1] = c,
         wire'[c] = wire[c] \o <<Size(t), Body(t)>>,
         NEW ts \in Seq(Task), Answered(c, ts)
  PROVE  Answered(c, Append(ts, t))'
<1>1. /\ t \in Task /\ t \in Range(taken) /\ \A v \in Workers \ {w} : t \notin held[v]
      /\ ts \in Seq(Task)
  BY DEF TypeOK, OwnPlace
<1>2. /\ held'[w] = {} /\ \A v \in Workers \ {w} : held'[v] = held[v]
      /\ taken' = taken
  BY DEF Finish, TypeOK
<1>3. PICK us \in Seq(Task) : us = Append(ts, t)
  <2>1. Append(ts, t) \in Seq(Task)
    BY ONLY <1>1, AppendProperties
  <2> QED
    BY ONLY <2>1
<1>4. /\ Len(us) = Len(ts) + 1 /\ us[Len(us)] = t /\ Len(ts) \in Nat
      /\ \A j \in 1 .. Len(ts) : us[j] = ts[j]
  BY ONLY <1>1, <1>3, LastOfAppend
<1>5. IsInjective(us)
  <2>1. t \notin Range(ts)
    <3>1. \A j \in 1 .. Len(ts) : ts[j] # t
      BY DEF Answered
    <3>2. DOMAIN ts = 1 .. Len(ts)
      OBVIOUS
    <3> QED
      BY <3>1, <3>2, Zenon DEF Range
  <2> QED
    BY <1>1, <1>3, <2>1, AppendDistinct, Zenon DEF Answered
<1>6. /\ wire[c] \in Seq(Part) /\ Size(t) \in Part /\ Body(t) \in Part
      /\ Len(wire[c]) = 2 * Len(ts)
  BY <1>1 DEF NetTypeOK, Answered, Part, Size, Body
<1>7. /\ Len(wire'[c]) = 2 * Len(us)
      /\ wire'[c][2 * Len(us) - 1] = Size(t) /\ wire'[c][2 * Len(us)] = Body(t)
      /\ \A i \in 1 .. 2 * Len(ts) : wire'[c][i] = wire[c][i]
  <2>1. PICK r, s, a, b, n : /\ r = wire'[c] /\ s = wire[c]
                             /\ a = Size(t) /\ b = Body(t) /\ n = Len(ts)
    OBVIOUS
  <2>2. AddsPair(r, s, a, b, n)
    BY <1>4, <1>6, <2>1 DEF AddsPair
  <2>3. /\ Len(r) = 2 * (n + 1)
        /\ r[2 * (n + 1) - 1] = a /\ r[2 * (n + 1)] = b
        /\ \A i \in 1 .. 2 * n : r[i] = s[i]
    BY <2>2, PairAtEnd
  <2> QED
    BY <1>4, <2>1, <2>3
<1>8. ASSUME NEW j \in 1 .. Len(ts)
      PROVE  /\ wire'[c][2 * j - 1] = Size(us[j]) /\ wire'[c][2 * j] = Body(us[j])
             /\ us[j][1] = c
             /\ us[j] \in Range(taken') /\ \A v \in Workers : us[j] \notin held'[v]
             /\ c \in Lockstep => us[j][2] = j
  <2>1. 2 * j - 1 \in 1 .. 2 * Len(ts) /\ 2 * j \in 1 .. 2 * Len(ts)
    BY <1>4
  <2>2. wire'[c][2 * j - 1] = wire[c][2 * j - 1] /\ wire'[c][2 * j] = wire[c][2 * j]
    BY <1>7, <2>1
  <2>3. \A v \in Workers : held'[v] \subseteq held[v]
    BY <1>2
  <2>4. /\ us[j] = ts[j]
        /\ wire[c][2 * j - 1] = Size(ts[j]) /\ wire[c][2 * j] = Body(ts[j])
        /\ ts[j][1] = c /\ ts[j] \in Range(taken)
        /\ \A v \in Workers : ts[j] \notin held[v]
        /\ c \in Lockstep => ts[j][2] = j
    BY <1>4, Zenon DEF Answered
  <2>5. Range(taken') = Range(taken)
    BY <1>2
  <2> QED
    BY <2>2, <2>3, <2>4, <2>5, Zenon
<1>9. /\ t[1] = c /\ t \in Range(taken') /\ \A v \in Workers : t \notin held'[v]
      /\ c \in Lockstep => t[2] = Len(us)
  <2>1. c \in Lockstep => t[2] = Len(ts) + 1
    BY <1>1, OneUnderWay
  <2> QED
    BY <1>1, <1>2, <1>4, <2>1
<1>10. ASSUME NEW j \in 1 .. Len(us)
       PROVE  /\ wire'[c][2 * j - 1] = Size(us[j]) /\ wire'[c][2 * j] = Body(us[j])
              /\ us[j][1] = c
              /\ us[j] \in Range(taken') /\ \A v \in Workers : us[j] \notin held'[v]
              /\ c \in Lockstep => us[j][2] = j
  <2>1. j = Len(us) \/ j \in 1 .. Len(ts)
    BY <1>4
  <2> QED
    BY <1>4, <1>7, <1>8, <1>9, <2>1
<1>11. Answered(c, us)'
  BY <1>3, <1>5, <1>7, <1>10 DEF Answered, Size, Body
<1> QED
  BY <1>3, <1>11

(* The wire in every step: a client in lock step begins a line only when   *)
(* all the earlier ones are answered, and only answers are written.        *)
LEMMA WireStep ==
  ASSUME TypeOK, NetTypeOK, OwnPlace, Flow, WireInv, [ServerNext]_allVars
  PROVE  WireInv'
<1>1. [Next]_vars
  BY ServerStepsPool DEF NetTypeOK
<1>2. serving' = serving
  BY DEF ServerNext, ServeNext, PoolNext, PoolStep, ClientSends, ClientCloses, Reads,
         OnPartOfLine, OnMessage, Delivers, Answers, allVars
<1>3. ASSUME NEW c \in Client, wire'[c] = wire[c], serving
      PROVE  \E ts \in Seq(Task) : Answered(c, ts)'
  BY <1>1, <1>3, AnsweredStays DEF WireInv
<1>4. ASSUME wire' = wire, sent' = sent
      PROVE  WireInv'
  BY <1>2, <1>3, <1>4 DEF WireInv
<1>5. ASSUME serving, NEW c \in Client, ClientSends(c)
      PROVE  WireInv'
  <2>1. /\ wire' = wire /\ sent'[c] = sent[c] + 1
        /\ \A d \in Client : d # c => sent'[d] = sent[d]
    BY <1>5 DEF ClientSends, NetTypeOK
  <2>2. ASSUME c \in Lockstep
        PROVE  sent'[c] <= Len(wire[c]) + 2
    <3>1. PICK ts \in Seq(Task) : Answered(c, ts)
      BY <1>5 DEF WireInv
    <3>2. /\ sent[c] \in Nat /\ Len(ts) \in Nat /\ Len(wire[c]) = 2 * Len(ts)
          /\ sent[c] <= Len(wire[c]) + 2
      BY <1>5, <2>2, <3>1 DEF WireInv, NetTypeOK, Answered
    <3>3. 2 * Cardinality(AnswersOf(c)) = Len(wire[c])
      BY <3>1, CountAnswers
    <3>4. sent[c] % 2 = 0 => Cardinality(AnswersOf(c)) = sent[c] \div 2
      BY <1>5, <2>2 DEF ClientSends
    <3>5. CASE sent[c] % 2 = 0
      <4>1. 2 * (sent[c] \div 2) = sent[c]
        BY <3>2, <3>5
      <4>2. sent[c] = Len(wire[c])
        BY <3>3, <3>4, <3>5, <4>1
      <4> QED
        BY <2>1, <3>2, <4>2
    <3>6. CASE sent[c] % 2 # 0
      <4>1. sent[c] # 2 * Len(ts) + 2
        BY <3>2, <3>6
      <4> QED
        BY <2>1, <3>2, <4>1
    <3> QED
      BY <3>5, <3>6
  <2>3. ASSUME NEW d \in Client, d \in Lockstep
        PROVE  sent'[d] <= Len(wire'[d]) + 2
    BY <1>5, <2>1, <2>2, <2>3 DEF WireInv
  <2> QED
    BY <1>2, <1>3, <1>5, <2>1, <2>3 DEF WireInv
<1>6. ASSUME serving, NEW w \in Workers, Answers(w)
      PROVE  WireInv'
  <2>1. PICK t \in held[w] : wire' = IF up[t[1]]
                THEN [wire EXCEPT ![t[1]] = @ \o <<Size(t), Body(t)>>] ELSE wire
    BY <1>6, Zenon DEF Answers
  <2>2. t \in Task /\ t[1] \in Client
    BY <2>1, TasksAreLines DEF TypeOK
  <2>3. sent' = sent /\ Finish(w) /\ serving'
    BY <1>2, <1>6 DEF Answers
  <2>4. CASE wire' = wire
    BY <1>4, <2>3, <2>4
  <2>5. CASE wire' = [wire EXCEPT ![t[1]] = @ \o <<Size(t), Body(t)>>]
    <3>1. PICK c \in Client : c = t[1]
      BY <2>2
    <3>2. /\ wire'[c] = wire[c] \o <<Size(t), Body(t)>>
          /\ \A d \in Client : d # c => wire'[d] = wire[d]
      BY <2>5, <3>1 DEF NetTypeOK
    <3>3. PICK ts \in Seq(Task) : Answered(c, ts)
      BY <1>6 DEF WireInv
    <3>4. Answered(c, Append(ts, t))'
      BY <1>6, <2>1, <2>3, <3>1, <3>2, <3>3, AnswerAdds
    <3>5. Append(ts, t) \in Seq(Task)
      BY <2>2, <3>3, AppendProperties
    <3>6. \E us \in Seq(Task) : Answered(c, us)'
      BY <3>4, <3>5, Zenon
    <3>7. Len(wire'[c]) >= Len(wire[c])
      <4>1. Len(ts) \in Nat /\ Len(wire[c]) = 2 * Len(ts)
        BY <3>3 DEF Answered
      <4>2. PICK us \in Seq(Task) : us = Append(ts, t)
        BY <3>5
      <4>3. Len(us) = Len(ts) + 1
        BY ONLY <2>2, <3>3, <4>2, LastOfAppend
      <4>4. Len(wire'[c]) = 2 * Len(us)
        BY <3>4, <4>2 DEF Answered
      <4> QED
        BY <4>1, <4>3, <4>4
    <3>8. ASSUME NEW d \in Client
          PROVE  \E us \in Seq(Task) : Answered(d, us)'
      <4>1. CASE d = c
        BY <3>6, <4>1
      <4>2. CASE d # c
        BY <1>3, <1>6, <3>2, <4>2
      <4> QED
        BY <4>1, <4>2
    <3>9. ASSUME NEW d \in Client, d \in Lockstep
          PROVE  sent'[d] <= Len(wire'[d]) + 2
      <4>1. sent'[d] \in Nat /\ Len(wire[d]) \in Nat /\ Len(wire'[d]) \in Nat
        BY <2>3, NetTypeStep DEF NetTypeOK
      <4>2. sent'[d] <= Len(wire[d]) + 2 /\ Len(wire'[d]) >= Len(wire[d])
        <5>1. sent[d] <= Len(wire[d]) + 2 /\ sent'[d] = sent[d]
          BY <1>6, <2>3, <3>9 DEF WireInv
        <5>2. CASE d = c
          BY <3>7, <5>1, <5>2
        <5>3. CASE d # c
          <6>1. wire'[d] = wire[d]
            BY <3>2, <5>3
          <6> QED
            BY <4>1, <5>1, <6>1
        <5> QED
          BY <5>2, <5>3
      <4> QED
        BY <4>1, <4>2
    <3> QED
      BY <2>3, <3>8, <3>9 DEF WireInv
  <2> QED
    BY <2>1, <2>4, <2>5
<1> QED
  BY <1>4, <1>5, <1>6 DEF ServerNext, ServeNext, PoolNext, PoolStep, ClientCloses, Reads,
         OnPartOfLine, OnMessage, Delivers, allVars, netVars

(* The three parts of the invariant hold together.                         *)
NetInv == NetTypeOK /\ Flow /\ WireInv

(* They do, together with those of the pool.                               *)
LEMMA NetIsInvariant == ServerSpec => [](TypeOK /\ OwnPlace /\ NetInv)
<1>1. ServerInit => NetInv
  <2> SUFFICES ASSUME ServerInit
               PROVE  NetInv
    OBVIOUS
  <2>1. NetTypeOK
    BY DEF ServerInit, NetTypeOK, LinesCounted
  <2>2. Flow
    <3>1. Range(accepted) = {}
      BY DEF ServerInit, Init, Range
    <3> QED
      BY <3>1 DEF ServerInit, Flow
  <2>3. ASSUME NEW c \in Client
        PROVE  Answered(c, << >>)
    <3>1. IsInjective(<< >>) /\ << >> \in Seq(Task) /\ Len(<< >>) = 0
      BY DEF IsInjective
    <3>2. wire[c] = << >>
      BY DEF ServerInit
    <3> QED
      BY <3>1, <3>2 DEF Answered
  <2>4. << >> \in Seq(Task)
    OBVIOUS
  <2>5. WireInv
    <3>1. \A c \in Client : \E ts \in Seq(Task) : Answered(c, ts)
      BY <2>3, <2>4, Zenon
    <3>2. \A c \in Client : wire[c] = << >> /\ sent[c] = 0
      BY DEF ServerInit
    <3>3. Len(<< >>) = 0
      OBVIOUS
    <3>4. \A c \in Client : sent[c] <= Len(wire[c]) + 2
      BY <3>2, <3>3
    <3> QED
      BY <3>1, <3>2, <3>4 DEF WireInv
  <2> QED
    BY <2>1, <2>2, <2>5 DEF NetInv
<1>2. TypeOK /\ OwnPlace /\ NetInv /\ [ServerNext]_allVars => NetInv'
  BY NetTypeStep, FlowStep, WireStep, Zenon DEF NetInv
<1> QED
  BY <1>1, <1>2, ServerUsesPool, TypeCorrect, EachInOnePlace, PTL DEF ServerSpec

(* What was sent to c are the answers to ts, in pairs.                     *)
Paired(c, ts) ==
    /\ ts \in Seq(Task) /\ IsInjective(ts) /\ Len(wire[c]) = 2 * Len(ts)
    /\ \A j \in 1 .. Len(ts) :
          /\ wire[c][2 * j - 1] = Size(ts[j]) /\ wire[c][2 * j] = Body(ts[j])
          /\ ts[j][1] = c /\ ts[j] \in Range(accepted)

(* Every client was sent such pairs, or nothing as long as nobody serves.  *)
LEMMA PairsOnWire ==
  ASSUME OwnPlace, WireInv, NEW c \in Client
  PROVE  \E ts \in Seq(Task) : Paired(c, ts) /\ (serving => Answered(c, ts))
<1>1. CASE serving
  <2>1. PICK ts \in Seq(Task) : Answered(c, ts)
    BY <1>1 DEF WireInv
  <2>2. Paired(c, ts)
    BY <2>1 DEF Answered, Paired, OwnPlace
  <2> QED
    BY <2>1, <2>2
<1>2. CASE ~serving
  <2>1. wire[c] = << >> /\ << >> \in Seq(Task) /\ Len(<< >>) = 0
    BY <1>2 DEF WireInv
  <2>2. Paired(c, << >>)
    BY <2>1 DEF Paired, IsInjective
  <2> QED
    BY <1>2, <2>1, <2>2, Zenon
<1> QED
  BY <1>1, <1>2

(* The client reads whole answers, each to one of its lines that run()     *)
(* accepted and none twice, whatever the order in which the workers come   *)
(* back; in lock step, in the order of the lines and with at most one of   *)
(* them on its way.                                                        *)
THEOREM AnswersMatchTheLines == ServerSpec => []AnswersMatch
<1>1. TypeOK /\ OwnPlace /\ NetInv => AnswersMatch
  <2> SUFFICES ASSUME TypeOK, OwnPlace, NetTypeOK, Flow, WireInv, NEW c \in Client
               PROVE
        /\ \A i \in 1 .. Len(wire[c]) :
              IF i % 2 = 1
              THEN /\ wire[c][i].part = "size" /\ wire[c][i].line[1] = c
                   /\ i < Len(wire[c]) /\ wire[c][i + 1] = Body(wire[c][i].line)
                   /\ wire[c][i].line \in Range(accepted)
              ELSE wire[c][i].part = "body"
        /\ IsInjective(wire[c])
        /\ serving /\ c \in Lockstep =>
              /\ Cardinality(Pending(c)) <= 1
              /\ \A i \in 1 .. Len(wire[c]) : 2 * wire[c][i].line[2] \in {i, i + 1}
    BY Zenon DEF NetInv, AnswersMatch
  <2>1. PICK ts \in Seq(Task) : Paired(c, ts) /\ (serving => Answered(c, ts))
    BY PairsOnWire
  <2>2. /\ Len(ts) \in Nat /\ Len(wire[c]) = 2 * Len(ts) /\ IsInjective(ts)
        /\ DOMAIN ts = 1 .. Len(ts) /\ DOMAIN wire[c] = 1 .. Len(wire[c])
    BY <2>1 DEF Paired, NetTypeOK
  <2>3. ASSUME NEW i \in 1 .. Len(wire[c])
        PROVE  \E j \in 1 .. Len(ts) :
                  \/ i = 2 * j - 1 /\ i % 2 = 1 /\ wire[c][i] = Size(ts[j])
                  \/ i = 2 * j /\ i % 2 = 0 /\ wire[c][i] = Body(ts[j])
    <3>1. PICK j \in 1 .. Len(ts) : \/ i = 2 * j - 1 /\ i % 2 = 1
                                    \/ i = 2 * j /\ i % 2 = 0
      BY <2>2, Parity
    <3>2. wire[c][2 * j - 1] = Size(ts[j]) /\ wire[c][2 * j] = Body(ts[j])
      BY <2>1 DEF Paired
    <3>3. CASE i = 2 * j - 1 /\ i % 2 = 1
      <4>1. wire[c][i] = Size(ts[j])
        BY <3>2, <3>3, Zenon
      <4> QED
        BY <3>3, <4>1, Zenon
    <3>4. CASE i = 2 * j /\ i % 2 = 0
      <4>1. wire[c][i] = Body(ts[j])
        BY <3>2, <3>4, Zenon
      <4> QED
        BY <3>4, <4>1, Zenon
    <3> QED
      BY <3>1, <3>3, <3>4, Zenon
  <2>4. \A t : /\ Size(t).line = t /\ Size(t).part = "size"
               /\ Body(t).line = t /\ Body(t).part = "body"
    BY DEF Size, Body
  <2>5. ASSUME NEW i \in 1 .. Len(wire[c])
        PROVE  IF i % 2 = 1
               THEN /\ wire[c][i].part = "size" /\ wire[c][i].line[1] = c
                    /\ i < Len(wire[c]) /\ wire[c][i + 1] = Body(wire[c][i].line)
                    /\ wire[c][i].line \in Range(accepted)
               ELSE wire[c][i].part = "body"
    <3>1. PICK j \in 1 .. Len(ts) :
                  \/ i = 2 * j - 1 /\ i % 2 = 1 /\ wire[c][i] = Size(ts[j])
                  \/ i = 2 * j /\ i % 2 = 0 /\ wire[c][i] = Body(ts[j])
      BY <2>3
    <3>2. CASE i = 2 * j - 1 /\ i % 2 = 1 /\ wire[c][i] = Size(ts[j])
      <4>1. i < Len(wire[c]) /\ i + 1 = 2 * j
        BY <2>2, <3>2
      <4>2. wire[c][2 * j] = Body(ts[j]) /\ ts[j][1] = c /\ ts[j] \in Range(accepted)
        BY <2>1 DEF Paired
      <4> QED
        BY <2>4, <3>2, <4>1, <4>2
    <3>3. CASE i = 2 * j /\ i % 2 = 0 /\ wire[c][i] = Body(ts[j])
      BY <2>4, <3>3
    <3> QED
      BY <3>1, <3>2, <3>3
  <2>6. ASSUME NEW i \in 1 .. Len(wire[c]), NEW k \in 1 .. Len(wire[c]),
               wire[c][i] = wire[c][k]
        PROVE  i = k
    <3>1. PICK j \in 1 .. Len(ts) :
                  \/ i = 2 * j - 1 /\ i % 2 = 1 /\ wire[c][i] = Size(ts[j])
                  \/ i = 2 * j /\ i % 2 = 0 /\ wire[c][i] = Body(ts[j])
      BY <2>3
    <3>2. PICK l \in 1 .. Len(ts) :
                  \/ k = 2 * l - 1 /\ k % 2 = 1 /\ wire[c][k] = Size(ts[l])
                  \/ k = 2 * l /\ k % 2 = 0 /\ wire[c][k] = Body(ts[l])
      BY <2>3
    <3>3. wire[c][i].line = ts[j] /\ wire[c][k].line = ts[l]
      BY <2>4, <3>1, <3>2
    <3>4. j = l
      BY <2>2, <2>6, <3>3, Zenon DEF IsInjective
    <3>5. i = 2 * j - 1 <=> k = 2 * l - 1
      BY <2>4, <2>6, <3>1, <3>2
    <3> QED
      BY <3>1, <3>2, <3>4, <3>5
  <2>7. IsInjective(wire[c])
    BY <2>2, <2>6, Zenon DEF IsInjective
  <2>8. ASSUME serving, c \in Lockstep
        PROVE  /\ Cardinality(Pending(c)) <= 1
               /\ \A i \in 1 .. Len(wire[c]) : 2 * wire[c][i].line[2] \in {i, i + 1}
    <3>1. Answered(c, ts)
      BY <2>1, <2>8
    <3>2. ASSUME NEW t \in Pending(c)
          PROVE  t = <<c, Len(ts) + 1>>
      <4>1. t \in {c} \X (1 .. Lines) /\ t \in Task /\ t[1] = c
        BY <3>2, TasksAreLines DEF Pending
      <4>2. \/ t[2] > lines[c] /\ 2 * t[2] <= sent[c]
            \/ t \in Range(queue)
            \/ \E w \in Workers : t \in held[w]
        BY <3>2 DEF Pending
      <4>3. t[2] = Len(ts) + 1
        BY <2>8, <3>1, <4>1, <4>2, OneUnderWay
      <4> QED
        BY <4>1, <4>3
    <3>3. Cardinality(Pending(c)) <= 1
      <4>1. PICK u : u = <<c, Len(ts) + 1>>
        OBVIOUS
      <4>2. Pending(c) \in SUBSET {u} /\ IsFiniteSet({u}) /\ Cardinality({u}) = 1
        BY <3>2, <4>1, FS_Singleton
      <4>3. Cardinality(Pending(c)) <= Cardinality({u})
        BY <4>2, FS_Subset, Zenon
      <4> QED
        BY <4>2, <4>3
    <3>4. ASSUME NEW i \in 1 .. Len(wire[c])
          PROVE  2 * wire[c][i].line[2] \in {i, i + 1}
      <4>1. PICK j \in 1 .. Len(ts) :
                  \/ i = 2 * j - 1 /\ i % 2 = 1 /\ wire[c][i] = Size(ts[j])
                  \/ i = 2 * j /\ i % 2 = 0 /\ wire[c][i] = Body(ts[j])
        BY <2>3
      <4>2. wire[c][i].line = ts[j]
        BY <2>4, <4>1
      <4>3. ts[j][2] = j
        BY <2>8, <3>1 DEF Answered
      <4> QED
        BY <4>1, <4>2, <4>3
    <3> QED
      BY <3>3, <3>4
  <2> QED
    BY <2>5, <2>7, <2>8
<1> QED
  BY <1>1, NetIsInvariant, PTL
=============================================================================
