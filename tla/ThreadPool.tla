----------------------------- MODULE ThreadPool -----------------------------
(***************************************************************************)
(* base/ThreadPool.cc: a bounded queue of tasks under one mutex and one    *)
(* condition variable, the workers that take from it, run() called by any  *)
(* thread, and the owner that calls start() and stop().                    *)
(*                                                                         *)
(* What happens between lock and unlock is one step.  pthread_cond_wait    *)
(* gives the mutex back, so it cuts take() in two: a worker in "wait" is   *)
(* asleep and a worker in "woken" competes for the mutex again.            *)
(***************************************************************************)
EXTENDS Naturals, Sequences, FiniteSets, Functions

CONSTANTS Workers,        \* the threads of the pool
          Task,           \* tasks, each handed to run() at most once
          Capacity        \* _capacity, 0 unless setMaxQueueSize was called

ASSUME FiniteWorkers == IsFiniteSet(Workers)
ASSUME CapacityNat == Capacity \in Nat

VARIABLES owner,          \* where the thread that owns the pool is
          running,        \* _running
          queue,          \* _queue
          wpc,            \* where each worker is
          accepted,       \* history: tasks for which run() returned 0, in order
          refused,        \* history: tasks for which run() returned -1
          taken,          \* history: tasks popped by a worker, in order
          held            \* the set of the task each worker is calling, or empty

vars == <<owner, running, queue, wpc, accepted, refused, taken, held>>

At(pc) == {w \in Workers : wpc[w] = pc}

Init == /\ owner = "constructed"
        /\ running = FALSE
        /\ queue = << >>
        /\ wpc = [w \in Workers |-> "new"]
        /\ accepted = << >>
        /\ refused = {}
        /\ taken = << >>
        /\ held = [w \in Workers |-> {}]
-----------------------------------------------------------------------------
(* The owner.                                                              *)

(* start() sets _running before it creates the first thread ...            *)
Start ==
    /\ owner = "constructed"
    /\ owner' = IF Workers = {} THEN "up" ELSE "starting"
    /\ running' = TRUE
    /\ UNCHANGED <<queue, wpc, accepted, refused, taken, held>>

(* ... and waits for each thread to have begun (Thread::start, the latch). *)
StartThread(w) ==
    /\ owner = "starting"
    /\ wpc[w] = "new"
    /\ wpc' = [wpc EXCEPT ![w] = "check"]
    /\ owner' = IF At("new") = {w} THEN "up" ELSE owner
    /\ UNCHANGED <<running, queue, accepted, refused, taken, held>>

(* Mutant: stop() signals the condition instead of broadcasting it.        *)
StopNotifiesOne ==
    /\ owner = "up"
    /\ owner' = "joining"
    /\ running' = FALSE
    /\ wpc' \in IF At("wait") = {} THEN {wpc}
                ELSE {[wpc EXCEPT ![w] = "woken"] : w \in At("wait")}
    /\ UNCHANGED <<queue, accepted, refused, taken, held>>

Stop ==
    /\ owner = "up"
    /\ owner' = "joining"
    /\ running' = FALSE
    /\ wpc' = [w \in Workers |-> IF wpc[w] = "wait" THEN "woken" ELSE wpc[w]]
    /\ UNCHANGED <<queue, accepted, refused, taken, held>>

(* The last join() of stop() has returned.                                 *)
Joined ==
    /\ owner = "joining"
    /\ At("done") = Workers
    /\ owner' = "stopped"
    /\ UNCHANGED <<running, queue, wpc, accepted, refused, taken, held>>
-----------------------------------------------------------------------------
(* run(), called by any thread, before start() and after stop() as well.   *)

Fresh(t) == t \notin Range(accepted) \cup refused

RunRefused(t) ==
    /\ Fresh(t)
    /\ Len(queue) >= Capacity
    /\ refused' = refused \cup {t}
    /\ UNCHANGED <<owner, running, queue, wpc, accepted, taken, held>>

Enqueue(t) == /\ Fresh(t)
              /\ queue' = Append(queue, t)
              /\ accepted' = Append(accepted, t)

(* pthread_cond_signal: one of the sleeping workers, if there is any.      *)
Notify == \/ At("wait") = {} /\ wpc' = wpc
          \/ \E w \in At("wait") : wpc' = [wpc EXCEPT ![w] = "woken"]

(* Mutant: the condition is signalled only when the queue was empty.       *)
RunNotifiesIfEmpty(t) ==
    /\ Len(queue) < Capacity
    /\ Enqueue(t)
    /\ IF queue = << >> THEN Notify ELSE wpc' = wpc
    /\ UNCHANGED <<owner, running, refused, taken, held>>

(* Mutant: the task is queued and the condition never signalled.           *)
RunNeverNotifies(t) ==
    /\ Len(queue) < Capacity
    /\ Enqueue(t)
    /\ UNCHANGED <<owner, running, wpc, refused, taken, held>>

Run(t) ==
    /\ Len(queue) < Capacity
    /\ Enqueue(t)
    /\ Notify
    /\ UNCHANGED <<owner, running, refused, taken, held>>
-----------------------------------------------------------------------------
(* The workers.                                                            *)

(* while (_running), read without the mutex.                               *)
Check(w) ==
    /\ wpc[w] = "check"
    /\ wpc' = [wpc EXCEPT ![w] = IF running THEN "take" ELSE "done"]
    /\ UNCHANGED <<owner, running, queue, accepted, refused, taken, held>>

(* In take(), with the mutex: on entry and every time wait() returns.      *)
InTake(w) == wpc[w] \in {"take", "woken"}

Sleep(w) ==
    /\ InTake(w)
    /\ queue = << >>
    /\ running
    /\ wpc' = [wpc EXCEPT ![w] = "wait"]
    /\ UNCHANGED <<owner, running, queue, accepted, refused, taken, held>>

(* take() returns an empty Task: the pool was stopped.                     *)
TakeNothing(w) ==
    /\ InTake(w)
    /\ queue = << >>
    /\ ~running
    /\ wpc' = [wpc EXCEPT ![w] = "check"]
    /\ UNCHANGED <<owner, running, queue, accepted, refused, taken, held>>

(* Mutant: the last task is served first.                                  *)
TakeLast(w) ==
    /\ InTake(w)
    /\ queue # << >>
    /\ held' = [held EXCEPT ![w] = {queue[Len(queue)]}]
    /\ taken' = Append(taken, queue[Len(queue)])
    /\ queue' = SubSeq(queue, 1, Len(queue) - 1)
    /\ wpc' = [wpc EXCEPT ![w] = "exec"]
    /\ UNCHANGED <<owner, running, accepted, refused>>

TakeTask(w) ==
    /\ InTake(w)
    /\ queue # << >>
    /\ held' = [held EXCEPT ![w] = {Head(queue)}]
    /\ taken' = Append(taken, Head(queue))
    /\ queue' = Tail(queue)
    /\ wpc' = [wpc EXCEPT ![w] = "exec"]
    /\ UNCHANGED <<owner, running, accepted, refused>>

(* The task returns.                                                       *)
Finish(w) ==
    /\ wpc[w] = "exec"
    /\ held' = [held EXCEPT ![w] = {}]
    /\ wpc' = [wpc EXCEPT ![w] = "check"]
    /\ UNCHANGED <<owner, running, queue, accepted, refused, taken>>

(* pthread_cond_wait may return without a signal.                          *)
SpuriousWakeup(w) ==
    /\ wpc[w] = "wait"
    /\ wpc' = [wpc EXCEPT ![w] = "woken"]
    /\ UNCHANGED <<owner, running, queue, accepted, refused, taken, held>>
-----------------------------------------------------------------------------
WorkerStep(w) == \/ Check(w) \/ Sleep(w) \/ TakeNothing(w)
                 \/ TakeTask(w) \/ Finish(w)

Next == \/ Start \/ Stop \/ Joined
        \/ \E t \in Task : Run(t) \/ RunRefused(t)
        \/ \E w \in Workers : StartThread(w) \/ WorkerStep(w) \/ SpuriousWakeup(w)

Spec == Init /\ [][Next]_vars

(* Workers keep running and get the mutex in the end, tasks return, and    *)
(* the owner goes on with start() and with stop() once it has begun one.   *)
(* Nothing forces a call of start(), run() or stop(), nor a wakeup without *)
(* a signal.                                                               *)
FairSpec == /\ Spec
            /\ WF_vars(Joined)
            /\ \A w \in Workers : WF_vars(StartThread(w)) /\ WF_vars(WorkerStep(w))
-----------------------------------------------------------------------------
WorkerPc == {"new", "check", "take", "wait", "woken", "exec", "done"}

(* The types, the bound on the queue, and who holds a task and when.       *)
TypeOK ==
    /\ owner \in {"constructed", "starting", "up", "joining", "stopped"}
    /\ running \in BOOLEAN
    /\ running <=> owner \in {"starting", "up"}
    /\ queue \in Seq(Task) /\ Len(queue) <= Capacity
    /\ wpc \in [Workers -> WorkerPc]
    /\ accepted \in Seq(Task) /\ taken \in Seq(Task)
    /\ refused \in SUBSET Task
    /\ held \in [Workers -> SUBSET Task]
    /\ \A w \in Workers : held[w] # {} => wpc[w] = "exec"

(* Every task that run() accepted has been taken or is still queued, in    *)
(* the order in which run() accepted them, also across start() and stop(). *)
NothingLost == accepted = taken \o queue

(* No worker sleeps while there is work for it: if a worker is asleep,     *)
(* every queued task has a worker of its own that was woken for it and has *)
(* not yet got the mutex.  One signal per accepted task is enough although *)
(* a worker that was busy may take a task before the one woken for it.     *)
WorkConserving ==
    At("wait") # {} => Len(queue) <= Cardinality(At("woken"))

(* stop() finds every worker: none goes to sleep after its broadcast.      *)
StopWakesAll == owner \in {"joining", "stopped"} => At("wait") = {}

(* The order of the pops is that of an abstract executor, whatever the     *)
(* number of workers.                                                      *)
Executor == INSTANCE TaskExecutor WITH Functor <- Task,
                                       submitted <- accepted,
                                       executed <- taken
ImplementsExecutor == Executor!ExecSpec

(* An accepted task is taken and its worker comes back from it, unless the *)
(* pool is never started or is stopped first.                              *)
EveryTaskFinishes ==
    \A t \in Task : t \in Range(accepted) /\ running
        ~> \/ ~running
           \/ t \in Range(taken) /\ \A w \in Workers : t \notin held[w]

(* stop() returns: every worker leaves its loop.                           *)
StopReturns == owner = "joining" ~> owner = "stopped"
=============================================================================
