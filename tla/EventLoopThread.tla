--------------------------- MODULE EventLoopThread ---------------------------
(***************************************************************************)
(* The life of a loop in a thread: either the base loop, which the main    *)
(* thread enters (and may enter again), or the loop of an EventLoopThread  *)
(* (net/EventLoopThread.cc), a local variable of a thread that base/       *)
(* Thread.cc starts.                                                       *)
(*                                                                         *)
(* The owner of the EventLoopThread goes through two handshakes with the   *)
(* new thread before it has the loop: Thread::start waits on a             *)
(* CountDownLatch until the thread runs, and startLoop waits on _cond      *)
(* until _loop is set, which is BEFORE the thread enters loop().  The      *)
(* destructor calls quit() and joins.                                      *)
(***************************************************************************)
EXTENDS EventLoop

CONSTANT Owner            \* the thread that owns the EventLoopThread

ASSUME OwnerIsACaller == Owner \in Callers

VARIABLES thread,         \* the new thread; "main": there is none
          owner,          \* the pc of the owner
          latch,          \* CountDownLatch::_count
          loopSet         \* _loop # NULL

threadVars == <<thread, owner, latch, loopSet>>

ThreadInit == /\ Init
              /\ thread \in {"main", "none"}
              /\ owner = "built"
              /\ latch = 1
              /\ loopSet = FALSE
-----------------------------------------------------------------------------
(* The owner.  A wait on a condition is a sleep and a new test.            *)

OwnerGoes(from, to) == /\ owner = from
                       /\ owner' = to
                       /\ UNCHANGED <<latch, loopSet, vars>>

(* startLoop() calls Thread::start(): pthread_create, then _latch.wait().  *)
CreateThread == /\ thread = "none"
                /\ thread' = "created"
                /\ OwnerGoes("built", "latch")

OwnerStep ==
    /\ UNCHANGED thread
    /\ \/ latch > 0 /\ OwnerGoes("latch", "latchSleep")
       \/ latch = 0 /\ OwnerGoes("latch", "start")
       \/ ~loopSet /\ OwnerGoes("start", "startSleep")
       \/ loopSet /\ OwnerGoes("start", "up")

(* pthread_cond_wait may return without a notify.                          *)
SpuriousWakeup == /\ UNCHANGED thread
                  /\ \/ OwnerGoes("latchSleep", "latch")
                     \/ OwnerGoes("startSleep", "start")

(* ~EventLoopThread: quit(), when the other callers are done with the      *)
(* loop, sets the flag ...                                                 *)
Destroy == /\ owner = "up"
           /\ ~Waking
           /\ CallerQuit(Owner)
           /\ owner' = "quitting"
           /\ UNCHANGED <<thread, latch, loopSet>>

(* ... and then calls isInLoopThread() and wakeup() on the loop, ...       *)
DestroyWakes == /\ owner = "quitting"
                /\ thread # "ended"
                /\ Wakeup(Owner)
                /\ owner' = "joining"
                /\ UNCHANGED <<thread, latch, loopSet>>

(* ... which the thread may have destroyed by then: it has only to see the *)
(* flag.  _thead_id and _wakeupFd are read in a dead object, and the write *)
(* goes to a descriptor that is closed or someone else's.  What the        *)
(* program does afterwards is undefined and not followed: of Wakeup(Owner) *)
(* nothing counts but that the owner does not call it again.               *)
DestroyDangles == /\ owner = "quitting"
                  /\ thread = "ended"
                  /\ Wakeup(Owner)
                  /\ owner' = "dangling"
                  /\ UNCHANGED <<thread, latch, loopSet>>

Join == /\ thread = "ended"
        /\ UNCHANGED thread
        /\ OwnerGoes("joining", "joined")
-----------------------------------------------------------------------------
(* The new thread.                                                         *)

Woken(asleep, awake) == owner' = IF owner = asleep THEN awake ELSE owner

(* Mutant: the latch is counted down without a notifyAll.                  *)
BeginsSilently == /\ thread = "created"
                  /\ thread' = "begun"
                  /\ latch' = latch - 1
                  /\ UNCHANGED <<owner, loopSet, vars>>

(* ThreadData::runInThread: _latch->cutDown().                             *)
Begins == /\ thread = "created"
          /\ thread' = "begun"
          /\ latch' = latch - 1
          /\ Woken("latchSleep", "latch")
          /\ UNCHANGED <<loopSet, vars>>

(* threadFunc: _loop = &loop; _cond.notify().                              *)
Publishes == /\ thread = "begun"
             /\ thread' = "published"
             /\ loopSet' = TRUE
             /\ Woken("startSleep", "start")
             /\ UNCHANGED <<latch, vars>>

EntersLoop == /\ thread = "published"
              /\ thread' = "looping"
              /\ Enter
              /\ UNCHANGED <<owner, latch, loopSet>>

(* while(!_quit): when loop() returns the thread and its loop are gone.    *)
TestsQuit == /\ thread = "looping"
             /\ thread' = IF quit THEN "ended" ELSE thread
             /\ Test
             /\ UNCHANGED <<owner, latch, loopSet>>

(* The rest of loop(), as in the base loop; nothing that runs on this      *)
(* thread calls quit().                                                    *)
GoesRound ==
    /\ thread = "looping"
    /\ \/ lpc # "out" /\ \E f \in Functor : OwnPush(f)
       \/ PollWakeup \/ PollOther \/ PollTimeout
       \/ HandleRead \/ OtherReturns
       \/ Swap \/ RunNext \/ FunctorReturns \/ DrainEnd
    /\ UNCHANGED threadVars

(* Other threads, and the owner, use the loop once startLoop() has handed  *)
(* it out and until the destructor begins.                                 *)
UsesLoop == /\ owner = "up"
            /\ \E c \in Callers : \/ \E f \in Functor : CallerPush(c, f)
                                  \/ Wakeup(c)
            /\ UNCHANGED threadVars
-----------------------------------------------------------------------------
MainNext == thread = "main" /\ Next /\ UNCHANGED threadVars

ThreadNext == \/ CreateThread \/ OwnerStep \/ SpuriousWakeup
              \/ Destroy \/ DestroyWakes \/ DestroyDangles \/ Join
              \/ Begins \/ Publishes \/ EntersLoop \/ TestsQuit
              \/ GoesRound \/ UsesLoop

(* The only states in which nothing is left to do, or nothing can be said. *)
Over == owner \in {"joined", "dangling"} /\ UNCHANGED <<vars, threadVars>>

LifeNext == MainNext \/ ThreadNext \/ Over

allVars == <<vars, threadVars>>

LifeSpec == ThreadInit /\ [][LifeNext]_allVars

(* The loop runs as fairly as in EventLoop; both threads of an             *)
(* EventLoopThread keep running, and its owner goes from quit() to join(). *)
FairLife ==
    /\ LifeSpec
    /\ LoopFairness
    /\ WF_allVars(OwnerStep) /\ WF_allVars(Join)
    /\ WF_allVars(DestroyWakes \/ DestroyDangles)
    /\ WF_allVars(Begins) /\ WF_allVars(Publishes) /\ WF_allVars(EntersLoop)
-----------------------------------------------------------------------------
Destroying == {"quitting", "joining", "joined", "dangling"}

(* The type invariant, with where each handshake stands: the owner is past *)
(* the latch only when the thread has begun, and it has the loop only when *)
(* _loop is set; a loop runs in a thread only after that, and it ends only *)
(* when the owner has called quit().                                       *)
LifeTypeOK ==
    /\ TypeOK
    /\ thread \in {"main", "none", "created", "begun", "published", "looping",
                   "ended"}
    /\ owner \in {"built", "latch", "latchSleep", "start", "startSleep", "up"}
                   \cup Destroying
    /\ latch \in 0..1 /\ loopSet \in BOOLEAN
    /\ thread \in {"main", "none"} <=> owner = "built"
    /\ latch = 0 <=> thread \in {"begun", "published", "looping", "ended"}
    /\ loopSet <=> thread \in {"published", "looping", "ended"}
    /\ owner \in {"start", "startSleep"} => latch = 0
    /\ owner \in {"up"} \cup Destroying => loopSet
    /\ thread = "ended" \/ (thread # "main" /\ quit) => owner \in Destroying

(* Two threads start together and end together, as far as the code sees to *)
(* it.  No notify of the two handshakes is missed: startLoop() returns.    *)
(* What becomes of the destructor depends on where its quit() finds the    *)
(* thread.  In loop(): the thread leaves, and the destructor returns if    *)
(* the wakeup came first; if the thread saw _quit before, it is called on  *)
(* a destroyed loop.  Between _loop = &loop and loop(), which forgets      *)
(* _quit: the destructor joins a thread that goes round for ever.          *)
ThreadStartsAndStops ==
    /\ owner = "latch" ~> owner = "up"
    /\ owner = "joining" /\ quitInLoop ~> owner = "joined"
    /\ owner = "quitting" /\ quitInLoop ~> owner \in {"joined", "dangling"}
    /\ owner = "quitting" /\ ~quitInLoop
          ~> [](owner = "joining" /\ thread = "looping")
=============================================================================
