------------------------------ MODULE EventLoop ------------------------------
(***************************************************************************)
(* net/EventLoop.cc: one loop, its own thread, and the other threads that  *)
(* call queueInLoop() and quit() on it.                                    *)
(*                                                                         *)
(* The loop thread goes round test -> poll -> dispatch -> drain.  A caller *)
(* pushes a functor under _mutex and writes to the eventfd in a SECOND     *)
(* step, so that a poll, a read of the eventfd or a swap of the pending    *)
(* vector can come in between.  Steps of the loop thread that no other     *)
(* thread can tell apart are one action.                                   *)
(*                                                                         *)
(* The eventfd is abstracted to "its counter is positive": write() adds    *)
(* one, read() resets it, and only epoll_wait looks at it.                 *)
(***************************************************************************)
EXTENDS Naturals, Sequences, Functions

CONSTANTS Callers,        \* threads other than the loop's own
          Functor         \* functors, each handed to queueInLoop at most once

VARIABLES lpc,            \* where the loop thread is; "out" is _looping = false
          quit,           \* _quit
          calling,        \* _callingPendingFunctors
          pending,        \* _pendingFunctors
          batch,          \* what is left of the local vector of doPendingFunctors
          active,         \* _activeChannels: the wakeup channel and one other
          wakeFd,         \* the counter of _wakeupFd is positive
          cpc,            \* "wake": the caller has still to write to the eventfd
          submitted,      \* history: the functors pushed, in order
          executed,       \* history: the functors called, in order
          early,          \* history: pushed by the loop thread outside loop()
          quitInLoop      \* history: quit() was called since loop() was entered

vars == <<lpc, quit, calling, pending, batch, active, wakeFd, cpc,
          submitted, executed, early, quitInLoop>>

Waking == \E c \in Callers : cpc[c] = "wake"

(* The loop thread runs user code: before or after loop(), in the callback *)
(* of a channel, or in a functor.                                          *)
InUserCode == \/ lpc \in {"out", "functor"}
              \/ lpc = "dispatch" /\ "other" \in active

Init == /\ lpc = "out"
        /\ quit = FALSE
        /\ calling = FALSE
        /\ pending = << >>
        /\ batch = << >>
        /\ active = {}
        /\ wakeFd = FALSE
        /\ cpc = [c \in Callers |-> "idle"]
        /\ submitted = << >>
        /\ executed = << >>
        /\ early = {}
        /\ quitInLoop = FALSE
-----------------------------------------------------------------------------
(* Calls made by the other threads.                                        *)

Push(f) == /\ f \in Functor \ Range(submitted)
           /\ pending' = Append(pending, f)
           /\ submitted' = Append(submitted, f)

(* Mutant: an eventfd write is judged needless while functors are called.  *)
PushSkipsWakeup(c, f) ==
    /\ cpc[c] = "idle"
    /\ Push(f)
    /\ cpc' = [cpc EXCEPT ![c] = IF calling THEN "idle" ELSE "wake"]
    /\ UNCHANGED <<lpc, quit, calling, batch, active, wakeFd, executed, early,
                   quitInLoop>>

(* queueInLoop() from another thread: the push, under _mutex ...           *)
CallerPush(c, f) ==
    /\ cpc[c] = "idle"
    /\ Push(f)
    /\ cpc' = [cpc EXCEPT ![c] = "wake"]
    /\ UNCHANGED <<lpc, quit, calling, batch, active, wakeFd, executed, early,
                   quitInLoop>>

(* Mutant: quit() does not wake the loop.                                  *)
QuitWithoutWakeup(c) ==
    /\ cpc[c] = "idle"
    /\ quit' = TRUE
    /\ quitInLoop' = (lpc # "out")
    /\ UNCHANGED <<lpc, calling, pending, batch, active, wakeFd, cpc,
                   submitted, executed, early>>

(* quit() from another thread ...                                          *)
CallerQuit(c) ==
    /\ cpc[c] = "idle"
    /\ quit' = TRUE
    /\ quitInLoop' = (lpc # "out")
    /\ cpc' = [cpc EXCEPT ![c] = "wake"]
    /\ UNCHANGED <<lpc, calling, pending, batch, active, wakeFd, submitted,
                   executed, early>>

(* ... and then wakeup(), in both.                                         *)
Wakeup(c) ==
    /\ cpc[c] = "wake"
    /\ wakeFd' = TRUE
    /\ cpc' = [cpc EXCEPT ![c] = "idle"]
    /\ UNCHANGED <<lpc, quit, calling, pending, batch, active, submitted,
                   executed, early, quitInLoop>>
-----------------------------------------------------------------------------
(* Calls made by the loop thread itself.                                   *)

(* Mutant: the test of _callingPendingFunctors is missing.                 *)
OwnPushNeverWakes(f) ==
    /\ InUserCode
    /\ Push(f)
    /\ early' = IF lpc = "out" THEN early \cup {f} ELSE early
    /\ UNCHANGED <<lpc, quit, calling, batch, active, wakeFd, cpc, executed,
                   quitInLoop>>

(* queueInLoop() from the loop thread: the eventfd is written only while   *)
(* doPendingFunctors is calling functors.                                  *)
OwnPush(f) ==
    /\ InUserCode
    /\ Push(f)
    /\ wakeFd' = (wakeFd \/ calling)
    /\ early' = IF lpc = "out" THEN early \cup {f} ELSE early
    /\ UNCHANGED <<lpc, quit, calling, batch, active, cpc, executed, quitInLoop>>

OwnQuit ==
    /\ InUserCode
    /\ quit' = TRUE
    /\ quitInLoop' = (lpc # "out")
    /\ UNCHANGED <<lpc, calling, pending, batch, active, wakeFd, cpc,
                   submitted, executed, early>>
-----------------------------------------------------------------------------
(* loop()                                                                  *)

(* Whatever quit() was called before is forgotten here.                    *)
Enter ==
    /\ lpc = "out"
    /\ lpc' = "test"
    /\ quit' = FALSE
    /\ quitInLoop' = FALSE
    /\ UNCHANGED <<calling, pending, batch, active, wakeFd, cpc, submitted,
                   executed, early>>

(* while(!_quit)                                                           *)
Test ==
    /\ lpc = "test"
    /\ lpc' = IF quit THEN "out" ELSE "poll"
    /\ UNCHANGED <<quit, calling, pending, batch, active, wakeFd, cpc,
                   submitted, executed, early, quitInLoop>>

PollReturns(channels) ==
    /\ lpc = "poll"
    /\ active' = channels
    /\ lpc' = "dispatch"
    /\ UNCHANGED <<quit, calling, pending, batch, wakeFd, cpc, submitted,
                   executed, early, quitInLoop>>

(* epoll_wait reports the eventfd, and perhaps another channel.            *)
PollWakeup == wakeFd /\ \E o \in SUBSET {"other"} : PollReturns({"wakeup"} \cup o)

(* It reports another channel only.                                        *)
PollOther == ~wakeFd /\ PollReturns({"other"})

(* kPollTimeMs has passed.                                                 *)
PollTimeout == ~wakeFd /\ PollReturns({})

(* EventLoop::handleRead, called by the wakeup channel.                    *)
HandleRead ==
    /\ lpc = "dispatch"
    /\ "wakeup" \in active
    /\ wakeFd' = FALSE
    /\ active' = active \ {"wakeup"}
    /\ UNCHANGED <<lpc, quit, calling, pending, batch, cpc, submitted, executed,
                   early, quitInLoop>>

(* The callback of the other channel returns; what it did are the steps    *)
(* OwnPush and OwnQuit taken while it was active.                          *)
OtherReturns ==
    /\ lpc = "dispatch"
    /\ "other" \in active
    /\ active' = active \ {"other"}
    /\ UNCHANGED <<lpc, quit, calling, pending, batch, wakeFd, cpc, submitted,
                   executed, early, quitInLoop>>

(* doPendingFunctors: set the flag, swap under _mutex.                     *)
Swap ==
    /\ lpc = "dispatch"
    /\ active = {}
    /\ lpc' = "drain"
    /\ calling' = TRUE
    /\ batch' = pending
    /\ pending' = << >>
    /\ UNCHANGED <<quit, active, wakeFd, cpc, submitted, executed, early,
                   quitInLoop>>

(* Mutant: the functors of a batch are called from the last to the first.  *)
RunLastFirst ==
    /\ lpc = "drain"
    /\ batch # << >>
    /\ executed' = Append(executed, batch[Len(batch)])
    /\ batch' = SubSeq(batch, 1, Len(batch) - 1)
    /\ lpc' = "functor"
    /\ UNCHANGED <<quit, calling, pending, active, wakeFd, cpc, submitted,
                   early, quitInLoop>>

(* for(auto & cb : functors) cb();                                         *)
RunNext ==
    /\ lpc = "drain"
    /\ batch # << >>
    /\ executed' = Append(executed, Head(batch))
    /\ batch' = Tail(batch)
    /\ lpc' = "functor"
    /\ UNCHANGED <<quit, calling, pending, active, wakeFd, cpc, submitted,
                   early, quitInLoop>>

FunctorReturns ==
    /\ lpc = "functor"
    /\ lpc' = "drain"
    /\ UNCHANGED <<quit, calling, pending, batch, active, wakeFd, cpc,
                   submitted, executed, early, quitInLoop>>

DrainEnd ==
    /\ lpc = "drain"
    /\ batch = << >>
    /\ calling' = FALSE
    /\ lpc' = "test"
    /\ UNCHANGED <<quit, pending, batch, active, wakeFd, cpc, submitted,
                   executed, early, quitInLoop>>
-----------------------------------------------------------------------------
CallerNext == \E c \in Callers : \/ \E f \in Functor : CallerPush(c, f)
                                 \/ CallerQuit(c)
                                 \/ Wakeup(c)

LoopNext == \/ \E f \in Functor : OwnPush(f)
            \/ OwnQuit
            \/ Enter \/ Test
            \/ PollWakeup \/ PollOther \/ PollTimeout
            \/ HandleRead \/ OtherReturns
            \/ Swap \/ RunNext \/ FunctorReturns \/ DrainEnd

Next == CallerNext \/ LoopNext

Spec == Init /\ [][Next]_vars

(* A caller that has pushed goes on to wakeup(), and the loop thread keeps *)
(* running; a channel callback and a functor return.  epoll_wait returns   *)
(* when the eventfd is readable, but nothing makes another channel ready.  *)
LoopFairness ==
    /\ \A c \in Callers : WF_vars(Wakeup(c))
    /\ WF_vars(Test) /\ WF_vars(PollWakeup)
    /\ WF_vars(HandleRead) /\ WF_vars(OtherReturns)
    /\ WF_vars(Swap) /\ WF_vars(RunNext)
    /\ WF_vars(FunctorReturns) /\ WF_vars(DrainEnd)

(* This leaves out the ten-second timeout of epoll_wait, so that nothing   *)
(* is true only thanks to it ...                                           *)
FairSpec == Spec /\ LoopFairness

(* ... and this adds it: kPollTimeMs bounds every call of epoll_wait.      *)
PollsTimeOut == WF_vars(PollTimeout)
-----------------------------------------------------------------------------
LoopPc == {"out", "test", "poll", "dispatch", "drain", "functor"}

(* The types, and the shape of the loop: _callingPendingFunctors is set    *)
(* exactly while a batch is being called, functors are left in the local   *)
(* vector only then, and the list of active channels is used up before.    *)
TypeOK ==
    /\ lpc \in LoopPc
    /\ quit \in BOOLEAN /\ calling \in BOOLEAN /\ wakeFd \in BOOLEAN
    /\ quitInLoop \in BOOLEAN
    /\ pending \in Seq(Functor) /\ batch \in Seq(Functor)
    /\ submitted \in Seq(Functor) /\ executed \in Seq(Functor)
    /\ early \in SUBSET Functor
    /\ active \in SUBSET {"wakeup", "other"}
    /\ cpc \in [Callers -> {"idle", "wake"}]
    /\ calling <=> lpc \in {"drain", "functor"}
    /\ batch # << >> => lpc \in {"drain", "functor"}
    /\ active # {} => lpc = "dispatch"

(* Every functor handed to queueInLoop is in exactly one of three places,  *)
(* in the order of the pushes: already called, in the batch, or pending.   *)
(* No interleaving of push, swap and call loses, repeats or reorders one.  *)
NothingLost == submitted = executed \o (batch \o pending)

(* While the loop is blocked in epoll_wait with an unreadable eventfd, a   *)
(* functor can only be waiting if its caller is still on the way to        *)
(* wakeup(), or if the loop thread pushed it before entering loop().       *)
NoLostWakeup ==
    lpc = "poll" /\ ~wakeFd /\ ~Waking => Range(pending) \subseteq early

(* A quit() of another thread is not slept through either.                 *)
QuitNotSleptThrough == lpc = "poll" /\ quit => wakeFd \/ Waking

(* The loop implements the abstract executor.                              *)
Executor == INSTANCE TaskExecutor
ImplementsExecutor == Executor!ExecSpec

(* Every functor is called, unless the loop is stopped: without any help   *)
(* from the poll timeout or from other channels, except for those that the *)
(* loop thread pushed before loop(), which may have to wait for it.        *)
EveryFunctorRuns ==
    \A f \in Functor :
        /\ f \in Range(submitted) \ early ~> f \in Range(executed) \/ lpc = "out"
        /\ PollsTimeOut =>
              (f \in Range(submitted) ~> f \in Range(executed) \/ lpc = "out")

(* quit() called while loop() runs makes loop() return.                    *)
QuitStops == quitInLoop ~> lpc = "out"
=============================================================================
