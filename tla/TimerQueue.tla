----------------------------- MODULE TimerQueue -----------------------------
(***************************************************************************)
(* net/TimerQueue.cc and Timer.h: the timers of one loop, ordered by their *)
(* time, and the one timerfd that is armed for the earliest.               *)
(*                                                                         *)
(* Times are those of the wall clock, which may be set; the timerfd counts *)
(* monotonic time.  A tick is a unit of both; the least time for which the *)
(* timerfd is armed, 100 microseconds, is one tick.  handleRead takes the  *)
(* time, reads the timerfd, calls the timers and arms the timerfd again in *)
(* steps of their own, and time goes on between any two of them.           *)
(***************************************************************************)
EXTENDS Integers, Sequences, FiniteSetsExt

CONSTANTS Timer,          \* timers, each added at most once
          Interval,       \* per timer: _interval, 0 if it does not repeat
          MaxTime,        \* bound: the wall clock stays there when it gets there
          MaxSteps        \* bound: how often the wall clock is set

ASSUME IntervalAssumption == Interval \in [Timer -> Nat]
ASSUME BoundsAssumption == MaxTime \in Nat \ {0} /\ MaxSteps \in Nat

VARIABLES timers,         \* _timers, as entries [when, timer]
          left, readable, \* the timerfd: ticks until it fires, 0 if it is not
                          \* armed; and whether it has fired and was not read
          lpc,            \* where the loop is
          now,            \* handleRead: now
          batch, called,  \* handleRead: the entries of expired that are still
                          \* to be called, and those that were
          requests,       \* functors of addTimer that are still to run
          clock,          \* the wall clock
          ahead,          \* history: ticks it was set forward since the
                          \* timerfd was armed
          steps,          \* history: how often it was set
          runs, seen      \* history: see TimerService

fd == <<left, readable, ahead>>
handler == <<now, batch, called>>
world == <<clock, steps, seen>>
vars == <<timers, fd, lpc, handler, requests, world, runs>>

Entry(t, when) == [timer |-> t, when |-> when]
Earliest(T) == Min({e.when : e \in T})

Init == /\ timers = {}
        /\ left = 0 /\ readable = FALSE
        /\ lpc = "idle"
        /\ now = 0 /\ batch = {} /\ called = {}
        /\ requests = << >>
        /\ clock = 1 /\ ahead = 0 /\ steps = 0
        /\ runs = [t \in Timer |-> 0]
        /\ seen = 1

(* When a timer is due, whatever place it is in.                           *)
Repeats(t) == Interval[t] > 0
Restarted == {Entry(e.timer, now + Interval[e.timer]) :
                 e \in {f \in called : Repeats(f.timer)}}
Known == timers \cup batch \cup Restarted \cup {requests[i] : i \in DOMAIN requests}
Due(t) == {e.when : e \in {f \in Known : f.timer = t}}
-----------------------------------------------------------------------------
(* addTimer                                                                *)

(* setTimerfd, which also discards an expiry that was not read.            *)
Arm(when) == /\ left' = IF when > clock THEN when - clock ELSE 1
             /\ readable' = FALSE
             /\ ahead' = 0

Insert(e) == /\ e \notin timers
             /\ timers' = timers \cup {e}

(* Mutant: the timerfd is armed only if the queue was empty.               *)
AddArmsIfEmpty(e) ==
    /\ Insert(e)
    /\ IF timers = {} THEN Arm(e.when) ELSE UNCHANGED fd

AddTimerInLoop(e) ==
    /\ Insert(e)
    /\ IF timers = {} \/ e.when < Earliest(timers) THEN Arm(e.when)
                                                   ELSE UNCHANGED fd

Fresh(t) == runs[t] = 0 /\ Due(t) = {}

(* By another thread: the timer goes to the loop as a functor.             *)
AddFromThread(t, when) ==
    /\ Fresh(t)
    /\ requests' = Append(requests, Entry(t, when))
    /\ UNCHANGED <<timers, fd, lpc, handler, world, runs>>

RunRequest ==
    /\ lpc = "idle"
    /\ requests # << >>
    /\ AddTimerInLoop(Head(requests))
    /\ requests' = Tail(requests)
    /\ UNCHANGED <<lpc, handler, world, runs>>

(* By the loop's own thread: in a functor, in the callback of a channel    *)
(* that comes before the timerfd, or in a timer.                           *)
AddFromLoop(t, when) ==
    /\ lpc \in {"idle", "polled", "run"}
    /\ Fresh(t)
    /\ AddTimerInLoop(Entry(t, when))
    /\ UNCHANGED <<lpc, handler, requests, world, runs>>
-----------------------------------------------------------------------------
(* handleRead                                                              *)

(* epoll_wait has reported the timerfd.                                    *)
Poll ==
    /\ lpc = "idle" /\ readable
    /\ lpc' = "polled"
    /\ UNCHANGED <<timers, fd, handler, requests, world, runs>>

TakeTime ==
    /\ lpc = "polled"
    /\ now' = clock
    /\ lpc' = "read"
    /\ UNCHANGED <<timers, fd, batch, called, requests, world, runs>>

GetExpired == {e \in timers : e.when <= now}

(* readTimerfd and getExpired.  There may be nothing to read, if a timer   *)
(* was added since the poll.                                               *)
ReadTimerfd ==
    /\ lpc = "read"
    /\ readable' = FALSE
    /\ batch' = GetExpired
    /\ timers' = timers \ GetExpired
    /\ lpc' = "run"
    /\ UNCHANGED <<left, ahead, now, called, requests, world, runs>>

RunTimer(e) ==
    /\ lpc = "run"
    /\ e \in batch /\ e.when = Earliest(batch)
    /\ batch' = batch \ {e}
    /\ called' = called \cup {e}
    /\ runs' = [runs EXCEPT ![e.timer] = @ + 1]
    /\ UNCHANGED <<timers, fd, lpc, now, requests, world>>

(* Mutant: the timerfd is armed again only for timers that repeat.         *)
ResetArmsRepeatsOnly ==
    /\ lpc = "run" /\ batch = {}
    /\ timers' = timers \cup Restarted
    /\ IF Restarted # {} THEN Arm(Earliest(timers')) ELSE UNCHANGED fd
    /\ lpc' = "idle"
    /\ called' = {}
    /\ UNCHANGED <<now, batch, requests, world, runs>>

(* Mutant: what was called is inserted as it was, with its old time.       *)
ResetWithoutRestart ==
    /\ lpc = "run" /\ batch = {}
    /\ timers' = timers \cup {e \in called : Repeats(e.timer)}
    /\ IF timers' # {} /\ Earliest(timers') > 0 THEN Arm(Earliest(timers'))
                                               ELSE UNCHANGED fd
    /\ lpc' = "idle"
    /\ called' = {}
    /\ UNCHANGED <<now, batch, requests, world, runs>>

(* reset: time 0 is not valid(), and the timerfd is not armed for it.      *)
Reset ==
    /\ lpc = "run" /\ batch = {}
    /\ timers' = timers \cup Restarted
    /\ IF timers' # {} /\ Earliest(timers') > 0 THEN Arm(Earliest(timers'))
                                               ELSE UNCHANGED fd
    /\ lpc' = "idle"
    /\ called' = {}
    /\ UNCHANGED <<now, batch, requests, world, runs>>
-----------------------------------------------------------------------------
(* Time.                                                                   *)

Shows(time) == clock' = time /\ seen' = Max({seen, time})

Tick ==
    /\ Shows(Min({clock + 1, MaxTime}))
    /\ left' = IF left > 0 THEN left - 1 ELSE 0
    /\ readable' = (readable \/ left = 1)
    /\ UNCHANGED <<timers, lpc, handler, requests, ahead, steps, runs>>

(* The wall clock is set; the timerfd does not notice.                     *)
SetClock(time) ==
    /\ steps < MaxSteps
    /\ Shows(time)
    /\ steps' = steps + 1
    /\ ahead' = IF time > clock THEN ahead + (time - clock) ELSE ahead
    /\ UNCHANGED <<timers, left, readable, lpc, handler, requests, runs>>
-----------------------------------------------------------------------------
Next == \/ \E t \in Timer, when \in 0 .. MaxTime : AddFromThread(t, when)
                                                   \/ AddFromLoop(t, when)
        \/ RunRequest \/ Poll \/ TakeTime \/ ReadTimerfd \/ Reset
        \/ \E e \in batch : RunTimer(e)
        \/ Tick
        \/ \E time \in 1 .. MaxTime : SetClock(time)

Spec == Init /\ [][Next]_vars

(* Time passes, the loop goes round, and the timers return.  Functors are  *)
(* called although the timerfd is polled in between: the loop runs those   *)
(* that are pending after every poll (EventLoop, EveryFunctorRuns), which  *)
(* is strong fairness of RunRequest.                                       *)
FairSpec == /\ Spec
            /\ WF_vars(Tick) /\ SF_vars(RunRequest)
            /\ WF_vars(Poll) /\ WF_vars(TakeTime) /\ WF_vars(ReadTimerfd)
            /\ WF_vars(\E e \in batch : RunTimer(e)) /\ WF_vars(Reset)
-----------------------------------------------------------------------------
Entries == [timer : Timer, when : Nat]

(* The types, and that nothing expired is left over from one call of       *)
(* handleRead to the next.                                                 *)
TypeOK ==
    /\ timers \in SUBSET Entries /\ IsFiniteSet(timers)
    /\ left \in Nat /\ readable \in BOOLEAN
    /\ lpc \in {"idle", "polled", "read", "run"}
    /\ now \in Nat /\ clock \in Nat /\ ahead \in Nat /\ steps \in Nat /\ seen \in Nat
    /\ batch \in SUBSET Entries /\ called \in SUBSET Entries
    /\ requests \in Seq(Entries)
    /\ runs \in [Timer -> Nat]
    /\ lpc # "run" => batch = {} /\ called = {}

(* Outside of handleRead the timerfd is armed whenever there is a timer,   *)
(* and early enough for the first one: it is never late by more than what  *)
(* the wall clock was set forward since.  A timer that is added between    *)
(* the poll and the read, which clears the timerfd, is no exception.       *)
ArmedInTime ==
    lpc = "idle" /\ timers # {} /\ ~readable =>
        left \in 1 .. Max({1, Earliest(timers) - clock + ahead})

(* No timer is lost, early, or called too often, wherever it was added.    *)
Service == INSTANCE TimerService WITH due <- [t \in Timer |-> Due(t)]
ImplementsService == Service!ServiceSpec

(* A timer whose time comes is called, whatever the clock did meanwhile.   *)
EventuallyCalled ==
    \A t \in Timer, n \in 0 .. MaxTime :
        runs[t] = n /\ (\E when \in Due(t) : when <= MaxTime) ~> runs[t] > n
=============================================================================
