---------------------------- MODULE MCTimerQueue ----------------------------
(* An instance of TimerQueue for TLC: a timer of runAt or runAfter, and    *)
(* one of runEvery.                                                        *)
EXTENDS TimerQueue, TLC

CONSTANTS once, again

TwoTimers == {once, again}
Intervals == (once :> 0) @@ (again :> 1)
=============================================================================
