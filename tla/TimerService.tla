---------------------------- MODULE TimerService ----------------------------
(***************************************************************************)
(* What runAt, runAfter and runEvery of an EventLoop promise: a timer that *)
(* was added is called no earlier than its time by the wall clock, once if *)
(* it has no interval, and otherwise again and again, at least an interval *)
(* after the time of the call before.                                      *)
(***************************************************************************)
EXTENDS Naturals

CONSTANTS Timer,          \* timers, each added at most once
          Interval        \* per timer: the interval of runEvery, or 0

VARIABLES due,            \* per timer: the set of the time it is due, or empty
          runs,           \* per timer: how often it has been called
          seen            \* the latest time the wall clock has shown

serviceVars == <<due, runs, seen>>

ServiceInit == /\ due = [t \in Timer |-> {}]
               /\ runs = [t \in Timer |-> 0]
               /\ seen \in Nat

AddTimer(t) == /\ due[t] = {} /\ runs[t] = 0
               /\ \E when \in due'[t] :
                    when \in Nat /\ due' = [due EXCEPT ![t] = {when}]
               /\ UNCHANGED <<runs, seen>>

(* The next period begins at some time between the one that was due and    *)
(* the present.                                                            *)
Call(t) == /\ \E when \in due[t] :
                /\ when <= seen
                /\ due' \in IF Interval[t] = 0 THEN {[due EXCEPT ![t] = {}]}
                            ELSE {[due EXCEPT ![t] = {from + Interval[t]}] :
                                      from \in when .. seen}
           /\ runs' = [runs EXCEPT ![t] = @ + 1]
           /\ UNCHANGED seen

Later == /\ seen' \in Nat /\ seen' > seen
         /\ UNCHANGED <<due, runs>>

ServiceNext == Later \/ \E t \in Timer : AddTimer(t) \/ Call(t)

ServiceSpec == ServiceInit /\ [][ServiceNext]_serviceVars
=============================================================================
