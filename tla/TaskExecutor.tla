---------------------------- MODULE TaskExecutor ----------------------------
(***************************************************************************)
(* What an EventLoop promises to the threads that hand it functors:        *)
(* whatever the number of threads that submit, the functors are executed   *)
(* one at a time, in the order in which they were submitted, and none is   *)
(* executed twice or skipped.                                              *)
(***************************************************************************)
EXTENDS Naturals, Sequences, Functions

CONSTANT Functor          \* what can be submitted, each at most once

VARIABLES submitted,      \* every functor submitted so far, in order
          executed        \* every functor executed so far, in order

execVars == <<submitted, executed>>

ExecInit == submitted = << >> /\ executed = << >>

Submit == /\ \E f \in Functor \ Range(submitted) :
                submitted' = Append(submitted, f)
          /\ UNCHANGED executed

Execute == /\ Len(executed) < Len(submitted)
           /\ executed' = Append(executed, submitted[Len(executed) + 1])
           /\ UNCHANGED submitted

ExecNext == Submit \/ Execute

ExecSpec == ExecInit /\ [][ExecNext]_execVars
=============================================================================
