----------------------------- MODULE MCEventLoop -----------------------------
(* An instance of EventLoopThread, and with it of EventLoop, for TLC.      *)
EXTENDS EventLoopThread

CONSTANTS c1, c2, f1, f2, f3

TwoCallers == {c1, c2}
ThreeFunctors == {f1, f2, f3}
=============================================================================
