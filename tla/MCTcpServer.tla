----------------------------- MODULE MCTcpServer -----------------------------
(* Instances of TcpServer for TLC.                                         *)
EXTENDS TcpServer, TLC

CONSTANTS a, b, base, io1, io2, w1, w2

OneConn == {a}
TwoConns == {a, b}
OneWorker == {w1}
TwoWorkers == {w1, w2}
OneLoop == {<<io1>>}
NoneOrTwoLoops == {<< >>, <<io1, io2>>}

(* The message callback keeps to its own thread, as an echo server's does. *)
InLoopOps == {"none", "send", "shutdown", "forceClose"}
(* It gives every message to the pool, as Server::onMessage does.          *)
TaskOnly == {"task"}
(* It gives some to the pool and answers others itself.                    *)
TaskOrSend == {"task", "send"}
NoOps == {}
SendOnly == {"send"}
ForceCloseOnly == {"forceClose"}
ShutdownOrSend == {"shutdown", "send"}

Symmetry == Permutations(TwoConns) \cup Permutations(TwoWorkers)
=============================================================================
