---------------------------- MODULE MCThreadPool ----------------------------
(* An instance of Server, and with it of ThreadPool, for TLC.              *)
EXTENDS Server

CONSTANTS w1, w2, patient, eager

TwoWorkers == {w1, w2}
TwoClients == {patient, eager}
OnePatient == {patient}
FourLines == TwoClients \X (1 .. 2)
=============================================================================
