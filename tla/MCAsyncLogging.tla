--------------------------- MODULE MCAsyncLogging ---------------------------
(* An instance of Logger, and with it of AsyncLogging, for TLC.            *)
EXTENDS Logger

CONSTANTS m1, m2, m3, fatal1, fatal2

FiveLines == {m1, m2, m3, fatal1, fatal2}
TwoThreads == {<<m1, m2, fatal1>>, <<m3, fatal2>>}
TwoFatal == {fatal1, fatal2}
=============================================================================
