------------------------------- MODULE Logger -------------------------------
(***************************************************************************)
(* base/Logging.cc and base/LogFile.cc around AsyncLogging: the first line *)
(* logged starts the logger; a thread that logs a FATAL line calls stop()  *)
(* and abort(); and the logging thread writes into files that are rolled.  *)
(*                                                                         *)
(* A file is named for the second in which it is opened and is opened for  *)
(* appending, so that a file rolled twice in one second goes on under the  *)
(* same name.  The clock does not go back.                                 *)
(***************************************************************************)
EXTENDS AsyncLogging

CONSTANTS Script,         \* the lines each thread logs, a FATAL line last
          RollSize,       \* _roll_size, in lines
          MaxSecond       \* bound on the clock

ASSUME RollSizeNat == RollSize \in Nat
ASSUME MaxSecondNat == MaxSecond \in Nat
ASSUME FatalLines == Stopper \subseteq Line   \* the thread that logs it
ASSUME ScriptLines == Script \subseteq Seq(Line)

VARIABLES clock,          \* time(NULL)
          disk,           \* the lines handed to stdio for the file of each
                          \* second; what its buffer (FileUtil.cc:46) still
                          \* holds at abort() is counted as written
          log,            \* _file: its name and _written_bytes
          opened,         \* history: how often each name was opened
          dead            \* the process has ended

fileVars == <<disk, log, opened>>
allVars == <<vars, clock, fileVars, dead>>

Second == 0 .. MaxSecond

LoggerInit == /\ Init
              /\ clock = 0
              /\ disk = [s \in Second |-> << >>]
              /\ log = {}
              /\ opened = [s \in Second |-> 0]
              /\ dead = FALSE

(* LogFile::rollFile                                                       *)
RollFile(f) == [f EXCEPT !.log = {[name |-> clock, written |-> 0]},
                         !.opened[clock] = @ + 1]

Files == [disk |-> disk, log |-> log, opened |-> opened]

SetFiles(f) == /\ disk' = f.disk
               /\ log' = f.log
               /\ opened' = f.opened

(* *_file, of which there is one.                                          *)
FileOf(f) == CHOOSE x \in f.log : TRUE

(* Mutant: the file is rolled before the buffer is written, which is lost. *)
AppendAfterRoll(f, buffer) ==
    LET l == FileOf(f)
        w == l.written + Len(buffer)
    IN  IF w > RollSize THEN RollFile(f)
        ELSE [f EXCEPT !.disk[l.name] = @ \o buffer,
                       !.log = {[name |-> l.name, written |-> w]}]

(* LogFile::append_unlocked: write, then roll if there is too much.        *)
AppendToFile(f, buffer) ==
    LET l == FileOf(f)
        w == l.written + Len(buffer)
        g == [f EXCEPT !.disk[l.name] = @ \o buffer,
                       !.log = {[name |-> l.name, written |-> w]}]
    IN  IF w > RollSize THEN RollFile(g) ELSE g
-----------------------------------------------------------------------------
(* output(): pthread_once has started the logger before the first append.  *)
Logs == /\ pc # "new"
        /\ \E thread \in Script : \E i \in DOMAIN thread :
              /\ \A j \in 1 .. i - 1 : thread[j] \in Range(appended)
              /\ AppendFits(thread[i]) \/ AppendFull(thread[i])
        /\ UNCHANGED <<clock, fileVars, dead>>

(* The logging thread opens its file when it starts.                       *)
StartsLogger == /\ Start
                /\ SetFiles(RollFile(Files))
                /\ UNCHANGED <<clock, dead>>

(* The destructor of a FATAL Logger: after output() it calls stop() ...    *)
StopsLogger == /\ \E m \in Stopper : \/ m \in Range(appended) /\ Stop(m)
                                     \/ StopStep(m)
               /\ UNCHANGED <<clock, fileVars, dead>>

(* ... and abort(); a failed assertion ends the process as well.           *)
Aborts == /\ \E m \in Stopper : stopper[m] \in {"stopped", "failed"}
          /\ dead' = TRUE
          /\ UNCHANGED <<vars, clock, fileVars>>

WritesFiles == /\ AppendBuffer
               /\ SetFiles(AppendToFile(Files, toWrite[wrote + 1]))
               /\ UNCHANGED <<clock, dead>>

ThreadGoesOn == /\ TestRunning \/ Wait \/ Timeout \/ Swap \/ Drop \/ Refill
                /\ UNCHANGED <<clock, fileVars, dead>>

Tick == /\ clock < MaxSecond
        /\ clock' = clock + 1
        /\ UNCHANGED <<vars, fileVars, dead>>

LoggerNext == /\ ~dead
              /\ \/ Logs \/ StartsLogger \/ StopsLogger \/ Aborts
                 \/ WritesFiles \/ ThreadGoesOn \/ Tick

LoggerSpec == LoggerInit /\ [][LoggerNext]_allVars

(* The logging thread keeps running, its wait is a timed one, and a thread *)
(* that logs a FATAL line goes on through stop() to abort(); nothing       *)
(* forces a line.                                                          *)
FairLogger == /\ LoggerSpec
              /\ WF_allVars(~dead /\ (ThreadGoesOn \/ WritesFiles))
              /\ \A m \in Stopper :
                    WF_allVars(~dead /\ StopStep(m) /\ UNCHANGED <<clock, fileVars, dead>>)
              /\ WF_allVars(~dead /\ Aborts)
-----------------------------------------------------------------------------
(* The files, read in the order of their names, hold what the logging      *)
(* thread wrote, also where a name was opened again, and a file is no      *)
(* larger than its rolls allow: one buffer more than the limit for every   *)
(* time it was opened.                                                     *)
FilesHoldTheLog ==
    /\ InOrder(disk, file) /\ Lines(disk) = Range(file)
    /\ \A s \in Second : Len(disk[s]) <= opened[s] * (RollSize + BufferSize)

(* A line is written although its buffer is not full, unless a FATAL line  *)
(* is logged: then the process ends, and takes the lines with it that are  *)
(* not in a file yet.                                                      *)
WrittenOrDead ==
    \A m \in Line : m \in Range(appended) ~> m \in Range(file) \cup dropped \/ dead

(* A FATAL line ends the process: stop() returns although the logging      *)
(* thread may miss its notification, and when two threads log FATAL lines  *)
(* at once the assertion of join() may fail but nobody waits for ever.     *)
FatalEndsProcess == \A m \in Stopper : stopper[m] # "idle" ~> dead
=============================================================================
