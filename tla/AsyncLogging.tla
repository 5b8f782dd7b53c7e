---------------------------- MODULE AsyncLogging ----------------------------
(***************************************************************************)
(* base/AsyncLogging.cc: any thread appends log lines to the current       *)
(* buffer under _mutex; one thread takes the buffers away, writes them to  *)
(* the file and gives two empty buffers back.                              *)
(*                                                                         *)
(* A line is a model value and takes one place of a buffer.  A unique_ptr  *)
(* to a buffer is the set of what it points to: empty, or the one sequence *)
(* of lines in that buffer.                                                *)
(***************************************************************************)
EXTENDS Naturals, SequencesExt

CONSTANTS Line,           \* log lines, each appended at most once
          Stopper,        \* the threads that may call stop(), once each
          BufferSize,     \* lines that fit into a FixedBuffer
          DropLimit       \* more buffers than this at once are dropped: 25

ASSUME SizeAssumption == BufferSize \in Nat \ {0}
ASSUME DropAssumption == DropLimit \in Nat /\ DropLimit >= 2

VARIABLES running,        \* _running
          stopper,        \* where in stop() each of the Stoppers is
          joined,         \* Thread::_joined of the logging thread
          pc,             \* where the logging thread is
          current,        \* *_current_buffer
          next,           \* _next_buffer
          buffers,        \* _buffers: full ones, oldest first
          toWrite,        \* buffers_to_write
          wrote,          \* how many of them the loop has appended
          spare1, spare2, \* new_buffer1, new_buffer2
          file,           \* the lines handed to the log file
          appended,       \* history: the lines for which append() returned
          dropped         \* history: the lines dropped to save memory

front == <<current, next, buffers>>
back == <<toWrite, wrote, spare1, spare2>>
ends == <<stopper, joined>>
vars == <<running, ends, pc, front, back, file, appended, dropped>>

Init == /\ running = FALSE
        /\ stopper = [s \in Stopper |-> "idle"]
        /\ joined = FALSE
        /\ pc = "new"
        /\ current = << >>
        /\ next = {<< >>}
        /\ buffers = << >>
        /\ toWrite = << >>
        /\ wrote = 0
        /\ spare1 = {<< >>} /\ spare2 = {<< >>}
        /\ file = << >>
        /\ appended = << >>
        /\ dropped = {}
-----------------------------------------------------------------------------
(* The front end, called by any thread.                                    *)

Appending(m) == /\ m \in Line \ Range(appended)
                /\ appended' = Append(appended, m)

AppendFits(m) ==
    /\ Appending(m)
    /\ Len(current) < BufferSize
    /\ current' = Append(current, m)
    /\ UNCHANGED <<running, ends, pc, next, buffers, back, file, dropped>>

(* The current buffer is full: it is queued, the next or a new buffer      *)
(* takes its place, and the logging thread is notified.                    *)
AppendFull(m) ==
    /\ Appending(m)
    /\ Len(current) >= BufferSize
    /\ buffers' = Append(buffers, current)
    /\ \E empty \in IF next # {} THEN next ELSE {<< >>} :
          current' = Append(empty, m)
    /\ next' = {}
    /\ pc' = IF pc = "wait" THEN "swap" ELSE pc
    /\ UNCHANGED <<running, ends, back, file, dropped>>
-----------------------------------------------------------------------------
(* start() and stop().                                                     *)
Start ==
    /\ pc = "new"
    /\ running' = TRUE
    /\ pc' = "head"
    /\ UNCHANGED <<ends, front, back, file, appended, dropped>>

Goes(s, from, to) == /\ stopper[s] = from
                     /\ stopper' = [stopper EXCEPT ![s] = to]
                     /\ UNCHANGED <<front, back, file, appended, dropped>>

(* stop() clears the flag without the mutex ...                            *)
Stop(s) ==
    /\ pc # "new"
    /\ Goes(s, "idle", "notify")
    /\ running' = FALSE
    /\ UNCHANGED <<pc, joined>>

(* ... so its notification may come before the thread has begun to wait.   *)
NotifyAll(s) ==
    /\ Goes(s, "notify", "assert")
    /\ pc' = IF pc = "wait" THEN "swap" ELSE pc
    /\ UNCHANGED <<running, joined>>

(* Thread::join(): assert(!_joined), which a thread that comes second      *)
(* fails, unless it comes before the first has set _joined.                *)
AssertNotJoined(s) ==
    /\ Goes(s, "assert", IF joined THEN "failed" ELSE "mark")
    /\ UNCHANGED <<running, pc, joined>>

(* Then there are two pthread_join of one thread, which POSIX leaves       *)
(* undefined: the second one waits as well or returns at once.             *)
MarkJoined(s) ==
    /\ \E to \in {"join"} \cup IF joined THEN {"stopped"} ELSE {} : Goes(s, "mark", to)
    /\ joined' = TRUE
    /\ UNCHANGED <<running, pc>>

Joined(s) ==
    /\ pc = "done"
    /\ Goes(s, "join", "stopped")
    /\ UNCHANGED <<running, pc, joined>>

StopStep(s) == NotifyAll(s) \/ AssertNotJoined(s) \/ MarkJoined(s) \/ Joined(s)
-----------------------------------------------------------------------------
(* The logging thread: threadFunc.                                         *)

(* while(_running)                                                         *)
TestRunning ==
    /\ pc = "head"
    /\ pc' = IF running THEN "lock" ELSE "done"
    /\ UNCHANGED <<running, ends, front, back, file, appended, dropped>>

(* It waits if no buffer is full.                                          *)
Wait ==
    /\ pc = "lock"
    /\ buffers = << >>
    /\ pc' = "wait"
    /\ UNCHANGED <<running, ends, front, back, file, appended, dropped>>

(* Mutant: pthread_cond_wait, without a timeout.                           *)
TimeoutNever == FALSE /\ UNCHANGED vars

(* The wait is over after _flush_interval, or for no reason at all.        *)
Timeout ==
    /\ pc = "wait"
    /\ pc' = "swap"
    /\ UNCHANGED <<running, ends, front, back, file, appended, dropped>>

(* Mutant: while(_buffers.empty()) instead of if, so that a timeout does   *)
(* not write a buffer that is not full.                                    *)
SwapFullOnly ==
    /\ pc \in {"swap", "lock"} /\ buffers # << >>
    /\ toWrite' = Append(buffers, current)
    /\ buffers' = << >>
    /\ current' \in spare1
    /\ spare1' = {}
    /\ IF next = {} THEN next' = spare2 /\ spare2' = {}
                    ELSE UNCHANGED <<next, spare2>>
    /\ pc' = "write"
    /\ UNCHANGED <<running, ends, wrote, file, appended, dropped>>

(* Mutant: the next buffer is always replaced.                             *)
SwapTakesBoth ==
    /\ pc = "swap" \/ (pc = "lock" /\ buffers # << >>)
    /\ toWrite' = Append(buffers, current)
    /\ buffers' = << >>
    /\ current' \in spare1
    /\ spare1' = {}
    /\ next' = spare2 /\ spare2' = {}
    /\ pc' = "write"
    /\ UNCHANGED <<running, ends, wrote, file, appended, dropped>>

(* All buffers are taken, also the one that is not full; the two spare     *)
(* buffers replace the current one and, if it was used up, the next one.   *)
Swap ==
    /\ pc = "swap" \/ (pc = "lock" /\ buffers # << >>)
    /\ toWrite' = Append(buffers, current)
    /\ buffers' = << >>
    /\ current' \in spare1
    /\ spare1' = {}
    /\ IF next = {} THEN next' = spare2 /\ spare2' = {}
                    ELSE UNCHANGED <<next, spare2>>
    /\ pc' = "write"
    /\ UNCHANGED <<running, ends, wrote, file, appended, dropped>>

(* All but the first two buffers are dropped if they are too many.         *)
Kept == IF Len(toWrite) > DropLimit THEN SubSeq(toWrite, 1, 2) ELSE toWrite

Drop ==
    /\ pc = "write"
    /\ toWrite' = Kept
    /\ dropped' = dropped \cup UNION {Range(toWrite[i]) :
                                       i \in Len(Kept) + 1 .. Len(toWrite)}
    /\ pc' = "append"
    /\ UNCHANGED <<running, ends, front, wrote, spare1, spare2, file, appended>>

(* Mutant: the buffers are written from the last to the first.             *)
AppendNewestFirst ==
    /\ pc = "append"
    /\ wrote < Len(toWrite)
    /\ file' = file \o toWrite[Len(toWrite) - wrote]
    /\ wrote' = wrote + 1
    /\ UNCHANGED <<running, ends, pc, front, toWrite, spare1, spare2, appended, dropped>>

(* One round of the loop over buffers_to_write.                            *)
AppendBuffer ==
    /\ pc = "append"
    /\ wrote < Len(toWrite)
    /\ file' = file \o toWrite[wrote + 1]
    /\ wrote' = wrote + 1
    /\ UNCHANGED <<running, ends, pc, front, toWrite, spare1, spare2, appended, dropped>>

(* What the refill asserts: there are buffers to recycle.                  *)
CanRefill == Len(toWrite) >= IF spare2 = {} THEN 2 ELSE 1

(* Two buffers are recycled and the file is flushed.                       *)
Refill ==
    /\ pc = "append"
    /\ wrote = Len(toWrite)
    /\ CanRefill
    /\ toWrite' = << >> /\ wrote' = 0
    /\ spare1' = {<< >>} /\ spare2' = {<< >>}
    /\ pc' = "head"
    /\ UNCHANGED <<running, ends, front, file, appended, dropped>>
-----------------------------------------------------------------------------
FrontEnd == \E m \in Line : AppendFits(m) \/ AppendFull(m)
LoggingThread == \/ TestRunning \/ Wait \/ Timeout \/ Swap
                 \/ Drop \/ AppendBuffer \/ Refill

Next == \/ FrontEnd \/ LoggingThread \/ Start
        \/ \E s \in Stopper : Stop(s) \/ StopStep(s)

Spec == Init /\ [][Next]_vars
-----------------------------------------------------------------------------
Buffer == Seq(Line)

(* The types; a next or spare buffer is empty, and full buffers are never  *)
(* over-full.                                                              *)
TypeOK ==
    /\ running \in BOOLEAN
    /\ stopper \in [Stopper -> {"idle", "notify", "assert", "mark", "join",
                               "stopped", "failed"}]
    /\ joined \in BOOLEAN
    /\ pc \in {"new", "head", "lock", "wait", "swap", "write", "append", "done"}
    /\ current \in Buffer /\ Len(current) <= BufferSize
    /\ buffers \in Seq(Buffer) /\ toWrite \in Seq(Buffer)
    /\ wrote \in 0 .. Len(toWrite) /\ (pc # "append" => wrote = 0)
    /\ next \in {{}, {<< >>}}
    /\ spare1 \in {{}, {<< >>}} /\ spare2 \in {{}, {<< >>}}
    /\ file \in Buffer /\ appended \in Buffer /\ dropped \in SUBSET Line

(* What threadFunc asserts: at the head of the loop both spare buffers are *)
(* there and empty and nothing is left to write; and when it refills them  *)
(* there are buffers enough, two if the second spare one was used ("the    *)
(* size of buffers is at least 2 then").                                   *)
AssertionsHold ==
    /\ pc \in {"head", "lock", "wait", "swap"} =>
          spare1 = {<< >>} /\ spare2 = {<< >>} /\ toWrite = << >>
    /\ pc \in {"write", "append"} => CanRefill

(* Chunks of lines, one after the other, follow the order of s.            *)
Before(s, m, n) == \E i, j \in DOMAIN s : i < j /\ s[i] = m /\ s[j] = n
InOrder(chunks, s) ==
    \A a, b \in DOMAIN chunks :
        \A i \in DOMAIN chunks[a], j \in DOMAIN chunks[b] :
            a < b \/ (a = b /\ i < j) => Before(s, chunks[a][i], chunks[b][j])
Lines(chunks) == UNION {Range(chunks[a]) : a \in DOMAIN chunks}

(* The file, the buffers still to be written, the full ones, the current.  *)
Pipeline == <<file>> \o SubSeq(toWrite, wrote + 1, Len(toWrite))
              \o buffers \o <<current>>

(* The lines that were not dropped are in the file, in the buffers being   *)
(* written, in the full ones or in the current one, each once and in the   *)
(* order in which append() returned.                                       *)
KeptInOrder == /\ InOrder(Pipeline, appended)
               /\ Lines(Pipeline) = Range(appended) \ dropped
=============================================================================
