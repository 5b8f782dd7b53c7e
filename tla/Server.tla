------------------------------- MODULE Server -------------------------------
(***************************************************************************)
(* process/Server.cc: clients send lines over TCP; the message callback    *)
(* hands one line per read event to the ThreadPool; the worker that takes  *)
(* it evaluates the query and sends the size of the answer, a newline and  *)
(* the answer.  The same module has the ThreadPool on its own, with run()  *)
(* called at any moment and stop(): what the server never does with it.    *)
(*                                                                         *)
(* A line is two units of the byte stream, its text and its newline, so    *)
(* that TCP can cut a line in two and put two lines together.  What        *)
(* becomes of an answer that send() has accepted is the subject of         *)
(* TcpServer; here the connection is up or down.                           *)
(***************************************************************************)
EXTENDS ThreadPool

CONSTANTS Client,
          Lockstep,       \* clients that wait for an answer before they go on
          Lines           \* the number of lines each client sends

ASSUME LockstepClients == Lockstep \subseteq Client
ASSUME LinesNat == Lines \in Nat
ASSUME TasksAreLines == Task = Client \X (1 .. Lines)

VARIABLES serving,        \* Server::start() was called, and not just the pool
          sent,           \* units each client has sent
          received,       \* units appended to the input buffer
          lines,          \* lines taken from the input buffer
          up,             \* the connection of the client is connected
          wire            \* what was sent to each client, in order

netVars == <<sent, received, lines, up, wire>>
allVars == <<vars, serving, netVars>>

ServerInit == /\ Init
              /\ serving \in BOOLEAN
              /\ sent = [c \in Client |-> 0]
              /\ received = [c \in Client |-> 0]
              /\ lines = [c \in Client |-> 0]
              /\ up = [c \in Client |-> TRUE]
              /\ wire = [c \in Client |-> << >>]

(* The server listens only when its pool has started.                      *)
Listening == serving /\ owner = "up"

Size(t) == [line |-> t, part |-> "size"]
Body(t) == [line |-> t, part |-> "body"]

AnswersOf(c) == {t \in Task : Body(t) \in Range(wire[c])}
-----------------------------------------------------------------------------
(* A client writes the next unit; in lock step, it begins a line only when *)
(* all the earlier ones are answered.                                      *)
ClientSends(c) ==
    /\ Listening
    /\ up[c]
    /\ sent[c] < 2 * Lines
    /\ c \in Lockstep /\ sent[c] % 2 = 0 =>
          Cardinality(AnswersOf(c)) = sent[c] \div 2
    /\ sent' = [sent EXCEPT ![c] = @ + 1]
    /\ UNCHANGED <<vars, serving, received, lines, up, wire>>

ClientCloses(c) ==
    /\ Listening
    /\ up[c]
    /\ up' = [up EXCEPT ![c] = FALSE]
    /\ UNCHANGED <<vars, serving, sent, received, lines, wire>>

(* A read event delivers a non-empty part of what is on its way.           *)
Delivers(c, n) ==
    /\ Listening
    /\ up[c]
    /\ received[c] < n /\ n <= sent[c]
    /\ received' = [received EXCEPT ![c] = n]
    /\ UNCHANGED <<serving, sent, up, wire>>

HasLine(c, n) == 2 * (lines[c] + 1) <= n

(* findEOL() finds no newline: the callback waits for more.                *)
OnPartOfLine(c, n) == /\ Delivers(c, n)
                      /\ ~HasLine(c, n)
                      /\ UNCHANGED <<vars, lines>>

(* Mutant: only what this read event delivered is searched for a newline,  *)
(* and taken for a line.                                                   *)
OnMessageInOnePiece(c, n) ==
    /\ Delivers(c, n)
    /\ HasLine(c, n)
    /\ IF received[c] <= 2 * lines[c]
       THEN LET t == <<c, lines[c] + 1>>
            IN  lines' = [lines EXCEPT ![c] = @ + 1] /\ (Run(t) \/ RunRefused(t))
       ELSE UNCHANGED <<vars, lines>>

(* ONE line is taken from the buffer and handed to run(), whose result is  *)
(* ignored.                                                                *)
OnMessage(c, n) ==
    LET t == <<c, lines[c] + 1>>
    IN  /\ Delivers(c, n)
        /\ HasLine(c, n)
        /\ lines' = [lines EXCEPT ![c] = @ + 1]
        /\ Run(t) \/ RunRefused(t)

(* Mutant: the size and the answer are sent by two calls of send().        *)
AnswersInTwoSends(w) ==
    /\ \E t \in held[w] :
          LET c == t[1]
              first == Size(t) \notin Range(wire[c])
          IN  /\ wire' = IF ~up[c] THEN wire
                         ELSE [wire EXCEPT ![c] = Append(@, IF first THEN Size(t) ELSE Body(t))]
              /\ IF up[c] /\ first THEN UNCHANGED vars ELSE Finish(w)
    /\ UNCHANGED <<serving, sent, received, lines, up>>

(* doTaskThread(): doQuery(), and one send() of size and answer, which     *)
(* does nothing on a connection that is down.                              *)
Answers(w) ==
    /\ \E t \in held[w] :
          LET c == t[1]
          IN  wire' = IF up[c] THEN [wire EXCEPT ![c] = @ \o <<Size(t), Body(t)>>]
                      ELSE wire
    /\ Finish(w)
    /\ UNCHANGED <<serving, sent, received, lines, up>>
-----------------------------------------------------------------------------
Reads(c) == \E n \in 1 .. 2 * Lines : OnPartOfLine(c, n) \/ OnMessage(c, n)

(* Server::start(), and what the workers do between two tasks.             *)
PoolStep ==
    /\ \/ Start
       \/ \E w \in Workers : \/ StartThread(w) \/ Check(w) \/ Sleep(w)
                             \/ TakeTask(w) \/ SpuriousWakeup(w)
    /\ UNCHANGED <<serving, netVars>>

ServeNext == /\ serving
             /\ \/ PoolStep
                \/ \E c \in Client : ClientSends(c) \/ ClientCloses(c) \/ Reads(c)
                \/ \E w \in Workers : Answers(w)

PoolNext == ~serving /\ Next /\ UNCHANGED <<serving, netVars>>

ServerNext == ServeNext \/ PoolNext

ServerSpec == ServerInit /\ [][ServerNext]_allVars

(* As in ThreadPool, and the loop of a connection reads what has arrived.  *)
FairServer ==
    /\ ServerSpec
    /\ WF_vars(Joined)
    /\ \A w \in Workers : WF_vars(StartThread(w)) /\ WF_vars(WorkerStep(w))
    /\ \A c \in Client : WF_allVars(Reads(c))
-----------------------------------------------------------------------------
(* The lines of a client that are somewhere between its socket and the     *)
(* worker that answers them.                                               *)
Pending(c) == {t \in {c} \X (1 .. Lines) :
                 \/ t[2] > lines[c] /\ 2 * t[2] <= sent[c]
                 \/ t \in Range(queue)
                 \/ \E w \in Workers : t \in held[w]}

(* What a client reads is answers in one piece, each to a line it sent and *)
(* that run() accepted, none twice; and a client in lock step gets them in *)
(* the order of its lines, with at most one line under way.                *)
AnswersMatch ==
    \A c \in Client :
        /\ \A i \in 1 .. Len(wire[c]) :
              IF i % 2 = 1
              THEN /\ wire[c][i].part = "size" /\ wire[c][i].line[1] = c
                   /\ i < Len(wire[c]) /\ wire[c][i + 1] = Body(wire[c][i].line)
                   /\ wire[c][i].line \in Range(accepted)
              ELSE wire[c][i].part = "body"
        /\ IsInjective(wire[c])
        /\ serving /\ c \in Lockstep =>
              /\ Cardinality(Pending(c)) <= 1
              /\ \A i \in 1 .. Len(wire[c]) : 2 * wire[c][i].line[2] \in {i, i + 1}

(* A line sent in lock step is answered, unless the queue was full, which  *)
(* the client is not told, or the client has gone.  A client that does not *)
(* wait is answered the lines that were taken: one that came together with *)
(* an earlier one stays in the buffer until the client sends more.         *)
EveryLineSettled ==
    \A c \in Client : \A k \in 1 .. Lines :
        (IF c \in Lockstep THEN sent[c] = 2 * k ELSE lines[c] = k)
            ~> <<c, k>> \in AnswersOf(c) \cup refused \/ ~up[c]
=============================================================================
