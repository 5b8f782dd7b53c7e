------------------------------ MODULE TcpServer ------------------------------
(***************************************************************************)
(* net/TcpServer.cc, TcpConnection.cc, Acceptor.cc, Channel.cc, EPoller.cc *)
(* and EventLoopThreadPool.cc together: connections are accepted by the    *)
(* base loop, live on an I/O loop, and are used by the workers of a thread *)
(* pool, which hold them by shared_ptr and call them from outside.         *)
(*                                                                         *)
(* A loop is what module EventLoop is shown to implement: a FIFO of        *)
(* functors, run one at a time by its thread.  A handler runs in the       *)
(* thread of the connection's loop without blocking and is one step; the   *)
(* calls a WORKER makes read _state, write it and queue a functor in       *)
(* separate steps.  Events may come between any two functors, which is     *)
(* more than the batches of doPendingFunctors allow.                       *)
(*                                                                         *)
(* A failed assertion, the use of a destroyed connection, SIGPIPE and an   *)
(* accept() that LOG_FATAL reports set "halt" and end the behaviour.       *)
(***************************************************************************)
EXTENDS Naturals, Sequences, FiniteSets, Functions

CONSTANTS Conn,           \* connections that clients open
          Base,           \* the base loop
          IoLoops,        \* what _loops may be, in order; empty after
                          \* setThreadNum(0)
          Workers,        \* threads of the pool that tasks run on
          CallbackOps,    \* what the message callback does with a connection
          WorkerOps,      \* what a task does with it
          PoolCapacity,   \* tasks that wait for a worker
          MaxMessages     \* bound: message callbacks per connection

ASSUME OpsAssumption ==
    /\ CallbackOps \subseteq {"none", "send", "shutdown", "forceClose", "task"}
    /\ WorkerOps \subseteq {"send", "shutdown", "forceClose"}
ASSUME LoopAssumption ==
    \A ls \in IoLoops : ls \in Seq(Range(ls)) /\ Base \notin Range(ls)
ASSUME BoundAssumption == PoolCapacity \in Nat /\ MaxMessages \in Nat

VARIABLES state,          \* _state, or "none" before the connection exists
          loopOf,         \* _loop of the connection
          events,         \* _events of its channel
          index,          \* _index of its channel
          out,            \* _outputBuffer, as the bytes in it
          shut,           \* shutdownWrite() was called on its socket
          connections,    \* TcpServer::_connections
          loops, next,    \* EventLoopThreadPool::_loops, _next
          queue,          \* per loop: the functors still to run
          pool,           \* tasks that wait for a worker
          wpc, job,       \* per worker: where it is, the set of its task
          peer,           \* what the client has done to the connection
          wire,           \* the bytes written to the socket
          sent,           \* history: the bytes handed to sendInLoop
          calls, asked,   \* history: the user callbacks, see ConnectionContract
          halt            \* why the program stopped, or "no"

chanVars == <<events, index>>
ring == <<loops, next>>
poolVars == <<pool, wpc, job>>
bytes == <<out, wire, sent>>
user == <<calls, asked>>
vars == <<state, loopOf, chanVars, bytes, shut, connections, ring, queue,
          poolVars, peer, user, halt>>

Loops == {Base} \cup UNION {Range(ls) : ls \in IoLoops}

Init == /\ state = [c \in Conn |-> "none"]
        /\ loopOf = [c \in Conn |-> Base]
        /\ events = [c \in Conn |-> {}]
        /\ index = [c \in Conn |-> "kNew"]
        /\ out = [c \in Conn |-> << >>]
        /\ shut = [c \in Conn |-> FALSE]
        /\ connections = {}
        /\ loops \in IoLoops /\ next = 1
        /\ queue = [l \in Loops |-> << >>]
        /\ pool = << >>
        /\ wpc = [w \in Workers |-> "idle"]
        /\ job = [w \in Workers |-> {}]
        /\ peer = [c \in Conn |-> "open"]
        /\ wire = [c \in Conn |-> << >>]
        /\ sent = [c \in Conn |-> << >>]
        /\ calls = [c \in Conn |-> << >>]
        /\ asked = [c \in Conn |-> 0]
        /\ halt = "no"

(* A message is two bytes, so that a write can be partial.                 *)
Data(m) == <<2 * m - 1, 2 * m>>

Functor(op, c, m) == [op |-> op, conn |-> c, msg |-> m]
Post(q, l, f) == [q EXCEPT ![l] = Append(@, f)]

(* Mutant: connectDestroyed is bound to a raw pointer.                     *)
SharedButDestroyed == {"established", "remove", "forceClose"}

(* sendInLoop and shutdownInLoop are bound to a raw "this", the other      *)
(* functors to a shared_ptr.                                               *)
Shared == {"established", "remove", "destroyed", "forceClose"}
Referenced(c) == \/ c \in connections
                 \/ \E l \in Loops : \E f \in Range(queue[l]) :
                       f.conn = c /\ f.op \in Shared
                 \/ \E t \in Range(pool) : t.conn = c
                 \/ \E w \in Workers : \E t \in job[w] : t.conn = c

(* The last reference is gone: the connection, its channel and its socket  *)
(* are destroyed by the thread that dropped it.                            *)
Freed(c) == state[c] # "none" /\ ~Referenced(c)

Fail(why) == /\ halt' = why
             /\ UNCHANGED <<state, loopOf, chanVars, bytes, shut, connections,
                            ring, queue, poolVars, peer, user>>
-----------------------------------------------------------------------------
(* The channel and the poller.                                             *)

(* EPoller::updateChannel                                                  *)
UpdatedIndex(i, ev) == IF i # "kNew" /\ ev = {} THEN "kDeleted" ELSE "kAdded"

SetEvents(c, ev) == /\ events' = [events EXCEPT ![c] = ev]
                    /\ index' = [index EXCEPT ![c] = UpdatedIndex(index[c], ev)]

(* epoll_wait may report the channel.                                      *)
Polled(c) == index[c] = "kAdded" /\ halt = "no"
-----------------------------------------------------------------------------
(* Handlers.  q is the queues as they are when the handler is entered.     *)

(* Mutant: connectDestroyed is not queued.                                 *)
RemoveWithoutDestroy(q, c) ==
    /\ connections' = connections \ {c}
    /\ queue' = q
    /\ UNCHANGED halt

(* TcpServer::removeConnectionInLoop                                       *)
RemoveConnectionInLoop(q, c) ==
    IF c \in connections
    THEN /\ connections' = connections \ {c}
         /\ queue' = Post(q, loopOf[c], Functor("destroyed", c, 0))
         /\ UNCHANGED halt
    ELSE /\ halt' = "erase"
         /\ queue' = q
         /\ UNCHANGED connections

(* TcpServer::removeConnection: at once in the base loop's own thread.     *)
RemoveConnection(q, c) ==
    IF loopOf[c] = Base
    THEN RemoveConnectionInLoop(q, c)
    ELSE /\ queue' = Post(q, Base, Functor("remove", c, 0))
         /\ UNCHANGED <<connections, halt>>

Callback(c, what) == calls' = [calls EXCEPT ![c] = Append(@, what)]

(* Mutant: the channel is left as it is when the connection closes.        *)
HandleCloseKeepsEvents(q, c) ==
    IF state[c] \in {"kConnected", "kDisconnecting"}
    THEN /\ state' = [state EXCEPT ![c] = "kDisconnected"]
         /\ Callback(c, "down")
         /\ RemoveConnection(q, c)
         /\ UNCHANGED <<loopOf, chanVars, bytes, shut, ring, poolVars, peer, asked>>
    ELSE Fail("handleClose")

(* Mutant: _state is left as it is, for connectDestroyed to change.        *)
HandleCloseKeepsState(q, c) ==
    IF state[c] \in {"kConnected", "kDisconnecting"}
    THEN /\ SetEvents(c, {})
         /\ Callback(c, "down")
         /\ RemoveConnection(q, c)
         /\ UNCHANGED <<state, loopOf, bytes, shut, ring, poolVars, peer, asked>>
    ELSE Fail("handleClose")

(* Mutant: the close callback, which unregisters the connection, is not    *)
(* called.                                                                 *)
HandleCloseKeepsConnection(q, c) ==
    IF state[c] \in {"kConnected", "kDisconnecting"}
    THEN /\ state' = [state EXCEPT ![c] = "kDisconnected"]
         /\ SetEvents(c, {})
         /\ Callback(c, "down")
         /\ queue' = q
         /\ UNCHANGED <<loopOf, bytes, shut, connections, ring, poolVars, peer,
                        asked, halt>>
    ELSE Fail("handleClose")

(* TcpConnection::handleClose                                              *)
HandleClose(q, c) ==
    IF state[c] \in {"kConnected", "kDisconnecting"}
    THEN /\ state' = [state EXCEPT ![c] = "kDisconnected"]
         /\ SetEvents(c, {})
         /\ Callback(c, "down")
         /\ RemoveConnection(q, c)
         /\ UNCHANGED <<loopOf, bytes, shut, ring, poolVars, peer, asked>>
    ELSE Fail("handleClose")

(* write() on a socket that was shut down, or whose reset has been         *)
(* reported, raises SIGPIPE, which the program does not handle.            *)
WriteKills(c) == shut[c] \/ peer[c] = "dead"

(* Any other write() takes what the send buffer has room for, or reports   *)
(* the reset.                                                              *)
Taken(c, n) == IF peer[c] = "reset" THEN {0} ELSE 0 .. n
ReportReset(c) == [peer EXCEPT ![c] = IF @ = "reset" THEN "dead" ELSE @]

WritesDirectly(c) == "write" \notin events[c] /\ out[c] = << >>

(* Mutant: a message is written directly although bytes are buffered.      *)
SendPastBuffer(c, m) ==
    IF WriteKills(c)
    THEN halt' = "sigpipe" /\ UNCHANGED <<bytes, chanVars, peer>>
    ELSE \E n \in Taken(c, 2) :
            /\ wire' = [wire EXCEPT ![c] = @ \o SubSeq(Data(m), 1, n)]
            /\ out' = [out EXCEPT ![c] = @ \o SubSeq(Data(m), n + 1, 2)]
            /\ sent' = [sent EXCEPT ![c] = @ \o Data(m)]
            /\ IF n < 2 THEN SetEvents(c, events[c] \cup {"write"})
                        ELSE UNCHANGED chanVars
            /\ peer' = ReportReset(c)
            /\ UNCHANGED halt

(* Mutant: the rest of a partial write is buffered and POLLOUT forgotten.  *)
SendForgetsWriting(c, m) ==
    IF WritesDirectly(c) /\ WriteKills(c)
    THEN halt' = "sigpipe" /\ UNCHANGED <<bytes, chanVars, peer>>
    ELSE \E n \in IF WritesDirectly(c) THEN Taken(c, 2) ELSE {0} :
            /\ wire' = [wire EXCEPT ![c] = @ \o SubSeq(Data(m), 1, n)]
            /\ out' = [out EXCEPT ![c] = @ \o SubSeq(Data(m), n + 1, 2)]
            /\ sent' = [sent EXCEPT ![c] = @ \o Data(m)]
            /\ peer' = IF WritesDirectly(c) THEN ReportReset(c) ELSE peer
            /\ UNCHANGED <<chanVars, halt>>

(* TcpConnection::sendInLoop; an error of write() also leaves the message  *)
(* in the buffer.                                                          *)
SendInLoop(c, m) ==
    IF WritesDirectly(c) /\ WriteKills(c)
    THEN halt' = "sigpipe" /\ UNCHANGED <<bytes, chanVars, peer>>
    ELSE \E n \in IF WritesDirectly(c) THEN Taken(c, 2) ELSE {0} :
            /\ wire' = [wire EXCEPT ![c] = @ \o SubSeq(Data(m), 1, n)]
            /\ out' = [out EXCEPT ![c] = @ \o SubSeq(Data(m), n + 1, 2)]
            /\ sent' = [sent EXCEPT ![c] = @ \o Data(m)]
            /\ IF n < 2 /\ "write" \notin events[c]
               THEN SetEvents(c, events[c] \cup {"write"})
               ELSE UNCHANGED chanVars
            /\ peer' = IF WritesDirectly(c) THEN ReportReset(c) ELSE peer
            /\ UNCHANGED halt

(* Mutant: shutdown does not wait for the buffered output.                 *)
ShutdownAtOnce(c) == shut' = [shut EXCEPT ![c] = TRUE]

(* TcpConnection::shutdownInLoop                                           *)
ShutdownInLoop(c) == shut' = [shut EXCEPT ![c] = @ \/ "write" \notin events[c]]

(* TcpConnection::connectEstablished                                       *)
ConnectEstablished(c) ==
    /\ state' = [state EXCEPT ![c] = "kConnected"]
    /\ SetEvents(c, {"read"})
    /\ Callback(c, "up")

(* EPoller::removeChannel asserts that the channel has no events.          *)
RemoveChannel(c) == /\ events' = [events EXCEPT ![c] = {}]
                    /\ index' = [index EXCEPT ![c] = "kNew"]

(* TcpConnection::connectDestroyed disables all events only if it is open. *)
ConnectDestroyed(q, c) ==
    LET open == state[c] = "kConnected"
    IN  IF ~open /\ events[c] # {}
        THEN Fail("removeChannel")
        ELSE /\ state' = [state EXCEPT ![c] = IF open THEN "kDisconnected" ELSE @]
             /\ RemoveChannel(c)
             /\ IF open THEN Callback(c, "down") ELSE UNCHANGED calls
             /\ queue' = q
             /\ UNCHANGED <<loopOf, bytes, shut, connections, ring, poolVars,
                            peer, asked, halt>>
-----------------------------------------------------------------------------
(* TcpServer::newConnection, with EventLoopThreadPool::getNextLoop.        *)

(* Mutant: _next is not reset at the end of the list.                      *)
NextLoopNeverWraps == next + 1

NextLoop == IF next >= Len(loops) THEN 1 ELSE next + 1

NewConnection(c) ==
    LET l == IF loops = << >> THEN Base ELSE loops[next]
    IN  /\ loopOf' = [loopOf EXCEPT ![c] = l]
        /\ next' = NextLoop
        /\ connections' = connections \cup {c}
        /\ IF l = Base
           THEN ConnectEstablished(c) /\ UNCHANGED queue
           ELSE /\ state' = [state EXCEPT ![c] = "kConnecting"]
                /\ queue' = Post(queue, l, Functor("established", c, 0))
                /\ UNCHANGED <<chanVars, calls>>
        /\ UNCHANGED <<bytes, shut, loops, poolVars, peer, asked, halt>>

(* Acceptor::handleRead: the base loop accepts a connection.  A failure of *)
(* accept() changes nothing, or ends the process: LOG_FATAL reports ENFILE *)
(* and the like (sockets::accept).                                         *)
Accept(c) == /\ halt = "no" /\ state[c] = "none"
             /\ NewConnection(c) \/ Fail("accept")

(* The thread of loop l runs its next functor.                             *)
RunFunctor(l) ==
    /\ halt = "no"
    /\ queue[l] # << >>
    /\ LET f == Head(queue[l])
           c == f.conn
           q == [queue EXCEPT ![l] = Tail(@)]
       IN  \/ /\ f.op \notin Shared /\ Freed(c)
              /\ Fail("dangling")
           \/ /\ f.op = "established"
              /\ IF state[c] = "kConnecting"
                 THEN /\ ConnectEstablished(c)
                      /\ queue' = q
                      /\ UNCHANGED <<loopOf, bytes, shut, connections, ring,
                                     poolVars, peer, asked, halt>>
                 ELSE Fail("connectEstablished")
           \/ /\ f.op = "remove"
              /\ RemoveConnectionInLoop(q, c)
              /\ UNCHANGED <<state, loopOf, chanVars, bytes, shut, ring,
                             poolVars, peer, user>>
           \/ /\ f.op = "destroyed"
              /\ ConnectDestroyed(q, c)
           \/ /\ f.op = "forceClose"
              /\ IF state[c] \in {"kConnected", "kDisconnecting"}
                 THEN HandleClose(q, c)
                 ELSE /\ queue' = q
                      /\ UNCHANGED <<state, loopOf, chanVars, bytes, shut,
                                     connections, ring, poolVars, peer, user, halt>>
           \/ /\ f.op = "send" /\ ~Freed(c)
              /\ SendInLoop(c, f.msg)
              /\ queue' = q
              /\ UNCHANGED <<state, loopOf, shut, connections, ring, poolVars,
                             user>>
           \/ /\ f.op = "shutdown" /\ ~Freed(c)
              /\ ShutdownInLoop(c)
              /\ queue' = q
              /\ UNCHANGED <<state, loopOf, chanVars, bytes, connections, ring,
                             poolVars, peer, user, halt>>
-----------------------------------------------------------------------------
(* Events of a connection's channel: Channel::handleEvent.                 *)

(* send() and forceClose() do nothing unless _state admits them.           *)
Admits(op, s) == s = "kConnected" \/ (op = "forceClose" /\ s = "kDisconnecting")

(* What the message callback may do in the loop's thread: nothing, call    *)
(* send(), shutdown() or forceClose() itself, or give a task that holds    *)
(* the connection to the pool, which drops it if it is full.               *)
InCallback(c, op) ==
    \/ /\ op = "none" \/ (op \in {"send", "forceClose"} /\ ~Admits(op, state[c]))
       /\ UNCHANGED <<state, chanVars, bytes, shut, queue, poolVars, peer, halt>>
    \/ /\ op = "send" /\ Admits(op, state[c])
       /\ SendInLoop(c, asked[c] + 1)
       /\ UNCHANGED <<state, shut, queue, poolVars>>
    \/ /\ op = "shutdown"
       /\ state' = [state EXCEPT ![c] = IF @ = "kConnected" THEN "kDisconnecting" ELSE @]
       /\ ShutdownInLoop(c)
       /\ UNCHANGED <<chanVars, bytes, queue, poolVars, peer, halt>>
    \/ /\ op = "forceClose" /\ Admits(op, state[c])
       /\ state' = [state EXCEPT ![c] = "kDisconnecting"]
       /\ queue' = Post(queue, loopOf[c], Functor("forceClose", c, 0))
       /\ UNCHANGED <<chanVars, bytes, shut, poolVars, peer, halt>>
    \/ /\ op = "task"
       /\ \E wop \in WorkerOps :
            pool' = IF Len(pool) < PoolCapacity
                    THEN Append(pool, Functor(wop, c, asked[c] + 1)) ELSE pool
       /\ UNCHANGED <<state, chanVars, bytes, shut, queue, wpc, job, peer, halt>>

(* handleRead with data.                                                   *)
ReadMessage(c) ==
    /\ Polled(c) /\ "read" \in events[c] /\ peer[c] \in {"open", "closed"}
    /\ asked[c] < MaxMessages
    /\ asked' = [asked EXCEPT ![c] = @ + 1]
    /\ \E op \in CallbackOps : InCallback(c, op)
    /\ UNCHANGED <<loopOf, connections, ring, calls>>

(* read() fails: handleError logs it, and the next read() returns 0.       *)
ReadError(c) ==
    /\ Polled(c) /\ "read" \in events[c] /\ peer[c] = "reset"
    /\ peer' = ReportReset(c)
    /\ UNCHANGED <<state, loopOf, chanVars, bytes, shut, connections, ring,
                   queue, poolVars, user, halt>>

(* read() returns 0; or the channel only waits for POLLOUT and the socket  *)
(* hangs up, which handleEvent takes to the close callback directly.       *)
ReadEof(c) == /\ Polled(c)
              /\ \/ "read" \in events[c] /\ peer[c] \in {"closed", "dead"}
                 \/ "read" \notin events[c] /\ peer[c] \in {"reset", "dead"}
              /\ HandleClose(queue, c)

(* n bytes of the buffer were written.                                     *)
Written(c, n) ==
    /\ wire' = [wire EXCEPT ![c] = @ \o SubSeq(out[c], 1, n)]
    /\ out' = [out EXCEPT ![c] = SubSeq(@, n + 1, Len(@))]
    /\ IF n = Len(out[c])
       THEN /\ SetEvents(c, events[c] \ {"write"})
            /\ shut' = [shut EXCEPT ![c] = @ \/ state[c] = "kDisconnecting"]
       ELSE UNCHANGED <<chanVars, shut>>

(* TcpConnection::handleWrite                                              *)
HandleWrite(c) ==
    /\ Polled(c) /\ "write" \in events[c]
    /\ \/ /\ WriteKills(c)
          /\ halt' = "sigpipe"
          /\ UNCHANGED <<out, wire, chanVars, shut, peer>>
       \/ /\ ~WriteKills(c) /\ peer[c] = "reset"
          /\ peer' = ReportReset(c)
          /\ UNCHANGED <<out, wire, chanVars, shut, halt>>
       \/ /\ ~WriteKills(c) /\ peer[c] # "reset"
          /\ \E n \in 1 .. Len(out[c]) : Written(c, n)
          /\ UNCHANGED <<peer, halt>>
    /\ UNCHANGED <<state, loopOf, sent, connections, ring, queue, poolVars, user>>
-----------------------------------------------------------------------------
(* The workers: a task that calls send(), shutdown() or forceClose().      *)

TakeTask(w) ==
    /\ halt = "no" /\ wpc[w] = "idle" /\ pool # << >>
    /\ job' = [job EXCEPT ![w] = {Head(pool)}]
    /\ pool' = Tail(pool)
    /\ wpc' = [wpc EXCEPT ![w] = "check"]
    /\ UNCHANGED <<state, loopOf, chanVars, bytes, shut, connections, ring,
                   queue, peer, user, halt>>

(* The test of _state.                                                     *)
CheckState(w) ==
    /\ halt = "no" /\ wpc[w] = "check"
    /\ \E t \in job[w] :
        LET s == state[t.conn]
        IN  wpc' = [wpc EXCEPT ![w] =
                IF Admits(t.op, s)
                THEN IF t.op = "send" THEN "post" ELSE "set"
                ELSE IF t.op = "shutdown" THEN "post" ELSE "release"]
    /\ UNCHANGED <<state, loopOf, chanVars, bytes, shut, connections, ring,
                   queue, pool, job, peer, user, halt>>

(* setState(kDisconnecting), whatever _state has become meanwhile.         *)
SetDisconnecting(w) ==
    /\ halt = "no" /\ wpc[w] = "set"
    /\ \E t \in job[w] : state' = [state EXCEPT ![t.conn] = "kDisconnecting"]
    /\ wpc' = [wpc EXCEPT ![w] = "post"]
    /\ UNCHANGED <<loopOf, chanVars, bytes, shut, connections, ring, queue,
                   pool, job, peer, user, halt>>

(* runInLoop or queueInLoop, from a thread that is not the loop's.         *)
PostFunctor(w) ==
    /\ halt = "no" /\ wpc[w] = "post"
    /\ \E t \in job[w] : queue' = Post(queue, loopOf[t.conn], t)
    /\ wpc' = [wpc EXCEPT ![w] = "release"]
    /\ UNCHANGED <<state, loopOf, chanVars, bytes, shut, connections, ring,
                   pool, job, peer, user, halt>>

(* The task ends and with it the worker's reference to the connection.     *)
Release(w) ==
    /\ halt = "no" /\ wpc[w] = "release"
    /\ job' = [job EXCEPT ![w] = {}]
    /\ wpc' = [wpc EXCEPT ![w] = "idle"]
    /\ UNCHANGED <<state, loopOf, chanVars, bytes, shut, connections, ring,
                   queue, pool, peer, user, halt>>
-----------------------------------------------------------------------------
(* The client closes, or it resets the connection: read() then fails once  *)
(* and returns 0 afterwards, a write() fails and later ones raise SIGPIPE. *)
(* A reset after a close is reported by SIGPIPE at once.                   *)
PeerCloses(c, how) ==
    /\ halt = "no" /\ state[c] # "none"
    /\ <<peer[c], how>> \in {<<"open", "closed">>, <<"open", "reset">>,
                             <<"closed", "dead">>}
    /\ peer' = [peer EXCEPT ![c] = how]
    /\ UNCHANGED <<state, loopOf, chanVars, bytes, shut, connections, ring,
                   queue, poolVars, user, halt>>
-----------------------------------------------------------------------------
WorkerStep(w) == \/ TakeTask(w) \/ CheckState(w) \/ SetDisconnecting(w)
                 \/ PostFunctor(w) \/ Release(w)

Next == \/ \E c \in Conn : \/ Accept(c) \/ ReadMessage(c) \/ ReadError(c)
                           \/ ReadEof(c) \/ HandleWrite(c)
                           \/ \E how \in {"closed", "reset", "dead"} : PeerCloses(c, how)
        \/ \E l \in Loops : RunFunctor(l)
        \/ \E w \in Workers : WorkerStep(w)

Spec == Init /\ [][Next]_vars

(* Loops and workers keep running, a loop polls its channels fairly, and a *)
(* client that stays takes the bytes it is sent.                           *)
FairSpec == /\ Spec
            /\ \A l \in Loops : WF_vars(RunFunctor(l))
            /\ \A w \in Workers : WF_vars(WorkerStep(w))
            /\ \A c \in Conn : /\ WF_vars(ReadError(c)) /\ WF_vars(ReadEof(c))
                                /\ WF_vars(HandleWrite(c))
-----------------------------------------------------------------------------
States == {"none", "kConnecting", "kConnected", "kDisconnecting", "kDisconnected"}
Halts == {"no", "connectEstablished", "handleClose", "removeChannel", "erase",
          "dangling", "sigpipe", "accept"}
Tasks == [op : WorkerOps, conn : Conn, msg : 1 .. MaxMessages]
Functors == Tasks \cup [op : Shared, conn : Conn, msg : {0}]

(* The types, and that a worker has a task exactly while it is busy.       *)
TypeOK ==
    /\ state \in [Conn -> States]
    /\ loopOf \in [Conn -> Loops]
    /\ events \in [Conn -> SUBSET {"read", "write"}]
    /\ index \in [Conn -> {"kNew", "kAdded", "kDeleted"}]
    /\ {out, wire, sent} \subseteq [Conn -> Seq(Nat)]
    /\ shut \in [Conn -> BOOLEAN]
    /\ connections \in SUBSET Conn
    /\ loops \in IoLoops /\ next \in 1 .. Len(loops) \cup {1}
    /\ queue \in [Loops -> Seq(Functors)]
    /\ pool \in Seq(Tasks) /\ Len(pool) <= PoolCapacity
    /\ wpc \in [Workers -> {"idle", "check", "set", "post", "release"}]
    /\ job \in [Workers -> SUBSET Tasks]
    /\ \A w \in Workers : job[w] = {} <=> wpc[w] = "idle"
    /\ peer \in [Conn -> {"open", "closed", "reset", "dead"}]
    /\ calls \in [Conn -> Seq({"up", "down"})]
    /\ asked \in [Conn -> 0 .. MaxMessages]
    /\ halt \in Halts

(* None of the assertions of TcpConnection, EPoller and TcpServer fails,   *)
(* and no functor is run for a connection that is gone.                    *)
NoAssertFails == halt \in {"no", "sigpipe", "accept"}

(* Where functors of a kind wait for their connection.                     *)
Places(l, op, c) == {i \in DOMAIN queue[l] : queue[l][i].op = op
                                               /\ queue[l][i].conn = c}
Pending(op, c) == UNION {{l} \X Places(l, op, c) : l \in Loops}

(* An accepted connection is in exactly one stage of its removal: in the   *)
(* map (with or without its removal on the way to the base loop), or with  *)
(* connectDestroyed queued, once, or with its channel out of the poller.   *)
RemovalStages ==
    \A c \in Conn : state[c] # "none" =>
        LET inMap == c \in connections
        IN  /\ inMap => Pending("destroyed", c) = {}
            /\ ~inMap => /\ Pending("remove", c) = {}
                         /\ Cardinality(Pending("destroyed", c)) =
                              (IF index[c] = "kNew" THEN 0 ELSE 1)
            /\ inMap /\ state[c] = "kDisconnected" =>
                  Cardinality(Pending("remove", c)) = 1

(* What is left behind when the last reference goes: nothing. The channel  *)
(* is out of the poller, so that no event can call into a destroyed        *)
(* object, and no functor with a raw pointer is queued.                    *)
CleanDestruction ==
    \A c \in Conn : Freed(c) =>
        /\ index[c] = "kNew" /\ events[c] = {}
        /\ \A l \in Loops : \A f \in Range(queue[l]) : f.conn # c

(* Where byte b of connection c is: with a task that waits or is with a    *)
(* worker that has not queued it yet, with a functor of sendInLoop that    *)
(* waits in a loop, in the output buffer, or on the wire.                  *)
Bytes == 1 .. 2 * MaxMessages
Carries(t, c, b) == /\ t.op = "send" /\ t.conn = c
                    /\ b \in {2 * t.msg - 1, 2 * t.msg}
Carriers(s, c, b) == {i \in DOMAIN s : Carries(s[i], c, b)}
Carrying(w, c, b) == /\ wpc[w] \in {"check", "set", "post"}
                     /\ \E t \in job[w] : Carries(t, c, b)

InLoops(c, b) == UNION {{l} \X Carriers(queue[l], c, b) : l \in Loops}
OnSocket(c, b) == {i \in DOMAIN (wire[c] \o out[c]) : (wire[c] \o out[c])[i] = b}
PlacesOf(c, b) ==
    ({"pool"} \X Carriers(pool, c, b))
      \cup ({"worker"} \X {w \in Workers : Carrying(w, c, b)})
      \cup ({"loop"} \X InLoops(c, b))
      \cup ({"socket"} \X OnSocket(c, b))

(* What the workers and the callbacks have sent: queued for the loop, or   *)
(* written and buffered by it.                                             *)
Handed(c, b) ==
    \/ \E l \in Loops : \E f \in Range(queue[l]) : Carries(f, c, b)
    \/ b \in Range(wire[c] \o out[c])

WireInOrder == \A c \in Conn : wire[c] \o out[c] = sent[c]
InOnePlace == \A c \in Conn, b \in Bytes : \A p, q \in PlacesOf(c, b) : p = q
HandedStays == \A c \in Conn, b \in Bytes :
                  Handed(c, b) => Handed(c, b)' \/ halt' # "no"

(* What is on the wire and in the buffer is, in this order, what was       *)
(* handed to sendInLoop, whatever was written directly, written partly,    *)
(* buffered behind other output or buffered after an error; no byte is in  *)
(* two places on its way from the callback to the wire; and a byte that    *)
(* was sent, be it only queued for the loop, stays in one of them, unless  *)
(* the program stops.                                                      *)
WireIntegrity == [](WireInOrder /\ InOnePlace) /\ [][HandedStays]_vars

(* shutdown() cuts nothing off: unless the connection is down already, the *)
(* socket's write side is closed at a moment when no output is buffered.   *)
ShutdownAfterFlush ==
    [][\A c \in Conn : ~shut[c] /\ shut'[c] /\ calls[c] = <<"up">>
                          => out'[c] = << >>]_vars

(* The user callbacks come in the order the contract promises.             *)
Contract == INSTANCE ConnectionContract
ImplementsContract == Contract!ContractSpec

(* A connection whose client has gone is destroyed in the end: no reader,  *)
(* no queued functor and no task keeps it for ever.                        *)
EventuallyDestroyed ==
    \A c \in Conn : state[c] # "none" /\ peer[c] # "open"
                      ~> Freed(c) \/ halt # "no"

(* Buffered output is written, unless the client has gone.                 *)
EventuallyWritten ==
    \A c \in Conn : out[c] # << >>
        ~> out[c] = << >> \/ peer[c] # "open" \/ calls[c] = <<"up", "down">>
           \/ halt # "no"

(* Two of the assertions, one by one, for the runs in which a worker makes *)
(* them fail: removeChannel() finds the channel without events             *)
(* (EPoller.cc:124) ...                                                    *)
RemovedWithoutEvents == halt # "removeChannel"

(* ... and removeConnectionInLoop() erases one entry (TcpServer.cc:78).    *)
ErasedOnce == halt # "erase"
=============================================================================
