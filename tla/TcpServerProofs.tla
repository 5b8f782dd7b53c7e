-------------------------- MODULE TcpServerProofs --------------------------
(***************************************************************************)
(* Proofs about TcpServer for any connections, loops and workers and any   *)
(* bounds.                                                                 *)
(***************************************************************************)
EXTENDS TcpServer, SequenceTheorems, FiniteSetTheorems, TLAPS

(* What is in a queue after adding at its end.                             *)
LEMMA RangeOfAppend ==
  ASSUME NEW S, NEW s \in Seq(S), NEW e \in S
  PROVE  Range(Append(s, e)) = Range(s) \cup {e}
<1>1. DOMAIN Append(s, e) = DOMAIN s \cup {Len(s) + 1}
  OBVIOUS
<1>2. \A i \in DOMAIN s : Append(s, e)[i] = s[i]
  OBVIOUS
<1>3. Append(s, e)[Len(s) + 1] = e
  OBVIOUS
<1> QED
  BY <1>1, <1>2, <1>3, Zenon DEF Range

(* What is left of a queue was in it.                                      *)
LEMMA RangeOfTail ==
  ASSUME NEW S, NEW s \in Seq(S), s # << >>
  PROVE  Head(s) \in Range(s) /\ Range(Tail(s)) \subseteq Range(s)
<1>1. \A i \in DOMAIN Tail(s) : i + 1 \in DOMAIN s /\ Tail(s)[i] = s[i + 1]
  OBVIOUS
<1>2. 1 \in DOMAIN s /\ Head(s) = s[1]
  OBVIOUS
<1>3. Range(Tail(s)) \subseteq Range(s)
  BY <1>1, Zenon DEF Range
<1>4. Head(s) \in Range(s)
  BY <1>2, Zenon DEF Range
<1> QED
  BY <1>3, <1>4

(* The loops of a server are its base loop and the others.                 *)
LEMMA LoopFacts ==
  /\ Base \in Loops
  /\ \A ls \in IoLoops : ls \in Seq(Loops) /\ \A i \in 1 .. Len(ls) : ls[i] # Base
<1>1. Base \in Loops
  BY DEF Loops
<1>2. ASSUME NEW ls \in IoLoops
      PROVE  ls \in Seq(Loops) /\ \A i \in 1 .. Len(ls) : ls[i] # Base
  <2>1. ls \in Seq(Range(ls)) /\ Base \notin Range(ls) /\ Range(ls) \subseteq Loops
    BY LoopAssumption DEF Loops
  <2>2. ls \in Seq(Loops)
    BY <2>1, SeqMonotonic
  <2>3. \A i \in 1 .. Len(ls) : ls[i] \in Range(ls)
    BY <2>1 DEF Range
  <2> QED
    BY <2>1, <2>2, <2>3
<1> QED
  BY <1>1, <1>2

(* Functors, and queues after one was added or taken.                      *)
LEMMA FunctorTypes ==
  ASSUME NEW op \in Shared, NEW c \in Conn
  PROVE  Functor(op, c, 0) \in Functors
BY DEF Functor, Functors

(* A functor is about a connection; one that does not hold it is the send  *)
(* or shutdown of a task.                                                  *)
LEMMA FunctorFacts ==
  ASSUME NEW f \in Functors
  PROVE  /\ f.conn \in Conn /\ f.op \in Shared \cup {"send", "shutdown"}
         /\ f.op \notin Shared => f \in Tasks /\ f.msg \in Nat \ {0}
<1>1. CASE f \in Tasks
  <2>1. f.conn \in Conn /\ f.op \in WorkerOps /\ f.msg \in 1 .. MaxMessages
    BY <1>1 DEF Tasks
  <2>2. f.op \in {"send", "shutdown", "forceClose"}
    BY <2>1, OpsAssumption
  <2>3. f.msg \in Nat \ {0}
    BY <2>1, BoundAssumption
  <2> QED
    BY <1>1, <2>1, <2>2, <2>3 DEF Shared
<1>2. CASE f \in [op : Shared, conn : Conn, msg : {0}]
  BY <1>2
<1> QED
  BY <1>1, <1>2 DEF Functors

(* Queues after one functor was added.                                     *)
LEMMA PostTypes ==
  ASSUME NEW q \in [Loops -> Seq(Functors)], NEW l \in Loops, NEW f \in Functors
  PROVE  Post(q, l, f) \in [Loops -> Seq(Functors)]
BY DEF Post

(* The next functor of a queue, and the queues without it.                 *)
LEMMA PopTypes ==
  ASSUME NEW q \in [Loops -> Seq(Functors)], NEW l \in Loops, q[l] # << >>
  PROVE  /\ Head(q[l]) \in Functors
         /\ [q EXCEPT ![l] = Tail(@)] \in [Loops -> Seq(Functors)]
<1>1. q[l] \in Seq(Functors)
  OBVIOUS
<1>2. Head(q[l]) \in Functors /\ Tail(q[l]) \in Seq(Functors)
  BY <1>1, HeadTailProperties
<1> QED
  BY <1>2

(* A failed assertion changes nothing else.                                *)
LEMMA FailTypes ==
  ASSUME TypeOK, NEW why \in Halts, Fail(why)
  PROVE  TypeOK'
BY DEF TypeOK, Fail, chanVars, bytes, ring, poolVars, user

(* The handlers keep the types.                                            *)
LEMMA RemoveConnectionInLoopTypes ==
  ASSUME TypeOK, NEW c \in Conn, NEW q \in [Loops -> Seq(Functors)],
         RemoveConnectionInLoop(q, c)
  PROVE  /\ connections' \in SUBSET Conn
         /\ queue' \in [Loops -> Seq(Functors)]
         /\ halt' \in Halts
<1>1. Post(q, loopOf[c], Functor("destroyed", c, 0)) \in [Loops -> Seq(Functors)]
  BY PostTypes, FunctorTypes DEF TypeOK, Shared
<1> QED
  BY <1>1 DEF RemoveConnectionInLoop, TypeOK, Halts

(* removeConnection changes the map or queues a functor.                   *)
LEMMA RemoveConnectionTypes ==
  ASSUME TypeOK, NEW c \in Conn, NEW q \in [Loops -> Seq(Functors)],
         RemoveConnection(q, c)
  PROVE  /\ connections' \in SUBSET Conn
         /\ queue' \in [Loops -> Seq(Functors)]
         /\ halt' \in Halts
<1>1. Post(q, Base, Functor("remove", c, 0)) \in [Loops -> Seq(Functors)]
  BY PostTypes, FunctorTypes, LoopFacts DEF Shared
<1> QED
  BY <1>1, RemoveConnectionInLoopTypes DEF RemoveConnection, TypeOK

(* The connection callback is called.                                      *)
LEMMA CallbackTypes ==
  ASSUME TypeOK, NEW c \in Conn, NEW what \in {"up", "down"}, Callback(c, what)
  PROVE  calls' \in [Conn -> Seq({"up", "down"})]
BY DEF TypeOK, Callback

(* The poller is told of other events.                                     *)
LEMMA SetEventsTypes ==
  ASSUME TypeOK, NEW c \in Conn, NEW ev \in SUBSET {"read", "write"},
         SetEvents(c, ev)
  PROVE  /\ events' \in [Conn -> SUBSET {"read", "write"}]
         /\ index' \in [Conn -> {"kNew", "kAdded", "kDeleted"}]
BY DEF TypeOK, SetEvents, UpdatedIndex

(* handleClose, of an open connection or not.                              *)
LEMMA HandleCloseTypes ==
  ASSUME TypeOK, NEW c \in Conn, NEW q \in [Loops -> Seq(Functors)],
         HandleClose(q, c)
  PROVE  TypeOK'
<1>1. CASE state[c] \in {"kConnected", "kDisconnecting"}
  <2>1. /\ state' = [state EXCEPT ![c] = "kDisconnected"]
        /\ RemoveConnection(q, c) /\ Callback(c, "down") /\ SetEvents(c, {})
        /\ UNCHANGED <<loopOf, bytes, shut, ring, poolVars, peer, asked>>
    BY <1>1, Zenon DEF HandleClose
  <2>2. state' \in [Conn -> States]
    BY <2>1 DEF TypeOK, States
  <2>3. /\ connections' \in SUBSET Conn /\ queue' \in [Loops -> Seq(Functors)]
        /\ halt' \in Halts
    BY <2>1, RemoveConnectionTypes
  <2>4. calls' \in [Conn -> Seq({"up", "down"})]
    BY <2>1, CallbackTypes
  <2>5. /\ events' \in [Conn -> SUBSET {"read", "write"}]
        /\ index' \in [Conn -> {"kNew", "kAdded", "kDeleted"}]
    BY <2>1, SetEventsTypes
  <2> QED
    BY <2>1, <2>2, <2>3, <2>4, <2>5 DEF TypeOK, bytes, ring, poolVars
<1>2. CASE state[c] \notin {"kConnected", "kDisconnecting"}
  BY <1>2, FailTypes DEF HandleClose, Halts
<1> QED
  BY <1>1, <1>2

(* connectEstablished.                                                     *)
LEMMA ConnectEstablishedTypes ==
  ASSUME TypeOK, NEW c \in Conn, ConnectEstablished(c)
  PROVE  /\ state' \in [Conn -> States]
         /\ events' \in [Conn -> SUBSET {"read", "write"}]
         /\ index' \in [Conn -> {"kNew", "kAdded", "kDeleted"}]
         /\ calls' \in [Conn -> Seq({"up", "down"})]
<1>1. SetEvents(c, {"read"}) /\ Callback(c, "up")
  BY DEF ConnectEstablished
<1>2. state' \in [Conn -> States]
  BY DEF ConnectEstablished, TypeOK, States
<1> QED
  BY <1>1, <1>2, SetEventsTypes, CallbackTypes

(* connectDestroyed, of an open connection, a closed one, or one whose     *)
(* channel still has events.                                               *)
LEMMA ConnectDestroyedTypes ==
  ASSUME TypeOK, NEW c \in Conn, NEW q \in [Loops -> Seq(Functors)],
         ConnectDestroyed(q, c)
  PROVE  TypeOK'
<1>1. CASE state[c] # "kConnected" /\ events[c] # {}
  BY <1>1, FailTypes DEF ConnectDestroyed, Halts
<1>2. CASE ~(state[c] # "kConnected" /\ events[c] # {})
  <2>1. state' \in [Conn -> States]
    BY <1>2 DEF ConnectDestroyed, TypeOK, States
  <2>2. /\ events' \in [Conn -> SUBSET {"read", "write"}]
        /\ index' \in [Conn -> {"kNew", "kAdded", "kDeleted"}]
    <3>1. RemoveChannel(c)
      BY <1>2, Zenon DEF ConnectDestroyed
    <3> QED
      BY <3>1 DEF RemoveChannel, TypeOK
  <2>3. calls' \in [Conn -> Seq({"up", "down"})]
    BY <1>2, CallbackTypes DEF ConnectDestroyed, TypeOK
  <2>4. /\ queue' = q
        /\ UNCHANGED <<loopOf, bytes, shut, connections, ring, poolVars, peer,
                       asked, halt>>
    BY <1>2, Zenon DEF ConnectDestroyed
  <2> QED
    BY <2>1, <2>2, <2>3, <2>4 DEF TypeOK, bytes, ring, poolVars
<1> QED
  BY <1>1, <1>2

(* The two parts of a message, and that they make up the message.          *)
LEMMA DataTypes ==
  ASSUME NEW m \in Nat \ {0}, NEW n \in 0 .. 2
  PROVE  /\ Data(m) \in Seq(Nat) /\ Len(Data(m)) = 2
         /\ SubSeq(Data(m), 1, n) \in Seq(Nat)
         /\ SubSeq(Data(m), n + 1, 2) \in Seq(Nat)
         /\ Len(SubSeq(Data(m), n + 1, 2)) = 2 - n
         /\ SubSeq(Data(m), 1, n) \o SubSeq(Data(m), n + 1, 2) = Data(m)
<1>1. 2 * m - 1 \in Nat /\ 2 * m \in Nat
  OBVIOUS
<1>2. Data(m) \in Seq(Nat) /\ Len(Data(m)) = 2
  BY <1>1 DEF Data
<1>3. ASSUME NEW i \in 1 .. 2
      PROVE  Data(m)[i] \in Nat
  <2>1. i \in 1 .. Len(Data(m))
    BY <1>2
  <2> QED
    BY <1>2, <2>1, ElementOfSeq, Zenon
<1>4. SubSeq(Data(m), 1, n) \in Seq(Nat)
  BY <1>3, SubSeqProperties
<1>5. /\ SubSeq(Data(m), n + 1, 2) \in Seq(Nat)
      /\ Len(SubSeq(Data(m), n + 1, 2)) = 2 - n
  <2>1. \A i \in n + 1 .. 2 : Data(m)[i] \in Nat
    BY <1>3
  <2>2. Len(SubSeq(Data(m), n + 1, 2)) = IF n + 1 <= 2 THEN 2 - (n + 1) + 1 ELSE 0
    BY <2>1, SubSeqProperties
  <2> QED
    BY <2>1, <2>2, SubSeqProperties
<1>6. SubSeq(Data(m), 1, n) \o SubSeq(Data(m), n + 1, 2) = SubSeq(Data(m), 1, 2)
  BY <1>2, ConcatAdjacentSubSeq
<1>7. SubSeq(Data(m), 1, 2) = Data(m)
  BY <1>2, SubSeqFull
<1> QED
  BY <1>2, <1>4, <1>5, <1>6, <1>7

(* sendInLoop, with a direct write or none.                                *)
LEMMA SendInLoopTypes ==
  ASSUME TypeOK, NEW c \in Conn, NEW m \in Nat \ {0}, SendInLoop(c, m)
  PROVE  /\ {out, wire, sent}' \subseteq [Conn -> Seq(Nat)]
         /\ events' \in [Conn -> SUBSET {"read", "write"}]
         /\ index' \in [Conn -> {"kNew", "kAdded", "kDeleted"}]
         /\ peer' \in [Conn -> {"open", "closed", "reset", "dead"}]
         /\ halt' \in Halts
<1>1. CASE WritesDirectly(c) /\ WriteKills(c)
  <2>1. halt' = "sigpipe" /\ UNCHANGED <<bytes, chanVars, peer>>
    BY <1>1, Zenon DEF SendInLoop
  <2> QED
    BY <2>1 DEF TypeOK, Halts, bytes, chanVars
<1>2. CASE ~(WritesDirectly(c) /\ WriteKills(c))
  <2>1. PICK n \in IF WritesDirectly(c) THEN Taken(c, 2) ELSE {0} :
            /\ wire' = [wire EXCEPT ![c] = @ \o SubSeq(Data(m), 1, n)]
            /\ out' = [out EXCEPT ![c] = @ \o SubSeq(Data(m), n + 1, 2)]
            /\ sent' = [sent EXCEPT ![c] = @ \o Data(m)]
            /\ IF n < 2 /\ "write" \notin events[c]
               THEN SetEvents(c, events[c] \cup {"write"})
               ELSE UNCHANGED chanVars
            /\ peer' = IF WritesDirectly(c) THEN ReportReset(c) ELSE peer
            /\ UNCHANGED halt
    BY <1>2, Zenon DEF SendInLoop
  <2>2. n \in 0 .. 2
    <3>1. CASE WritesDirectly(c)
      <4>1. n \in Taken(c, 2)
        BY <3>1, Zenon
      <4> QED
        BY <4>1 DEF Taken
    <3>2. CASE ~WritesDirectly(c)
      <4>1. n \in {0}
        BY <3>2, Zenon
      <4> QED
        BY <4>1
    <3> QED
      BY <3>1, <3>2
  <2>3. {out, wire, sent}' \subseteq [Conn -> Seq(Nat)]
    <3>1. /\ out \in [Conn -> Seq(Nat)] /\ wire \in [Conn -> Seq(Nat)]
          /\ sent \in [Conn -> Seq(Nat)]
      BY DEF TypeOK
    <3>2. /\ Data(m) \in Seq(Nat) /\ SubSeq(Data(m), 1, n) \in Seq(Nat)
          /\ SubSeq(Data(m), n + 1, 2) \in Seq(Nat)
      BY <2>2, DataTypes
    <3>3. out[c] \in Seq(Nat) /\ wire[c] \in Seq(Nat) /\ sent[c] \in Seq(Nat)
      BY <3>1
    <3>4. /\ out[c] \o SubSeq(Data(m), n + 1, 2) \in Seq(Nat)
          /\ wire[c] \o SubSeq(Data(m), 1, n) \in Seq(Nat)
          /\ sent[c] \o Data(m) \in Seq(Nat)
      BY <3>2, <3>3, ConcatProperties
    <3> QED
      BY <2>1, <3>1, <3>4
  <2>4. /\ events' \in [Conn -> SUBSET {"read", "write"}]
        /\ index' \in [Conn -> {"kNew", "kAdded", "kDeleted"}]
    <3>1. SetEvents(c, events[c] \cup {"write"}) \/ UNCHANGED chanVars
      BY <2>1, Zenon
    <3>2. events[c] \cup {"write"} \in SUBSET {"read", "write"}
      BY DEF TypeOK
    <3> QED
      BY <3>1, <3>2, SetEventsTypes DEF TypeOK, chanVars
  <2>5. peer' \in [Conn -> {"open", "closed", "reset", "dead"}]
    <3>1. ReportReset(c) \in [Conn -> {"open", "closed", "reset", "dead"}]
      BY DEF TypeOK, ReportReset
    <3> QED
      BY <2>1, <3>1 DEF TypeOK
  <2> QED
    BY <2>1, <2>3, <2>4, <2>5 DEF TypeOK
<1> QED
  BY <1>1, <1>2

(* shutdownInLoop.                                                         *)
LEMMA ShutdownInLoopTypes ==
  ASSUME TypeOK, NEW c \in Conn, ShutdownInLoop(c)
  PROVE  shut' \in [Conn -> BOOLEAN]
BY DEF TypeOK, ShutdownInLoop

(* The buffer after a write of n of its bytes.                             *)
LEMMA WrittenTypes ==
  ASSUME TypeOK, NEW c \in Conn, NEW n \in 1 .. Len(out[c]), Written(c, n)
  PROVE  /\ {out, wire}' \subseteq [Conn -> Seq(Nat)]
         /\ events' \in [Conn -> SUBSET {"read", "write"}]
         /\ index' \in [Conn -> {"kNew", "kAdded", "kDeleted"}]
         /\ shut' \in [Conn -> BOOLEAN]
<1>1. /\ out \in [Conn -> Seq(Nat)] /\ wire \in [Conn -> Seq(Nat)]
      /\ out[c] \in Seq(Nat) /\ Len(out[c]) \in Nat /\ n \in Nat
  BY DEF TypeOK
<1>2. /\ SubSeq(out[c], 1, n) \in Seq(Nat)
      /\ SubSeq(out[c], n + 1, Len(out[c])) \in Seq(Nat)
  <2>1. \A i \in 1 .. Len(out[c]) : out[c][i] \in Nat
    BY <1>1
  <2>2. \A i \in 1 .. n : out[c][i] \in Nat
    BY <1>1, <2>1
  <2>3. \A i \in n + 1 .. Len(out[c]) : out[c][i] \in Nat
    BY <1>1, <2>1
  <2> QED
    BY <1>1, <2>2, <2>3, SubSeqProperties
<1>3. wire[c] \o SubSeq(out[c], 1, n) \in Seq(Nat)
  BY <1>1, <1>2
<1>4. {out, wire}' \subseteq [Conn -> Seq(Nat)]
  BY <1>1, <1>2, <1>3 DEF Written
<1>5. \/ /\ SetEvents(c, events[c] \ {"write"})
         /\ shut' = [shut EXCEPT ![c] = @ \/ state[c] = "kDisconnecting"]
      \/ UNCHANGED <<chanVars, shut>>
  BY Zenon DEF Written
<1>6. events[c] \ {"write"} \in SUBSET {"read", "write"}
  BY DEF TypeOK
<1> QED
  BY <1>4, <1>5, <1>6, SetEventsTypes DEF TypeOK, chanVars

(* newConnection, in the base loop or for another.                         *)
LEMMA NewConnectionTypes ==
  ASSUME TypeOK, NEW c \in Conn, NewConnection(c)
  PROVE  TypeOK'
<1> DEFINE l == IF loops = << >> THEN Base ELSE loops[next]
<1>1. /\ loops \in Seq(Loops) /\ next \in Nat /\ next' \in 1 .. Len(loops) \cup {1}
      /\ l \in Loops
  BY LoopFacts DEF TypeOK, NewConnection, NextLoop
<1>2. /\ loopOf' = [loopOf EXCEPT ![c] = l]
      /\ connections' = connections \cup {c}
      /\ UNCHANGED <<bytes, shut, loops, poolVars, peer, asked, halt>>
      /\ \/ ConnectEstablished(c) /\ UNCHANGED queue
         \/ /\ state' = [state EXCEPT ![c] = "kConnecting"]
            /\ queue' = Post(queue, l, Functor("established", c, 0))
            /\ UNCHANGED <<chanVars, calls>>
  BY Zenon DEF NewConnection
<1> HIDE DEF l
<1>3. Post(queue, l, Functor("established", c, 0)) \in [Loops -> Seq(Functors)]
  BY <1>1, PostTypes, FunctorTypes DEF TypeOK, Shared
<1>4. /\ state' \in [Conn -> States]
      /\ events' \in [Conn -> SUBSET {"read", "write"}]
      /\ index' \in [Conn -> {"kNew", "kAdded", "kDeleted"}]
      /\ calls' \in [Conn -> Seq({"up", "down"})]
      /\ queue' \in [Loops -> Seq(Functors)]
  BY <1>2, <1>3, ConnectEstablishedTypes DEF TypeOK, States, chanVars
<1>5. loopOf' \in [Conn -> Loops] /\ connections' \in SUBSET Conn
  BY <1>1, <1>2 DEF TypeOK
<1> QED
  BY <1>1, <1>2, <1>4, <1>5 DEF TypeOK, bytes, poolVars

(* A functor runs in the thread of its loop.                               *)
LEMMA RunFunctorTypes ==
  ASSUME TypeOK, NEW l \in Loops, RunFunctor(l)
  PROVE  TypeOK'
<1> DEFINE f == Head(queue[l])
           c == f.conn
           q == [queue EXCEPT ![l] = Tail(@)]
<1>1. f \in Functors /\ q \in [Loops -> Seq(Functors)] /\ c \in Conn
  BY PopTypes, FunctorFacts DEF RunFunctor, TypeOK
<1> HIDE DEF q
<1>2. CASE Fail("dangling") \/ Fail("connectEstablished")
  BY <1>2, FailTypes DEF Halts
<1>3. CASE /\ ConnectEstablished(c) /\ queue' = q
           /\ UNCHANGED <<loopOf, bytes, shut, connections, ring, poolVars, peer,
                          asked, halt>>
  BY <1>1, <1>3, ConnectEstablishedTypes DEF TypeOK, bytes, ring, poolVars
<1>4. CASE /\ RemoveConnectionInLoop(q, c)
           /\ UNCHANGED <<state, loopOf, chanVars, bytes, shut, ring, poolVars,
                          peer, user>>
  BY <1>1, <1>4, RemoveConnectionInLoopTypes
  DEF TypeOK, bytes, ring, poolVars, chanVars, user
<1>5. CASE ConnectDestroyed(q, c)
  BY <1>1, <1>5, ConnectDestroyedTypes
<1>6. CASE HandleClose(q, c)
  BY <1>1, <1>6, HandleCloseTypes
<1>7. CASE /\ queue' = q
           /\ UNCHANGED <<state, loopOf, chanVars, bytes, shut, connections, ring,
                          poolVars, peer, user, halt>>
  BY <1>1, <1>7 DEF TypeOK, bytes, ring, poolVars, chanVars, user
<1>8. CASE /\ f.op = "send" /\ SendInLoop(c, f.msg) /\ queue' = q
           /\ UNCHANGED <<state, loopOf, shut, connections, ring, poolVars, user>>
  <2>1. f.msg \in Nat \ {0}
    BY <1>1, <1>8, FunctorFacts DEF Shared
  <2> QED
    BY <1>1, <1>8, <2>1, SendInLoopTypes DEF TypeOK, ring, poolVars, user
<1>9. CASE /\ ShutdownInLoop(c) /\ queue' = q
           /\ UNCHANGED <<state, loopOf, chanVars, bytes, connections, ring,
                          poolVars, peer, user, halt>>
  BY <1>1, <1>9, ShutdownInLoopTypes
  DEF TypeOK, bytes, ring, poolVars, chanVars, user
<1> QED
  BY <1>2, <1>3, <1>4, <1>5, <1>6, <1>7, <1>8, <1>9, Zenon DEF RunFunctor, q

(* The message callback, whatever it does.                                 *)
LEMMA InCallbackTypes ==
  ASSUME TypeOK, NEW c \in Conn, NEW op \in CallbackOps, asked[c] < MaxMessages,
         InCallback(c, op),
         asked' = [asked EXCEPT ![c] = @ + 1],
         UNCHANGED <<loopOf, connections, ring, calls>>
  PROVE  TypeOK'
<1>1. /\ asked[c] + 1 \in 1 .. MaxMessages /\ asked[c] + 1 \in Nat \ {0}
      /\ asked' \in [Conn -> 0 .. MaxMessages]
  BY BoundAssumption DEF TypeOK
<1>2. CASE UNCHANGED <<state, chanVars, bytes, shut, queue, poolVars, peer, halt>>
  BY <1>1, <1>2 DEF TypeOK, chanVars, bytes, poolVars, ring
<1>3. CASE /\ SendInLoop(c, asked[c] + 1)
           /\ UNCHANGED <<state, shut, queue, poolVars>>
  BY <1>1, <1>3, SendInLoopTypes DEF TypeOK, ring, poolVars
<1>4. CASE /\ state' = [state EXCEPT ![c] = IF @ = "kConnected" THEN "kDisconnecting" ELSE @]
           /\ ShutdownInLoop(c)
           /\ UNCHANGED <<chanVars, bytes, queue, poolVars, peer, halt>>
  <2>1. state' \in [Conn -> States]
    BY <1>4 DEF TypeOK, States
  <2> QED
    BY <1>1, <1>4, <2>1, ShutdownInLoopTypes
    DEF TypeOK, ring, poolVars, chanVars, bytes
<1>5. CASE /\ state' = [state EXCEPT ![c] = "kDisconnecting"]
           /\ queue' = Post(queue, loopOf[c], Functor("forceClose", c, 0))
           /\ UNCHANGED <<chanVars, bytes, shut, poolVars, peer, halt>>
  <2>1. state' \in [Conn -> States]
    BY <1>5 DEF TypeOK, States
  <2>2. queue' \in [Loops -> Seq(Functors)]
    BY <1>5, PostTypes, FunctorTypes DEF TypeOK, Shared
  <2> QED
    BY <1>1, <1>5, <2>1, <2>2 DEF TypeOK, ring, poolVars, chanVars, bytes
<1>6. CASE /\ \E wop \in WorkerOps :
                 pool' = IF Len(pool) < PoolCapacity
                         THEN Append(pool, Functor(wop, c, asked[c] + 1)) ELSE pool
           /\ UNCHANGED <<state, chanVars, bytes, shut, queue, wpc, job, peer, halt>>
  <2>1. PICK wop \in WorkerOps :
             pool' = IF Len(pool) < PoolCapacity
                     THEN Append(pool, Functor(wop, c, asked[c] + 1)) ELSE pool
    BY <1>6
  <2>2. Functor(wop, c, asked[c] + 1) \in Tasks
    BY <1>1 DEF Functor, Tasks
  <2>3. pool' \in Seq(Tasks) /\ Len(pool') <= PoolCapacity
    BY <2>1, <2>2, BoundAssumption DEF TypeOK
  <2> QED
    BY <1>1, <1>6, <2>3 DEF TypeOK, ring, chanVars, bytes
<1> QED
  BY <1>2, <1>3, <1>4, <1>5, <1>6, Zenon DEF InCallback

(* The types: in particular a worker has a task exactly while it is busy,  *)
(* and the pool and _next stay within their bounds.                        *)
THEOREM TypeCorrect == Spec => []TypeOK
<1>1. Init => TypeOK
  <2> SUFFICES ASSUME Init
               PROVE  TypeOK
    OBVIOUS
  <2>1. << >> \in Seq(Nat) /\ << >> \in Seq(Functors) /\ << >> \in Seq(Tasks)
        /\ << >> \in Seq({"up", "down"}) /\ Len(<< >>) = 0
    OBVIOUS
  <2> QED
    BY <2>1, LoopFacts, BoundAssumption DEF Init, TypeOK, States, Halts
<1>2. TypeOK /\ [Next]_vars => TypeOK'
  <2> SUFFICES ASSUME TypeOK, [Next]_vars
               PROVE  TypeOK'
    OBVIOUS
  <2>1. ASSUME NEW c \in Conn, Accept(c)
        PROVE  TypeOK'
    <3>1. CASE NewConnection(c)
      BY <2>1, <3>1, NewConnectionTypes DEF Accept
    <3>2. CASE Fail("accept")
      BY <3>2, FailTypes DEF Halts
    <3> QED
      BY <2>1, <3>1, <3>2, Zenon DEF Accept
  <2>2. ASSUME NEW c \in Conn, ReadMessage(c)
        PROVE  TypeOK'
    BY <2>2, InCallbackTypes DEF ReadMessage
  <2>3. ASSUME NEW c \in Conn, ReadError(c)
        PROVE  TypeOK'
    BY <2>3 DEF ReadError, ReportReset, TypeOK, chanVars, bytes, ring, poolVars, user
  <2>4. ASSUME NEW c \in Conn, ReadEof(c)
        PROVE  TypeOK'
    BY <2>4, HandleCloseTypes DEF ReadEof, TypeOK
  <2>5. ASSUME NEW c \in Conn, HandleWrite(c)
        PROVE  TypeOK'
    <3>1. CASE halt' = "sigpipe" /\ UNCHANGED <<out, wire, chanVars, shut, peer>>
      BY <2>5, <3>1 DEF HandleWrite, TypeOK, Halts, chanVars, ring, poolVars, user
    <3>2. CASE peer' = ReportReset(c) /\ UNCHANGED <<out, wire, chanVars, shut, halt>>
      BY <2>5, <3>2
      DEF HandleWrite, ReportReset, TypeOK, chanVars, ring, poolVars, user
    <3>3. CASE /\ \E n \in 1 .. Len(out[c]) : Written(c, n)
               /\ UNCHANGED <<peer, halt>>
      BY <2>5, <3>3, WrittenTypes DEF HandleWrite, TypeOK, ring, poolVars, user
    <3> QED
      BY <2>5, <3>1, <3>2, <3>3, Zenon DEF HandleWrite
  <2>6. ASSUME NEW c \in Conn, NEW how \in {"closed", "reset", "dead"},
               PeerCloses(c, how)
        PROVE  TypeOK'
    BY <2>6 DEF PeerCloses, TypeOK, chanVars, bytes, ring, poolVars, user
  <2>7. ASSUME NEW l \in Loops, RunFunctor(l)
        PROVE  TypeOK'
    BY <2>7, RunFunctorTypes
  <2>8. ASSUME NEW w \in Workers, TakeTask(w)
        PROVE  TypeOK'
    <3>1. /\ Head(pool) \in Tasks /\ Tail(pool) \in Seq(Tasks)
          /\ Len(Tail(pool)) <= PoolCapacity
      BY <2>8, HeadTailProperties, BoundAssumption DEF TypeOK, TakeTask
    <3> QED
      BY <2>8, <3>1 DEF TakeTask, TypeOK, chanVars, bytes, ring, user
  <2>9. ASSUME NEW w \in Workers, CheckState(w)
        PROVE  TypeOK'
    BY <2>9 DEF CheckState, TypeOK, chanVars, bytes, ring, user
  <2>10. ASSUME NEW w \in Workers, SetDisconnecting(w)
         PROVE  TypeOK'
    BY <2>10 DEF SetDisconnecting, TypeOK, States, chanVars, bytes, ring, user
  <2>11. ASSUME NEW w \in Workers, PostFunctor(w)
         PROVE  TypeOK'
    <3>1. PICK t \in job[w] : queue' = Post(queue, loopOf[t.conn], t)
      BY <2>11 DEF PostFunctor
    <3>2. t \in Functors
      BY DEF TypeOK, Functors
    <3>3. queue' \in [Loops -> Seq(Functors)]
      BY <3>1, <3>2, PostTypes, FunctorFacts DEF TypeOK
    <3> QED
      BY <2>11, <3>3 DEF PostFunctor, TypeOK, chanVars, bytes, ring, user
  <2>12. ASSUME NEW w \in Workers, Release(w)
         PROVE  TypeOK'
    BY <2>12 DEF Release, TypeOK, chanVars, bytes, ring, user
  <2>13. CASE UNCHANGED vars
    BY <2>13 DEF vars, TypeOK, chanVars, bytes, ring, poolVars, user
  <2> QED
    BY <2>1, <2>2, <2>3, <2>4, <2>5, <2>6, <2>7, <2>8, <2>9, <2>10, <2>11, <2>12,
       <2>13
    DEF Next, WorkerStep
<1> QED
  BY <1>1, <1>2, PTL DEF Spec
-----------------------------------------------------------------------------
(* Bytes.  What is true of the bytes of one connection: none is lost, and  *)
(* while some are buffered the channel waits for POLLOUT.                  *)
WireAt(c) == wire[c] \o out[c] = sent[c]
Flushing(c) == "write" \in events[c] <=> out[c] # << >>

(* Bytes that were written, that are written now, and the rest.            *)
LEMMA BytesAssociate ==
  \A s, t, u \in Seq(Nat) : (s \o t) \o u = s \o (t \o u)
BY ConcatAssociative

(* A part of a message goes to the socket, the rest to the buffer, which   *)
(* is empty if there is a first part.                                      *)
LEMMA SendKeepsOrder ==
  ASSUME NEW v \in Seq(Nat), NEW b \in Seq(Nat), NEW m \in Nat \ {0},
         NEW n \in 0 .. 2, b = << >> \/ n = 0
  PROVE  /\ (v \o SubSeq(Data(m), 1, n)) \o (b \o SubSeq(Data(m), n + 1, 2))
              = (v \o b) \o Data(m)
         /\ b \o SubSeq(Data(m), n + 1, 2) = << >> <=> b = << >> /\ n = 2
<1> DEFINE x == SubSeq(Data(m), 1, n)
           y == SubSeq(Data(m), n + 1, 2)
<1>1. /\ x \in Seq(Nat) /\ y \in Seq(Nat) /\ Len(y) = 2 - n /\ x \o y = Data(m)
      /\ Data(m) \in Seq(Nat)
  BY DataTypes
<1>2. n = 0 => x = << >>
  BY SubSeqEmpty
<1> HIDE DEF x, y
<1>3. (v \o x) \o (b \o y) = (v \o b) \o Data(m)
  <2>1. CASE b = << >>
    <3>1. b \o y = y /\ v \o b = v
      BY <1>1, <2>1, ConcatEmptySeq
    <3>2. (v \o x) \o y = v \o (x \o y)
      BY <1>1, BytesAssociate, Zenon
    <3> QED
      BY <1>1, <3>1, <3>2, Zenon
  <2>2. CASE n = 0
    <3>1. y = Data(m) /\ v \o x = v
      BY <1>1, <1>2, <2>2, ConcatEmptySeq
    <3>2. v \o (b \o y) = (v \o b) \o y
      BY <1>1, BytesAssociate, Zenon
    <3> QED
      BY <3>1, <3>2, Zenon
  <2> QED
    BY <2>1, <2>2
<1>4. b \o y = << >> <=> b = << >> /\ y = << >>
  BY <1>1, ConcatEqualIffEmpty
<1>5. y = << >> <=> n = 2
  BY <1>1
<1> QED
  BY <1>3, <1>4, <1>5 DEF x, y

(* sendInLoop adds a message to the bytes of one connection and keeps      *)
(* them in order; the channel waits for POLLOUT if any of them is          *)
(* buffered.                                                               *)
LEMMA SendInLoopBytes ==
  ASSUME TypeOK, NEW c \in Conn, NEW m \in Nat \ {0}, SendInLoop(c, m)
  PROVE  /\ \A d \in Conn \ {c} : /\ events'[d] = events[d] /\ index'[d] = index[d]
                                  /\ out'[d] = out[d] /\ wire'[d] = wire[d]
                                  /\ sent'[d] = sent[d]
         /\ "read" \in events'[c] <=> "read" \in events[c]
         /\ WireAt(c) => WireAt(c)'
         /\ Flushing(c) => Flushing(c)'
<1>1. CASE UNCHANGED <<bytes, chanVars>>
  BY <1>1 DEF bytes, chanVars, WireAt, Flushing
<1>2. CASE ~(WritesDirectly(c) /\ WriteKills(c))
  <2>1. PICK n \in IF WritesDirectly(c) THEN Taken(c, 2) ELSE {0} :
            /\ wire' = [wire EXCEPT ![c] = @ \o SubSeq(Data(m), 1, n)]
            /\ out' = [out EXCEPT ![c] = @ \o SubSeq(Data(m), n + 1, 2)]
            /\ sent' = [sent EXCEPT ![c] = @ \o Data(m)]
            /\ IF n < 2 /\ "write" \notin events[c]
               THEN SetEvents(c, events[c] \cup {"write"})
               ELSE UNCHANGED chanVars
    BY <1>2, Zenon DEF SendInLoop
  <2>2. n \in 0 .. 2 /\ (n = 0 \/ WritesDirectly(c))
    <3>1. CASE WritesDirectly(c)
      <4>1. n \in Taken(c, 2)
        BY <3>1, Zenon
      <4> QED
        BY <3>1, <4>1 DEF Taken
    <3>2. CASE ~WritesDirectly(c)
      <4>1. n \in {0}
        BY <3>2, Zenon
      <4> QED
        BY <4>1
    <3> QED
      BY <3>1, <3>2
  <2>3. /\ out \in [Conn -> Seq(Nat)] /\ wire \in [Conn -> Seq(Nat)]
        /\ sent \in [Conn -> Seq(Nat)] /\ events \in [Conn -> SUBSET {"read", "write"}]
        /\ index \in [Conn -> {"kNew", "kAdded", "kDeleted"}]
    BY DEF TypeOK
  <2>4. n = 0 \/ ("write" \notin events[c] /\ out[c] = << >>)
    BY <2>2 DEF WritesDirectly
  <2>5. /\ wire'[c] = wire[c] \o SubSeq(Data(m), 1, n)
        /\ out'[c] = out[c] \o SubSeq(Data(m), n + 1, 2)
        /\ sent'[c] = sent[c] \o Data(m)
        /\ \A d \in Conn \ {c} : /\ out'[d] = out[d] /\ wire'[d] = wire[d]
                                 /\ sent'[d] = sent[d]
    BY <2>1, <2>3, Zenon
  <2>6. /\ wire'[c] \o out'[c] = (wire[c] \o out[c]) \o Data(m)
        /\ out'[c] = << >> <=> out[c] = << >> /\ n = 2
    <3>1. out[c] \in Seq(Nat) /\ wire[c] \in Seq(Nat)
      BY <2>3
    <3>2. out[c] = << >> \/ n = 0
      BY <2>4
    <3>3. /\ (wire[c] \o SubSeq(Data(m), 1, n)) \o (out[c] \o SubSeq(Data(m), n + 1, 2))
               = (wire[c] \o out[c]) \o Data(m)
          /\ out[c] \o SubSeq(Data(m), n + 1, 2) = << >> <=> out[c] = << >> /\ n = 2
      <4>1. \A v, b \in Seq(Nat) : b = << >> \/ n = 0 =>
               /\ (v \o SubSeq(Data(m), 1, n)) \o (b \o SubSeq(Data(m), n + 1, 2))
                    = (v \o b) \o Data(m)
               /\ b \o SubSeq(Data(m), n + 1, 2) = << >> <=> b = << >> /\ n = 2
        <5>1. n \in 0 .. 2 /\ m \in Nat \ {0}
          BY <2>2
        <5> QED
          BY <5>1, SendKeepsOrder, ZenonT(60)
      <4> QED
        BY <3>1, <3>2, <4>1
    <3> QED
      BY <2>5, <3>3, Zenon
  <2>7. events' = [events EXCEPT ![c] =
                      IF n < 2 THEN events[c] \cup {"write"} ELSE events[c]]
    <3>1. CASE n < 2 /\ "write" \notin events[c]
      <4>1. SetEvents(c, events[c] \cup {"write"})
        BY <2>1, <3>1, Zenon
      <4> QED
        BY <3>1, <4>1 DEF SetEvents
    <3>2. CASE ~(n < 2 /\ "write" \notin events[c])
      <4>1. UNCHANGED chanVars
        BY <2>1, <3>2, Zenon
      <4> QED
        BY <2>3, <3>2, <4>1 DEF chanVars
    <3> QED
      BY <3>1, <3>2
  <2>8. \A d \in Conn \ {c} : index'[d] = index[d]
    <3>1. SetEvents(c, events[c] \cup {"write"}) \/ UNCHANGED chanVars
      BY <2>1, Zenon
    <3> QED
      BY <2>3, <3>1 DEF SetEvents, chanVars
  <2>9. WireAt(c) => WireAt(c)'
    BY <2>5, <2>6 DEF WireAt
  <2>10. Flushing(c) => Flushing(c)'
    BY <2>2, <2>3, <2>4, <2>6, <2>7 DEF Flushing
  <2> QED
    BY <2>3, <2>5, <2>7, <2>8, <2>9, <2>10
<1> QED
  BY <1>1, <1>2, Zenon DEF SendInLoop

(* handleWrite moves bytes from the front of the buffer to the socket,     *)
(* and closes the write side only when the buffer is empty.                *)
LEMMA WrittenBytes ==
  ASSUME TypeOK, NEW c \in Conn, NEW n \in 1 .. Len(out[c]), Written(c, n),
         UNCHANGED sent
  PROVE  /\ \A d \in Conn \ {c} : /\ events'[d] = events[d] /\ index'[d] = index[d]
                                  /\ out'[d] = out[d] /\ wire'[d] = wire[d]
                                  /\ shut'[d] = shut[d]
         /\ "read" \in events'[c] <=> "read" \in events[c]
         /\ WireAt(c) => WireAt(c)'
         /\ Flushing(c) => Flushing(c)'
         /\ shut'[c] # shut[c] => out'[c] = << >>
<1>1. /\ out \in [Conn -> Seq(Nat)] /\ wire \in [Conn -> Seq(Nat)]
      /\ events \in [Conn -> SUBSET {"read", "write"}]
      /\ index \in [Conn -> {"kNew", "kAdded", "kDeleted"}]
      /\ shut \in [Conn -> BOOLEAN]
      /\ out[c] \in Seq(Nat) /\ wire[c] \in Seq(Nat) /\ Len(out[c]) \in Nat
  BY DEF TypeOK
<1> DEFINE x == SubSeq(out[c], 1, n)
           y == SubSeq(out[c], n + 1, Len(out[c]))
<1>2. /\ wire'[c] = wire[c] \o x /\ out'[c] = y
      /\ \A d \in Conn \ {c} : out'[d] = out[d] /\ wire'[d] = wire[d]
  BY <1>1, Zenon DEF Written
<1>3. x \in Seq(Nat) /\ y \in Seq(Nat) /\ Len(y) = Len(out[c]) - n
  <2>1. \A i \in 1 .. n : out[c][i] \in Nat
    BY <1>1
  <2>2. \A i \in n + 1 .. Len(out[c]) : out[c][i] \in Nat
    BY <1>1
  <2> QED
    BY <1>1, <2>1, <2>2, SubSeqProperties
<1>4. x \o y = out[c]
  <2>1. x \o y = SubSeq(out[c], 1, Len(out[c]))
    BY <1>1, ConcatAdjacentSubSeq
  <2> QED
    BY <1>1, <2>1, SubSeqFull
<1> HIDE DEF x, y
<1>5. WireAt(c) => WireAt(c)'
  <2>1. (wire[c] \o x) \o y = wire[c] \o (x \o y)
    BY <1>1, <1>3, BytesAssociate, Zenon
  <2> QED
    BY <1>2, <1>4, <2>1, Zenon DEF WireAt
<1>6. y = << >> <=> n = Len(out[c])
  BY <1>1, <1>3
<1>7. CASE n = Len(out[c])
  <2>1. /\ SetEvents(c, events[c] \ {"write"})
        /\ shut' = [shut EXCEPT ![c] = @ \/ state[c] = "kDisconnecting"]
    BY <1>7, Zenon DEF Written
  <2> QED
    BY <1>1, <1>2, <1>5, <1>6, <1>7, <2>1 DEF SetEvents, Flushing
<1>8. CASE n # Len(out[c])
  <2>1. UNCHANGED <<chanVars, shut>>
    BY <1>8, Zenon DEF Written
  <2>2. out[c] # << >>
    BY <1>1
  <2> QED
    BY <1>1, <1>2, <1>5, <1>6, <1>8, <2>1, <2>2 DEF chanVars, Flushing
<1> QED
  BY <1>7, <1>8

(* Only sendInLoop and handleWrite touch the bytes of a connection.        *)
LEMMA WhoWrites ==
  ASSUME TypeOK, [Next]_vars
  PROVE  \/ UNCHANGED <<out, wire, sent>>
         \/ \E c \in Conn : \E m \in Nat \ {0} : SendInLoop(c, m)
         \/ \E c \in Conn : \E n \in 1 .. Len(out[c]) : Written(c, n) /\ UNCHANGED sent
<1>1. ASSUME NEW c \in Conn, Accept(c)
      PROVE  UNCHANGED <<out, wire, sent>>
  BY <1>1, Zenon DEF Accept, NewConnection, Fail, bytes
<1>2. ASSUME NEW c \in Conn, ReadMessage(c)
      PROVE  UNCHANGED <<out, wire, sent>> \/ \E m \in Nat \ {0} : SendInLoop(c, m)
  <2>1. PICK op \in CallbackOps : InCallback(c, op)
    BY <1>2, Zenon DEF ReadMessage
  <2>2. asked[c] + 1 \in Nat \ {0}
    BY DEF TypeOK
  <2>3. SendInLoop(c, asked[c] + 1) \/ UNCHANGED bytes
    BY <2>1, Zenon DEF InCallback
  <2> QED
    BY <2>2, <2>3, Zenon DEF bytes
<1>3. ASSUME NEW c \in Conn, NEW q, HandleClose(q, c) \/ ConnectDestroyed(q, c)
      PROVE  UNCHANGED <<out, wire, sent>>
  BY <1>3, Zenon DEF HandleClose, ConnectDestroyed, Fail, bytes
<1>4. ASSUME NEW c \in Conn, HandleWrite(c)
      PROVE  \/ UNCHANGED <<out, wire, sent>>
             \/ \E n \in 1 .. Len(out[c]) : Written(c, n) /\ UNCHANGED sent
  BY <1>4, Zenon DEF HandleWrite
<1>5. ASSUME NEW l \in Loops, RunFunctor(l)
      PROVE  \/ UNCHANGED <<out, wire, sent>>
             \/ \E c \in Conn : \E m \in Nat \ {0} : SendInLoop(c, m)
  <2> DEFINE f == Head(queue[l])
             q == [queue EXCEPT ![l] = Tail(@)]
  <2>1. f \in Functors
    BY <1>5, PopTypes DEF RunFunctor, TypeOK
  <2>2. CASE f.op = "send" /\ SendInLoop(f.conn, f.msg)
    <3>1. f.conn \in Conn /\ f.msg \in Nat \ {0}
      BY <2>1, <2>2, FunctorFacts DEF Shared
    <3> QED
      BY <2>2, <3>1
  <2>3. CASE HandleClose(q, f.conn) \/ ConnectDestroyed(q, f.conn)
    <3>1. f.conn \in Conn
      BY <2>1, FunctorFacts
    <3> QED
      BY <1>3, <2>3, <3>1
  <2>4. CASE UNCHANGED bytes
    BY <2>4 DEF bytes
  <2> QED
    BY <1>5, <2>2, <2>3, <2>4, Zenon DEF RunFunctor, Fail
<1>6. ASSUME NEW w \in Workers, WorkerStep(w)
      PROVE  UNCHANGED <<out, wire, sent>>
  BY <1>6, Zenon
  DEF WorkerStep, TakeTask, CheckState, SetDisconnecting, PostFunctor, Release, bytes
<1>7. CASE UNCHANGED vars
  BY <1>7, Zenon DEF vars, bytes
<1>8. ASSUME NEW c \in Conn, ReadError(c) \/ ReadEof(c)
                              \/ \E how \in {"closed", "reset", "dead"} : PeerCloses(c, how)
      PROVE  UNCHANGED <<out, wire, sent>>
  BY <1>3, <1>8, Zenon DEF ReadError, ReadEof, PeerCloses, bytes
<1> QED
  BY <1>1, <1>2, <1>4, <1>5, <1>6, <1>7, <1>8, Zenon DEF Next

(* No byte that was handed to sendInLoop is lost, doubled or overtaken by  *)
(* another, whatever was written at once, partly, later or not at all.     *)
LEMMA BytesInOrder == Spec => []WireInOrder
<1>1. Init => WireInOrder
  BY DEF Init, WireInOrder
<1>2. TypeOK /\ WireInOrder /\ [Next]_vars => WireInOrder'
  <2> SUFFICES ASSUME TypeOK, WireInOrder, [Next]_vars
               PROVE  WireInOrder'
    OBVIOUS
  <2>1. \A d \in Conn : WireAt(d)
    BY Zenon DEF WireInOrder, WireAt
  <2>2. CASE UNCHANGED <<out, wire, sent>>
    BY <2>2, Zenon DEF WireInOrder
  <2>3. ASSUME NEW c \in Conn, NEW m \in Nat \ {0}, SendInLoop(c, m), NEW d \in Conn
        PROVE  WireAt(d)'
    <3>1. CASE d = c
      BY <2>1, <2>3, <3>1, SendInLoopBytes
    <3>2. CASE d # c
      <4>1. out'[d] = out[d] /\ wire'[d] = wire[d] /\ sent'[d] = sent[d]
        BY <2>3, <3>2, SendInLoopBytes
      <4> QED
        BY <2>1, <4>1, Zenon DEF WireAt
    <3> QED
      BY <3>1, <3>2
  <2>4. ASSUME NEW c \in Conn, NEW n \in 1 .. Len(out[c]), Written(c, n),
               UNCHANGED sent, NEW d \in Conn
        PROVE  WireAt(d)'
    <3>1. CASE d = c
      BY <2>1, <2>4, <3>1, WrittenBytes
    <3>2. CASE d # c
      <4>1. out'[d] = out[d] /\ wire'[d] = wire[d] /\ sent'[d] = sent[d]
        BY <2>4, <3>2, WrittenBytes
      <4> QED
        BY <2>1, <4>1, Zenon DEF WireAt
    <3> QED
      BY <3>1, <3>2
  <2> QED
    BY <2>2, <2>3, <2>4, WhoWrites, Zenon DEF WireInOrder, WireAt
<1> QED
  BY <1>1, <1>2, TypeCorrect, PTL DEF Spec

(* Bytes on their way from a callback to the wire.                         *)
One(S) == \A x, y \in S : x = y
AtWorkers(c, b) == {w \in Workers : Carrying(w, c, b)}
LoopsOf(q, c, b) == UNION {{l} \X Carriers(q[l], c, b) : l \in Loops}
SentAt(c, b) == {i \in DOMAIN sent[c] : sent[c][i] = b}

(* Of four sets one at most has an element, and one at most.               *)
Alone(P, W, L, S) ==
    /\ One(P) /\ One(W) /\ One(L) /\ One(S)
    /\ P # {} => W = {} /\ L = {} /\ S = {}
    /\ W # {} => L = {} /\ S = {}
    /\ L # {} => S = {}

(* A byte is in one place at most, and in none before its message is read. *)
OnceAt(c, b) ==
    /\ Alone(Carriers(pool, c, b), AtWorkers(c, b), LoopsOf(queue, c, b), SentAt(c, b))
    /\ b > 2 * asked[c] => /\ Carriers(pool, c, b) = {} /\ AtWorkers(c, b) = {}
                           /\ LoopsOf(queue, c, b) = {} /\ SentAt(c, b) = {}

OnceInv == \A c \in Conn, b \in Bytes : OnceAt(c, b)

(* What a step makes of one byte: it is still once where it is, and once   *)
(* sent it stays so.                                                       *)
Stays(c, b) ==
    LoopsOf(queue, c, b) # {} \/ SentAt(c, b) # {}
       => (LoopsOf(queue, c, b) # {} \/ SentAt(c, b) # {})' \/ halt' # "no"
OnceStep(c, b) == OnceAt(c, b)' /\ Stays(c, b)

(* A set that a step leaves with no more elements.                         *)
Shrinks(S, T) == (S = {} => T = {}) /\ (One(S) => One(T))

(* A byte that stays where it is.                                          *)
LEMMA QuietOnce ==
  ASSUME NEW c \in Conn, NEW b \in Bytes, OnceAt(c, b),
         Shrinks(Carriers(pool, c, b), Carriers(pool, c, b)'),
         Shrinks(AtWorkers(c, b), AtWorkers(c, b)'),
         Shrinks(LoopsOf(queue, c, b), LoopsOf(queue, c, b)'),
         SentAt(c, b)' = SentAt(c, b),
         b > 2 * asked'[c] => b > 2 * asked[c],
         LoopsOf(queue, c, b) # {} => LoopsOf(queue, c, b)' # {} \/ halt' # "no"
  PROVE  OnceStep(c, b)
<1>1. (b > 2 * asked[c])' => b > 2 * asked[c]
  OBVIOUS
<1> QED
  BY <1>1, Zenon DEF OnceStep, OnceAt, Stays, Alone, Shrinks

(* One whose message has just been read: it is sent or its task waits.     *)
LEMMA FreshOnce ==
  ASSUME NEW c \in Conn, NEW b \in Bytes,
         Carriers(pool, c, b) = {}, AtWorkers(c, b) = {},
         LoopsOf(queue, c, b) = {}, SentAt(c, b) = {}, ~(b > 2 * asked'[c]),
         AtWorkers(c, b)' = {}, LoopsOf(queue, c, b)' = {},
         One(Carriers(pool, c, b)'), One(SentAt(c, b)'),
         Carriers(pool, c, b)' = {} \/ SentAt(c, b)' = {}
  PROVE  OnceStep(c, b)
<1>1. ~(b > 2 * asked[c])'
  OBVIOUS
<1>2. One({})
  BY DEF One
<1> QED
  BY <1>1, <1>2, Zenon DEF OnceStep, OnceAt, Stays, Alone

(* What carries a byte in a sequence that becomes longer ...               *)
LEMMA CarriersOfAppend ==
  ASSUME NEW T, NEW s \in Seq(T), NEW e \in T, NEW c, NEW b
  PROVE  Carriers(Append(s, e), c, b) =
           IF Carries(e, c, b) THEN Carriers(s, c, b) \cup {Len(s) + 1}
                               ELSE Carriers(s, c, b)
<1>1. DOMAIN Append(s, e) = DOMAIN s \cup {Len(s) + 1}
  OBVIOUS
<1>2. \A i \in DOMAIN s : Append(s, e)[i] = s[i] /\ i # Len(s) + 1
  OBVIOUS
<1>3. Append(s, e)[Len(s) + 1] = e
  OBVIOUS
<1> QED
  BY <1>1, <1>2, <1>3, Zenon DEF Carriers

(* ... and in one that becomes shorter.                                    *)
LEMMA CarriersOfTail ==
  ASSUME NEW T, NEW s \in Seq(T), s # << >>, NEW c, NEW b
  PROVE  /\ Carries(Head(s), c, b) <=> 1 \in Carriers(s, c, b)
         /\ \A i \in Nat \ {0} : i \in Carriers(Tail(s), c, b)
                                   <=> i + 1 \in Carriers(s, c, b)
         /\ Carriers(s, c, b) \subseteq Nat \ {0}
         /\ Carriers(Tail(s), c, b) \subseteq Nat \ {0}
<1>1. 1 \in DOMAIN s /\ Head(s) = s[1]
  OBVIOUS
<1>2. \A i \in Nat \ {0} : i \in DOMAIN Tail(s) <=> i + 1 \in DOMAIN s
  OBVIOUS
<1>3. \A i \in DOMAIN Tail(s) : Tail(s)[i] = s[i + 1]
  OBVIOUS
<1>4. DOMAIN s \subseteq Nat \ {0} /\ DOMAIN Tail(s) \subseteq Nat \ {0}
  OBVIOUS
<1>5. Carries(Head(s), c, b) <=> 1 \in Carriers(s, c, b)
  BY <1>1, Zenon DEF Carriers
<1>6. \A i \in Nat \ {0} : i \in Carriers(Tail(s), c, b)
                             <=> i + 1 \in Carriers(s, c, b)
  BY <1>2, <1>3, Zenon DEF Carriers
<1>7. /\ Carriers(s, c, b) \subseteq Nat \ {0}
      /\ Carriers(Tail(s), c, b) \subseteq Nat \ {0}
  BY <1>4, Zenon DEF Carriers
<1> QED
  BY <1>5, <1>6, <1>7, Zenon

(* So the first one gone leaves none, and otherwise none goes.             *)
LEMMA CarriersLeft ==
  ASSUME NEW T, NEW s \in Seq(T), s # << >>, NEW c, NEW b
  PROVE  /\ Shrinks(Carriers(s, c, b), Carriers(Tail(s), c, b))
         /\ Carries(Head(s), c, b) /\ One(Carriers(s, c, b))
               => Carriers(Tail(s), c, b) = {}
         /\ ~Carries(Head(s), c, b) /\ Carriers(s, c, b) # {}
               => Carriers(Tail(s), c, b) # {}
<1> DEFINE A == Carriers(s, c, b)
           B == Carriers(Tail(s), c, b)
<1>1. /\ Carries(Head(s), c, b) <=> 1 \in A
      /\ \A i \in Nat \ {0} : i \in B <=> i + 1 \in A
      /\ A \subseteq Nat \ {0} /\ B \subseteq Nat \ {0}
  BY CarriersOfTail, Zenon
<1> HIDE DEF A, B
<1>2. Shrinks(A, B)
  <2>1. \A i \in B : i + 1 \in A
    BY <1>1
  <2>2. ASSUME One(A), NEW i \in B, NEW j \in B
        PROVE  i = j
    <3>1. i \in Nat /\ j \in Nat /\ i + 1 = j + 1
      BY <1>1, <2>1, <2>2 DEF One
    <3> QED
      BY <3>1
  <2> QED
    BY <2>1, <2>2, Zenon DEF Shrinks, One
<1>3. ASSUME 1 \in A, One(A), NEW i \in B
      PROVE  FALSE
  <2>1. i \in Nat \ {0} /\ i + 1 = 1
    BY <1>1, <1>3 DEF One
  <2> QED
    BY <2>1
<1>4. ASSUME 1 \notin A, NEW i \in A
      PROVE  i - 1 \in B
  <2>1. i \in Nat \ {0} /\ i # 1
    BY <1>1, <1>4
  <2>2. i - 1 \in Nat \ {0} /\ (i - 1) + 1 = i
    BY <2>1
  <2> QED
    BY <1>1, <1>4, <2>2
<1> QED
  BY <1>1, <1>2, <1>3, <1>4, Zenon DEF A, B

(* The places in the queues of all loops.                                  *)
LEMMA InLoopsOf ==
  ASSUME NEW q, NEW c, NEW b
  PROVE  \A x : x \in LoopsOf(q, c, b)
                  <=> \E l \in Loops : \E i \in Carriers(q[l], c, b) : x = <<l, i>>
<1>1. \A l, x : x \in {l} \X Carriers(q[l], c, b)
                  <=> \E i \in Carriers(q[l], c, b) : x = <<l, i>>
  OBVIOUS
<1>2. \A x : x \in LoopsOf(q, c, b)
               <=> \E l \in Loops : x \in {l} \X Carriers(q[l], c, b)
  BY DEF LoopsOf
<1>3. SUFFICES ASSUME NEW x
               PROVE  x \in LoopsOf(q, c, b)
                        <=> \E l \in Loops : \E i \in Carriers(q[l], c, b) : x = <<l, i>>
  OBVIOUS
<1>4. x \in LoopsOf(q, c, b) <=> \E l \in Loops : x \in {l} \X Carriers(q[l], c, b)
  BY <1>2
<1>5. \A l : x \in {l} \X Carriers(q[l], c, b)
               <=> \E i \in Carriers(q[l], c, b) : x = <<l, i>>
  BY <1>1
<1> QED
  BY <1>4, <1>5

(* That is: each of them is in the same loop and at the same place ...     *)
OneIn(q, c, b) ==
    \A k, l \in Loops : \A i \in Carriers(q[k], c, b), j \in Carriers(q[l], c, b) :
       k = l /\ i = j

(* ... or there is none.                                                   *)
NoneIn(q, c, b) == \A l \in Loops : Carriers(q[l], c, b) = {}

(* They are one at most if they are so in each loop and in one loop only.  *)
LEMMA LoopsAreOne ==
  ASSUME NEW q, NEW c, NEW b
  PROVE  /\ One(LoopsOf(q, c, b)) <=> OneIn(q, c, b)
         /\ LoopsOf(q, c, b) = {} <=> NoneIn(q, c, b)
<1>1. \A x : x \in LoopsOf(q, c, b)
                <=> \E l \in Loops : \E i \in Carriers(q[l], c, b) : x = <<l, i>>
  BY InLoopsOf
<1>2. ASSUME One(LoopsOf(q, c, b)), NEW k \in Loops, NEW l \in Loops,
             NEW i \in Carriers(q[k], c, b), NEW j \in Carriers(q[l], c, b)
      PROVE  k = l /\ i = j
  <2>1. <<k, i>> \in LoopsOf(q, c, b) /\ <<l, j>> \in LoopsOf(q, c, b)
    BY <1>1
  <2>2. <<k, i>> = <<l, j>>
    BY <1>2, <2>1, Zenon DEF One
  <2> QED
    BY <2>2
<1>3. ASSUME OneIn(q, c, b), NEW x \in LoopsOf(q, c, b), NEW y \in LoopsOf(q, c, b)
      PROVE  x = y
  <2>1. /\ \E k \in Loops : \E i \in Carriers(q[k], c, b) : x = <<k, i>>
        /\ \E l \in Loops : \E j \in Carriers(q[l], c, b) : y = <<l, j>>
    BY <1>1, <1>3
  <2> QED
    BY <1>3, <2>1, Zenon DEF OneIn
<1>4. LoopsOf(q, c, b) = {} <=> NoneIn(q, c, b)
  BY <1>1 DEF NoneIn
<1>5. One(LoopsOf(q, c, b)) => OneIn(q, c, b)
  BY <1>2, Zenon DEF OneIn
<1>6. OneIn(q, c, b) => One(LoopsOf(q, c, b))
  BY <1>3, Zenon DEF One
<1> QED
  BY <1>4, <1>5, <1>6, Zenon

(* A functor is added to one of the queues ...                             *)
LEMMA PostLoops ==
  ASSUME NEW q \in [Loops -> Seq(Functors)], NEW l \in Loops, NEW f \in Functors,
         NEW c, NEW b
  PROVE  /\ ~Carries(f, c, b) => LoopsOf(Post(q, l, f), c, b) = LoopsOf(q, c, b)
         /\ LoopsOf(q, c, b) = {} => One(LoopsOf(Post(q, l, f), c, b))
<1> DEFINE p == Post(q, l, f)
<1>1. p[l] = Append(q[l], f) /\ q[l] \in Seq(Functors)
  BY DEF Post
<1>2. \A k \in Loops \ {l} : p[k] = q[k]
  BY DEF Post
<1>3. Carriers(p[l], c, b) = IF Carries(f, c, b)
                             THEN Carriers(q[l], c, b) \cup {Len(q[l]) + 1}
                             ELSE Carriers(q[l], c, b)
  BY <1>1, CarriersOfAppend
<1> HIDE DEF p
<1>4. ASSUME ~Carries(f, c, b)
      PROVE  LoopsOf(p, c, b) = LoopsOf(q, c, b)
  <2>1. \A k \in Loops : Carriers(p[k], c, b) = Carriers(q[k], c, b)
    BY <1>2, <1>3, <1>4, Zenon
  <2>2. \A x : x \in LoopsOf(p, c, b) <=> x \in LoopsOf(q, c, b)
    BY <2>1, InLoopsOf
  <2> QED
    BY <2>2
<1>5. ASSUME LoopsOf(q, c, b) = {}
      PROVE  One(LoopsOf(p, c, b))
  <2>1. \A k \in Loops : Carriers(q[k], c, b) = {}
    BY <1>5, LoopsAreOne, Zenon DEF NoneIn
  <2>2. \A k \in Loops : \A i \in Carriers(p[k], c, b) : k = l /\ i = Len(q[l]) + 1
    BY <1>2, <1>3, <2>1
  <2>3. OneIn(p, c, b)
    BY <2>2, Zenon DEF OneIn
  <2> QED
    BY <2>3, LoopsAreOne, Zenon
<1> QED
  BY <1>4, <1>5 DEF p

(* ... and the first one of a queue taken.                                 *)
LEMMA PopLoops ==
  ASSUME NEW q \in [Loops -> Seq(Functors)], NEW l \in Loops, q[l] # << >>,
         NEW c, NEW b, NEW p, p = [q EXCEPT ![l] = Tail(@)]
  PROVE  /\ Shrinks(LoopsOf(q, c, b), LoopsOf(p, c, b))
         /\ Carries(Head(q[l]), c, b)
               => /\ LoopsOf(q, c, b) # {}
                  /\ One(LoopsOf(q, c, b)) => LoopsOf(p, c, b) = {}
         /\ ~Carries(Head(q[l]), c, b) /\ LoopsOf(q, c, b) # {}
               => LoopsOf(p, c, b) # {}
<1>1. q[l] \in Seq(Functors) /\ p[l] = Tail(q[l]) /\ \A k \in Loops \ {l} : p[k] = q[k]
  OBVIOUS
<1> DEFINE A(k) == Carriers(q[k], c, b)
           B(k) == Carriers(p[k], c, b)
<1>2. /\ Shrinks(A(l), B(l))
      /\ Carries(Head(q[l]), c, b) /\ One(A(l)) => B(l) = {}
      /\ ~Carries(Head(q[l]), c, b) /\ A(l) # {} => B(l) # {}
  BY <1>1, CarriersLeft, Zenon
<1>3. Carries(Head(q[l]), c, b) => 1 \in A(l)
  BY <1>1, CarriersOfTail, Zenon
<1>4. \A k \in Loops \ {l} : A(k) = B(k)
  BY <1>1, Zenon
<1>5. /\ One(LoopsOf(q, c, b)) <=> \A k, m \in Loops : \A i \in A(k), j \in A(m) :
                                      k = m /\ i = j
      /\ LoopsOf(q, c, b) = {} <=> \A k \in Loops : A(k) = {}
      /\ One(LoopsOf(p, c, b)) <=> \A k, m \in Loops : \A i \in B(k), j \in B(m) :
                                      k = m /\ i = j
      /\ LoopsOf(p, c, b) = {} <=> \A k \in Loops : B(k) = {}
  <2>1. /\ One(LoopsOf(q, c, b)) <=> OneIn(q, c, b)
        /\ LoopsOf(q, c, b) = {} <=> NoneIn(q, c, b)
        /\ One(LoopsOf(p, c, b)) <=> OneIn(p, c, b)
        /\ LoopsOf(p, c, b) = {} <=> NoneIn(p, c, b)
    BY LoopsAreOne, Zenon
  <2> QED
    BY <2>1 DEF OneIn, NoneIn
<1> HIDE DEF A, B
<1>6. \A k \in Loops : A(k) = {} => B(k) = {}
  BY <1>2, <1>4, Zenon DEF Shrinks
<1>7. One(LoopsOf(q, c, b)) => One(LoopsOf(p, c, b))
  <2>1. SUFFICES ASSUME One(LoopsOf(q, c, b)), NEW k \in Loops, NEW m \in Loops,
                        NEW i \in B(k), NEW j \in B(m)
                 PROVE  k = m /\ i = j
    BY <1>5, Zenon
  <2>2. A(k) # {} /\ A(m) # {}
    BY <1>6, Zenon
  <2>3. k = m
    BY <1>5, <2>1, <2>2, Zenon
  <2>4. One(A(k))
    BY <1>5, <2>1, Zenon DEF One
  <2>5. One(B(k))
    BY <1>2, <1>4, <2>4, Zenon DEF Shrinks
  <2> QED
    BY <2>3, <2>5, Zenon DEF One
<1>8. ASSUME Carries(Head(q[l]), c, b), One(LoopsOf(q, c, b)), NEW k \in Loops
      PROVE  B(k) = {}
  <2>1. One(A(l))
    BY <1>5, <1>8, Zenon DEF One
  <2>2. k # l => A(k) = {}
    BY <1>3, <1>5, <1>8, Zenon
  <2> QED
    BY <1>2, <1>4, <1>8, <2>1, <2>2, Zenon
<1>9. ASSUME ~Carries(Head(q[l]), c, b), NEW k \in Loops, A(k) # {}
      PROVE  B(k) # {}
  BY <1>2, <1>4, <1>9, Zenon
<1> QED
  BY <1>3, <1>5, <1>6, <1>7, <1>8, <1>9, Zenon DEF Shrinks

(* The places of the next state are those of its queues.                   *)
LEMMA LoopsNext ==
  ASSUME NEW c, NEW b
  PROVE  LoopsOf(queue, c, b)' = LoopsOf(queue', c, b)
BY Zenon DEF LoopsOf, Carriers, Carries

(* Handlers queue functors that carry nothing.                             *)
OtherPost(q) == \/ queue' = q
                \/ \E l \in Loops : \E f \in Functors :
                      f.op # "send" /\ queue' = Post(q, l, f)

(* So they leave what is on its way in the queues.                         *)
LEMMA OtherPosts ==
  ASSUME NEW q \in [Loops -> Seq(Functors)], OtherPost(q), NEW c, NEW b
  PROVE  LoopsOf(queue, c, b)' = LoopsOf(q, c, b)
<1>1. LoopsOf(queue, c, b)' = LoopsOf(queue', c, b)
  BY LoopsNext
<1>2. CASE queue' = q
  BY <1>1, <1>2, Zenon
<1>3. ASSUME NEW l \in Loops, NEW f \in Functors, f.op # "send", queue' = Post(q, l, f)
      PROVE  LoopsOf(queue', c, b) = LoopsOf(q, c, b)
  BY <1>3, PostLoops DEF Carries
<1> QED
  BY <1>1, <1>2, <1>3, Zenon DEF OtherPost

(* The removal of a connection is queued so ...                            *)
LEMMA RemovalPosts ==
  ASSUME TypeOK, NEW c \in Conn, NEW q \in [Loops -> Seq(Functors)],
         RemoveConnection(q, c) \/ RemoveConnectionInLoop(q, c)
  PROVE  OtherPost(q)
<1>1. loopOf[c] \in Loops /\ Base \in Loops
  BY LoopFacts DEF TypeOK
<1>2. \A op \in {"destroyed", "remove"} : /\ Functor(op, c, 0) \in Functors
                                          /\ Functor(op, c, 0).op # "send"
  BY FunctorTypes DEF Shared, Functor
<1>3. \/ queue' = q
      \/ queue' = Post(q, loopOf[c], Functor("destroyed", c, 0))
      \/ queue' = Post(q, Base, Functor("remove", c, 0))
  BY Zenon DEF RemoveConnection, RemoveConnectionInLoop
<1> QED
  BY <1>1, <1>2, <1>3 DEF OtherPost

Underway == <<sent, pool, wpc, job, asked>>

(* ... and no task, message or byte is touched by it.                      *)
LEMMA HandlersQuiet ==
  ASSUME TypeOK, NEW c \in Conn, NEW q \in [Loops -> Seq(Functors)],
         HandleClose(q, c) \/ ConnectDestroyed(q, c)
  PROVE  UNCHANGED Underway /\ (OtherPost(q) \/ (halt' # "no" /\ queue' = queue))
<1>1. CASE HandleClose(q, c)
  <2>1. UNCHANGED Underway /\ (RemoveConnection(q, c) \/ Fail("handleClose"))
    BY <1>1, Zenon DEF HandleClose, Fail, bytes, poolVars, user, Underway
  <2> QED
    BY <2>1, RemovalPosts DEF Fail
<1>2. CASE ConnectDestroyed(q, c)
  <2>1. UNCHANGED Underway /\ (queue' = q \/ Fail("removeChannel"))
    BY <1>2, Zenon DEF ConnectDestroyed, Fail, bytes, poolVars, user, Underway
  <2> QED
    BY <2>1 DEF Fail, OtherPost
<1> QED
  BY <1>1, <1>2

(* A step that touches none of them keeps every byte where it is ...       *)
LEMMA QuietStep ==
  ASSUME NEW c \in Conn, NEW b \in Bytes, OnceAt(c, b), UNCHANGED Underway,
         \/ LoopsOf(queue, c, b)' = LoopsOf(queue, c, b)
         \/ /\ Shrinks(LoopsOf(queue, c, b), LoopsOf(queue, c, b)')
            /\ LoopsOf(queue, c, b) # {} => LoopsOf(queue, c, b)' # {}
  PROVE  OnceStep(c, b)
<1>1. UNCHANGED <<sent, pool, wpc, job, asked>>
  BY Zenon DEF Underway
<1>2. /\ Carriers(pool, c, b)' = Carriers(pool, c, b)
      /\ AtWorkers(c, b)' = AtWorkers(c, b)
      /\ SentAt(c, b)' = SentAt(c, b)
  BY <1>1, Zenon DEF Carriers, Carries, AtWorkers, Carrying, SentAt
<1>3. b > 2 * asked'[c] => b > 2 * asked[c]
  BY <1>1
<1> QED
  BY <1>2, <1>3, QuietOnce, Zenon DEF Shrinks

(* ... also one that queues something else.                                *)
LEMMA QuietPost ==
  ASSUME TypeOK, OnceInv, UNCHANGED Underway, OtherPost(queue),
         NEW c \in Conn, NEW b \in Bytes
  PROVE  OnceStep(c, b)
<1>1. queue \in [Loops -> Seq(Functors)]
  BY DEF TypeOK
<1>2. LoopsOf(queue, c, b)' = LoopsOf(queue, c, b)
  BY <1>1, OtherPosts
<1> QED
  BY <1>2, QuietStep, Zenon DEF OnceInv

(* A sequence that a message is added to.                                  *)
LEMMA TwoMore ==
  ASSUME NEW s \in Seq(Nat), NEW m \in Nat \ {0}, NEW t, t = s \o Data(m)
  PROVE  \E n \in Nat : /\ DOMAIN s = 1 .. n /\ DOMAIN t = 1 .. (n + 2)
                        /\ \A i \in 1 .. n : t[i] = s[i]
                        /\ t[n + 1] = 2 * m - 1 /\ t[n + 2] = 2 * m
<1>1. /\ Data(m) \in Seq(Nat) /\ Len(Data(m)) = 2
      /\ Data(m)[1] = 2 * m - 1 /\ Data(m)[2] = 2 * m
  BY DEF Data
<1> HIDE DEF Data
<1>2. PICK n \in Nat : n = Len(s) /\ DOMAIN s = 1 .. n
  OBVIOUS
<1>3. /\ t \in Seq(Nat) /\ Len(t) = Len(s) + Len(Data(m))
      /\ \A i \in 1 .. Len(s) + Len(Data(m)) :
            t[i] = IF i <= Len(s) THEN s[i] ELSE Data(m)[i - Len(s)]
  BY <1>1, ConcatProperties
<1>4. /\ Len(t) = n + 2
      /\ \A i \in 1 .. n + 2 : t[i] = IF i <= n THEN s[i] ELSE Data(m)[i - n]
  BY <1>1, <1>2, <1>3
<1>5. DOMAIN t = 1 .. (n + 2)
  BY <1>3, <1>4
<1>6. \A i \in 1 .. n : t[i] = s[i]
  BY <1>4
<1>7. t[n + 1] = Data(m)[1] /\ t[n + 2] = Data(m)[2]
  <2>1. /\ n + 1 \in 1 .. n + 2 /\ ~(n + 1 <= n) /\ (n + 1) - n = 1
        /\ n + 2 \in 1 .. n + 2 /\ ~(n + 2 <= n) /\ (n + 2) - n = 2
    OBVIOUS
  <2> QED
    BY <1>4, <2>1
<1> QED
  BY <1>1, <1>2, <1>5, <1>6, <1>7

(* sendInLoop sends the two bytes of its message, or the program stops.    *)
LEMMA SendSends ==
  ASSUME TypeOK, NEW c \in Conn, NEW m \in Nat \ {0}, SendInLoop(c, m),
         NEW d \in Conn, NEW b \in Nat
  PROVE  /\ d # c \/ b \notin {2 * m - 1, 2 * m} => SentAt(d, b)' = SentAt(d, b)
         /\ d = c /\ b \in {2 * m - 1, 2 * m}
               => /\ SentAt(d, b)' # {} \/ halt' # "no"
                  /\ SentAt(d, b) = {} => One(SentAt(d, b)')
<1>1. CASE halt' = "sigpipe" /\ UNCHANGED sent
  <2>1. SentAt(d, b)' = SentAt(d, b) /\ One({}) /\ halt' # "no"
    BY <1>1 DEF SentAt, One
  <2> QED
    BY <2>1, Zenon
<1>2. CASE sent' = [sent EXCEPT ![c] = @ \o Data(m)]
  <2>1. sent[c] \in Seq(Nat) /\ sent'[c] = sent[c] \o Data(m)
    BY <1>2 DEF TypeOK
  <2>2. d # c => SentAt(d, b)' = SentAt(d, b)
    <3>1. d # c => sent'[d] = sent[d]
      BY <1>2 DEF TypeOK
    <3> QED
      BY <3>1, Zenon DEF SentAt
  <2>3. PICK n \in Nat :
            /\ DOMAIN sent[c] = 1 .. n /\ DOMAIN sent'[c] = 1 .. (n + 2)
            /\ \A i \in 1 .. n : sent'[c][i] = sent[c][i]
            /\ sent'[c][n + 1] = 2 * m - 1 /\ sent'[c][n + 2] = 2 * m
    <3>1. \A s \in Seq(Nat) : \A t : t = s \o Data(m) =>
             \E n \in Nat : /\ DOMAIN s = 1 .. n /\ DOMAIN t = 1 .. (n + 2)
                            /\ \A i \in 1 .. n : t[i] = s[i]
                            /\ t[n + 1] = 2 * m - 1 /\ t[n + 2] = 2 * m
      BY TwoMore
    <3> QED
      BY <2>1, <3>1, Zenon
  <2>4. /\ SentAt(c, b) = {i \in 1 .. n : sent[c][i] = b}
        /\ SentAt(c, b)' = {i \in 1 .. (n + 2) : sent'[c][i] = b}
    BY <2>3 DEF SentAt
  <2>5. b \notin {2 * m - 1, 2 * m} => SentAt(c, b)' = SentAt(c, b)
    BY <2>3, <2>4
  <2>6. b \in {2 * m - 1, 2 * m} => SentAt(c, b)' # {}
    BY <2>3, <2>4
  <2>7. ASSUME SentAt(c, b) = {}, NEW i \in SentAt(c, b)', NEW j \in SentAt(c, b)'
        PROVE  i = j
    <3>1. \A k \in 1 .. n : sent'[c][k] # b
      BY <2>3, <2>4, <2>7
    <3>2. /\ i \in {n + 1, n + 2} /\ j \in {n + 1, n + 2}
          /\ sent'[c][i] = b /\ sent'[c][j] = b
      BY <2>4, <2>7, <3>1
    <3> QED
      BY <2>3, <3>2
  <2> QED
    BY <2>2, <2>5, <2>6, <2>7, Zenon DEF One
<1> QED
  BY <1>1, <1>2, Zenon DEF SendInLoop, bytes

(* A message callback sends the two bytes of its message, or gives them to *)
(* a task: none of them has been anywhere before.                          *)
LEMMA ReadMessageOnce ==
  ASSUME TypeOK, OnceInv, NEW c \in Conn, ReadMessage(c),
         NEW d \in Conn, NEW b \in Bytes
  PROVE  OnceStep(d, b)
<1> DEFINE m == asked[c] + 1
           new == d = c /\ b \in {2 * m - 1, 2 * m}
<1>1. /\ asked \in [Conn -> Nat] /\ asked[c] < MaxMessages /\ MaxMessages \in Nat
      /\ asked' = [asked EXCEPT ![c] = @ + 1] /\ b \in Nat
      /\ queue \in [Loops -> Seq(Functors)] /\ pool \in Seq(Tasks)
  BY BoundAssumption DEF ReadMessage, TypeOK, Bytes
<1>2. /\ b > 2 * asked'[d] => b > 2 * asked[d]
      /\ new => b > 2 * asked[d] /\ ~(b > 2 * asked'[d])
      /\ m \in Nat \ {0} /\ m \in 1 .. MaxMessages
  <2>1. asked[c] \in Nat /\ asked[d] \in Nat /\ MaxMessages \in Nat /\ b \in Nat
    BY <1>1
  <2>2. asked'[d] = IF d = c THEN asked[c] + 1 ELSE asked[d]
    BY <1>1
  <2>3. PICK x \in Nat, y \in Nat, z \in Nat :
            x = asked[c] /\ y = asked[d] /\ z = asked'[d]
    BY <2>1, <2>2
  <2>4. /\ d = c => y = x /\ z = x + 1
        /\ d # c => z = y
        /\ x < MaxMessages
    BY <1>1, <2>2, <2>3, Zenon
  <2>5. /\ b > 2 * z => b > 2 * y
        /\ d = c /\ b \in {2 * (x + 1) - 1, 2 * (x + 1)} => b > 2 * y /\ ~(b > 2 * z)
        /\ x + 1 \in Nat \ {0} /\ x + 1 \in 1 .. MaxMessages
    BY <2>1, <2>3, <2>4
  <2> QED
    BY <2>3, <2>5, Zenon
<1>3. /\ OnceAt(d, b)
      /\ new => /\ Carriers(pool, d, b) = {} /\ AtWorkers(d, b) = {}
                /\ LoopsOf(queue, d, b) = {} /\ SentAt(d, b) = {}
  BY <1>2, Zenon DEF OnceInv, OnceAt
<1> HIDE DEF m, new
<1>4. PICK op \in CallbackOps : InCallback(c, op)
  BY Zenon DEF ReadMessage
<1>5. ASSUME UNCHANGED <<sent, pool, wpc, job>>, OtherPost(queue)
      PROVE  OnceStep(d, b)
  <2>1. LoopsOf(queue, d, b)' = LoopsOf(queue, d, b)
    BY <1>1, <1>5, OtherPosts
  <2>2. /\ Carriers(pool, d, b)' = Carriers(pool, d, b)
        /\ AtWorkers(d, b)' = AtWorkers(d, b)
        /\ SentAt(d, b)' = SentAt(d, b)
    BY <1>5, Zenon DEF Carriers, Carries, AtWorkers, Carrying, SentAt
  <2> QED
    BY <1>2, <1>3, <2>1, <2>2, QuietOnce, Zenon DEF Shrinks
<1>6. ASSUME SendInLoop(c, m), UNCHANGED <<queue, pool, wpc, job>>
      PROVE  OnceStep(d, b)
  <2>1. /\ Carriers(pool, d, b)' = Carriers(pool, d, b)
        /\ AtWorkers(d, b)' = AtWorkers(d, b)
        /\ LoopsOf(queue, d, b)' = LoopsOf(queue, d, b)
    BY <1>6, LoopsNext, Zenon DEF Carriers, Carries, AtWorkers, Carrying
  <2>2. CASE new
    <3>1. One(SentAt(d, b)')
      BY <1>1, <1>2, <1>3, <1>6, <2>2, SendSends DEF new
    <3>2. One(Carriers(pool, d, b)')
      BY <1>3, <2>1, <2>2 DEF One
    <3> QED
      BY <1>2, <1>3, <2>1, <2>2, <3>1, <3>2, FreshOnce, Zenon
  <2>3. CASE ~new
    <3>1. SentAt(d, b)' = SentAt(d, b)
      BY <1>1, <1>2, <1>6, <2>3, SendSends DEF new
    <3> QED
      BY <1>2, <1>3, <2>1, <3>1, QuietOnce, Zenon DEF Shrinks
  <2> QED
    BY <2>2, <2>3
<1>7. ASSUME NEW wop \in WorkerOps, pool' = Append(pool, Functor(wop, c, m)),
             UNCHANGED <<sent, queue, wpc, job>>
      PROVE  OnceStep(d, b)
  <2>1. /\ AtWorkers(d, b)' = AtWorkers(d, b) /\ SentAt(d, b)' = SentAt(d, b)
        /\ LoopsOf(queue, d, b)' = LoopsOf(queue, d, b)
    BY <1>7, LoopsNext, Zenon DEF Carries, AtWorkers, Carrying, SentAt
  <2>2. /\ Functor(wop, c, m) \in Tasks
        /\ Carries(Functor(wop, c, m), d, b) => new
    BY <1>2 DEF Functor, Tasks, Carries, new
  <2>3. Carriers(pool', d, b) = IF Carries(Functor(wop, c, m), d, b)
                                THEN Carriers(pool, d, b) \cup {Len(pool) + 1}
                                ELSE Carriers(pool, d, b)
    BY <1>1, <1>7, <2>2, CarriersOfAppend
  <2>4. Carriers(pool, d, b)' = Carriers(pool', d, b)
    BY Zenon DEF Carriers, Carries
  <2>5. CASE new
    <3>1. One(Carriers(pool, d, b)') /\ One(SentAt(d, b)')
      BY <1>3, <2>1, <2>3, <2>4, <2>5 DEF One
    <3> QED
      BY <1>2, <1>3, <2>1, <2>5, <3>1, FreshOnce, Zenon
  <2>6. CASE ~new
    <3>1. Carriers(pool, d, b)' = Carriers(pool, d, b)
      BY <2>2, <2>3, <2>4, <2>6, Zenon
    <3> QED
      BY <1>2, <1>3, <2>1, <3>1, QuietOnce, Zenon DEF Shrinks
  <2> QED
    BY <2>5, <2>6
<1>8. CASE op = "send" /\ Admits(op, state[c])
  BY <1>4, <1>6, <1>8, Zenon DEF InCallback, m, poolVars
<1>9. CASE op = "task"
  BY <1>4, <1>5, <1>7, <1>9 DEF InCallback, m, bytes, OtherPost
<1>10. CASE op # "task" /\ ~(op = "send" /\ Admits(op, state[c]))
  <2>1. UNCHANGED <<sent, pool, wpc, job>>
    BY <1>4, <1>10, Zenon DEF InCallback, bytes, poolVars
  <2>2. Functor("forceClose", c, 0) \in Functors
        /\ Functor("forceClose", c, 0).op # "send" /\ loopOf[c] \in Loops
    BY FunctorTypes DEF Functor, TypeOK, Shared
  <2>3. queue' = queue \/ queue' = Post(queue, loopOf[c], Functor("forceClose", c, 0))
    BY <1>4, <1>10, Zenon DEF InCallback
  <2>4. OtherPost(queue)
    BY <2>2, <2>3, Zenon DEF OtherPost
  <2> QED
    BY <1>5, <2>1, <2>4
<1> QED
  BY <1>8, <1>9, <1>10

(* A loop takes a functor from its queue: if it is sendInLoop, the bytes   *)
(* go from the queue to what was sent.                                     *)
LEMMA RunFunctorOnce ==
  ASSUME TypeOK, OnceInv, NEW l \in Loops, RunFunctor(l),
         NEW d \in Conn, NEW b \in Bytes
  PROVE  OnceStep(d, b)
<1> DEFINE f == Head(queue[l])
           q == [queue EXCEPT ![l] = Tail(@)]
<1>1. /\ queue \in [Loops -> Seq(Functors)] /\ queue[l] # << >>
      /\ b \in Nat /\ OnceAt(d, b)
  BY BoundAssumption DEF RunFunctor, TypeOK, Bytes, OnceInv
<1>2. f \in Functors /\ q \in [Loops -> Seq(Functors)]
  BY <1>1, PopTypes
<1>3. /\ f.conn \in Conn /\ f.op \in Shared \cup {"send", "shutdown"}
      /\ f.op \notin Shared => f.msg \in Nat \ {0}
  BY <1>2, FunctorFacts
<1>4. /\ Shrinks(LoopsOf(queue, d, b), LoopsOf(q, d, b))
      /\ Carries(f, d, b) => /\ LoopsOf(queue, d, b) # {}
                             /\ One(LoopsOf(queue, d, b)) => LoopsOf(q, d, b) = {}
      /\ ~Carries(f, d, b) /\ LoopsOf(queue, d, b) # {} => LoopsOf(q, d, b) # {}
  <2>1. f = Head(queue[l]) /\ q = [queue EXCEPT ![l] = Tail(@)]
    OBVIOUS
  <2> HIDE DEF f, q
  <2>2. \A p : p = [queue EXCEPT ![l] = Tail(@)] =>
          /\ Shrinks(LoopsOf(queue, d, b), LoopsOf(p, d, b))
          /\ Carries(Head(queue[l]), d, b)
                => /\ LoopsOf(queue, d, b) # {}
                   /\ One(LoopsOf(queue, d, b)) => LoopsOf(p, d, b) = {}
          /\ ~Carries(Head(queue[l]), d, b) /\ LoopsOf(queue, d, b) # {}
                => LoopsOf(p, d, b) # {}
    BY <1>1, PopLoops
  <2> QED
    BY <2>1, <2>2
<1> HIDE DEF f, q
<1>5. ASSUME UNCHANGED Underway, queue' = queue
      PROVE  OnceStep(d, b)
  <2>1. LoopsOf(queue, d, b)' = LoopsOf(queue, d, b)
    BY <1>5, LoopsNext, Zenon
  <2> QED
    BY <1>1, <1>5, <2>1, QuietStep, Zenon
<1>6. ASSUME UNCHANGED Underway, f.op # "send", OtherPost(q)
      PROVE  OnceStep(d, b)
  <2>1. LoopsOf(queue, d, b)' = LoopsOf(q, d, b)
    BY <1>2, <1>6, OtherPosts
  <2>2. ~Carries(f, d, b)
    BY <1>6, Zenon DEF Carries
  <2> QED
    BY <1>1, <1>4, <1>6, <2>1, <2>2, QuietStep, Zenon
<1>7. ASSUME f.op = "send", SendInLoop(f.conn, f.msg), queue' = q,
             UNCHANGED <<pool, wpc, job, asked>>
      PROVE  OnceStep(d, b)
  <2>1. f.msg \in Nat \ {0} /\ f.conn \in Conn
    BY <1>3, <1>7 DEF Shared
  <2>2. LoopsOf(queue, d, b)' = LoopsOf(q, d, b)
    BY <1>7, LoopsNext, Zenon
  <2>3. /\ Carriers(pool, d, b)' = Carriers(pool, d, b)
        /\ AtWorkers(d, b)' = AtWorkers(d, b)
    BY <1>7, Zenon DEF Carriers, Carries, AtWorkers, Carrying
  <2>4. b > 2 * asked'[d] => b > 2 * asked[d]
    BY <1>7
  <2>5. CASE ~Carries(f, d, b)
    <3>1. SentAt(d, b)' = SentAt(d, b)
      BY <1>1, <1>7, <2>1, <2>5, SendSends DEF Carries
    <3> QED
      BY <1>1, <1>4, <2>2, <2>3, <2>4, <2>5, <3>1, QuietOnce, Zenon DEF Shrinks
  <2>6. CASE Carries(f, d, b)
    <3>1. /\ LoopsOf(queue, d, b) # {} /\ LoopsOf(q, d, b) = {}
          /\ Carriers(pool, d, b) = {} /\ AtWorkers(d, b) = {} /\ SentAt(d, b) = {}
          /\ ~(b > 2 * asked[d])
      BY <1>1, <1>4, <2>6, Zenon DEF OnceAt, Alone
    <3>2. /\ SentAt(d, b)' # {} \/ halt' # "no"
          /\ One(SentAt(d, b)')
      BY <1>1, <1>7, <2>1, <2>6, <3>1, SendSends DEF Carries
    <3>3. One({}) /\ ~(b > 2 * asked[d])'
      BY <2>4, <3>1 DEF One
    <3> QED
      BY <2>2, <2>3, <3>1, <3>2, <3>3, Zenon DEF OnceStep, OnceAt, Stays, Alone
  <2> QED
    BY <2>5, <2>6
<1>8. \/ \E why : Fail(why)
      \/ f.op # "send" /\ queue' = q /\ UNCHANGED Underway
      \/ f.op # "send" /\ RemoveConnectionInLoop(q, f.conn) /\ UNCHANGED Underway
      \/ f.op # "send" /\ (HandleClose(q, f.conn) \/ ConnectDestroyed(q, f.conn))
      \/ /\ f.op = "send" /\ SendInLoop(f.conn, f.msg) /\ queue' = q
         /\ UNCHANGED <<pool, wpc, job, asked>>
  <2>1. /\ "established" # "send" /\ "remove" # "send" /\ "destroyed" # "send"
        /\ "forceClose" # "send" /\ "shutdown" # "send"
    OBVIOUS
  <2> QED
    BY <2>1, Zenon DEF RunFunctor, f, q, Underway, bytes, poolVars, user
<1>9. ASSUME NEW why, Fail(why)
      PROVE  OnceStep(d, b)
  BY <1>5, <1>9, Zenon DEF Fail, bytes, poolVars, user, Underway
<1>10. ASSUME f.op # "send", HandleClose(q, f.conn) \/ ConnectDestroyed(q, f.conn)
       PROVE  OnceStep(d, b)
  <2>1. UNCHANGED Underway /\ (OtherPost(q) \/ (halt' # "no" /\ queue' = queue))
    BY <1>2, <1>3, <1>10, HandlersQuiet
  <2> QED
    BY <1>5, <1>6, <1>10, <2>1
<1>11. ASSUME f.op # "send", RemoveConnectionInLoop(q, f.conn), UNCHANGED Underway
       PROVE  OnceStep(d, b)
  BY <1>2, <1>3, <1>6, <1>11, RemovalPosts
<1> QED
  BY <1>6, <1>7, <1>8, <1>9, <1>10, <1>11, Zenon DEF OtherPost

(* A worker that comes to no new task, or ends one.                        *)
LEMMA WorkersLeft ==
  ASSUME TypeOK, NEW w \in Workers, NEW c, NEW b,
         \/ /\ wpc[w] \in {"check", "set", "post"} /\ UNCHANGED job
            /\ \E pc : wpc' = [wpc EXCEPT ![w] = pc]
         \/ /\ wpc' = [wpc EXCEPT ![w] = "idle"]
            /\ \E j : job' = [job EXCEPT ![w] = j]
  PROVE  /\ AtWorkers(c, b)' \subseteq AtWorkers(c, b)
         /\ wpc'[w] \notin {"check", "set", "post"} => w \notin AtWorkers(c, b)'
<1>1. ASSUME NEW v \in Workers, v # w
      PROVE  Carrying(v, c, b)' <=> Carrying(v, c, b)
  <2>1. wpc'[v] = wpc[v] /\ job'[v] = job[v]
    BY <1>1 DEF TypeOK
  <2> QED
    BY <2>1, Zenon DEF Carrying, Carries
<1>2. Carrying(w, c, b)' => Carrying(w, c, b)
  <2>1. CASE wpc[w] \in {"check", "set", "post"} /\ UNCHANGED job
    BY <2>1, Zenon DEF Carrying, Carries
  <2>2. CASE wpc' = [wpc EXCEPT ![w] = "idle"]
    <3>1. wpc'[w] = "idle"
      BY <2>2 DEF TypeOK
    <3> QED
      BY <3>1 DEF Carrying
  <2> QED
    BY <2>1, <2>2
<1> QED
  BY <1>1, <1>2, Zenon DEF AtWorkers, Carrying

(* Fewer workers carry the byte, and no more than one.                     *)
LEMMA FewerWorkers ==
  ASSUME NEW c, NEW b, AtWorkers(c, b)' \subseteq AtWorkers(c, b)
  PROVE  Shrinks(AtWorkers(c, b), AtWorkers(c, b)')
BY Zenon DEF Shrinks, One

(* A worker takes a task with its bytes ...                                *)
LEMMA TakeTaskOnce ==
  ASSUME TypeOK, OnceInv, NEW w \in Workers, TakeTask(w),
         NEW c \in Conn, NEW b \in Bytes
  PROVE  OnceStep(c, b)
<1>1. /\ pool \in Seq(Tasks) /\ pool # << >> /\ wpc[w] = "idle"
      /\ job' = [job EXCEPT ![w] = {Head(pool)}] /\ pool' = Tail(pool)
      /\ wpc' = [wpc EXCEPT ![w] = "check"] /\ OnceAt(c, b)
      /\ UNCHANGED <<sent, queue, asked>>
  BY DEF TakeTask, TypeOK, OnceInv, bytes, user
<1>2. /\ Shrinks(Carriers(pool, c, b), Carriers(Tail(pool), c, b))
      /\ Carries(Head(pool), c, b) /\ One(Carriers(pool, c, b))
            => Carriers(Tail(pool), c, b) = {}
      /\ Carries(Head(pool), c, b) => Carriers(pool, c, b) # {}
  BY <1>1, CarriersLeft, CarriersOfTail
<1>3. Carriers(pool, c, b)' = Carriers(Tail(pool), c, b)
  <2>1. Carriers(pool, c, b)' = Carriers(pool', c, b)
    BY Zenon DEF Carriers, Carries
  <2> QED
    BY <1>1, <2>1, Zenon
<1>4. \A v \in Workers \ {w} : Carrying(v, c, b)' <=> Carrying(v, c, b)
  <2>1. \A v \in Workers \ {w} : wpc'[v] = wpc[v] /\ job'[v] = job[v]
    BY <1>1 DEF TypeOK
  <2> QED
    BY <2>1, Zenon DEF Carrying, Carries
<1>5. /\ ~Carrying(w, c, b)
      /\ Carrying(w, c, b)' <=> Carries(Head(pool), c, b)
  <2>1. wpc'[w] = "check" /\ job'[w] = {Head(pool)}
    BY <1>1 DEF TypeOK
  <2>2. \A t : Carries(t, c, b)' <=> Carries(t, c, b)
    BY Zenon DEF Carries
  <2>3. Carrying(w, c, b)' <=> /\ wpc'[w] \in {"check", "set", "post"}
                               /\ \E t \in job'[w] : Carries(t, c, b)'
    BY Zenon DEF Carrying
  <2> QED
    BY <1>1, <2>1, <2>2, <2>3 DEF Carrying
<1>6. /\ LoopsOf(queue, c, b)' = LoopsOf(queue, c, b)
      /\ SentAt(c, b)' = SentAt(c, b)
  BY <1>1, LoopsNext, Zenon DEF SentAt
<1>7. b > 2 * asked'[c] => b > 2 * asked[c]
  BY <1>1
<1>8. CASE Carries(Head(pool), c, b)
  <2>1. /\ Carriers(pool, c, b) # {} /\ Carriers(Tail(pool), c, b) = {}
        /\ AtWorkers(c, b) = {} /\ LoopsOf(queue, c, b) = {} /\ SentAt(c, b) = {}
        /\ ~(b > 2 * asked[c])
    BY <1>1, <1>2, <1>8, Zenon DEF OnceAt, Alone
  <2>2. \A v \in AtWorkers(c, b)' : v = w
    BY <1>4, <2>1 DEF AtWorkers
  <2>3. One(AtWorkers(c, b)') /\ One({}) /\ ~(b > 2 * asked[c])'
    BY <1>7, <2>1, <2>2 DEF One
  <2> QED
    BY <1>3, <1>6, <2>1, <2>3, Zenon DEF OnceStep, OnceAt, Stays, Alone
<1>9. CASE ~Carries(Head(pool), c, b)
  <2>1. AtWorkers(c, b)' \subseteq AtWorkers(c, b)
    BY <1>4, <1>5, <1>9, Zenon DEF AtWorkers
  <2> QED
    BY <1>1, <1>2, <1>3, <1>6, <1>7, <2>1, FewerWorkers, QuietOnce, Zenon DEF Shrinks
<1> QED
  BY <1>8, <1>9

(* ... and queues it for the loop of its connection, or does not.          *)
LEMMA WorkerStepOnce ==
  ASSUME TypeOK, OnceInv, NEW w \in Workers, WorkerStep(w),
         NEW c \in Conn, NEW b \in Bytes
  PROVE  OnceStep(c, b)
<1>1. /\ OnceAt(c, b) /\ queue \in [Loops -> Seq(Functors)]
  BY DEF OnceInv, TypeOK
<1>2. ASSUME CheckState(w) \/ SetDisconnecting(w) \/ Release(w)
      PROVE  OnceStep(c, b)
  <2>1. UNCHANGED <<sent, queue, pool, asked>>
    BY <1>2, Zenon DEF CheckState, SetDisconnecting, Release, bytes, user
  <2>2. \/ /\ wpc[w] \in {"check", "set", "post"} /\ UNCHANGED job
           /\ \E pc : wpc' = [wpc EXCEPT ![w] = pc]
        \/ /\ wpc' = [wpc EXCEPT ![w] = "idle"]
           /\ \E j : job' = [job EXCEPT ![w] = j]
    <3>1. CASE CheckState(w)
      BY <3>1, Zenon DEF CheckState
    <3>2. CASE SetDisconnecting(w)
      BY <3>2, Zenon DEF SetDisconnecting
    <3>3. CASE Release(w)
      BY <3>3, Zenon DEF Release
    <3> QED
      BY <1>2, <3>1, <3>2, <3>3
  <2>3. Shrinks(AtWorkers(c, b), AtWorkers(c, b)')
    BY <2>2, WorkersLeft, FewerWorkers
  <2>4. /\ LoopsOf(queue, c, b)' = LoopsOf(queue, c, b)
        /\ SentAt(c, b)' = SentAt(c, b)
        /\ Carriers(pool, c, b)' = Carriers(pool, c, b)
    BY <2>1, LoopsNext, Zenon DEF SentAt, Carriers, Carries
  <2>5. b > 2 * asked'[c] => b > 2 * asked[c]
    BY <2>1
  <2> QED
    BY <1>1, <2>3, <2>4, <2>5, QuietOnce, Zenon DEF Shrinks
<1>3. ASSUME PostFunctor(w)
      PROVE  OnceStep(c, b)
  <2>1. /\ wpc[w] = "post" /\ wpc' = [wpc EXCEPT ![w] = "release"]
        /\ UNCHANGED <<sent, pool, job, asked>>
    BY <1>3, Zenon DEF PostFunctor, bytes, user
  <2>2. PICK t \in job[w] : queue' = Post(queue, loopOf[t.conn], t)
    BY <1>3, Zenon DEF PostFunctor
  <2>3. t \in Functors /\ loopOf[t.conn] \in Loops
    BY <2>2 DEF TypeOK, Functors, Tasks
  <2>4. /\ ~Carries(t, c, b) => LoopsOf(queue', c, b) = LoopsOf(queue, c, b)
        /\ LoopsOf(queue, c, b) = {} => One(LoopsOf(queue', c, b))
        /\ Carries(t, c, b) => LoopsOf(queue', c, b) # {}
    <3>1. Carries(t, c, b) => LoopsOf(queue', c, b) # {}
      <4>1. queue'[loopOf[t.conn]] = Append(queue[loopOf[t.conn]], t)
            /\ queue[loopOf[t.conn]] \in Seq(Functors)
        BY <1>1, <2>2, <2>3 DEF Post
      <4>2. Carries(t, c, b) => Carriers(queue'[loopOf[t.conn]], c, b) # {}
        <5>1. Carries(t, c, b) =>
                 Carriers(Append(queue[loopOf[t.conn]], t), c, b)
                    = Carriers(queue[loopOf[t.conn]], c, b)
                        \cup {Len(queue[loopOf[t.conn]]) + 1}
          BY <2>3, <4>1, CarriersOfAppend
        <5>2. Carriers(queue'[loopOf[t.conn]], c, b)
                = Carriers(Append(queue[loopOf[t.conn]], t), c, b)
          BY <4>1, Zenon
        <5> QED
          BY <5>1, <5>2
      <4>3. Carries(t, c, b) => ~NoneIn(queue', c, b)
        BY <2>3, <4>2 DEF NoneIn
      <4>4. LoopsOf(queue', c, b) = {} <=> NoneIn(queue', c, b)
        BY LoopsAreOne
      <4> QED
        BY <4>3, <4>4, Zenon
    <3> QED
      BY <1>1, <2>2, <2>3, <3>1, PostLoops
  <2>5. /\ LoopsOf(queue, c, b)' = LoopsOf(queue', c, b)
        /\ SentAt(c, b)' = SentAt(c, b)
        /\ Carriers(pool, c, b)' = Carriers(pool, c, b)
    BY <2>1, LoopsNext, Zenon DEF SentAt, Carriers, Carries
  <2>6. b > 2 * asked'[c] => b > 2 * asked[c]
    BY <2>1
  <2>7. AtWorkers(c, b)' \subseteq AtWorkers(c, b) /\ w \notin AtWorkers(c, b)'
    <3>1. wpc'[w] = "release"
      BY <2>1 DEF TypeOK
    <3> QED
      BY <2>1, <3>1, WorkersLeft
  <2>8. CASE Carries(t, c, b)
    <3>1. w \in AtWorkers(c, b)
      BY <2>1, <2>2, <2>8 DEF AtWorkers, Carrying
    <3>2. /\ One(AtWorkers(c, b)) /\ AtWorkers(c, b) # {} /\ Carriers(pool, c, b) = {}
          /\ LoopsOf(queue, c, b) = {} /\ SentAt(c, b) = {} /\ ~(b > 2 * asked[c])
      BY <1>1, <3>1, Zenon DEF OnceAt, Alone
    <3>3. AtWorkers(c, b)' = {}
      BY <2>7, <3>1, <3>2 DEF One
    <3>4. One({}) /\ ~(b > 2 * asked[c])'
      BY <2>6, <3>2 DEF One
    <3> QED
      BY <2>4, <2>5, <2>8, <3>2, <3>3, <3>4, Zenon DEF OnceStep, OnceAt, Stays, Alone
  <2>9. CASE ~Carries(t, c, b)
    BY <1>1, <2>4, <2>5, <2>6, <2>7, <2>9, FewerWorkers, QuietOnce, Zenon DEF Shrinks
  <2> QED
    BY <2>8, <2>9
<1> QED
  BY <1>2, <1>3, TakeTaskOnce DEF WorkerStep

(* Every step keeps each byte in one place and none is lost.               *)
LEMMA OnceSteps ==
  ASSUME TypeOK, OnceInv, [Next]_vars, NEW c \in Conn, NEW b \in Bytes
  PROVE  OnceStep(c, b)
<1>1. ASSUME UNCHANGED Underway, UNCHANGED queue
      PROVE  OnceStep(c, b)
  BY <1>1, QuietPost DEF OtherPost
<1>2. ASSUME NEW d \in Conn, Accept(d)
      PROVE  OnceStep(c, b)
  <2>1. UNCHANGED Underway
    BY <1>2, Zenon DEF Accept, NewConnection, Fail, bytes, poolVars, user, Underway
  <2>2. (IF loops = << >> THEN Base ELSE loops[next]) \in Loops
    BY LoopFacts DEF TypeOK
  <2>3. /\ Functor("established", d, 0) \in Functors
        /\ Functor("established", d, 0).op # "send"
    BY FunctorTypes DEF Functor, Shared
  <2>4. \/ queue' = queue
        \/ queue' = Post(queue, IF loops = << >> THEN Base ELSE loops[next],
                         Functor("established", d, 0))
    BY <1>2, Zenon DEF Accept, NewConnection, Fail
  <2> QED
    BY <2>1, <2>2, <2>3, <2>4, QuietPost DEF OtherPost
<1>3. ASSUME NEW d \in Conn, ReadEof(d)
      PROVE  OnceStep(c, b)
  <2>1. HandleClose(queue, d) /\ queue \in [Loops -> Seq(Functors)]
    BY <1>3 DEF ReadEof, TypeOK
  <2>2. UNCHANGED Underway /\ OtherPost(queue)
    BY <2>1, HandlersQuiet DEF OtherPost
  <2> QED
    BY <2>2, QuietPost
<1>4. ASSUME NEW d \in Conn, ReadError(d) \/ HandleWrite(d)
                               \/ \E how \in {"closed", "reset", "dead"} : PeerCloses(d, how)
      PROVE  OnceStep(c, b)
  <2>1. UNCHANGED Underway /\ UNCHANGED queue
    BY <1>4, Zenon
    DEF ReadError, HandleWrite, PeerCloses, bytes, poolVars, user, Underway
  <2> QED
    BY <1>1, <2>1
<1>5. CASE UNCHANGED vars
  BY <1>1, <1>5, Zenon DEF vars, bytes, poolVars, user, Underway
<1> QED
  BY <1>2, <1>3, <1>4, <1>5, ReadMessageOnce, RunFunctorOnce, WorkerStepOnce, Zenon
  DEF Next

(* The places of a byte, said with what was sent ...                       *)
LEMMA PlacesAreOne ==
  ASSUME WireInOrder, OnceInv
  PROVE  InOnePlace
<1> SUFFICES ASSUME NEW c \in Conn, NEW b \in Bytes,
                    NEW p \in PlacesOf(c, b), NEW q \in PlacesOf(c, b)
             PROVE  p = q
  BY Zenon DEF InOnePlace
<1> DEFINE P == Carriers(pool, c, b)
           W == AtWorkers(c, b)
           L == LoopsOf(queue, c, b)
           S == SentAt(c, b)
<1>1. InLoops(c, b) = L
  BY Zenon DEF InLoops, LoopsOf
<1>2. OnSocket(c, b) = S
  BY Zenon DEF OnSocket, SentAt, WireInOrder
<1>3. Alone(P, W, L, S)
  BY Zenon DEF OnceInv, OnceAt
<1>4. PlacesOf(c, b) = ({"pool"} \X P) \cup ({"worker"} \X W)
                         \cup ({"loop"} \X L) \cup ({"socket"} \X S)
  BY <1>1, <1>2, Zenon DEF PlacesOf, AtWorkers
<1> HIDE DEF P, W, L, S
<1>5. ASSUME NEW T, NEW n, PlacesOf(c, b) = {n} \X T, One(T)
      PROVE  p = q
  <2>1. p \in {n} \X T /\ q \in {n} \X T
    BY <1>5
  <2> QED
    BY <1>5, <2>1 DEF One
<1>6. CASE P # {}
  <2>1. PlacesOf(c, b) = {"pool"} \X P
    BY <1>3, <1>4, <1>6 DEF Alone
  <2> QED
    BY <1>3, <1>5, <2>1 DEF Alone
<1>7. CASE P = {} /\ W # {}
  <2>1. PlacesOf(c, b) = {"worker"} \X W
    BY <1>3, <1>4, <1>7 DEF Alone
  <2> QED
    BY <1>3, <1>5, <2>1 DEF Alone
<1>8. CASE P = {} /\ W = {} /\ L # {}
  <2>1. PlacesOf(c, b) = {"loop"} \X L
    BY <1>3, <1>4, <1>8 DEF Alone
  <2> QED
    BY <1>3, <1>5, <2>1 DEF Alone
<1>9. CASE P = {} /\ W = {} /\ L = {}
  <2>1. PlacesOf(c, b) = {"socket"} \X S
    BY <1>4, <1>9
  <2> QED
    BY <1>3, <1>5, <2>1 DEF Alone
<1> QED
  BY <1>6, <1>7, <1>8, <1>9

HandedIsSent ==
    \A c \in Conn, b \in Bytes :
       Handed(c, b) <=> LoopsOf(queue, c, b) # {} \/ SentAt(c, b) # {}

(* ... and so what has been handed over: queued for a loop, or sent.       *)
LEMMA HandedAsSent == WireInOrder => HandedIsSent
<1> SUFFICES ASSUME WireInOrder, NEW c \in Conn, NEW b \in Bytes
             PROVE  Handed(c, b) <=> LoopsOf(queue, c, b) # {} \/ SentAt(c, b) # {}
  BY Zenon DEF HandedIsSent
<1>1. (\E l \in Loops : \E f \in Range(queue[l]) : Carries(f, c, b))
         <=> LoopsOf(queue, c, b) # {}
  <2>1. \A l \in Loops : (\E f \in Range(queue[l]) : Carries(f, c, b))
                            <=> Carriers(queue[l], c, b) # {}
    BY DEF Range, Carriers
  <2> QED
    BY <2>1, LoopsAreOne, Zenon DEF NoneIn
<1>2. b \in Range(wire[c] \o out[c]) <=> SentAt(c, b) # {}
  <2>1. wire[c] \o out[c] = sent[c]
    BY DEF WireInOrder
  <2>2. b \in Range(sent[c]) <=> SentAt(c, b) # {}
    BY DEF Range, SentAt
  <2> QED
    BY <2>1, <2>2, Zenon
<1> QED
  BY <1>1, <1>2, Zenon DEF Handed

(* No byte of a message is lost, doubled or overtaken on its way from the  *)
(* callback that read it, through the task that answers it, the functor    *)
(* that is queued for the loop and the output buffer, to the wire.         *)
THEOREM NoByteIsLost == Spec => WireIntegrity
<1>1. Init => OnceInv
  <2> SUFFICES ASSUME Init, NEW c \in Conn, NEW b \in Bytes
               PROVE  OnceAt(c, b)
    BY Zenon DEF OnceInv
  <2>1. Carriers(pool, c, b) = {} /\ SentAt(c, b) = {}
    BY DEF Init, Carriers, SentAt
  <2>2. AtWorkers(c, b) = {}
    BY DEF Init, AtWorkers, Carrying
  <2>3. \A l \in Loops : Carriers(queue[l], c, b) = {}
    BY DEF Init, Carriers
  <2>4. LoopsOf(queue, c, b) = {} /\ One({})
    BY <2>3, LoopsAreOne DEF NoneIn, One
  <2> QED
    BY <2>1, <2>2, <2>4, Zenon DEF OnceAt, Alone
<1>2. TypeOK /\ OnceInv /\ [Next]_vars => OnceInv'
  BY OnceSteps, Zenon DEF OnceStep, OnceInv
<1>3. TypeOK /\ OnceInv /\ HandedIsSent /\ HandedIsSent' /\ [Next]_vars
         => [HandedStays]_vars
  <2> SUFFICES ASSUME TypeOK, OnceInv, HandedIsSent, HandedIsSent', [Next]_vars,
                      NEW c \in Conn, NEW b \in Bytes, Handed(c, b)
               PROVE  Handed(c, b)' \/ halt' # "no"
    BY Zenon DEF HandedStays
  <2>1. Stays(c, b)
    BY OnceSteps, Zenon DEF OnceStep
  <2>2. /\ Handed(c, b) <=> LoopsOf(queue, c, b) # {} \/ SentAt(c, b) # {}
        /\ Handed(c, b)' <=> (LoopsOf(queue, c, b) # {} \/ SentAt(c, b) # {})'
    BY Zenon DEF HandedIsSent, Bytes
  <2> QED
    BY <2>1, <2>2, Zenon DEF Stays
<1>4. WireInOrder /\ OnceInv => InOnePlace
  BY PlacesAreOne
<1> QED
  BY <1>1, <1>2, <1>3, <1>4, TypeCorrect, BytesInOrder, HandedAsSent, PTL
  DEF Spec, WireIntegrity

-----------------------------------------------------------------------------
(* The life of a connection as its user sees it: before the first callback *)
(* nobody but its loop knows it, and while it is up its channel reads, and *)
(* waits for POLLOUT if bytes are buffered.                                *)

(* The tasks about connections, waiting or with a worker, and the functors *)
(* that wait in some loop.                                                 *)
Work == Range(pool) \cup UNION {job[w] : w \in Workers}
InQueues(q) == UNION {Range(q[l]) : l \in Loops}

Unknown(c) ==
    /\ events[c] = {} /\ index[c] = "kNew" /\ out[c] = << >> /\ shut[c] = FALSE
    /\ \A t \in Work : t.conn # c
    /\ \A f \in InQueues(queue) : f.conn = c => f.op = "established"

UpAt(c) ==
    /\ calls[c] = << >> <=> state[c] \in {"none", "kConnecting"}
    /\ calls[c] = << >> => Unknown(c)
    /\ "read" \in events[c] => calls[c] = <<"up">>
    /\ calls[c] = <<"up">> => Flushing(c)

UpInv == \A c \in Conn : UpAt(c)

(* What a step does to the other connections.                              *)
Same(d) == /\ state'[d] = state[d] /\ events'[d] = events[d]
           /\ index'[d] = index[d] /\ out'[d] = out[d]
           /\ shut'[d] = shut[d] /\ calls'[d] = calls[d]

NoNewWork(d) ==
    /\ \A t \in Work' : t.conn = d => t \in Work
    /\ \A f \in InQueues(queue)' :
          f.conn = d => f \in InQueues(queue) \cup Work \/ f.op = "established"

(* A connection to which nothing happens.                                  *)
LEMMA SameKeepsUp ==
  ASSUME NEW d \in Conn, UpAt(d), Same(d), NoNewWork(d)
  PROVE  UpAt(d)'
<1>1. Flushing(d)' <=> Flushing(d)
  BY Zenon DEF Flushing, Same
<1>2. ASSUME calls[d] = << >>
      PROVE  Unknown(d)'
  <2>1. Unknown(d)
    BY <1>2, Zenon DEF UpAt
  <2>2. \A t \in Work' : t.conn # d
    BY <2>1, Zenon DEF Unknown, NoNewWork
  <2>3. ASSUME NEW f \in InQueues(queue)', f.conn = d
        PROVE  f.op = "established"
    <3>1. f \in InQueues(queue) \/ f \in Work \/ f.op = "established"
      BY <2>3 DEF NoNewWork
    <3> QED
      BY <2>1, <2>3, <3>1, Zenon DEF Unknown
  <2>4. /\ events'[d] = {} /\ index'[d] = "kNew" /\ out'[d] = << >>
        /\ shut'[d] = FALSE
    BY <2>1, Zenon DEF Unknown, Same
  <2> QED
    BY <2>2, <2>3, <2>4, Zenon DEF Unknown
<1> QED
  BY <1>1, <1>2, Zenon DEF UpAt, Same

(* A connection that was reported up.                                      *)
LEMMA KnownKeepsUp ==
  ASSUME NEW d \in Conn, state'[d] \notin {"none", "kConnecting"}, calls'[d] # << >>,
         "read" \in events'[d] => calls'[d] = <<"up">>,
         calls'[d] = <<"up">> => Flushing(d)'
  PROVE  UpAt(d)'
BY Zenon DEF UpAt

(* Work that only moves.                                                   *)
LEMMA WorkStays ==
  ASSUME UNCHANGED <<pool, job, queue>>, NEW d \in Conn
  PROVE  NoNewWork(d)
BY Zenon DEF NoNewWork, Work, InQueues

(* What the queues hold after a loop took its next functor.                *)
LEMMA PopInQueues ==
  ASSUME NEW q \in [Loops -> Seq(Functors)], NEW l \in Loops, q[l] # << >>
  PROVE  /\ Head(q[l]) \in InQueues(q)
         /\ InQueues([q EXCEPT ![l] = Tail(@)]) \subseteq InQueues(q)
<1>1. q[l] \in Seq(Functors)
  OBVIOUS
<1>2. Range(Tail(q[l])) \subseteq Range(q[l]) /\ Head(q[l]) \in Range(q[l])
  BY <1>1, RangeOfTail, Zenon
<1>3. ASSUME NEW k \in Loops
      PROVE  Range([q EXCEPT ![l] = Tail(@)][k]) \subseteq Range(q[k])
  <2>1. CASE k = l
    <3>1. [q EXCEPT ![l] = Tail(@)][k] = Tail(q[l])
      BY <2>1
    <3> QED
      BY <1>2, <2>1, <3>1, Zenon
  <2>2. CASE k # l
    <3>1. [q EXCEPT ![l] = Tail(@)][k] = q[k]
      BY <2>2
    <3> QED
      BY <3>1, Zenon
  <2> QED
    BY <2>1, <2>2
<1> QED
  BY <1>2, <1>3, Zenon DEF InQueues

(* What the queues hold after a functor was added.                         *)
LEMMA PostInQueues ==
  ASSUME NEW q \in [Loops -> Seq(Functors)], NEW l \in Loops, NEW f \in Functors
  PROVE  InQueues(Post(q, l, f)) = InQueues(q) \cup {f}
<1>1. Range(Append(q[l], f)) = Range(q[l]) \cup {f}
  BY RangeOfAppend
<1>2. Post(q, l, f)[l] = Append(q[l], f)
  BY DEF Post
<1>3. \A k \in Loops \ {l} : Post(q, l, f)[k] = q[k]
  BY DEF Post
<1>4. \A k \in Loops : Range(Post(q, l, f)[k]) = IF k = l THEN Range(q[k]) \cup {f}
                                                 ELSE Range(q[k])
  BY <1>1, <1>2, <1>3, Zenon
<1> HIDE DEF Post
<1> QED
  BY <1>4, Zenon DEF InQueues

(* The removal of a connection queues functors of that connection only.    *)
LEMMA RemoveConnectionQueue ==
  ASSUME TypeOK, NEW c \in Conn, NEW q \in [Loops -> Seq(Functors)],
         RemoveConnection(q, c) \/ RemoveConnectionInLoop(q, c)
  PROVE  \A f \in InQueues(queue)' : f \in InQueues(q) \/ f.conn = c
<1>1. CASE queue' = q
  BY <1>1, Zenon DEF InQueues
<1>2. ASSUME NEW op \in Shared, NEW l \in Loops,
             queue' = Post(q, l, Functor(op, c, 0))
      PROVE  \A f \in InQueues(queue)' : f \in InQueues(q) \/ f.conn = c
  <2>1. InQueues(Post(q, l, Functor(op, c, 0))) = InQueues(q) \cup {Functor(op, c, 0)}
    BY FunctorTypes, PostInQueues
  <2>2. Functor(op, c, 0).conn = c
    BY DEF Functor
  <2>3. InQueues(queue)' = InQueues(Post(q, l, Functor(op, c, 0)))
    BY <1>2, Zenon DEF InQueues
  <2> QED
    BY <2>1, <2>2, <2>3, Zenon
<1>3. loopOf[c] \in Loops /\ Base \in Loops /\ {"destroyed", "remove"} \subseteq Shared
  BY LoopFacts DEF TypeOK, Shared
<1>4. \/ queue' = q
      \/ queue' = Post(q, loopOf[c], Functor("destroyed", c, 0))
      \/ queue' = Post(q, Base, Functor("remove", c, 0))
  BY Zenon DEF RemoveConnection, RemoveConnectionInLoop
<1>5. CASE queue' = Post(q, loopOf[c], Functor("destroyed", c, 0))
  BY <1>2, <1>3, <1>5
<1>6. CASE queue' = Post(q, Base, Functor("remove", c, 0))
  BY <1>2, <1>3, <1>6
<1> QED
  BY <1>1, <1>4, <1>5, <1>6

(* After a down callback the connection is not as it was before it.        *)
LEMMA DownCalls ==
  ASSUME NEW s \in Seq({"up", "down"})
  PROVE  Append(s, "down") \notin {<< >>, <<"up">>}
<1>1. Append(s, "down")[Len(s) + 1] = "down" /\ Len(Append(s, "down")) = Len(s) + 1
  OBVIOUS
<1>2. Len(<<"up">>) = 1 /\ <<"up">>[1] = "up" /\ Len(<< >>) = 0 /\ Len(s) \in Nat
  OBVIOUS
<1>3. Append(s, "down") # << >>
  BY <1>1, <1>2
<1>4. Append(s, "down") # <<"up">>
  <2> SUFFICES ASSUME Append(s, "down") = <<"up">>
               PROVE  FALSE
    OBVIOUS
  <2>1. Len(s) = 0
    BY <1>1, <1>2
  <2> QED
    BY <1>1, <1>2, <2>1
<1> QED
  BY <1>3, <1>4

(* A connection closes.                                                    *)
LEMMA HandleCloseUp ==
  ASSUME TypeOK, UpInv, NEW c \in Conn, NEW q \in [Loops -> Seq(Functors)],
         InQueues(q) \subseteq InQueues(queue), HandleClose(q, c)
  PROVE  UpInv'
<1> SUFFICES ASSUME NEW d \in Conn
             PROVE  UpAt(d)'
  BY Zenon DEF UpInv
<1>1. UpAt(d)
  BY DEF UpInv
<1>2. CASE Fail("handleClose")
  <2>1. Same(d) /\ UNCHANGED <<pool, job, queue>>
    BY <1>2, Zenon DEF Fail, Same, chanVars, bytes, poolVars, user
  <2> QED
    BY <1>1, <2>1, SameKeepsUp, WorkStays
<1>3. CASE /\ state' = [state EXCEPT ![c] = "kDisconnected"]
           /\ SetEvents(c, {}) /\ Callback(c, "down") /\ RemoveConnection(q, c)
           /\ UNCHANGED <<loopOf, bytes, shut, ring, poolVars, peer, asked>>
  <2>1. CASE d = c
    <3>1. state'[c] = "kDisconnected" /\ events'[c] = {}
      BY <1>3 DEF TypeOK, SetEvents
    <3>2. calls'[c] \notin {<< >>, <<"up">>}
      BY <1>3, DownCalls DEF TypeOK, Callback
    <3> QED
      BY <2>1, <3>1, <3>2, KnownKeepsUp
  <2>2. CASE d # c
    <3>1. Same(d)
      BY <1>3, <2>2 DEF TypeOK, Same, SetEvents, Callback, bytes
    <3>2. NoNewWork(d)
      <4>1. \A f \in InQueues(queue)' : f \in InQueues(q) \/ f.conn = c
        BY <1>3, RemoveConnectionQueue
      <4>2. Work' = Work
        BY <1>3, Zenon DEF Work, poolVars
      <4> QED
        BY <2>2, <4>1, <4>2, Zenon DEF NoNewWork
    <3> QED
      BY <1>1, <3>1, <3>2, SameKeepsUp
  <2> QED
    BY <2>1, <2>2
<1> QED
  BY <1>2, <1>3, Zenon DEF HandleClose

(* A connection that was reported up is destroyed.                         *)
LEMMA ConnectDestroyedUp ==
  ASSUME TypeOK, UpInv, NEW c \in Conn, NEW q \in [Loops -> Seq(Functors)],
         InQueues(q) \subseteq InQueues(queue), ConnectDestroyed(q, c),
         calls[c] # << >>
  PROVE  UpInv'
<1> SUFFICES ASSUME NEW d \in Conn
             PROVE  UpAt(d)'
  BY Zenon DEF UpInv
<1>1. UpAt(d)
  BY DEF UpInv
<1>2. CASE Fail("removeChannel")
  <2>1. Same(d) /\ UNCHANGED <<pool, job, queue>>
    BY <1>2, Zenon DEF Fail, Same, chanVars, bytes, poolVars, user
  <2> QED
    BY <1>1, <2>1, SameKeepsUp, WorkStays
<1>3. CASE ~(state[c] # "kConnected" /\ events[c] # {})
  <2>1. /\ state' = [state EXCEPT ![c] = IF state[c] = "kConnected"
                                         THEN "kDisconnected" ELSE @]
        /\ RemoveChannel(c) /\ queue' = q
        /\ UNCHANGED <<loopOf, bytes, shut, connections, ring, poolVars, peer,
                       asked, halt>>
        /\ state[c] = "kConnected" => Callback(c, "down")
        /\ state[c] # "kConnected" => UNCHANGED calls
    BY <1>3, Zenon DEF ConnectDestroyed
  <2>2. CASE d = c
    <3>1. events'[c] = {}
      BY <2>1 DEF TypeOK, RemoveChannel
    <3>2. state'[c] \notin {"none", "kConnecting"}
      <4>1. state[c] \notin {"none", "kConnecting"}
        BY <1>1, <2>2, Zenon DEF UpAt
      <4>2. state'[c] = "kDisconnected" \/ state'[c] = state[c]
        BY <2>1 DEF TypeOK
      <4> QED
        BY <4>1, <4>2
    <3>3. CASE state[c] = "kConnected"
      <4>1. calls'[c] = Append(calls[c], "down") /\ calls[c] \in Seq({"up", "down"})
        BY <2>1, <3>3 DEF TypeOK, Callback
      <4>2. calls'[c] \notin {<< >>, <<"up">>}
        BY <4>1, DownCalls
      <4> QED
        BY <2>2, <3>1, <3>2, <4>2, KnownKeepsUp
    <3>4. CASE state[c] # "kConnected"
      <4>1. events[c] = {} /\ calls'[c] = calls[c] /\ out'[c] = out[c]
        BY <1>3, <2>1, <3>4, Zenon DEF bytes
      <4>2. calls[c] = <<"up">> => Flushing(c)'
        BY <1>1, <2>2, <3>1, <4>1 DEF UpAt, Flushing
      <4> QED
        BY <2>2, <3>1, <3>2, <4>1, <4>2, KnownKeepsUp
    <3> QED
      BY <3>3, <3>4
  <2>3. CASE d # c
    <3>1. Same(d)
      <4>1. calls'[d] = calls[d]
        BY <2>1, <2>3 DEF TypeOK, Callback
      <4> QED
        BY <2>1, <2>3, <4>1 DEF TypeOK, Same, RemoveChannel, bytes
    <3>2. NoNewWork(d)
      <4>1. Work' = Work /\ InQueues(queue)' = InQueues(q)
        BY <2>1, Zenon DEF Work, InQueues, poolVars
      <4> QED
        BY <4>1, Zenon DEF NoNewWork
    <3> QED
      BY <1>1, <3>1, <3>2, SameKeepsUp
  <2> QED
    BY <2>2, <2>3
<1> QED
  BY <1>2, <1>3, Zenon DEF ConnectDestroyed

(* A connection that nobody knew is established.                           *)
LEMMA ConnectEstablishedUp ==
  ASSUME TypeOK, UpInv, NEW c \in Conn, ConnectEstablished(c),
         state[c] \in {"none", "kConnecting"}, UNCHANGED <<bytes, shut, poolVars>>,
         InQueues(queue)' \subseteq InQueues(queue)
  PROVE  UpInv'
<1> SUFFICES ASSUME NEW d \in Conn
             PROVE  UpAt(d)'
  BY Zenon DEF UpInv
<1>1. UpAt(d)
  BY DEF UpInv
<1>2. CASE d = c
  <2>1. calls[c] = << >> /\ out[c] = << >>
    BY <1>1, <1>2 DEF UpAt, Unknown
  <2>2. /\ state'[c] = "kConnected" /\ events'[c] = {"read"}
        /\ calls'[c] = Append(calls[c], "up")
    BY DEF TypeOK, ConnectEstablished, SetEvents, Callback
  <2>3. calls'[c] = <<"up">>
    BY <2>1, <2>2
  <2>4. Flushing(c)'
    BY <2>1, <2>2 DEF Flushing, bytes
  <2> QED
    BY <1>2, <2>2, <2>3, <2>4, KnownKeepsUp
<1>3. CASE d # c
  <2>1. Same(d)
    BY <1>3 DEF TypeOK, Same, ConnectEstablished, SetEvents, Callback, bytes
  <2>2. NoNewWork(d)
    <3>1. Work' = Work
      BY Zenon DEF Work, poolVars
    <3> QED
      BY <3>1, Zenon DEF NoNewWork
  <2> QED
    BY <1>1, <2>1, <2>2, SameKeepsUp
<1> QED
  BY <1>2, <1>3

(* A loop that knows the connection writes to it or shuts it down.         *)
LEMMA SendInLoopUp ==
  ASSUME TypeOK, UpInv, NEW c \in Conn, NEW m \in Nat \ {0}, SendInLoop(c, m),
         calls[c] # << >>, UNCHANGED <<state, shut, calls, poolVars>>,
         InQueues(queue)' \subseteq InQueues(queue)
  PROVE  UpInv'
<1> SUFFICES ASSUME NEW d \in Conn
             PROVE  UpAt(d)'
  BY Zenon DEF UpInv
<1>1. UpAt(d)
  BY DEF UpInv
<1>2. /\ \A e \in Conn \ {c} : /\ events'[e] = events[e] /\ index'[e] = index[e]
                               /\ out'[e] = out[e]
      /\ "read" \in events'[c] <=> "read" \in events[c]
      /\ Flushing(c) => Flushing(c)'
  BY SendInLoopBytes
<1>3. CASE d = c
  BY <1>1, <1>2, <1>3, Zenon DEF UpAt
<1>4. CASE d # c
  <2>1. Same(d)
    BY <1>2, <1>4, Zenon DEF Same
  <2>2. NoNewWork(d)
    <3>1. Work' = Work
      BY Zenon DEF Work, poolVars
    <3> QED
      BY <3>1, Zenon DEF NoNewWork
  <2> QED
    BY <1>1, <2>1, <2>2, SameKeepsUp
<1> QED
  BY <1>3, <1>4

(* Its channel and its bytes stay as they are.                             *)
LEMMA QuietUp ==
  ASSUME TypeOK, UpInv, NEW c \in Conn, calls[c] # << >>,
         UNCHANGED <<chanVars, out, calls>>,
         state'[c] \notin {"none", "kConnecting"},
         \A d \in Conn \ {c} : /\ state'[d] = state[d] /\ shut'[d] = shut[d]
                               /\ NoNewWork(d)
  PROVE  UpInv'
<1> SUFFICES ASSUME NEW d \in Conn
             PROVE  UpAt(d)'
  BY Zenon DEF UpInv
<1>1. UpAt(d)
  BY DEF UpInv
<1>2. CASE d = c
  BY <1>1, <1>2, KnownKeepsUp, Zenon DEF UpAt, Flushing, chanVars
<1>3. CASE d # c
  BY <1>1, <1>3, SameKeepsUp, Zenon DEF Same, chanVars
<1> QED
  BY <1>2, <1>3

(* A loop runs a functor.                                                  *)
LEMMA RunFunctorUp ==
  ASSUME TypeOK, UpInv, NEW l \in Loops, RunFunctor(l)
  PROVE  UpInv'
<1> DEFINE f == Head(queue[l])
           c == f.conn
           q == [queue EXCEPT ![l] = Tail(@)]
<1>1. /\ q \in [Loops -> Seq(Functors)] /\ InQueues(q) \subseteq InQueues(queue)
      /\ f \in InQueues(queue) /\ f \in Functors
  BY PopTypes, PopInQueues DEF RunFunctor, TypeOK
<1>2. c \in Conn /\ (f.op \notin Shared => f.msg \in Nat \ {0})
  BY <1>1, FunctorFacts
<1>3. UpAt(c)
  BY <1>2 DEF UpInv
<1>4. f.op # "established" => calls[c] # << >>
  BY <1>1, <1>3, Zenon DEF UpAt, Unknown
<1>5. f.op # "established" => state[c] \notin {"none", "kConnecting"}
  BY <1>3, <1>4, Zenon DEF UpAt
<1> HIDE DEF q
<1>6. ASSUME queue' = q
      PROVE  InQueues(queue)' \subseteq InQueues(queue)
  <2>1. InQueues(queue)' = InQueues(q)
    BY <1>6, Zenon DEF InQueues
  <2> QED
    BY <1>1, <2>1, Zenon
<1>7. CASE Fail("dangling") \/ Fail("connectEstablished")
  <2>1. UNCHANGED <<state, events, index, out, shut, calls, pool, job, queue>>
    BY <1>7, Zenon DEF Fail, chanVars, bytes, poolVars, user
  <2>2. \A d \in Conn : Same(d) /\ NoNewWork(d)
    BY <2>1, WorkStays, Zenon DEF Same
  <2> QED
    BY <2>2, SameKeepsUp DEF UpInv
<1>8. CASE /\ state[c] = "kConnecting" /\ ConnectEstablished(c) /\ queue' = q
           /\ UNCHANGED <<bytes, shut, poolVars>>
  BY <1>2, <1>6, <1>8, ConnectEstablishedUp
<1>9. CASE /\ f.op = "remove" /\ RemoveConnectionInLoop(q, c)
           /\ UNCHANGED <<state, chanVars, bytes, shut, poolVars, user>>
  <2>1. ASSUME NEW d \in Conn \ {c}
        PROVE  NoNewWork(d)
    <3>1. \A g \in InQueues(queue)' : g \in InQueues(q) \/ g.conn = c
      BY <1>1, <1>2, <1>9, RemoveConnectionQueue
    <3>2. Work' = Work
      BY <1>9, Zenon DEF Work, poolVars
    <3> QED
      BY <1>1, <2>1, <3>1, <3>2, Zenon DEF NoNewWork
  <2>2. calls[c] # << >> /\ state'[c] \notin {"none", "kConnecting"}
    BY <1>4, <1>5, <1>9
  <2> QED
    BY <1>2, <1>9, <2>1, <2>2, QuietUp DEF bytes, user
<1>10. CASE f.op = "destroyed" /\ ConnectDestroyed(q, c)
  BY <1>1, <1>2, <1>4, <1>10, ConnectDestroyedUp
<1>11. CASE HandleClose(q, c)
  BY <1>1, <1>2, <1>11, HandleCloseUp
<1>12. CASE /\ f.op # "established" /\ queue' = q
            /\ UNCHANGED <<state, chanVars, bytes, poolVars, user>>
            /\ UNCHANGED shut \/ ShutdownInLoop(c)
  <2>1. ASSUME NEW d \in Conn \ {c}
        PROVE  shut'[d] = shut[d] /\ NoNewWork(d)
    <3>1. Work' = Work
      BY <1>12, Zenon DEF Work, poolVars
    <3>2. NoNewWork(d)
      BY <1>6, <1>12, <3>1, Zenon DEF NoNewWork
    <3>3. shut' = [shut EXCEPT ![c] = @ \/ "write" \notin events[c]] \/ shut' = shut
      BY <1>12, Zenon DEF ShutdownInLoop
    <3>4. shut'[d] = shut[d]
      <4>1. shut \in [Conn -> BOOLEAN] /\ d \in Conn /\ d # c
        BY <2>1 DEF TypeOK
      <4> QED
        BY <3>3, <4>1
    <3> QED
      BY <3>2, <3>4
  <2>2. calls[c] # << >> /\ state'[c] \notin {"none", "kConnecting"}
    BY <1>4, <1>5, <1>12
  <2> QED
    BY <1>2, <1>12, <2>1, <2>2, QuietUp DEF bytes, user
<1>13. CASE /\ f.op = "send" /\ SendInLoop(c, f.msg) /\ queue' = q
            /\ UNCHANGED <<state, shut, poolVars, user>>
  <2>1. f.op # "established" /\ f.op \notin Shared
    BY <1>13 DEF Shared
  <2> QED
    BY <1>2, <1>4, <1>6, <1>13, <2>1, SendInLoopUp DEF user
<1>14. \A op \in {"remove", "destroyed", "forceClose", "send", "shutdown"} :
          op # "established"
  OBVIOUS
<1> QED
  BY <1>7, <1>8, <1>9, <1>10, <1>11, <1>12, <1>13, <1>14, Zenon DEF RunFunctor, q

(* The message callback runs for a connection that reads.                  *)
LEMMA InCallbackUp ==
  ASSUME TypeOK, UpInv, NEW c \in Conn, NEW op \in CallbackOps, "read" \in events[c],
         asked[c] < MaxMessages, InCallback(c, op), UNCHANGED calls
  PROVE  UpInv'
<1>1. calls[c] # << >>
  <2>1. calls[c] = <<"up">>
    BY Zenon DEF UpInv, UpAt
  <2> QED
    BY <2>1
<1>2. state[c] \notin {"none", "kConnecting"}
  BY <1>1, Zenon DEF UpInv, UpAt
<1>3. ASSUME UNCHANGED <<queue, poolVars>>
      PROVE  \A d \in Conn : NoNewWork(d)
  BY <1>3, WorkStays DEF poolVars
<1>4. CASE UNCHANGED <<state, chanVars, bytes, shut, queue, poolVars, peer, halt>>
  BY <1>1, <1>2, <1>3, <1>4, QuietUp DEF bytes
<1>5. CASE /\ SendInLoop(c, asked[c] + 1)
           /\ UNCHANGED <<state, shut, queue, poolVars>>
  <2>1. asked[c] + 1 \in Nat \ {0}
    BY DEF TypeOK
  <2>2. InQueues(queue)' \subseteq InQueues(queue)
    BY <1>5, Zenon DEF InQueues
  <2> QED
    BY <1>1, <1>5, <2>1, <2>2, SendInLoopUp
<1>6. CASE /\ state' = [state EXCEPT ![c] = IF @ = "kConnected" THEN "kDisconnecting" ELSE @]
           /\ ShutdownInLoop(c)
           /\ UNCHANGED <<chanVars, bytes, queue, poolVars, peer, halt>>
  <2>1. state'[c] \notin {"none", "kConnecting"}
    BY <1>2, <1>6 DEF TypeOK
  <2>2. \A d \in Conn \ {c} : state'[d] = state[d] /\ shut'[d] = shut[d]
    BY <1>6 DEF TypeOK, ShutdownInLoop
  <2> QED
    BY <1>1, <1>3, <1>6, <2>1, <2>2, QuietUp DEF bytes
<1>7. CASE /\ state' = [state EXCEPT ![c] = "kDisconnecting"]
           /\ queue' = Post(queue, loopOf[c], Functor("forceClose", c, 0))
           /\ UNCHANGED <<chanVars, bytes, shut, poolVars, peer, halt>>
  <2>1. state'[c] \notin {"none", "kConnecting"}
    BY <1>7 DEF TypeOK
  <2>2. InQueues(queue)' = InQueues(queue) \cup {Functor("forceClose", c, 0)}
    <3>1. InQueues(Post(queue, loopOf[c], Functor("forceClose", c, 0)))
             = InQueues(queue) \cup {Functor("forceClose", c, 0)}
      BY PostInQueues, FunctorTypes DEF TypeOK, Shared
    <3>2. InQueues(queue)' = InQueues(Post(queue, loopOf[c], Functor("forceClose", c, 0)))
      BY <1>7, Zenon DEF InQueues
    <3> QED
      BY <3>1, <3>2, Zenon
  <2>3. Functor("forceClose", c, 0).conn = c
    BY DEF Functor
  <2>4. Work' = Work
    BY <1>7, Zenon DEF Work, poolVars
  <2>5. \A d \in Conn \ {c} : NoNewWork(d)
    BY <2>2, <2>3, <2>4, Zenon DEF NoNewWork
  <2>6. \A d \in Conn \ {c} : state'[d] = state[d] /\ shut'[d] = shut[d]
    BY <1>7 DEF TypeOK
  <2> QED
    BY <1>1, <1>7, <2>1, <2>5, <2>6, QuietUp DEF bytes
<1>8. CASE /\ \E wop \in WorkerOps :
                 pool' = IF Len(pool) < PoolCapacity
                         THEN Append(pool, Functor(wop, c, asked[c] + 1)) ELSE pool
           /\ UNCHANGED <<state, chanVars, bytes, shut, queue, wpc, job, peer, halt>>
  <2>1. PICK wop \in WorkerOps :
             pool' = IF Len(pool) < PoolCapacity
                     THEN Append(pool, Functor(wop, c, asked[c] + 1)) ELSE pool
    BY <1>8
  <2>2. Functor(wop, c, asked[c] + 1) \in Tasks /\ Functor(wop, c, asked[c] + 1).conn = c
    BY BoundAssumption DEF Functor, Tasks, TypeOK
  <2>3. Range(pool') \subseteq Range(pool) \cup {Functor(wop, c, asked[c] + 1)}
    <3>1. CASE pool' = pool
      BY <3>1
    <3>2. CASE pool' = Append(pool, Functor(wop, c, asked[c] + 1))
      <4>1. Range(Append(pool, Functor(wop, c, asked[c] + 1)))
              = Range(pool) \cup {Functor(wop, c, asked[c] + 1)}
        BY <2>2, RangeOfAppend DEF TypeOK
      <4> QED
        BY <3>2, <4>1
    <3> QED
      BY <2>1, <3>1, <3>2
  <2>4. Work' \subseteq Work \cup {Functor(wop, c, asked[c] + 1)}
    BY <1>8, <2>3 DEF Work
  <2>5. InQueues(queue)' = InQueues(queue)
    BY <1>8, Zenon DEF InQueues
  <2>6. \A d \in Conn \ {c} : NoNewWork(d)
    BY <2>2, <2>4, <2>5, Zenon DEF NoNewWork
  <2> QED
    BY <1>1, <1>2, <1>8, <2>6, QuietUp DEF bytes
<1> QED
  BY <1>4, <1>5, <1>6, <1>7, <1>8, Zenon DEF InCallback

(* Nobody but its loop knows a connection before it is reported up, and    *)
(* while it is up it waits for POLLOUT exactly when bytes are buffered.    *)
LEMMA UpInvHolds == Spec => []UpInv
<1>1. Init => UpInv
  <2> SUFFICES ASSUME Init, NEW c \in Conn
               PROVE  UpAt(c)
    BY DEF UpInv
  <2>1. /\ calls[c] = << >> /\ state[c] = "none" /\ events[c] = {}
        /\ index[c] = "kNew" /\ out[c] = << >> /\ shut[c] = FALSE
    BY DEF Init
  <2>2. Work = {}
    BY DEF Init, Work, Range
  <2>3. InQueues(queue) = {}
    BY DEF Init, InQueues, Range
  <2>4. << >> # <<"up">>
    OBVIOUS
  <2>5. Unknown(c)
    BY <2>1, <2>2, <2>3 DEF Unknown
  <2> QED
    BY <2>1, <2>4, <2>5 DEF UpAt
<1>2. TypeOK /\ UpInv /\ [Next]_vars => UpInv'
  <2> SUFFICES ASSUME TypeOK, UpInv, [Next]_vars
               PROVE  UpInv'
    OBVIOUS
  <2>1. ASSUME \A d \in Conn : Same(d) /\ NoNewWork(d)
        PROVE  UpInv'
    BY <2>1, SameKeepsUp, Zenon DEF UpInv
  <2>2. ASSUME UNCHANGED <<state, chanVars, out, shut, calls, pool, job, queue>>
        PROVE  UpInv'
    BY <2>1, <2>2, WorkStays, Zenon DEF Same, chanVars
  <2>3. ASSUME NEW c \in Conn, Accept(c)
        PROVE  UpInv'
    <3>1. state[c] = "none" /\ UNCHANGED <<bytes, shut, poolVars>>
      BY <2>3, Zenon DEF Accept, NewConnection, Fail
    <3>2. CASE ConnectEstablished(c) /\ UNCHANGED queue
      <4>1. InQueues(queue)' \subseteq InQueues(queue)
        BY <3>2, Zenon DEF InQueues
      <4> QED
        BY <3>1, <3>2, <4>1, ConnectEstablishedUp
    <3>3. ASSUME NEW l \in Loops,
                 state' = [state EXCEPT ![c] = "kConnecting"],
                 queue' = Post(queue, l, Functor("established", c, 0)),
                 UNCHANGED <<chanVars, calls>>
          PROVE  UpInv'
      <4> SUFFICES ASSUME NEW d \in Conn
                   PROVE  UpAt(d)'
        BY Zenon DEF UpInv
      <4>1. UpAt(d) /\ UpAt(c)
        BY DEF UpInv
      <4>2. InQueues(queue)' = InQueues(queue) \cup {Functor("established", c, 0)}
        <5>1. InQueues(Post(queue, l, Functor("established", c, 0)))
                 = InQueues(queue) \cup {Functor("established", c, 0)}
          BY PostInQueues, FunctorTypes DEF TypeOK, Shared
        <5>2. InQueues(queue)' = InQueues(Post(queue, l, Functor("established", c, 0)))
          BY <3>3, Zenon DEF InQueues
        <5> QED
          BY <5>1, <5>2, Zenon
      <4>3. Work' = Work /\ Functor("established", c, 0).op = "established"
        BY <3>1 DEF Work, poolVars, Functor
      <4>4. NoNewWork(d)
        BY <4>2, <4>3 DEF NoNewWork
      <4>5. CASE d # c
        BY <3>1, <3>3, <4>1, <4>4, <4>5, SameKeepsUp
        DEF TypeOK, Same, chanVars, bytes
      <4>6. CASE d = c
        <5>1. calls[c] = << >> /\ state'[c] = "kConnecting"
          BY <3>1, <3>3, <4>1 DEF TypeOK, UpAt
        <5>2. Unknown(c)
          BY <4>1, <5>1, Zenon DEF UpAt
        <5>3. Unknown(c)'
          <6>1. \A f \in InQueues(queue)' : f.conn = c => f.op = "established"
            BY <4>2, <4>3, <5>2 DEF Unknown
          <6>2. \A t \in Work' : t.conn # c
            BY <4>3, <5>2 DEF Unknown
          <6> QED
            BY <3>1, <3>3, <5>2, <6>1, <6>2 DEF Unknown, chanVars, bytes
        <5>4. << >> # <<"up">>
          OBVIOUS
        <5>5. calls'[c] = << >> /\ events'[c] = {}
          BY <3>3, <5>1, <5>3, Zenon DEF Unknown
        <5> QED
          BY <4>6, <5>1, <5>3, <5>4, <5>5 DEF UpAt
      <4> QED
        BY <4>5, <4>6
    <3>4. (IF loops = << >> THEN Base ELSE loops[next]) \in Loops
      BY LoopFacts DEF TypeOK
    <3>5. CASE Fail("accept")
      BY <2>2, <3>5, Zenon DEF Fail, bytes, poolVars, user
    <3> QED
      BY <2>3, <3>2, <3>3, <3>4, <3>5, Zenon DEF Accept, NewConnection
  <2>4. ASSUME NEW c \in Conn, ReadMessage(c)
        PROVE  UpInv'
    BY <2>4, InCallbackUp DEF ReadMessage
  <2>5. ASSUME NEW c \in Conn, ReadError(c) \/ \E how \in {"closed", "reset", "dead"} :
                                                 PeerCloses(c, how)
        PROVE  UpInv'
    BY <2>2, <2>5, Zenon DEF ReadError, PeerCloses, bytes, poolVars, user
  <2>6. ASSUME NEW c \in Conn, ReadEof(c)
        PROVE  UpInv'
    BY <2>6, HandleCloseUp DEF ReadEof, TypeOK
  <2>7. ASSUME NEW c \in Conn, HandleWrite(c)
        PROVE  UpInv'
    <3>1. UNCHANGED <<state, calls, pool, job, queue, sent>>
      BY <2>7, Zenon DEF HandleWrite, poolVars, user
    <3>2. CASE UNCHANGED <<out, chanVars, shut>>
      BY <2>2, <3>1, <3>2
    <3>3. ASSUME NEW n \in 1 .. Len(out[c]), Written(c, n)
          PROVE  UpInv'
      <4>1. /\ \A d \in Conn \ {c} : /\ events'[d] = events[d] /\ index'[d] = index[d]
                                     /\ out'[d] = out[d] /\ shut'[d] = shut[d]
            /\ "read" \in events'[c] <=> "read" \in events[c]
            /\ Flushing(c) => Flushing(c)'
        BY <3>1, <3>3, WrittenBytes
      <4>2. \A d \in Conn \ {c} : UpAt(d)'
        BY <3>1, <4>1, SameKeepsUp, WorkStays, Zenon DEF UpInv, Same
      <4>3. calls[c] # << >>
        <5>1. out[c] # << >>
          BY <3>3 DEF TypeOK
        <5> QED
          BY <5>1, Zenon DEF UpInv, UpAt, Unknown
      <4>4. UpAt(c)'
        BY <3>1, <4>1, <4>3, Zenon DEF UpInv, UpAt
      <4> QED
        BY <4>2, <4>4, Zenon DEF UpInv
    <3> QED
      BY <2>7, <3>2, <3>3, Zenon DEF HandleWrite
  <2>8. ASSUME NEW l \in Loops, RunFunctor(l)
         PROVE  UpInv'
    BY <2>8, RunFunctorUp
  <2>9. ASSUME NEW w \in Workers, TakeTask(w)
        PROVE  UpInv'
    <3>1. Head(pool) \in Range(pool) /\ Range(Tail(pool)) \subseteq Range(pool)
      <4>1. pool # << >> /\ pool \in Seq(Tasks)
        BY <2>9 DEF TakeTask, TypeOK
      <4> QED
        BY <4>1, RangeOfTail, Zenon
    <3>2. \A v \in Workers : job'[v] \subseteq job[v] \cup {Head(pool)}
      BY <2>9 DEF TakeTask, TypeOK
    <3>3. Work' \subseteq Work
      BY <2>9, <3>1, <3>2 DEF Work, TakeTask
    <3>4. InQueues(queue)' = InQueues(queue)
      BY <2>9, Zenon DEF TakeTask, InQueues
    <3>5. \A d \in Conn : NoNewWork(d)
      BY <3>3, <3>4, Zenon DEF NoNewWork
    <3> QED
      BY <2>1, <2>9, <3>5, Zenon DEF TakeTask, Same, chanVars, bytes, user
  <2>10. ASSUME NEW w \in Workers, CheckState(w)
        PROVE  UpInv'
    BY <2>2, <2>10, Zenon DEF CheckState, bytes, user
  <2>11. ASSUME NEW w \in Workers, SetDisconnecting(w)
         PROVE  UpInv'
    <3>1. PICK t \in job[w] : state' = [state EXCEPT ![t.conn] = "kDisconnecting"]
      BY <2>11 DEF SetDisconnecting
    <3>2. t \in Tasks /\ t.conn \in Conn /\ t \in Work
      BY DEF TypeOK, Tasks, Work
    <3>3. calls[t.conn] # << >>
      BY <3>2, Zenon DEF UpInv, UpAt, Unknown
    <3>4. state'[t.conn] \notin {"none", "kConnecting"}
      BY <3>1, <3>2 DEF TypeOK
    <3>5. \A d \in Conn \ {t.conn} : state'[d] = state[d]
      BY <3>1 DEF TypeOK
    <3>6. UNCHANGED <<chanVars, out, calls, shut, pool, job, queue>>
      BY <2>11, Zenon DEF SetDisconnecting, bytes, user
    <3> QED
      BY <3>2, <3>3, <3>4, <3>5, <3>6, WorkStays, QuietUp
  <2>12. ASSUME NEW w \in Workers, PostFunctor(w)
         PROVE  UpInv'
    <3>1. PICK t \in job[w] : queue' = Post(queue, loopOf[t.conn], t)
      BY <2>12 DEF PostFunctor
    <3>2. t \in Functors /\ t \in Work
      BY DEF TypeOK, Functors, Work
    <3>3. t.conn \in Conn
      BY <3>2, FunctorFacts
    <3>4. InQueues(Post(queue, loopOf[t.conn], t)) = InQueues(queue) \cup {t}
      BY <3>2, <3>3, PostInQueues DEF TypeOK
    <3>5. InQueues(queue)' = InQueues(Post(queue, loopOf[t.conn], t))
      BY <3>1, Zenon DEF InQueues
    <3>6. Work' = Work
      BY <2>12, Zenon DEF PostFunctor, Work
    <3>7. \A d \in Conn : NoNewWork(d)
      BY <3>2, <3>4, <3>5, <3>6, Zenon DEF NoNewWork
    <3> QED
      BY <2>1, <2>12, <3>7, Zenon DEF PostFunctor, Same, chanVars, bytes, user
  <2>13. ASSUME NEW w \in Workers, Release(w)
         PROVE  UpInv'
    <3>1. \A v \in Workers : job'[v] \subseteq job[v]
      BY <2>13 DEF Release, TypeOK
    <3>2. Work' \subseteq Work
      BY <2>13, <3>1, Zenon DEF Work, Release
    <3>3. InQueues(queue)' = InQueues(queue)
      BY <2>13, Zenon DEF Release, InQueues
    <3>4. \A d \in Conn : NoNewWork(d)
      BY <3>2, <3>3, Zenon DEF NoNewWork
    <3> QED
      BY <2>1, <2>13, <3>4, Zenon DEF Release, Same, chanVars, bytes, user
  <2>14. CASE UNCHANGED vars
    BY <2>2, <2>14, Zenon DEF vars, bytes, poolVars, user
  <2> QED
    BY <2>3, <2>4, <2>5, <2>6, <2>7, <2>8, <2>9, <2>10, <2>11, <2>12, <2>13, <2>14,
       Zenon
    DEF Next, WorkerStep
<1> QED
  BY <1>1, <1>2, TypeCorrect, PTL DEF Spec
-----------------------------------------------------------------------------
(* Only shutdownInLoop and the last handleWrite close the write side.      *)
LEMMA WhoShuts ==
  ASSUME TypeOK, [Next]_vars
  PROVE  \/ UNCHANGED shut
         \/ \E c \in Conn : ShutdownInLoop(c) /\ UNCHANGED out
         \/ \E c \in Conn : \E n \in 1 .. Len(out[c]) : Written(c, n) /\ UNCHANGED sent
<1>1. ASSUME NEW c \in Conn, Accept(c)
      PROVE  UNCHANGED shut
  BY <1>1, Zenon DEF Accept, NewConnection, Fail
<1>2. ASSUME NEW c \in Conn, ReadMessage(c)
      PROVE  UNCHANGED shut \/ (ShutdownInLoop(c) /\ UNCHANGED out)
  BY <1>2, Zenon DEF ReadMessage, InCallback, bytes
<1>3. ASSUME NEW c, NEW q, HandleClose(q, c) \/ ConnectDestroyed(q, c)
      PROVE  UNCHANGED shut
  BY <1>3, Zenon DEF HandleClose, ConnectDestroyed, Fail
<1>4. ASSUME NEW c \in Conn, HandleWrite(c)
      PROVE  \/ UNCHANGED shut
             \/ \E n \in 1 .. Len(out[c]) : Written(c, n) /\ UNCHANGED sent
  BY <1>4, Zenon DEF HandleWrite
<1>5. ASSUME NEW l \in Loops, RunFunctor(l)
      PROVE  UNCHANGED shut \/ \E c \in Conn : ShutdownInLoop(c) /\ UNCHANGED out
  <2> DEFINE f == Head(queue[l])
             q == [queue EXCEPT ![l] = Tail(@)]
  <2>1. f \in Functors /\ f.conn \in Conn
    BY <1>5, PopTypes, FunctorFacts DEF RunFunctor, TypeOK
  <2>2. CASE HandleClose(q, f.conn) \/ ConnectDestroyed(q, f.conn)
    BY <1>3, <2>2
  <2>3. CASE ShutdownInLoop(f.conn) /\ UNCHANGED out
    BY <2>1, <2>3
  <2> QED
    BY <1>5, <2>2, <2>3, Zenon DEF RunFunctor, Fail, bytes
<1>6. ASSUME NEW w \in Workers, WorkerStep(w)
      PROVE  UNCHANGED shut
  BY <1>6, Zenon
  DEF WorkerStep, TakeTask, CheckState, SetDisconnecting, PostFunctor, Release
<1>7. CASE UNCHANGED vars
  BY <1>7, Zenon DEF vars
<1>8. ASSUME NEW c \in Conn, ReadError(c) \/ ReadEof(c)
                              \/ \E how \in {"closed", "reset", "dead"} : PeerCloses(c, how)
      PROVE  UNCHANGED shut
  BY <1>3, <1>8, Zenon DEF ReadError, ReadEof, PeerCloses
<1> QED
  BY <1>1, <1>2, <1>4, <1>5, <1>6, <1>7, <1>8, Zenon DEF Next

(* shutdown() cuts off no output, whoever calls it and whenever: while the *)
(* connection is up, bytes wait in the buffer only if POLLOUT is awaited.  *)
THEOREM ShutdownCutsNothingOff == Spec => ShutdownAfterFlush
<1>1. ASSUME TypeOK, UpInv, [Next]_vars, NEW d \in Conn,
             ~shut[d], shut'[d], calls[d] = <<"up">>
      PROVE  out'[d] = << >>
  <2>1. Flushing(d)
    BY <1>1, Zenon DEF UpInv, UpAt
  <2>2. shut \in [Conn -> BOOLEAN]
    BY <1>1 DEF TypeOK
  <2>3. CASE UNCHANGED shut
    BY <1>1, <2>3, Zenon
  <2>4. ASSUME NEW c \in Conn, ShutdownInLoop(c), UNCHANGED out
        PROVE  out'[d] = << >>
    <3>1. c = d /\ "write" \notin events[d]
      BY <1>1, <2>2, <2>4 DEF ShutdownInLoop
    <3> QED
      BY <2>1, <2>4, <3>1, Zenon DEF Flushing
  <2>5. ASSUME NEW c \in Conn, NEW n \in 1 .. Len(out[c]), Written(c, n),
               UNCHANGED sent
        PROVE  out'[d] = << >>
    <3>1. d # c => shut'[d] = shut[d]
      BY <1>1, <2>5, WrittenBytes
    <3>2. shut'[c] # shut[c] => out'[c] = << >>
      BY <1>1, <2>5, WrittenBytes
    <3>3. d = c
      BY <1>1, <3>1, Zenon
    <3>4. shut'[c] # shut[c]
      BY <1>1, <3>3, Zenon
    <3> QED
      BY <3>2, <3>3, <3>4
  <2> QED
    BY <1>1, <2>3, <2>4, <2>5, WhoShuts, Zenon
<1>2. TypeOK /\ UpInv /\ [Next]_vars
        => [\A c \in Conn : ~shut[c] /\ shut'[c] /\ calls[c] = <<"up">>
                              => out'[c] = << >>]_vars
  BY <1>1, Zenon
<1> QED
  BY <1>2, TypeCorrect, UpInvHolds, PTL DEF Spec, ShutdownAfterFlush
-----------------------------------------------------------------------------
(* The contract, as long as the tasks of the workers only send.            *)
CallsOf(s) == CASE s \in {"none", "kConnecting"} -> << >>
                [] s \in {"kConnected", "kDisconnecting"} -> <<"up">>
                [] s = "kDisconnected" -> <<"up", "down">>

CallsInv == /\ \A w \in Workers : wpc[w] # "set"
            /\ \A c \in Conn : calls[c] = CallsOf(state[c])

(* What was called of a connection in each of its states.                  *)
LEMMA CallsOfStates ==
  /\ \A s \in {"none", "kConnecting"} : CallsOf(s) = << >>
  /\ \A s \in {"kConnected", "kDisconnecting"} : CallsOf(s) = <<"up">>
  /\ CallsOf("kDisconnected") = <<"up", "down">>
  /\ Append(<< >>, "up") = <<"up">> /\ Append(<<"up">>, "down") = <<"up", "down">>
<1>1. \A s \in {"none", "kConnecting"} : CallsOf(s) = << >>
  BY DEF CallsOf
<1>2. \A s \in {"kConnected", "kDisconnecting"} : CallsOf(s) = <<"up">>
  BY DEF CallsOf
<1>3. CallsOf("kDisconnected") = <<"up", "down">>
  BY DEF CallsOf
<1>4. Append(<< >>, "up") = <<"up">>
  OBVIOUS
<1>5. Append(<<"up">>, "down") = <<"up", "down">>
  <2>1. /\ Len(Append(<<"up">>, "down")) = 2 /\ Append(<<"up">>, "down")[1] = "up"
        /\ Append(<<"up">>, "down")[2] = "down"
        /\ Append(<<"up">>, "down") \in Seq({"up", "down"})
    OBVIOUS
  <2>2. /\ <<"up", "down">> \in Seq({"up", "down"}) /\ Len(<<"up", "down">>) = 2
        /\ <<"up", "down">>[1] = "up" /\ <<"up", "down">>[2] = "down"
    OBVIOUS
  <2>3. \A i \in 1 .. 2 : Append(<<"up">>, "down")[i] = <<"up", "down">>[i]
    BY <2>1, <2>2
  <2> QED
    BY <2>1, <2>2, <2>3, SeqEqual
<1> QED
  BY <1>1, <1>2, <1>3, <1>4, <1>5

(* The state of one connection changes, and with it what was called.       *)
ContractStep == Contract!ContractNext \/ UNCHANGED <<calls, asked>>

(* A connection is established.                                            *)
LEMMA UpStep ==
  ASSUME TypeOK, CallsInv, NEW c \in Conn, ConnectEstablished(c),
         state[c] \in {"none", "kConnecting"}, UNCHANGED <<wpc, asked>>
  PROVE  CallsInv' /\ ContractStep
<1>1. /\ state' = [state EXCEPT ![c] = "kConnected"]
      /\ calls' = [calls EXCEPT ![c] = Append(@, "up")]
  BY Zenon DEF ConnectEstablished, Callback
<1>2. calls[c] = << >>
  BY CallsOfStates DEF CallsInv
<1>3. calls' = [calls EXCEPT ![c] = <<"up">>]
  BY <1>1, <1>2, CallsOfStates
<1>4. \A d \in Conn : calls'[d] = CallsOf(state'[d])
  BY <1>1, <1>3, CallsOfStates DEF CallsInv, TypeOK
<1>5. Contract!Up(c)
  BY <1>2, <1>3 DEF Contract!Up
<1> QED
  BY <1>4, <1>5, Zenon DEF CallsInv, ContractStep, Contract!ContractNext

(* An open connection goes down.                                           *)
LEMMA DownStep ==
  ASSUME TypeOK, CallsInv, NEW c \in Conn, Callback(c, "down"),
         state[c] \in {"kConnected", "kDisconnecting"},
         state' = [state EXCEPT ![c] = "kDisconnected"], UNCHANGED <<wpc, asked>>
  PROVE  CallsInv' /\ ContractStep
<1>1. calls[c] = <<"up">>
  BY CallsOfStates DEF CallsInv
<1>2. calls' = [calls EXCEPT ![c] = <<"up", "down">>]
  BY <1>1, CallsOfStates DEF Callback
<1>3. \A d \in Conn : calls'[d] = CallsOf(state'[d])
  BY <1>2, CallsOfStates DEF CallsInv, TypeOK
<1>4. Contract!Down(c)
  BY <1>1, <1>2 DEF Contract!Down
<1> QED
  BY <1>3, <1>4, Zenon DEF CallsInv, ContractStep, Contract!ContractNext

(* handleClose reports an open connection down, once.                      *)
LEMMA HandleCloseContract ==
  ASSUME TypeOK, CallsInv, NEW c \in Conn, NEW q, HandleClose(q, c)
  PROVE  CallsInv' /\ ContractStep
<1>1. CASE Fail("handleClose")
  BY <1>1, Zenon DEF Fail, CallsInv, ContractStep, poolVars, user
<1>2. CASE /\ state[c] \in {"kConnected", "kDisconnecting"}
           /\ state' = [state EXCEPT ![c] = "kDisconnected"]
           /\ Callback(c, "down") /\ UNCHANGED <<poolVars, asked>>
  BY <1>2, DownStep DEF poolVars
<1> QED
  BY <1>1, <1>2, Zenon DEF HandleClose

(* connectDestroyed reports a connection down if handleClose did not.      *)
LEMMA ConnectDestroyedContract ==
  ASSUME TypeOK, CallsInv, NEW c \in Conn, NEW q, ConnectDestroyed(q, c)
  PROVE  CallsInv' /\ ContractStep
<1>1. CASE Fail("removeChannel")
  BY <1>1, Zenon DEF Fail, CallsInv, ContractStep, poolVars, user
<1>2. CASE state[c] = "kConnected" /\ ~Fail("removeChannel")
  <2>1. /\ state' = [state EXCEPT ![c] = "kDisconnected"]
        /\ Callback(c, "down") /\ UNCHANGED <<poolVars, asked>>
    BY <1>2, Zenon DEF ConnectDestroyed
  <2> QED
    BY <1>2, <2>1, DownStep DEF poolVars
<1>3. CASE state[c] # "kConnected" /\ ~Fail("removeChannel")
  <2>1. state' = [state EXCEPT ![c] = @] /\ UNCHANGED <<calls, poolVars, asked>>
    BY <1>3, Zenon DEF ConnectDestroyed
  <2>2. state' = state
    BY <2>1 DEF TypeOK
  <2> QED
    BY <2>1, <2>2, Zenon DEF CallsInv, ContractStep, poolVars
<1> QED
  BY <1>1, <1>2, <1>3, Zenon

(* Every step of the server is a step of the contract, or none.            *)
LEMMA CallsInvSteps ==
  ASSUME WorkerOps \subseteq {"send"}, TypeOK, UpInv, CallsInv, [Next]_vars
  PROVE  CallsInv' /\ ContractStep
<1>1. ASSUME UNCHANGED <<state, calls, asked, wpc>>
      PROVE  CallsInv' /\ ContractStep
  BY <1>1, Zenon DEF CallsInv, ContractStep
<1>2. ASSUME NEW c \in Conn, Accept(c)
      PROVE  CallsInv' /\ ContractStep
  <2>1. state[c] = "none" /\ UNCHANGED <<wpc, asked>>
    BY <1>2, Zenon DEF Accept, NewConnection, Fail, poolVars, user
  <2>2. CASE ConnectEstablished(c)
    BY <2>1, <2>2, UpStep
  <2>3. CASE state' = [state EXCEPT ![c] = "kConnecting"] /\ UNCHANGED calls
    <3>1. \A d \in Conn : calls'[d] = CallsOf(state'[d])
      BY <2>1, <2>3, CallsOfStates DEF CallsInv, TypeOK
    <3> QED
      BY <2>1, <2>3, <3>1, Zenon DEF CallsInv, ContractStep
  <2>4. CASE Fail("accept")
    BY <1>1, <2>4, Zenon DEF Fail, poolVars, user
  <2> QED
    BY <1>2, <2>2, <2>3, <2>4, Zenon DEF Accept, NewConnection
<1>3. ASSUME NEW c \in Conn, ReadMessage(c)
      PROVE  CallsInv' /\ ContractStep
  <2>1. /\ "read" \in events[c] /\ asked' = [asked EXCEPT ![c] = @ + 1]
        /\ UNCHANGED <<calls, wpc>>
    BY <1>3, Zenon DEF ReadMessage, InCallback, poolVars
  <2>2. calls[c] = <<"up">>
    BY <2>1, Zenon DEF UpInv, UpAt
  <2>3. Contract!Message(c)
    BY <2>1, <2>2 DEF Contract!Message
  <2>4. state[c] \in {"kConnected", "kDisconnecting"}
    <3>1. calls[c] = CallsOf(state[c]) /\ state[c] \in States
      BY DEF CallsInv, TypeOK
    <3>2. << >> # <<"up">> /\ <<"up", "down">> # <<"up">>
      OBVIOUS
    <3> QED
      BY <2>2, <3>1, <3>2, CallsOfStates DEF States
  <2>5. \A d \in Conn : CallsOf(state'[d]) = CallsOf(state[d])
    <3>1. CASE state' = state
      BY <3>1, Zenon
    <3>2. CASE state' = [state EXCEPT ![c] = IF @ = "kConnected"
                                             THEN "kDisconnecting" ELSE @]
      BY <2>4, <3>2, CallsOfStates DEF TypeOK
    <3>3. CASE state' = [state EXCEPT ![c] = "kDisconnecting"]
      BY <2>4, <3>3, CallsOfStates DEF TypeOK
    <3> QED
      BY <1>3, <3>1, <3>2, <3>3, Zenon DEF ReadMessage, InCallback
  <2> QED
    BY <2>1, <2>3, <2>5, Zenon DEF CallsInv, ContractStep, Contract!ContractNext
<1>4. ASSUME NEW c \in Conn, \/ ReadError(c) \/ HandleWrite(c)
                             \/ \E how \in {"closed", "reset", "dead"} : PeerCloses(c, how)
      PROVE  CallsInv' /\ ContractStep
  BY <1>1, <1>4, Zenon DEF ReadError, HandleWrite, PeerCloses, poolVars, user
<1>5. ASSUME NEW c \in Conn, ReadEof(c)
      PROVE  CallsInv' /\ ContractStep
  BY <1>5, HandleCloseContract DEF ReadEof
<1>6. ASSUME NEW l \in Loops, RunFunctor(l)
      PROVE  CallsInv' /\ ContractStep
  <2> DEFINE f == Head(queue[l])
             q == [queue EXCEPT ![l] = Tail(@)]
  <2>1. f \in Functors /\ f.conn \in Conn
    BY <1>6, PopTypes, FunctorFacts DEF RunFunctor, TypeOK
  <2>2. CASE UNCHANGED <<state, calls, asked, wpc>>
    BY <1>1, <2>2
  <2>3. CASE /\ state[f.conn] = "kConnecting" /\ ConnectEstablished(f.conn)
             /\ UNCHANGED <<poolVars, asked>>
    BY <2>1, <2>3, UpStep DEF poolVars
  <2>4. CASE HandleClose(q, f.conn)
    BY <2>1, <2>4, HandleCloseContract
  <2>5. CASE ConnectDestroyed(q, f.conn)
    BY <2>1, <2>5, ConnectDestroyedContract
  <2> QED
    BY <1>6, <2>2, <2>3, <2>4, <2>5, Zenon DEF RunFunctor, Fail, poolVars, user
<1>7. ASSUME NEW w \in Workers, WorkerStep(w)
      PROVE  CallsInv' /\ ContractStep
  <2>1. wpc[w] # "set"
    BY DEF CallsInv
  <2>2. UNCHANGED <<state, calls, asked>>
    BY <1>7, <2>1, Zenon
    DEF WorkerStep, TakeTask, CheckState, SetDisconnecting, PostFunctor, Release, user
  <2>3. \A v \in Workers : wpc'[v] # "set"
    <3>1. CASE CheckState(w)
      <4>1. PICK t \in job[w] :
                 wpc' = [wpc EXCEPT ![w] =
                    IF Admits(t.op, state[t.conn])
                    THEN IF t.op = "send" THEN "post" ELSE "set"
                    ELSE IF t.op = "shutdown" THEN "post" ELSE "release"]
        BY <3>1 DEF CheckState
      <4>2. t.op = "send"
        <5>1. t \in Tasks
          BY Zenon DEF TypeOK
        <5>2. t.op \in WorkerOps
          BY <5>1 DEF Tasks
        <5> QED
          BY <5>2
      <4>3. wpc' = [wpc EXCEPT ![w] = "post"] \/ wpc' = [wpc EXCEPT ![w] = "release"]
        <5>1. CASE Admits(t.op, state[t.conn])
          BY <4>1, <4>2, <5>1, Zenon
        <5>2. CASE ~Admits(t.op, state[t.conn])
          <6>1. t.op # "shutdown"
            BY <4>2
          <6> QED
            BY <4>1, <5>2, <6>1, Zenon
        <5> QED
          BY <5>1, <5>2
      <4> QED
        BY <4>3 DEF TypeOK, CallsInv
    <3>2. CASE TakeTask(w) \/ PostFunctor(w) \/ Release(w)
      BY <3>2 DEF TakeTask, PostFunctor, Release, TypeOK, CallsInv
    <3>3. ~SetDisconnecting(w)
      BY <2>1 DEF SetDisconnecting
    <3> QED
      BY <1>7, <3>1, <3>2, <3>3 DEF WorkerStep
  <2> QED
    BY <2>2, <2>3, Zenon DEF CallsInv, ContractStep
<1>8. CASE UNCHANGED vars
  BY <1>1, <1>8, Zenon DEF vars, poolVars, user
<1> QED
  BY <1>2, <1>3, <1>4, <1>5, <1>6, <1>7, <1>8, Zenon DEF Next

(* The user callbacks of every connection come in order, each of them once *)
(* and the messages in between, if the tasks of the workers only send: a   *)
(* worker that shuts down or closes sets the state back, and the down      *)
(* callback may then come twice.                                           *)
THEOREM CallbacksInOrder ==
  ASSUME WorkerOps \subseteq {"send"}
  PROVE  Spec => ImplementsContract
<1>1. Init => CallsInv /\ Contract!ContractInit
  <2> SUFFICES ASSUME Init
               PROVE  CallsInv /\ Contract!ContractInit
    OBVIOUS
  <2>1. CallsInv
    BY CallsOfStates DEF Init, CallsInv
  <2> QED
    BY <2>1 DEF Init, Contract!ContractInit
<1>2. TypeOK /\ UpInv /\ CallsInv /\ [Next]_vars => CallsInv' /\ ContractStep
  BY CallsInvSteps
<1>3. ContractStep => [Contract!ContractNext]_(Contract!contractVars)
  BY DEF ContractStep, Contract!contractVars
<1> QED
  BY <1>1, <1>2, <1>3, TypeCorrect, UpInvHolds, PTL
  DEF Spec, ImplementsContract, Contract!ContractSpec
-----------------------------------------------------------------------------
(* The removal of a connection takes three functors, one after the other:  *)
(* where they wait in a queue, that none waits, and that only one does.    *)
Removal == {"established", "remove", "destroyed"}
Steps(s, c) == {i \in DOMAIN s : s[i].conn = c /\ s[i].op \in Removal}
Nothing(q, c) == \A l \in Loops : Steps(q[l], c) = {}
Single(s, c, op) == \E i \in DOMAIN s : Steps(s, c) = {i} /\ s[i].op = op
Only(q, c, op, l) == /\ Single(q[l], c, op)
                     /\ \A k \in Loops \ {l} : Steps(q[k], c) = {}

(* What is added at the end of a queue is a removal functor of c or not.   *)
LEMMA StepsOfAppend ==
  ASSUME NEW s \in Seq(Functors), NEW f \in Functors, NEW c \in Conn
  PROVE  /\ ~(f.conn = c /\ f.op \in Removal)
              => /\ Steps(Append(s, f), c) = Steps(s, c)
                 /\ \A op \in Removal : Single(s, c, op) => Single(Append(s, f), c, op)
         /\ (f.conn = c /\ f.op \in Removal /\ Steps(s, c) = {})
              => Single(Append(s, f), c, f.op)
<1>1. /\ DOMAIN Append(s, f) = DOMAIN s \cup {Len(s) + 1}
      /\ \A i \in DOMAIN s : Append(s, f)[i] = s[i]
      /\ Append(s, f)[Len(s) + 1] = f
  OBVIOUS
<1>2. ASSUME ~(f.conn = c /\ f.op \in Removal)
      PROVE  /\ Steps(Append(s, f), c) = Steps(s, c)
             /\ \A op \in Removal : Single(s, c, op) => Single(Append(s, f), c, op)
  <2>1. Steps(Append(s, f), c) = Steps(s, c)
    BY <1>1, <1>2, Zenon DEF Steps
  <2> QED
    BY <1>1, <2>1, Zenon DEF Single
<1>3. ASSUME f.conn = c, f.op \in Removal, Steps(s, c) = {}
      PROVE  Single(Append(s, f), c, f.op)
  <2>1. Steps(Append(s, f), c) = {Len(s) + 1}
    BY <1>1, <1>3, Zenon DEF Steps
  <2> QED
    BY <1>1, <2>1, Zenon DEF Single
<1> QED
  BY <1>2, <1>3

(* The head of a queue is taken off, and is a removal functor of c or not. *)
LEMMA StepsOfTail ==
  ASSUME NEW s \in Seq(Functors), s # << >>, NEW c \in Conn
  PROVE  /\ Steps(s, c) = {} => Steps(Tail(s), c) = {}
         /\ ~(Head(s).conn = c /\ Head(s).op \in Removal)
              => \A op \in Removal : Single(s, c, op) => Single(Tail(s), c, op)
         /\ Head(s).conn = c /\ Head(s).op \in Removal
              => \A op \in Removal : Single(s, c, op)
                                       => op = Head(s).op /\ Steps(Tail(s), c) = {}
         /\ Head(s).conn = c /\ Head(s).op \in Removal => Steps(s, c) # {}
<1>1. /\ \A i \in DOMAIN Tail(s) : i + 1 \in DOMAIN s /\ Tail(s)[i] = s[i + 1]
      /\ \A i \in DOMAIN s : i = 1 \/ i - 1 \in DOMAIN Tail(s)
      /\ \A i \in DOMAIN s : i \in Int
      /\ \A i \in DOMAIN Tail(s) : i \in Int /\ i + 1 # 1
      /\ 1 \in DOMAIN s /\ Head(s) = s[1]
  OBVIOUS
<1>2. \A i \in DOMAIN Tail(s) : i \in Steps(Tail(s), c) <=> i + 1 \in Steps(s, c)
  BY <1>1 DEF Steps
<1>3. \A i \in Steps(Tail(s), c) : i \in DOMAIN Tail(s)
  BY DEF Steps
<1>4. 1 \in Steps(s, c) <=> Head(s).conn = c /\ Head(s).op \in Removal
  BY <1>1 DEF Steps
<1>5. ASSUME NEW op \in Removal, NEW i \in DOMAIN s,
             Steps(s, c) = {i}, s[i].op = op, 1 \notin Steps(s, c)
      PROVE  Single(Tail(s), c, op)
  <2>1. i # 1 /\ i - 1 \in DOMAIN Tail(s) /\ (i - 1) + 1 = i
    BY <1>1, <1>5
  <2>2. Tail(s)[i - 1].op = op
    BY <1>1, <1>5, <2>1
  <2>3. i - 1 \in Steps(Tail(s), c)
    BY <1>2, <1>5, <2>1
  <2>4. \A j \in Steps(Tail(s), c) : j = i - 1
    BY <1>1, <1>2, <1>3, <1>5
  <2> QED
    BY <2>1, <2>2, <2>3, <2>4, Zenon DEF Single
<1>6. ASSUME NEW op \in Removal, NEW i \in DOMAIN s,
             Steps(s, c) = {i}, s[i].op = op, 1 \in Steps(s, c)
      PROVE  op = Head(s).op /\ Steps(Tail(s), c) = {}
  <2>1. i = 1
    BY <1>6
  <2>2. \A j \in Steps(Tail(s), c) : FALSE
    BY <1>1, <1>2, <1>3, <1>6, <2>1
  <2> QED
    BY <1>1, <1>6, <2>1, <2>2
<1>7. Steps(s, c) = {} => Steps(Tail(s), c) = {}
  BY <1>2, <1>3, Zenon
<1> QED
  BY <1>4, <1>5, <1>6, <1>7, Zenon DEF Single

(* A functor is queued at loop l.                                          *)
LEMMA PostSteps ==
  ASSUME NEW q \in [Loops -> Seq(Functors)], NEW l \in Loops, NEW f \in Functors,
         NEW c \in Conn
  PROVE  /\ ~(f.conn = c /\ f.op \in Removal)
              => /\ Nothing(q, c) => Nothing(Post(q, l, f), c)
                 /\ \A op \in Removal, k \in Loops :
                       Only(q, c, op, k) => Only(Post(q, l, f), c, op, k)
         /\ (f.conn = c /\ f.op \in Removal /\ Nothing(q, c))
              => Only(Post(q, l, f), c, f.op, l)
<1>1. q[l] \in Seq(Functors)
  OBVIOUS
<1>2. Post(q, l, f)[l] = Append(q[l], f)
  BY DEF Post
<1>3. \A k \in Loops : k # l => Post(q, l, f)[k] = q[k]
  BY DEF Post
<1> HIDE DEF Post
<1>4. ASSUME ~(f.conn = c /\ f.op \in Removal)
      PROVE  /\ Nothing(q, c) => Nothing(Post(q, l, f), c)
             /\ \A op \in Removal, k \in Loops :
                   Only(q, c, op, k) => Only(Post(q, l, f), c, op, k)
  <2>1. \A k \in Loops : /\ Steps(Post(q, l, f)[k], c) = Steps(q[k], c)
                         /\ \A op \in Removal : Single(q[k], c, op)
                                                 => Single(Post(q, l, f)[k], c, op)
    <3>1. /\ Steps(Append(q[l], f), c) = Steps(q[l], c)
          /\ \A op \in Removal : Single(q[l], c, op) => Single(Append(q[l], f), c, op)
      BY <1>1, <1>4, StepsOfAppend
    <3> QED
      BY <1>2, <1>3, <3>1, Zenon
  <2> QED
    BY <2>1, Zenon DEF Nothing, Only
<1>5. ASSUME f.conn = c, f.op \in Removal, Nothing(q, c)
      PROVE  Only(Post(q, l, f), c, f.op, l)
  <2>1. Single(Post(q, l, f)[l], c, f.op)
    BY <1>1, <1>2, <1>5, StepsOfAppend, Zenon DEF Nothing
  <2> QED
    BY <1>3, <1>5, <2>1, Zenon DEF Nothing, Only
<1> QED
  BY <1>4, <1>5

(* Loop l takes its next functor.                                          *)
LEMMA PopSteps ==
  ASSUME NEW q \in [Loops -> Seq(Functors)], NEW l \in Loops, q[l] # << >>,
         NEW c \in Conn, NEW r, r = [q EXCEPT ![l] = Tail(@)]
  PROVE  /\ Nothing(q, c) => Nothing(r, c)
         /\ ~(Head(q[l]).conn = c /\ Head(q[l]).op \in Removal)
              => \A op \in Removal, k \in Loops : Only(q, c, op, k) => Only(r, c, op, k)
         /\ Head(q[l]).conn = c /\ Head(q[l]).op \in Removal
              => /\ ~Nothing(q, c)
                 /\ \A op \in Removal, k \in Loops :
                      Only(q, c, op, k) => op = Head(q[l]).op /\ k = l /\ Nothing(r, c)
<1>1. q[l] \in Seq(Functors)
  OBVIOUS
<1>2. r[l] = Tail(q[l]) /\ \A k \in Loops : k # l => r[k] = q[k]
  OBVIOUS
<1>3. Nothing(q, c) => Nothing(r, c)
  BY <1>1, <1>2, StepsOfTail, Zenon DEF Nothing
<1>4. ASSUME ~(Head(q[l]).conn = c /\ Head(q[l]).op \in Removal),
             NEW op \in Removal, NEW k \in Loops, Only(q, c, op, k)
      PROVE  Only(r, c, op, k)
  BY <1>1, <1>2, <1>4, StepsOfTail, Zenon DEF Only
<1>5. ASSUME Head(q[l]).conn = c, Head(q[l]).op \in Removal
      PROVE  /\ ~Nothing(q, c)
             /\ \A op \in Removal, k \in Loops :
                  Only(q, c, op, k) => op = Head(q[l]).op /\ k = l /\ Nothing(r, c)
  <2>1. Steps(q[l], c) # {}
    BY <1>1, <1>5, StepsOfTail, Zenon
  <2>2. ASSUME NEW op \in Removal, NEW k \in Loops, Only(q, c, op, k)
        PROVE  op = Head(q[l]).op /\ k = l /\ Nothing(r, c)
    <3>1. k = l
      BY <2>1, <2>2, Zenon DEF Only
    <3>2. op = Head(q[l]).op /\ Steps(Tail(q[l]), c) = {}
      BY <1>1, <1>5, <2>2, <3>1, StepsOfTail, Zenon DEF Only
    <3> QED
      BY <1>2, <2>2, <3>1, <3>2, Zenon DEF Only, Nothing
  <2> QED
    BY <2>1, <2>2, Zenon DEF Nothing
<1> QED
  BY <1>3, <1>4, <1>5
-----------------------------------------------------------------------------
(* The life of a connection while only loop threads use it.  Exactly one   *)
(* removal functor waits at every stage in which the next loop has still   *)
(* to take its turn, and none at the others.                               *)
Fresh(q, c) == /\ state[c] = "none" /\ c \notin connections /\ Nothing(q, c)
               /\ index[c] = "kNew" /\ events[c] = {}
Entering(q, c) == /\ state[c] = "kConnecting" /\ c \in connections
                  /\ Only(q, c, "established", loopOf[c])
                  /\ index[c] = "kNew" /\ events[c] = {}
Open(q, c) == /\ state[c] \in {"kConnected", "kDisconnecting"} /\ c \in connections
              /\ Nothing(q, c)
              /\ index[c] = "kAdded" /\ "read" \in events[c]
Closed(q, c) == /\ state[c] = "kDisconnected" /\ c \in connections
                /\ Only(q, c, "remove", Base)
                /\ index[c] = "kDeleted" /\ events[c] = {}
Unlisted(q, c) == /\ state[c] = "kDisconnected" /\ c \notin connections
                  /\ Only(q, c, "destroyed", loopOf[c])
                  /\ index[c] = "kDeleted" /\ events[c] = {}
Gone(q, c) == /\ state[c] = "kDisconnected" /\ c \notin connections /\ Nothing(q, c)
              /\ index[c] = "kNew" /\ events[c] = {}
Stage(q, c) == \/ Fresh(q, c) \/ Entering(q, c) \/ Open(q, c)
               \/ Closed(q, c) \/ Unlisted(q, c) \/ Gone(q, c)

StageInv == halt \in {"no", "sigpipe", "accept"} /\ \A c \in Conn : Stage(queue, c)

(* What a connection's stage is about stays the same.                      *)
SameStage(d) == /\ state'[d] = state[d] /\ loopOf'[d] = loopOf[d]
                /\ index'[d] = index[d] /\ events'[d] = events[d]
                /\ d \in connections' <=> d \in connections

(* A connection keeps its stage when others move and their functors are    *)
(* queued.                                                                 *)
LEMMA StageKept ==
  ASSUME NEW q, NEW d \in Conn, SameStage(d), Stage(q, d), loopOf[d] \in Loops,
         Nothing(q, d) => Nothing(queue', d),
         \A op \in Removal, k \in Loops : Only(q, d, op, k) => Only(queue', d, op, k)
  PROVE  Stage(queue, d)'
<1>1. {"established", "remove", "destroyed"} \subseteq Removal /\ Base \in Loops
  BY LoopFacts DEF Removal
<1>2. /\ Nothing(q, d) => Nothing(queue, d)'
      /\ Only(q, d, "established", loopOf[d]) => Only(queue, d, "established", loopOf[d])'
      /\ Only(q, d, "remove", Base) => Only(queue, d, "remove", Base)'
      /\ Only(q, d, "destroyed", loopOf[d]) => Only(queue, d, "destroyed", loopOf[d])'
  <2>1. /\ Nothing(queue, d)' <=> Nothing(queue', d)
        /\ \A op, k : Only(queue', d, op, k) <=> /\ Single(queue'[k], d, op)
                     /\ \A j \in Loops \ {k} : Steps(queue'[j], d) = {}
    BY Zenon DEF Nothing, Only
  <2> QED
    BY <1>1, <2>1, Zenon DEF SameStage, Only
<1>3. Fresh(q, d) => Fresh(queue, d)'
  BY <1>2, Zenon DEF SameStage, Fresh
<1>4. Entering(q, d) => Entering(queue, d)'
  BY <1>2, Zenon DEF SameStage, Entering
<1>5. Open(q, d) => Open(queue, d)'
  BY <1>2, Zenon DEF SameStage, Open
<1>6. Closed(q, d) => Closed(queue, d)'
  BY <1>2, Zenon DEF SameStage, Closed
<1>7. Unlisted(q, d) => Unlisted(queue, d)'
  BY <1>2, Zenon DEF SameStage, Unlisted
<1>8. Gone(q, d) => Gone(queue, d)'
  BY <1>2, Zenon DEF SameStage, Gone
<1> QED
  BY <1>3, <1>4, <1>5, <1>6, <1>7, <1>8, Zenon DEF Stage

(* The connections other than c keep their stages when a handler of c      *)
(* changes c alone and queues at most one functor, which is c's.           *)
LEMMA OthersKept ==
  ASSUME TypeOK, NEW q \in [Loops -> Seq(Functors)], NEW c \in Conn,
         NEW d \in Conn, d # c, Stage(q, d), SameStage(d),
         \/ queue' = q
         \/ \E op \in Shared, l \in Loops : queue' = Post(q, l, Functor(op, c, 0))
  PROVE  Stage(queue, d)'
<1>1. loopOf[d] \in Loops
  BY DEF TypeOK
<1>2. CASE queue' = q
  BY <1>1, <1>2, StageKept, Zenon
<1>3. ASSUME NEW op \in Shared, NEW l \in Loops,
             queue' = Post(q, l, Functor(op, c, 0))
      PROVE  Stage(queue, d)'
  <2>1. Functor(op, c, 0) \in Functors /\ Functor(op, c, 0).conn # d
    BY FunctorTypes DEF Functor
  <2>2. /\ Nothing(q, d) => Nothing(queue', d)
        /\ \A p \in Removal, k \in Loops : Only(q, d, p, k) => Only(queue', d, p, k)
    BY <1>3, <2>1, PostSteps, Zenon
  <2> QED
    BY <1>1, <2>2, StageKept, Zenon
<1> QED
  BY <1>2, <1>3

(* An open connection closes: its removal is on the way.                   *)
LEMMA HandleCloseStage ==
  ASSUME TypeOK, NEW q \in [Loops -> Seq(Functors)], NEW c \in Conn,
         halt \in {"no", "sigpipe", "accept"}, Open(q, c), \A d \in Conn : Stage(q, d),
         HandleClose(q, c)
  PROVE  StageInv'
<1>1. /\ state' = [state EXCEPT ![c] = "kDisconnected"] /\ SetEvents(c, {})
      /\ RemoveConnection(q, c) /\ loopOf' = loopOf
  BY Zenon DEF HandleClose, Open
<1>2. /\ state'[c] = "kDisconnected" /\ index'[c] = "kDeleted" /\ events'[c] = {}
      /\ loopOf'[c] = loopOf[c]
  BY <1>1 DEF SetEvents, UpdatedIndex, Open, TypeOK
<1>3. c \in connections /\ Nothing(q, c) /\ loopOf[c] \in Loops /\ Base \in Loops
  BY LoopFacts DEF Open, TypeOK
<1>4. /\ Functor("destroyed", c, 0) \in Functors /\ Functor("remove", c, 0) \in Functors
      /\ Functor("destroyed", c, 0).conn = c /\ Functor("remove", c, 0).conn = c
      /\ Functor("destroyed", c, 0).op = "destroyed" /\ Functor("remove", c, 0).op = "remove"
      /\ {"destroyed", "remove"} \subseteq Removal \cap Shared
  BY FunctorTypes DEF Functor, Removal, Shared
<1>5. CASE /\ connections' = connections \ {c} /\ halt' = halt
           /\ queue' = Post(q, loopOf[c], Functor("destroyed", c, 0))
  <2>1. Only(queue', c, "destroyed", loopOf[c])
    BY <1>3, <1>4, <1>5, PostSteps, Zenon
  <2>2. Unlisted(queue, c)'
    BY <1>2, <1>5, <2>1, Zenon DEF Unlisted, Only
  <2>3. ASSUME NEW d \in Conn, d # c
        PROVE  Stage(queue, d)'
    <3>1. SameStage(d)
      BY <1>1, <1>5, <2>3 DEF SameStage, SetEvents, TypeOK
    <3> QED
      BY <1>3, <1>4, <1>5, <2>3, <3>1, OthersKept
  <2> QED
    BY <1>5, <2>2, <2>3, Zenon DEF StageInv, Stage
<1>6. CASE /\ connections' = connections /\ halt' = halt
           /\ queue' = Post(q, Base, Functor("remove", c, 0))
  <2>1. Only(queue', c, "remove", Base)
    BY <1>3, <1>4, <1>6, PostSteps, Zenon
  <2>2. Closed(queue, c)'
    BY <1>2, <1>3, <1>6, <2>1, Zenon DEF Closed, Only
  <2>3. ASSUME NEW d \in Conn, d # c
        PROVE  Stage(queue, d)'
    <3>1. SameStage(d)
      BY <1>1, <1>6, <2>3 DEF SameStage, SetEvents, TypeOK
    <3> QED
      BY <1>3, <1>4, <1>6, <2>3, <3>1, OthersKept
  <2> QED
    BY <1>6, <2>2, <2>3, Zenon DEF StageInv, Stage
<1> QED
  BY <1>1, <1>3, <1>5, <1>6, Zenon DEF RemoveConnection, RemoveConnectionInLoop

(* The connection is accepted and its loop queued to establish it, or it   *)
(* is established at once.                                                 *)
LEMMA AcceptStage ==
  ASSUME TypeOK, TypeOK', StageInv, NEW c \in Conn, state[c] = "none", NewConnection(c)
  PROVE  StageInv'
<1> DEFINE l == loopOf'[c]
<1>1. /\ state[c] = "none" /\ connections' = connections \cup {c} /\ halt' = halt
      /\ loopOf' = [loopOf EXCEPT ![c] = IF loops = << >> THEN Base ELSE loops[next]]
      /\ \/ ConnectEstablished(c) /\ UNCHANGED queue
         \/ /\ state' = [state EXCEPT ![c] = "kConnecting"]
            /\ queue' = Post(queue, IF loops = << >> THEN Base ELSE loops[next],
                             Functor("established", c, 0))
            /\ UNCHANGED chanVars
  BY Zenon DEF NewConnection
<1>2. l = (IF loops = << >> THEN Base ELSE loops[next]) /\ l \in Loops
  BY <1>1 DEF TypeOK
<1>3. Nothing(queue, c) /\ index[c] = "kNew" /\ events[c] = {}
  BY <1>1 DEF StageInv, Stage, Fresh, Entering, Open, Closed, Unlisted, Gone
<1>4. CASE ConnectEstablished(c) /\ UNCHANGED queue
  <2>1. state' = [state EXCEPT ![c] = "kConnected"] /\ SetEvents(c, {"read"})
    BY <1>4, Zenon DEF ConnectEstablished
  <2>2. state'[c] = "kConnected" /\ index'[c] = "kAdded" /\ "read" \in events'[c]
    BY <2>1 DEF SetEvents, UpdatedIndex, TypeOK
  <2>3. Open(queue, c)'
    BY <1>1, <1>3, <1>4, <2>2, Zenon DEF Open, Nothing
  <2>4. ASSUME NEW d \in Conn, d # c
        PROVE  Stage(queue, d)'
    <3>1. SameStage(d)
      BY <1>1, <2>1, <2>4 DEF SameStage, SetEvents, TypeOK
    <3> QED
      BY <1>4, <2>4, <3>1, OthersKept DEF StageInv, TypeOK
  <2> QED
    BY <1>1, <2>3, <2>4, Zenon DEF StageInv, Stage
<1>5. CASE /\ state' = [state EXCEPT ![c] = "kConnecting"]
           /\ queue' = Post(queue, l, Functor("established", c, 0))
           /\ UNCHANGED chanVars
  <2>1. /\ Functor("established", c, 0) \in Functors
        /\ Functor("established", c, 0).conn = c
        /\ Functor("established", c, 0).op = "established"
        /\ "established" \in Removal \cap Shared
    BY FunctorTypes DEF Functor, Removal, Shared
  <2>2. queue \in [Loops -> Seq(Functors)]
    BY DEF TypeOK
  <2>3. Only(queue', c, "established", l)
    BY <1>2, <1>3, <1>5, <2>1, <2>2, PostSteps, Zenon
  <2>4. state'[c] = "kConnecting" /\ UNCHANGED <<index, events>>
    BY <1>5 DEF TypeOK, chanVars
  <2>5. Entering(queue, c)'
    BY <1>1, <1>3, <2>3, <2>4, Zenon DEF Entering, Only
  <2>6. ASSUME NEW d \in Conn, d # c
        PROVE  Stage(queue, d)'
    <3>1. SameStage(d)
      BY <1>1, <1>5, <2>4, <2>6 DEF SameStage, TypeOK
    <3>2. Stage(queue, d)
      BY DEF StageInv
    <3> QED
      BY <1>2, <1>5, <2>1, <2>2, <2>6, <3>1, <3>2, OthersKept
  <2> QED
    BY <1>1, <2>5, <2>6, Zenon DEF StageInv, Stage
<1> QED
  BY <1>1, <1>2, <1>4, <1>5, Zenon

(* Without tasks the workers have nothing to do, and every functor holds   *)
(* its connection.                                                         *)
LEMMA NoTasks ==
  ASSUME WorkerOps = {}, TypeOK
  PROVE  /\ pool = << >> /\ \A w \in Workers : job[w] = {} /\ wpc[w] = "idle"
         /\ \A f \in Functors : f.op \in Shared
         /\ ~\E w \in Workers : WorkerStep(w)
<1>1. Tasks = {}
  BY DEF Tasks
<1>2. pool = << >>
  BY <1>1 DEF TypeOK
<1>3. \A w \in Workers : job[w] = {} /\ wpc[w] = "idle"
  BY <1>1 DEF TypeOK
<1>4. \A f \in Functors : f.op \in Shared
  BY <1>1 DEF Functors
<1>5. "idle" \notin {"check", "set", "post", "release"}
  OBVIOUS
<1>6. ~\E w \in Workers : WorkerStep(w)
  BY <1>2, <1>3, <1>5, Zenon
  DEF WorkerStep, TakeTask, CheckState, SetDisconnecting, PostFunctor, Release
<1> QED
  BY <1>2, <1>3, <1>4, <1>6

(* The next functor of a loop finds its connection at the stage that it    *)
(* was queued for.                                                         *)
LEMMA PopStages ==
  ASSUME TypeOK, StageInv, NEW l \in Loops, queue[l] # << >>,
         NEW f, f = Head(queue[l]), NEW r, r = [queue EXCEPT ![l] = Tail(@)]
  PROVE  /\ r \in [Loops -> Seq(Functors)] /\ f \in Functors
         /\ \A d \in Conn : ~(f.conn = d /\ f.op \in Removal) => Stage(r, d)
         /\ f.op = "established" => Entering(queue, f.conn)
         /\ f.op = "remove" => Closed(queue, f.conn)
         /\ f.op = "destroyed" => Unlisted(queue, f.conn)
         /\ f.op \in Removal => Nothing(r, f.conn)
<1>1. queue \in [Loops -> Seq(Functors)]
  BY DEF TypeOK
<1>2. r \in [Loops -> Seq(Functors)] /\ f \in Functors /\ f.conn \in Conn
  BY <1>1, PopTypes, FunctorFacts
<1>3. Base \in Loops /\ \A d \in Conn : loopOf[d] \in Loops
  BY LoopFacts DEF TypeOK
<1>4. {"established", "remove", "destroyed"} \subseteq Removal
  BY DEF Removal
<1>5. ASSUME NEW d \in Conn
       PROVE  /\ Nothing(queue, d) => Nothing(r, d)
              /\ ~(f.conn = d /\ f.op \in Removal)
                   => \A op \in Removal, k \in Loops :
                         Only(queue, d, op, k) => Only(r, d, op, k)
              /\ f.conn = d /\ f.op \in Removal
                   => /\ ~Nothing(queue, d)
                      /\ \A op \in Removal, k \in Loops :
                           Only(queue, d, op, k) => op = f.op /\ k = l /\ Nothing(r, d)
  <2>1. f = Head(queue[l]) /\ r = [queue EXCEPT ![l] = Tail(@)]
    OBVIOUS
  <2>2. LET g == Head(queue[l])
        IN  /\ Nothing(queue, d) => Nothing(r, d)
            /\ ~(g.conn = d /\ g.op \in Removal)
                 => \A op \in Removal, k \in Loops :
                       Only(queue, d, op, k) => Only(r, d, op, k)
            /\ g.conn = d /\ g.op \in Removal
                 => /\ ~Nothing(queue, d)
                    /\ \A op \in Removal, k \in Loops :
                         Only(queue, d, op, k) => op = g.op /\ k = l /\ Nothing(r, d)
    BY <1>1, <2>1, PopSteps, Zenon
  <2> QED
    BY <2>1, <2>2, Zenon
<1>6. ASSUME NEW d \in Conn, ~(f.conn = d /\ f.op \in Removal)
      PROVE  Stage(r, d)
  <2>1. /\ Nothing(queue, d) => Nothing(r, d)
        /\ \A op \in Removal, k \in Loops : Only(queue, d, op, k) => Only(r, d, op, k)
    BY <1>6, <1>5, Zenon
  <2>2. Stage(queue, d)
    BY DEF StageInv
  <2> QED
    BY <1>3, <1>4, <2>1, <2>2, Zenon
    DEF Stage, Fresh, Entering, Open, Closed, Unlisted, Gone
<1>7. ASSUME f.op \in Removal
      PROVE  /\ ~Nothing(queue, f.conn)
             /\ \A op \in Removal, k \in Loops :
                  Only(queue, f.conn, op, k) => op = f.op /\ k = l /\ Nothing(r, f.conn)
  BY <1>2, <1>7, <1>5, Zenon
<1>8. Stage(queue, f.conn)
  BY <1>2 DEF StageInv
<1>9. ASSUME f.op \in Removal
      PROVE  /\ \/ f.op = "established" /\ Entering(queue, f.conn)
                \/ f.op = "remove" /\ Closed(queue, f.conn)
                \/ f.op = "destroyed" /\ Unlisted(queue, f.conn)
             /\ Nothing(r, f.conn)
  BY <1>2, <1>3, <1>4, <1>7, <1>8, <1>9, Zenon
  DEF Stage, Fresh, Entering, Open, Closed, Unlisted, Gone
<1>10. /\ "established" # "remove" /\ "established" # "destroyed"
      /\ "remove" # "destroyed"
  OBVIOUS
<1>11. /\ f.op = "established" => Entering(queue, f.conn)
       /\ f.op = "remove" => Closed(queue, f.conn)
       /\ f.op = "destroyed" => Unlisted(queue, f.conn)
  BY <1>4, <1>9, <1>10
<1> QED
  BY <1>2, <1>6, <1>9, <1>11

(* A functor of a removal takes its connection to the next stage, and      *)
(* forceClose closes it if it is open.                                     *)
LEMMA RunFunctorStage ==
  ASSUME WorkerOps = {}, TypeOK, StageInv, NEW l \in Loops, RunFunctor(l)
  PROVE  StageInv'
<1> SUFFICES ASSUME NEW f, f = Head(queue[l]), NEW c, c = f.conn,
                    NEW r, r = [queue EXCEPT ![l] = Tail(@)]
             PROVE  StageInv'
  OBVIOUS
<1>1. queue[l] # << >> /\ halt = "no"
  BY DEF RunFunctor
<1>2. /\ r \in [Loops -> Seq(Functors)] /\ f \in Functors
      /\ \A d \in Conn : ~(c = d /\ f.op \in Removal) => Stage(r, d)
      /\ f.op = "established" => Entering(queue, c)
      /\ f.op = "remove" => Closed(queue, c)
      /\ f.op = "destroyed" => Unlisted(queue, c)
      /\ f.op \in Removal => Nothing(r, c)
  BY <1>1, PopStages
<1>3. c \in Conn /\ f.op \in Shared
  BY <1>2, NoTasks, FunctorFacts
<1>4. \A d \in Conn : d # c => Stage(r, d)
  BY <1>2
<1>5. {"established", "remove", "destroyed"} = Removal /\ "forceClose" \notin Removal
  BY DEF Removal
<1>6. CASE f.op = "established"
  <2>1. /\ state[c] = "kConnecting" /\ c \in connections /\ index[c] = "kNew"
        /\ events[c] = {}
    BY <1>2, <1>6 DEF Entering
  <2>2. /\ ConnectEstablished(c) /\ queue' = r
        /\ UNCHANGED <<loopOf, connections, halt>>
    BY <1>3, <1>6, <2>1, Zenon DEF RunFunctor
  <2>3. state' = [state EXCEPT ![c] = "kConnected"] /\ SetEvents(c, {"read"})
    BY <2>2, Zenon DEF ConnectEstablished
  <2>4. state'[c] = "kConnected" /\ index'[c] = "kAdded" /\ "read" \in events'[c]
    BY <1>3, <2>3 DEF SetEvents, UpdatedIndex, TypeOK
  <2>5. Open(queue, c)'
    <3>1. Nothing(r, c)
      BY <1>2, <1>5, <1>6
    <3> QED
      BY <2>1, <2>2, <2>4, <3>1 DEF Open, Nothing
  <2>6. ASSUME NEW d \in Conn, d # c
        PROVE  Stage(queue, d)'
    <3>1. SameStage(d)
      BY <1>3, <2>2, <2>3, <2>6 DEF SameStage, SetEvents, TypeOK
    <3> QED
      BY <1>2, <1>3, <1>4, <2>2, <2>6, <3>1, OthersKept
  <2> QED
    BY <1>1, <1>3, <2>2, <2>5, <2>6, Zenon DEF StageInv, Stage
<1>7. CASE f.op = "remove"
  <2>1. /\ state[c] = "kDisconnected" /\ c \in connections /\ index[c] = "kDeleted"
        /\ events[c] = {}
    BY <1>2, <1>7 DEF Closed
  <2>2. /\ RemoveConnectionInLoop(r, c) /\ UNCHANGED <<state, loopOf, chanVars>>
    <3>1. f.op # "established" /\ f.op # "destroyed" /\ f.op # "forceClose"
          /\ f.op # "send" /\ f.op # "shutdown"
      BY <1>7
    <3> QED
      BY <1>3, <1>7, <3>1, Zenon DEF RunFunctor
  <2>3. /\ connections' = connections \ {c} /\ halt' = halt
        /\ queue' = Post(r, loopOf[c], Functor("destroyed", c, 0))
    BY <2>1, <2>2, Zenon DEF RemoveConnectionInLoop
  <2>4. /\ Functor("destroyed", c, 0) \in Functors
        /\ Functor("destroyed", c, 0).conn = c
        /\ Functor("destroyed", c, 0).op = "destroyed"
        /\ "destroyed" \in Removal \cap Shared /\ loopOf[c] \in Loops
    BY <1>3, FunctorTypes DEF Functor, Removal, Shared, TypeOK
  <2>5. Only(queue', c, "destroyed", loopOf[c])
    <3>1. Nothing(r, c)
      BY <1>2, <1>5, <1>7
    <3>2. Only(Post(r, loopOf[c], Functor("destroyed", c, 0)), c,
               Functor("destroyed", c, 0).op, loopOf[c])
      <4>1. /\ r \in [Loops -> Seq(Functors)] /\ c \in Conn
            /\ Functor("destroyed", c, 0).op \in Removal
        BY <1>2, <1>3, <2>4
      <4> QED
        BY <2>4, <3>1, <4>1, PostSteps
    <3> QED
      BY <2>3, <2>4, <3>2, Zenon
  <2>6. Unlisted(queue, c)'
    <3>1. UNCHANGED <<state, loopOf, events, index>> /\ c \notin connections'
      BY <2>2, <2>3 DEF chanVars
    <3> QED
      BY <2>1, <2>5, <3>1, Zenon DEF Unlisted, Only
  <2>7. ASSUME NEW d \in Conn, d # c
        PROVE  Stage(queue, d)'
    <3>1. SameStage(d)
      BY <2>2, <2>3, <2>7 DEF SameStage, chanVars
    <3> QED
      BY <1>2, <1>3, <1>4, <2>3, <2>4, <2>7, <3>1, OthersKept
  <2> QED
    BY <1>1, <1>3, <2>3, <2>6, <2>7, Zenon DEF StageInv, Stage
<1>8. CASE f.op = "destroyed"
  <2>1. /\ state[c] = "kDisconnected" /\ c \notin connections
        /\ index[c] = "kDeleted" /\ events[c] = {} /\ state[c] # "kConnected"
    BY <1>2, <1>8 DEF Unlisted
  <2>2. ConnectDestroyed(r, c)
    <3>1. f.op # "established" /\ f.op # "remove" /\ f.op # "forceClose"
          /\ f.op # "send" /\ f.op # "shutdown"
      BY <1>8
    <3> QED
      BY <1>3, <1>8, <3>1, Zenon DEF RunFunctor
  <2>3. /\ state' = [state EXCEPT ![c] = @] /\ RemoveChannel(c) /\ queue' = r
        /\ UNCHANGED <<loopOf, connections, halt>>
    BY <2>1, <2>2, Zenon DEF ConnectDestroyed
  <2>4. state' = state /\ events'[c] = {} /\ index'[c] = "kNew"
    BY <1>3, <2>3 DEF RemoveChannel, TypeOK
  <2>5. Gone(queue, c)'
    <3>1. Nothing(r, c)
      BY <1>2, <1>5, <1>8
    <3> QED
      BY <2>1, <2>3, <2>4, <3>1 DEF Gone, Nothing
  <2>6. ASSUME NEW d \in Conn, d # c
        PROVE  Stage(queue, d)'
    <3>1. SameStage(d)
      BY <2>3, <2>4, <2>6 DEF SameStage, RemoveChannel, TypeOK
    <3> QED
      BY <1>2, <1>3, <1>4, <2>3, <2>6, <3>1, OthersKept
  <2> QED
    BY <1>1, <1>3, <2>3, <2>5, <2>6, Zenon DEF StageInv, Stage
<1>9. CASE f.op = "forceClose"
  <2>1. \A d \in Conn : Stage(r, d)
    BY <1>2, <1>5, <1>9
  <2>2. f.op # "established" /\ f.op # "remove" /\ f.op # "destroyed"
        /\ f.op # "send" /\ f.op # "shutdown"
    BY <1>9
  <2>3. CASE state[c] \in {"kConnected", "kDisconnecting"}
    <3>1. HandleClose(r, c)
      BY <1>3, <1>9, <2>2, <2>3, Zenon DEF RunFunctor
    <3>2. Open(r, c)
      BY <1>3, <2>1, <2>3
      DEF Stage, Fresh, Entering, Closed, Unlisted, Gone
    <3> QED
      BY <1>1, <1>2, <1>3, <2>1, <3>1, <3>2, HandleCloseStage
  <2>4. CASE state[c] \notin {"kConnected", "kDisconnecting"}
    <3>1. queue' = r /\ UNCHANGED <<state, loopOf, chanVars, connections, halt>>
      BY <1>3, <1>9, <2>2, <2>4, Zenon DEF RunFunctor
    <3>2. ASSUME NEW d \in Conn
          PROVE  Stage(queue, d)'
      <4>1. SameStage(d) /\ loopOf[d] \in Loops
        BY <3>1 DEF SameStage, chanVars, TypeOK
      <4> QED
        BY <2>1, <3>1, <4>1, StageKept, Zenon
    <3> QED
      BY <1>1, <3>1, <3>2, Zenon DEF StageInv
  <2> QED
    BY <2>3, <2>4
<1> QED
  BY <1>3, <1>6, <1>7, <1>8, <1>9 DEF Shared

(* What the handlers of an open connection do to it leaves it open.        *)
LEMMA OpenStays ==
  ASSUME TypeOK, StageInv, NEW c \in Conn, Open(queue, c),
         halt' \in {"no", "sigpipe", "accept"}, UNCHANGED <<loopOf, connections>>,
         state' = state \/ state' = [state EXCEPT ![c] = "kDisconnecting"],
         \/ UNCHANGED chanVars
         \/ \E ev \in SUBSET {"read", "write"} : "read" \in ev /\ SetEvents(c, ev),
         \/ queue' = queue
         \/ queue' = Post(queue, loopOf[c], Functor("forceClose", c, 0))
  PROVE  StageInv'
<1>1. queue \in [Loops -> Seq(Functors)] /\ loopOf[c] \in Loops
  BY DEF TypeOK
<1>2. /\ Functor("forceClose", c, 0) \in Functors
      /\ Functor("forceClose", c, 0).op \notin Removal
      /\ "forceClose" \in Shared
  BY FunctorTypes DEF Functor, Removal, Shared
<1>3. Nothing(queue', c)
  <2>1. Nothing(queue, c)
    BY DEF Open
  <2>2. Nothing(Post(queue, loopOf[c], Functor("forceClose", c, 0)), c)
    BY <1>1, <1>2, <2>1, PostSteps
  <2> QED
    BY <2>1, <2>2, Zenon
<1>4. events'[c] \in SUBSET {"read", "write"} /\ "read" \in events'[c] /\ index'[c] = "kAdded"
  <2>1. CASE UNCHANGED chanVars
    BY <2>1 DEF chanVars, Open, TypeOK
  <2>2. CASE \E ev \in SUBSET {"read", "write"} : "read" \in ev /\ SetEvents(c, ev)
    BY <2>2 DEF SetEvents, UpdatedIndex, Open, TypeOK
  <2> QED
    BY <2>1, <2>2
<1>5. state'[c] \in {"kConnected", "kDisconnecting"} /\ c \in connections'
  BY DEF Open, TypeOK
<1>6. Open(queue, c)'
  BY <1>3, <1>4, <1>5 DEF Open, Nothing
<1>7. ASSUME NEW d \in Conn, d # c
      PROVE  Stage(queue, d)'
  <2>1. index'[d] = index[d] /\ events'[d] = events[d]
    BY <1>7 DEF chanVars, SetEvents, TypeOK
  <2>2. state'[d] = state[d] /\ loopOf'[d] = loopOf[d] /\ connections' = connections
    BY <1>7 DEF TypeOK
  <2>3. SameStage(d)
    BY <2>1, <2>2 DEF SameStage
  <2>4. Stage(queue, d)
    BY DEF StageInv
  <2> QED
    BY <1>1, <1>2, <1>7, <2>3, <2>4, OthersKept
<1> QED
  BY <1>6, <1>7, Zenon DEF StageInv, Stage

(* Only an open connection is polled.                                      *)
LEMMA PolledIsOpen ==
  ASSUME StageInv, NEW c \in Conn, Polled(c) \/ events[c] # {}
  PROVE  Open(queue, c)
BY DEF StageInv, Stage, Fresh, Entering, Closed, Unlisted, Gone, Polled

(* Only the code of loop threads runs, and it keeps every connection in    *)
(* its stage or moves it on.                                               *)
LEMMA StageInvHolds ==
  ASSUME WorkerOps = {}
  PROVE  Spec => []StageInv
<1>1. Init => StageInv
  <2> SUFFICES ASSUME Init
               PROVE  StageInv
    OBVIOUS
  <2>1. halt = "no" /\ connections = {}
    BY DEF Init
  <2>2. ASSUME NEW c \in Conn
        PROVE  Fresh(queue, c)
    <3>1. state[c] = "none" /\ index[c] = "kNew" /\ events[c] = {}
      BY DEF Init
    <3>2. Nothing(queue, c)
      BY DEF Init, Nothing, Steps
    <3> QED
      BY <2>1, <3>1, <3>2 DEF Fresh
  <2> QED
    BY <2>1, <2>2 DEF StageInv, Stage
<1>2. TypeOK /\ TypeOK' /\ StageInv /\ [Next]_vars => StageInv'
  <2> SUFFICES ASSUME TypeOK, TypeOK', StageInv, [Next]_vars
               PROVE  StageInv'
    OBVIOUS
  <2>1. ASSUME UNCHANGED <<state, loopOf, index, events, connections, queue>>,
               halt' \in {"no", "sigpipe", "accept"}
        PROVE  StageInv'
    <3>1. ASSUME NEW d \in Conn
          PROVE  Stage(queue, d)'
      <4>1. Stage(queue, d) /\ loopOf[d] \in Loops
        BY DEF StageInv, TypeOK
      <4>2. SameStage(d)
        BY <2>1, Zenon DEF SameStage
      <4> QED
        BY <2>1, <4>1, <4>2, StageKept, Zenon
    <3> QED
      BY <2>1, <3>1, Zenon DEF StageInv
  <2>2. ASSUME NEW c \in Conn, Accept(c)
        PROVE  StageInv'
    <3>1. CASE NewConnection(c)
      BY <2>2, <3>1, AcceptStage DEF Accept
    <3>2. CASE Fail("accept")
      BY <2>1, <3>2 DEF Fail, chanVars
    <3> QED
      BY <2>2, <3>1, <3>2, Zenon DEF Accept
  <2>3. ASSUME NEW c \in Conn, ReadMessage(c)
        PROVE  StageInv'
    <3>1. /\ Polled(c) /\ halt = "no" /\ "read" \in events[c]
          /\ UNCHANGED <<loopOf, connections>>
      BY <2>3, Zenon DEF ReadMessage, Polled
    <3>2. Open(queue, c)
      BY <3>1, PolledIsOpen
    <3>3. PICK op \in CallbackOps : InCallback(c, op)
      BY <2>3, Zenon DEF ReadMessage
    <3>4. CASE UNCHANGED <<state, chanVars, queue, halt>>
      BY <2>1, <3>1, <3>4 DEF chanVars
    <3>5. CASE SendInLoop(c, asked[c] + 1) /\ UNCHANGED <<state, queue>>
      <4>1. halt' \in {"no", "sigpipe", "accept"}
        BY <3>1, <3>5, Zenon DEF SendInLoop
      <4>2. \/ UNCHANGED chanVars
            \/ \E ev \in SUBSET {"read", "write"} : "read" \in ev /\ SetEvents(c, ev)
        <5>1. events[c] \cup {"write"} \in SUBSET {"read", "write"}
          BY DEF TypeOK
        <5>2. "read" \in events[c] \cup {"write"}
          BY <3>1
        <5>3. UNCHANGED chanVars \/ SetEvents(c, events[c] \cup {"write"})
          BY <3>5, Zenon DEF SendInLoop
        <5> QED
          BY <5>1, <5>2, <5>3, Zenon
      <4> QED
        BY <3>1, <3>2, <3>5, <4>1, <4>2, OpenStays, Zenon
    <3>6. CASE /\ state' = [state EXCEPT ![c] = IF @ = "kConnected"
                                                THEN "kDisconnecting" ELSE @]
               /\ UNCHANGED <<chanVars, queue, halt>>
      <4>1. state' = state \/ state' = [state EXCEPT ![c] = "kDisconnecting"]
        BY <3>6 DEF TypeOK
      <4> QED
        BY <3>1, <3>2, <3>6, <4>1, OpenStays, Zenon
    <3>7. CASE /\ state' = [state EXCEPT ![c] = "kDisconnecting"]
               /\ queue' = Post(queue, loopOf[c], Functor("forceClose", c, 0))
               /\ UNCHANGED <<chanVars, halt>>
      BY <3>1, <3>2, <3>7, OpenStays, Zenon
    <3> QED
      BY <3>3, <3>4, <3>5, <3>6, <3>7, Zenon DEF InCallback
  <2>4. ASSUME NEW c \in Conn, ReadError(c)
        PROVE  StageInv'
    BY <2>1, <2>4 DEF ReadError, chanVars, StageInv
  <2>5. ASSUME NEW c \in Conn, ReadEof(c)
        PROVE  StageInv'
    <3>1. Polled(c) /\ halt = "no" /\ HandleClose(queue, c)
      BY <2>5, Zenon DEF ReadEof, Polled
    <3>2. Open(queue, c)
      BY <3>1, PolledIsOpen
    <3> QED
      BY <3>1, <3>2, HandleCloseStage DEF StageInv, TypeOK
  <2>6. ASSUME NEW c \in Conn, HandleWrite(c)
        PROVE  StageInv'
    <3>1. /\ Polled(c) /\ halt = "no" /\ halt' \in {"no", "sigpipe", "accept"}
          /\ UNCHANGED <<state, loopOf, connections, queue>>
      BY <2>6, Zenon DEF HandleWrite, Polled
    <3>2. Open(queue, c)
      BY <3>1, PolledIsOpen
    <3>3. \/ UNCHANGED chanVars
          \/ \E ev \in SUBSET {"read", "write"} : "read" \in ev /\ SetEvents(c, ev)
      <4>1. events[c] \ {"write"} \in SUBSET {"read", "write"}
            /\ "read" \in events[c] \ {"write"}
        BY <3>2 DEF TypeOK, Open
      <4>2. UNCHANGED chanVars \/ SetEvents(c, events[c] \ {"write"})
        BY <2>6, Zenon DEF HandleWrite, Written
      <4> QED
        BY <4>1, <4>2, Zenon
    <3> QED
      BY <3>1, <3>2, <3>3, OpenStays, Zenon
  <2>7. ASSUME NEW c \in Conn, NEW how \in {"closed", "reset", "dead"}, PeerCloses(c, how)
        PROVE  StageInv'
    BY <2>1, <2>7 DEF PeerCloses, chanVars, StageInv
  <2>8. ASSUME NEW l \in Loops, RunFunctor(l)
        PROVE  StageInv'
    BY <2>8, RunFunctorStage
  <2>9. ASSUME NEW w \in Workers, WorkerStep(w)
        PROVE  StageInv'
    BY <2>9, NoTasks
  <2>10. CASE UNCHANGED vars
    BY <2>1, <2>10 DEF vars, chanVars, StageInv
  <2> QED
    BY <2>2, <2>3, <2>4, <2>5, <2>6, <2>7, <2>8, <2>9, <2>10, Zenon DEF Next
<1> QED
  BY <1>1, <1>2, TypeCorrect, PTL DEF Spec

(* The functors that the stages count, as RemovalStages counts them.       *)
LEMMA PendingSteps ==
  ASSUME TypeOK, NEW c \in Conn
  PROVE  /\ Nothing(queue, c) => \A op \in Removal : Pending(op, c) = {}
         /\ \A op \in Removal, l \in Loops : Only(queue, c, op, l) =>
               /\ Cardinality(Pending(op, c)) = 1
               /\ \A o \in Removal \ {op} : Pending(o, c) = {}
<1>1. ASSUME Nothing(queue, c), NEW op \in Removal
      PROVE  Pending(op, c) = {}
  <2>1. \A l \in Loops : Places(l, op, c) = {}
    BY <1>1, Zenon DEF Nothing, Steps, Places
  <2> QED
    BY <2>1 DEF Pending
<1>2. ASSUME NEW op \in Removal, NEW l \in Loops, Only(queue, c, op, l)
      PROVE  /\ Cardinality(Pending(op, c)) = 1
             /\ \A o \in Removal \ {op} : Pending(o, c) = {}
  <2>1. PICK i \in DOMAIN queue[l] : Steps(queue[l], c) = {i} /\ queue[l][i].op = op
    BY <1>2, Zenon DEF Only, Single
  <2>2. \A k \in Loops \ {l} : Steps(queue[k], c) = {}
    BY <1>2, Zenon DEF Only
  <2>3. \A o \in Removal, k \in Loops : Places(k, o, c) \subseteq Steps(queue[k], c)
    BY Zenon DEF Places, Steps
  <2>4. \A k \in Loops \ {l}, o \in Removal : Places(k, o, c) = {}
    BY <2>2, <2>3, Zenon
  <2>5. Places(l, op, c) = {i}
    <3>1. i \in Steps(queue[l], c)
      BY <2>1
    <3>2. i \in Places(l, op, c)
      BY <2>1, <3>1 DEF Places, Steps
    <3> QED
      BY <2>1, <2>3, <3>2
  <2>6. \A o \in Removal \ {op} : Places(l, o, c) = {}
    BY <2>1, <2>3 DEF Places
  <2>7. Pending(op, c) = {<<l, i>>}
    BY <2>4, <2>5 DEF Pending
  <2>8. \A o \in Removal \ {op} : Pending(o, c) = {}
    BY <2>4, <2>6 DEF Pending
  <2> QED
    BY <2>7, <2>8, FS_Singleton
<1> QED
  BY <1>1, <1>2

(* As long as only loop threads use the connections, no assertion of       *)
(* TcpConnection, EPoller and TcpServer fails and no functor is run for a  *)
(* connection that is gone, for any number of connections and loops.       *)
THEOREM AssertionsHold ==
  ASSUME WorkerOps = {}
  PROVE  Spec => []NoAssertFails
<1>1. StageInv => NoAssertFails
  BY DEF StageInv, NoAssertFails
<1> QED
  BY <1>1, StageInvHolds, PTL

(* Under the same hypothesis every connection is removed in stages: taken  *)
(* out of the map once and destroyed once, in this order.                  *)
THEOREM RemovedInStages ==
  ASSUME WorkerOps = {}
  PROVE  Spec => []RemovalStages
<1>1. TypeOK /\ StageInv => RemovalStages
  <2> SUFFICES ASSUME TypeOK, StageInv, NEW c \in Conn, state[c] # "none"
               PROVE  /\ c \in connections => Pending("destroyed", c) = {}
                      /\ c \notin connections =>
                           /\ Pending("remove", c) = {}
                           /\ Cardinality(Pending("destroyed", c)) =
                                (IF index[c] = "kNew" THEN 0 ELSE 1)
                      /\ c \in connections /\ state[c] = "kDisconnected" =>
                           Cardinality(Pending("remove", c)) = 1
    BY Zenon DEF RemovalStages
  <2>1. Stage(queue, c) /\ Base \in Loops /\ loopOf[c] \in Loops
    BY LoopFacts DEF StageInv, TypeOK
  <2>2. /\ "established" \in Removal /\ "remove" \in Removal /\ "destroyed" \in Removal
        /\ "destroyed" # "established" /\ "destroyed" # "remove"
    BY DEF Removal
  <2>3. /\ Nothing(queue, c) => Pending("destroyed", c) = {} /\ Pending("remove", c) = {}
        /\ Only(queue, c, "established", loopOf[c]) => Pending("destroyed", c) = {}
        /\ Only(queue, c, "remove", Base) =>
              Pending("destroyed", c) = {} /\ Cardinality(Pending("remove", c)) = 1
        /\ Only(queue, c, "destroyed", loopOf[c]) =>
              Pending("remove", c) = {} /\ Cardinality(Pending("destroyed", c)) = 1
    BY <2>1, <2>2, PendingSteps
  <2>4. Cardinality({}) = 0
    BY FS_EmptySet
  <2>5. CASE Entering(queue, c)
    BY <2>3, <2>5 DEF Entering
  <2>6. CASE Open(queue, c)
    BY <2>3, <2>6 DEF Open
  <2>7. CASE Closed(queue, c)
    BY <2>3, <2>7 DEF Closed
  <2>8. CASE Unlisted(queue, c)
    BY <2>3, <2>8 DEF Unlisted
  <2>9. CASE Gone(queue, c)
    BY <2>3, <2>4, <2>9 DEF Gone
  <2> QED
    BY <2>1, <2>5, <2>6, <2>7, <2>8, <2>9, Zenon DEF Stage, Fresh
<1> QED
  BY <1>1, TypeCorrect, StageInvHolds, PTL

(* When the last reference to a connection goes, its channel is out of the *)
(* poller and no functor of it is queued, so that nothing can call into a  *)
(* destroyed object.                                                       *)
THEOREM DestroyedClean ==
  ASSUME WorkerOps = {}
  PROVE  Spec => []CleanDestruction
<1>1. TypeOK /\ StageInv => CleanDestruction
  <2> SUFFICES ASSUME TypeOK, StageInv, NEW c \in Conn, Freed(c)
               PROVE  /\ index[c] = "kNew" /\ events[c] = {}
                      /\ \A l \in Loops : \A f \in Range(queue[l]) : f.conn # c
    BY Zenon DEF CleanDestruction
  <2>1. state[c] # "none" /\ c \notin connections
        /\ \A l \in Loops : \A f \in Range(queue[l]) : ~(f.conn = c /\ f.op \in Shared)
    BY Zenon DEF Freed, Referenced
  <2>2. \A l \in Loops : \A f \in Range(queue[l]) : f \in Functors
    BY DEF TypeOK, Range
  <2>3. \A l \in Loops : \A f \in Range(queue[l]) : f.conn # c
    BY <2>1, <2>2, NoTasks, Zenon
  <2>4. ~Unlisted(queue, c)
    <3> SUFFICES ASSUME Unlisted(queue, c)
                 PROVE  FALSE
      OBVIOUS
    <3>1. loopOf[c] \in Loops
      BY DEF TypeOK
    <3>2. PICK i \in DOMAIN queue[loopOf[c]] : Steps(queue[loopOf[c]], c) = {i}
      BY Zenon DEF Unlisted, Only, Single
    <3>3. queue[loopOf[c]][i].conn = c
      BY <3>2 DEF Steps
    <3> QED
      BY <2>3, <3>1, <3>3, Zenon DEF Range
  <2>5. Stage(queue, c)
    BY DEF StageInv
  <2>6. Gone(queue, c)
    BY <2>1, <2>4, <2>5, Zenon DEF Stage, Fresh, Entering, Open, Closed
  <2> QED
    BY <2>3, <2>6 DEF Gone
<1> QED
  BY <1>1, TypeCorrect, StageInvHolds, PTL
=============================================================================
