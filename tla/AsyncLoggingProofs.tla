------------------------- MODULE AsyncLoggingProofs -------------------------
(***************************************************************************)
(* Proofs about AsyncLogging for any set of lines, any buffer size and any *)
(* limit on the number of buffers.                                         *)
(***************************************************************************)
EXTENDS Logger, TLAPS

(* Type correctness.                                                       *)
THEOREM TypeCorrect == Spec => []TypeOK
<1>1. Init => TypeOK
  <2> SUFFICES ASSUME Init
               PROVE  TypeOK
    OBVIOUS
  <2>1. /\ << >> \in Buffer /\ << >> \in Seq(Buffer)
        /\ Len(<< >>) <= BufferSize /\ 0 \in 0 .. Len(<< >>)
    BY SizeAssumption DEF Buffer
  <2> QED
    BY <2>1 DEF Init, TypeOK
<1>2. TypeOK /\ [Next]_vars => TypeOK'
  <2> SUFFICES ASSUME TypeOK, [Next]_vars
               PROVE  TypeOK'
    OBVIOUS
  <2> USE SizeAssumption DEF TypeOK, front, back, ends
  <2>1. ASSUME NEW m \in Line, AppendFits(m)
        PROVE  TypeOK'
    <3>1. /\ current' \in Buffer /\ Len(current') = Len(current) + 1
          /\ appended' \in Buffer /\ Len(current) \in Nat
      BY <2>1 DEF AppendFits, Appending, Buffer
    <3>2. Len(current') <= BufferSize
      BY <2>1, <3>1 DEF AppendFits
    <3> QED
      BY <2>1, <3>1, <3>2 DEF AppendFits
  <2>2. ASSUME NEW m \in Line, AppendFull(m)
        PROVE  TypeOK'
    <3>1. current' = Append(<< >>, m)
      BY <2>2 DEF AppendFull
    <3>2. current' \in Buffer /\ Len(current') <= BufferSize
      BY <3>1 DEF Buffer
    <3>3. buffers' \in Seq(Buffer) /\ appended' \in Buffer
      BY <2>2 DEF AppendFull, Appending, Buffer
    <3> QED
      BY <2>2, <3>2, <3>3 DEF AppendFull
  <2>3. CASE Swap
    <3>1. toWrite' \in Seq(Buffer) /\ buffers' \in Seq(Buffer)
      BY <2>3 DEF Swap, Buffer
    <3>2. current' = << >>
      BY <2>3 DEF Swap
    <3>3. current' \in Buffer /\ Len(current') <= BufferSize
      BY <3>2 DEF Buffer
    <3> QED
      BY <2>3, <3>1, <3>3 DEF Swap
  <2>4. CASE Drop
    <3>1. Kept \in Seq(Buffer)
      BY DropAssumption DEF Kept
    <3>2. dropped' \in SUBSET Line
      <4>1. ASSUME NEW i \in Len(Kept) + 1 .. Len(toWrite)
            PROVE  Range(toWrite[i]) \in SUBSET Line
        <5>1. Len(Kept) \in Nat /\ i \in DOMAIN toWrite
          BY <3>1
        <5>2. toWrite[i] \in Seq(Line)
          BY <5>1 DEF Buffer
        <5> QED
          BY <5>2 DEF Range
      <4> QED
        BY <2>4, <4>1 DEF Drop
    <3> QED
      BY <2>4, <3>1, <3>2 DEF Drop
  <2>5. CASE AppendBuffer
    <3>1. toWrite[wrote + 1] \in Buffer
      BY <2>5 DEF AppendBuffer
    <3>2. file' \in Buffer
      BY <2>5, <3>1 DEF AppendBuffer, Buffer
    <3>3. wrote' \in 0 .. Len(toWrite)
      BY <2>5 DEF AppendBuffer
    <3> QED
      BY <2>5, <3>2, <3>3 DEF AppendBuffer
  <2>6. CASE Refill
    <3>1. toWrite' \in Seq(Buffer) /\ wrote' \in 0 .. Len(toWrite')
      BY <2>6 DEF Refill, Buffer
    <3> QED
      BY <2>6, <3>1 DEF Refill
  <2>7. ASSUME NEW s \in Stopper, Stop(s) \/ StopStep(s)
        PROVE  TypeOK'
    BY <2>7 DEF Stop, StopStep, NotifyAll, AssertNotJoined, MarkJoined, Joined, Goes
  <2>8. CASE Start \/ TestRunning \/ Wait \/ Timeout
    BY <2>8 DEF Start, TestRunning, Wait, Timeout
  <2>9. CASE UNCHANGED vars
    BY <2>9 DEF vars
  <2> QED
    BY <2>1, <2>2, <2>3, <2>4, <2>7, <2>8, <2>9, <2>5, <2>6
    DEF Next, FrontEnd, LoggingThread
<1> QED
  BY <1>1, <1>2, PTL DEF Spec

-----------------------------------------------------------------------------
(* Why the refill always finds buffers to recycle: the next buffer is used *)
(* up only when a full one has been queued, so a swap that has to replace  *)
(* it takes at least two.                                                  *)
NextUsedMeansQueued == next = {} => buffers # << >>

(* Before start() the thread has used none of its buffers.                 *)
NotStarted == pc = "new" =>
                 /\ spare1 = {<< >>} /\ spare2 = {<< >>} /\ toWrite = << >>

IInv == AssertionsHold /\ NextUsedMeansQueued /\ NotStarted

(* Every step keeps the assertions together with what they rest on.        *)
LEMMA IInvStep == TypeOK /\ IInv /\ [Next]_vars => IInv'
<1> SUFFICES ASSUME TypeOK, IInv, [Next]_vars
             PROVE  IInv'
  OBVIOUS
<1> USE DEF IInv, AssertionsHold, NextUsedMeansQueued, NotStarted, CanRefill,
            front, back, ends
<1>1. ASSUME NEW m \in Line, AppendFits(m)
      PROVE  IInv'
  BY <1>1 DEF AppendFits
<1>2. ASSUME NEW m \in Line, AppendFull(m)
      PROVE  IInv'
  <2>1. buffers' # << >>
    BY <1>2 DEF AppendFull, TypeOK
  <2> QED
    BY <1>2, <2>1 DEF AppendFull
<1>3. CASE Swap
  <2>1. /\ buffers \in Seq(Buffer) /\ current \in Buffer
        /\ toWrite' = Append(buffers, current)
        /\ Len(toWrite') = Len(buffers) + 1 /\ Len(buffers) \in Nat
    BY <1>3 DEF Swap, TypeOK
  <2>2. buffers # << >> => Len(buffers) >= 1
    BY <2>1
  <2>3. pc \in {"lock", "swap"}
    BY <1>3 DEF Swap
  <2>4. spare2 = {<< >>}
    BY <2>3
  <2>5. pc' = "write"
    BY <1>3, <2>3 DEF Swap
  <2>6. next' # {}
    BY <1>3, <2>4 DEF Swap
  <2>7. CASE next = {}
    <3>1. Len(toWrite') >= 2
      BY <2>1, <2>2, <2>7
    <3> QED
      BY <2>5, <2>6, <3>1
  <2>8. CASE next # {}
    <3>1. Len(toWrite') >= 1
      BY <2>1
    <3>2. spare2' # {}
      BY <1>3, <2>4, <2>8 DEF Swap
    <3> QED
      BY <2>5, <2>6, <3>1, <3>2
  <2> QED
    BY <2>7, <2>8
<1>4. CASE Drop
  <2>1. toWrite \in Seq(Buffer) /\ toWrite' = Kept /\ UNCHANGED <<spare1, spare2>>
    BY <1>4 DEF Drop, TypeOK
  <2>2. Len(toWrite') = Len(toWrite) \/ Len(toWrite') = 2
    BY <2>1, DropAssumption DEF Kept
  <2>3. pc = "write" /\ pc' = "append" /\ UNCHANGED <<next, buffers>>
    BY <1>4 DEF Drop
  <2>4. Len(toWrite) >= (IF spare2 = {} THEN 2 ELSE 1)
    BY <2>3
  <2>5. Len(toWrite') >= (IF spare2 = {} THEN 2 ELSE 1)
    BY <2>2, <2>4
  <2> QED
    BY <2>1, <2>3, <2>5
<1>5. CASE AppendBuffer \/ Refill
  BY <1>5 DEF AppendBuffer, Refill
<1>6. CASE Start
  BY <1>6 DEF Start
<1>7. ASSUME NEW s \in Stopper, Stop(s) \/ StopStep(s)
      PROVE  IInv'
  BY <1>7 DEF Stop, StopStep, NotifyAll, AssertNotJoined, MarkJoined, Joined, Goes
<1>8. CASE TestRunning \/ Wait \/ Timeout
  BY <1>8 DEF TestRunning, Wait, Timeout
<1>9. CASE UNCHANGED vars
  BY <1>9 DEF vars
<1> QED
  BY <1>1, <1>2, <1>3, <1>4, <1>6, <1>7, <1>8, <1>9, <1>5
  DEF Next, FrontEnd, LoggingThread

(* None of the assertions of threadFunc can fail.                          *)
THEOREM AssertionsNeverFail == Spec => []AssertionsHold
<1>1. Init => IInv
  BY DEF Init, IInv, AssertionsHold, NextUsedMeansQueued, NotStarted
<1>2. IInv => AssertionsHold
  BY DEF IInv
<1> QED
  BY <1>1, <1>2, IInvStep, TypeCorrect, PTL DEF Spec
-----------------------------------------------------------------------------
(* The logger of the process, with its files, its FATAL lines and the end  *)
(* of the process, uses AsyncLogging as that module describes it.          *)
THEOREM LoggerLogsAsynchronously == LoggerSpec => Spec
<1>1. LoggerInit => Init
  BY DEF LoggerInit
<1>2. [LoggerNext]_allVars => [Next]_vars
  <2> SUFFICES ASSUME [LoggerNext]_allVars
               PROVE  [Next]_vars
    OBVIOUS
  <2>1. CASE Logs
    <3>1. PICK m : AppendFits(m) \/ AppendFull(m)
      BY <2>1 DEF Logs
    <3>2. m \in Line
      BY <3>1 DEF AppendFits, AppendFull, Appending
    <3> QED
      BY <3>1, <3>2 DEF Next, FrontEnd
  <2>2. CASE StopsLogger
    BY <2>2 DEF StopsLogger, Next
  <2>3. CASE StartsLogger \/ WritesFiles \/ ThreadGoesOn
    BY <2>3 DEF StartsLogger, WritesFiles, ThreadGoesOn, Next, LoggingThread
  <2>4. CASE Aborts \/ Tick \/ UNCHANGED allVars
    BY <2>4 DEF Aborts, Tick, allVars
  <2> QED
    BY <2>1, <2>2, <2>3, <2>4 DEF LoggerNext
<1> QED
  BY <1>1, <1>2, PTL DEF LoggerSpec, Spec

(* So in the program, too, there is always a buffer to recycle.            *)
THEOREM LoggerAssertionsNeverFail == LoggerSpec => []AssertionsHold
  BY LoggerLogsAsynchronously, AssertionsNeverFail, PTL
-----------------------------------------------------------------------------
(* Sequences of chunks of lines, and the order of the lines in them.       *)

(* A sequence in two parts.                                                *)
InTwoParts(u, v, w) ==
    /\ Len(u) \in Nat /\ Len(v) \in Nat
    /\ DOMAIN u = 1 .. Len(u) /\ DOMAIN v = 1 .. Len(v)
    /\ DOMAIN w = 1 .. Len(u) + Len(v)
    /\ \A k \in DOMAIN u : k \in DOMAIN w /\ w[k] = u[k]
    /\ \A k \in DOMAIN v : Len(u) + k \in DOMAIN w /\ w[Len(u) + k] = v[k]
    /\ \A i \in DOMAIN w : \/ i \in DOMAIN u /\ w[i] = u[i]
                           \/ \E k \in DOMAIN v : i = Len(u) + k /\ w[i] = v[k]

(* The places of a concatenation are those of its parts.                   *)
LEMMA TwoParts ==
    ASSUME NEW S, NEW u \in Seq(S), NEW v \in Seq(S), NEW w, w = u \o v
    PROVE  w \in Seq(S) /\ InTwoParts(u, v, w)
<1>1. /\ Len(u) \in Nat /\ Len(v) \in Nat
      /\ DOMAIN u = 1 .. Len(u) /\ DOMAIN v = 1 .. Len(v)
      /\ DOMAIN w = 1 .. Len(u) + Len(v)
      /\ \A k \in DOMAIN u : k \in DOMAIN w /\ w[k] = u[k]
      /\ \A k \in DOMAIN v : Len(u) + k \in DOMAIN w /\ w[Len(u) + k] = v[k]
  OBVIOUS
<1>2. ASSUME NEW i \in DOMAIN w
      PROVE  \/ i \in DOMAIN u /\ w[i] = u[i]
             \/ \E k \in DOMAIN v : i = Len(u) + k /\ w[i] = v[k]
  <2>1. CASE i \in 1 .. Len(u)
    BY <2>1, <1>1
  <2>2. CASE i \notin 1 .. Len(u)
    <3>1. i - Len(u) \in DOMAIN v /\ i = Len(u) + (i - Len(u))
      BY <2>2, <1>1
    <3>2. w[i] = v[i - Len(u)]
      BY <3>1, <1>1
    <3> QED
      BY <3>1, <3>2
  <2> QED
    BY <2>1, <2>2
<1> QED
  BY <1>1, <1>2 DEF InTwoParts

(* What came before in s does so in a longer sequence, and what is added   *)
(* comes after all of s.                                                   *)
LEMMA BeforeMore ==
    ASSUME NEW s \in Seq(Line), NEW t \in Seq(Line)
    PROVE  /\ \A m, n : Before(s, m, n) => Before(s \o t, m, n)
           /\ \A m \in Range(s), j \in DOMAIN t : Before(s \o t, m, t[j])
           /\ \A i, j \in DOMAIN t : i < j => Before(s \o t, t[i], t[j])
<1> DEFINE u == s \o t
<1>1. /\ Len(s) \in Nat /\ Len(t) \in Nat
      /\ DOMAIN s = 1 .. Len(s) /\ DOMAIN t = 1 .. Len(t)
      /\ DOMAIN u = 1 .. Len(s) + Len(t)
      /\ \A k \in DOMAIN s : k \in DOMAIN u /\ u[k] = s[k]
      /\ \A k \in DOMAIN t : Len(s) + k \in DOMAIN u /\ u[Len(s) + k] = t[k]
  BY TwoParts DEF InTwoParts
<1> HIDE DEF u
<1>2. ASSUME NEW m, NEW n, Before(s, m, n)
      PROVE  Before(u, m, n)
  <2>1. PICK i, j \in DOMAIN s : i < j /\ s[i] = m /\ s[j] = n
    BY <1>2 DEF Before
  <2> QED
    BY <2>1, <1>1 DEF Before
<1>3. ASSUME NEW m \in Range(s), NEW j \in DOMAIN t
      PROVE  Before(u, m, t[j])
  <2>1. PICK i \in DOMAIN s : s[i] = m
    BY DEF Range
  <2>2. i < Len(s) + j
    BY <1>1
  <2> QED
    BY <2>1, <2>2, <1>1 DEF Before
<1>4. ASSUME NEW i \in DOMAIN t, NEW j \in DOMAIN t, i < j
      PROVE  Before(u, t[i], t[j])
  <2>1. Len(s) + i < Len(s) + j
    BY <1>1, <1>4
  <2> QED
    BY <2>1, <1>1 DEF Before
<1> QED
  BY <1>2, <1>3, <1>4 DEF u

(* Lines added to a chunk after which all chunks are empty, and to the     *)
(* end of the sequence, are in order.                                      *)
AddsLines(I, P, Q, last, s, t) ==
    /\ I \in SUBSET Nat /\ P \in [I -> Seq(Line)] /\ Q \in [I -> Seq(Line)]
    /\ s \in Seq(Line) /\ t \in Seq(Line) /\ last \in I
    /\ InOrder(P, s) /\ Lines(P) \subseteq Range(s)
    /\ \A a \in I : a > last => P[a] = << >>
    /\ \A a \in I : a # last => Q[a] = P[a]
    /\ Q[last] = P[last] \o t

(* The longer chunks are in the order of the longer sequence.              *)
LEMMA AddLines ==
    ASSUME NEW I, NEW P, NEW Q, NEW last, NEW s, NEW t, AddsLines(I, P, Q, last, s, t)
    PROVE  /\ InOrder(Q, s \o t)
           /\ Lines(Q) = Lines(P) \cup Range(t)
<1>1. /\ I \in SUBSET Nat /\ P \in [I -> Seq(Line)] /\ Q \in [I -> Seq(Line)]
      /\ s \in Seq(Line) /\ t \in Seq(Line) /\ last \in I
  BY DEF AddsLines
<1>2. /\ InOrder(P, s) /\ Lines(P) \subseteq Range(s)
      /\ \A a \in I : a > last => P[a] = << >>
      /\ Q[last] = P[last] \o t
  BY DEF AddsLines
<1> USE <1>1
<1>3. \A a \in I : a # last => Q[a] = P[a]
  BY DEF AddsLines
<1>4. /\ Len(P[last]) \in Nat /\ Len(t) \in Nat
      /\ DOMAIN P[last] = 1 .. Len(P[last]) /\ DOMAIN t = 1 .. Len(t)
      /\ \A k \in DOMAIN P[last] : k \in DOMAIN Q[last] /\ Q[last][k] = P[last][k]
      /\ \A k \in DOMAIN t :
            Len(P[last]) + k \in DOMAIN Q[last] /\ Q[last][Len(P[last]) + k] = t[k]
      /\ \A i \in DOMAIN Q[last] :
            \/ i \in DOMAIN P[last] /\ Q[last][i] = P[last][i]
            \/ \E k \in DOMAIN t : i = Len(P[last]) + k /\ Q[last][i] = t[k]
  <2>1. Q[last] = P[last] \o t /\ P[last] \in Seq(Line)
    BY <1>2
  <2>2. InTwoParts(P[last], t, Q[last])
    BY <2>1, TwoParts
  <2> QED
    BY <2>2 DEF InTwoParts
<1>5. DOMAIN P = I /\ DOMAIN Q = I
  OBVIOUS
<1>6. ASSUME NEW a \in I, NEW i \in DOMAIN P[a]
      PROVE  P[a][i] \in Range(s)
  <2>1. P[a][i] \in Range(P[a])
    BY DEF Range
  <2>2. P[a][i] \in Lines(P)
    BY <2>1, <1>5 DEF Lines
  <2> QED
    BY <2>2, <1>2
<1>7. ASSUME NEW a \in I, NEW i \in DOMAIN Q[a]
      PROVE  \/ i \in DOMAIN P[a] /\ Q[a][i] = P[a][i]
             \/ a = last /\ \E k \in DOMAIN t : i = Len(P[last]) + k /\ Q[a][i] = t[k]
  BY <1>3, <1>4
<1>8. InOrder(Q, s \o t)
  <2> SUFFICES ASSUME NEW a \in I, NEW b \in I, NEW i \in DOMAIN Q[a], NEW j \in DOMAIN Q[b],
                      a < b \/ (a = b /\ i < j)
               PROVE  Before(s \o t, Q[a][i], Q[b][j])
    BY <1>5 DEF InOrder
  <2>1. CASE /\ i \in DOMAIN P[a] /\ Q[a][i] = P[a][i]
             /\ j \in DOMAIN P[b] /\ Q[b][j] = P[b][j]
    <3>1. Before(s, P[a][i], P[b][j])
      BY <2>1, <1>2, <1>5 DEF InOrder
    <3> QED
      BY <3>1, <2>1, BeforeMore
  <2>2. CASE /\ i \in DOMAIN P[a] /\ Q[a][i] = P[a][i]
             /\ b = last /\ \E k \in DOMAIN t : j = Len(P[last]) + k /\ Q[b][j] = t[k]
    <3>1. Q[a][i] \in Range(s)
      BY <2>2, <1>6
    <3> QED
      BY <3>1, <2>2, BeforeMore
  <2>3. ASSUME a = last, NEW k \in DOMAIN t, i = Len(P[last]) + k, Q[a][i] = t[k],
               j \in DOMAIN P[b], Q[b][j] = P[b][j]
        PROVE  FALSE
    <3>1. CASE a < b
      <4>1. P[b] = << >>
        BY <2>3, <3>1, <1>2
      <4> QED
        BY <4>1, <2>3
    <3>2. CASE a = b /\ i < j
      BY <3>2, <2>3, <1>4
    <3> QED
      BY <3>1, <3>2
  <2>4. ASSUME a = last, NEW k \in DOMAIN t, i = Len(P[last]) + k, Q[a][i] = t[k],
               b = last, NEW l \in DOMAIN t, j = Len(P[last]) + l, Q[b][j] = t[l]
        PROVE  Before(s \o t, Q[a][i], Q[b][j])
    <3>1. k < l
      BY <2>4, <1>4
    <3> QED
      BY <3>1, <2>4, BeforeMore
  <2> QED
    BY <2>1, <2>2, <2>3, <2>4, <1>7
<1>9. Lines(Q) = Lines(P) \cup Range(t)
  <2>1. ASSUME NEW x \in Lines(Q)
        PROVE  x \in Lines(P) \cup Range(t)
    <3>1. PICK a \in I : \E i \in DOMAIN Q[a] : x = Q[a][i]
      BY <1>5 DEF Lines, Range
    <3>2. PICK i \in DOMAIN Q[a] : x = Q[a][i]
      BY <3>1
    <3>3. CASE i \in DOMAIN P[a] /\ Q[a][i] = P[a][i]
      BY <3>2, <3>3, <1>5 DEF Lines, Range
    <3>4. CASE \E k \in DOMAIN t : Q[a][i] = t[k]
      BY <3>2, <3>4 DEF Range
    <3> QED
      BY <3>3, <3>4, <1>7
  <2>2. ASSUME NEW x \in Lines(P)
        PROVE  x \in Lines(Q)
    <3>1. PICK a \in I : \E i \in DOMAIN P[a] : x = P[a][i]
      BY <1>5 DEF Lines, Range
    <3>2. PICK i \in DOMAIN P[a] : x = P[a][i]
      BY <3>1
    <3>3. i \in DOMAIN Q[a] /\ x = Q[a][i]
      BY <3>2, <1>3, <1>4
    <3> QED
      BY <3>3, <1>5 DEF Lines, Range
  <2>3. ASSUME NEW x \in Range(t)
        PROVE  x \in Lines(Q)
    <3>1. PICK k \in DOMAIN t : x = t[k]
      BY DEF Range
    <3>2. Len(P[last]) + k \in DOMAIN Q[last] /\ x = Q[last][Len(P[last]) + k]
      BY <3>1, <1>4
    <3>3. x \in Range(Q[last])
      BY <3>2 DEF Range
    <3> QED
      BY <3>3, <1>5 DEF Lines
  <2> QED
    BY <2>1, <2>2, <2>3
<1> QED
  BY <1>8, <1>9

(* The first two chunks put together.                                      *)
Merges(P, Q) == /\ Len(P) >= 2 /\ Len(Q) = Len(P) - 1
                /\ Q[1] = P[1] \o P[2]
                /\ \A k \in 2 .. Len(Q) : Q[k] = P[k + 1]

(* Putting two chunks together changes neither lines nor order.            *)
LEMMA MergeFirst ==
    ASSUME NEW P \in Seq(Seq(Line)), NEW Q \in Seq(Seq(Line)), NEW s,
           Merges(P, Q), InOrder(P, s)
    PROVE  InOrder(Q, s) /\ Lines(Q) = Lines(P)
<1>1. /\ Len(P) \in Nat /\ Len(P) >= 2 /\ Len(Q) = Len(P) - 1
      /\ DOMAIN P = 1 .. Len(P) /\ DOMAIN Q = 1 .. Len(P) - 1
      /\ 1 \in DOMAIN P /\ 2 \in DOMAIN P /\ 1 \in DOMAIN Q
      /\ P[1] \in Seq(Line) /\ P[2] \in Seq(Line)
  BY DEF Merges
<1>2. Q[1] = P[1] \o P[2] /\ \A k \in 2 .. Len(Q) : Q[k] = P[k + 1]
  BY DEF Merges
<1>3. /\ Len(P[1]) \in Nat /\ Len(P[2]) \in Nat
      /\ DOMAIN P[1] = 1 .. Len(P[1]) /\ DOMAIN P[2] = 1 .. Len(P[2])
      /\ \A k \in DOMAIN P[1] : k \in DOMAIN Q[1] /\ Q[1][k] = P[1][k]
      /\ \A k \in DOMAIN P[2] : Len(P[1]) + k \in DOMAIN Q[1] /\ Q[1][Len(P[1]) + k] = P[2][k]
      /\ \A i \in DOMAIN Q[1] :
            \/ i \in DOMAIN P[1] /\ Q[1][i] = P[1][i]
            \/ \E k \in DOMAIN P[2] : i = Len(P[1]) + k /\ Q[1][i] = P[2][k]
  <2>1. InTwoParts(P[1], P[2], Q[1])
    BY <1>1, <1>2, TwoParts, Zenon
  <2> QED
    BY <2>1 DEF InTwoParts
<1>4. ASSUME NEW a \in DOMAIN Q, NEW i \in DOMAIN Q[a]
      PROVE  \/ a = 1 /\ i \in DOMAIN P[1] /\ Q[a][i] = P[1][i]
             \/ a = 1 /\ \E k \in DOMAIN P[2] : i = Len(P[1]) + k /\ Q[a][i] = P[2][k]
             \/ a > 1 /\ a + 1 \in DOMAIN P /\ i \in DOMAIN P[a + 1] /\ Q[a][i] = P[a + 1][i]
  <2>1. CASE a = 1
    BY <2>1, <1>3
  <2>2. CASE a > 1
    <3>1. a \in 2 .. Len(Q) /\ a + 1 \in DOMAIN P
      BY <2>2, <1>1
    <3>2. Q[a] = P[a + 1]
      BY <3>1, <1>2
    <3> QED
      BY <2>2, <3>1, <3>2
  <2> QED
    BY <2>1, <2>2, <1>1
<1>5. ASSUME NEW a \in DOMAIN P, NEW b \in DOMAIN P,
             NEW i \in DOMAIN P[a], NEW j \in DOMAIN P[b], a < b \/ (a = b /\ i < j)
      PROVE  Before(s, P[a][i], P[b][j])
  BY <1>5 DEF InOrder
<1>6. InOrder(Q, s)
  <2> SUFFICES ASSUME NEW a \in DOMAIN Q, NEW b \in DOMAIN Q,
                      NEW i \in DOMAIN Q[a], NEW j \in DOMAIN Q[b],
                      a < b \/ (a = b /\ i < j)
               PROVE  Before(s, Q[a][i], Q[b][j])
    BY DEF InOrder
  <2> a \in Nat /\ b \in Nat /\ 1 \in DOMAIN P /\ 2 \in DOMAIN P
    BY <1>1
  <2>1. CASE a = 1 /\ i \in DOMAIN P[1] /\ Q[a][i] = P[1][i]
    <3>1. CASE b = 1 /\ j \in DOMAIN P[1] /\ Q[b][j] = P[1][j]
      BY <2>1, <3>1, <1>5
    <3>2. CASE b = 1 /\ \E k \in DOMAIN P[2] : j = Len(P[1]) + k /\ Q[b][j] = P[2][k]
      BY <2>1, <3>2, <1>5
    <3>3. CASE b > 1 /\ b + 1 \in DOMAIN P /\ j \in DOMAIN P[b + 1] /\ Q[b][j] = P[b + 1][j]
      <4>1. 1 < b + 1
        BY <3>3
      <4> QED
        BY <2>1, <3>3, <4>1, <1>5
    <3> QED
      BY <3>1, <3>2, <3>3, <1>4
  <2>2. ASSUME a = 1, NEW k \in DOMAIN P[2], i = Len(P[1]) + k, Q[a][i] = P[2][k]
        PROVE  Before(s, Q[a][i], Q[b][j])
    <3>1. CASE b = 1 /\ j \in DOMAIN P[1] /\ Q[b][j] = P[1][j]
      <4>1. j <= Len(P[1]) /\ i > Len(P[1]) /\ i \in Nat /\ j \in Nat /\ i < j
        BY <2>2, <3>1, <1>3
      <4> QED
        BY <4>1, <1>3
    <3>2. ASSUME b = 1, NEW l \in DOMAIN P[2], j = Len(P[1]) + l, Q[b][j] = P[2][l]
          PROVE  Before(s, Q[a][i], Q[b][j])
      <4>1. k < l
        BY <2>2, <3>2, <1>3
      <4> QED
        BY <2>2, <3>2, <4>1, <1>5
    <3>3. CASE b > 1 /\ b + 1 \in DOMAIN P /\ j \in DOMAIN P[b + 1] /\ Q[b][j] = P[b + 1][j]
      <4>1. 2 < b + 1
        BY <3>3
      <4> QED
        BY <2>2, <3>3, <4>1, <1>5
    <3> QED
      BY <3>1, <3>2, <3>3, <1>4
  <2>3. CASE a > 1 /\ a + 1 \in DOMAIN P /\ i \in DOMAIN P[a + 1] /\ Q[a][i] = P[a + 1][i]
    <3>1. b > 1
      BY <2>3
    <3>2. b + 1 \in DOMAIN P /\ j \in DOMAIN P[b + 1] /\ Q[b][j] = P[b + 1][j]
      <4>1. b # 1
        BY <3>1
      <4> QED
        BY <4>1, <1>4
    <3>3. a + 1 < b + 1 \/ (a + 1 = b + 1 /\ i < j)
      OBVIOUS
    <3> QED
      BY <2>3, <3>2, <3>3, <1>5
  <2> QED
    BY <2>1, <2>2, <2>3, <1>4
<1>7. ASSUME NEW x
      PROVE  x \in Lines(Q) <=> x \in Lines(P)
  <2>1. ASSUME x \in Lines(Q)
        PROVE  x \in Lines(P)
    <3>1. PICK a \in DOMAIN Q : \E i \in DOMAIN Q[a] : x = Q[a][i]
      BY <2>1 DEF Lines, Range
    <3>2. PICK i \in DOMAIN Q[a] : x = Q[a][i]
      BY <3>1
    <3>3. 1 \in DOMAIN P /\ 2 \in DOMAIN P
      BY <1>1
    <3>4. \E b \in DOMAIN P : \E j \in DOMAIN P[b] : x = P[b][j]
      BY <3>2, <3>3, <1>4
    <3> QED
      BY <3>4 DEF Lines, Range
  <2>2. ASSUME x \in Lines(P)
        PROVE  x \in Lines(Q)
    <3>1. PICK a \in DOMAIN P : \E i \in DOMAIN P[a] : x = P[a][i]
      BY <2>2 DEF Lines, Range
    <3>2. PICK i \in DOMAIN P[a] : x = P[a][i]
      BY <3>1
    <3>3. \E b \in DOMAIN Q : \E j \in DOMAIN Q[b] : x = Q[b][j]
      <4>1. CASE a = 1
        <5>1. 1 \in DOMAIN Q /\ i \in DOMAIN Q[1] /\ x = Q[1][i]
          BY <4>1, <3>2, <1>1, <1>3
        <5> QED
          BY <5>1
      <4>2. CASE a = 2
        <5>1. 1 \in DOMAIN Q /\ Len(P[1]) + i \in DOMAIN Q[1] /\ x = Q[1][Len(P[1]) + i]
          BY <4>2, <3>2, <1>1, <1>3
        <5> QED
          BY <5>1
      <4>3. CASE a > 2
        <5>1. a - 1 \in 2 .. Len(Q) /\ (a - 1) + 1 = a
          BY <4>3, <1>1
        <5>2. a - 1 \in DOMAIN Q /\ Q[a - 1] = P[a]
          BY <5>1, <1>1, <1>2
        <5> QED
          BY <5>2, <3>2
      <4> QED
        BY <4>1, <4>2, <4>3, <1>1
    <3> QED
      BY <3>3 DEF Lines, Range
  <2> QED
    BY <2>1, <2>2
<1> QED
  BY <1>6, <1>7

(* Some of the chunks left out.                                            *)
LEMMA KeepChunks ==
    ASSUME NEW P \in Seq(Seq(Line)), NEW Q \in Seq(Seq(Line)), NEW s,
           NEW from \in [DOMAIN Q -> DOMAIN P],
           \A a, b \in DOMAIN Q : a < b => from[a] < from[b],
           \A a \in DOMAIN Q : Q[a] = P[from[a]],
           InOrder(P, s)
    PROVE  /\ InOrder(Q, s)
           /\ Lines(Q) = UNION {Range(P[from[a]]) : a \in DOMAIN Q}
<1>1. InOrder(Q, s)
  <2> SUFFICES ASSUME NEW a \in DOMAIN Q, NEW b \in DOMAIN Q,
                      NEW i \in DOMAIN Q[a], NEW j \in DOMAIN Q[b],
                      a < b \/ (a = b /\ i < j)
               PROVE  Before(s, Q[a][i], Q[b][j])
    BY DEF InOrder
  <2>1. /\ from[a] \in DOMAIN P /\ from[b] \in DOMAIN P
        /\ Q[a] = P[from[a]] /\ Q[b] = P[from[b]]
        /\ from[a] < from[b] \/ (from[a] = from[b] /\ i < j)
    OBVIOUS
  <2> QED
    BY <2>1 DEF InOrder
<1>2. Lines(Q) = UNION {Range(P[from[a]]) : a \in DOMAIN Q}
  BY DEF Lines
<1> QED
  BY <1>1, <1>2

(* An empty chunk added at the end.                                        *)
AddsEmpty(P, Q) == /\ Len(Q) = Len(P) + 1
                   /\ \A k \in 1 .. Len(P) : Q[k] = P[k]
                   /\ Q[Len(Q)] = << >>

(* An empty chunk changes neither lines nor order.                         *)
LEMMA EmptyChunk ==
    ASSUME NEW P \in Seq(Seq(Line)), NEW Q \in Seq(Seq(Line)), NEW s,
           AddsEmpty(P, Q), InOrder(P, s)
    PROVE  InOrder(Q, s) /\ Lines(Q) = Lines(P)
<1>1. /\ Len(P) \in Nat /\ DOMAIN P = 1 .. Len(P) /\ DOMAIN Q = 1 .. Len(P) + 1
      /\ \A k \in DOMAIN P : k \in DOMAIN Q /\ Q[k] = P[k]
      /\ Q[Len(P) + 1] = << >>
  <2>1. /\ Len(P) \in Nat /\ DOMAIN P = 1 .. Len(P) /\ DOMAIN Q = 1 .. Len(Q)
        /\ Len(Q) = Len(P) + 1
    BY DEF AddsEmpty
  <2>2. Q[Len(P) + 1] = << >>
    BY <2>1 DEF AddsEmpty
  <2>3. \A k \in DOMAIN P : Q[k] = P[k]
    BY <2>1 DEF AddsEmpty
  <2>4. \A k \in 1 .. Len(P) : k \in 1 .. Len(P) + 1
    BY <2>1
  <2> QED
    BY <2>1, <2>2, <2>3, <2>4
<1>2. ASSUME NEW a \in DOMAIN Q, NEW i \in DOMAIN Q[a]
      PROVE  a \in DOMAIN P /\ i \in DOMAIN P[a] /\ Q[a][i] = P[a][i]
  <2>1. a # Len(P) + 1
    BY <1>1
  <2>2. a \in DOMAIN P
    BY <2>1, <1>1
  <2> QED
    BY <2>2, <1>1
<1>3. InOrder(Q, s)
  BY <1>2 DEF InOrder
<1>4. ASSUME NEW x
      PROVE  x \in Lines(Q) <=> x \in Lines(P)
  <2>1. ASSUME x \in Lines(Q)
        PROVE  x \in Lines(P)
    <3>1. PICK a \in DOMAIN Q : \E i \in DOMAIN Q[a] : x = Q[a][i]
      BY <2>1 DEF Lines, Range
    <3>2. PICK i \in DOMAIN Q[a] : x = Q[a][i]
      BY <3>1
    <3> QED
      BY <3>2, <1>2 DEF Lines, Range
  <2>2. ASSUME x \in Lines(P)
        PROVE  x \in Lines(Q)
    <3>1. PICK a \in DOMAIN P : x \in Range(P[a])
      BY <2>2 DEF Lines
    <3>2. a \in DOMAIN Q /\ x \in Range(Q[a])
      BY <3>1, <1>1
    <3> QED
      BY <3>2 DEF Lines
  <2> QED
    BY <2>1, <2>2
<1> QED
  BY <1>3, <1>4

(* The chunks of a pipeline one by one.                                    *)
Parts(f, t, w, b, c, P) ==
    /\ P \in Seq(Seq(Line)) /\ Len(P) = Len(t) - w + Len(b) + 2
    /\ P[1] = f
    /\ \A k \in 1 .. Len(t) - w : P[k + 1] = t[w + k]
    /\ \A k \in 1 .. Len(b) : P[Len(t) - w + k + 1] = b[k]
    /\ P[Len(P)] = c

(* These are the chunks of a concatenation built like Pipeline.            *)
LEMMA PipelineParts ==
    ASSUME NEW f \in Seq(Line), NEW t \in Seq(Seq(Line)), NEW w \in 0 .. Len(t),
           NEW b \in Seq(Seq(Line)), NEW c \in Seq(Line)
    PROVE  Parts(f, t, w, b, c, <<f>> \o SubSeq(t, w + 1, Len(t)) \o b \o <<c>>)
<1> DEFINE r == SubSeq(t, w + 1, Len(t))
           p == <<f>> \o r
           q == p \o b
           P == q \o <<c>>
<1>1. Len(t) \in Nat /\ w \in Nat /\ w <= Len(t) /\ Len(b) \in Nat
  OBVIOUS
<1>2. /\ r \in Seq(Seq(Line)) /\ Len(r) = Len(t) - w
      /\ \A k \in 1 .. Len(t) - w : r[k] = t[w + k]
  <2>1. \A k \in w + 1 .. Len(t) : t[k] \in Seq(Line)
    BY <1>1
  <2>2. r \in Seq(Seq(Line)) /\ Len(r) = Len(t) - w
    BY <1>1, <2>1
  <2>3. ASSUME NEW k \in 1 .. Len(t) - w
        PROVE  r[k] = t[w + k]
    <3>1. r[k] = t[w + 1 + k - 1]
      BY <1>1
    <3>2. w + 1 + k - 1 = w + k
      BY <1>1
    <3> QED
      BY <3>1, <3>2
  <2> QED
    BY <2>2, <2>3
<1> HIDE DEF r
<1>3. /\ p \in Seq(Seq(Line)) /\ Len(p) = Len(t) - w + 1
      /\ p[1] = f
      /\ \A k \in 1 .. Len(t) - w : p[k + 1] = t[w + k]
  <2>1. /\ <<f>> \in Seq(Seq(Line)) /\ Len(<<f>>) = 1 /\ <<f>>[1] = f
        /\ 1 \in DOMAIN <<f>>
    OBVIOUS
  <2>2. p \in Seq(Seq(Line)) /\ InTwoParts(<<f>>, r, p)
    BY <1>2, <2>1, TwoParts
  <2>3. p[1] = f /\ Len(p) = Len(t) - w + 1
    BY <2>1, <2>2, <1>2, <1>1 DEF InTwoParts
  <2>4. ASSUME NEW k \in 1 .. Len(t) - w
        PROVE  p[k + 1] = t[w + k]
    <3>1. p[1 + k] = r[k]
      BY <2>1, <2>2, <1>2 DEF InTwoParts
    <3>2. 1 + k = k + 1
      BY <1>1
    <3> QED
      BY <3>1, <3>2, <1>2
  <2> QED
    BY <2>2, <2>3, <2>4
<1> HIDE DEF p
<1>4. /\ q \in Seq(Seq(Line)) /\ Len(q) = Len(t) - w + Len(b) + 1
      /\ q[1] = f
      /\ \A k \in 1 .. Len(t) - w : q[k + 1] = t[w + k]
      /\ \A k \in 1 .. Len(b) : q[Len(t) - w + k + 1] = b[k]
  <2>1. q \in Seq(Seq(Line)) /\ InTwoParts(p, b, q)
    BY <1>3, TwoParts
  <2>2. Len(q) = Len(t) - w + Len(b) + 1
    BY <2>1, <1>3, <1>1 DEF InTwoParts
  <2>3. \A k \in 1 .. Len(t) - w + 1 : q[k] = p[k]
    BY <2>1, <1>3 DEF InTwoParts
  <2>4. \A k \in 1 .. Len(t) - w : k + 1 \in 1 .. Len(t) - w + 1
    BY <1>1
  <2>5. \A k \in 1 .. Len(t) - w : q[k + 1] = t[w + k]
    BY <2>3, <2>4, <1>3
  <2>6. 1 \in 1 .. Len(t) - w + 1
    BY <1>1
  <2>7. q[1] = f
    BY <2>3, <2>6, <1>3
  <2>8. ASSUME NEW k \in 1 .. Len(b)
        PROVE  q[Len(t) - w + k + 1] = b[k]
    <3>1. q[Len(p) + k] = b[k]
      BY <2>1 DEF InTwoParts
    <3>2. Len(p) + k = Len(t) - w + k + 1
      BY <1>1, <1>3
    <3> QED
      BY <3>1, <3>2
  <2> QED
    BY <2>1, <2>2, <2>5, <2>7, <2>8
<1> HIDE DEF q
<1>5. /\ P \in Seq(Seq(Line)) /\ Len(P) = Len(t) - w + Len(b) + 2 /\ P[Len(P)] = c
      /\ \A k \in 1 .. Len(t) - w + Len(b) + 1 : P[k] = q[k]
  <2>1. /\ <<c>> \in Seq(Seq(Line)) /\ Len(<<c>>) = 1 /\ <<c>>[1] = c
        /\ 1 \in DOMAIN <<c>>
    OBVIOUS
  <2>2. P \in Seq(Seq(Line)) /\ InTwoParts(q, <<c>>, P)
    BY <1>4, <2>1, TwoParts
  <2>3. Len(P) = Len(q) + 1
    BY <2>1, <2>2, <1>4 DEF InTwoParts
  <2>4. P[Len(q) + 1] = c
    BY <2>1, <2>2 DEF InTwoParts
  <2>5. Len(P) = Len(t) - w + Len(b) + 2
    BY <2>3, <1>4, <1>1
  <2>6. \A k \in 1 .. Len(t) - w + Len(b) + 1 : P[k] = q[k]
    BY <2>2, <1>4 DEF InTwoParts
  <2> QED
    BY <2>2, <2>3, <2>4, <2>5, <2>6
<1> HIDE DEF P
<1>6. \A k \in 1 .. Len(t) - w : P[k + 1] = t[w + k]
  <2>1. \A k \in 1 .. Len(t) - w : k + 1 \in 1 .. Len(t) - w + Len(b) + 1
    BY <1>1
  <2> QED
    BY <2>1, <1>4, <1>5
<1>7. \A k \in 1 .. Len(b) : P[Len(t) - w + k + 1] = b[k]
  <2>1. \A k \in 1 .. Len(b) : Len(t) - w + k + 1 \in 1 .. Len(t) - w + Len(b) + 1
    BY <1>1
  <2> QED
    BY <2>1, <1>4, <1>5
<1>8. P[1] = f
  <2>1. 1 \in 1 .. Len(t) - w + Len(b) + 1
    BY <1>1
  <2> QED
    BY <2>1, <1>4, <1>5
<1>9. Parts(f, t, w, b, c, P)
  BY <1>5, <1>6, <1>7, <1>8 DEF Parts
<1> QED
  BY <1>9 DEF P, q, p, r

(* When the end is changed only the last chunk is.                         *)
LEMMA SameMiddle ==
    ASSUME NEW f, NEW t \in Seq(Seq(Line)), NEW w \in 0 .. Len(t), NEW b \in Seq(Seq(Line)),
           NEW c, NEW d, NEW P, NEW Q, Parts(f, t, w, b, c, P), Parts(f, t, w, b, d, Q)
    PROVE  Len(Q) = Len(P) /\ \A k \in 1 .. Len(P) - 1 : Q[k] = P[k]
<1>1. Len(t) \in Nat /\ w \in Nat /\ w <= Len(t) /\ Len(b) \in Nat
  OBVIOUS
<1>2. Len(P) = Len(t) - w + Len(b) + 2 /\ Len(Q) = Len(P)
  BY DEF Parts
<1>3. ASSUME NEW k \in 1 .. Len(P) - 1
      PROVE  Q[k] = P[k]
  <2>1. CASE k = 1
    BY <2>1 DEF Parts
  <2>2. CASE k - 1 \in 1 .. Len(t) - w
    <3>1. k = (k - 1) + 1
      BY <1>1
    <3>2. P[(k - 1) + 1] = t[w + (k - 1)] /\ Q[(k - 1) + 1] = t[w + (k - 1)]
      BY <2>2 DEF Parts
    <3> QED
      BY <3>1, <3>2
  <2>3. CASE k - 1 - (Len(t) - w) \in 1 .. Len(b)
    <3> DEFINE j == k - 1 - (Len(t) - w)
    <3>1. k = Len(t) - w + j + 1
      BY <1>1
    <3>2. P[Len(t) - w + j + 1] = b[j] /\ Q[Len(t) - w + j + 1] = b[j]
      BY <2>3 DEF Parts
    <3> QED
      BY <3>1, <3>2
  <2> QED
    BY <2>1, <2>2, <2>3, <1>1, <1>2
<1> QED
  BY <1>2, <1>3

(* A full buffer queued: its chunk stays in its place and one is added.    *)
LEMMA QueuedParts ==
    ASSUME NEW f, NEW t \in Seq(Seq(Line)), NEW w \in 0 .. Len(t), NEW b \in Seq(Seq(Line)),
           NEW c \in Seq(Line), NEW d, NEW P, NEW Q,
           Parts(f, t, w, b, c, P), Parts(f, t, w, Append(b, c), d, Q)
    PROVE  /\ Len(Q) = Len(P) + 1 /\ Q[Len(Q)] = d
           /\ \A k \in 1 .. Len(P) : Q[k] = P[k]
<1>1. Len(t) \in Nat /\ w \in Nat /\ w <= Len(t) /\ Len(b) \in Nat
  OBVIOUS
<1>2. /\ Len(Append(b, c)) = Len(b) + 1
      /\ \A j \in 1 .. Len(b) : j \in 1 .. Len(Append(b, c)) /\ Append(b, c)[j] = b[j]
      /\ Append(b, c)[Len(b) + 1] = c /\ Len(b) + 1 \in 1 .. Len(Append(b, c))
  OBVIOUS
<1>3. Len(P) = Len(t) - w + Len(b) + 2 /\ Len(Q) = Len(P) + 1
  BY <1>1, <1>2 DEF Parts
<1>4. ASSUME NEW k \in 1 .. Len(P)
      PROVE  Q[k] = P[k]
  <2>1. CASE k = 1
    BY <2>1 DEF Parts
  <2>2. CASE k - 1 \in 1 .. Len(t) - w
    <3>1. k = (k - 1) + 1
      BY <1>1
    <3>2. P[(k - 1) + 1] = t[w + (k - 1)] /\ Q[(k - 1) + 1] = t[w + (k - 1)]
      BY <2>2 DEF Parts
    <3> QED
      BY <3>1, <3>2
  <2>3. CASE k - 1 - (Len(t) - w) \in 1 .. Len(b)
    <3> DEFINE j == k - 1 - (Len(t) - w)
    <3>1. k = Len(t) - w + j + 1
      BY <1>1
    <3>2. P[Len(t) - w + j + 1] = b[j]
      BY <2>3 DEF Parts
    <3>3. Q[Len(t) - w + j + 1] = Append(b, c)[j]
      BY <2>3, <1>2 DEF Parts
    <3> QED
      BY <3>1, <3>2, <3>3, <1>2, <2>3
  <2>4. CASE k = Len(P)
    <3>1. k = Len(t) - w + (Len(b) + 1) + 1
      BY <2>4, <1>3, <1>1
    <3>2. Q[Len(t) - w + (Len(b) + 1) + 1] = Append(b, c)[Len(b) + 1]
      BY <1>2 DEF Parts
    <3>3. P[k] = c
      BY <2>4 DEF Parts
    <3> QED
      BY <3>1, <3>2, <3>3, <1>2
  <2>5. \/ k = 1 \/ k - 1 \in 1 .. Len(t) - w
        \/ k - 1 - (Len(t) - w) \in 1 .. Len(b) \/ k = Len(t) - w + Len(b) + 2
    <3>1. k \in 1 .. Len(t) - w + Len(b) + 2
      BY <1>3
    <3>2. ASSUME NEW n \in Nat, NEW l \in Nat, NEW i \in 1 .. n + l + 2
          PROVE  i = 1 \/ i - 1 \in 1 .. n \/ i - 1 - n \in 1 .. l \/ i = n + l + 2
      OBVIOUS
    <3>3. Len(t) - w \in Nat
      BY <1>1
    <3> QED
      BY <1>1, <3>1, <3>2, <3>3
  <2> QED
    BY <2>1, <2>2, <2>3, <2>4, <2>5, <1>3
<1>5. Q[Len(Q)] = d
  BY DEF Parts
<1> QED
  BY <1>3, <1>4, <1>5

(* All buffers taken away to be written: again an empty chunk is added.    *)
LEMMA TakenParts ==
    ASSUME NEW f, NEW b \in Seq(Seq(Line)), NEW c \in Seq(Line), NEW P, NEW Q,
           Parts(f, << >>, 0, b, c, P), Parts(f, Append(b, c), 0, << >>, << >>, Q)
    PROVE  AddsEmpty(P, Q)
<1>1. Len(b) \in Nat /\ Len(<< >>) = 0
  OBVIOUS
<1>2. /\ Len(Append(b, c)) = Len(b) + 1
      /\ \A j \in 1 .. Len(b) : j \in 1 .. Len(Append(b, c)) /\ Append(b, c)[j] = b[j]
      /\ Append(b, c)[Len(b) + 1] = c /\ Len(b) + 1 \in 1 .. Len(Append(b, c))
  OBVIOUS
<1>3. Len(P) = Len(b) + 2 /\ Len(Q) = Len(P) + 1
  BY <1>1, <1>2 DEF Parts
<1>4. \A j \in 1 .. Len(b) : P[0 - 0 + j + 1] = b[j]
  BY <1>1 DEF Parts
<1>5. \A j \in 1 .. Len(b) + 1 : Q[j + 1] = Append(b, c)[0 + j]
  <2>1. Len(Append(b, c)) - 0 = Len(b) + 1
    BY <1>1, <1>2
  <2>2. \A j \in 1 .. Len(Append(b, c)) - 0 : Q[j + 1] = Append(b, c)[0 + j]
    BY DEF Parts
  <2> QED
    BY <2>1, <2>2
<1>6. ASSUME NEW k \in 1 .. Len(P)
      PROVE  Q[k] = P[k]
  <2>1. CASE k = 1
    BY <2>1 DEF Parts
  <2>2. CASE k - 1 \in 1 .. Len(b)
    <3> DEFINE j == k - 1
    <3>1. k = 0 - 0 + j + 1 /\ k = j + 1 /\ j = 0 + j /\ j \in 1 .. Len(b) + 1
      BY <1>1, <2>2
    <3>2. P[0 - 0 + j + 1] = b[j]
      BY <1>4, <2>2
    <3>3. Q[j + 1] = Append(b, c)[0 + j]
      BY <1>5, <3>1
    <3> QED
      BY <3>1, <3>2, <3>3, <1>2, <2>2
  <2>3. CASE k = Len(P)
    <3>1. k = (Len(b) + 1) + 1 /\ 0 + (Len(b) + 1) = Len(b) + 1 /\ Len(b) + 1 \in 1 .. Len(b) + 1
      BY <2>3, <1>3, <1>1
    <3>2. Q[(Len(b) + 1) + 1] = Append(b, c)[0 + (Len(b) + 1)]
      BY <1>5, <3>1
    <3>3. P[k] = c
      BY <2>3 DEF Parts
    <3> QED
      BY <3>1, <3>2, <3>3, <1>2
  <2> QED
    BY <2>1, <2>2, <2>3, <1>1, <1>3
<1>7. Q[Len(Q)] = << >>
  BY DEF Parts
<1> QED
  BY <1>3, <1>6, <1>7 DEF AddsEmpty

(* A buffer written: its chunk joins the file.                             *)
LEMMA WrittenParts ==
    ASSUME NEW f, NEW t \in Seq(Seq(Line)), NEW w \in 0 .. Len(t), w < Len(t),
           NEW b \in Seq(Seq(Line)), NEW c, NEW P, NEW Q,
           Parts(f, t, w, b, c, P), Parts(f \o t[w + 1], t, w + 1, b, c, Q)
    PROVE  Merges(P, Q)
<1>1. Len(t) \in Nat /\ w \in Nat /\ w < Len(t) /\ Len(b) \in Nat
  OBVIOUS
<1>2. Len(P) = Len(t) - w + Len(b) + 2 /\ Len(Q) = Len(t) - (w + 1) + Len(b) + 2
  BY DEF Parts
<1>3. Len(P) >= 2 /\ Len(Q) = Len(P) - 1
  BY <1>1, <1>2
<1>4. \A j \in 1 .. Len(t) - w : P[j + 1] = t[w + j]
  BY DEF Parts
<1>5. \A j \in 1 .. Len(t) - (w + 1) : Q[j + 1] = t[w + 1 + j]
  BY DEF Parts
<1>6. Q[1] = P[1] \o P[2]
  <2>1. 1 \in 1 .. Len(t) - w /\ 1 + 1 = 2
    BY <1>1
  <2>2. P[2] = t[w + 1]
    BY <2>1, <1>4
  <2> QED
    BY <2>2 DEF Parts
<1>7. ASSUME NEW k \in 2 .. Len(Q)
      PROVE  Q[k] = P[k + 1]
  <2>1. CASE k - 1 \in 1 .. Len(t) - (w + 1)
    <3>1. k = (k - 1) + 1 /\ k \in 1 .. Len(t) - w /\ w + 1 + (k - 1) = w + k
      BY <2>1, <1>1
    <3>2. Q[(k - 1) + 1] = t[w + 1 + (k - 1)]
      BY <2>1, <1>5
    <3>3. P[k + 1] = t[w + k]
      BY <3>1, <1>4
    <3> QED
      BY <3>1, <3>2, <3>3
  <2>2. CASE k - 1 - (Len(t) - (w + 1)) \in 1 .. Len(b)
    <3> DEFINE j == k - 1 - (Len(t) - (w + 1))
    <3>1. k = Len(t) - (w + 1) + j + 1 /\ k + 1 = Len(t) - w + j + 1
      BY <1>1
    <3>2. P[Len(t) - w + j + 1] = b[j] /\ Q[Len(t) - (w + 1) + j + 1] = b[j]
      BY <2>2 DEF Parts
    <3> QED
      BY <3>1, <3>2
  <2>3. CASE k = Len(Q)
    <3>1. k + 1 = Len(P)
      BY <2>3, <1>1, <1>2
    <3> QED
      BY <2>3, <3>1 DEF Parts
  <2>4. \/ k - 1 \in 1 .. Len(t) - (w + 1)
        \/ k - 1 - (Len(t) - (w + 1)) \in 1 .. Len(b) \/ k = Len(t) - (w + 1) + Len(b) + 2
    <3>1. k \in 2 .. Len(t) - (w + 1) + Len(b) + 2
      BY <1>2
    <3>2. ASSUME NEW n \in Nat, NEW l \in Nat, NEW i \in 2 .. n + l + 2
          PROVE  i - 1 \in 1 .. n \/ i - 1 - n \in 1 .. l \/ i = n + l + 2
      OBVIOUS
    <3>3. Len(t) - (w + 1) \in Nat
      BY <1>1
    <3> QED
      BY <1>1, <3>1, <3>2, <3>3
  <2> QED
    BY <2>1, <2>2, <2>3, <2>4, <1>2
<1> QED
  BY <1>3, <1>6, <1>7 DEF Merges

(* All buffers written: nothing is between the file and the full ones.     *)
LEMMA NoneLeftParts ==
    ASSUME NEW f, NEW t \in Seq(Seq(Line)), NEW b \in Seq(Seq(Line)), NEW c, NEW P, NEW Q,
           Parts(f, t, Len(t), b, c, P), Parts(f, << >>, 0, b, c, Q)
    PROVE  Q = P
<1>1. /\ Len(t) \in Nat /\ Len(b) \in Nat /\ Len(t) - Len(t) = 0
      /\ Len(<< >>) = 0 /\ 0 - 0 = 0
  OBVIOUS
<1>2. /\ Len(P) = 0 + Len(b) + 2 /\ Len(Q) = 0 + Len(b) + 2
      /\ P \in Seq(Seq(Line)) /\ Q \in Seq(Seq(Line))
  BY <1>1 DEF Parts
<1>3. \A j \in 1 .. Len(b) : P[0 + j + 1] = b[j] /\ Q[0 + j + 1] = b[j]
  BY <1>1 DEF Parts
<1>4. P[1] = f /\ Q[1] = f /\ P[Len(P)] = c /\ Q[Len(Q)] = c
  BY DEF Parts
<1>5. ASSUME NEW k \in 1 .. Len(P)
      PROVE  Q[k] = P[k]
  <2>1. CASE k = 1
    BY <2>1, <1>4
  <2>2. CASE k - 1 \in 1 .. Len(b)
    <3>1. k = 0 + (k - 1) + 1
      BY <1>1, <1>2
    <3>2. P[0 + (k - 1) + 1] = b[k - 1] /\ Q[0 + (k - 1) + 1] = b[k - 1]
      BY <2>2, <1>3
    <3> QED
      BY <3>1, <3>2
  <2>3. CASE k = Len(P)
    BY <2>3, <1>2, <1>4
  <2> QED
    BY <2>1, <2>2, <2>3, <1>1, <1>2
<1> QED
  BY <1>2, <1>5

(* Where a chunk was before n - 2 of the chunks after the third were left  *)
(* out, with l + 1 chunks after them.                                      *)
Place(n, k) == IF k <= 3 THEN k ELSE k + n - 2

(* Every chunk that stayed has one place before, in the same order, and it *)
(* is none of a chunk that was left out.                                   *)
LEMMA Places ==
    ASSUME NEW n \in Nat, n > 2, NEW l \in Nat
    PROVE  /\ \A k \in 1 .. l + 4 : Place(n, k) \in 1 .. n + l + 2
           /\ \A k, m \in 1 .. l + 4 : k < m => Place(n, k) < Place(n, m)
           /\ \A k \in 1 .. l + 4, i \in 3 .. n :
                 Place(n, k) < i + 1 \/ i + 1 < Place(n, k)
           /\ \A a \in 1 .. n + l + 2 :
                 a - 1 \notin 3 .. n => \E k \in 1 .. l + 4 : Place(n, k) = a
<1>1. \A k \in 1 .. l + 4 : Place(n, k) \in 1 .. n + l + 2
  BY DEF Place
<1>2. \A k, m \in 1 .. l + 4 : k < m => Place(n, k) < Place(n, m)
  BY DEF Place
<1>3. \A k \in 1 .. l + 4, i \in 3 .. n : Place(n, k) < i + 1 \/ i + 1 < Place(n, k)
  BY DEF Place
<1>4. ASSUME NEW a \in 1 .. n + l + 2, a - 1 \notin 3 .. n
      PROVE  \E k \in 1 .. l + 4 : Place(n, k) = a
  <2>1. CASE a <= 3
    <3>1. a \in 1 .. l + 4 /\ Place(n, a) = a
      BY <2>1 DEF Place
    <3> QED
      BY <3>1
  <2>2. CASE a > 3
    <3>1. a - n + 2 \in 1 .. l + 4 /\ Place(n, a - n + 2) = a
      BY <2>2, <1>4 DEF Place
    <3> QED
      BY <3>1
  <2> QED
    BY <2>1, <2>2
<1> QED
  BY <1>1, <1>2, <1>3, <1>4

(* All but the first two buffers dropped.                                  *)
Leaves(t, b, P, Q) ==
    /\ Len(P) = Len(t) + Len(b) + 2 /\ Len(Q) = Len(b) + 4
    /\ \A k \in 1 .. Len(Q) : Q[k] = P[Place(Len(t), k)]
    /\ \A k \in 1 .. Len(t) : P[k + 1] = t[k]

(* Dropping leaves the chunks named by Place.                              *)
LEMMA DroppedParts ==
    ASSUME NEW f, NEW t \in Seq(Seq(Line)), Len(t) > 2, NEW b \in Seq(Seq(Line)), NEW c,
           NEW P, NEW Q, Parts(f, t, 0, b, c, P), Parts(f, SubSeq(t, 1, 2), 0, b, c, Q)
    PROVE  Leaves(t, b, P, Q)
<1>1. /\ Len(t) \in Nat /\ Len(b) \in Nat /\ Len(SubSeq(t, 1, 2)) = 2
      /\ SubSeq(t, 1, 2)[1] = t[1] /\ SubSeq(t, 1, 2)[2] = t[2]
  OBVIOUS
<1>2. Len(P) = Len(t) + Len(b) + 2 /\ Len(Q) = Len(b) + 4
  <2>1. Len(P) = Len(t) - 0 + Len(b) + 2 /\ Len(Q) = 2 - 0 + Len(b) + 2
    BY <1>1 DEF Parts
  <2> QED
    BY <2>1, <1>1
<1>3. ASSUME NEW k \in 1 .. Len(t)
      PROVE  P[k + 1] = t[k]
  <2>1. k \in 1 .. Len(t) - 0 /\ 0 + k = k
    BY <1>1
  <2>2. P[k + 1] = t[0 + k]
    BY <2>1 DEF Parts
  <2> QED
    BY <2>1, <2>2
<1>4. ASSUME NEW k \in 1 .. 2
      PROVE  Q[k + 1] = t[k]
  <2>1. k \in 1 .. 2 - 0 /\ 0 + k = k
    OBVIOUS
  <2>2. Q[k + 1] = SubSeq(t, 1, 2)[0 + k]
    BY <2>1, <1>1 DEF Parts
  <2>3. k = 1 \/ k = 2
    OBVIOUS
  <2> QED
    BY <2>1, <2>2, <2>3, <1>1
<1>5. ASSUME NEW j \in 1 .. Len(b)
      PROVE  P[Len(t) + j + 1] = b[j] /\ Q[j + 3] = b[j]
  <2>1. P[Len(t) - 0 + j + 1] = b[j] /\ Q[2 - 0 + j + 1] = b[j]
    BY <1>1 DEF Parts
  <2>2. Len(t) - 0 = Len(t) /\ 2 - 0 + j + 1 = j + 3
    BY <1>1
  <2> QED
    BY <2>1, <2>2
<1>6. P[1] = f /\ Q[1] = f /\ P[Len(P)] = c /\ Q[Len(Q)] = c
  BY DEF Parts
<1>7. ASSUME NEW k \in 1 .. Len(Q)
      PROVE  Q[k] = P[Place(Len(t), k)]
  <2> USE DEF Place
  <2>1. CASE k = 1
    BY <2>1, <1>6
  <2>2. CASE k - 1 \in 1 .. 2
    <3>1. k = (k - 1) + 1 /\ k <= 3 /\ k - 1 \in 1 .. Len(t)
      BY <2>2, <1>1, <1>2
    <3>2. Q[(k - 1) + 1] = P[(k - 1) + 1]
      BY <2>2, <3>1, <1>3, <1>4
    <3> QED
      BY <3>1, <3>2
  <2>3. CASE k - 3 \in 1 .. Len(b)
    <3>1. /\ k = (k - 3) + 3 /\ ~ (k <= 3)
          /\ Len(t) + (k - 3) + 1 = k + Len(t) - 2
      BY <2>3, <1>1, <1>2
    <3>2. Q[(k - 3) + 3] = P[Len(t) + (k - 3) + 1]
      BY <2>3, <1>5
    <3> QED
      BY <3>1, <3>2
  <2>4. CASE k = Len(Q)
    <3>1. ~ (k <= 3) /\ Len(P) = k + Len(t) - 2
      BY <2>4, <1>1, <1>2
    <3> QED
      BY <2>4, <3>1, <1>6
  <2>5. k = 1 \/ k - 1 \in 1 .. 2 \/ k - 3 \in 1 .. Len(b) \/ k = Len(Q)
    BY <1>1, <1>2
  <2> QED
    BY <2>1, <2>2, <2>3, <2>4, <2>5
<1> QED
  BY <1>2, <1>3, <1>7 DEF Leaves

(* No line is in two chunks if none is twice in the order.                 *)
LEMMA InOneChunk ==
    ASSUME NEW P, NEW s \in Seq(Line), InOrder(P, s),
           \A i, j \in DOMAIN s : s[i] = s[j] => i = j,
           NEW a \in DOMAIN P, NEW b \in DOMAIN P, a < b,
           NEW x, x \in Range(P[a]), x \in Range(P[b])
    PROVE  FALSE
<1>1. PICK i \in DOMAIN P[a] : x = P[a][i]
  BY DEF Range
<1>2. PICK j \in DOMAIN P[b] : x = P[b][j]
  BY DEF Range
<1>3. Before(s, x, x)
  BY <1>1, <1>2 DEF InOrder
<1>4. PICK m, n \in DOMAIN s : m < n /\ s[m] = x /\ s[n] = x
  BY <1>3 DEF Before
<1>5. m = n
  BY <1>4
<1> QED
  BY <1>4, <1>5

(* What is left in order when all but two buffers are dropped: all lines   *)
(* but those of the dropped buffers.                                       *)
LEMMA DroppedInOrder ==
    ASSUME NEW f, NEW t \in Seq(Seq(Line)), Len(t) > 2, NEW b \in Seq(Seq(Line)), NEW c,
           NEW P, NEW Q, Parts(f, t, 0, b, c, P), Parts(f, SubSeq(t, 1, 2), 0, b, c, Q),
           NEW s \in Seq(Line), InOrder(P, s), \A i, j \in DOMAIN s : s[i] = s[j] => i = j
    PROVE  /\ InOrder(Q, s)
           /\ Lines(Q) = Lines(P) \ UNION {Range(t[i]) : i \in 3 .. Len(t)}
           /\ UNION {Range(t[i]) : i \in 3 .. Len(t)} \subseteq Lines(P)
<1> DEFINE n == Len(t)
           l == Len(b)
           from == [k \in DOMAIN Q |-> Place(n, k)]
<1>1. Leaves(t, b, P, Q)
  BY DroppedParts, Zenon
<1>2. /\ n \in Nat /\ n > 2 /\ l \in Nat
      /\ P \in Seq(Seq(Line)) /\ Q \in Seq(Seq(Line))
      /\ DOMAIN P = 1 .. n + l + 2 /\ DOMAIN Q = 1 .. l + 4
  <2>1. P \in Seq(Seq(Line)) /\ Q \in Seq(Seq(Line))
    BY DEF Parts
  <2>2. DOMAIN P = 1 .. Len(P) /\ DOMAIN Q = 1 .. Len(Q)
    BY <2>1
  <2>3. n \in Nat /\ n > 2 /\ l \in Nat
    OBVIOUS
  <2> QED
    BY <2>1, <2>2, <2>3, <1>1 DEF Leaves
<1>3. \A k \in DOMAIN Q : Q[k] = P[Place(n, k)]
  BY <1>1, <1>2 DEF Leaves
<1>4. \A k \in 1 .. n : P[k + 1] = t[k]
  BY <1>1 DEF Leaves
<1> HIDE DEF n, l
<1>5. from \in [DOMAIN Q -> DOMAIN P]
  BY <1>2, Places
<1>6. \A k, m \in DOMAIN Q : k < m => from[k] < from[m]
  BY <1>2, Places
<1>7. \A k \in DOMAIN Q : Q[k] = P[from[k]]
  BY <1>3
<1>8. from \in [DOMAIN Q -> DOMAIN P] /\ \A k \in DOMAIN Q : from[k] = Place(n, k)
  BY <1>5
<1> HIDE DEF from
<1>9. InOrder(Q, s)
  BY <1>2, <1>6, <1>7, <1>8, KeepChunks
<1>10. ASSUME NEW x, x \in Lines(Q)
      PROVE  x \in Lines(P) /\ \A i \in 3 .. n : x \notin Range(t[i])
  <2>1. PICK k \in DOMAIN Q : x \in Range(Q[k])
    BY <1>10 DEF Lines
  <2>2. from[k] \in DOMAIN P /\ x \in Range(P[from[k]])
    BY <2>1, <1>7, <1>8
  <2>3. x \in Lines(P)
    BY <2>2 DEF Lines
  <2>4. ASSUME NEW i \in 3 .. n, x \in Range(t[i])
        PROVE  FALSE
    <3>1. i + 1 \in DOMAIN P /\ x \in Range(P[i + 1])
      <4>1. i \in 1 .. n /\ i + 1 \in 1 .. n + l + 2
        BY <1>2
      <4> QED
        BY <4>1, <1>2, <1>4, <2>4
    <3>2. from[k] < i + 1 \/ i + 1 < from[k]
      <4>1. Place(n, k) < i + 1 \/ i + 1 < Place(n, k)
        BY <1>2, Places
      <4> QED
        BY <4>1, <1>8
    <3>3. ASSUME from[k] < i + 1
          PROVE  FALSE
      BY <3>1, <3>3, <2>2, InOneChunk
    <3>4. ASSUME i + 1 < from[k]
          PROVE  FALSE
      BY <3>1, <3>4, <2>2, InOneChunk
    <3> QED
      BY <3>2, <3>3, <3>4
  <2> QED
    BY <2>3, <2>4
<1>11. ASSUME NEW x, x \in Lines(P), x \notin UNION {Range(t[i]) : i \in 3 .. n}
       PROVE  x \in Lines(Q)
  <2>1. PICK a \in DOMAIN P : x \in Range(P[a])
    BY <1>11 DEF Lines
  <2>2. ~ (a - 1 \in 3 .. n)
    <3> SUFFICES ASSUME a - 1 \in 3 .. n
                 PROVE  FALSE
      OBVIOUS
    <3>1. a - 1 \in 1 .. n /\ (a - 1) + 1 = a
      <4>1. a \in 1 .. n + l + 2
        BY <1>2
      <4>2. n \in Nat /\ a - 1 \in 3 .. n
        BY <1>2
      <4> QED
        BY ONLY <4>1, <4>2
    <3>2. P[(a - 1) + 1] = t[a - 1]
      BY <3>1, <1>4
    <3>3. x \in Range(t[a - 1])
      BY <3>1, <3>2, <2>1
    <3> QED
      BY <3>3, <1>11
  <2>3. PICK k \in DOMAIN Q : Place(n, k) = a
    BY <2>2, <1>2, Places
  <2>4. Q[k] = P[a]
    BY <2>3, <1>3
  <2> QED
    BY <2>1, <2>4 DEF Lines
<1>12. ASSUME NEW i \in 3 .. n, NEW x \in Range(t[i])
       PROVE  x \in Lines(P)
  <2>1. i \in 1 .. n /\ i + 1 \in 1 .. n + l + 2
    BY <1>2
  <2>2. i + 1 \in DOMAIN P /\ x \in Range(P[i + 1])
    BY <2>1, <1>2, <1>4
  <2> QED
    BY <2>2 DEF Lines
<1> QED
  BY <1>9, <1>10, <1>11, <1>12 DEF n
-----------------------------------------------------------------------------
(* No line is lost, doubled or overtaken on its way to the file.           *)

Once == \A i, j \in DOMAIN appended : appended[i] = appended[j] => i = j

(* A line is dropped only after it was appended.                           *)
KeptInv == KeptInOrder /\ Once /\ dropped \subseteq Range(appended)

(* What append() does to the lines appended.                               *)
LEMMA AppendedOnce ==
    ASSUME appended \in Seq(Line), Once, NEW m \in Line, Appending(m)
    PROVE  /\ appended' = appended \o <<m>> /\ <<m>> \in Seq(Line)
           /\ Once' /\ Range(appended') = Range(appended) \cup {m}
           /\ Range(<<m>>) = {m} /\ m \notin Range(appended)
<1>1. /\ appended' = Append(appended, m) /\ m \notin Range(appended)
      /\ Len(appended) \in Nat /\ DOMAIN appended = 1 .. Len(appended)
  BY DEF Appending
<1>2. /\ DOMAIN appended' = 1 .. Len(appended) + 1
      /\ \A i \in DOMAIN appended : appended'[i] = appended[i]
      /\ appended'[Len(appended) + 1] = m
  BY <1>1
<1>3. appended' = appended \o <<m>> /\ <<m>> \in Seq(Line)
  BY <1>1
<1>4. Range(<<m>>) = {m}
  BY DEF Range
<1>5. ASSUME NEW i \in DOMAIN appended', NEW j \in DOMAIN appended',
             appended'[i] = appended'[j]
      PROVE  i = j
  <2>1. \A k \in DOMAIN appended : appended[k] # m
    BY <1>1 DEF Range
  <2>2. i \in DOMAIN appended \/ i = Len(appended) + 1
    BY <1>1, <1>2
  <2>3. j \in DOMAIN appended \/ j = Len(appended) + 1
    BY <1>1, <1>2
  <2>4. CASE i \in DOMAIN appended /\ j \in DOMAIN appended
    BY <2>4, <1>2, <1>5 DEF Once
  <2>5. CASE i \in DOMAIN appended /\ j = Len(appended) + 1
    BY <2>5, <2>1, <1>2, <1>5
  <2>6. CASE i = Len(appended) + 1 /\ j \in DOMAIN appended
    BY <2>6, <2>1, <1>2, <1>5
  <2> QED
    BY <2>2, <2>3, <2>4, <2>5, <2>6
<1>6. Range(appended') = Range(appended) \cup {m}
  <2>1. ASSUME NEW x \in Range(appended')
        PROVE  x \in Range(appended) \cup {m}
    <3>1. PICK i \in DOMAIN appended' : x = appended'[i]
      BY DEF Range
    <3>2. i \in DOMAIN appended \/ i = Len(appended) + 1
      BY <1>1, <1>2
    <3> QED
      BY <3>1, <3>2, <1>2 DEF Range
  <2>2. m \in Range(appended')
    <3>1. Len(appended) + 1 \in DOMAIN appended'
      BY <1>1, <1>2
    <3> QED
      BY <3>1, <1>2 DEF Range
  <2>3. ASSUME NEW x \in Range(appended)
        PROVE  x \in Range(appended')
    <3>1. PICK i \in DOMAIN appended : x = appended[i]
      BY DEF Range
    <3>2. i \in DOMAIN appended'
      BY <1>1, <1>2
    <3> QED
      BY <3>1, <3>2, <1>2 DEF Range
  <2> QED
    BY <2>1, <2>2, <2>3
<1> QED
  BY <1>1, <1>3, <1>4, <1>5, <1>6 DEF Once

(* Lines added to the last chunk of a pipeline.                            *)
LEMMA LineAppended ==
    ASSUME NEW P \in Seq(Seq(Line)), P # << >>, NEW Q \in Seq(Seq(Line)), Len(Q) = Len(P),
           NEW t \in Seq(Line), NEW s \in Seq(Line),
           \A k \in 1 .. Len(P) - 1 : Q[k] = P[k],
           Q[Len(Q)] = P[Len(P)] \o t,
           InOrder(P, s), Lines(P) \subseteq Range(s)
    PROVE  InOrder(Q, s \o t) /\ Lines(Q) = Lines(P) \cup Range(t)
<1> DEFINE n == Len(P)
           I == 1 .. n
<1>1. n \in Nat /\ n >= 1 /\ I \in SUBSET Nat /\ n \in I
  OBVIOUS
<1>2. P \in [I -> Seq(Line)] /\ Q \in [I -> Seq(Line)]
  OBVIOUS
<1>3. \A k \in 1 .. n - 1 : Q[k] = P[k]
  OBVIOUS
<1>4. Q[n] = P[n] \o t
  OBVIOUS
<1> HIDE DEF n
<1>5. \A a \in I : a > n => P[a] = << >>
  BY <1>1
<1>6. \A a \in I : a # n => Q[a] = P[a]
  BY <1>1, <1>3
<1> HIDE DEF I
<1>7. AddsLines(I, P, Q, n, s, t)
  BY <1>1, <1>2, <1>4, <1>5, <1>6 DEF AddsLines
<1> QED
  BY <1>7, AddLines

(* No step loses, doubles or reorders a line.                              *)
LEMMA KeptStep == TypeOK /\ TypeOK' /\ IInv /\ KeptInv /\ [Next]_vars => KeptInv'
<1> SUFFICES ASSUME TypeOK, TypeOK', IInv, KeptInv, [Next]_vars
             PROVE  KeptInv'
  OBVIOUS
<1>1. PICK P : P = Pipeline
  OBVIOUS
<1>2. PICK Q : Q = Pipeline'
  OBVIOUS
<1>3. /\ file \in Seq(Line) /\ toWrite \in Seq(Seq(Line)) /\ wrote \in 0 .. Len(toWrite)
      /\ buffers \in Seq(Seq(Line)) /\ current \in Seq(Line) /\ appended \in Seq(Line)
  BY DEF TypeOK, Buffer
<1>4. /\ file' \in Seq(Line) /\ toWrite' \in Seq(Seq(Line)) /\ wrote' \in 0 .. Len(toWrite')
      /\ buffers' \in Seq(Seq(Line)) /\ current' \in Seq(Line)
  BY DEF TypeOK, Buffer
<1>5. Parts(file, toWrite, wrote, buffers, current, P)
  BY <1>1, <1>3, PipelineParts DEF Pipeline
<1>6. Parts(file', toWrite', wrote', buffers', current', Q)
  BY <1>2, <1>4, PipelineParts DEF Pipeline
<1>7. P \in Seq(Seq(Line)) /\ Q \in Seq(Seq(Line)) /\ P # << >>
  <2>1. P \in Seq(Seq(Line)) /\ Q \in Seq(Seq(Line)) /\ P[Len(P)] = current
    BY <1>5, <1>6 DEF Parts
  <2>2. Len(P) = Len(toWrite) - wrote + Len(buffers) + 2
    BY <1>5 DEF Parts
  <2>3. Len(P) # 0
    BY <2>2, <1>3
  <2> QED
    BY <2>1, <2>3
<1>8. InOrder(P, appended) /\ Lines(P) = Range(appended) \ dropped
  BY <1>1 DEF KeptInv, KeptInOrder
<1>9. Once /\ dropped \subseteq Range(appended)
  BY DEF KeptInv
<1>10. ASSUME InOrder(Q, appended'), Lines(Q) = Range(appended') \ dropped',
              Once', dropped' \subseteq Range(appended')
       PROVE  KeptInv'
  BY <1>2, <1>10 DEF KeptInv, KeptInOrder
<1>11. ASSUME Q = P, UNCHANGED <<appended, dropped>>
       PROVE  KeptInv'
  <2>1. Once'
    BY <1>9, <1>11 DEF Once
  <2> QED
    BY <2>1, <1>8, <1>9, <1>10, <1>11
<1>12. ASSUME NEW m \in Line, NEW R \in Seq(Seq(Line)), R # << >>, Len(Q) = Len(R),
              \A k \in 1 .. Len(R) - 1 : Q[k] = R[k], Q[Len(Q)] = R[Len(R)] \o <<m>>,
              InOrder(R, appended), Lines(R) = Lines(P), Appending(m), UNCHANGED dropped
       PROVE  KeptInv'
  <2>1. /\ appended' = appended \o <<m>> /\ <<m>> \in Seq(Line)
        /\ Once' /\ Range(appended') = Range(appended) \cup {m}
        /\ Range(<<m>>) = {m} /\ m \notin Range(appended)
    BY <1>3, <1>9, <1>12, AppendedOnce
  <2>2. PICK t : t = <<m>>
    OBVIOUS
  <2>3. t \in Seq(Line) /\ Q[Len(Q)] = R[Len(R)] \o t
    BY <2>1, <2>2, <1>12
  <2>4. Lines(R) \subseteq Range(appended)
    BY <1>8, <1>12
  <2>5. InOrder(Q, appended \o t) /\ Lines(Q) = Lines(R) \cup Range(t)
    BY <2>3, <2>4, <1>3, <1>7, <1>12, LineAppended
  <2>6. Lines(Q) = Range(appended') \ dropped'
    BY <2>1, <2>2, <2>5, <1>8, <1>9, <1>12
  <2> QED
    BY <2>1, <2>2, <2>5, <2>6, <1>9, <1>10, <1>12
<1>13. ASSUME NEW m \in Line, AppendFits(m)
       PROVE  KeptInv'
  <2>1. /\ UNCHANGED <<file, toWrite, wrote, buffers, dropped>> /\ Appending(m)
        /\ current' = Append(current, m)
    BY <1>13 DEF AppendFits, back
  <2>2. Parts(file, toWrite, wrote, buffers, current', Q)
    BY <2>1, <1>6
  <2>3. Len(Q) = Len(P) /\ \A k \in 1 .. Len(P) - 1 : Q[k] = P[k]
    BY <2>2, <1>3, <1>5, SameMiddle
  <2>4. Q[Len(Q)] = current' /\ P[Len(P)] = current
    BY <2>2, <1>5 DEF Parts
  <2>5. current' = current \o <<m>>
    BY <2>1, <1>3
  <2> QED
    BY <2>1, <2>3, <2>4, <2>5, <1>7, <1>8, <1>12
<1>14. ASSUME NEW m \in Line, AppendFull(m)
       PROVE  KeptInv'
  <2>1. /\ UNCHANGED <<file, toWrite, wrote, dropped>> /\ Appending(m)
        /\ buffers' = Append(buffers, current)
    BY <1>14 DEF AppendFull, back
  <2>2. current' = << >> \o <<m>>
    <3>1. current' = Append(<< >>, m)
      BY <1>14 DEF AppendFull, TypeOK
    <3>2. << >> \in Seq(Line)
      OBVIOUS
    <3> QED
      BY <3>1, <3>2
  <2>3. Parts(file, toWrite, wrote, Append(buffers, current), current', Q)
    BY <2>1, <1>6
  <2>4. /\ Len(Q) = Len(P) + 1 /\ Q[Len(Q)] = current'
        /\ \A k \in 1 .. Len(P) : Q[k] = P[k]
    BY <2>3, <1>3, <1>5, QueuedParts
  <2>5. PICK R : R = Append(P, << >>)
    OBVIOUS
  <2>6. /\ R \in Seq(Seq(Line)) /\ R # << >> /\ Len(R) = Len(P) + 1 /\ R[Len(R)] = << >>
        /\ \A k \in 1 .. Len(P) : R[k] = P[k]
    <3>1. << >> \in Seq(Line)
      OBVIOUS
    <3>2. PICK e \in Seq(Line) : e = << >>
      BY <3>1, Zenon
    <3>3. R = Append(P, e)
      BY <2>5, <3>2
    <3>4. /\ R \in Seq(Seq(Line)) /\ Len(R) = Len(P) + 1 /\ R[Len(P) + 1] = e
          /\ \A k \in 1 .. Len(P) : R[k] = P[k]
      BY <3>3, <1>7
    <3>5. R # << >>
      BY <3>4, <1>7
    <3> QED
      BY <3>2, <3>4, <3>5
  <2>7. AddsEmpty(P, R)
    BY <2>6 DEF AddsEmpty
  <2>8. InOrder(R, appended) /\ Lines(R) = Lines(P)
    BY <2>6, <2>7, <1>7, <1>8, EmptyChunk
  <2>9. Len(Q) = Len(R) /\ Len(R) - 1 = Len(P)
    BY <2>4, <2>6, <1>7
  <2>10. \A k \in 1 .. Len(R) - 1 : Q[k] = R[k]
    BY <2>4, <2>6, <2>9
  <2>11. Q[Len(Q)] = R[Len(R)] \o <<m>>
    BY <2>2, <2>4, <2>6
  <2> QED
    BY <2>1, <2>6, <2>8, <2>9, <2>10, <2>11, <1>12
<1>15. CASE Swap
  <2>1. pc \in {"swap", "lock"}
    BY <1>15 DEF Swap
  <2>2. toWrite = << >> /\ wrote = 0
    <3>1. toWrite = << >>
      BY <2>1 DEF IInv, AssertionsHold
    <3>2. wrote = 0
      BY <2>1 DEF TypeOK
    <3> QED
      BY <3>1, <3>2
  <2>3. /\ toWrite' = Append(buffers, current) /\ buffers' = << >> /\ wrote' = 0
        /\ UNCHANGED <<file, appended, dropped>>
    BY <1>15, <2>2 DEF Swap
  <2>4. current' = << >>
    BY <1>15 DEF Swap, TypeOK
  <2>5. Parts(file, << >>, 0, buffers, current, P)
    BY <2>2, <1>5
  <2>6. Parts(file, Append(buffers, current), 0, << >>, << >>, Q)
    BY <2>3, <2>4, <1>6
  <2>7. AddsEmpty(P, Q)
    BY <2>5, <2>6, <1>3, TakenParts
  <2>8. InOrder(Q, appended) /\ Lines(Q) = Lines(P)
    BY <2>7, <1>7, <1>8, EmptyChunk
  <2>9. Once'
    BY <2>3, <1>9 DEF Once
  <2> QED
    BY <2>3, <2>8, <2>9, <1>8, <1>9, <1>10
<1>16. CASE Drop
  <2>1. /\ pc = "write" /\ toWrite' = Kept
        /\ UNCHANGED <<file, wrote, buffers, current, appended>>
        /\ dropped' = dropped \cup UNION {Range(toWrite[i]) :
                                          i \in Len(Kept) + 1 .. Len(toWrite)}
    BY <1>16 DEF Drop, front
  <2>2. wrote = 0
    BY <2>1 DEF TypeOK
  <2>3. Once'
    BY <2>1, <1>9 DEF Once
  <2>4. CASE Len(toWrite) > DropLimit
    <3>1. Kept = SubSeq(toWrite, 1, 2) /\ Len(toWrite) > 2
      BY <2>4, <1>3, DropAssumption DEF Kept
    <3>2. Len(Kept) + 1 = 3
      BY <3>1, <1>3
    <3>3. dropped' = dropped \cup UNION {Range(toWrite[i]) : i \in 3 .. Len(toWrite)}
      BY <2>1, <3>2
    <3>4. Parts(file, toWrite, 0, buffers, current, P)
      BY <2>2, <1>5
    <3>5. Parts(file, SubSeq(toWrite, 1, 2), 0, buffers, current, Q)
      BY <2>1, <2>2, <3>1, <1>6
    <3>6. \A i, j \in DOMAIN appended : appended[i] = appended[j] => i = j
      BY <1>9 DEF Once
    <3>7. /\ InOrder(Q, appended)
          /\ Lines(Q) = Lines(P) \ UNION {Range(toWrite[i]) : i \in 3 .. Len(toWrite)}
          /\ UNION {Range(toWrite[i]) : i \in 3 .. Len(toWrite)} \subseteq Lines(P)
      BY <3>1, <3>4, <3>5, <3>6, <1>3, <1>8, DroppedInOrder
    <3>8. Lines(Q) = Range(appended') \ dropped'
      BY <2>1, <3>3, <3>7, <1>8
    <3>9. dropped' \subseteq Range(appended')
      BY <2>1, <3>3, <3>7, <1>8, <1>9
    <3> QED
      BY <2>1, <2>3, <3>7, <3>8, <3>9, <1>10
  <2>5. CASE ~ (Len(toWrite) > DropLimit)
    <3>1. Kept = toWrite
      BY <2>5 DEF Kept
    <3>2. Len(Kept) + 1 .. Len(toWrite) = {}
      BY <3>1, <1>3
    <3>3. dropped' = dropped
      BY <2>1, <3>2
    <3>4. Q = P
      BY <2>1, <3>1, <1>1, <1>2 DEF Pipeline
    <3> QED
      BY <2>1, <3>3, <3>4, <1>11
  <2> QED
    BY <2>4, <2>5
<1>17. CASE AppendBuffer
  <2>1. /\ wrote < Len(toWrite) /\ file' = file \o toWrite[wrote + 1] /\ wrote' = wrote + 1
        /\ UNCHANGED <<toWrite, buffers, current, appended, dropped>>
    BY <1>17 DEF AppendBuffer, front
  <2>2. Parts(file \o toWrite[wrote + 1], toWrite, wrote + 1, buffers, current, Q)
    BY <2>1, <1>6
  <2>3. Merges(P, Q)
    BY <2>1, <2>2, <1>3, <1>5, WrittenParts
  <2>4. InOrder(Q, appended) /\ Lines(Q) = Lines(P)
    BY <2>3, <1>7, <1>8, MergeFirst
  <2>5. Once'
    BY <2>1, <1>9 DEF Once
  <2> QED
    BY <2>1, <2>4, <2>5, <1>8, <1>9, <1>10
<1>18. CASE Refill
  <2>1. /\ wrote = Len(toWrite) /\ toWrite' = << >> /\ wrote' = 0
        /\ UNCHANGED <<file, buffers, current, appended, dropped>>
    BY <1>18 DEF Refill, front
  <2>2. Parts(file, toWrite, Len(toWrite), buffers, current, P)
    BY <2>1, <1>5
  <2>3. Parts(file, << >>, 0, buffers, current, Q)
    BY <2>1, <1>6
  <2>4. Q = P
    BY <2>2, <2>3, <1>3, NoneLeftParts
  <2> QED
    BY <2>1, <2>4, <1>11
<1>19. ASSUME \/ Start \/ TestRunning \/ Wait \/ Timeout \/ UNCHANGED vars
              \/ \E s \in Stopper : Stop(s) \/ StopStep(s)
       PROVE  KeptInv'
  <2>1. UNCHANGED <<file, toWrite, wrote, buffers, current, appended, dropped>>
    BY <1>19 DEF Start, TestRunning, Wait, Timeout, vars, Stop, StopStep, NotifyAll,
                 AssertNotJoined, MarkJoined, Joined, Goes, front, back, ends
  <2>2. Q = P
    BY <2>1, <1>1, <1>2 DEF Pipeline
  <2> QED
    BY <2>1, <2>2, <1>11
<1> QED
  BY <1>13, <1>14, <1>15, <1>16, <1>17, <1>18, <1>19 DEF Next, FrontEnd, LoggingThread

(* The lines that were not dropped reach the file, each once and in the    *)
(* order in which append() returned.                                       *)
THEOREM LinesKeptInOrder == Spec => []KeptInOrder
<1>1. Init => KeptInv
  <2> SUFFICES ASSUME Init
               PROVE  KeptInv
    OBVIOUS
  <2>1. PICK P : P = Pipeline
    OBVIOUS
  <2>2. P = <<<< >>>> \o << >> \o << >> \o <<<< >>>>
    BY <2>1 DEF Init, Pipeline
  <2>3. \A a \in DOMAIN P : P[a] = << >>
    BY <2>2
  <2>4. InOrder(P, appended)
    BY <2>3 DEF InOrder
  <2>5. Lines(P) = {}
    BY <2>3 DEF Lines, Range
  <2>6. Range(appended) = {} /\ dropped = {}
    BY DEF Init, Range
  <2>7. Once
    BY DEF Init, Once
  <2> QED
    BY <2>1, <2>4, <2>5, <2>6, <2>7 DEF KeptInv, KeptInOrder
<1>2. KeptInv => KeptInOrder
  BY DEF KeptInv
<1>3. Init => IInv
  BY DEF Init, IInv, AssertionsHold, NextUsedMeansQueued, NotStarted
<1> QED
  BY <1>1, <1>2, <1>3, KeptStep, IInvStep, TypeCorrect, PTL DEF Spec
-----------------------------------------------------------------------------
(* What the files hold.                                                    *)

(* No buffer on its way to the file holds more than fits into one.         *)
NoneOverfull == /\ \A i \in DOMAIN buffers : Len(buffers[i]) <= BufferSize
                /\ \A i \in DOMAIN toWrite : Len(toWrite[i]) <= BufferSize

(* No step makes a full buffer larger than a buffer is.                    *)
LEMMA NoneOverfullStep == TypeOK /\ NoneOverfull /\ [Next]_vars => NoneOverfull'
<1> SUFFICES ASSUME TypeOK, NoneOverfull, [Next]_vars
             PROVE  NoneOverfull'
  OBVIOUS
<1>1. /\ buffers \in Seq(Buffer) /\ toWrite \in Seq(Buffer)
      /\ current \in Buffer /\ Len(current) <= BufferSize
  BY DEF TypeOK
<1>2. \A i \in DOMAIN Append(buffers, current) : Len(Append(buffers, current)[i]) <= BufferSize
  <2> SUFFICES ASSUME NEW i \in DOMAIN Append(buffers, current)
               PROVE  Len(Append(buffers, current)[i]) <= BufferSize
    OBVIOUS
  <2>1. CASE i \in DOMAIN buffers
    <3>1. Append(buffers, current)[i] = buffers[i]
      BY <2>1, <1>1
    <3> QED
      BY <2>1, <3>1 DEF NoneOverfull
  <2>2. CASE i \notin DOMAIN buffers
    <3>1. Append(buffers, current)[i] = current
      BY <2>2, <1>1
    <3> QED
      BY <3>1, <1>1
  <2> QED
    BY <2>1, <2>2
<1>3. \A i \in DOMAIN << >> : Len(<< >>[i]) <= BufferSize
  OBVIOUS
<1>4. ASSUME NEW m \in Line, AppendFits(m) \/ AppendFull(m)
      PROVE  NoneOverfull'
  BY <1>2, <1>4 DEF AppendFits, AppendFull, NoneOverfull, back
<1>5. CASE Swap
  BY <1>2, <1>3, <1>5 DEF Swap, NoneOverfull
<1>6. CASE Drop
  <2>1. toWrite' = Kept /\ UNCHANGED buffers
    BY <1>6 DEF Drop, front
  <2>2. \A i \in DOMAIN Kept : i \in DOMAIN toWrite /\ Kept[i] = toWrite[i]
    <3>1. CASE Len(toWrite) > DropLimit
      <4>1. Kept = SubSeq(toWrite, 1, 2) /\ Len(toWrite) > 2
        BY <3>1, <1>1, DropAssumption DEF Kept
      <4> QED
        BY <4>1, <1>1
    <3>2. CASE ~ (Len(toWrite) > DropLimit)
      BY <3>2 DEF Kept
    <3> QED
      BY <3>1, <3>2
  <2> QED
    BY <2>1, <2>2 DEF NoneOverfull
<1>7. CASE AppendBuffer
  BY <1>7 DEF AppendBuffer, NoneOverfull, front
<1>8. CASE Refill
  BY <1>3, <1>8 DEF Refill, NoneOverfull, front
<1>9. ASSUME \/ Start \/ TestRunning \/ Wait \/ Timeout \/ UNCHANGED vars
             \/ \E s \in Stopper : Stop(s) \/ StopStep(s)
      PROVE  NoneOverfull'
  <2>1. UNCHANGED <<buffers, toWrite>>
    BY <1>9 DEF Start, TestRunning, Wait, Timeout, vars, Stop, StopStep, NotifyAll,
                AssertNotJoined, MarkJoined, Joined, Goes, front, back, ends
  <2> QED
    BY <2>1 DEF NoneOverfull
<1> QED
  BY <1>4, <1>5, <1>6, <1>7, <1>8, <1>9 DEF Next, FrontEnd, LoggingThread

(* The file that is open: no later name is in use, and its size leaves     *)
(* room for what it may still get before it is rolled.                     *)
Room == RollSize + BufferSize

OpenFile(l) ==
    /\ log = {l} /\ l \in [name : 0 .. clock, written : 0 .. RollSize]
    /\ \A s \in Second : s > l.name => disk[s] = << >>
    /\ opened[l.name] >= 1
    /\ Len(disk[l.name]) <= (opened[l.name] - 1) * Room + l.written
    /\ \A s \in Second \ {l.name} : Len(disk[s]) <= opened[s] * Room

FilesInv ==
    /\ clock \in Second
    /\ disk \in [Second -> Seq(Line)] /\ opened \in [Second -> Nat]
    /\ InOrder(disk, file) /\ Lines(disk) = Range(file)
    /\ pc = "new" => \A s \in Second : disk[s] = << >>
    /\ pc # "new" => \E l : OpenFile(l)

(* The arithmetic of n times what a file may hold at most.                 *)
LEMMA RoomFor ==
    ASSUME NEW n \in Nat
    PROVE  n * Room \in Nat /\ (n + 1) * Room = n * Room + Room /\ Room \in Nat
           /\ Room = RollSize + BufferSize /\ RollSize \in Nat /\ BufferSize \in Nat
<1>1. Room \in Nat /\ RollSize \in Nat /\ BufferSize \in Nat
  BY RollSizeNat, SizeAssumption DEF Room
<1>2. ASSUME NEW r \in Nat
      PROVE  n * r \in Nat /\ (n + 1) * r = n * r + r
  OBVIOUS
<1> QED
  BY <1>1, <1>2 DEF Room

(* It is so when the logging thread has opened its first file ...          *)
LEMMA FilesStart == TypeOK /\ FilesInv /\ StartsLogger => FilesInv'
<1> SUFFICES ASSUME TypeOK, FilesInv, StartsLogger
             PROVE  FilesInv'
  OBVIOUS
<1>1. /\ clock \in Second /\ disk \in [Second -> Seq(Line)] /\ opened \in [Second -> Nat]
      /\ \A s \in Second : disk[s] = << >>
      /\ pc' # "new" /\ UNCHANGED <<clock, file>>
  BY DEF StartsLogger, Start, FilesInv
<1>2. /\ disk' = disk
      /\ log' = {[name |-> clock, written |-> 0]}
      /\ opened' = [opened EXCEPT ![clock] = @ + 1]
  BY DEF StartsLogger, SetFiles, RollFile, Files
<1>3. opened' \in [Second -> Nat] /\ opened'[clock] >= 1
  BY <1>1, <1>2
<1>4. PICK l : l = [name |-> clock, written |-> 0]
  OBVIOUS
<1>5. /\ l \in [name : 0 .. clock, written : 0 .. RollSize] /\ l.name = clock /\ l.written = 0
  BY <1>1, <1>4, RollSizeNat, MaxSecondNat DEF Second
<1>6. \A s \in Second : disk'[s] = << >> /\ Len(disk'[s]) = 0
  BY <1>1, <1>2
<1>7. Len(disk'[l.name]) <= (opened'[l.name] - 1) * Room + l.written
  <2>1. opened'[clock] - 1 \in Nat
    BY <1>1, <1>3
  <2>2. (opened'[clock] - 1) * Room \in Nat
    BY <2>1, RoomFor
  <2> QED
    BY <2>2, <1>1, <1>5, <1>6
<1>8. ASSUME NEW s \in Second
      PROVE  Len(disk'[s]) <= opened'[s] * Room
  <2>1. opened'[s] * Room \in Nat
    BY <1>3, RoomFor
  <2> QED
    BY <2>1, <1>6
<1>9. OpenFile(l)'
  BY <1>1, <1>2, <1>3, <1>4, <1>5, <1>6, <1>7, <1>8 DEF OpenFile
<1>10. InOrder(disk', file') /\ Lines(disk') = Range(file')
  BY <1>1, <1>2 DEF FilesInv
<1> QED
  BY <1>1, <1>2, <1>3, <1>9, <1>10 DEF FilesInv

(* ... when it writes a buffer, with and without rolling the file ...      *)
LEMMA FilesWrite == TypeOK /\ NoneOverfull /\ FilesInv /\ WritesFiles => FilesInv'
<1> SUFFICES ASSUME TypeOK, NoneOverfull, FilesInv, WritesFiles
             PROVE  FilesInv'
  OBVIOUS
<1>1. /\ clock \in Second /\ disk \in [Second -> Seq(Line)] /\ opened \in [Second -> Nat]
      /\ InOrder(disk, file) /\ Lines(disk) = Range(file) /\ file \in Seq(Line)
      /\ pc # "new" /\ pc' # "new" /\ clock' = clock
  BY DEF WritesFiles, AppendBuffer, FilesInv, TypeOK, Buffer
<1>2. PICK l : OpenFile(l)
  BY <1>1 DEF FilesInv
<1>3. PICK b : b = toWrite[wrote + 1]
  OBVIOUS
<1>4. b \in Seq(Line) /\ Len(b) <= BufferSize /\ Len(b) \in Nat /\ file' = file \o b
  <2>1. wrote + 1 \in DOMAIN toWrite /\ toWrite \in Seq(Seq(Line)) /\ file' = file \o b
    BY <1>3 DEF WritesFiles, AppendBuffer, TypeOK, Buffer
  <2>2. b \in Seq(Line) /\ Len(b) <= BufferSize
    BY <1>3, <2>1 DEF NoneOverfull
  <2> QED
    BY <2>1, <2>2
<1>5. /\ log = {l} /\ l.name \in Second /\ l.name \in 0 .. clock
      /\ l.written \in 0 .. RollSize /\ opened[l.name] >= 1
  BY <1>1, <1>2, MaxSecondNat DEF OpenFile, Second
<1>6. PICK w : w = l.written + Len(b)
  OBVIOUS
<1>7. PICK d : d = [disk EXCEPT ![l.name] = @ \o b]
  OBVIOUS
<1>8. /\ disk' = d
      /\ w > RollSize => /\ log' = {[name |-> clock, written |-> 0]}
                         /\ opened' = [opened EXCEPT ![clock] = @ + 1]
      /\ ~ (w > RollSize) => /\ log' = {[name |-> l.name, written |-> w]}
                             /\ opened' = opened
  <2>1. PICK f : f = Files
    OBVIOUS
  <2>2. /\ f = [disk |-> disk, log |-> log, opened |-> opened]
        /\ f.disk = disk /\ f.log = log /\ f.opened = opened
    BY <2>1 DEF Files
  <2>3. FileOf(f) = l
    BY <2>2, <1>5 DEF FileOf
  <2>4. PICK g : g = [f EXCEPT !.disk[l.name] = @ \o b,
                               !.log = {[name |-> l.name, written |-> w]}]
    OBVIOUS
  <2>5. g.disk = d /\ g.log = {[name |-> l.name, written |-> w]} /\ g.opened = opened
    BY <2>2, <2>4, <1>7
  <2>6. AppendToFile(f, b) = IF w > RollSize THEN RollFile(g) ELSE g
    BY <2>3, <2>4, <1>6 DEF AppendToFile
  <2>7. /\ RollFile(g).disk = d /\ RollFile(g).log = {[name |-> clock, written |-> 0]}
        /\ RollFile(g).opened = [opened EXCEPT ![clock] = @ + 1]
    BY <2>2, <2>4, <2>5 DEF RollFile
  <2>8. SetFiles(AppendToFile(f, b))
    BY <1>3, <2>1 DEF WritesFiles
  <2>9. CASE w > RollSize
    BY <2>6, <2>7, <2>8, <2>9 DEF SetFiles
  <2>10. CASE ~ (w > RollSize)
    BY <2>5, <2>6, <2>8, <2>10 DEF SetFiles
  <2> QED
    BY <2>9, <2>10
<1>9. /\ d \in [Second -> Seq(Line)] /\ d[l.name] = disk[l.name] \o b
      /\ \A s \in Second : s # l.name => d[s] = disk[s]
  <2>1. disk[l.name] \o b \in Seq(Line)
    BY <1>1, <1>4, <1>5
  <2> QED
    BY <2>1, <1>1, <1>5, <1>7
<1>10. InOrder(disk', file') /\ Lines(disk') = Range(file')
  <2>1. AddsLines(Second, disk, d, l.name, file, b)
    <3>1. Second \in SUBSET Nat
      BY MaxSecondNat DEF Second
    <3>2. \A s \in Second : s > l.name => disk[s] = << >>
      BY <1>2 DEF OpenFile
    <3> QED
      BY <3>1, <3>2, <1>1, <1>4, <1>5, <1>9 DEF AddsLines
  <2>2. InOrder(d, file \o b) /\ Lines(d) = Lines(disk) \cup Range(b)
    BY <2>1, AddLines
  <2>3. Range(file \o b) = Range(file) \cup Range(b)
    <3>1. PICK v : v = file \o b
      OBVIOUS
    <3>2. InTwoParts(file, b, v)
      BY <3>1, <1>1, <1>4, TwoParts
    <3>3. Range(v) = Range(file) \cup Range(b)
      BY <3>2 DEF InTwoParts, Range
    <3> QED
      BY <3>1, <3>3
  <2> QED
    BY <2>2, <2>3, <1>1, <1>4, <1>8
<1>11. /\ Len(d[l.name]) = Len(disk[l.name]) + Len(b)
       /\ Len(disk[l.name]) \in Nat
       /\ \A s \in Second : s > l.name => d[s] = << >>
  <2>1. Len(d[l.name]) = Len(disk[l.name]) + Len(b) /\ Len(disk[l.name]) \in Nat
    BY <1>1, <1>4, <1>5, <1>9
  <2>2. \A s \in Second : s > l.name => d[s] = << >>
    <3>1. \A s \in Second : s > l.name => s # l.name
      BY <1>5, MaxSecondNat DEF Second
    <3> QED
      BY <3>1, <1>2, <1>9 DEF OpenFile
  <2> QED
    BY <2>1, <2>2
<1>12. PICK k \in Nat : opened[l.name] = k + 1
  <2>1. opened[l.name] - 1 \in Nat /\ opened[l.name] = (opened[l.name] - 1) + 1
    BY <1>1, <1>5
  <2> QED
    BY <2>1
<1>13. /\ k * Room \in Nat /\ (k + 1) * Room = k * Room + Room
       /\ Room = RollSize + BufferSize /\ Room \in Nat /\ RollSize \in Nat /\ BufferSize \in Nat
  BY RoomFor
<1>14. Len(disk[l.name]) <= k * Room + l.written
  <2>1. opened[l.name] - 1 = k
    BY <1>12
  <2> QED
    BY <2>1, <1>2 DEF OpenFile
<1>15. Len(d[l.name]) <= k * Room + w
  BY <1>4, <1>5, <1>6, <1>11, <1>13, <1>14
<1>16. \A s \in Second \ {l.name} : Len(d[s]) <= opened[s] * Room
  BY <1>2, <1>9 DEF OpenFile
<1>17. CASE w > RollSize
  <2>1. /\ log' = {[name |-> clock, written |-> 0]}
        /\ opened' = [opened EXCEPT ![clock] = @ + 1]
    BY <1>8, <1>17
  <2>2. PICK e : e = [name |-> clock, written |-> 0]
    OBVIOUS
  <2>3. /\ e \in [name : 0 .. clock, written : 0 .. RollSize]
        /\ e.name = clock /\ e.written = 0 /\ log' = {e}
    BY <2>1, <2>2, <1>1, RollSizeNat, MaxSecondNat DEF Second
  <2>4. /\ opened' \in [Second -> Nat] /\ opened'[clock] = opened[clock] + 1
        /\ \A s \in Second : s # clock => opened'[s] = opened[s]
    BY <2>1, <1>1
  <2>5. Len(d[l.name]) <= opened[l.name] * Room
    <3>1. w <= Room
      BY <1>4, <1>5, <1>6, <1>13
    <3>2. w \in Nat /\ Len(d[l.name]) \in Nat
      BY <1>4, <1>5, <1>6, <1>11, <1>13
    <3>3. Len(d[l.name]) <= k * Room + Room
      BY <3>1, <3>2, <1>13, <1>15
    <3> QED
      BY <3>3, <1>12, <1>13
  <2>6. \A s \in Second : Len(d[s]) <= opened[s] * Room
    BY <2>5, <1>16
  <2>7. Len(disk'[e.name]) <= (opened'[e.name] - 1) * Room + e.written
    <3>1. opened'[clock] - 1 = opened[clock]
      BY <2>4, <1>1
    <3>2. opened[clock] * Room \in Nat
      BY <1>1, RoomFor
    <3>3. Len(d[clock]) <= opened[clock] * Room
      BY <2>6, <1>1
    <3>4. Len(d[clock]) \in Nat
      BY <1>1, <1>9
    <3> QED
      BY <3>1, <3>2, <3>3, <3>4, <2>3, <1>8
  <2>8. \A s \in Second \ {e.name} : Len(disk'[s]) <= opened'[s] * Room
    BY <2>3, <2>4, <2>6, <1>8
  <2>9. \A s \in Second : s > e.name => disk'[s] = << >>
    <3>1. \A s \in Second : s > clock => s > l.name
      BY <1>1, <1>5, MaxSecondNat DEF Second
    <3> QED
      BY <3>1, <2>3, <1>8, <1>11
  <2>10. opened'[e.name] >= 1
    BY <2>3, <2>4, <1>1
  <2>11. OpenFile(e)'
    BY <2>3, <2>7, <2>8, <2>9, <2>10, <1>1 DEF OpenFile
  <2> QED
    BY <2>4, <2>11, <1>1, <1>8, <1>9, <1>10 DEF FilesInv
<1>18. CASE ~ (w > RollSize)
  <2>1. log' = {[name |-> l.name, written |-> w]} /\ opened' = opened
    BY <1>8, <1>18
  <2>2. PICK e : e = [name |-> l.name, written |-> w]
    OBVIOUS
  <2>3. w \in 0 .. RollSize
    BY <1>4, <1>5, <1>6, <1>13, <1>18
  <2>4. /\ e \in [name : 0 .. clock, written : 0 .. RollSize]
        /\ e.name = l.name /\ e.written = w /\ log' = {e}
    BY <2>1, <2>2, <2>3, <1>5
  <2>5. Len(disk'[e.name]) <= (opened'[e.name] - 1) * Room + e.written
    <3>1. opened'[e.name] - 1 = k
      BY <2>1, <2>4, <1>12
    <3> QED
      BY <3>1, <2>4, <1>8, <1>15
  <2>6. \A s \in Second \ {e.name} : Len(disk'[s]) <= opened'[s] * Room
    BY <2>1, <2>4, <1>8, <1>16
  <2>7. \A s \in Second : s > e.name => disk'[s] = << >>
    BY <2>4, <1>8, <1>11
  <2>8. OpenFile(e)'
    BY <2>1, <2>4, <2>5, <2>6, <2>7, <1>1, <1>5 DEF OpenFile
  <2> QED
    BY <2>1, <2>8, <1>1, <1>8, <1>9, <1>10 DEF FilesInv
<1> QED
  BY <1>17, <1>18

(* ... and as time goes by.                                                *)
LEMMA FilesTick == FilesInv /\ Tick => FilesInv'
<1> SUFFICES ASSUME FilesInv, Tick
             PROVE  FilesInv'
  OBVIOUS
<1>1. clock \in Second /\ clock' \in Second /\ clock' = clock + 1
  BY MaxSecondNat DEF FilesInv, Tick, Second
<1>2. UNCHANGED <<pc, file, disk, log, opened>>
  BY DEF Tick, vars, fileVars
<1>3. ASSUME NEW l, OpenFile(l)
      PROVE  OpenFile(l)'
  <2>1. l \in [name : 0 .. clock', written : 0 .. RollSize]
    <3>1. l \in [name : 0 .. clock, written : 0 .. RollSize]
      BY <1>3 DEF OpenFile
    <3>2. \A n \in 0 .. clock : n \in 0 .. clock'
      BY <1>1, MaxSecondNat DEF Second
    <3> QED
      BY <3>1, <3>2
  <2> QED
    BY <2>1, <1>2, <1>3 DEF OpenFile
<1> QED
  BY <1>1, <1>2, <1>3 DEF FilesInv

(* No step of the program breaks it.                                       *)
LEMMA FilesStep == TypeOK /\ NoneOverfull /\ FilesInv /\ [LoggerNext]_allVars => FilesInv'
<1> SUFFICES ASSUME TypeOK, NoneOverfull, FilesInv, [LoggerNext]_allVars
             PROVE  FilesInv'
  OBVIOUS
<1>1. ASSUME UNCHANGED <<file, clock, disk, log, opened>>, pc' = "new" <=> pc = "new"
      PROVE  FilesInv'
  <2>1. \A l : OpenFile(l) => OpenFile(l)'
    BY <1>1 DEF OpenFile
  <2> QED
    BY <2>1, <1>1 DEF FilesInv
<1>2. CASE Logs
  <2>1. PICK m : AppendFits(m) \/ AppendFull(m)
    BY <1>2 DEF Logs
  <2>2. UNCHANGED <<file, clock, disk, log, opened>>
    BY <1>2, <2>1 DEF Logs, AppendFits, AppendFull, fileVars
  <2>3. pc' = "new" <=> pc = "new"
    BY <2>1 DEF AppendFits, AppendFull
  <2> QED
    BY <2>2, <2>3, <1>1
<1>3. CASE StopsLogger
  <2>1. PICK s \in Stopper : Stop(s) \/ StopStep(s)
    BY <1>3 DEF StopsLogger
  <2>2. UNCHANGED <<file, clock, disk, log, opened>>
    BY <1>3, <2>1 DEF StopsLogger, Stop, StopStep, NotifyAll, AssertNotJoined, MarkJoined,
                      Joined, Goes, fileVars
  <2>3. pc' = "new" <=> pc = "new"
    BY <2>1 DEF Stop, StopStep, NotifyAll, AssertNotJoined, MarkJoined, Joined
  <2> QED
    BY <2>2, <2>3, <1>1
<1>4. CASE Aborts \/ UNCHANGED allVars
  BY <1>1, <1>4 DEF Aborts, allVars, vars, fileVars
<1>5. CASE ThreadGoesOn
  <2>1. UNCHANGED <<file, clock, disk, log, opened>>
    BY <1>5 DEF ThreadGoesOn, TestRunning, Wait, Timeout, Swap, Drop, Refill, fileVars
  <2>2. pc' = "new" <=> pc = "new"
    BY <1>5 DEF ThreadGoesOn, TestRunning, Wait, Timeout, Swap, Drop, Refill
  <2> QED
    BY <2>1, <2>2, <1>1
<1> QED
  BY <1>2, <1>3, <1>4, <1>5, FilesStart, FilesWrite, FilesTick DEF LoggerNext

(* The files hold what the logging thread wrote, in order and no larger    *)
(* than their rolls allow, whatever the clock does between two rolls.      *)
THEOREM FilesHoldWhatWasLogged == LoggerSpec => []FilesHoldTheLog
<1>1. LoggerInit => FilesInv
  <2> SUFFICES ASSUME LoggerInit
               PROVE  FilesInv
    OBVIOUS
  <2>1. /\ clock = 0 /\ disk = [s \in Second |-> << >>] /\ opened = [s \in Second |-> 0]
        /\ file = << >> /\ pc = "new"
    BY DEF LoggerInit, Init
  <2>2. << >> \in Seq(Line) /\ 0 \in Second
    BY MaxSecondNat DEF Second
  <2>3. /\ disk \in [Second -> Seq(Line)] /\ opened \in [Second -> Nat]
        /\ \A s \in DOMAIN disk : disk[s] = << >>
    BY <2>1, <2>2
  <2>4. InOrder(disk, file)
    BY <2>3 DEF InOrder
  <2>5. Lines(disk) = {} /\ Range(file) = {}
    BY <2>1, <2>3 DEF Lines, Range
  <2> QED
    BY <2>1, <2>2, <2>3, <2>4, <2>5 DEF FilesInv
<1>2. Init => NoneOverfull
  BY DEF Init, NoneOverfull
<1>3. FilesInv => FilesHoldTheLog
  <2> SUFFICES ASSUME FilesInv
               PROVE  FilesHoldTheLog
    OBVIOUS
  <2>1. ASSUME NEW s \in Second
        PROVE  Len(disk[s]) <= opened[s] * (RollSize + BufferSize)
    <3>1. opened[s] * Room \in Nat
      BY RoomFor DEF FilesInv
    <3>2. CASE pc = "new"
      <4>1. Len(disk[s]) = 0
        BY <3>2 DEF FilesInv
      <4> QED
        BY <3>1, <4>1 DEF Room
    <3>3. CASE pc # "new"
      <4>1. PICK l : OpenFile(l)
        BY <3>3 DEF FilesInv
      <4>2. CASE s # l.name
        BY <4>1, <4>2 DEF OpenFile, Room
      <4>3. CASE s = l.name
        <5>1. opened[s] - 1 \in Nat /\ opened[s] = (opened[s] - 1) + 1
          BY <4>1, <4>3 DEF OpenFile, FilesInv
        <5>2. PICK k \in Nat : opened[s] = k + 1 /\ opened[s] - 1 = k
          BY <5>1
        <5>3. /\ k * Room \in Nat /\ (k + 1) * Room = k * Room + Room /\ Room \in Nat
              /\ Room = RollSize + BufferSize /\ RollSize \in Nat /\ BufferSize \in Nat
          BY RoomFor
        <5>4. Len(disk[s]) <= k * Room + l.written /\ l.written \in 0 .. RollSize
          BY <4>1, <4>3, <5>2 DEF OpenFile
        <5>5. Len(disk[s]) \in Nat
          BY DEF FilesInv
        <5>6. Len(disk[s]) <= k * Room + Room
          BY <5>3, <5>4, <5>5
        <5> QED
          BY <5>2, <5>3, <5>6 DEF Room
      <4> QED
        BY <4>2, <4>3
    <3> QED
      BY <3>2, <3>3
  <2> QED
    BY <2>1 DEF FilesHoldTheLog, FilesInv
<1>4. LoggerSpec => []TypeOK
  BY LoggerLogsAsynchronously, TypeCorrect, PTL
<1>5. Spec => []NoneOverfull
  BY <1>2, NoneOverfullStep, TypeCorrect, PTL DEF Spec
<1>6. LoggerSpec => []NoneOverfull
  BY <1>5, LoggerLogsAsynchronously, PTL
<1> QED
  BY <1>1, <1>3, <1>4, <1>6, FilesStep, PTL DEF LoggerSpec

(* In the program, too, the lines reach the file in order.                 *)
THEOREM LoggerKeepsOrder == LoggerSpec => []KeptInOrder
  BY LoggerLogsAsynchronously, LinesKeptInOrder, PTL
=============================================================================
