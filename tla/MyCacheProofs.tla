---------------------------- MODULE MyCacheProofs ----------------------------
(***************************************************************************)
(* Proofs about MyCache for any set of workers and queries and any bounds. *)
(***************************************************************************)
EXTENDS MyCache, TLAPS

(* What is left of a sequence without its i-th element.                    *)
LEMMA RemoveAtProperties ==
    ASSUME NEW S, NEW s \in Seq(S), NEW i \in 1 .. Len(s)
    PROVE  /\ RemoveAt(s, i) \in Seq(S)
           /\ Len(RemoveAt(s, i)) = Len(s) - 1
           /\ \A j \in 1 .. Len(s) - 1 :
                 RemoveAt(s, i)[j] = IF j < i THEN s[j] ELSE s[j + 1]
<1> DEFINE p == SubSeq(s, 1, i - 1)
           u == SubSeq(s, i + 1, Len(s))
<1>1. Len(s) \in Nat /\ i \in Nat /\ i >= 1 /\ i <= Len(s)
  OBVIOUS
<1>2. p \in Seq(S) /\ Len(p) = i - 1 /\ \A j \in 1 .. i - 1 : p[j] = s[j]
  BY <1>1
<1>3. /\ u \in Seq(S) /\ Len(u) = Len(s) - i
      /\ \A j \in 1 .. Len(s) - i : u[j] = s[i + j]
  BY <1>1
<1> HIDE DEF p, u
<1>4. p \o u \in Seq(S) /\ Len(p \o u) = Len(s) - 1
  BY <1>1, <1>2, <1>3
<1>5. ASSUME NEW j \in 1 .. Len(s) - 1
      PROVE  (p \o u)[j] = IF j < i THEN s[j] ELSE s[j + 1]
  <2>1. CASE j < i
    BY <1>1, <1>2, <1>3, <2>1
  <2>2. CASE j >= i
    <3>1. j - (i - 1) \in 1 .. Len(s) - i
      BY <1>1, <2>2
    <3>2. (p \o u)[j] = u[j - (i - 1)]
      BY <1>1, <1>2, <1>3, <2>2
    <3>3. u[j - (i - 1)] = s[i + (j - (i - 1))]
      BY <1>3, <3>1
    <3>4. i + (j - (i - 1)) = j + 1
      BY <1>1
    <3> QED
      BY <1>1, <2>2, <3>2, <3>3, <3>4
  <2>3. j < i \/ j >= i
    BY <1>1
  <2> QED
    BY <2>1, <2>2, <2>3, Zenon
<1>6. RemoveAt(s, i) = p \o u
  BY DEF RemoveAt, p, u
<1> QED
  BY <1>4, <1>5, <1>6

(* Moving a node to the front keeps the list and the map in step.          *)
LEMMA MoveToFrontConsistent ==
    ASSUME NEW c \in Caches, NEW q \in c.keys, Consistent(c)
    PROVE  MoveToFront(c, q) \in Caches /\ Consistent(MoveToFront(c, q))
<1> DEFINE s == c.list
           i == Place(c, q)
           t == RemoveAt(s, i)
           r == <<q>> \o t
<1>1. /\ s \in Seq(Query) /\ c.keys \in SUBSET Query /\ c.keys = Range(s)
      /\ Len(s) <= Capacity /\ Len(s) \in Nat
      /\ \A j, k \in 1 .. Len(s) : s[j] = s[k] => j = k
  BY DEF Caches, Consistent, IsInjective, Range
<1>2. i \in 1 .. Len(s) /\ s[i] = q
  BY <1>1 DEF Place, Range
<1>3. t \in Seq(Query) /\ Len(t) = Len(s) - 1
  BY <1>1, <1>2, RemoveAtProperties
<1>4. \A j \in 1 .. Len(t) : t[j] = IF j < i THEN s[j] ELSE s[j + 1]
  BY <1>1, <1>2, <1>3, RemoveAtProperties
<1> HIDE DEF i, t
<1>5. r \in Seq(Query) /\ Len(r) = Len(s) /\ r[1] = q
  BY <1>1, <1>2, <1>3
<1>6. \A j \in 2 .. Len(r) : r[j] = IF j - 1 < i THEN s[j - 1] ELSE s[j]
  BY <1>3, <1>4, <1>5
<1> HIDE DEF r
<1>7. \A j, k \in 1 .. Len(r) : r[j] = r[k] => j = k
  BY <1>1, <1>2, <1>5, <1>6
<1>8. \A x \in Range(s) : \E j \in 1 .. Len(r) : r[j] = x
  <2> SUFFICES ASSUME NEW k \in 1 .. Len(s)
               PROVE  \E j \in 1 .. Len(r) : r[j] = s[k]
    BY <1>1 DEF Range
  <2>1. CASE k = i
    BY <1>2, <1>5, <2>1
  <2>2. CASE k < i
    <3>1. k + 1 \in 2 .. Len(r) /\ (k + 1) - 1 = k
      BY <1>1, <1>2, <1>5, <2>2
    <3>2. r[k + 1] = s[k]
      BY <1>6, <2>2, <3>1
    <3> QED
      BY <1>1, <1>5, <3>1, <3>2
  <2>3. CASE k > i
    BY <1>1, <1>2, <1>5, <1>6, <2>3
  <2> QED
    BY <1>2, <2>1, <2>2, <2>3
<1>9. \A j \in 1 .. Len(r) : r[j] \in Range(s)
  BY <1>1, <1>2, <1>5, <1>6 DEF Range
<1>10. Range(r) = c.keys
  <2>1. DOMAIN r = 1 .. Len(r)
    BY <1>5
  <2>2. Range(r) = {r[j] : j \in 1 .. Len(r)}
    BY <2>1, Zenon DEF Range
  <2>3. Range(r) \subseteq Range(s)
    BY <1>9, <2>2
  <2>4. Range(s) \subseteq Range(r)
    BY <1>8, <2>2
  <2>5. c.keys = Range(s)
    BY <1>1
  <2> QED
    BY <2>3, <2>4, <2>5, Zenon
<1>11. MoveToFront(c, q) = [list |-> r, keys |-> c.keys]
  <2>1. c = [list |-> s, keys |-> c.keys]
    BY DEF Caches
  <2>2. MoveToFront(c, q) = [c EXCEPT !.list = r]
    BY Zenon DEF MoveToFront, r, t, i
  <2> QED
    BY <2>1, <2>2
<1> QED
  BY <1>1, <1>5, <1>7, <1>10, <1>11 DEF Caches, Consistent, IsInjective

(* A new node takes the place of the evicted one, if the cache is full.    *)
LEMMA PushFrontConsistent ==
    ASSUME NEW c \in Caches, NEW q \in Query \ c.keys, Consistent(c),
           Len(c.list) < Capacity
    PROVE  PushFront(c, q) \in Caches /\ Consistent(PushFront(c, q))
<1> DEFINE s == c.list
           r == <<q>> \o s
<1>1. /\ s \in Seq(Query) /\ c.keys \in SUBSET Query /\ c.keys = Range(s)
      /\ Len(s) \in Nat /\ Capacity \in Nat /\ Len(s) + 1 <= Capacity
      /\ \A j, k \in 1 .. Len(s) : s[j] = s[k] => j = k
  BY CapacityPositive DEF Caches, Consistent, IsInjective, Range
<1>2. \A k \in 1 .. Len(s) : s[k] \in c.keys /\ s[k] # q
  BY <1>1 DEF Range
<1>3. /\ r \in Seq(Query) /\ Len(r) = Len(s) + 1 /\ r[1] = q
      /\ \A j \in 2 .. Len(s) + 1 : r[j] = s[j - 1]
  BY <1>1
<1> HIDE DEF r
<1>4. ASSUME NEW j \in 1 .. Len(r), NEW k \in 1 .. Len(r), r[j] = r[k]
      PROVE  j = k
  <2>1. \A n \in 2 .. Len(r) : n - 1 \in 1 .. Len(s) /\ r[n] = s[n - 1]
    BY <1>1, <1>3
  <2>2. CASE j = 1 \/ k = 1
    BY <1>1, <1>2, <1>3, <1>4, <2>1, <2>2
  <2>3. CASE j # 1 /\ k # 1
    <3>1. j \in 2 .. Len(r) /\ k \in 2 .. Len(r)
      BY <1>1, <1>3, <2>3
    <3>2. s[j - 1] = s[k - 1]
      BY <1>4, <2>1, <3>1
    <3>3. j - 1 = k - 1
      BY <1>1, <2>1, <3>1, <3>2
    <3> QED
      BY <1>1, <1>3, <3>1, <3>3
  <2> QED
    BY <2>2, <2>3
<1>5. Range(r) = c.keys \cup {q}
  <2>1. DOMAIN r = 1 .. Len(r)
    BY <1>3
  <2>2. Range(r) = {r[j] : j \in 1 .. Len(r)}
    BY <2>1, Zenon DEF Range
  <2>3. \A j \in 1 .. Len(r) : r[j] \in c.keys \cup {q}
    BY <1>1, <1>2, <1>3
  <2>4. ASSUME NEW k \in 1 .. Len(s)
        PROVE  \E j \in 1 .. Len(r) : r[j] = s[k]
    <3>1. k + 1 \in 2 .. Len(s) + 1 /\ (k + 1) - 1 = k
      BY <1>1
    <3> QED
      BY <1>1, <1>3, <3>1
  <2>5. \A x \in Range(s) : \E k \in 1 .. Len(s) : s[k] = x
    BY <1>1 DEF Range
  <2>6. c.keys \subseteq Range(r)
    BY <1>1, <2>2, <2>4, <2>5
  <2>7. q \in Range(r)
    BY <1>1, <1>3, <2>2
  <2> QED
    BY <2>2, <2>3, <2>6, <2>7
<1>6. PushFront(c, q) = [list |-> r, keys |-> c.keys \cup {q}]
  BY Zenon DEF PushFront, r
<1> QED
  BY <1>1, <1>3, <1>4, <1>5, <1>6 DEF Caches, Consistent, IsInjective

(* Evicting leaves a consistent cache with room for one more query.        *)
LEMMA EvictConsistent ==
    ASSUME NEW c \in Caches, Consistent(c), Len(c.list) = Capacity
    PROVE  /\ Evict(c) \in Caches /\ Consistent(Evict(c))
           /\ Len(Evict(c).list) < Capacity /\ Evict(c).keys \subseteq c.keys
<1> DEFINE s == c.list
           r == SubSeq(s, 1, Capacity - 1)
<1>1. /\ s \in Seq(Query) /\ c.keys \in SUBSET Query /\ c.keys = Range(s)
      /\ Len(s) = Capacity /\ Capacity \in Nat /\ Capacity >= 1
      /\ \A j, k \in 1 .. Len(s) : s[j] = s[k] => j = k
  BY CapacityPositive DEF Caches, Consistent, IsInjective, Range
<1>2. /\ r \in Seq(Query) /\ Len(r) = Capacity - 1
      /\ \A j \in 1 .. Capacity - 1 : r[j] = s[j]
  BY <1>1
<1> HIDE DEF r
<1>3. \A j, k \in 1 .. Len(r) : r[j] = r[k] => j = k
  BY <1>1, <1>2
<1>4. Range(r) = c.keys \ {s[Capacity]}
  <2>1. DOMAIN r = 1 .. Len(r)
    BY <1>2
  <2>2. Range(r) = {r[j] : j \in 1 .. Len(r)}
    BY <2>1, Zenon DEF Range
  <2>3. \A k \in 1 .. Len(s) : s[k] \in c.keys
    BY <1>1 DEF Range
  <2>4. \A j \in 1 .. Len(r) : r[j] \in c.keys \ {s[Capacity]}
    BY <1>1, <1>2, <2>3
  <2>5. \A x \in c.keys : \E k \in 1 .. Len(s) : s[k] = x
    BY <1>1 DEF Range
  <2>6. \A x \in c.keys \ {s[Capacity]} : \E j \in 1 .. Len(r) : r[j] = x
    BY <1>1, <1>2, <2>5
  <2> QED
    BY <2>2, <2>4, <2>6
<1>5. Evict(c) = [list |-> r, keys |-> c.keys \ {s[Capacity]}]
  BY Zenon DEF Evict, r
<1> QED
  BY <1>1, <1>2, <1>3, <1>4, <1>5 DEF Caches, Consistent, IsInjective

(* addElement keeps a cache consistent.                                    *)
LEMMA AddElementConsistent ==
    ASSUME NEW c \in Caches, NEW q \in Query, Consistent(c)
    PROVE  AddElement(c, q) \in Caches /\ Consistent(AddElement(c, q))
<1>1. CASE q \in c.keys
  BY <1>1, MoveToFrontConsistent DEF AddElement
<1>2. CASE q \notin c.keys /\ Len(c.list) = Capacity
  <2>1. q \in Query \ Evict(c).keys
    BY <1>2, EvictConsistent
  <2> QED
    BY <1>2, <2>1, EvictConsistent, PushFrontConsistent DEF AddElement
<1>3. CASE q \notin c.keys /\ Len(c.list) # Capacity
  <2>1. Len(c.list) < Capacity
    BY <1>3, CapacityPositive DEF Caches, Consistent
  <2> QED
    BY <1>3, <2>1, PushFrontConsistent DEF AddElement
<1> QED
  BY <1>1, <1>2, <1>3
-----------------------------------------------------------------------------
(* The first part of a concatenation.                                      *)
LEMMA PrefixOfConcat ==
    ASSUME NEW S, NEW a \in Seq(S), NEW b \in Seq(S)
    PROVE  SubSeq(a \o b, 1, Len(a)) = a
OBVIOUS

(* Adding at the end leaves every prefix as it is.                         *)
LEMMA PrefixOfAppend ==
    ASSUME NEW S, NEW s \in Seq(S), NEW x \in S, NEW n \in 0 .. Len(s)
    PROVE  SubSeq(Append(s, x), 1, n) = SubSeq(s, 1, n)
OBVIOUS

(* Adding at the end of the last of three sequences in a row.              *)
LEMMA ConcatOfFour ==
    ASSUME NEW S, NEW a \in Seq(S), NEW b \in Seq(S), NEW c \in Seq(S), NEW d \in Seq(S)
    PROVE  (a \o b \o c) \o d = a \o b \o (c \o d)
OBVIOUS

(* Adding at the end of a concatenation is adding to its last part.        *)
LEMMA AppendToLastOfThree ==
    \A a, b, c \in Seq(Query), x \in Query :
        Append(a \o b \o c, x) = a \o b \o Append(c, x)
<1> SUFFICES ASSUME NEW a \in Seq(Query), NEW b \in Seq(Query), NEW c \in Seq(Query),
                    NEW x \in Query
             PROVE  Append(a \o b \o c, x) = a \o b \o Append(c, x)
  BY Zenon
<1>1. a \o b \o c \in Seq(Query) /\ <<x>> \in Seq(Query)
  OBVIOUS
<1>2. \A s \in Seq(Query) : Append(s, x) = s \o <<x>>
  OBVIOUS
<1>3. (a \o b \o c) \o <<x>> = a \o b \o (c \o <<x>>)
  BY <1>1, ConcatOfFour
<1> QED
  BY <1>1, <1>2, <1>3, Zenon

(* The length of a concatenation.                                          *)
LEMMA LengthOfConcat ==
    ASSUME NEW S, NEW a \in Seq(S), NEW b \in Seq(S)
    PROVE  a \o b \in Seq(S) /\ Len(a \o b) = Len(a) + Len(b)
OBVIOUS

(* The types hold together with the two other invariants: addElement needs *)
(* a consistent cache, to have a node to move and one to evict, and the    *)
(* number of published writes is bounded because none is lost or repeated. *)
IInv == TypeOK /\ CachesConsistent /\ NothingLost

(* At the start nothing is written and every cache is empty.               *)
LEMMA InitIInv == Init => IInv
<1> SUFFICES ASSUME Init
             PROVE  IInv
  OBVIOUS
<1>1. Empty \in Caches /\ Consistent(Empty)
  BY CapacityPositive DEF Empty, Caches, Consistent, IsInjective, Range
<1>2. << >> \in Seq(Query) /\ Len(<< >>) = 0
  OBVIOUS
<1>3. TypeOK /\ CachesConsistent
  BY <1>1, <1>2 DEF Init, TypeOK, CachesConsistent, ThreadPc
<1>4. << >> = SubSeq(<< >>, 1, 0) \o << >> \o << >>
  OBVIOUS
<1>5. NothingLost
  BY <1>4 DEF Init, NothingLost
<1> QED
  BY <1>3, <1>5 DEF IInv

(* No step breaks the types or makes a cache inconsistent.                 *)
LEMMA TypeStep == IInv /\ [Next]_vars => (TypeOK /\ CachesConsistent)'
<1> SUFFICES ASSUME IInv, [Next]_vars
             PROVE  (TypeOK /\ CachesConsistent)'
  OBVIOUS
<1> USE DEF IInv, TypeOK, CachesConsistent, ThreadPc, thread, workers
<1>1. ASSUME NEW w \in Workers, Write(w)
      PROVE  (TypeOK /\ CachesConsistent)'
  <2>1. /\ list' \in Seq(Query) /\ written' \in Seq(Query)
        /\ Len(written') = Len(written) + 1 /\ Len(written) \in Nat
    BY <1>1 DEF Write
  <2> QED
    BY <1>1, <2>1 DEF Write
<1>2. ASSUME NEW w \in Workers, NEW q \in Query, Read(w, q)
      PROVE  (TypeOK /\ CachesConsistent)'
  BY <1>2 DEF Read
<1>3. CASE Wait \/ Timeout
  BY <1>3 DEF Wait, Timeout
<1>4. CASE TakeList
  <2>1. list' \in Seq(Query) /\ docker' \in Seq(Query) /\ Len(docker) = 0
    BY <1>4 DEF TakeList
  <2>2. added' \in 0 .. Len(docker')
    BY <1>4, <2>1 DEF TakeList
  <2> QED
    BY <1>4, <2>1, <2>2 DEF TakeList
<1>5. CASE AddNode
  <2>1. docker[added + 1] \in Query /\ added' \in 0 .. Len(docker)
    BY <1>5 DEF AddNode
  <2>2. clone' \in Caches /\ Consistent(clone')
    BY <1>5, <2>1, AddElementConsistent DEF AddNode
  <2> QED
    BY <1>5, <2>1, <2>2 DEF AddNode
<1>6. CASE Publish
  <2>1. written = SubSeq(written, 1, published) \o docker \o list
    BY <1>6 DEF Publish, NothingLost
  <2>2. Len(SubSeq(written, 1, published)) = published
    OBVIOUS
  <2>3. Len(written) = published + Len(docker) + Len(list)
    BY <2>1, <2>2
  <2>4. published' \in 0 .. Len(written')
    BY <1>6, <2>3 DEF Publish
  <2> QED
    BY <1>6, <2>4 DEF Publish
<1>7. CASE Clear
  <2>1. docker' \in Seq(Query) /\ added' \in 0 .. Len(docker')
    BY <1>7 DEF Clear
  <2> QED
    BY <1>7, <2>1 DEF Clear
<1>8. CASE UNCHANGED vars
  BY <1>8 DEF vars
<1> QED
  BY <1>1, <1>2, <1>3, <1>4, <1>5, <1>6, <1>7, <1>8
  DEF Next, WorkerNext, CacheThread

(* No step loses, repeats or reorders a write.                             *)
LEMMA NothingLostStep == TypeOK /\ NothingLost /\ [Next]_vars => NothingLost'
<1> SUFFICES ASSUME TypeOK, NothingLost, [Next]_vars
             PROVE  NothingLost'
  OBVIOUS
<1> DEFINE seen == SubSeq(written, 1, published)
           taken == IF tpc = "add" THEN docker ELSE << >>
<1>1. /\ written = seen \o taken \o list
      /\ seen \in Seq(Query) /\ taken \in Seq(Query) /\ list \in Seq(Query)
      /\ written \in Seq(Query) /\ docker \in Seq(Query)
      /\ published \in 0 .. Len(written) /\ Len(seen) = published
  <2>1. seen \in Seq(Query) /\ Len(seen) = published
    BY DEF TypeOK
  <2>2. taken \in Seq(Query)
    BY DEF TypeOK
  <2> QED
    BY <2>1, <2>2 DEF TypeOK, NothingLost
<1>1a. /\ seen \in Seq(Query) /\ taken \in Seq(Query) /\ list \in Seq(Query)
       /\ docker \in Seq(Query) /\ Len(seen) = published
  BY <1>1
<1> HIDE DEF seen
<1>2. ASSUME NEW w \in Workers, Write(w)
      PROVE  NothingLost'
  <2>1. PICK q \in job[w] : /\ list' = Append(list, q)
                            /\ written' = Append(written, q)
    BY <1>2 DEF Write
  <2>2. q \in Query
    BY DEF TypeOK
  <2>3. seen' = seen
    <3>1. SubSeq(Append(written, q), 1, published) = SubSeq(written, 1, published)
      BY <1>1, <2>2, PrefixOfAppend
    <3>2. published' = published
      BY <1>2 DEF Write
    <3> QED
      BY <2>1, <3>1, <3>2 DEF seen
  <2>4. taken' = taken
    BY <1>2 DEF Write, thread
  <2> HIDE DEF taken
  <2>5. Append(seen \o taken \o list, q) = seen \o taken \o Append(list, q)
    <3>1. seen \in Seq(Query) /\ taken \in Seq(Query) /\ list \in Seq(Query)
      BY <1>1a
    <3> QED
      BY <2>2, <3>1, AppendToLastOfThree, Zenon
  <2>6. written' = seen' \o taken' \o list'
    BY <1>1, <2>1, <2>3, <2>4, <2>5, Zenon
  <2> QED
    BY <2>6, Zenon DEF NothingLost, seen, taken
<1>3. CASE TakeList
  <2>1. /\ seen' = seen /\ written' = written /\ docker = << >>
        /\ taken = << >> /\ taken' = list /\ list' = << >>
    BY <1>3 DEF TakeList, TypeOK, seen
  <2> HIDE DEF taken
  <2>2. seen \o << >> \o list = seen \o list \o << >>
    BY <1>1
  <2>3. written' = seen' \o taken' \o list'
    BY <1>1, <2>1, <2>2, Zenon
  <2> QED
    BY <2>3, Zenon DEF NothingLost, seen, taken
<1>4. CASE Publish
  <2>1. /\ taken = docker /\ taken' = << >>
        /\ written' = written /\ list' = list
        /\ published' = published + Len(docker)
    BY <1>4 DEF Publish
  <2> HIDE DEF taken
  <2>2. /\ seen \o docker \in Seq(Query)
        /\ Len(seen \o docker) = published + Len(docker)
    BY <1>1a, LengthOfConcat
  <2>3. SubSeq((seen \o docker) \o list, 1, published + Len(docker)) = seen \o docker
    BY <1>1, <2>2, PrefixOfConcat
  <2>4. seen' = seen \o docker
    BY <1>1, <2>1, <2>3, Zenon DEF seen
  <2>5. seen \o docker \o list = (seen \o docker) \o << >> \o list
    BY <1>1
  <2>6. written' = seen' \o taken' \o list'
    BY <1>1, <2>1, <2>4, <2>5, Zenon
  <2> QED
    BY <2>6, Zenon DEF NothingLost, seen, taken
<1>5. CASE UNCHANGED <<written, published, list, docker>> /\ taken' = taken
  BY <1>5, <1>1 DEF NothingLost, seen
<1>6. ASSUME NEW w \in Workers, NEW q \in Query, Read(w, q)
      PROVE  NothingLost'
  BY <1>5, <1>6 DEF Read, thread
<1>7. CASE Wait \/ Timeout \/ AddNode
  BY <1>5, <1>7 DEF Wait, Timeout, AddNode
<1>8. CASE Clear
  BY <1>8 DEF Clear, NothingLost
<1>9. CASE UNCHANGED vars
  BY <1>5, <1>9 DEF vars, thread
<1> QED
  BY <1>2, <1>3, <1>4, <1>6, <1>7, <1>8, <1>9
  DEF Next, WorkerNext, CacheThread

(* So all of this holds in every state.                                    *)
LEMMA Invariance == Spec => []IInv
<1>1. IInv /\ [Next]_vars => IInv'
  BY TypeStep, NothingLostStep DEF IInv
<1> QED
  BY <1>1, InitIInv, PTL DEF Spec

(* Type correctness.                                                       *)
THEOREM TypeCorrect == Spec => []TypeOK
<1>1. IInv => TypeOK
  BY DEF IInv
<1> QED
  BY <1>1, Invariance, PTL

(* Both caches stay consistent: the hash map and the list agree, and       *)
(* neither outgrows the capacity.                                          *)
THEOREM CachesStayConsistent == Spec => []CachesConsistent
<1>1. IInv => CachesConsistent
  BY DEF IInv
<1> QED
  BY <1>1, Invariance, PTL

(* Every write is on its way, once and in order, or published.             *)
THEOREM NothingIsLost == Spec => []NothingLost
<1>1. IInv => NothingLost
  BY DEF IInv
<1> QED
  BY <1>1, Invariance, PTL
-----------------------------------------------------------------------------
(* The caches that a list of writes leads to, one after the other.  There  *)
(* is one such function of every list: this is shown by induction over the *)
(* behaviour, in which the list grows one write at a time.                 *)
CachesOf(c, s) == c = [n \in 0 .. Len(s) |-> IF n = 0 THEN Empty
                                            ELSE AddElement(c[n - 1], s[n])]
Determined(s) == /\ \E c : CachesOf(c, s)
                 /\ \A c, d : CachesOf(c, s) /\ CachesOf(d, s) => c = d

(* The caches of one write more: the earlier ones are the same.            *)
LEMMA CachesOfPrefix ==
    ASSUME NEW s \in Seq(Query), NEW x \in Query, NEW d, CachesOf(d, Append(s, x))
    PROVE  /\ CachesOf([n \in 0 .. Len(s) |-> d[n]], s)
           /\ d[Len(s) + 1] = AddElement(d[Len(s)], x)
           /\ d = [n \in 0 .. Len(s) + 1 |-> IF n = Len(s) + 1 THEN d[Len(s) + 1] ELSE d[n]]
<1> DEFINE c == [n \in 0 .. Len(s) |-> d[n]]
<1>1. /\ Len(s) \in Nat /\ Len(Append(s, x)) = Len(s) + 1
      /\ Append(s, x)[Len(s) + 1] = x
      /\ \A n \in 1 .. Len(s) : Append(s, x)[n] = s[n]
  OBVIOUS
<1>2. d = [n \in 0 .. Len(s) + 1 |-> IF n = 0 THEN Empty
                                   ELSE AddElement(d[n - 1], Append(s, x)[n])]
  BY <1>1 DEF CachesOf
<1>3. \A n \in 0 .. Len(s) + 1 : d[n] = IF n = 0 THEN Empty
                                     ELSE AddElement(d[n - 1], Append(s, x)[n])
  BY <1>2
<1>4. \A n \in 0 .. Len(s) : c[n] = IF n = 0 THEN Empty ELSE AddElement(c[n - 1], s[n])
  <2> SUFFICES ASSUME NEW n \in 0 .. Len(s)
               PROVE  c[n] = IF n = 0 THEN Empty ELSE AddElement(c[n - 1], s[n])
    OBVIOUS
  <2>1. n \in 0 .. Len(s) + 1 /\ c[n] = d[n]
    BY <1>1
  <2>2. CASE n = 0
    BY <1>3, <2>1, <2>2, Zenon
  <2>3. CASE n # 0
    <3>1. c[n - 1] = d[n - 1] /\ Append(s, x)[n] = s[n]
      BY <1>1, <2>3
    <3> QED
      BY <1>3, <2>1, <2>3, <3>1, Zenon
  <2> QED
    BY <2>2, <2>3
<1>5. CachesOf(c, s)
  <2> DEFINE e == [n \in 0 .. Len(s) |-> IF n = 0 THEN Empty ELSE AddElement(c[n - 1], s[n])]
  <2>1. c = e
    BY <1>4, Zenon
  <2> QED
    BY <2>1, Zenon DEF CachesOf
<1>6. d[Len(s) + 1] = AddElement(d[Len(s)], x)
  <2>1. Len(s) + 1 \in 0 .. Len(s) + 1 /\ Len(s) + 1 # 0 /\ (Len(s) + 1) - 1 = Len(s)
    BY <1>1
  <2> QED
    BY <1>1, <1>3, <2>1, Zenon
<1>7. d = [n \in 0 .. Len(s) + 1 |-> IF n = Len(s) + 1 THEN d[Len(s) + 1] ELSE d[n]]
  <2> DEFINE e(n) == IF n = 0 THEN Empty ELSE AddElement(d[n - 1], Append(s, x)[n])
  <2>1. d = [n \in 0 .. Len(s) + 1 |-> e(n)]
    BY <1>2
  <2> HIDE DEF e
  <2> QED
    BY <2>1
<1> QED
  BY <1>5, <1>6, <1>7

(* One more write determines one more cache.                               *)
LEMMA CachesOfMore ==
    ASSUME NEW s \in Seq(Query), NEW x \in Query, Determined(s)
    PROVE  Determined(Append(s, x))
<1>1. Len(s) \in Nat /\ Len(Append(s, x)) = Len(s) + 1
      /\ Append(s, x)[Len(s) + 1] = x
      /\ \A n \in 1 .. Len(s) : Append(s, x)[n] = s[n]
  OBVIOUS
<1>2. PICK c : CachesOf(c, s)
  BY Zenon DEF Determined
<1>3. \A n \in 0 .. Len(s) : c[n] = IF n = 0 THEN Empty ELSE AddElement(c[n - 1], s[n])
  <2> DEFINE e(n) == IF n = 0 THEN Empty ELSE AddElement(c[n - 1], s[n])
  <2>1. c = [n \in 0 .. Len(s) |-> e(n)]
    BY <1>2, Zenon DEF CachesOf
  <2> HIDE DEF e
  <2>2. \A n \in 0 .. Len(s) : c[n] = e(n)
    BY <2>1
  <2> QED
    BY <2>2, Zenon DEF e
<1> DEFINE d == [n \in 0 .. Len(s) + 1 |-> IF n = Len(s) + 1 THEN AddElement(c[Len(s)], x)
                                          ELSE c[n]]
           e(n) == IF n = 0 THEN Empty ELSE AddElement(d[n - 1], Append(s, x)[n])
<1>4. \A n \in 0 .. Len(s) + 1 : d[n] = e(n)
  <2> SUFFICES ASSUME NEW n \in 0 .. Len(s) + 1
               PROVE  d[n] = e(n)
    OBVIOUS
  <2>1. CASE n = Len(s) + 1
    <3>1. n # 0 /\ n - 1 = Len(s) /\ d[n] = AddElement(c[Len(s)], x) /\ d[Len(s)] = c[Len(s)]
      BY <1>1, <2>1
    <3> QED
      BY <1>1, <2>1, <3>1, Zenon
  <2>2. CASE n # Len(s) + 1 /\ n # 0
    <3>1. /\ n \in 0 .. Len(s) /\ d[n] = c[n] /\ d[n - 1] = c[n - 1]
          /\ Append(s, x)[n] = s[n]
      BY <1>1, <2>2
    <3> QED
      BY <1>3, <2>2, <3>1, Zenon
  <2>3. CASE n # Len(s) + 1 /\ n = 0
    <3>1. n \in 0 .. Len(s) /\ d[n] = c[n]
      BY <1>1, <2>3
    <3> QED
      BY <1>3, <2>3, <3>1, Zenon
  <2> QED
    BY <2>1, <2>2, <2>3
<1>5. CachesOf(d, Append(s, x))
  <2>1. d = [n \in 0 .. Len(s) + 1 |-> e(n)]
    <3> HIDE DEF e
    <3>1. \A n \in 0 .. Len(s) + 1 : d[n] = e(n)
      BY <1>4
    <3> DEFINE dd == d
    <3>2. dd = [n \in 0 .. Len(s) + 1 |-> dd[n]]
      OBVIOUS
    <3> HIDE DEF dd
    <3> QED
      BY <3>1, <3>2 DEF dd
  <2> HIDE DEF d
  <2> QED
    BY <1>1, <2>1, Zenon DEF CachesOf, e
<1>6. ASSUME NEW f, NEW g, CachesOf(f, Append(s, x)), CachesOf(g, Append(s, x))
      PROVE  f = g
  <2>1. [n \in 0 .. Len(s) |-> f[n]] = [n \in 0 .. Len(s) |-> g[n]]
    <3>1. /\ CachesOf([n \in 0 .. Len(s) |-> f[n]], s)
          /\ CachesOf([n \in 0 .. Len(s) |-> g[n]], s)
      BY <1>6, CachesOfPrefix
    <3> QED
      BY <3>1, Zenon DEF Determined
  <2>2. \A n \in 0 .. Len(s) : f[n] = g[n]
    BY <2>1
  <2>3. f[Len(s) + 1] = g[Len(s) + 1]
    <3>1. Len(s) \in 0 .. Len(s)
      BY <1>1
    <3>2. /\ f[Len(s) + 1] = AddElement(f[Len(s)], x)
          /\ g[Len(s) + 1] = AddElement(g[Len(s)], x)
      BY <1>6, CachesOfPrefix
    <3>3. f[Len(s)] = g[Len(s)]
      BY <2>2, <3>1
    <3> QED
      BY <3>2, <3>3, Zenon
  <2>4. /\ f = [n \in 0 .. Len(s) + 1 |-> IF n = Len(s) + 1 THEN f[Len(s) + 1] ELSE f[n]]
        /\ g = [n \in 0 .. Len(s) + 1 |-> IF n = Len(s) + 1 THEN g[Len(s) + 1] ELSE g[n]]
    BY <1>6, CachesOfPrefix, Zenon
  <2>5. \A n \in 0 .. Len(s) + 1 : f[n] = g[n]
    BY <1>1, <2>2, <2>3
  <2> QED
    BY <2>4, <2>5
<1> HIDE DEF d
<1> QED
  BY <1>5, <1>6, Zenon DEF Determined

(* While the clone catches up, _docker holds the last published writes.    *)
CatchingUp == tpc = "again" =>
    /\ Len(docker) <= published
    /\ \A i \in 1 .. Len(docker) : written[published - Len(docker) + i] = docker[i]

ReplicasInv == Determined(written) /\ Replicas /\ CatchingUp

(* What the first n writes lead to does not depend on later ones.          *)
LEMMA CacheOfStays ==
    ASSUME written \in Seq(Query), Determined(written)
    PROVE  /\ \A n \in 1 .. Len(written) :
                 CacheOf[n] = AddElement(CacheOf[n - 1], written[n])
           /\ CacheOf[0] = Empty
           /\ \A q \in Query : written' = Append(written, q)
                => /\ Determined(written)'
                   /\ \A n \in 0 .. Len(written) : CacheOf'[n] = CacheOf[n]
<1>1. CachesOf(CacheOf, written)
  BY Zenon DEF CacheOf, CachesOf, Determined
<1>2. \A n \in 0 .. Len(written) : CacheOf[n] = IF n = 0 THEN Empty
                                     ELSE AddElement(CacheOf[n - 1], written[n])
  <2> DEFINE e(n) == IF n = 0 THEN Empty ELSE AddElement(CacheOf[n - 1], written[n])
  <2>1. CacheOf = [n \in 0 .. Len(written) |-> e(n)]
    BY <1>1, Zenon DEF CachesOf
  <2> HIDE DEF e
  <2>2. \A n \in 0 .. Len(written) : CacheOf[n] = e(n)
    BY <2>1
  <2> QED
    BY <2>2, Zenon DEF e
<1>3. ASSUME NEW q \in Query, written' = Append(written, q)
      PROVE  /\ Determined(written)'
             /\ \A n \in 0 .. Len(written) : CacheOf'[n] = CacheOf[n]
  <2>1. Determined(Append(written, q))
    BY CachesOfMore
  <2>2. Determined(written)'
    BY <1>3, <2>1, Zenon
  <2>3. CachesOf(CacheOf', Append(written, q))
    <3>1. CachesOf(CacheOf', written')
      BY <2>2, Zenon DEF CacheOf, CachesOf, Determined
    <3> QED
      BY <1>3, <3>1, Zenon
  <2>4. CachesOf([n \in 0 .. Len(written) |-> CacheOf'[n]], written)
    BY <2>3, CachesOfPrefix
  <2>5. [n \in 0 .. Len(written) |-> CacheOf'[n]] = CacheOf
    BY <1>1, <2>4, Zenon DEF Determined
  <2> QED
    BY <2>2, <2>5
<1>4. Len(written) \in Nat
  OBVIOUS
<1>5. CacheOf[0] = Empty
  <2>1. 0 \in 0 .. Len(written)
    BY <1>4
  <2> QED
    BY <1>2, <2>1, Zenon
<1>6. ASSUME NEW n \in 1 .. Len(written)
      PROVE  CacheOf[n] = AddElement(CacheOf[n - 1], written[n])
  <2>1. n \in 0 .. Len(written) /\ n # 0
    BY <1>4
  <2> QED
    BY <1>2, <2>1, Zenon
<1> QED
  BY <1>3, <1>5, <1>6

(* No step lets a replica differ from the cache its writes determine.      *)
LEMMA ReplicasStep ==
    ASSUME IInv, ReplicasInv, [Next]_vars
    PROVE  ReplicasInv'
<1>1. /\ written \in Seq(Query) /\ docker \in Seq(Query) /\ list \in Seq(Query)
      /\ Len(written) \in Nat /\ Len(docker) \in Nat
      /\ published \in 0 .. Len(written) /\ added \in 0 .. Len(docker)
      /\ tpc \in {"head", "wait", "woken"} => docker = << >> /\ added = 0
  BY DEF IInv, TypeOK
<1>2. tpc = "add" => /\ published + Len(docker) <= Len(written)
                     /\ \A i \in 1 .. Len(docker) : written[published + i] = docker[i]
  <2> SUFFICES ASSUME tpc = "add"
               PROVE  /\ published + Len(docker) <= Len(written)
                      /\ \A i \in 1 .. Len(docker) : written[published + i] = docker[i]
    OBVIOUS
  <2> DEFINE seen == SubSeq(written, 1, published)
  <2>1. seen \in Seq(Query) /\ Len(seen) = published
    BY <1>1
  <2>2. written = seen \o docker \o list
    BY DEF IInv, NothingLost
  <2> HIDE DEF seen
  <2>3. Len(written) = published + Len(docker) + Len(list) /\ Len(list) \in Nat
    <3>1. Len(seen \o docker \o list) = Len(seen) + Len(docker) + Len(list)
      <4>1. docker \in Seq(Query) /\ list \in Seq(Query)
        BY <1>1
      <4>2. seen \o docker \in Seq(Query) /\ Len(seen \o docker) = Len(seen) + Len(docker)
        BY <2>1, <4>1, LengthOfConcat
      <4> QED
        BY <4>1, <4>2, LengthOfConcat
    <3> QED
      BY <1>1, <2>1, <2>2, <3>1
  <2>4. ASSUME NEW i \in 1 .. Len(docker)
        PROVE  written[published + i] = docker[i]
    BY <1>1, <2>1, <2>2
  <2> QED
    BY <1>1, <2>3, <2>4
<1>3. Determined(written) /\ Replicas /\ CatchingUp
  BY DEF ReplicasInv
<1>4. ASSUME NEW w \in Workers, Write(w)
      PROVE  ReplicasInv'
  <2>1. PICK q \in job[w] : written' = Append(written, q)
    BY <1>4 DEF Write
  <2>2. q \in Query
    BY DEF IInv, TypeOK
  <2>3. /\ Determined(written)'
        /\ \A n \in 0 .. Len(written) : CacheOf'[n] = CacheOf[n]
    BY <1>1, <1>3, <2>1, <2>2, CacheOfStays
  <2>4. /\ UNCHANGED <<current, clone, docker, added, published>>
        /\ tpc' = tpc \/ (tpc = "wait" /\ tpc' = "woken")
    BY <1>4 DEF Write
  <2>5. \A n \in 1 .. Len(written) : written'[n] = written[n]
    BY <1>1, <2>1, <2>2
  <2>6. CatchingUp'
    <3> SUFFICES ASSUME tpc = "again"
                 PROVE  /\ Len(docker) <= published
                        /\ \A i \in 1 .. Len(docker) :
                              written'[published - Len(docker) + i] = docker[i]
      BY <2>4 DEF CatchingUp
    <3>1. Len(docker) <= published
      BY <1>3 DEF CatchingUp
    <3>2. \A i \in 1 .. Len(docker) : published - Len(docker) + i \in 1 .. Len(written)
      BY <1>1, <3>1
    <3> QED
      BY <1>3, <2>5, <3>1, <3>2 DEF CatchingUp
  <2>7. Replicas'
    <3>1. current = CacheOf[published] /\ CacheOf'[published] = CacheOf[published]
      BY <1>1, <1>3, <2>3 DEF Replicas
    <3>2. CASE tpc = "add"
      <4>1. published + added \in 0 .. Len(written) /\ clone = CacheOf[published + added]
        BY <1>1, <1>2, <1>3, <3>2 DEF Replicas
      <4>2. tpc' = "add" /\ clone' = CacheOf'[published' + added']
        BY <2>3, <2>4, <3>2, <4>1
      <4> QED
        BY <2>4, <3>1, <4>2 DEF Replicas
    <3>3. CASE tpc = "again"
      <4>1. /\ published - Len(docker) + added \in 0 .. Len(written)
            /\ clone = CacheOf[published - Len(docker) + added]
        BY <1>1, <1>3, <3>3 DEF Replicas, CatchingUp
      <4>2. tpc' = "again" /\ clone' = CacheOf'[published' - Len(docker') + added']
        BY <2>3, <2>4, <3>3, <4>1
      <4> QED
        BY <2>4, <3>1, <4>2 DEF Replicas
    <3>4. CASE tpc \notin {"add", "again"}
      BY <1>3, <2>4, <3>1, <3>4 DEF Replicas
    <3> QED
      BY <3>2, <3>3, <3>4
  <2> QED
    BY <2>3, <2>6, <2>7 DEF ReplicasInv
<1>5. ASSUME UNCHANGED written
      PROVE  Determined(written)' /\ CacheOf' = CacheOf
  BY <1>3, <1>5, Zenon DEF CacheOf
<1>6. CASE TakeList
  <2>1. /\ tpc = "woken" /\ tpc' = "add" /\ docker = << >> /\ added = 0
        /\ UNCHANGED <<current, clone, added, written, published>>
    BY <1>1, <1>6 DEF TakeList
  <2>2. current = CacheOf[published] /\ clone = current
    BY <1>3, <2>1 DEF Replicas
  <2>3. Replicas'
    BY <1>1, <1>5, <2>1, <2>2 DEF Replicas
  <2> QED
    BY <1>5, <2>1, <2>3 DEF ReplicasInv, CatchingUp
<1>7. CASE AddNode
  <2> DEFINE done == IF tpc = "add" THEN published + added
                     ELSE published - Len(docker) + added
  <2>1. /\ tpc \in {"add", "again"} /\ added < Len(docker)
        /\ clone' = AddElement(clone, docker[added + 1]) /\ added' = added + 1
        /\ UNCHANGED <<current, tpc, docker, written, published>>
    BY <1>7 DEF AddNode
  <2>2. /\ done + 1 \in 1 .. Len(written) /\ done \in Nat /\ (done + 1) - 1 = done
        /\ written[done + 1] = docker[added + 1]
    <3>1. added + 1 \in 1 .. Len(docker)
      BY <1>1, <2>1
    <3>2. CASE tpc = "add"
      BY <1>1, <1>2, <2>1, <3>1, <3>2
    <3>3. CASE tpc = "again"
      <4>1. published - Len(docker) + (added + 1) = (published - Len(docker) + added) + 1
        BY <1>1, <2>1
      <4>2. written[published - Len(docker) + (added + 1)] = docker[added + 1]
        BY <1>3, <3>1, <3>3 DEF CatchingUp
      <4>3. Len(docker) <= published
        BY <1>3, <3>3 DEF CatchingUp
      <4> QED
        BY <1>1, <2>1, <3>3, <4>1, <4>2, <4>3
    <3> QED
      BY <2>1, <3>2, <3>3
  <2>3. clone = CacheOf[done]
    BY <1>3, <2>1 DEF Replicas
  <2>4. CacheOf[done + 1] = AddElement(CacheOf[done], docker[added + 1])
    BY <1>1, <1>3, <2>2, CacheOfStays
  <2>5. clone' = CacheOf[done + 1]
    BY <2>1, <2>3, <2>4, Zenon
  <2>6. done + 1 = IF tpc = "add" THEN published + added'
                   ELSE published - Len(docker) + added'
    BY <1>1, <2>1
  <2> HIDE DEF done
  <2>7. /\ tpc' = "add" => clone' = CacheOf[published' + added']
        /\ tpc' = "again" => clone' = CacheOf[published' - Len(docker') + added']
    BY <2>1, <2>5, <2>6
  <2>8. Replicas'
    BY <1>3, <1>5, <2>1, <2>7 DEF Replicas
  <2>9. CatchingUp'
    BY <1>3, <2>1 DEF CatchingUp
  <2> QED
    BY <1>5, <2>1, <2>8, <2>9 DEF ReplicasInv
<1>8. CASE Publish
  <2>1. /\ tpc = "add" /\ tpc' = "again" /\ added = Len(docker) /\ added' = 0
        /\ current' = clone /\ clone' = current
        /\ published' = published + Len(docker) /\ UNCHANGED <<docker, written>>
    BY <1>8 DEF Publish
  <2>2. clone = CacheOf[published'] /\ current = CacheOf[published]
    BY <1>3, <2>1 DEF Replicas
  <2>3. /\ published' - Len(docker') + added' = published
        /\ published' - Len(docker') = published
    BY <1>1, <2>1
  <2>4. Replicas'
    BY <1>5, <2>1, <2>2, <2>3 DEF Replicas
  <2>5. CatchingUp'
    BY <1>1, <1>2, <2>1, <2>3 DEF CatchingUp
  <2> QED
    BY <1>5, <2>1, <2>4, <2>5 DEF ReplicasInv
<1>9. CASE Clear
  <2>1. /\ tpc = "again" /\ tpc' = "head" /\ added = Len(docker)
        /\ UNCHANGED <<current, clone, written, published>>
    BY <1>9 DEF Clear
  <2>2. published - Len(docker) + added = published
    BY <1>1, <2>1
  <2>3. clone = CacheOf[published] /\ current = CacheOf[published]
    BY <1>3, <2>1, <2>2 DEF Replicas
  <2>4. Replicas'
    BY <1>5, <2>1, <2>3 DEF Replicas
  <2> QED
    BY <1>5, <2>1, <2>4 DEF ReplicasInv, CatchingUp
<1>10. ASSUME UNCHANGED <<current, clone, docker, added, written, published>>,
              tpc' = tpc \/ {tpc, tpc'} \subseteq {"head", "wait", "woken"}
       PROVE  ReplicasInv'
  <2>1. Replicas'
    BY <1>3, <1>5, <1>10 DEF Replicas
  <2> QED
    BY <1>3, <1>5, <1>10, <2>1 DEF ReplicasInv, CatchingUp
<1>11. ASSUME NEW w \in Workers, NEW q \in Query, Read(w, q)
       PROVE  ReplicasInv'
  BY <1>10, <1>11 DEF Read, thread
<1>12. CASE Wait \/ Timeout
  BY <1>10, <1>12 DEF Wait, Timeout
<1>13. CASE UNCHANGED vars
  BY <1>10, <1>13 DEF vars, thread
<1> QED
  BY <1>4, <1>6, <1>7, <1>8, <1>9, <1>11, <1>12, <1>13
  DEF Next, WorkerNext, CacheThread

(* Readers always see the cache of the first writes, all of them and in    *)
(* order, however the workers and the cache thread interleave, and the     *)
(* clone is behind or ahead of it by the nodes still to be added.          *)
THEOREM ReplicasAgree == Spec => []Replicas
<1>1. Init => ReplicasInv
  <2> SUFFICES ASSUME Init
               PROVE  ReplicasInv
    OBVIOUS
  <2>1. written = << >> /\ published = 0 /\ tpc = "head" /\ current = Empty /\ clone = Empty
    BY DEF Init
  <2>2. Determined(<< >>)
    <3> DEFINE e(c, n) == IF n = 0 THEN Empty ELSE AddElement(c[n - 1], << >>[n])
               z == [n \in {0} |-> Empty]
    <3>1. 0 .. Len(<< >>) = {0}
      OBVIOUS
    <3>2. ASSUME NEW c
          PROVE  CachesOf(c, << >>) <=> c = z
      <4>1. \A n \in {0} : e(c, n) = Empty
        BY Zenon
      <4>2. [n \in {0} |-> e(c, n)] = z
        BY <4>1, Zenon
      <4> QED
        BY <3>1, <4>2, Zenon DEF CachesOf
    <3>3. CachesOf(z, << >>) /\ \A c : CachesOf(c, << >>) => c = z
      BY <3>2, Zenon
    <3> HIDE DEF z
    <3> QED
      BY <3>3, Zenon DEF Determined
  <2>3. Determined(written)
    BY <2>1, <2>2, Zenon
  <2>4. written \in Seq(Query)
    BY <2>1
  <2>5. CacheOf[0] = Empty
    BY <2>3, <2>4, CacheOfStays
  <2> QED
    BY <2>1, <2>3, <2>5 DEF ReplicasInv, Replicas, CatchingUp
<1>2. IInv /\ ReplicasInv /\ [Next]_vars => ReplicasInv'
  BY ReplicasStep
<1>3. ReplicasInv => Replicas
  BY DEF ReplicasInv
<1> QED
  BY <1>1, <1>2, <1>3, Invariance, PTL DEF Spec
=============================================================================
