---------------------------- MODULE BufferProofs ----------------------------
(***************************************************************************)
(* Proofs about Buffer, for any sizes of the vector and the extra buffer   *)
(* and any bytes.                                                          *)
(***************************************************************************)
EXTENDS Buffer, SequenceTheorems, WellFoundedInduction, TLAPS

Byte == {Blank} \cup UNION {Range(s) : s \in Data}

(* A buffer as its operations leave it.                                    *)
Shape(b) ==
    /\ b \in [mem : Seq(Byte), reader : Nat, writer : Nat]
    /\ b.reader <= b.writer /\ b.writer <= Len(b.mem)
    /\ Len(b.mem) >= kCheapPrepend + kInitialSize

(* Assignments to the parts of a buffer.                                   *)
LEMMA Updated ==
  ASSUME NEW m, NEW r, NEW w, NEW b, b = [mem |-> m, reader |-> r, writer |-> w],
         NEW x, NEW u, NEW v
  PROVE  /\ [b EXCEPT !.mem = x, !.writer = v] = [mem |-> x, reader |-> r, writer |-> v]
         /\ [b EXCEPT !.reader = u, !.writer = v] = [mem |-> m, reader |-> u, writer |-> v]
         /\ [b EXCEPT !.reader = u] = [mem |-> m, reader |-> u, writer |-> w]
         /\ [b EXCEPT !.writer = v] = [mem |-> m, reader |-> r, writer |-> v]
<1>1. PICK y : y = [mem |-> x, reader |-> r, writer |-> w]
  OBVIOUS
<1>2. PICK z : z = [mem |-> m, reader |-> u, writer |-> w]
  OBVIOUS
<1>3. [b EXCEPT !.mem = x] = y /\ [b EXCEPT !.reader = u] = z
  BY <1>1, <1>2
<1>4. [y EXCEPT !.writer = v] = [mem |-> x, reader |-> r, writer |-> v]
  BY <1>1
<1>5. [z EXCEPT !.writer = v] = [mem |-> m, reader |-> u, writer |-> v]
  BY <1>2
<1>6. [b EXCEPT !.mem = x, !.writer = v] = [[b EXCEPT !.mem = x] EXCEPT !.writer = v]
  OBVIOUS
<1>7. [b EXCEPT !.reader = u, !.writer = v] = [[b EXCEPT !.reader = u] EXCEPT !.writer = v]
  OBVIOUS
<1>8. [b EXCEPT !.writer = v] = [mem |-> m, reader |-> r, writer |-> v]
  OBVIOUS
<1>9. /\ [b EXCEPT !.mem = x, !.writer = v] = [y EXCEPT !.writer = v]
       /\ [b EXCEPT !.reader = u, !.writer = v] = [z EXCEPT !.writer = v]
  BY <1>3, <1>6, <1>7
<1> QED
  BY <1>2, <1>3, <1>4, <1>5, <1>8, <1>9, Zenon

(* A set of natural numbers has a least one.                               *)
LEMMA LeastNat ==
  ASSUME NEW S \in SUBSET Nat, S # {}
  PROVE  Min(S) \in S /\ \A n \in S : Min(S) <= n
<1>1. PICK R : R = OpToRel(<, Nat)
  OBVIOUS
<1>2. IsWellFoundedOn(R, Nat)
  BY <1>1, NatLessThanWellFounded, Zenon
<1>3. \E m \in S : \A n \in S : ~(<<n, m>> \in R)
  BY <1>2, WFMin, Zenon
<1>4. \A n, m \in Nat : n < m => <<n, m>> \in R
  BY <1>1 DEF OpToRel
<1>5. \E m \in S : \A n \in S : m <= n
  <2>1. PICK m \in S : \A n \in S : ~(<<n, m>> \in R)
    BY <1>3
  <2>2. ASSUME NEW n \in S
        PROVE  m <= n
    <3>1. m \in Nat /\ n \in Nat
      OBVIOUS
    <3>2. ~(n < m)
      BY <1>4, <2>1, <3>1, Zenon
    <3> QED
      BY <3>1, <3>2
  <2> QED
    BY <2>2
<1> QED
  BY <1>5 DEF Min

(* The greater of two numbers.                                             *)
LEMMA MaxOfTwo ==
  ASSUME NEW a \in Int, NEW b \in Int
  PROVE  Max({a, b}) = IF a >= b THEN a ELSE b
<1>1. \E x \in {a, b} : \A y \in {a, b} : x >= y
  OBVIOUS
<1>2. PICK m : m = Max({a, b})
  OBVIOUS
<1>3. m \in {a, b} /\ \A y \in {a, b} : m >= y
  BY <1>1, <1>2 DEF Max
<1> QED
  BY <1>2, <1>3

(* The lesser of two numbers.                                              *)
LEMMA MinOfTwo ==
  ASSUME NEW a \in Int, NEW b \in Int
  PROVE  Min({a, b}) = IF a <= b THEN a ELSE b
<1>1. \E x \in {a, b} : \A y \in {a, b} : x <= y
  OBVIOUS
<1>2. PICK m : m = Min({a, b})
  OBVIOUS
<1>3. m \in {a, b} /\ \A y \in {a, b} : m <= y
  BY <1>1, <1>2 DEF Min
<1> QED
  BY <1>2, <1>3
-----------------------------------------------------------------------------
(* What is appended are bytes.                                             *)
LEMMA DataIsBytes ==
  ASSUME NEW s \in Data
  PROVE  s \in Seq(Byte)
<1>1. s \in Seq(Range(s))
  BY DataAssumption
<1>2. Range(s) \subseteq Byte
  BY DEF Byte
<1> QED
  BY <1>1, <1>2, SeqMonotonic

(* The bytes that can be read.                                             *)
LEMMA ContentsAre ==
  ASSUME NEW b, Shape(b)
  PROVE  /\ Contents(b) \in Seq(Byte)
         /\ Len(Contents(b)) = b.writer - b.reader
         /\ \A i \in 1 .. b.writer - b.reader : Contents(b)[i] = b.mem[b.reader + i]
<1>1. PICK m \in Seq(Byte), r \in Nat, w \in Nat :
         /\ m = b.mem /\ r = b.reader /\ w = b.writer
         /\ r <= w /\ w <= Len(m)
  BY DEF Shape
<1>2. \A i \in r + 1 .. w : m[i] \in Byte
  <2>1. \A i \in r + 1 .. w : i \in 1 .. Len(m)
    BY <1>1
  <2> QED
    BY <1>1, <2>1, ElementOfSeq
<1>3. PICK s : s = SubSeq(m, r + 1, w)
  OBVIOUS
<1>4. /\ s \in Seq(Byte)
      /\ Len(s) = IF r + 1 <= w THEN w - (r + 1) + 1 ELSE 0
      /\ \A i \in 1 .. w - (r + 1) + 1 : s[i] = m[r + 1 + i - 1]
  <2>1. r + 1 \in Int /\ w \in Int
    BY <1>1
  <2> QED
    BY <1>2, <1>3, <2>1, SubSeqProperties
<1>5. Len(s) = w - r
  <2>1. CASE r = w
    BY <1>4, <2>1
  <2>2. CASE r < w
    <3>1. Len(s) = w - (r + 1) + 1
      BY <1>4, <2>2
    <3> QED
      BY <3>1
  <2> QED
    BY <1>1, <2>1, <2>2
<1>6. \A i \in 1 .. w - r : s[i] = m[r + i]
  <2>1. ASSUME NEW i \in 1 .. w - r
        PROVE  s[i] = m[r + i]
    <3>1. i \in 1 .. w - (r + 1) + 1 /\ r + 1 + i - 1 = r + i
      BY <1>1
    <3> QED
      BY <1>4, <3>1
  <2> QED
    BY <2>1
<1>7. Contents(b) = s
  BY <1>1, <1>3 DEF Contents
<1> QED
  BY <1>1, <1>4, <1>5, <1>6, <1>7

(* The same sequence of bytes.                                             *)
LEMMA SameContents ==
  ASSUME NEW b, Shape(b), NEW s \in Seq(Byte), Len(s) = b.writer - b.reader,
         \A i \in 1 .. Len(s) : b.mem[b.reader + i] = s[i]
  PROVE  Contents(b) = s
<1>1. PICK t : t = Contents(b)
  OBVIOUS
<1>2. /\ t \in Seq(Byte) /\ Len(t) = Len(s)
      /\ \A i \in 1 .. Len(t) : t[i] = s[i]
  BY <1>1, ContentsAre
<1> QED
  BY <1>1, <1>2, SeqEqual

(* Memory into which bytes were copied.                                    *)
LEMMA CopyIs ==
  ASSUME NEW mem \in Seq(Byte), NEW i \in Nat, NEW s \in Seq(Byte),
         i + Len(s) <= Len(mem)
  PROVE  /\ Copy(mem, i, s) \in Seq(Byte)
         /\ Len(Copy(mem, i, s)) = Len(mem)
         /\ \A k \in 1 .. Len(mem) :
               /\ i < k /\ k <= i + Len(s) => Copy(mem, i, s)[k] = s[k - i]
               /\ k <= i \/ i + Len(s) < k => Copy(mem, i, s)[k] = mem[k]
<1>1. DOMAIN s = 1 .. Len(s) /\ DOMAIN mem = 1 .. Len(mem)
      /\ Len(s) \in Nat /\ Len(mem) \in Nat
  BY LenProperties
<1>2. PICK c : c = Copy(mem, i, s)
  OBVIOUS
<1>3. c = [k \in 1 .. Len(mem) |-> IF k - i \in 1 .. Len(s) THEN s[k - i] ELSE mem[k]]
  BY <1>1, <1>2 DEF Copy
<1>4. \A k \in 1 .. Len(mem) :
         c[k] = IF k - i \in 1 .. Len(s) THEN s[k - i] ELSE mem[k]
  BY <1>3
<1>5. ASSUME NEW k \in 1 .. Len(mem)
      PROVE  c[k] \in Byte
    <2>1. CASE k - i \in 1 .. Len(s)
      BY <1>4, <2>1, ElementOfSeq
    <2>2. CASE k - i \notin 1 .. Len(s)
      BY <1>4, <2>2, ElementOfSeq
    <2> QED
      BY <2>1, <2>2
<1>6. c \in [1 .. Len(mem) -> Byte]
  BY <1>3, <1>5
<1>7. c \in Seq(Byte)
  BY <1>1, <1>6
<1>8. Len(c) = Len(mem)
  BY <1>1, <1>3, <1>7, LenProperties
<1>9. ASSUME NEW k \in 1 .. Len(mem)
      PROVE  /\ i < k /\ k <= i + Len(s) => c[k] = s[k - i]
             /\ k <= i \/ i + Len(s) < k => c[k] = mem[k]
  BY <1>1, <1>4
<1> QED
  BY <1>2, <1>7, <1>8, <1>9

(* Memory that was grown.                                                  *)
LEMMA ResizeIs ==
  ASSUME NEW mem \in Seq(Byte), NEW n \in Nat, Len(mem) <= n
  PROVE  /\ Resize(mem, n) \in Seq(Byte)
         /\ Len(Resize(mem, n)) = n
         /\ \A k \in 1 .. Len(mem) : Resize(mem, n)[k] = mem[k]
<1>1. PICK d \in Nat : d = n - Len(mem)
  BY LenProperties
<1>2. PICK f : f = [i \in 1 .. d |-> Blank]
  OBVIOUS
<1>3. f \in [1 .. d -> Byte]
  BY <1>2 DEF Byte
<1>4. f \in Seq(Byte) /\ Len(f) = d
  <2>1. f \in Seq(Byte)
    BY <1>1, <1>3
  <2> QED
    BY <1>1, <1>2, <2>1, LenProperties
<1>5. Resize(mem, n) = mem \o f
  BY <1>1, <1>2 DEF Resize
<1>6. Len(mem) \in Nat
  BY LenProperties
<1> QED
  BY <1>1, <1>4, <1>5, <1>6, ConcatProperties
-----------------------------------------------------------------------------
(* A buffer c in the place of b: with the same bytes and room for n more.  *)
(* It was grown only if reading had not left half of it free.              *)
MadeRoom(b, c, n) ==
    /\ Shape(c) /\ Contents(c) = Contents(b)
    /\ c.writer - c.reader = b.writer - b.reader
    /\ Len(c.mem) - c.writer >= n
    /\ \/ Len(c.mem) = Len(b.mem)
       \/ Len(c.mem) <= kCheapPrepend + 2 * (b.writer - b.reader + n)

(* The two ways of makeSpace: the bytes are moved to the front ...         *)
LEMMA MovedToFront ==
  ASSUME NEW b, Shape(b), NEW n \in Nat, writableBytes(b) < n, FitsInFront(b, n)
  PROVE  MadeRoom(b, MakeSpace(b, n), n)
<1>1. PICK m \in Seq(Byte), r \in Nat, w \in Nat, l \in Nat :
         /\ m = b.mem /\ r = b.reader /\ w = b.writer /\ l = Len(m)
         /\ r <= w /\ w <= l /\ l >= kCheapPrepend + kInitialSize
  BY LenProperties DEF Shape
<1>2. kCheapPrepend \in Nat /\ kInitialSize \in Nat
  BY SizesAssumption
<1>3. l - w < n /\ l - w + r >= n + kCheapPrepend
  BY <1>1 DEF FitsInFront, writableBytes, prependableBytes
<1>4. PICK s : s = Contents(b)
  OBVIOUS
<1>5. s \in Seq(Byte) /\ Len(s) = w - r
  BY <1>1, <1>4, ContentsAre
<1>6. kCheapPrepend + Len(s) <= l
  <2>1. w - r + kCheapPrepend <= l
    BY <1>2, <1>3
  <2> QED
    BY <1>2, <1>5, <2>1
<1>7. PICK x : x = Copy(m, kCheapPrepend, s)
  OBVIOUS
<1>8. /\ x \in Seq(Byte) /\ Len(x) = l
      /\ \A k \in 1 .. l : kCheapPrepend < k /\ k <= kCheapPrepend + Len(s)
                              => x[k] = s[k - kCheapPrepend]
  <2>1. m \in Seq(Byte) /\ Len(m) = l /\ kCheapPrepend + Len(s) <= Len(m)
    BY <1>1, <1>6
  <2>2. /\ Copy(m, kCheapPrepend, s) \in Seq(Byte)
        /\ Len(Copy(m, kCheapPrepend, s)) = Len(m)
        /\ \A k \in 1 .. Len(m) :
              /\ kCheapPrepend < k /\ k <= kCheapPrepend + Len(s)
                    => Copy(m, kCheapPrepend, s)[k] = s[k - kCheapPrepend]
              /\ k <= kCheapPrepend \/ kCheapPrepend + Len(s) < k
                    => Copy(m, kCheapPrepend, s)[k] = m[k]
    BY <1>2, <1>5, <2>1, CopyIs, Zenon
  <2> QED
    BY <1>7, <2>1, <2>2, Zenon
<1>9. PICK c : c = [mem |-> x, reader |-> kCheapPrepend, writer |-> kCheapPrepend + (w - r)]
  OBVIOUS
<1>10. MakeSpace(b, n) = c
  BY <1>1, <1>4, <1>7, <1>9 DEF MakeSpace, readableBytes
<1>11. Shape(c)
  BY <1>1, <1>2, <1>5, <1>6, <1>8, <1>9 DEF Shape
<1>12. \A i \in 1 .. Len(s) : x[kCheapPrepend + i] = s[i]
  <2>1. ASSUME NEW i \in 1 .. Len(s)
        PROVE  x[kCheapPrepend + i] = s[i]
    <3>1. PICK k \in 1 .. l : k = kCheapPrepend + i
      BY <1>1, <1>2, <1>5, <1>6
    <3>2. kCheapPrepend < k /\ k <= kCheapPrepend + Len(s) /\ k - kCheapPrepend = i
      BY <1>1, <1>2, <1>5, <3>1
    <3> QED
      BY <1>8, <3>1, <3>2
  <2> QED
    BY <2>1
<1>13. c.mem = x /\ c.reader = kCheapPrepend /\ c.writer = kCheapPrepend + (w - r)
  BY <1>9
<1>14. c.writer - c.reader = w - r
  BY <1>1, <1>2, <1>13
<1>15. Contents(c) = s
  <2>1. Len(s) = c.writer - c.reader
    BY <1>5, <1>14
  <2>2. \A i \in 1 .. Len(s) : c.mem[c.reader + i] = s[i]
    BY <1>12, <1>13
  <2> QED
    BY <1>5, <1>11, <2>1, <2>2, SameContents, Zenon
<1>16. Len(c.mem) - c.writer >= n
  <2>1. l - (kCheapPrepend + (w - r)) >= n
    BY <1>2, <1>3
  <2> QED
    BY <1>8, <1>13, <2>1, Zenon
<1> QED
  BY <1>1, <1>4, <1>8, <1>10, <1>11, <1>13, <1>14, <1>15, <1>16 DEF MadeRoom

(* ... or the vector is grown.                                             *)
LEMMA Grown ==
  ASSUME NEW b, Shape(b), NEW n \in Nat, writableBytes(b) < n, ~FitsInFront(b, n)
  PROVE  MadeRoom(b, MakeSpace(b, n), n)
<1>1. PICK m \in Seq(Byte), r \in Nat, w \in Nat, l \in Nat :
         /\ m = b.mem /\ r = b.reader /\ w = b.writer /\ l = Len(m)
         /\ r <= w /\ w <= l /\ l >= kCheapPrepend + kInitialSize
  BY LenProperties DEF Shape
<1>2. kCheapPrepend \in Nat /\ kInitialSize \in Nat
  BY SizesAssumption
<1>3. l - w < n /\ l - w + r < n + kCheapPrepend
  BY <1>1, <1>2 DEF FitsInFront, writableBytes, prependableBytes
<1>4. PICK x : x = Resize(m, w + n)
  OBVIOUS
<1>5. w + n \in Nat /\ l <= w + n
  BY <1>1, <1>3
<1>6. /\ x \in Seq(Byte) /\ Len(x) = w + n
      /\ \A k \in 1 .. l : x[k] = m[k]
  BY <1>1, <1>4, <1>5, ResizeIs
<1>7. PICK c : c = [mem |-> x, reader |-> r, writer |-> w]
  OBVIOUS
<1>8. MakeSpace(b, n) = c
  <2>1. b = [mem |-> m, reader |-> r, writer |-> w]
    BY <1>1 DEF Shape
  <2>2. [b EXCEPT !.mem = x] = c
    BY <1>7, <2>1
  <2> QED
    BY <1>1, <1>4, <2>2 DEF MakeSpace
<1>9. Shape(c)
  BY <1>1, <1>2, <1>5, <1>6, <1>7 DEF Shape
<1>10. PICK s : s = Contents(b)
  OBVIOUS
<1>11. s \in Seq(Byte) /\ Len(s) = w - r /\ \A i \in 1 .. w - r : s[i] = m[r + i]
  BY <1>1, <1>10, ContentsAre
<1>12. \A i \in 1 .. Len(s) : x[r + i] = s[i]
  <2>1. \A i \in 1 .. w - r : r + i \in 1 .. l
    BY <1>1
  <2> QED
    BY <1>6, <1>11, <2>1
<1>13. Contents(c) = s
  <2>1. Len(s) = c.writer - c.reader
    BY <1>7, <1>11
  <2>2. \A i \in 1 .. Len(s) : c.mem[c.reader + i] = s[i]
    BY <1>7, <1>12
  <2> QED
    BY <1>9, <1>11, <2>1, <2>2, SameContents, Zenon
<1>14. w + n <= kCheapPrepend + 2 * (w - r + n)
  <2>1. r <= w /\ w <= l
    BY <1>1
  <2>2. r < n + kCheapPrepend
    BY <1>2, <1>3, <2>1
  <2> QED
    BY <1>2, <2>1, <2>2
<1> QED
  BY <1>1, <1>6, <1>7, <1>8, <1>9, <1>10, <1>13, <1>14 DEF MadeRoom

(* ensureWritableBytes: there is room, and what it asserts is true.        *)
LEMMA EnsureIs ==
  ASSUME NEW b, Shape(b), NEW n \in Nat
  PROVE  MadeRoom(b, EnsureWritable(b, n), n) /\ SpaceIsSound(b, n)
<1>1. PICK c : c = EnsureWritable(b, n)
  OBVIOUS
<1>2. MadeRoom(b, c, n)
  <2>1. CASE writableBytes(b) < n
    BY <1>1, <2>1, MovedToFront, Grown DEF EnsureWritable
  <2>2. CASE ~(writableBytes(b) < n)
    <3>1. c = b
      BY <1>1, <2>2 DEF EnsureWritable
    <3>2. Len(b.mem) \in Nat /\ b.writer \in Nat
      BY LenProperties DEF Shape
    <3>3. Len(b.mem) - b.writer >= n
      BY <2>2, <3>2 DEF writableBytes
    <3> QED
      BY <3>1, <3>3 DEF MadeRoom
  <2> QED
    BY <2>1, <2>2
<1>3. writableBytes(b) < n /\ FitsInFront(b, n) => kCheapPrepend < b.reader
  <2>1. Len(b.mem) \in Nat /\ b.writer \in Nat /\ b.reader \in Nat /\ kCheapPrepend \in Nat
    BY LenProperties, SizesAssumption DEF Shape
  <2> QED
    BY <2>1 DEF FitsInFront, writableBytes, prependableBytes
<1>4. SpaceIsSound(b, n)
  BY <1>1, <1>2, <1>3 DEF SpaceIsSound, MadeRoom, readableBytes, writableBytes
<1> QED
  BY <1>1, <1>2, <1>4
-----------------------------------------------------------------------------
(* A buffer c that holds the bytes s, and whose vector is that of b, or in *)
(* proportion to them.                                                     *)
Holds(c, s, b) ==
    /\ Shape(c) /\ Contents(c) = s /\ s \in Seq(Byte)
    /\ c.writer - c.reader = Len(s)
    /\ \/ Len(c.mem) = Len(b.mem)
       \/ Len(c.mem) <= kCheapPrepend + 2 * Len(s)

(* Bytes are put where there is room for them.                             *)
LEMMA PutIs ==
  ASSUME NEW b, Shape(b), NEW s \in Seq(Byte), Len(s) <= writableBytes(b)
  PROVE  /\ Shape(Put(b, s)) /\ Contents(Put(b, s)) = Contents(b) \o s
         /\ Len(Put(b, s).mem) = Len(b.mem)
<1>1. PICK m \in Seq(Byte), r \in Nat, w \in Nat, l \in Nat, k \in Nat :
         /\ b = [mem |-> m, reader |-> r, writer |-> w] /\ l = Len(m) /\ k = Len(s)
         /\ r <= w /\ w <= l /\ l >= kCheapPrepend + kInitialSize
  BY LenProperties DEF Shape
<1>2. w + k <= l
  BY <1>1 DEF writableBytes
<1>3. PICK x : x = Copy(m, w, s)
  OBVIOUS
<1>4. /\ x \in Seq(Byte) /\ Len(x) = l
      /\ \A i \in 1 .. l : /\ w < i /\ i <= w + k => x[i] = s[i - w]
                           /\ i <= w \/ w + k < i => x[i] = m[i]
  <2>1. m \in Seq(Byte) /\ w \in Nat /\ Len(m) = l /\ Len(s) = k /\ w + Len(s) <= Len(m)
    BY <1>1, <1>2
  <2>2. /\ Copy(m, w, s) \in Seq(Byte) /\ Len(Copy(m, w, s)) = Len(m)
        /\ \A i \in 1 .. Len(m) :
              /\ w < i /\ i <= w + Len(s) => Copy(m, w, s)[i] = s[i - w]
              /\ i <= w \/ w + Len(s) < i => Copy(m, w, s)[i] = m[i]
    BY <2>1, CopyIs, Zenon
  <2> QED
    BY <1>3, <2>1, <2>2, Zenon
<1>5. PICK c : c = [mem |-> x, reader |-> r, writer |-> w + k]
  OBVIOUS
<1>6. Put(b, s) = c
  <2>1. b.mem = m /\ b.writer = w /\ Copy(b.mem, b.writer, s) = x
    BY <1>1, <1>3
  <2>2. Put(b, s) = [b EXCEPT !.mem = x, !.writer = w + k]
    BY <1>1, <2>1 DEF Put
  <2> QED
    BY <1>1, <1>5, <2>2, Updated, Zenon
<1>7. Shape(c)
  <2>1. r <= w + k /\ w + k \in Nat
    BY <1>1
  <2> QED
    BY <1>1, <1>2, <1>4, <1>5, <2>1 DEF Shape
<1>8. PICK t : t = Contents(b)
  OBVIOUS
<1>9. t \in Seq(Byte) /\ Len(t) = w - r /\ \A i \in 1 .. w - r : t[i] = m[r + i]
  BY <1>1, <1>8, ContentsAre
<1>10. PICK u : u = t \o s
  OBVIOUS
<1>11. /\ u \in Seq(Byte) /\ Len(u) = w - r + k
       /\ \A i \in 1 .. w - r + k : u[i] = IF i <= w - r THEN t[i] ELSE s[i - (w - r)]
  <2>1. /\ u \in Seq(Byte) /\ Len(u) = Len(t) + Len(s)
        /\ \A i \in 1 .. Len(t) + Len(s) :
              u[i] = IF i <= Len(t) THEN t[i] ELSE s[i - Len(t)]
    BY <1>9, <1>10, ConcatProperties
  <2>2. Len(t) = w - r /\ Len(s) = k
    BY <1>1, <1>9
  <2> QED
    BY <2>1, <2>2, Zenon
<1>12. ASSUME NEW i \in 1 .. Len(u)
       PROVE  x[r + i] = u[i]
  <2>1. i \in 1 .. w - r + k /\ i \in Int
    BY <1>11
  <2>2. PICK j \in 1 .. l : j = r + i
    BY <1>1, <1>2, <2>1
  <2>3. CASE i <= w - r
    <3>1. u[i] = t[i] /\ i \in 1 .. w - r
      BY <1>11, <2>1, <2>3
    <3>2. j <= w
      BY <1>1, <2>1, <2>2, <2>3
    <3> QED
      BY <1>4, <1>9, <2>2, <3>1, <3>2
  <2>4. CASE i > w - r
    <3>1. u[i] = s[i - (w - r)]
      BY <1>11, <2>1, <2>4
    <3>2. w < j /\ j <= w + k /\ j - w = i - (w - r)
      BY <1>1, <2>1, <2>2, <2>4
    <3> QED
      BY <1>4, <2>2, <3>1, <3>2
  <2> QED
    BY <2>1, <2>3, <2>4
<1>13. c.mem = x /\ c.reader = r /\ c.writer = w + k
  BY <1>5
<1>14. Len(u) = c.writer - c.reader
  <2>1. w - r + k = (w + k) - r
    BY <1>1
  <2> QED
    BY <1>11, <1>13, <2>1
<1>15. Contents(c) = u
  <2>1. \A i \in 1 .. Len(u) : c.mem[c.reader + i] = u[i]
    BY <1>12, <1>13
  <2> QED
    BY <1>7, <1>11, <1>14, <2>1, SameContents
<1> QED
  BY <1>1, <1>4, <1>6, <1>7, <1>8, <1>10, <1>13, <1>15

(* append                                                                  *)
LEMMA AppendToIs ==
  ASSUME NEW b, Shape(b), NEW s \in Seq(Byte)
  PROVE  /\ Holds(AppendTo(b, s), Contents(b) \o s, b)
         /\ SpaceIsSound(b, Len(s))
<1>1. PICK n, c : n \in Nat /\ n = Len(s) /\ c = EnsureWritable(b, n)
  BY LenProperties
<1>2. MadeRoom(b, c, n) /\ SpaceIsSound(b, n)
  BY <1>1, EnsureIs
<1>3. PICK t : t = Contents(b)
  OBVIOUS
<1>4. /\ t \in Seq(Byte) /\ Len(t) = b.writer - b.reader /\ Shape(c) /\ Contents(c) = t
      /\ n <= writableBytes(c)
  <2>1. n <= writableBytes(c)
    <3>1. Len(c.mem) \in Nat /\ c.writer \in Nat
      BY <1>2, LenProperties DEF MadeRoom, Shape
    <3> QED
      BY <1>2, <3>1 DEF MadeRoom, writableBytes
  <2> QED
    BY <1>2, <1>3, <2>1, ContentsAre DEF MadeRoom
<1>5. PICK d : d = Put(c, s)
  OBVIOUS
<1>6. Shape(d) /\ Contents(d) = t \o s /\ Len(d.mem) = Len(c.mem)
  BY <1>1, <1>4, <1>5, PutIs
<1>7. t \o s \in Seq(Byte) /\ Len(t \o s) = Len(t) + n
  BY <1>1, <1>4, ConcatProperties
<1>8. d.writer - d.reader = Len(t \o s)
  BY <1>6, ContentsAre
<1>9. AppendTo(b, s) = d
  BY <1>1, <1>5 DEF AppendTo
<1>10. \/ Len(d.mem) = Len(b.mem)
       \/ Len(d.mem) <= kCheapPrepend + 2 * Len(t \o s)
  BY <1>2, <1>4, <1>6, <1>7 DEF MadeRoom
<1> QED
  BY <1>1, <1>2, <1>3, <1>6, <1>7, <1>8, <1>9, <1>10 DEF Holds

(* A sequence is what two adjacent parts of it make up.                    *)
LEMMA SplitAt ==
  ASSUME NEW s \in Seq(Byte), NEW n \in 0 .. Len(s)
  PROVE  /\ SubSeq(s, 1, n) \in Seq(Byte) /\ Len(SubSeq(s, 1, n)) = n
         /\ SubSeq(s, n + 1, Len(s)) \in Seq(Byte)
         /\ Len(SubSeq(s, n + 1, Len(s))) = Len(s) - n
         /\ SubSeq(s, 1, n) \o SubSeq(s, n + 1, Len(s)) = s
<1>1. Len(s) \in Nat /\ n \in Nat /\ n <= Len(s)
  BY LenProperties
<1>2. \A i \in 1 .. Len(s) : s[i] \in Byte
  BY ElementOfSeq
<1>3. SubSeq(s, 1, n) \in Seq(Byte) /\ Len(SubSeq(s, 1, n)) = n
  <2>1. \A i \in 1 .. n : s[i] \in Byte
    BY <1>1, <1>2
  <2>2. /\ SubSeq(s, 1, n) \in Seq(Byte)
        /\ Len(SubSeq(s, 1, n)) = IF 1 <= n THEN n - 1 + 1 ELSE 0
    BY <1>1, <2>1, SubSeqProperties
  <2>3. n = IF 1 <= n THEN n - 1 + 1 ELSE 0
    BY <1>1
  <2> QED
    BY <2>2, <2>3
<1>4. /\ SubSeq(s, n + 1, Len(s)) \in Seq(Byte)
      /\ Len(SubSeq(s, n + 1, Len(s))) = Len(s) - n
  <2>1. \A i \in n + 1 .. Len(s) : s[i] \in Byte
    BY <1>1, <1>2
  <2>2. /\ SubSeq(s, n + 1, Len(s)) \in Seq(Byte)
        /\ Len(SubSeq(s, n + 1, Len(s)))
             = IF n + 1 <= Len(s) THEN Len(s) - (n + 1) + 1 ELSE 0
    BY <1>1, <2>1, SubSeqProperties
  <2>3. Len(s) - n = IF n + 1 <= Len(s) THEN Len(s) - (n + 1) + 1 ELSE 0
    BY <1>1
  <2> QED
    BY <2>2, <2>3
<1>5. SubSeq(s, 1, n) \o SubSeq(s, n + 1, Len(s)) = s
  <2>1. 1 \in 1 .. Len(s) + 1 /\ n \in 1 - 1 .. Len(s) /\ Len(s) \in n .. Len(s)
    BY <1>1
  <2>2. SubSeq(s, 1, n) \o SubSeq(s, n + 1, Len(s)) = SubSeq(s, 1, Len(s))
    BY <2>1, ConcatAdjacentSubSeq
  <2> QED
    BY <2>2, SubSeqFull
<1> QED
  BY <1>3, <1>4, <1>5

(* Bytes of the buffer, bytes for the vector, and the rest.                *)
LEMMA BytesAssociate ==
  \A s, t, u \in Seq(Byte) : (s \o t) \o u = s \o (t \o u)
BY ConcatAssociative

(* readFd: what the vector has room for, then the overflow.                *)
LEMMA ReceivedIs ==
  ASSUME NEW b, Shape(b), NEW s \in Seq(Byte)
  PROVE  /\ Holds(Received(b, s), Contents(b) \o s, b)
         /\ SpaceIsSound(InVector(b, s), Len(Overflow(b, s)))
<1>1. PICK n \in Nat, k \in Nat : n = writableBytes(b) /\ k = Len(s)
  BY LenProperties DEF Shape, writableBytes
<1>2. PICK q \in 0 .. k : q = Min({k, n}) /\ q = IF k <= n THEN k ELSE n
  BY MinOfTwo
<1>3. PICK p, o, d : p = SubSeq(s, 1, q) /\ o = Overflow(b, s) /\ d = InVector(b, s)
  OBVIOUS
<1>4. p \in Seq(Byte) /\ Len(p) = q
  BY <1>1, <1>3, SplitAt
<1>5. o \in Seq(Byte) /\ p \o o = s
  <2>1. CASE k <= n
    <3>1. n + 1 \in Int /\ k \in Int /\ k < n + 1
      BY <2>1
    <3>2. o = << >>
      BY <1>1, <1>3, <3>1, SubSeqEmpty DEF Overflow
    <3>3. p = s
      BY <1>1, <1>2, <1>3, <2>1, SubSeqFull
    <3> QED
      BY <3>2, <3>3, EmptySeq, ConcatEmptySeq
  <2>2. CASE ~(k <= n)
    <3>1. o = SubSeq(s, q + 1, Len(s))
      BY <1>1, <1>2, <1>3, <2>2 DEF Overflow
    <3> QED
      BY <1>1, <1>3, <3>1, SplitAt
  <2> QED
    BY <2>1, <2>2
<1>6. d = Put(b, p)
  BY <1>1, <1>2, <1>3 DEF InVector
<1>7. Len(p) <= writableBytes(b)
  BY <1>1, <1>2, <1>4
<1>8. Shape(d) /\ Contents(d) = Contents(b) \o p /\ Len(d.mem) = Len(b.mem)
  BY <1>4, <1>6, <1>7, PutIs
<1>9. PICK t : t = Contents(b)
  OBVIOUS
<1>10. t \in Seq(Byte) /\ (t \o p) \o o = t \o s
  <2>1. t \in Seq(Byte)
    BY <1>9, ContentsAre
  <2>2. (t \o p) \o o = t \o (p \o o)
    BY <1>4, <1>5, <2>1, BytesAssociate, Zenon
  <2> QED
    BY <1>5, <2>1, <2>2, Zenon
<1>11. SpaceIsSound(d, Len(o))
  BY <1>5, <1>8, EnsureIs, LenProperties
<1>12. Holds(Received(b, s), t \o s, b)
  <2>1. CASE o = << >>
    <3>1. Received(b, s) = d
      BY <1>3, <2>1 DEF Received
    <3>2. p = s
      BY <1>4, <1>5, <2>1, ConcatEmptySeq
    <3>3. Contents(d) = t \o s
      BY <1>8, <1>9, <3>2
    <3>4. t \o s \in Seq(Byte) /\ d.writer - d.reader = Len(t \o s)
      BY <1>8, <3>3, ContentsAre
    <3> QED
      BY <1>8, <3>1, <3>3, <3>4 DEF Holds
  <2>2. CASE o # << >>
    <3>1. PICK e : e = AppendTo(d, o)
      OBVIOUS
    <3>2. Received(b, s) = e
      BY <1>3, <2>2, <3>1 DEF Received
    <3>3. Holds(e, Contents(d) \o o, d)
      BY <1>5, <1>8, <3>1, AppendToIs
    <3>4. Contents(d) \o o = t \o s
      BY <1>8, <1>9, <1>10
    <3> QED
      BY <1>8, <3>2, <3>3, <3>4 DEF Holds
  <2> QED
    BY <2>1, <2>2
<1> QED
  BY <1>3, <1>9, <1>11, <1>12
-----------------------------------------------------------------------------
(* prepend: the bytes are put before the others.                           *)
LEMMA PrependIs ==
  ASSUME NEW b, Shape(b), NEW s \in Seq(Byte), Len(s) <= prependableBytes(b)
  PROVE  Holds([b EXCEPT !.reader = @ - Len(s),
                         !.mem = Copy(@, b.reader - Len(s), s)],
               s \o Contents(b), b)
<1>1. PICK m \in Seq(Byte), r \in Nat, w \in Nat, l \in Nat, k \in Nat :
         /\ b = [mem |-> m, reader |-> r, writer |-> w] /\ l = Len(m) /\ k = Len(s)
         /\ r <= w /\ w <= l /\ l >= kCheapPrepend + kInitialSize
  BY LenProperties DEF Shape
<1>2. b.mem = m /\ b.reader = r /\ b.writer = w /\ k <= r
  BY <1>1 DEF prependableBytes
<1>3. PICK v \in Nat : v = r - k
  BY <1>2
<1>4. PICK x : x = Copy(m, v, s)
  OBVIOUS
<1>5. PICK c : c = [mem |-> x, reader |-> v, writer |-> w]
  OBVIOUS
<1>6. /\ x \in Seq(Byte) /\ Len(x) = l
      /\ \A i \in 1 .. l : /\ v < i /\ i <= r => x[i] = s[i - v]
                           /\ r < i => x[i] = m[i]
  <2>1. m \in Seq(Byte) /\ v \in Nat /\ v + Len(s) <= Len(m)
    BY <1>1, <1>2, <1>3
  <2>2. /\ Copy(m, v, s) \in Seq(Byte) /\ Len(Copy(m, v, s)) = Len(m)
        /\ \A i \in 1 .. Len(m) :
              /\ v < i /\ i <= v + Len(s) => Copy(m, v, s)[i] = s[i - v]
              /\ i <= v \/ v + Len(s) < i => Copy(m, v, s)[i] = m[i]
    BY <2>1, CopyIs, Zenon
  <2>3. v + Len(s) = r /\ Len(m) = l
    BY <1>1, <1>2, <1>3
  <2> QED
    BY <1>4, <2>2, <2>3, Zenon
<1>7. Shape(c)
  <2>1. v <= w
    BY <1>1, <1>2, <1>3
  <2> QED
    BY <1>1, <1>5, <1>6, <2>1 DEF Shape
<1>8. PICK t, u : t = Contents(b) /\ u = s \o t
  OBVIOUS
<1>9. t \in Seq(Byte) /\ Len(t) = w - r /\ \A i \in 1 .. w - r : t[i] = m[r + i]
  BY <1>2, <1>8, ContentsAre
<1>10. /\ u \in Seq(Byte) /\ Len(u) = w - v
       /\ \A i \in 1 .. w - v : u[i] = IF i <= k THEN s[i] ELSE t[i - k]
  <2>1. /\ u \in Seq(Byte) /\ Len(u) = Len(s) + Len(t)
        /\ \A i \in 1 .. Len(s) + Len(t) :
              u[i] = IF i <= Len(s) THEN s[i] ELSE t[i - Len(s)]
    BY <1>8, <1>9, ConcatProperties
  <2>2. Len(s) = k /\ Len(s) + Len(t) = w - v
    BY <1>1, <1>2, <1>3, <1>9
  <2> QED
    BY <2>1, <2>2, Zenon
<1>11. ASSUME NEW i \in 1 .. w - v
       PROVE  x[v + i] = u[i]
  <2>1. PICK j \in 1 .. l : j = v + i
    <3>1. w <= l
      BY <1>1
    <3>2. v + i \in 1 .. l
      BY <3>1
    <3> QED
      BY <3>2
  <2>2. CASE i <= k
    <3>1. v < j /\ j <= r /\ j - v = i
      BY <1>1, <1>2, <1>3, <2>1, <2>2
    <3> QED
      BY <1>6, <1>10, <2>1, <2>2, <3>1
  <2>3. CASE ~(i <= k)
    <3>1. r < j /\ i - k \in 1 .. w - r /\ r + (i - k) = j
      BY <1>1, <1>2, <1>3, <2>1, <2>3
    <3> QED
      BY <1>6, <1>9, <1>10, <2>1, <2>3, <3>1
  <2> QED
    BY <2>2, <2>3
<1>12. c.mem = x /\ c.reader = v /\ c.writer = w
  BY <1>5
<1>13. Contents(c) = u
  <2>1. Len(u) = c.writer - c.reader
    BY <1>10, <1>12, Zenon
  <2>2. \A i \in 1 .. Len(u) : c.mem[c.reader + i] = u[i]
    BY <1>10, <1>11, <1>12, Zenon
  <2> QED
    BY <1>7, <1>10, <2>1, <2>2, SameContents
<1>14. [b EXCEPT !.reader = @ - Len(s), !.mem = Copy(@, b.reader - Len(s), s)] = c
  <2>1. b.reader - Len(s) = v /\ Copy(b.mem, b.reader - Len(s), s) = x
    BY <1>1, <1>2, <1>3, <1>4
  <2>2. [b EXCEPT !.reader = v, !.mem = x] = c
    <3>1. PICK z : z = [mem |-> m, reader |-> v, writer |-> w]
      OBVIOUS
    <3>2. [b EXCEPT !.reader = v] = z
      BY <1>1, <3>1
    <3>3. [z EXCEPT !.mem = x] = c
      BY <1>5, <3>1
    <3>4. [b EXCEPT !.reader = v, !.mem = x] = [[b EXCEPT !.reader = v] EXCEPT !.mem = x]
      OBVIOUS
    <3> QED
      BY <3>2, <3>3, <3>4, Zenon
  <2> QED
    BY <2>1, <2>2, Zenon
<1>15. Holds(c, u, b)
  BY <1>1, <1>2, <1>6, <1>7, <1>10, <1>12, <1>13 DEF Holds
<1> QED
  BY <1>8, <1>14, <1>15, Zenon

(* retrieve: what is left when n bytes were taken, or more than there are. *)
LEMMA RetrievedIs ==
  ASSUME NEW b, Shape(b), NEW n \in 0 .. b.writer - b.reader
  PROVE  Holds(Retrieved(b, n), SubSeq(Contents(b), n + 1, Len(Contents(b))), b)
<1>1. PICK m \in Seq(Byte), r \in Nat, w \in Nat, l \in Nat :
         /\ b = [mem |-> m, reader |-> r, writer |-> w] /\ l = Len(m)
         /\ r <= w /\ w <= l /\ l >= kCheapPrepend + kInitialSize
  BY LenProperties DEF Shape
<1>2. b.mem = m /\ b.reader = r /\ b.writer = w /\ n \in 0 .. w - r
  BY <1>1
<1>3. PICK t, u, c : /\ t = Contents(b) /\ u = SubSeq(t, n + 1, Len(t))
                     /\ c = Retrieved(b, n)
  OBVIOUS
<1>4. t \in Seq(Byte) /\ Len(t) = w - r /\ \A i \in 1 .. w - r : t[i] = m[r + i]
  BY <1>2, <1>3, ContentsAre
<1>5. u \in Seq(Byte) /\ Len(u) = w - r - n
  BY <1>2, <1>3, <1>4, SplitAt
<1>6. CASE n < w - r
  <2>1. PICK v \in Nat : v = r + n
    BY <1>1, <1>2
  <2>2. c = [mem |-> m, reader |-> v, writer |-> w]
    <3>1. c = [b EXCEPT !.reader = v]
      BY <1>2, <1>3, <1>6, <2>1 DEF Retrieved, readableBytes
    <3> QED
      BY <1>1, <3>1, Updated, Zenon
  <2>3. Shape(c)
    <3>1. v <= w
      BY <1>1, <1>2, <2>1
    <3> QED
      BY <1>1, <2>2, <3>1 DEF Shape
  <2>4. c.mem = m /\ c.reader = v /\ c.writer = w /\ w - v = w - r - n
    BY <1>1, <1>2, <2>1, <2>2
  <2>5. ASSUME NEW i \in 1 .. w - r - n
        PROVE  m[v + i] = u[i]
    <3>1. n + 1 \in Int /\ w - r \in Int /\ w - r - (n + 1) + 1 = w - r - n
      BY <1>1, <1>2
    <3>2. \A j \in n + 1 .. w - r : t[j] \in Byte
      <4>1. \A j \in n + 1 .. w - r : j \in 1 .. Len(t)
        BY <1>1, <1>2, <1>4
      <4> QED
        BY <1>4, <4>1, ElementOfSeq
    <3>3. u[i] = t[n + 1 + i - 1]
      <4>1. \A j \in 1 .. w - r - (n + 1) + 1 :
                SubSeq(t, n + 1, w - r)[j] = t[n + 1 + j - 1]
        BY <3>1, <3>2, SubSeqProperties
      <4> QED
        BY <1>3, <1>4, <3>1, <4>1, Zenon
    <3>4. n + 1 + i - 1 \in 1 .. w - r /\ r + (n + 1 + i - 1) = v + i
      BY <1>1, <1>2, <2>1
    <3> QED
      BY <1>4, <3>3, <3>4, Zenon
  <2>6. Contents(c) = u
    <3>1. Len(u) = c.writer - c.reader
      BY <1>5, <2>4, Zenon
    <3>2. \A i \in 1 .. Len(u) : c.mem[c.reader + i] = u[i]
      BY <1>5, <2>4, <2>5, Zenon
    <3> QED
      BY <1>5, <2>3, <3>1, <3>2, SameContents
  <2> QED
    BY <1>2, <1>3, <1>5, <2>3, <2>4, <2>6 DEF Holds
<1>7. CASE ~(n < w - r)
  <2>1. c = [mem |-> m, reader |-> kCheapPrepend, writer |-> kCheapPrepend]
    <3>1. c = [b EXCEPT !.reader = kCheapPrepend, !.writer = kCheapPrepend]
      BY <1>2, <1>3, <1>7 DEF Retrieved, readableBytes
    <3> QED
      BY <1>1, <3>1, Updated, Zenon
  <2>2. /\ kCheapPrepend \in Nat /\ kCheapPrepend <= l
        /\ kCheapPrepend - kCheapPrepend = 0
    BY <1>1, SizesAssumption
  <2>3. Shape(c)
    BY <1>1, <2>1, <2>2 DEF Shape
  <2>4. c.mem = m /\ c.writer - c.reader = 0
    BY <2>1, <2>2
  <2>5. Len(u) = 0
    BY <1>1, <1>2, <1>5, <1>7
  <2>6. Contents(c) = u
    <3>1. \A i \in 1 .. Len(u) : c.mem[c.reader + i] = u[i]
      BY <2>5
    <3> QED
      BY <1>5, <2>3, <2>4, <2>5, <3>1, SameContents
  <2> QED
    BY <1>2, <1>3, <1>5, <2>3, <2>4, <2>5, <2>6 DEF Holds
<1> QED
  BY <1>3, <1>6, <1>7

(* unwrite: what is left when n bytes were taken from the end.             *)
LEMMA UnwrittenIs ==
  ASSUME NEW b, Shape(b), NEW n \in 0 .. b.writer - b.reader,
         NEW c, c = [b EXCEPT !.writer = @ - n]
  PROVE  Holds(c, SubSeq(Contents(b), 1, Len(Contents(b)) - n), b)
<1>1. PICK m \in Seq(Byte), r \in Nat, w \in Nat, l \in Nat :
         /\ b = [mem |-> m, reader |-> r, writer |-> w] /\ l = Len(m)
         /\ r <= w /\ w <= l /\ l >= kCheapPrepend + kInitialSize
  BY LenProperties DEF Shape
<1>2. b.mem = m /\ b.reader = r /\ b.writer = w /\ n \in 0 .. w - r
  BY <1>1
<1>3. PICK v \in Nat : v = w - n /\ r <= v /\ v <= w
  BY <1>1, <1>2
<1>4. c = [mem |-> m, reader |-> r, writer |-> v]
  <2>1. c = [b EXCEPT !.writer = v]
    BY <1>2, <1>3
  <2> QED
    BY <1>1, <2>1, Updated, Zenon
<1>5. Shape(c)
  <2>1. v <= l
    BY <1>1, <1>3
  <2> QED
    BY <1>1, <1>3, <1>4, <2>1 DEF Shape
<1>6. PICK t, u, q : t = Contents(b) /\ q = Len(t) - n /\ u = SubSeq(t, 1, q)
  OBVIOUS
<1>7. t \in Seq(Byte) /\ Len(t) = w - r /\ \A i \in 1 .. w - r : t[i] = m[r + i]
  BY <1>2, <1>6, ContentsAre
<1>8. q \in 0 .. Len(t) /\ q = v - r
  BY <1>1, <1>2, <1>3, <1>6, <1>7
<1>9. u \in Seq(Byte) /\ Len(u) = q
  BY <1>6, <1>7, <1>8, SplitAt
<1>10. ASSUME NEW i \in 1 .. q
       PROVE  m[r + i] = u[i]
  <2>1. \A j \in 1 .. q : t[j] \in Byte
    <3>1. \A j \in 1 .. q : j \in 1 .. Len(t)
      BY <1>8
    <3> QED
      BY <1>7, <3>1, ElementOfSeq
  <2>2. \A j \in 1 .. q - 1 + 1 : u[j] = t[1 + j - 1]
    <3>1. 1 \in Int /\ q \in Int
      BY <1>7, <1>8
    <3>2. \A j \in 1 .. q - 1 + 1 : SubSeq(t, 1, q)[j] = t[1 + j - 1]
      BY <2>1, <3>1, SubSeqProperties
    <3> QED
      BY <1>6, <3>2, Zenon
  <2>3. i \in 1 .. q - 1 + 1 /\ 1 + i - 1 = i /\ i \in 1 .. w - r
    BY <1>7, <1>8
  <2> QED
    BY <1>7, <2>2, <2>3, Zenon
<1>11. c.mem = m /\ c.reader = r /\ c.writer = v
  BY <1>4
<1>12. Contents(c) = u
  <2>1. Len(u) = c.writer - c.reader
    BY <1>8, <1>9, <1>11, Zenon
  <2>2. \A i \in 1 .. Len(u) : c.mem[c.reader + i] = u[i]
    BY <1>9, <1>10, <1>11, Zenon
  <2> QED
    BY <1>5, <1>9, <2>1, <2>2, SameContents
<1> QED
  BY <1>2, <1>5, <1>6, <1>8, <1>9, <1>11, <1>12 DEF Holds

(* A new buffer is empty.                                                  *)
LEMMA NewIs ==
  /\ Shape(New) /\ Contents(New) = << >> /\ New.writer - New.reader = 0
  /\ Len(New.mem) = kCheapPrepend + kInitialSize
<1>1. PICK k \in Nat, l \in Nat : k = kCheapPrepend /\ l = kCheapPrepend + kInitialSize /\ k <= l
  BY SizesAssumption
<1>2. PICK m : m = [i \in 1 .. l |-> Blank]
  OBVIOUS
<1>3. m \in [1 .. l -> Byte]
  BY <1>2 DEF Byte
<1>4. m \in Seq(Byte) /\ Len(m) = l
  <2>1. m \in Seq(Byte)
    BY <1>3
  <2> QED
    BY <1>2, <2>1, LenProperties
<1>5. New = [mem |-> m, reader |-> k, writer |-> k]
  BY <1>1, <1>2 DEF New
<1>6. k - k = 0
  OBVIOUS
<1>7. Shape(New)
  BY <1>1, <1>4, <1>5 DEF Shape
<1>8. New.mem = m /\ New.reader = k /\ New.writer = k
  BY <1>5
<1>9. Contents(New) = << >>
  <2>1. k + 1 \in Int /\ k \in Int /\ k < k + 1
    OBVIOUS
  <2>2. SubSeq(m, k + 1, k) = << >>
    BY <2>1, SubSeqEmpty
  <2> QED
    BY <1>8, <2>2, Zenon DEF Contents
<1> QED
  BY <1>1, <1>4, <1>6, <1>7, <1>8, <1>9, Zenon

(* shrink: a new buffer takes the bytes over.                              *)
LEMMA ShrunkIs ==
  ASSUME NEW b, Shape(b), NEW n \in Nat, b.writer - b.reader <= n
  PROVE  /\ Shape(AppendTo(EnsureWritable(New, n), Contents(b)))
         /\ Contents(AppendTo(EnsureWritable(New, n), Contents(b))) = Contents(b)
         /\ SpaceIsSound(New, n)
         /\ LET size == Len(AppendTo(EnsureWritable(New, n), Contents(b)).mem)
            IN  size <= kCheapPrepend + kInitialSize \/ size <= kCheapPrepend + 2 * n
<1>1. PICK t : t = Contents(b)
  OBVIOUS
<1>2. t \in Seq(Byte) /\ Len(t) = b.writer - b.reader /\ Len(t) \in Nat /\ Len(t) <= n
  <2>1. t \in Seq(Byte) /\ Len(t) = b.writer - b.reader
    BY <1>1, ContentsAre
  <2> QED
    BY <2>1, LenProperties
<1>3. /\ Shape(New) /\ Contents(New) = << >> /\ New.writer - New.reader = 0
      /\ Len(New.mem) = kCheapPrepend + kInitialSize
  BY NewIs
<1>4. PICK e : e = EnsureWritable(New, n)
  OBVIOUS
<1>5. MadeRoom(New, e, n) /\ SpaceIsSound(New, n)
  BY <1>3, <1>4, EnsureIs
<1>6. /\ Shape(e) /\ Contents(e) = << >>
      /\ Len(e.mem) = kCheapPrepend + kInitialSize \/ Len(e.mem) <= kCheapPrepend + 2 * n
  <2>1. 2 * (0 + n) = 2 * n
    OBVIOUS
  <2> QED
    BY <1>3, <1>5, <2>1 DEF MadeRoom
<1>7. PICK d : d = AppendTo(e, t)
  OBVIOUS
<1>8. Holds(d, Contents(e) \o t, e)
  BY <1>2, <1>6, <1>7, AppendToIs
<1>9. Contents(e) \o t = t
  BY <1>2, <1>6, ConcatEmptySeq
<1>10. /\ Shape(d) /\ Contents(d) = t
       /\ Len(d.mem) = Len(e.mem) \/ Len(d.mem) <= kCheapPrepend + 2 * Len(t)
  BY <1>8, <1>9 DEF Holds
<1>11. Len(d.mem) \in Nat /\ Len(e.mem) \in Nat
  BY <1>6, <1>10, LenProperties DEF Shape
<1>12. kCheapPrepend \in Nat /\ kInitialSize \in Nat
  BY SizesAssumption
<1>13. \/ Len(d.mem) <= kCheapPrepend + kInitialSize
       \/ Len(d.mem) <= kCheapPrepend + 2 * n
  BY <1>2, <1>6, <1>10, <1>11, <1>12
<1> QED
  BY <1>1, <1>4, <1>5, <1>7, <1>10, <1>13

(* findEOL: the end of the first line is the first end of a line.          *)
LEMMA LineLengthIs ==
  ASSUME NEW b, Shape(b), NEW n, n = LineLength(b)
  PROVE  /\ n \in 0 .. Len(Contents(b))
         /\ n > 0 => Contents(b)[n] = EOL
         /\ \A i \in 1 .. Len(Contents(b)) : Contents(b)[i] = EOL => n \in 1 .. i
<1>1. PICK t : t = Contents(b)
  OBVIOUS
<1>2. PICK k \in Nat : k = b.writer - b.reader
  BY DEF Shape
<1>3. k = Len(t) /\ k = readableBytes(b)
  BY <1>1, <1>2, ContentsAre DEF readableBytes
<1>4. PICK ends : ends = {i \in 1 .. k : t[i] = EOL}
  OBVIOUS
<1>5. n = IF ends = {} THEN 0 ELSE Min(ends)
  BY <1>1, <1>3, <1>4 DEF LineLength
<1>6. CASE ends = {}
  BY <1>1, <1>3, <1>4, <1>5, <1>6
<1>7. CASE ends # {}
  <2>1. ends \subseteq Nat
    BY <1>4
  <2>2. n \in ends /\ \A i \in ends : n <= i
    BY <1>5, <1>7, <2>1, LeastNat
  <2>3. n \in 1 .. k /\ t[n] = EOL
    BY <1>4, <2>2
  <2>4. ASSUME NEW i \in 1 .. k, t[i] = EOL
        PROVE  n \in 1 .. i
    BY <1>4, <2>2, <2>3, <2>4
  <2> QED
    BY <1>1, <1>3, <2>3, <2>4
<1> QED
  BY <1>6, <1>7
-----------------------------------------------------------------------------
(* The bound on the memory, for a buffer and the most it has held.         *)
InProportion(b, p) == Len(b.mem) <= kCheapPrepend + Max({kInitialSize, 2 * p})

(* The bound is wider when more has been held, ...                         *)
LEMMA WithinBound ==
  ASSUME NEW b, NEW l \in Nat, l = Len(b.mem), NEW p \in Nat,
         \/ l <= kCheapPrepend + kInitialSize
         \/ l <= kCheapPrepend + 2 * p
  PROVE  InProportion(b, p)
<1>1. PICK q \in Int : q = 2 * p
  OBVIOUS
<1>2. kInitialSize \in Int /\ kCheapPrepend \in Int
  BY SizesAssumption
<1>3. PICK x : x = Max({kInitialSize, q}) /\ x = IF kInitialSize >= q THEN kInitialSize ELSE q
  BY <1>2, MaxOfTwo
<1>4. l <= kCheapPrepend + x
  BY <1>1, <1>2, <1>3
<1> QED
  BY <1>1, <1>3, <1>4 DEF InProportion

(* ... and holds of what an operation makes of a buffer.                   *)
LEMMA StaysInProportion ==
  ASSUME NEW b, NEW c, NEW u, Shape(b), Holds(c, u, b), NEW p \in Nat, InProportion(b, p),
         NEW q, q = Max({p, readableBytes(c)})
  PROVE  q \in Nat /\ InProportion(c, q)
<1>1. PICK l \in Nat, m \in Nat, n \in Nat :
         l = Len(b.mem) /\ m = Len(c.mem) /\ n = readableBytes(c) /\ n = Len(u)
  BY LenProperties DEF Shape, Holds, readableBytes
<1>2. q = IF p >= n THEN p ELSE n
  BY <1>1, MaxOfTwo
<1>3. q \in Nat /\ p <= q /\ n <= q
  BY <1>2
<1>4. kInitialSize \in Int /\ kCheapPrepend \in Int
  BY SizesAssumption
<1>5. l <= kCheapPrepend + kInitialSize \/ l <= kCheapPrepend + 2 * p
  <2>1. PICK x \in Int : x = 2 * p
    OBVIOUS
  <2>2. PICK y : y = Max({kInitialSize, x}) /\ y = IF kInitialSize >= x THEN kInitialSize ELSE x
    BY <1>4, <2>1, MaxOfTwo
  <2>3. l <= kCheapPrepend + y
    BY <1>1, <2>1, <2>2 DEF InProportion
  <2> QED
    BY <1>4, <2>1, <2>2, <2>3
<1>6. m = l \/ m <= kCheapPrepend + 2 * n
  BY <1>1 DEF Holds
<1>7. m <= kCheapPrepend + kInitialSize \/ m <= kCheapPrepend + 2 * q
  BY <1>3, <1>4, <1>5, <1>6
<1> QED
  BY <1>1, <1>3, <1>7, WithinBound

(* The inductive invariant.                                                *)
Inv == Shape(buf) /\ sound /\ peak \in Nat /\ MemoryBounded

(* A step that makes c of the buffer and takes some bytes out keeps it.    *)
LEMMA BecomesKeeps ==
  ASSUME Inv, NEW c, NEW u, NEW taken, Holds(c, u, buf), Becomes(c, taken), sound'
  PROVE  Inv' /\ Contents(buf)' = u /\ got' = taken
<1>1. PICK b, q : b = buf /\ q = peak'
  OBVIOUS
<1>2. PICK p \in Nat : p = peak
  BY DEF Inv
<1>3. buf' = c /\ got' = taken /\ q = Max({p, readableBytes(c)})
  BY <1>1, <1>2 DEF Becomes
<1>4. Shape(b) /\ InProportion(b, p) /\ Holds(c, u, b)
  BY <1>1, <1>2 DEF Inv, MemoryBounded, InProportion
<1>5. q \in Nat /\ InProportion(c, q)
  BY <1>3, <1>4, StaysInProportion
<1>6. Shape(c) /\ Contents(c) = u
  BY <1>4 DEF Holds
<1>7. Shape(buf)' /\ Contents(buf)' = u
  <2>1. Shape(buf)'
    BY <1>3, <1>6 DEF Shape
  <2>2. Contents(buf)' = u
    BY <1>3, <1>6 DEF Contents
  <2> QED
    BY <2>1, <2>2
<1>8. MemoryBounded'
  BY <1>1, <1>3, <1>5 DEF MemoryBounded, InProportion
<1> QED
  BY <1>1, <1>3, <1>5, <1>7, <1>8 DEF Inv
-----------------------------------------------------------------------------
(* Each operation keeps the invariant, and does what the queue promises.   *)
(* append                                                                  *)
LEMMA AppendStep ==
  ASSUME Inv, NEW s \in Data, AppendBytes(s)
  PROVE  Inv' /\ Queue!QueueAppend
<1>1. PICK b, t, u, c : b = buf /\ t = Contents(b) /\ u = t \o s /\ c = AppendTo(b, s)
  OBVIOUS
<1>2. Shape(b) /\ s \in Seq(Byte)
  BY <1>1, DataIsBytes DEF Inv
<1>3. Holds(c, u, b) /\ SpaceIsSound(b, Len(s))
  BY <1>1, <1>2, AppendToIs
<1>4. Becomes(c, << >>) /\ sound' /\ call'.op = "append" /\ call'.data = s
  BY <1>1, <1>3 DEF AppendBytes, Called, Inv
<1>5. Inv' /\ Contents(buf)' = u /\ got' = << >>
  BY <1>1, <1>3, <1>4, BecomesKeeps
<1> QED
  BY <1>1, <1>4, <1>5 DEF Queue!QueueAppend

(* readFd                                                                  *)
LEMMA ReadFdStep ==
  ASSUME Inv, NEW s \in Data, ReadFd(s)
  PROVE  Inv' /\ Queue!QueueAppend
<1>1. PICK b, t, u, c : b = buf /\ t = Contents(b) /\ u = t \o s /\ c = Received(b, s)
  OBVIOUS
<1>2. Shape(b) /\ s \in Seq(Byte)
  BY <1>1, DataIsBytes DEF Inv
<1>3. Holds(c, u, b) /\ SpaceIsSound(InVector(b, s), Len(Overflow(b, s)))
  BY <1>1, <1>2, ReceivedIs
<1>4. Becomes(c, << >>) /\ sound' /\ call'.op = "readFd" /\ call'.data = s
  BY <1>1, <1>3 DEF ReadFd, Called, Inv
<1>5. Inv' /\ Contents(buf)' = u /\ got' = << >>
  BY <1>1, <1>3, <1>4, BecomesKeeps
<1> QED
  BY <1>1, <1>4, <1>5 DEF Queue!QueueAppend

(* prepend                                                                 *)
LEMMA PrependStep ==
  ASSUME Inv, NEW s \in Data, Prepend(s)
  PROVE  Inv' /\ Queue!QueuePrepend
<1>1. PICK b, t, u, c :
         /\ b = buf /\ t = Contents(b) /\ u = s \o t
         /\ c = [b EXCEPT !.reader = @ - Len(s), !.mem = Copy(@, b.reader - Len(s), s)]
  OBVIOUS
<1>2. Shape(b) /\ s \in Seq(Byte) /\ Len(s) <= prependableBytes(b)
  BY <1>1, DataIsBytes DEF Inv, Prepend
<1>3. Holds(c, u, b)
  <2>1. Holds([b EXCEPT !.reader = @ - Len(s), !.mem = Copy(@, b.reader - Len(s), s)],
              s \o Contents(b), b)
    BY <1>2, PrependIs
  <2> QED
    BY <1>1, <2>1, Zenon
<1>4. Becomes(c, << >>) /\ sound' /\ call'.op = "prepend" /\ call'.data = s
  <2>1. Becomes(c, << >>)
    BY <1>1, Zenon DEF Prepend
  <2>2. sound'
    BY DEF Inv, Prepend
  <2>3. call' = [op |-> "prepend", data |-> s, len |-> 0]
    BY DEF Prepend, Called
  <2> QED
    BY <2>1, <2>2, <2>3
<1>5. Inv' /\ Contents(buf)' = u /\ got' = << >>
  <2>1. Holds(c, u, buf)
    BY <1>1, <1>3, Zenon
  <2> QED
    BY <1>4, <2>1, BecomesKeeps, Zenon
<1>6. u = s \o Contents(buf)
  BY <1>1, Zenon
<1> QED
  BY <1>4, <1>5, <1>6, Zenon DEF Queue!QueuePrepend

(* retrieve and retrieveAsString                                           *)
LEMMA RetrieveStep ==
  ASSUME Inv, NEW n \in 1 .. MaxReadable, Retrieve(n)
  PROVE  Inv' /\ Queue!QueueRetrieve
<1>1. PICK b, t, u, c : /\ b = buf /\ t = Contents(b) /\ u = SubSeq(t, n + 1, Len(t))
                        /\ c = Retrieved(b, n)
  OBVIOUS
<1>2. Shape(b) /\ n \in 0 .. b.writer - b.reader
  <2>1. Shape(b) /\ n <= b.writer - b.reader
    BY <1>1 DEF Inv, Retrieve, readableBytes
  <2>2. b.writer \in Nat /\ b.reader \in Nat /\ n \in Nat
    BY <2>1, BoundsAssumption DEF Shape
  <2> QED
    BY <2>1, <2>2
<1>3. Holds(c, u, b)
  BY <1>1, <1>2, RetrievedIs
<1>4. PICK taken : taken = SubSeq(t, 1, n)
  OBVIOUS
<1>5. Becomes(c, taken) /\ sound' /\ call'.op = "retrieve" /\ call'.len = n
  BY <1>1, <1>4 DEF Retrieve, Called, Inv
<1>6. Inv' /\ Contents(buf)' = u /\ got' = taken
  BY <1>1, <1>3, <1>5, BecomesKeeps
<1> QED
  BY <1>1, <1>4, <1>5, <1>6 DEF Queue!QueueRetrieve, Queue!First, Queue!Rest

(* unwrite                                                                 *)
LEMMA UnwriteStep ==
  ASSUME Inv, NEW n \in 1 .. MaxReadable, Unwrite(n)
  PROVE  Inv' /\ Queue!QueueUnwrite
<1>1. PICK b, t, u, c :
         /\ b = buf /\ t = Contents(b) /\ u = SubSeq(t, 1, Len(t) - n)
         /\ c = [b EXCEPT !.writer = @ - n]
  OBVIOUS
<1>2. Shape(b) /\ n \in 0 .. b.writer - b.reader
  <2>1. Shape(b) /\ n <= b.writer - b.reader
    BY <1>1 DEF Inv, Unwrite, readableBytes
  <2>2. b.writer \in Nat /\ b.reader \in Nat /\ n \in Nat
    BY <2>1, BoundsAssumption DEF Shape
  <2> QED
    BY <2>1, <2>2
<1>3. Holds(c, u, b)
  BY <1>1, <1>2, UnwrittenIs
<1>4. Becomes(c, << >>) /\ sound' /\ call'.op = "unwrite" /\ call'.len = n
  BY <1>1 DEF Unwrite, Called, Inv
<1>5. Inv' /\ Contents(buf)' = u /\ got' = << >>
  BY <1>1, <1>3, <1>4, BecomesKeeps
<1> QED
  BY <1>1, <1>4, <1>5 DEF Queue!QueueUnwrite, Queue!First

(* findEOL and func                                                        *)
LEMMA TakeLineStep ==
  ASSUME Inv, TakeLine
  PROVE  Inv' /\ Queue!QueueTakeLine
<1>1. PICK b, t, n : b = buf /\ t = Contents(b) /\ n = LineLength(b)
  OBVIOUS
<1>2. Shape(b)
  BY <1>1 DEF Inv
<1>3. t \in Seq(Byte) /\ Len(t) = b.writer - b.reader /\ Len(t) \in Nat
  BY <1>1, <1>2, ContentsAre, LenProperties
<1>4. /\ n \in 0 .. Len(t) /\ (n > 0 => t[n] = EOL)
      /\ \A i \in 1 .. Len(t) : t[i] = EOL => n \in 1 .. i
  BY <1>1, <1>2, LineLengthIs
<1>5. sound' /\ call'.op = "line"
  BY DEF TakeLine, Called, Inv
<1>6. PICK u, taken : u = SubSeq(t, n + 1, Len(t)) /\ taken = SubSeq(t, 1, n)
  OBVIOUS
<1>7. \E c : Holds(c, u, b) /\ Becomes(c, taken)
  <2>1. CASE n = 0
    <3>1. u = t
      <4>1. n + 1 = 1
        BY <2>1
      <4> QED
        BY <1>3, <1>6, <4>1, SubSeqFull
    <3>2. taken = << >>
      BY <1>6, <2>1, SubSeqEmpty
    <3>3. Holds(b, t, b)
      BY <1>1, <1>2, <1>3 DEF Holds
    <3>4. Becomes(b, << >>)
      BY <1>1, <2>1 DEF TakeLine
    <3> QED
      BY <3>1, <3>2, <3>3, <3>4
  <2>2. CASE n # 0
    <3>1. Holds(Retrieved(b, n), u, b)
      BY <1>1, <1>2, <1>3, <1>4, <1>6, RetrievedIs
    <3>2. Becomes(Retrieved(b, n), taken)
      BY <1>1, <1>6, <2>2 DEF TakeLine
    <3> QED
      BY <3>1, <3>2
  <2> QED
    BY <2>1, <2>2
<1>8. Inv' /\ Contents(buf)' = u /\ got' = taken
  BY <1>1, <1>5, <1>7, BecomesKeeps
<1> QED
  BY <1>1, <1>4, <1>5, <1>6, <1>8 DEF Queue!QueueTakeLine, Queue!First, Queue!Rest

(* shrink                                                                  *)
LEMMA ShrinkStep ==
  ASSUME Inv, NEW reserve \in 0 .. MaxReserve, Shrink(reserve)
  PROVE  Inv' /\ Queue!QueueShrink
<1>1. PICK b, t, q : b = buf /\ t = Contents(b) /\ q = peak'
  OBVIOUS
<1>2. PICK p \in Nat : p = peak
  BY DEF Inv
<1>3. Shape(b)
  BY <1>1 DEF Inv
<1>4. PICK n \in Nat : n = readableBytes(b) + reserve /\ b.writer - b.reader <= n
  BY <1>3, BoundsAssumption DEF Shape, readableBytes
<1>5. PICK c : c = AppendTo(EnsureWritable(New, n), t)
  OBVIOUS
<1>6. /\ buf' = c /\ got' = << >> /\ q = Max({p, n})
      /\ sound' = (sound /\ SpaceIsSound(New, n)) /\ call'.op = "shrink"
  BY <1>1, <1>2, <1>4, <1>5 DEF Shrink, Called
<1>7. /\ Shape(c) /\ Contents(c) = t /\ SpaceIsSound(New, n)
      /\ Len(c.mem) <= kCheapPrepend + kInitialSize \/ Len(c.mem) <= kCheapPrepend + 2 * n
  BY <1>1, <1>3, <1>4, <1>5, ShrunkIs
<1>8. q \in Nat /\ n <= q
  BY <1>6, MaxOfTwo
<1>9. InProportion(c, q)
  <2>1. PICK l \in Nat : l = Len(c.mem)
    BY <1>7, LenProperties DEF Shape
  <2>2. kCheapPrepend \in Int
    BY SizesAssumption
  <2>3. l <= kCheapPrepend + kInitialSize \/ l <= kCheapPrepend + 2 * q
    BY <1>7, <1>8, <2>1, <2>2
  <2> QED
    BY <1>8, <2>1, <2>3, WithinBound
<1>10. Shape(buf)' /\ Contents(buf)' = t
  <2>1. Shape(buf)'
    BY <1>6, <1>7 DEF Shape
  <2>2. Contents(buf)' = t
    BY <1>6, <1>7 DEF Contents
  <2> QED
    BY <2>1, <2>2
<1>11. MemoryBounded'
  BY <1>1, <1>6, <1>9 DEF MemoryBounded, InProportion
<1>12. Inv'
  BY <1>1, <1>6, <1>7, <1>8, <1>10, <1>11 DEF Inv
<1> QED
  BY <1>1, <1>6, <1>10, <1>12 DEF Queue!QueueShrink

(* The invariant holds initially, when the queue is empty, ...             *)
LEMMA InitialState == Init => Inv /\ Queue!QueueInit
<1> SUFFICES ASSUME Init
             PROVE  Inv /\ Queue!QueueInit
  OBVIOUS
<1>1. PICK b : b = New
  OBVIOUS
<1>2. /\ Shape(b) /\ Contents(b) = << >>
      /\ Len(b.mem) = kCheapPrepend + kInitialSize
  BY <1>1, NewIs
<1>3. InProportion(b, 0)
  <2>1. PICK l \in Nat : l = Len(b.mem)
    BY <1>2, LenProperties DEF Shape
  <2>2. l <= kCheapPrepend + kInitialSize
    BY <1>2, <2>1
  <2> QED
    BY <2>1, <2>2, WithinBound
<1>4. buf = b /\ sound /\ peak = 0 /\ got = << >> /\ call.op = "none"
  BY <1>1 DEF Init
<1>5. MemoryBounded
  BY <1>3, <1>4 DEF MemoryBounded, InProportion
<1> QED
  BY <1>2, <1>4, <1>5 DEF Inv, Queue!QueueInit

(* ... kept by every step, which is one of the queue.                      *)
LEMMA EveryStep == Inv /\ [Next]_vars => Inv' /\ [Queue!QueueNext]_Queue!queueVars
<1> SUFFICES ASSUME Inv, [Next]_vars
             PROVE  Inv' /\ [Queue!QueueNext]_Queue!queueVars
  OBVIOUS
<1>1. ASSUME NEW s \in Data, AppendBytes(s)
      PROVE  Inv' /\ Queue!QueueNext
  BY <1>1, AppendStep DEF Queue!QueueNext
<1>2. ASSUME NEW s \in Data, ReadFd(s)
      PROVE  Inv' /\ Queue!QueueNext
  BY <1>2, ReadFdStep DEF Queue!QueueNext
<1>3. ASSUME NEW s \in Data, Prepend(s)
      PROVE  Inv' /\ Queue!QueueNext
  BY <1>3, PrependStep DEF Queue!QueueNext
<1>4. ASSUME NEW n \in 1 .. MaxReadable, Retrieve(n)
      PROVE  Inv' /\ Queue!QueueNext
  BY <1>4, RetrieveStep DEF Queue!QueueNext
<1>5. ASSUME NEW n \in 1 .. MaxReadable, Unwrite(n)
      PROVE  Inv' /\ Queue!QueueNext
  BY <1>5, UnwriteStep DEF Queue!QueueNext
<1>6. CASE TakeLine
  BY <1>6, TakeLineStep DEF Queue!QueueNext
<1>7. ASSUME NEW reserve \in 0 .. MaxReserve, Shrink(reserve)
      PROVE  Inv' /\ Queue!QueueNext
  BY <1>7, ShrinkStep DEF Queue!QueueNext
<1>8. CASE UNCHANGED vars
  <2>1. buf' = buf /\ sound' = sound /\ got' = got /\ call' = call /\ peak' = peak
    BY <1>8 DEF vars
  <2>2. Inv'
    BY <2>1 DEF Inv, Shape, MemoryBounded
  <2>3. UNCHANGED Queue!queueVars
    BY <2>1 DEF Queue!queueVars, Contents
  <2> QED
    BY <2>2, <2>3
<1> QED
  BY <1>1, <1>2, <1>3, <1>4, <1>5, <1>6, <1>7, <1>8 DEF Next

(* The two indices of a buffer are in order and within its vector, and no  *)
(* assertion of makeSpace and ensureWritableBytes fails (Buffer.h),        *)
(* whatever is appended, received, prepended, retrieved or shrunk.         *)
THEOREM TypeCorrect == Spec => []TypeOK
<1>1. Init => Inv
  BY InitialState
<1>2. Inv /\ [Next]_vars => Inv'
  BY EveryStep
<1>3. Inv => TypeOK
  BY DEF Inv, Shape, TypeOK
<1> QED
  BY <1>1, <1>2, <1>3, PTL DEF Spec

(* The vector of a buffer is never longer than twice the most it has had   *)
(* to hold, or its first size: makeSpace moves the bytes to the front      *)
(* before it lets the vector grow.                                         *)
THEOREM MemoryStaysBounded == Spec => []MemoryBounded
<1>1. Init => Inv
  BY InitialState
<1>2. Inv /\ [Next]_vars => Inv'
  BY EveryStep
<1>3. Inv => MemoryBounded
  BY DEF Inv
<1> QED
  BY <1>1, <1>2, <1>3, PTL DEF Spec

(* A buffer is a queue of bytes: no operation loses, repeats or reorders   *)
(* any of them, and findEOL finds the end of the first line.               *)
THEOREM BufferImplementsQueue == Spec => ImplementsByteQueue
<1>1. Init => Inv /\ Queue!QueueInit
  BY InitialState
<1>2. Inv /\ [Next]_vars => Inv' /\ [Queue!QueueNext]_Queue!queueVars
  BY EveryStep
<1> QED
  BY <1>1, <1>2, PTL DEF Spec, ImplementsByteQueue, Queue!QueueSpec
=============================================================================
