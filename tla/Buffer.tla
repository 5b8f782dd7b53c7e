------------------------------- MODULE Buffer -------------------------------
(***************************************************************************)
(* net/Buffer.h, Buffer.cc: the bytes between two indices of a vector that *)
(* is grown, or moved to the front, when there is no room behind them.     *)
(*                                                                         *)
(* A buffer belongs to one connection and one thread; an operation is one  *)
(* step.  Its caller keeps to the assertions on its arguments, as the      *)
(* callers in TcpConnection.cc and Server.cc do; the assertions on what    *)
(* the buffer itself computes are checked.                                 *)
(***************************************************************************)
EXTENDS Naturals, Sequences, FiniteSetsExt

CONSTANTS EOL,            \* '\n'
          Data,           \* what is appended, prepended or received at once
          kCheapPrepend,  \* 8
          kInitialSize,   \* 1024
          ExtraSize,      \* the size of extrabuf, 65536
          MaxReadable,    \* bound: bytes in the buffer
          MaxReserve      \* bound: the argument of shrink

ASSUME SizesAssumption == /\ kCheapPrepend \in Nat /\ kInitialSize \in Nat
                          /\ ExtraSize \in Nat
ASSUME DataAssumption == \A s \in Data : s \in Seq(Range(s))
ASSUME BoundsAssumption == MaxReadable \in Nat /\ MaxReserve \in Nat

VARIABLES buf,            \* buffer_, readerIndex_ and writerIndex_
          sound,          \* no assertion of makeSpace and ensureWritableBytes failed
          got, call,      \* history: see ByteQueue
          peak            \* history: the most that was readable, or reserved

vars == <<buf, sound, got, call, peak>>

Blank == "blank"          \* what resize() fills with
New == [mem |-> [i \in 1 .. kCheapPrepend + kInitialSize |-> Blank],
        reader |-> kCheapPrepend, writer |-> kCheapPrepend]

readableBytes(b) == b.writer - b.reader
writableBytes(b) == Len(b.mem) - b.writer
prependableBytes(b) == b.reader
Contents(b) == SubSeq(b.mem, b.reader + 1, b.writer)

Init == /\ buf = New
        /\ sound = TRUE
        /\ got = << >>
        /\ call = [op |-> "none", data |-> << >>, len |-> 0]
        /\ peak = 0
-----------------------------------------------------------------------------
(* memory with the bytes of s from index i on                              *)
Copy(mem, i, s) == [k \in DOMAIN mem |->
                       IF k - i \in DOMAIN s THEN s[k - i] ELSE mem[k]]

Resize(mem, n) == mem \o [i \in 1 .. n - Len(mem) |-> Blank]

FitsInFront(b, n) ==
    writableBytes(b) + prependableBytes(b) >= n + kCheapPrepend

(* Mutant: the buffer is always grown.                                     *)
MakeSpaceByGrowing(b, n) == [b EXCEPT !.mem = Resize(@, b.writer + n)]

(* Mutant: the indices are moved and the bytes are not.                    *)
MakeSpaceWithoutCopy(b, n) ==
    IF FitsInFront(b, n)
    THEN [b EXCEPT !.reader = kCheapPrepend,
                   !.writer = kCheapPrepend + readableBytes(b)]
    ELSE [b EXCEPT !.mem = Resize(@, b.writer + n)]

MakeSpace(b, n) ==
    IF FitsInFront(b, n)
    THEN [mem |-> Copy(b.mem, kCheapPrepend, Contents(b)),
          reader |-> kCheapPrepend,
          writer |-> kCheapPrepend + readableBytes(b)]
    ELSE [b EXCEPT !.mem = Resize(@, b.writer + n)]

EnsureWritable(b, n) == IF writableBytes(b) < n THEN MakeSpace(b, n) ELSE b

(* The assertions: bytes are only moved towards the front, which is what   *)
(* std::copy can do with overlapping ranges, and there is room afterwards. *)
SpaceIsSound(b, n) ==
    /\ writableBytes(b) < n /\ FitsInFront(b, n) => kCheapPrepend < b.reader
    /\ readableBytes(EnsureWritable(b, n)) = readableBytes(b)
    /\ writableBytes(EnsureWritable(b, n)) >= n

Put(b, s) == [b EXCEPT !.mem = Copy(@, b.writer, s), !.writer = @ + Len(s)]
AppendTo(b, s) == Put(EnsureWritable(b, Len(s)), s)

(* retrieve                                                                *)
Retrieved(b, n) ==
    IF n < readableBytes(b) THEN [b EXCEPT !.reader = @ + n]
    ELSE [b EXCEPT !.reader = kCheapPrepend, !.writer = kCheapPrepend]

(* readv() fills the vector first, and extrabuf with the overflow.         *)
InVector(b, s) == Put(b, SubSeq(s, 1, Min({Len(s), writableBytes(b)})))
Overflow(b, s) == SubSeq(s, writableBytes(b) + 1, Len(s))
Received(b, s) == IF Overflow(b, s) = << >> THEN InVector(b, s)
                  ELSE AppendTo(InVector(b, s), Overflow(b, s))

(* The length of the first line with its end, or 0: findEOL and func.      *)
LineLength(b) ==
    LET ends == {i \in 1 .. readableBytes(b) : Contents(b)[i] = EOL}
    IN  IF ends = {} THEN 0 ELSE Min(ends)
-----------------------------------------------------------------------------
Called(op, s, n) == call' = [op |-> op, data |-> s, len |-> n]

Becomes(b, taken) == /\ buf' = b
                     /\ got' = taken
                     /\ peak' = Max({peak, readableBytes(b)})

Room(s) == readableBytes(buf) + Len(s) <= MaxReadable

AppendBytes(s) ==
    /\ Room(s)
    /\ Becomes(AppendTo(buf, s), << >>)
    /\ sound' = (sound /\ SpaceIsSound(buf, Len(s)))
    /\ Called("append", s, 0)

ReadFd(s) ==
    /\ Room(s)
    /\ Len(s) <= writableBytes(buf)
                   + (IF writableBytes(buf) < ExtraSize THEN ExtraSize ELSE 0)
    /\ Becomes(Received(buf, s), << >>)
    /\ sound' = (sound /\ SpaceIsSound(InVector(buf, s), Len(Overflow(buf, s))))
    /\ Called("readFd", s, 0)

Prepend(s) ==
    /\ Room(s)
    /\ Len(s) <= prependableBytes(buf)
    /\ Becomes([buf EXCEPT !.reader = @ - Len(s),
                           !.mem = Copy(@, buf.reader - Len(s), s)], << >>)
    /\ UNCHANGED sound
    /\ Called("prepend", s, 0)

(* retrieve and retrieveAsString                                           *)
Retrieve(n) ==
    /\ n <= readableBytes(buf)
    /\ Becomes(Retrieved(buf, n), SubSeq(Contents(buf), 1, n))
    /\ UNCHANGED sound
    /\ Called("retrieve", << >>, n)

Unwrite(n) ==
    /\ n <= readableBytes(buf)
    /\ Becomes([buf EXCEPT !.writer = @ - n], << >>)
    /\ UNCHANGED sound
    /\ Called("unwrite", << >>, n)

(* findEOL, and func if there is one.                                      *)
TakeLine ==
    LET n == LineLength(buf)
    IN  /\ IF n = 0 THEN Becomes(buf, << >>)
           ELSE Becomes(Retrieved(buf, n), SubSeq(Contents(buf), 1, n))
        /\ UNCHANGED sound
        /\ Called("line", << >>, 0)

(* A new buffer takes the bytes over.                                      *)
Shrink(reserve) ==
    LET n == readableBytes(buf) + reserve
        other == AppendTo(EnsureWritable(New, n), Contents(buf))
    IN  /\ buf' = other
        /\ got' = << >>
        /\ peak' = Max({peak, n})
        /\ sound' = (sound /\ SpaceIsSound(New, n))
        /\ Called("shrink", << >>, reserve)
-----------------------------------------------------------------------------
Next == \/ \E s \in Data : AppendBytes(s) \/ ReadFd(s) \/ Prepend(s)
        \/ \E n \in 1 .. MaxReadable : Retrieve(n) \/ Unwrite(n)
        \/ TakeLine
        \/ \E reserve \in 0 .. MaxReserve : Shrink(reserve)

Spec == Init /\ [][Next]_vars
-----------------------------------------------------------------------------
(* The indices are in order, and no assertion on them fails.               *)
TypeOK ==
    /\ buf.reader \in Nat /\ buf.writer \in Nat
    /\ buf.reader <= buf.writer /\ buf.writer <= Len(buf.mem)
    /\ sound

(* The buffer is the byte queue it promises to be, whatever was grown,     *)
(* moved, received past the end or put in front.                           *)
Queue == INSTANCE ByteQueue WITH contents <- Contents(buf)
ImplementsByteQueue == Queue!QueueSpec

(* The memory of a long-lived connection stays in proportion to what it    *)
(* has had to hold at once: space that was read from is used again.        *)
MemoryBounded ==
    Len(buf.mem) <= kCheapPrepend + Max({kInitialSize, 2 * peak})
=============================================================================
