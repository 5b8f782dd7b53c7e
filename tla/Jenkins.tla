------------------------------- MODULE Jenkins -------------------------------
(***************************************************************************)
(* The hash of a word, lib/simhash/jenkins.h: two numbers of 32 bits, from *)
(* blocks of 12 bytes that are read as three words of the machine.  How    *)
(* they are read depends on where the string lies: words at a multiple of  *)
(* 4, halves at a multiple of 2, and bytes otherwise.  Words at the end of *)
(* the string reach beyond it, and what they find there is masked.         *)
(*                                                                         *)
(* A word is a pair of its upper and its lower 16 bits.                    *)
(***************************************************************************)
EXTENDS Integers, SequencesExt, Bitwise

HalfWord == 2 ^ 16

Carried(hi, lo) == <<(hi + (lo \div HalfWord)) % HalfWord, lo % HalfWord>>
Plus32(x, y) == Carried(x[1] + y[1], x[2] + y[2])
Minus32(x, y) == Carried(x[1] - y[1], x[2] - y[2])
Xor32(x, y) == <<x[1] ^^ y[1], x[2] ^^ y[2]>>
Rot(x, k) ==
    LET hi == IF k >= 16 THEN x[2] ELSE x[1]
        lo == IF k >= 16 THEN x[1] ELSE x[2]
        n == k % 16
    IN  <<((hi * 2 ^ n) % HalfWord) + lo \div 2 ^ (16 - n),
          ((lo * 2 ^ n) % HalfWord) + hi \div 2 ^ (16 - n)>>

(* The six steps of mix() are one, on a, b, c in turn.                     *)
Mix3(abc) ==
    LET step(t, k) == <<t[2], Plus32(t[3], t[2]),
                        Xor32(Minus32(t[1], t[3]), Rot(t[3], k))>>
    IN  FoldLeft(step, abc, <<4, 6, 8, 16, 19, 4>>)

(* So are the seven of final(), which begins with c.                       *)
Final3(abc) ==
    LET step(t, k) == <<t[2], Minus32(Xor32(t[3], t[2]), Rot(t[2], k)), t[1]>>
        bca == FoldLeft(step, abc, <<14, 11, 25, 16, 4, 14, 24>>)
    IN  <<bca[3], bca[1], bca[2]>>
-----------------------------------------------------------------------------
(* Reading.  reads.align is 4, 2 or 1, reads.beyond what follows the       *)
(* string in memory: its terminator and two bytes more.                    *)

Reads == [align : {1, 2}, beyond : {<< >>}] \cup
         [align : {4}, beyond : {<<0, 0, 0>>, <<0, 255, 255>>}]

(* Of some bytes the number, the first one being the lowest.               *)
Little(bytes) ==
    LET byte(i) == IF i <= Len(bytes) THEN bytes[i] ELSE 0
    IN  <<byte(3) + 256 * byte(4), byte(1) + 256 * byte(2)>>

(* x & 0xff, x & 0xffff or x & 0xffffff                                    *)
Mask(x, bytes) == <<IF bytes < 3 THEN 0 ELSE x[1] % 2 ^ (8 * (bytes - 2)),
                    IF bytes < 2 THEN x[2] % 2 ^ 8 ELSE x[2]>>

(* A last word of less than 4 bytes: k[0] & mask.                          *)
ReadMasked(key, reads, from) ==
    LET left == Len(key) - from + 1
        memory == key \o reads.beyond
        word == Little(SubSeq(memory, from, from + 3))
    IN  IF left >= 4 THEN word ELSE Mask(word, left)

(* Halves, and a last byte by itself.                                      *)
ReadHalves(key, from) ==
    LET left == Len(key) - from + 1
        half(n) == IF left >= n + 1 THEN Little(SubSeq(key, from + n - 1, from + n))
                   ELSE IF left = n THEN Little(<<key[from + n - 1]>>) ELSE <<0, 0>>
    IN  Plus32(half(1), Rot(half(3), 16))

(* Bytes, shifted to their places and added.                               *)
ReadBytes(key, from) ==
    LET place(i) == Rot(Little(<<key[from + i]>>), 8 * i)
        add(x, i) == IF from + i > Len(key) THEN x ELSE Plus32(x, place(i))
    IN  FoldLeft(add, <<0, 0>>, <<0, 1, 2, 3>>)

(* The word that begins at a byte of the string, or is 0 beyond the last.  *)
WordAt(key, reads, from) ==
    IF from > Len(key) THEN <<0, 0>>
    ELSE CASE reads.align = 4 -> ReadMasked(key, reads, from)
           [] reads.align = 2 -> ReadHalves(key, from)
           [] OTHER -> ReadBytes(key, from)
-----------------------------------------------------------------------------
(* hashlittle2 with both of its seeds 0.  The last block, of 1 to 12       *)
(* bytes, is not mixed but finished.                                       *)
HashLittle2(key, reads) ==
    LET seed == Plus32(<<57005, 48879>>, <<0, Len(key)>>)
        blocks == (Len(key) + 11) \div 12
        sum(abc, n, i) ==
            Plus32(abc[i], WordAt(key, reads, 12 * (n - 1) + 4 * (i - 1) + 1))
        added(abc, n) == <<sum(abc, n, 1), sum(abc, n, 2), sum(abc, n, 3)>>
        block(abc, n) == IF n < blocks THEN Mix3(added(abc, n))
                         ELSE Final3(added(abc, n))
    IN  FoldLeft(block, <<seed, seed, seed>>, [n \in 1 .. blocks |-> n])

(* The bits of the hash: c is its upper word and b its lower one.          *)
BitsOfHash(abc) ==
    LET halves == <<abc[2][2], abc[2][1], abc[3][2], abc[3][1]>>
    IN  {j \in 0 .. 63 : (halves[(j \div 16) + 1] \div 2 ^ (j % 16)) % 2 = 1}
Hash(key, reads) == BitsOfHash(HashLittle2(key, reads))
=============================================================================
