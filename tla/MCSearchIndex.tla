---------------------------- MODULE MCSearchIndex ----------------------------
(***************************************************************************)
(* Libraries for SearchIndex: pages of a few words and of simhashes that   *)
(* are near each other or not, whatever their texts are.                   *)
(***************************************************************************)
EXTENDS SearchIndex

CONSTANT MaxPages  \* bound: pages that are extracted

(* A dictionary word of one rune, and a run of letters.                    *)
TwoWords == <<ConvertUTF32ToUTF8(20013), Bytes("ww")>>

(* Each of the three halves is two bits of the 64: simhashes that differ   *)
(* in one of them are near, and in two not.                                *)
Halves == <<{0, 1}, {7, 8}, {62, 63}>>

(* Of some things those that the digits of n choose.                       *)
Chosen(n, things) == {things[i] : i \in {k \in DOMAIN things :
                                            (n \div 2 ^ (k - 1)) % 2 = 1}}

(* The pages are numbered from 0 to 31.  Those of one simhash are copies.  *)
FreePage(n) ==
    [title |-> << >>, url |-> << >>, words |-> Chosen(n \div 8, TwoWords),
     u64 |-> UNION Chosen(n % 8, Halves), content |-> <<48 + (n % 8)>>]

(* Sorting makes all orders of pages that count, so they come in one.      *)
Libraries ==
    {[d \in DOMAIN numbers |-> FreePage(numbers[d])] : numbers \in
        UNION {{s \in [1 .. n -> 0 .. 31] : \A d \in 2 .. n : s[d - 1] <= s[d]} :
                  n \in 0 .. MaxPages}}
-----------------------------------------------------------------------------
Init == phase = "buildWeblib" /\ \E pages \in Libraries : IndexInit(pages)

Next == IndexNext(SUBSET ToSet(TwoWords))

Spec == Init /\ [][Next]_indexVars
=============================================================================
