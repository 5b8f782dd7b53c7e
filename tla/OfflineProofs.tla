--------------------------- MODULE OfflineProofs ---------------------------
(***************************************************************************)
(* Proofs about the preprocessing of pages: about the tree of an XML file  *)
(* (XmlTree, XmlDocument), about the library that is made of the pages and *)
(* the answers that are found in it (SearchIndex), and about the           *)
(* segmenters that cut pages and queries into words (Segmentation).        *)
(*                                                                         *)
(* Of the tree, for any file, any number of nodes, any depth and whatever  *)
(* a client does: every operator that changes the pointers keeps the lists *)
(* of children in agreement, and with it every step of the document keeps  *)
(* the document sound.  The lists are a matter of first-order logic once   *)
(* records are out of the way: the proofs about them name the pointers of  *)
(* a node before (P, F, L, V, X) and after (the same with a D), and hide   *)
(* what they are.                                                          *)
(*                                                                         *)
(* Of the library, for any pages and any queries: no two of the pages that *)
(* are kept are copies, and what is answered is what the pages say.  What  *)
(* unique(), getDoct(), storeOnDisk() and summary() compute is a recursive *)
(* function in the model; each is shown to be one whose values are found   *)
(* step by step, and that there is one follows from the least number for   *)
(* which there would be none.                                              *)
(*                                                                         *)
(* Of the segmenters, for any dictionary, any model of probabilities and   *)
(* any text: MPSegment, which goes from the last rune to the first, finds  *)
(* at every place the heaviest word to go on with, and so the heaviest     *)
(* division of the whole; every cell of the table of HMMSegment has the    *)
(* greatest weight of a way to it, and the way that is walked back weighs  *)
(* what the last cell does; what they cut says together what was cut, so   *)
(* that they can be put one after the other in MixSegment; FullSegment     *)
(* visits every word of the dictionary, and QuerySegment leaves none of    *)
(* MixSegment out.                                                         *)
(***************************************************************************)
EXTENDS Weblib, SearchIndex, SequenceTheorems, FiniteSetTheorems,
        WellFoundedInduction, TLAPS

(* What the operators keep: pointers to nodes, lists that agree, and no    *)
(* node that is its own child.                                             *)
IsTree(ptr) ==
    /\ ptr \in [AllNodes -> Links]
    /\ LinksAgree(ptr)
    /\ \A n \in AllNodes : ptr[n].parent # n

(* A node without pointers.                                                *)
LEMMA BlankFields ==
    ASSUME NEW ptr \in [AllNodes -> Links], NEW n \in AllNodes
    PROVE  ptr[n] = Blank <=>
              /\ ptr[n].parent = Null /\ ptr[n].first = Null
              /\ ptr[n].last = Null /\ ptr[n].prev = Null
              /\ ptr[n].next = Null
<1>1. ptr[n] \in Links
  OBVIOUS
<1> QED
  BY <1>1 DEF Links, Blank

(* IsTree, pointer by pointer.                                             *)
LEMMA TreePointers ==
    ASSUME NEW ptr, IsTree(ptr)
    PROVE  \A n \in AllNodes :
              /\ ptr[n].parent = Null \/ ptr[n].parent \in AllNodes
              /\ ptr[n].first = Null \/ ptr[n].first \in AllNodes
              /\ ptr[n].last = Null \/ ptr[n].last \in AllNodes
              /\ ptr[n].prev = Null \/ ptr[n].prev \in AllNodes
              /\ ptr[n].next = Null \/ ptr[n].next \in AllNodes
<1>1. \A n \in AllNodes : ptr[n] \in Links
  BY DEF IsTree
<1> QED
  BY <1>1 DEF Links, Link
-----------------------------------------------------------------------------
(* What Unlink does to each pointer.                                       *)
LEMMA UnlinkPointers ==
    ASSUME NEW ptr \in [AllNodes -> Links], NEW child \in AllNodes,
           NEW d, d = Unlink(ptr, child), NEW c, c = ptr[child]
    PROVE  /\ d \in [AllNodes -> Links]
           /\ d[child].parent = Null /\ d[child].prev = Null
           /\ d[child].next = Null
           /\ d[child].first = c.first /\ d[child].last = c.last
           /\ \A n \in AllNodes : n # child =>
                 /\ d[n].parent = ptr[n].parent
                 /\ d[n].first = IF n = c.parent /\ ptr[n].first = child
                                 THEN c.next ELSE ptr[n].first
                 /\ d[n].last = IF n = c.parent /\ ptr[n].last = child
                                THEN c.prev ELSE ptr[n].last
                 /\ d[n].next = IF n = c.prev THEN c.next ELSE ptr[n].next
                 /\ d[n].prev = IF n = c.next THEN c.prev ELSE ptr[n].prev
<1>1. c \in Links /\ Null \in Link
  BY DEF Link
<1>2. d[child] = [c EXCEPT !.parent = Null, !.prev = Null, !.next = Null]
  BY DEF Unlink
<1>3. ASSUME NEW n \in AllNodes, n # child
      PROVE  /\ d[n] \in Links
             /\ d[n].parent = ptr[n].parent
             /\ d[n].first = IF n = c.parent /\ ptr[n].first = child
                             THEN c.next ELSE ptr[n].first
             /\ d[n].last = IF n = c.parent /\ ptr[n].last = child
                            THEN c.prev ELSE ptr[n].last
             /\ d[n].next = IF n = c.prev THEN c.next ELSE ptr[n].next
             /\ d[n].prev = IF n = c.next THEN c.prev ELSE ptr[n].prev
  <2>1. ptr[n] \in Links
    OBVIOUS
  <2>2. d[n] = [ptr[n] EXCEPT
                  !.first = IF n = c.parent /\ @ = child THEN c.next ELSE @,
                  !.last = IF n = c.parent /\ @ = child THEN c.prev ELSE @,
                  !.next = IF n = c.prev THEN c.next ELSE @,
                  !.prev = IF n = c.next THEN c.prev ELSE @]
    BY <1>3 DEF Unlink
  <2> QED
    BY <1>1, <2>1, <2>2 DEF Links
<1>4. d[child] \in Links
  BY <1>1, <1>2 DEF Links
<1>5. d \in [AllNodes -> Links]
  <2>1. d = [n \in AllNodes |-> d[n]]
    BY DEF Unlink
  <2>2. \A n \in AllNodes : d[n] \in Links
    BY <1>3, <1>4
  <2> QED
    BY <2>1, <2>2
<1> QED
  BY <1>1, <1>2, <1>3, <1>5 DEF Links

(* XMLNode::Unlink takes a child out of its list; the others stay in it.   *)
THEOREM UnlinkKeepsTree ==
    ASSUME NEW ptr, IsTree(ptr), NEW child \in AllNodes,
           NEW d, d = Unlink(ptr, child)
    PROVE  /\ IsTree(d)
           /\ d[child].parent = Null
           /\ \A n \in AllNodes : n # child => d[n].parent = ptr[n].parent
           /\ d[child].first = ptr[child].first
           /\ \A n \in AllNodes : ptr[n] = Blank => d[n] = Blank
<1>1. ptr \in [AllNodes -> Links] /\ d \in [AllNodes -> Links]
  BY UnlinkPointers DEF IsTree
<1>2. Null \notin AllNodes
  BY NodeAssumption DEF AllNodes
<1> DEFINE P(n) == ptr[n].parent  DP(n) == d[n].parent
           F(n) == ptr[n].first   DF(n) == d[n].first
           L(n) == ptr[n].last    DL(n) == d[n].last
           V(n) == ptr[n].prev    DV(n) == d[n].prev
           X(n) == ptr[n].next    DX(n) == d[n].next
<1>3. \A n \in AllNodes :
        /\ P(n) = Null \/ P(n) \in AllNodes
        /\ F(n) = Null \/ F(n) \in AllNodes
        /\ L(n) = Null \/ L(n) \in AllNodes
        /\ V(n) = Null \/ V(n) \in AllNodes
        /\ X(n) = Null \/ X(n) \in AllNodes
  BY TreePointers
<1>4. \A n \in AllNodes :
        /\ F(n) = Null <=> L(n) = Null
        /\ F(n) # Null => P(F(n)) = n /\ V(F(n)) = Null
        /\ L(n) # Null => P(L(n)) = n /\ X(L(n)) = Null
        /\ X(n) # Null => V(X(n)) = n /\ P(X(n)) = P(n)
        /\ V(n) # Null => X(V(n)) = n /\ P(V(n)) = P(n)
        /\ P(n) = Null => V(n) = Null /\ X(n) = Null
        /\ P(n) # Null /\ V(n) = Null => F(P(n)) = n
        /\ P(n) # Null /\ X(n) = Null => L(P(n)) = n
        /\ P(n) # n
  BY DEF IsTree, LinksAgree, EndsAgree, NeighboursAgree, ParentsAgree
<1>5. /\ DP(child) = Null /\ DV(child) = Null /\ DX(child) = Null
      /\ DF(child) = F(child) /\ DL(child) = L(child)
      /\ \A n \in AllNodes : n # child =>
            /\ DP(n) = P(n)
            /\ DF(n) = IF n = P(child) /\ F(n) = child THEN X(child) ELSE F(n)
            /\ DL(n) = IF n = P(child) /\ L(n) = child THEN V(child) ELSE L(n)
            /\ DX(n) = IF n = V(child) THEN X(child) ELSE X(n)
            /\ DV(n) = IF n = X(child) THEN V(child) ELSE V(n)
  BY <1>1, UnlinkPointers
<1>6. /\ \A n \in AllNodes : ptr[n] = Blank =>
            P(n) = Null /\ F(n) = Null /\ L(n) = Null /\ V(n) = Null /\ X(n) = Null
      /\ \A n \in AllNodes :
            DP(n) = Null /\ DF(n) = Null /\ DL(n) = Null /\ DV(n) = Null /\ DX(n) = Null
            => d[n] = Blank
  BY <1>1, BlankFields
<1> HIDE DEF P, F, L, V, X, DP, DF, DL, DV, DX
<1>7. \A n \in AllNodes :
        /\ DF(n) = Null <=> DL(n) = Null
        /\ DF(n) # Null => DP(DF(n)) = n /\ DV(DF(n)) = Null
        /\ DL(n) # Null => DP(DL(n)) = n /\ DX(DL(n)) = Null
        /\ DX(n) # Null => DV(DX(n)) = n /\ DP(DX(n)) = DP(n)
        /\ DV(n) # Null => DX(DV(n)) = n /\ DP(DV(n)) = DP(n)
        /\ DP(n) = Null => DV(n) = Null /\ DX(n) = Null
        /\ DP(n) # Null /\ DV(n) = Null => DF(DP(n)) = n
        /\ DP(n) # Null /\ DX(n) = Null => DL(DP(n)) = n
        /\ DP(n) # n
  BY <1>2, <1>3, <1>4, <1>5
<1>8. \A n \in AllNodes : ptr[n] = Blank => d[n] = Blank
  BY <1>2, <1>3, <1>4, <1>5, <1>6
<1>9. IsTree(d)
  BY <1>1, <1>7 DEF IsTree, LinksAgree, EndsAgree, NeighboursAgree, ParentsAgree,
                    DP, DF, DL, DV, DX
<1> QED
  BY <1>5, <1>8, <1>9 DEF DP, DF, P, F
-----------------------------------------------------------------------------
(* What Between does to each pointer.                                      *)
LEMMA BetweenPointers ==
    ASSUME NEW ptr \in [AllNodes -> Links], NEW this \in AllNodes,
           NEW add \in AllNodes, NEW prev \in Link, NEW next \in Link,
           NEW d, d = Between(ptr, this, prev, add, next)
    PROVE  /\ d \in [AllNodes -> Links]
           /\ d[add].parent = this /\ d[add].prev = prev /\ d[add].next = next
           /\ d[add].first = ptr[add].first /\ d[add].last = ptr[add].last
           /\ \A n \in AllNodes : n # add =>
                 /\ d[n].parent = ptr[n].parent
                 /\ d[n].first = IF n = this /\ prev = Null THEN add ELSE ptr[n].first
                 /\ d[n].last = IF n = this /\ next = Null THEN add ELSE ptr[n].last
                 /\ d[n].next = IF n = prev THEN add ELSE ptr[n].next
                 /\ d[n].prev = IF n = next THEN add ELSE ptr[n].prev
<1>1. ptr[add] \in Links /\ this \in Link /\ add \in Link
  BY DEF Link
<1>2. d[add] = [ptr[add] EXCEPT !.parent = this, !.prev = prev, !.next = next]
  BY DEF Between
<1>3. ASSUME NEW n \in AllNodes, n # add
      PROVE  /\ d[n] \in Links
             /\ d[n].parent = ptr[n].parent
             /\ d[n].first = IF n = this /\ prev = Null THEN add ELSE ptr[n].first
             /\ d[n].last = IF n = this /\ next = Null THEN add ELSE ptr[n].last
             /\ d[n].next = IF n = prev THEN add ELSE ptr[n].next
             /\ d[n].prev = IF n = next THEN add ELSE ptr[n].prev
  <2>1. ptr[n] \in Links
    OBVIOUS
  <2>2. d[n] = [ptr[n] EXCEPT
                  !.first = IF n = this /\ prev = Null THEN add ELSE @,
                  !.last = IF n = this /\ next = Null THEN add ELSE @,
                  !.next = IF n = prev THEN add ELSE @,
                  !.prev = IF n = next THEN add ELSE @]
    BY <1>3 DEF Between
  <2> QED
    BY <1>1, <2>1, <2>2 DEF Links
<1>4. d[add] \in Links
  BY <1>1, <1>2 DEF Links
<1>5. d \in [AllNodes -> Links]
  <2>1. d = [n \in AllNodes |-> d[n]]
    BY DEF Between
  <2>2. \A n \in AllNodes : d[n] \in Links
    BY <1>3, <1>4
  <2> QED
    BY <2>1, <2>2
<1> QED
  BY <1>1, <1>2, <1>3, <1>5 DEF Links

(* Putting a node that is in no list between two neighbours.               *)
LEMMA BetweenKeepsTree ==
    ASSUME NEW ptr, IsTree(ptr), NEW this \in AllNodes,
           NEW add \in AllNodes, add # this, ptr[add].parent = Null,
           NEW prev \in Link, NEW next \in Link,
           IF prev = Null THEN next = ptr[this].first
           ELSE ptr[prev].parent = this /\ ptr[prev].next = next,
           NEW d, d = Between(ptr, this, prev, add, next)
    PROVE  /\ IsTree(d)
           /\ d[add].parent = this
           /\ \A n \in AllNodes : n # add => d[n].parent = ptr[n].parent
           /\ \A n \in AllNodes :
                 ptr[n] = Blank /\ n # this /\ n # add => d[n] = Blank
<1>1. ptr \in [AllNodes -> Links] /\ d \in [AllNodes -> Links]
  BY BetweenPointers DEF IsTree
<1>2. Null \notin AllNodes
  BY NodeAssumption DEF AllNodes
<1> DEFINE P(n) == ptr[n].parent  DP(n) == d[n].parent
           F(n) == ptr[n].first   DF(n) == d[n].first
           L(n) == ptr[n].last    DL(n) == d[n].last
           V(n) == ptr[n].prev    DV(n) == d[n].prev
           X(n) == ptr[n].next    DX(n) == d[n].next
<1>3. \A n \in AllNodes :
        /\ P(n) = Null \/ P(n) \in AllNodes
        /\ F(n) = Null \/ F(n) \in AllNodes
        /\ L(n) = Null \/ L(n) \in AllNodes
        /\ V(n) = Null \/ V(n) \in AllNodes
        /\ X(n) = Null \/ X(n) \in AllNodes
  BY TreePointers
<1>4. \A n \in AllNodes :
        /\ F(n) = Null <=> L(n) = Null
        /\ F(n) # Null => P(F(n)) = n /\ V(F(n)) = Null
        /\ L(n) # Null => P(L(n)) = n /\ X(L(n)) = Null
        /\ X(n) # Null => V(X(n)) = n /\ P(X(n)) = P(n)
        /\ V(n) # Null => X(V(n)) = n /\ P(V(n)) = P(n)
        /\ P(n) = Null => V(n) = Null /\ X(n) = Null
        /\ P(n) # Null /\ V(n) = Null => F(P(n)) = n
        /\ P(n) # Null /\ X(n) = Null => L(P(n)) = n
        /\ P(n) # n
  BY DEF IsTree, LinksAgree, EndsAgree, NeighboursAgree, ParentsAgree
<1>5. /\ DP(add) = this /\ DV(add) = prev /\ DX(add) = next
      /\ DF(add) = F(add) /\ DL(add) = L(add)
      /\ \A n \in AllNodes : n # add =>
            /\ DP(n) = P(n)
            /\ DF(n) = IF n = this /\ prev = Null THEN add ELSE F(n)
            /\ DL(n) = IF n = this /\ next = Null THEN add ELSE L(n)
            /\ DX(n) = IF n = prev THEN add ELSE X(n)
            /\ DV(n) = IF n = next THEN add ELSE V(n)
  BY <1>1, BetweenPointers
<1>6. /\ P(add) = Null
      /\ prev = Null \/ prev \in AllNodes
      /\ next = Null \/ next \in AllNodes
      /\ prev = Null => next = F(this)
      /\ prev # Null => P(prev) = this /\ X(prev) = next
  BY DEF Link
<1>7. /\ \A n \in AllNodes : ptr[n] = Blank =>
            P(n) = Null /\ F(n) = Null /\ L(n) = Null /\ V(n) = Null /\ X(n) = Null
      /\ \A n \in AllNodes :
            DP(n) = Null /\ DF(n) = Null /\ DL(n) = Null /\ DV(n) = Null /\ DX(n) = Null
            => d[n] = Blank
  BY <1>1, BlankFields
<1> HIDE DEF P, F, L, V, X, DP, DF, DL, DV, DX
<1>8. /\ next # Null => P(next) = this /\ V(next) = prev
      /\ next = Null => prev = L(this)
      /\ prev # add /\ next # add
  BY <1>2, <1>3, <1>4, <1>6
<1>9. \A n \in AllNodes :
        /\ DF(n) = Null <=> DL(n) = Null
        /\ DF(n) # Null => DP(DF(n)) = n /\ DV(DF(n)) = Null
        /\ DL(n) # Null => DP(DL(n)) = n /\ DX(DL(n)) = Null
        /\ DX(n) # Null => DV(DX(n)) = n /\ DP(DX(n)) = DP(n)
        /\ DV(n) # Null => DX(DV(n)) = n /\ DP(DV(n)) = DP(n)
        /\ DP(n) = Null => DV(n) = Null /\ DX(n) = Null
        /\ DP(n) # Null /\ DV(n) = Null => DF(DP(n)) = n
        /\ DP(n) # Null /\ DX(n) = Null => DL(DP(n)) = n
        /\ DP(n) # n
  BY <1>2, <1>3, <1>4, <1>5, <1>6, <1>8
<1>10. \A n \in AllNodes :
          ptr[n] = Blank /\ n # this /\ n # add => d[n] = Blank
  BY <1>2, <1>3, <1>4, <1>5, <1>6, <1>7, <1>8
<1>11. IsTree(d)
  BY <1>1, <1>9 DEF IsTree, LinksAgree, EndsAgree, NeighboursAgree, ParentsAgree,
                    DP, DF, DL, DV, DX
<1> QED
  BY <1>5, <1>10, <1>11 DEF DP, P
-----------------------------------------------------------------------------
(* InsertChildPreamble: a child of some node leaves it first.              *)
LEMMA DetachedKeepsTree ==
    ASSUME NEW ptr, IsTree(ptr), NEW add \in AllNodes
    PROVE  LET d == Detached(ptr, add)
           IN  /\ IsTree(d)
               /\ d[add].parent = Null
               /\ \A n \in AllNodes : n # add => d[n].parent = ptr[n].parent
               /\ \A n \in AllNodes : ptr[n] = Blank => d[n] = Blank
<1> DEFINE d == Detached(ptr, add)
<1>1. CASE ptr[add].parent = Null
  BY <1>1 DEF Detached
<1>2. CASE ptr[add].parent # Null
  <2>1. d = Unlink(ptr, add)
    BY <1>2 DEF Detached
  <2> QED
    BY <2>1, UnlinkKeepsTree
<1> QED
  BY <1>1, <1>2

(* What an insertion keeps: lists that agree, all parents but that of the  *)
(* new child, and the nodes that are not in use.                           *)
Inserted(ptr, this, add, d) ==
    /\ IsTree(d)
    /\ d[add].parent = this
    /\ \A n \in AllNodes : n # add => d[n].parent = ptr[n].parent
    /\ \A n \in AllNodes :
          ptr[n] = Blank /\ n # this /\ n # add => d[n] = Blank

(* Every insertion leaves the tree as Inserted says.                       *)
LEMMA InsertedBetween ==
    ASSUME NEW ptr, IsTree(ptr), NEW this \in AllNodes, NEW add \in AllNodes,
           add # this, NEW e, e = Detached(ptr, add), NEW prev \in Link, NEW next \in Link,
           IF prev = Null THEN next = e[this].first
           ELSE e[prev].parent = this /\ e[prev].next = next,
           NEW d, d = Between(e, this, prev, add, next)
    PROVE  Inserted(ptr, this, add, d)
<1>1. /\ IsTree(e)
      /\ e[add].parent = Null
      /\ \A n \in AllNodes : n # add => e[n].parent = ptr[n].parent
      /\ \A n \in AllNodes : ptr[n] = Blank => e[n] = Blank
  BY DetachedKeepsTree
<1>2. /\ IsTree(d)
      /\ d[add].parent = this
      /\ \A n \in AllNodes : n # add => d[n].parent = e[n].parent
      /\ \A n \in AllNodes :
            e[n] = Blank /\ n # this /\ n # add => d[n] = Blank
  BY <1>1, BetweenKeepsTree
<1> QED
  BY <1>1, <1>2 DEF Inserted

(* XMLNode::InsertEndChild: a new last child.                              *)
THEOREM InsertEndChildKeepsTree ==
    ASSUME NEW ptr, IsTree(ptr), NEW this \in AllNodes, NEW add \in AllNodes,
           add # this
    PROVE  Inserted(ptr, this, add, InsertEndChild(ptr, this, add))
<1> DEFINE e == Detached(ptr, add)
           prev == e[this].last
<1>1. IsTree(e)
  BY DetachedKeepsTree
<1>2. e \in [AllNodes -> Links] /\ LinksAgree(e)
  BY <1>1 DEF IsTree
<1>3. e[this] \in Links /\ Null \in Link
  BY <1>2 DEF Link
<1>4. prev \in Link
  BY <1>3 DEF Links
<1>5. IF prev = Null THEN Null = e[this].first
      ELSE e[prev].parent = this /\ e[prev].next = Null
  BY <1>2 DEF LinksAgree, EndsAgree
<1>6. InsertEndChild(ptr, this, add) = Between(e, this, prev, add, Null)
  BY DEF InsertEndChild
<1> HIDE DEF e, prev
<1> QED
  BY <1>3, <1>4, <1>5, <1>6, InsertedBetween DEF e

(* XMLNode::InsertFirstChild: a new first child.                           *)
THEOREM InsertFirstChildKeepsTree ==
    ASSUME NEW ptr, IsTree(ptr), NEW this \in AllNodes, NEW add \in AllNodes,
           add # this
    PROVE  Inserted(ptr, this, add, InsertFirstChild(ptr, this, add))
<1> DEFINE e == Detached(ptr, add)
           next == e[this].first
<1>1. IsTree(e)
  BY DetachedKeepsTree
<1>2. e[this] \in Links /\ Null \in Link
  BY <1>1 DEF IsTree, Link
<1>3. next \in Link
  BY <1>2 DEF Links
<1>4. InsertFirstChild(ptr, this, add) = Between(e, this, Null, add, next)
  BY DEF InsertFirstChild
<1> HIDE DEF e
<1> QED
  BY <1>2, <1>3, <1>4, InsertedBetween DEF e

(* XMLNode::InsertAfterChild: a new child behind another; behind itself it *)
(* stays where it is.                                                      *)
THEOREM InsertAfterChildKeepsTree ==
    ASSUME NEW ptr, IsTree(ptr), NEW after \in AllNodes, NEW add \in AllNodes,
           NEW this \in AllNodes, ptr[after].parent = this, add # this
    PROVE  Inserted(ptr, this, add, InsertAfterChild(ptr, this, after, add))
<1> DEFINE e == Detached(ptr, add)
           next == e[after].next
<1>1. CASE after = add
  <2>1. InsertAfterChild(ptr, this, after, add) = ptr
    BY <1>1 DEF InsertAfterChild
  <2> QED
    BY <1>1, <2>1 DEF Inserted
<1>2. CASE after # add /\ ptr[after].next = Null
  <2>1. InsertAfterChild(ptr, this, after, add) = InsertEndChild(ptr, this, add)
    BY <1>2 DEF InsertAfterChild
  <2> QED
    BY <2>1, InsertEndChildKeepsTree
<1>3. CASE after # add /\ ptr[after].next # Null
  <2>1. IsTree(e) /\ e[after].parent = this
    BY <1>3, DetachedKeepsTree
  <2>2. e[after] \in Links /\ after \in Link /\ after # Null
    BY <2>1, NodeAssumption DEF IsTree, Link, AllNodes
  <2>3. next \in Link
    BY <2>2 DEF Links
  <2>4. InsertAfterChild(ptr, this, after, add) = Between(e, this, after, add, next)
    BY <1>3 DEF InsertAfterChild
  <2> HIDE DEF e
  <2> QED
    BY <2>1, <2>2, <2>3, <2>4, InsertedBetween DEF e
<1> QED
  BY <1>1, <1>2, <1>3

(* XMLNode::DeleteNode of a node without children that is nobody's child   *)
(* leaves nothing behind.                                                  *)
THEOREM FreedKeepsTree ==
    ASSUME NEW ptr, IsTree(ptr), NEW n \in AllNodes,
           ptr[n].parent = Null, ptr[n].first = Null
    PROVE  ptr[n] = Blank /\ Freed(ptr, n) = ptr
<1>1. ptr \in [AllNodes -> Links] /\ LinksAgree(ptr)
  BY DEF IsTree
<1>2. ptr[n].last = Null /\ ptr[n].prev = Null /\ ptr[n].next = Null
  BY <1>1 DEF LinksAgree, EndsAgree, ParentsAgree
<1>3. ptr[n] = Blank
  BY <1>1, <1>2, BlankFields
<1> QED
  BY <1>1, <1>3 DEF Freed
-----------------------------------------------------------------------------
(* What is in use, and what its pointers are.                              *)
NodesSound ==
    /\ DOMAIN node = Node
    /\ \A n \in Node : node[n] = Item(node[n].kind, node[n].value, node[n].attributes)
    /\ IsTree(dom)
    /\ dom[Document].parent = Null
    /\ \A n \in Node : n \notin Allocated => dom[n] = Blank

(* The nodes whose DeleteNode runs are in use and in no list.              *)
DyingSound ==
    /\ dying \in Seq(Node)
    /\ \A i \in 1 .. Len(dying) :
          dying[i] \in Allocated /\ dom[dying[i]].parent = Null
    /\ \A i, j \in 1 .. Len(dying) : dying[i] = dying[j] => i = j

UnlinkedSound ==
    unlinked = {n \in Allocated : dom[n].parent = Null} \ ToSet(dying)

CountSound == error = "none" => untracked = Cardinality(unlinked)

Sound == NodesSound /\ DyingSound /\ UnlinkedSound /\ CountSound

(* While a file is read, the elements that are open are in no list yet.    *)
OpenSound ==
    IF stage = "parsing"
    THEN /\ open \in Seq(AllNodes) /\ open # << >>
         /\ open[1] = Document
         /\ \A i \in 2 .. Len(open) : open[i] \in unlinked
         /\ \A i, j \in 1 .. Len(open) : open[i] = open[j] => i = j
         /\ dying = << >> /\ cloning = << >>
    ELSE open = << >>

(* The calls of a DeepClone: the copies are different nodes that are in no *)
(* list yet, and a child to be cloned is some node's child.                *)
StackSound(stack) ==
    /\ stack \in Seq([copy : Node, child : Link])
    /\ \A i \in 1 .. Len(stack) :
          /\ stack[i].copy \in unlinked
          /\ stack[i].child # Null =>
                /\ stack[i].child \in Allocated
                /\ dom[stack[i].child].parent # Null
    /\ \A i, j \in 1 .. Len(stack) : stack[i].copy = stack[j].copy => i = j

CloningSound ==
    /\ StackSound(cloning)
    /\ cloning # << >> => stage = "loaded" /\ dying = << >>

StageSound ==
    /\ stage \in {"parsing", "loaded", "clearing"}
    /\ stage = "clearing" => error = "none"

Inv == Sound /\ OpenSound /\ CloningSound /\ StageSound
-----------------------------------------------------------------------------
(* A place that the pool hands out is free.                                *)
LEMMA FreshIsFree ==
    ASSUME HasFresh
    PROVE  Fresh \in Node /\ Fresh \notin Allocated
<1>1. \E n \in Node : n \notin Allocated
  BY DEF HasFresh, Allocated
<1> QED
  BY <1>1 DEF Fresh

(* The elements of a stack without its top.                                *)
LEMMA FrontProperties ==
    ASSUME NEW T, NEW s \in Seq(T), s # << >>
    PROVE  /\ Front(s) \in Seq(T) /\ Len(Front(s)) = Len(s) - 1
           /\ \A i \in 1 .. Len(s) - 1 : Front(s)[i] = s[i]
<1> DEFINE m == Len(s) - 1
<1>1. m \in Nat /\ m <= Len(s)
  OBVIOUS
<1> HIDE DEF m
<1>2. /\ SubSeq(s, 1, m) \in Seq(T) /\ Len(SubSeq(s, 1, m)) = m
      /\ \A i \in 1 .. m : SubSeq(s, 1, m)[i] = s[i]
  BY <1>1
<1> QED
  BY <1>2 DEF Front, m

(* _unlinked can be counted.                                               *)
LEMMA UnlinkedIsFinite ==
    ASSUME UnlinkedSound
    PROVE  IsFiniteSet(unlinked) /\ unlinked \subseteq Allocated /\ Allocated \subseteq Node
<1>1. Allocated \subseteq Node /\ unlinked \subseteq Allocated
  BY DEF UnlinkedSound, Allocated
<1>2. IsFiniteSet(unlinked)
  BY <1>1, NodeFinite, FS_Subset
<1> QED
  BY <1>1, <1>2

(* The nodes and what else is sound after a node was created.              *)
LEMMA AllocatedAfterCreation ==
    ASSUME NodesSound, HasFresh, NEW data, data.kind # "free",
           node' = [node EXCEPT ![Fresh] = data]
    PROVE  Allocated' = Allocated \cup {Fresh}
<1>1. Fresh \in Node
  BY FreshIsFree
<1>2. \A n \in Node : node'[n] = IF n = Fresh THEN data ELSE node[n]
  BY <1>1 DEF NodesSound
<1> QED
  BY <1>1, <1>2 DEF Allocated

IsItem(data) ==
    data = Item(data.kind, data.value, data.attributes) /\ data.kind # "free"

(* CreateUnlinkedNode                                                      *)
LEMMA CreateKeepsSound ==
    ASSUME Sound, HasFresh, NEW data, IsItem(data), Create(Fresh, data),
           UNCHANGED <<dom, dying, error>>
    PROVE  /\ Sound'
           /\ Allocated' = Allocated \cup {Fresh}
           /\ Fresh \in Node /\ Fresh \notin unlinked
           /\ unlinked' = unlinked \cup {Fresh}
           /\ dom[Fresh].parent = Null
<1>1. Fresh \in Node /\ Fresh \notin Allocated
  BY FreshIsFree
<1>2. Allocated' = Allocated \cup {Fresh}
  BY AllocatedAfterCreation DEF Sound, Create, IsItem
<1>3. IsFiniteSet(unlinked) /\ unlinked \subseteq Allocated
  BY UnlinkedIsFinite DEF Sound
<1>4. dom[Fresh].parent = Null
  BY <1>1 DEF Sound, NodesSound, Blank
<1>5. NodesSound'
  <2>1. \A n \in Node : node'[n] = IF n = Fresh THEN data ELSE node[n]
    BY <1>1 DEF Create, Sound, NodesSound
  <2>2. DOMAIN node' = Node
    BY DEF Create, Sound, NodesSound
  <2>3. \A n \in Node : node'[n] = Item(node'[n].kind, node'[n].value, node'[n].attributes)
    BY <2>1 DEF Sound, NodesSound, IsItem
  <2> QED
    BY <1>2, <2>2, <2>3 DEF Sound, NodesSound
<1>6. DyingSound'
  BY <1>2 DEF Sound, DyingSound
<1>7. unlinked' = unlinked \cup {Fresh}
  BY DEF Create
<1>8. Fresh \notin ToSet(dying)
  BY <1>1 DEF Sound, DyingSound, ToSet
<1>9. UnlinkedSound'
  BY <1>1, <1>2, <1>4, <1>7, <1>8 DEF Sound, UnlinkedSound
<1>10. CountSound'
  <2>1. Cardinality(unlinked') = Cardinality(unlinked) + 1
    BY <1>1, <1>3, <1>7, FS_AddElement
  <2> QED
    BY <2>1 DEF Sound, CountSound, Create
<1> QED
  BY <1>1, <1>2, <1>3, <1>4, <1>5, <1>6, <1>7, <1>9, <1>10 DEF Sound

(* An insertion of a node that is in use, with what it does to parents.    *)
LEMMA InsertKeepsSound ==
    ASSUME Sound, dying = << >>,
           NEW this \in Allocated \cup {Document}, NEW add \in Allocated,
           Inserted(dom, this, add, dom'), Preamble(add),
           UNCHANGED <<node, dying, error>>
    PROVE  /\ Sound'
           /\ Allocated' = Allocated
           /\ unlinked' = unlinked \ {add}
           /\ \A n \in AllNodes : n # add => dom'[n].parent = dom[n].parent
<1>1. Allocated' = Allocated /\ Allocated \subseteq Node
  BY DEF Allocated
<1>2. /\ IsTree(dom')
      /\ dom'[add].parent = this
      /\ \A n \in AllNodes : n # add => dom'[n].parent = dom[n].parent
      /\ \A n \in AllNodes :
            dom[n] = Blank /\ n # this /\ n # add => dom'[n] = Blank
  BY DEF Inserted
<1>3. Document \notin Node /\ Null \notin Node /\ Null # Document
  BY NodeAssumption
<1>4. NodesSound'
  <2>1. dom'[Document].parent = Null
    BY <1>1, <1>2, <1>3 DEF Sound, NodesSound, AllNodes
  <2>2. \A n \in Node : n \notin Allocated' => dom'[n] = Blank
    BY <1>1, <1>2, <1>3 DEF Sound, NodesSound, AllNodes
  <2> QED
    BY <1>1, <1>2, <2>1, <2>2 DEF Sound, NodesSound
<1>5. DyingSound'
  BY DEF Sound, DyingSound
<1>6. unlinked' = unlinked \ {add}
  BY DEF Preamble
<1>7. ToSet(dying) = {}
  BY DEF ToSet
<1>8. unlinked = {n \in Allocated : dom[n].parent = Null}
  BY <1>7 DEF Sound, UnlinkedSound
<1>9. this # Null
  BY <1>1, <1>3
<1>10. unlinked' = {n \in Allocated : dom'[n].parent = Null}
  BY <1>1, <1>2, <1>6, <1>8, <1>9 DEF AllNodes
<1>11. UnlinkedSound'
  BY <1>1, <1>7, <1>10 DEF UnlinkedSound
<1>12. CountSound'
  <2>1. IsFiniteSet(unlinked)
    BY UnlinkedIsFinite DEF Sound
  <2>2. CASE dom[add].parent = Null
    <3>1. Cardinality(unlinked \ {add}) = Cardinality(unlinked) - 1
      BY <1>8, <2>1, <2>2, FS_RemoveElement
    <3> QED
      BY <1>6, <2>2, <3>1 DEF Sound, CountSound, Preamble
  <2>3. CASE dom[add].parent # Null
    <3>1. unlinked' = unlinked
      BY <1>6, <1>8, <2>3
    <3> QED
      BY <2>3, <3>1 DEF Sound, CountSound, Preamble
  <2> QED
    BY <2>2, <2>3
<1> QED
  BY <1>1, <1>2, <1>4, <1>5, <1>6, <1>11, <1>12 DEF Sound

(* CreateUnlinkedNode and an insertion in one step.                        *)
LEMMA CreateChildKeepsSound ==
    ASSUME Sound, HasFresh, NEW data, IsItem(data),
           NEW this \in Allocated \cup {Document},
           Inserted(dom, this, Fresh, dom'), CreateChild(Fresh, data),
           UNCHANGED error
    PROVE  /\ Sound'
           /\ Allocated' = Allocated \cup {Fresh}
           /\ Fresh \in Node /\ Fresh \notin Allocated
           /\ unlinked' = unlinked
           /\ \A n \in AllNodes : n # Fresh => dom'[n].parent = dom[n].parent
<1>1. Fresh \in Node /\ Fresh \notin Allocated
  BY FreshIsFree
<1>2. Allocated' = Allocated \cup {Fresh} /\ Allocated \subseteq Node
  BY AllocatedAfterCreation DEF Sound, CreateChild, IsItem, Allocated
<1>3. /\ IsTree(dom')
      /\ dom'[Fresh].parent = this
      /\ \A n \in AllNodes : n # Fresh => dom'[n].parent = dom[n].parent
      /\ \A n \in AllNodes :
            dom[n] = Blank /\ n # this /\ n # Fresh => dom'[n] = Blank
  BY DEF Inserted
<1>4. Document \notin Node /\ Null \notin Node /\ Null # Document
  BY NodeAssumption
<1>5. NodesSound'
  <2>1. \A n \in Node : node'[n] = IF n = Fresh THEN data ELSE node[n]
    BY <1>1 DEF CreateChild, Sound, NodesSound
  <2>2. DOMAIN node' = Node
    BY DEF CreateChild, Sound, NodesSound
  <2>3. \A n \in Node : node'[n] = Item(node'[n].kind, node'[n].value, node'[n].attributes)
    BY <2>1 DEF Sound, NodesSound, IsItem
  <2>4. dom'[Document].parent = Null
    BY <1>1, <1>3, <1>4 DEF Sound, NodesSound, AllNodes
  <2>5. \A n \in Node : n \notin Allocated' => dom'[n] = Blank
    BY <1>2, <1>3, <1>4 DEF Sound, NodesSound, AllNodes
  <2> QED
    BY <1>3, <2>2, <2>3, <2>4, <2>5 DEF NodesSound
<1>6. unlinked' = unlinked /\ dying' = dying /\ untracked' = untracked
  BY DEF CreateChild, calls
<1>7. DyingSound'
  <2>1. \A i \in 1 .. Len(dying) : dom'[dying[i]].parent = Null
    BY <1>1, <1>2, <1>3 DEF Sound, DyingSound, AllNodes
  <2> QED
    BY <1>2, <1>6, <2>1 DEF Sound, DyingSound
<1>8. this # Null
  BY <1>2, <1>4
<1>9. UnlinkedSound'
  BY <1>1, <1>2, <1>3, <1>6, <1>8 DEF Sound, UnlinkedSound, AllNodes
<1>10. CountSound'
  BY <1>6 DEF Sound, CountSound
<1> QED
  BY <1>1, <1>2, <1>3, <1>5, <1>6, <1>7, <1>9, <1>10 DEF Sound

(* DeleteNode takes its node out of the document; its turns are to come.   *)
LEMMA DeleteKeepsSound ==
    ASSUME Sound, dying = << >>, NEW n \in Allocated, Delete(n), UNCHANGED error
    PROVE  Sound' /\ Allocated' = Allocated /\ dying' # << >>
<1>1. Allocated' = Allocated /\ Allocated \subseteq Node
  BY DEF Allocated, Delete
<1>2. /\ IsTree(dom')
      /\ dom'[n].parent = Null
      /\ \A m \in AllNodes : m # n => dom'[m].parent = dom[m].parent
      /\ \A m \in AllNodes : dom[m] = Blank => dom'[m] = Blank
  BY <1>1, DetachedKeepsTree DEF Delete, Sound, NodesSound, AllNodes
<1>3. dying' = <<n>> /\ ToSet(dying) = {} /\ ToSet(dying') = {n}
  BY DEF Delete, ToSet
<1>4. NodesSound'
  BY <1>1, <1>2 DEF Sound, NodesSound, Delete, AllNodes
<1>5. DyingSound'
  <2>1. Len(dying') = 1 /\ dying'[1] = n /\ n \in Node
    BY <1>1, <1>3
  <2> QED
    BY <1>1, <1>2, <1>3, <2>1 DEF DyingSound
<1>6. unlinked = {m \in Allocated : dom[m].parent = Null}
  BY <1>3 DEF Sound, UnlinkedSound
<1>7. unlinked' = unlinked \ {n}
  BY DEF Delete, Preamble
<1>8. UnlinkedSound'
  <2>1. unlinked' = {m \in Allocated : dom'[m].parent = Null} \ {n}
    BY <1>1, <1>2, <1>6, <1>7 DEF AllNodes
  <2> QED
    BY <1>1, <1>3, <2>1 DEF UnlinkedSound
<1>9. CountSound'
  <2>1. IsFiniteSet(unlinked)
    BY UnlinkedIsFinite DEF Sound
  <2>2. CASE dom[n].parent = Null
    <3>1. Cardinality(unlinked \ {n}) = Cardinality(unlinked) - 1
      BY <1>6, <2>1, <2>2, FS_RemoveElement
    <3> QED
      BY <1>7, <2>2, <3>1 DEF Sound, CountSound, Delete, Preamble
  <2>3. CASE dom[n].parent # Null
    <3>1. unlinked' = unlinked
      BY <1>6, <1>7, <2>3
    <3> QED
      BY <2>3, <3>1 DEF Sound, CountSound, Delete, Preamble
  <2> QED
    BY <2>2, <2>3
<1> QED
  BY <1>1, <1>3, <1>4, <1>5, <1>8, <1>9 DEF Sound

(* One turn of a DeleteNode.                                               *)
LEMMA DestroyKeepsSound ==
    ASSUME Sound, Destroy
    PROVE  Sound'
<1> DEFINE n == Last(dying)
           child == dom[n].first
<1>1. /\ dying \in Seq(Node) /\ dying # << >> /\ Len(dying) \in Nat /\ Len(dying) >= 1
      /\ n = dying[Len(dying)] /\ n \in Node /\ n \in Allocated
      /\ dom[n].parent = Null
  BY DEF Sound, DyingSound, Destroy, Last
<1>2. IsTree(dom) /\ dom \in [AllNodes -> Links] /\ LinksAgree(dom)
  BY DEF Sound, NodesSound, IsTree
<1>3. UNCHANGED <<unlinked, untracked, error>>
  BY DEF Destroy, parser
<1>4. CountSound'
  BY <1>3 DEF Sound, CountSound
<1> HIDE DEF n
<1>5. CASE child # Null
  <2>1. dom' = Unlink(dom, child) /\ dying' = Append(dying, child) /\ UNCHANGED node
    BY <1>5 DEF Destroy, n
  <2>2. child \in AllNodes /\ dom[child].parent = n
    BY <1>1, <1>2, <1>5, TreePointers DEF LinksAgree, EndsAgree, AllNodes
  <2>3. n # Null
    BY <1>1, NodeAssumption
  <2>4. child \in Node /\ child \in Allocated
    BY <2>2, <2>3 DEF Sound, NodesSound, AllNodes, Blank
  <2>5. Allocated' = Allocated /\ Allocated \subseteq Node
    BY <2>1 DEF Allocated
  <2> HIDE DEF child
  <2>6. /\ IsTree(dom')
        /\ dom'[child].parent = Null
        /\ \A m \in AllNodes : m # child => dom'[m].parent = dom[m].parent
        /\ \A m \in AllNodes : dom[m] = Blank => dom'[m] = Blank
    BY <1>2, <2>1, <2>2, UnlinkKeepsTree
  <2>7. NodesSound'
    BY <2>1, <2>2, <2>3, <2>4, <2>5, <2>6, NodeAssumption DEF Sound, NodesSound, AllNodes
  <2>8. /\ dying' \in Seq(Node) /\ Len(dying') = Len(dying) + 1
        /\ dying'[Len(dying) + 1] = child
        /\ \A i \in 1 .. Len(dying) : dying'[i] = dying[i]
    BY <1>1, <2>1, <2>4
  <2>9. \A i \in 1 .. Len(dying) :
          dying[i] \in Allocated /\ dom[dying[i]].parent = Null /\ dying[i] # child
    BY <2>2, <2>3 DEF Sound, DyingSound
  <2>10. DyingSound'
    <3>1. \A i \in 1 .. Len(dying') :
             dying'[i] \in Allocated' /\ dom'[dying'[i]].parent = Null
      BY <1>1, <2>4, <2>5, <2>6, <2>8, <2>9 DEF AllNodes
    <3>2. \A i, j \in 1 .. Len(dying') : dying'[i] = dying'[j] => i = j
      BY <1>1, <2>8, <2>9 DEF Sound, DyingSound
    <3> QED
      BY <2>8, <3>1, <3>2 DEF DyingSound
  <2>11. ToSet(dying') = ToSet(dying) \cup {child}
    BY <1>1, <2>8 DEF ToSet
  <2>12. UnlinkedSound'
    BY <1>3, <2>2, <2>3, <2>5, <2>6, <2>11 DEF Sound, UnlinkedSound, AllNodes
  <2> QED
    BY <1>4, <2>7, <2>10, <2>12 DEF Sound
<1>6. CASE child = Null
  <2>1. dom' = Freed(dom, n) /\ node' = [node EXCEPT ![n] = Free] /\ dying' = Front(dying)
    BY <1>6 DEF Destroy, n
  <2>2. dom[n] = Blank /\ dom' = dom
    BY <1>1, <1>2, <1>6, <2>1, FreedKeepsTree DEF AllNodes
  <2>3. \A m \in Node : node'[m] = IF m = n THEN Free ELSE node[m]
    BY <1>1, <2>1 DEF Sound, NodesSound
  <2>4. Allocated' = Allocated \ {n}
    BY <2>3 DEF Allocated, Free
  <2>5. NodesSound'
    <3>1. DOMAIN node' = Node
      BY <2>1 DEF Sound, NodesSound
    <3>2. \A m \in Node : node'[m] = Item(node'[m].kind, node'[m].value, node'[m].attributes)
      BY <2>3 DEF Sound, NodesSound, Free, Item
    <3> QED
      BY <2>2, <2>4, <3>1, <3>2 DEF Sound, NodesSound
  <2>6. /\ dying' \in Seq(Node) /\ Len(dying') = Len(dying) - 1
        /\ \A i \in 1 .. Len(dying') : dying'[i] = dying[i]
    BY <1>1, <2>1, FrontProperties
  <2>7. \A i \in 1 .. Len(dying') : dying'[i] # n
    BY <1>1, <2>6 DEF Sound, DyingSound
  <2>8. DyingSound'
    <3>1. \A i \in 1 .. Len(dying') :
             dying'[i] \in Allocated' /\ dom'[dying'[i]].parent = Null
      BY <1>1, <2>2, <2>4, <2>6, <2>7 DEF Sound, DyingSound
    <3>2. \A i, j \in 1 .. Len(dying') : dying'[i] = dying'[j] => i = j
      BY <1>1, <2>6 DEF Sound, DyingSound
    <3> QED
      BY <2>6, <3>1, <3>2 DEF DyingSound
  <2>9. ToSet(dying') = ToSet(dying) \ {n}
    BY <1>1, <2>6, <2>7 DEF ToSet
  <2>10. n \notin unlinked
    BY <1>1 DEF Sound, UnlinkedSound, ToSet
  <2>11. UnlinkedSound'
    BY <1>3, <2>2, <2>4, <2>9, <2>10 DEF Sound, UnlinkedSound
  <2> QED
    BY <1>4, <2>5, <2>8, <2>11 DEF Sound
<1> QED
  BY <1>5, <1>6
-----------------------------------------------------------------------------
(* An XMLDocument before its first LoadFile.                               *)
LEMMA InitIsSound ==
    ASSUME NEW s, DocumentInit(s)
    PROVE  Inv
<1>1. Allocated = {}
  BY DEF DocumentInit, Allocated, Free
<1>2. Blank \in Links
  BY DEF Blank, Links, Link
<1>3. dom = [n \in AllNodes |-> Blank]
  BY DEF DocumentInit
<1>4. /\ dom \in [AllNodes -> Links]
      /\ \A n \in AllNodes :
            /\ dom[n].parent = Null /\ dom[n].first = Null /\ dom[n].last = Null
            /\ dom[n].prev = Null /\ dom[n].next = Null
  BY <1>2, <1>3 DEF Blank
<1>5. IsTree(dom)
  BY <1>4, NodeAssumption DEF IsTree, LinksAgree, EndsAgree, NeighboursAgree,
                              ParentsAgree, AllNodes
<1>6. NodesSound
  BY <1>3, <1>4, <1>5 DEF NodesSound, DocumentInit, AllNodes, Free, Item
<1>7. DyingSound
  BY DEF DyingSound, DocumentInit
<1>8. unlinked = {} /\ untracked = 0 /\ Cardinality({}) = 0
  BY FS_EmptySet DEF DocumentInit
<1>9. UnlinkedSound /\ CountSound
  BY <1>1, <1>8 DEF UnlinkedSound, CountSound
<1>10. CloningSound
  BY DEF CloningSound, StackSound, DocumentInit
<1> QED
  BY <1>6, <1>7, <1>9, <1>10 DEF Inv, Sound, OpenSound, StageSound, DocumentInit
-----------------------------------------------------------------------------
(* Parsing                                                                 *)

(* The end of the parsing, without an error.                               *)
LEMMA ReturnKeepsInv ==
    ASSUME Inv, Parsing, Return
    PROVE  Inv'
<1>1. UNCHANGED <<dom, node, unlinked, untracked, dying, cloning, error>>
  BY DEF Return, tree, calls
<1>2. Allocated' = Allocated
  BY <1>1 DEF Allocated
<1>3. Sound'
  BY <1>1, <1>2 DEF Inv, Sound, NodesSound, DyingSound, UnlinkedSound, CountSound
<1>4. stage' = "loaded" /\ open' = << >>
  BY DEF Return
<1>5. cloning' = << >>
  BY <1>1 DEF Inv, OpenSound, Parsing
<1>6. CloningSound'
  BY <1>5 DEF CloningSound, StackSound
<1> QED
  BY <1>3, <1>4, <1>6 DEF Inv, OpenSound, StageSound

(* The end of the parsing with an error; the open elements are deleted.    *)
LEMMA FailKeepsInv ==
    ASSUME Inv, Parsing, NEW err, NEW created, Fail(err, created)
    PROVE  Inv'
<1>1. UNCHANGED <<dom, node, cloning>> /\ dying' = Tail(open)
  BY DEF Fail
<1>2. Allocated' = Allocated
  BY <1>1 DEF Allocated
<1>3. NodesSound'
  BY <1>1, <1>2 DEF Inv, Sound, NodesSound
<1>4. /\ open \in Seq(AllNodes) /\ open # << >> /\ Len(open) \in Nat
      /\ \A i \in 2 .. Len(open) : open[i] \in unlinked
      /\ \A i, j \in 1 .. Len(open) : open[i] = open[j] => i = j
      /\ dying = << >> /\ cloning = << >>
  BY DEF Inv, OpenSound, Parsing
<1>5. /\ Len(Tail(open)) = Len(open) - 1
      /\ \A i \in 1 .. Len(open) - 1 : Tail(open)[i] = open[i + 1]
      /\ Tail(open) \in Seq(AllNodes)
  BY <1>4
<1>6. unlinked = {n \in Allocated : dom[n].parent = Null} /\ ToSet(dying) = {}
  BY <1>4 DEF Inv, Sound, UnlinkedSound, ToSet
<1>7. \A i \in 1 .. Len(open) - 1 : Tail(open)[i] \in unlinked
  BY <1>4, <1>5
<1>8. Tail(open) \in Seq(Node)
  <2>1. \A i \in 1 .. Len(open) - 1 : Tail(open)[i] \in Node
    BY <1>6, <1>7 DEF Allocated
  <2> DEFINE t == Tail(open)
  <2>2. t \in Seq(AllNodes) /\ \A i \in 1 .. Len(t) : t[i] \in Node
    BY <1>5, <2>1
  <2> HIDE DEF t
  <2>3. t \in Seq(Node)
    BY <2>2
  <2> QED
    BY <2>3 DEF t
<1>9. DyingSound'
  <2>1. \A i \in 1 .. Len(dying') :
           dying'[i] \in Allocated' /\ dom'[dying'[i]].parent = Null
    BY <1>1, <1>2, <1>5, <1>6, <1>7
  <2>2. \A i, j \in 1 .. Len(dying') : dying'[i] = dying'[j] => i = j
    BY <1>1, <1>4, <1>5
  <2> QED
    BY <1>1, <1>8, <2>1, <2>2 DEF DyingSound
<1>10. UnlinkedSound'
  <2>1. ToSet(dying') = {open[i] : i \in 2 .. Len(open)}
    <3>1. DOMAIN dying' = 1 .. Len(open) - 1
      BY <1>1, <1>4, <1>5
    <3>2. \A i \in 2 .. Len(open) : i - 1 \in DOMAIN dying' /\ dying'[i - 1] = open[i]
      BY <1>1, <1>4, <1>5, <3>1
    <3>3. \A i \in DOMAIN dying' : i + 1 \in 2 .. Len(open) /\ dying'[i] = open[i + 1]
      BY <1>1, <1>4, <1>5, <3>1
    <3> QED
      BY <3>2, <3>3 DEF ToSet
  <2>2. unlinked' = unlinked \ {open[i] : i \in 2 .. Len(open)}
    BY DEF Fail
  <2> QED
    BY <1>1, <1>2, <1>6, <2>1, <2>2 DEF UnlinkedSound
<1>11. CountSound' /\ error' # "none"
  BY DEF CountSound, Fail
<1>12. CloningSound'
  <2>1. cloning' = << >>
    BY <1>1, <1>4
  <2> QED
    BY <2>1 DEF CloningSound, StackSound
<1>13. stage' = "loaded" /\ open' = << >>
  BY DEF Fail
<1> QED
  BY <1>3, <1>9, <1>10, <1>11, <1>12, <1>13 DEF Inv, Sound, OpenSound, StageSound

(* The innermost element, or the document, is in use.                      *)
LEMMA TopIsInUse ==
    ASSUME Inv, Parsing
    PROVE  /\ open \in Seq(AllNodes) /\ Len(open) \in Nat /\ Len(open) >= 1
           /\ Top = open[Len(open)]
           /\ \A i \in 1 .. Len(open) :
                 /\ open[i] \in Allocated \cup {Document}
                 /\ i > 1 => open[i] \in unlinked
           /\ Top \in AllNodes /\ Top \in Allocated \cup {Document}
           /\ dying = << >> /\ cloning = << >> /\ Allocated \subseteq Node
<1>1. /\ open \in Seq(AllNodes) /\ open # << >> /\ Len(open) \in Nat
      /\ open[1] = Document
      /\ \A i \in 2 .. Len(open) : open[i] \in unlinked
      /\ dying = << >> /\ cloning = << >>
  BY DEF Inv, OpenSound, Parsing
<1>2. unlinked \subseteq Allocated /\ Allocated \subseteq Node
  BY UnlinkedIsFinite DEF Inv, Sound
<1>3. \A i \in 1 .. Len(open) : i = 1 \/ i \in 2 .. Len(open)
  BY <1>1
<1>4. \A i \in 1 .. Len(open) :
         /\ open[i] \in Allocated \cup {Document}
         /\ i > 1 => open[i] \in unlinked
  BY <1>1, <1>2, <1>3
<1>5. Len(open) >= 1 /\ Top = open[Len(open)]
  BY <1>1 DEF Top, Last
<1>6. Len(open) \in 1 .. Len(open)
  BY <1>1, <1>5
<1> QED
  BY <1>1, <1>2, <1>4, <1>5, <1>6 DEF AllNodes

(* A node that has no children becomes a child as soon as it is read.      *)
LEMMA ParsedChildKeepsInv ==
    ASSUME Inv, Parsing, HasFresh, NEW data, IsItem(data),
           dom' = InsertEndChild(dom, Top, Fresh), CreateChild(Fresh, data),
           UNCHANGED <<open, error, stage>>
    PROVE  Inv'
<1>1. Fresh \in Node /\ Fresh \notin Allocated /\ Fresh # Document
  BY FreshIsFree, NodeAssumption
<1>2. Top \in AllNodes /\ Top \in Allocated \cup {Document} /\ Top # Fresh
  BY <1>1, TopIsInUse
<1>3. Inserted(dom, Top, Fresh, dom')
  BY <1>1, <1>2, InsertEndChildKeepsTree DEF Inv, Sound, NodesSound, AllNodes
<1>4. Sound' /\ unlinked' = unlinked
  BY <1>2, <1>3, CreateChildKeepsSound DEF Inv
<1>5. UNCHANGED <<dying, cloning>>
  BY DEF CreateChild, calls
<1>6. OpenSound'
  BY <1>4, <1>5 DEF Inv, OpenSound
<1>7. CloningSound'
  BY <1>5, TopIsInUse DEF CloningSound, StackSound
<1>8. StageSound'
  BY DEF Inv, StageSound
<1> QED
  BY <1>4, <1>6, <1>7, <1>8 DEF Inv

(* The beginning of an element.                                            *)
LEMMA OpenedElementKeepsInv ==
    ASSUME Inv, Parsing, HasFresh, NEW data, IsItem(data),
           Create(Fresh, data), open' = Append(open, Fresh),
           UNCHANGED <<dom, dying, cloning, error, stage>>
    PROVE  Inv'
<1>1. /\ Sound' /\ Fresh \in Node /\ Fresh \notin unlinked
      /\ unlinked' = unlinked \cup {Fresh}
  BY CreateKeepsSound DEF Inv
<1>2. Fresh # Document /\ Fresh \notin Allocated
  BY FreshIsFree, NodeAssumption
<1>3. /\ open \in Seq(AllNodes) /\ Len(open) \in Nat /\ Len(open) >= 1
      /\ \A i \in 1 .. Len(open) : open[i] # Fresh
  BY <1>2, TopIsInUse
<1>4. /\ open[1] = Document
      /\ \A i \in 2 .. Len(open) : open[i] \in unlinked
      /\ \A i, j \in 1 .. Len(open) : open[i] = open[j] => i = j
      /\ dying = << >> /\ cloning = << >> /\ stage = "parsing"
  BY DEF Inv, OpenSound, Parsing
<1>5. /\ open' \in Seq(AllNodes) /\ Len(open') = Len(open) + 1
      /\ open'[Len(open) + 1] = Fresh
      /\ \A i \in 1 .. Len(open) : open'[i] = open[i]
  BY <1>1, <1>3 DEF AllNodes
<1>6. \A i \in 2 .. Len(open') : open'[i] \in unlinked'
  BY <1>1, <1>3, <1>4, <1>5
<1>7. \A i, j \in 1 .. Len(open') : open'[i] = open'[j] => i = j
  BY <1>3, <1>4, <1>5
<1>8. open' # << >> /\ open'[1] = Document
  BY <1>3, <1>4, <1>5
<1>9. OpenSound'
  BY <1>4, <1>5, <1>6, <1>7, <1>8 DEF OpenSound
<1>10. CloningSound'
  BY <1>4 DEF CloningSound, StackSound
<1>11. StageSound'
  BY DEF Inv, StageSound
<1> QED
  BY <1>1, <1>9, <1>10, <1>11 DEF Inv

(* Its end.                                                                *)
LEMMA ClosedElementKeepsInv ==
    ASSUME Inv, Parsing, Top # Document,
           dom' = InsertEndChild(dom, open[Len(open) - 1], Top),
           Preamble(Top), open' = Front(open),
           UNCHANGED <<node, dying, cloning, error, stage>>
    PROVE  Inv'
<1> DEFINE l == Len(open)
           this == open[l - 1]
<1>1. /\ open \in Seq(AllNodes) /\ l \in Nat
      /\ open[1] = Document
      /\ \A i \in 2 .. l : open[i] \in unlinked
      /\ \A i, j \in 1 .. l : open[i] = open[j] => i = j
      /\ dying = << >> /\ cloning = << >> /\ stage = "parsing"
  BY TopIsInUse DEF Inv, OpenSound, Parsing
<1>2. /\ l >= 1 /\ Top = open[l]
      /\ \A i \in 1 .. l : open[i] \in Allocated \cup {Document}
      /\ Allocated \subseteq Node
  BY TopIsInUse
<1>3. l > 1
  BY <1>1, <1>2
<1>4. l - 1 \in 1 .. l /\ l \in 1 .. l
  BY <1>1, <1>3
<1>5. /\ this \in Allocated \cup {Document} /\ Top \in Allocated
      /\ this # Top /\ this \in AllNodes /\ Top \in AllNodes
  <2>1. this # Top
    BY <1>1, <1>2, <1>4
  <2> QED
    BY <1>2, <1>4, <2>1 DEF AllNodes
<1>6. Inserted(dom, this, Top, dom')
  BY <1>5, InsertEndChildKeepsTree DEF Inv, Sound, NodesSound
<1> HIDE DEF this
<1>7. Sound' /\ unlinked' = unlinked \ {Top}
  BY <1>1, <1>5, <1>6, InsertKeepsSound DEF Inv
<1>8. /\ open' \in Seq(AllNodes) /\ Len(open') = l - 1
      /\ \A i \in 1 .. l - 1 : open'[i] = open[i]
  BY <1>1, <1>3, FrontProperties
<1>9. \A i \in 2 .. l - 1 : open'[i] \in unlinked'
  BY <1>1, <1>2, <1>4, <1>7, <1>8
<1>10. OpenSound'
  <2>1. open' # << >> /\ open'[1] = Document
    BY <1>1, <1>3, <1>8
  <2>2. \A i, j \in 1 .. Len(open') : open'[i] = open'[j] => i = j
    BY <1>1, <1>8
  <2> QED
    BY <1>1, <1>8, <1>9, <2>1, <2>2 DEF OpenSound
<1>11. CloningSound'
  BY <1>1 DEF CloningSound, StackSound
<1>12. StageSound'
  BY DEF Inv, StageSound
<1> QED
  BY <1>7, <1>10, <1>11, <1>12 DEF Inv

(* One turn of the loop of a ParseDeep.                                    *)
LEMMA ParseKeepsInv ==
    ASSUME Inv, Parse
    PROVE  Inv'
<1>1. Parsing
  BY DEF Parse, EndOfFile, Leaf, Element
<1>2. CASE EndOfFile
  BY <1>1, <1>2, ReturnKeepsInv, FailKeepsInv DEF EndOfFile
<1>3. CASE Leaf
  <2> DEFINE leaf == ParseLeaf(file, Ahead)
  <2>1. Ahead.kind \in Leaves /\ LeafIsRead(leaf)
    BY <1>3 DEF Leaf
  <2> HIDE DEF leaf
  <2>2. CASE ParsedLeaf(leaf)
    <3> DEFINE data == Item(Ahead.kind, leaf.value, << >>)
    <3>1. Ahead.kind # "free"
      BY <2>1 DEF Leaves, EndTag
    <3>2. IsItem(data)
      BY <3>1 DEF IsItem, Item
    <3> HIDE DEF data
    <3>3. /\ HasFresh /\ dom' = InsertEndChild(dom, Top, Fresh)
          /\ CreateChild(Fresh, data) /\ UNCHANGED <<open, error, stage>>
      BY <2>2 DEF ParsedLeaf, data
    <3> QED
      BY <1>1, <3>2, <3>3, ParsedChildKeepsInv
  <2> QED
    BY <1>1, <2>1, <2>2, FailKeepsInv DEF LeafIsRead
<1>4. CASE Element
  <2> DEFINE tag == ParseTag(file, Ahead.p)
             data == Item("element", tag.name, tag.attributes)
  <2>1. TagIsRead(tag)
    BY <1>4 DEF Element
  <2> HIDE DEF tag
  <2>2. IsItem(data)
    BY DEF IsItem, Item
  <2> HIDE DEF data
  <2>3. CASE BadTag(tag)
    BY <1>1, <2>3, FailKeepsInv DEF BadTag
  <2>4. CASE ClosedElement(tag)
    <3>1. /\ HasFresh /\ dom' = InsertEndChild(dom, Top, Fresh)
          /\ CreateChild(Fresh, data) /\ UNCHANGED <<open, error, stage>>
      BY <2>4 DEF ClosedElement, data
    <3> QED
      BY <1>1, <2>2, <3>1, ParsedChildKeepsInv
  <2>5. CASE OpenElement(tag)
    <3>1. CASE \E err : Fail(err, 1)
      BY <1>1, <3>1, FailKeepsInv
    <3>2. CASE ~ \E err : Fail(err, 1)
      <4>1. /\ HasFresh /\ Create(Fresh, data) /\ open' = Append(open, Fresh)
            /\ UNCHANGED <<dom, dying, cloning, error, stage>>
        BY <2>5, <3>2 DEF OpenElement, data, calls
      <4> QED
        BY <1>1, <2>2, <4>1, OpenedElementKeepsInv
    <3> QED
      BY <3>1, <3>2
  <2>6. CASE ClosingElement(tag)
    <3>1. CASE Return
      BY <1>1, <3>1, ReturnKeepsInv
    <3>2. CASE Fail("mismatched", 0)
      BY <1>1, <3>2, FailKeepsInv
    <3>3. CASE ~Return /\ ~Fail("mismatched", 0)
      <4>1. /\ Top # Document
            /\ dom' = InsertEndChild(dom, open[Len(open) - 1], Top)
            /\ Preamble(Top) /\ open' = Front(open)
            /\ UNCHANGED <<node, dying, cloning, error, stage>>
        BY <2>6, <3>3 DEF ClosingElement, calls
      <4> QED
        BY <1>1, <4>1, ClosedElementKeepsInv
    <3> QED
      BY <3>1, <3>2, <3>3
  <2> QED
    BY <2>1, <2>3, <2>4, <2>5, <2>6 DEF TagIsRead
<1> QED
  BY <1>2, <1>3, <1>4 DEF Parse
-----------------------------------------------------------------------------
(* Deleting, clearing and loading                                          *)

(* Steps that do not touch the parser, while nothing is parsed or cloned.  *)
LEMMA QuietKeepsInv ==
    ASSUME Inv, Sound', cloning = << >>, stage # "parsing",
           UNCHANGED <<cloning, parser>>
    PROVE  Inv'
<1>1. UNCHANGED <<open, error, stage>>
  BY DEF parser
<1>2. open' = << >> /\ stage' # "parsing"
  BY <1>1 DEF Inv, OpenSound
<1>3. OpenSound'
  BY <1>2 DEF OpenSound
<1>4. CloningSound'
  BY DEF CloningSound, StackSound
<1>5. StageSound'
  BY <1>1 DEF Inv, StageSound
<1> QED
  BY <1>3, <1>4, <1>5 DEF Inv

(* One turn of a DeleteNode, as a step.                                    *)
LEMMA DestroyKeepsInv ==
    ASSUME Inv, Destroy
    PROVE  Inv'
<1>1. Sound'
  BY DestroyKeepsSound DEF Inv
<1>2. cloning = << >> /\ stage # "parsing" /\ UNCHANGED <<cloning, parser>>
  BY DEF Inv, OpenSound, CloningSound, Destroy
<1> QED
  BY <1>1, <1>2, QuietKeepsInv

(* A call of DeleteNode, as a step.                                        *)
LEMMA DeleteKeepsInv ==
    ASSUME Inv, dying = << >>, cloning = << >>, stage # "parsing",
           NEW n \in Allocated, Delete(n)
    PROVE  Inv'
<1>1. UNCHANGED <<cloning, parser, error>>
  BY DEF Delete, parser
<1>2. Sound'
  BY <1>1, DeleteKeepsSound DEF Inv
<1> QED
  BY <1>1, <1>2, QuietKeepsInv

(* Clear deletes a child of the document, or a node of _unlinked.          *)
LEMMA ClearKeepsInv ==
    ASSUME Inv, Clear
    PROVE  Inv'
<1>1. dying = << >> /\ cloning = << >> /\ stage # "parsing"
  BY DEF Clear, Inv, CloningSound
<1>2. CASE dom[Document].first # Null /\ Delete(dom[Document].first)
  <2> DEFINE n == dom[Document].first
  <2>1. Document \in AllNodes /\ IsTree(dom) /\ Document # Null
    BY NodeAssumption DEF AllNodes, Inv, Sound, NodesSound
  <2>2. n \in AllNodes /\ dom[n].parent = Document
    BY <1>2, <2>1, TreePointers DEF IsTree, LinksAgree, EndsAgree
  <2>3. n \in Allocated
    BY <2>1, <2>2 DEF AllNodes, Inv, Sound, NodesSound, Blank
  <2> QED
    BY <1>1, <1>2, <2>3, DeleteKeepsInv
<1>3. CASE \E n \in unlinked : Delete(n)
  <2>1. unlinked \subseteq Allocated
    BY UnlinkedIsFinite DEF Inv, Sound
  <2> QED
    BY <1>1, <1>3, <2>1, DeleteKeepsInv
<1> QED
  BY <1>2, <1>3 DEF Clear

(* A clear document begins to parse.                                       *)
LEMMA LoadFileKeepsInv ==
    ASSUME Inv, LoadFile
    PROVE  Inv'
<1>1. /\ UNCHANGED <<dom, node, unlinked, untracked, dying, cloning>>
      /\ dying = << >> /\ cloning = << >> /\ error = "none"
  BY DEF LoadFile, tree, calls, Inv, StageSound, CloningSound
<1>2. Allocated' = Allocated
  BY <1>1 DEF Allocated
<1>3. Sound'
  BY <1>1, <1>2 DEF Inv, Sound, NodesSound, DyingSound, UnlinkedSound, CountSound
<1>4. \/ open' = << >> /\ stage' = "loaded"
      \/ open' = <<Document>> /\ stage' = "parsing"
  BY DEF LoadFile, Load
<1>5. OpenSound'
  <2>1. CASE open' = << >> /\ stage' = "loaded"
    BY <2>1 DEF OpenSound
  <2>2. CASE open' = <<Document>> /\ stage' = "parsing"
    <3>1. /\ open' \in Seq(AllNodes) /\ Len(open') = 1 /\ open'[1] = Document
          /\ open' # << >>
      BY <2>2 DEF AllNodes
    <3> QED
      BY <1>1, <2>2, <3>1 DEF OpenSound
  <2> QED
    BY <1>4, <2>1, <2>2
<1>6. CloningSound'
  BY <1>1 DEF CloningSound, StackSound
<1>7. StageSound'
  BY <1>4 DEF StageSound
<1> QED
  BY <1>3, <1>5, <1>6, <1>7 DEF Inv

(* A client loads another file.                                            *)
LEMMA LoadAnotherKeepsInv ==
    ASSUME Inv, NEW s, LoadAnother(s)
    PROVE  Inv'
<1>1. /\ UNCHANGED <<dom, node, unlinked, untracked, dying, cloning, open, error>>
      /\ cloning = << >> /\ error = "none" /\ stage = "loaded" /\ stage' = "clearing"
  BY DEF LoadAnother, tree, calls, Editing, Idle
<1>2. Allocated' = Allocated
  BY <1>1 DEF Allocated
<1>3. Sound'
  BY <1>1, <1>2 DEF Inv, Sound, NodesSound, DyingSound, UnlinkedSound, CountSound
<1>4. OpenSound'
  BY <1>1 DEF Inv, OpenSound
<1>5. CloningSound' /\ StageSound'
  BY <1>1 DEF CloningSound, StackSound, StageSound
<1> QED
  BY <1>3, <1>4, <1>5 DEF Inv
-----------------------------------------------------------------------------
(* What a client does                                                      *)

(* A client calls while no other call runs.                                *)
LEMMA EditingIsQuiet ==
    ASSUME Inv, Editing
    PROVE  /\ dying = << >> /\ cloning = << >> /\ stage = "loaded" /\ stage # "parsing"
           /\ Holders \subseteq Allocated \cup {Document}
           /\ Holders \subseteq AllNodes /\ Allocated \subseteq Node
BY DEF Editing, Idle, Holders, Allocated, AllNodes

(* NewElement, NewText, NewComment                                         *)
LEMMA NewNodeKeepsInv ==
    ASSUME Inv, NEW data, IsItem(data), NewNode(data)
    PROVE  Inv'
<1>1. /\ HasFresh /\ Create(Fresh, data)
      /\ UNCHANGED <<dom, dying, cloning, parser, error>>
  BY DEF NewNode, calls, parser
<1>2. Sound'
  BY <1>1, CreateKeepsSound DEF Inv
<1> QED
  BY <1>1, <1>2, EditingIsQuiet, QuietKeepsInv DEF NewNode

(* What the insertions have in common, as a step.                          *)
LEMMA InsertKeepsInv ==
    ASSUME Inv, NEW this \in Holders, NEW add \in Allocated, NEW inserted,
           Insert(this, add, inserted),
           add # this => Inserted(dom, this, add, inserted)
    PROVE  Inv'
<1>1. /\ Editing /\ dom' = inserted /\ Preamble(add)
      /\ UNCHANGED <<node, dying, cloning, parser, error>>
  BY DEF Insert, calls, parser
<1>2. add # this
  BY DEF Insert, MayInsert, IsUnder
<1>3. Sound'
  BY <1>1, <1>2, EditingIsQuiet, InsertKeepsSound DEF Inv
<1> QED
  BY <1>1, <1>3, EditingIsQuiet, QuietKeepsInv

(* InsertEndChild, InsertFirstChild, InsertAfterChild                      *)
LEMMA InsertionsKeepInv ==
    ASSUME Inv, NEW this \in Holders, NEW after \in Allocated, NEW add \in Allocated,
           \/ InsertLast(this, add)
           \/ InsertFirst(this, add)
           \/ InsertAfter(this, after, add)
    PROVE  Inv'
<1>1. Editing
  BY DEF InsertLast, InsertFirst, InsertAfter, Insert
<1>2. /\ this \in AllNodes /\ add \in AllNodes /\ after \in AllNodes
      /\ IsTree(dom)
  BY <1>1, EditingIsQuiet DEF Inv, Sound, NodesSound, AllNodes
<1>3. CASE InsertLast(this, add)
  BY <1>2, <1>3, InsertEndChildKeepsTree, InsertKeepsInv DEF InsertLast
<1>4. CASE InsertFirst(this, add)
  BY <1>2, <1>4, InsertFirstChildKeepsTree, InsertKeepsInv DEF InsertFirst
<1>5. CASE InsertAfter(this, after, add)
  <2>1. dom[after].parent = this
    BY <1>5 DEF InsertAfter
  <2>2. CASE after = add
    <3>1. /\ UNCHANGED <<dom, node, unlinked, untracked, dying, cloning>>
          /\ UNCHANGED <<parser, error, cloning>>
      BY <1>5, <2>2 DEF InsertAfter, vars, tree, calls, parser
    <3>2. Allocated' = Allocated
      BY <3>1 DEF Allocated
    <3>3. Sound'
      BY <3>1, <3>2 DEF Inv, Sound, NodesSound, DyingSound, UnlinkedSound, CountSound
    <3> QED
      BY <1>1, <3>1, <3>3, EditingIsQuiet, QuietKeepsInv
  <2>3. CASE after # add
    BY <1>2, <1>5, <2>1, <2>3, InsertAfterChildKeepsTree, InsertKeepsInv DEF InsertAfter
  <2> QED
    BY <2>2, <2>3
<1> QED
  BY <1>3, <1>4, <1>5

(* Only what a node holds is changed.                                      *)
LEMMA RewriteKeepsInv ==
    ASSUME Inv, Editing, NEW n \in Allocated, NEW data, IsItem(data),
           node' = [node EXCEPT ![n] = data],
           UNCHANGED <<dom, unlinked, untracked, dying, cloning, parser>>
    PROVE  Inv'
<1>1. n \in Node /\ node[n].kind # "free"
  BY DEF Allocated
<1>2. DOMAIN node' = Node /\ \A m \in Node : node'[m] = IF m = n THEN data ELSE node[m]
  BY <1>1 DEF Inv, Sound, NodesSound
<1>3. Allocated' = Allocated
  BY <1>1, <1>2 DEF Allocated, IsItem
<1>4. NodesSound'
  <2>1. \A m \in Node : node'[m] = Item(node'[m].kind, node'[m].value, node'[m].attributes)
    BY <1>2 DEF Inv, Sound, NodesSound, IsItem
  <2> QED
    BY <1>2, <1>3, <2>1 DEF Inv, Sound, NodesSound
<1>5. DyingSound' /\ UnlinkedSound'
  BY <1>3 DEF Inv, Sound, DyingSound, UnlinkedSound
<1>6. CountSound'
  BY DEF Inv, Sound, CountSound, parser
<1>7. Sound'
  BY <1>4, <1>5, <1>6 DEF Sound
<1> QED
  BY <1>7, EditingIsQuiet, QuietKeepsInv

(* SetText, with and without a text to change.                             *)
LEMMA SetTextKeepsInv ==
    ASSUME Inv, NEW n \in Holders \ {Document}, NEW text, SetText(n, text)
    PROVE  Inv'
<1> DEFINE first == dom[n].first
<1>1. /\ Editing /\ n \in Allocated /\ n \in Node /\ n # Document
  BY EditingIsQuiet DEF SetText, Holders, Allocated
<1>2. CASE IsText(first)
  <2>1. first \in Node /\ node[first].kind # "free"
    BY <1>2 DEF IsText
  <2> DEFINE data == Item(node[first].kind, text, node[first].attributes)
  <2>2. node[first] = Item(node[first].kind, node[first].value, node[first].attributes)
    BY <2>1 DEF Inv, Sound, NodesSound
  <2>3. [node[first] EXCEPT !.value = text] = data
    BY <2>2 DEF Item
  <2>4. /\ node' = [node EXCEPT ![first] = data]
        /\ UNCHANGED <<dom, unlinked, untracked, dying, cloning, parser>>
    BY <1>2, <2>3 DEF SetText, calls
  <2>5. IsItem(data)
    BY <2>1 DEF IsItem, Item
  <2>6. first \in Allocated
    BY <2>1 DEF Allocated
  <2> HIDE DEF data
  <2> QED
    BY <1>1, <2>4, <2>5, <2>6, RewriteKeepsInv
<1>3. CASE ~IsText(first)
  <2> DEFINE data == Item("text", text, << >>)
  <2>1. IsItem(data)
    BY DEF IsItem, Item
  <2>2. /\ HasFresh /\ dom' = InsertFirstChild(dom, n, Fresh)
        /\ CreateChild(Fresh, data) /\ UNCHANGED <<parser, error, cloning>>
    BY <1>3 DEF SetText, CreateChild, calls, parser
  <2> HIDE DEF data
  <2>3. Fresh \in Node /\ Fresh \notin Allocated
    BY <2>2, FreshIsFree
  <2>4. Inserted(dom, n, Fresh, dom')
    BY <1>1, <2>2, <2>3, InsertFirstChildKeepsTree DEF Inv, Sound, NodesSound, AllNodes
  <2>5. Sound'
    BY <1>1, <2>1, <2>2, <2>4, CreateChildKeepsSound DEF Inv
  <2> QED
    BY <1>1, <2>2, <2>5, EditingIsQuiet, QuietKeepsInv
<1> QED
  BY <1>2, <1>3

(* SetAttribute and DeleteAttribute                                        *)
LEMMA AttributesKeepInv ==
    ASSUME Inv, NEW n \in Holders \ {Document}, NEW name, NEW value,
           SetAttribute(n, name, value) \/ DeleteAttribute(n, name)
    PROVE  Inv'
<1>1. /\ Editing /\ n \in Node /\ node[n].kind # "free"
      /\ UNCHANGED <<dom, unlinked, untracked, dying, cloning, parser>>
  BY DEF SetAttribute, DeleteAttribute, Holders, Allocated, calls
<1>2. PICK new : node' = [node EXCEPT ![n].attributes = new]
  BY Zenon DEF SetAttribute, DeleteAttribute
<1> DEFINE data == Item(node[n].kind, node[n].value, new)
<1>3. node[n] = Item(node[n].kind, node[n].value, node[n].attributes)
  BY <1>1 DEF Inv, Sound, NodesSound
<1>4. [node[n] EXCEPT !.attributes = new] = data
  BY <1>3 DEF Item
<1>5. node' = [node EXCEPT ![n] = data]
  BY <1>2, <1>4
<1>6. IsItem(data) /\ n \in Allocated
  BY <1>1 DEF IsItem, Item, Allocated
<1> HIDE DEF data
<1> QED
  BY <1>1, <1>5, <1>6, RewriteKeepsInv
-----------------------------------------------------------------------------
(* Cloning                                                                 *)

(* A copy is made, and the call that fills it.                             *)
LEMMA ShallowCloneKeepsInv ==
    ASSUME Inv, stage = "loaded", dying = << >>, NEW n \in Allocated,
           NEW stack, StackSound(stack), ShallowClone(n, stack)
    PROVE  Inv'
<1> DEFINE call == [copy |-> Fresh, child |-> dom[n].first]
           T == [copy : Node, child : Link]
<1>1. /\ HasFresh /\ Create(Fresh, node[n]) /\ cloning' = Append(stack, call)
      /\ UNCHANGED <<dom, dying, parser, open, error, stage>>
  BY DEF ShallowClone, parser
<1>2. IsItem(node[n]) /\ n \in Node
  BY DEF Inv, Sound, NodesSound, IsItem, Allocated
<1>3. /\ Sound' /\ Allocated' = Allocated \cup {Fresh}
      /\ Fresh \in Node /\ Fresh \notin unlinked
      /\ unlinked' = unlinked \cup {Fresh}
  BY <1>1, <1>2, CreateKeepsSound DEF Inv
<1>4. /\ call \in T
      /\ call.child # Null =>
            call.child \in Allocated /\ dom[call.child].parent # Null
  <2>1. n \in AllNodes /\ IsTree(dom)
    BY <1>2 DEF Inv, Sound, NodesSound, AllNodes
  <2>2. dom[n].first \in Link
    BY <2>1, TreePointers DEF Link
  <2>3. dom[n].first # Null =>
           dom[n].first \in AllNodes /\ dom[dom[n].first].parent = n
    BY <2>1, TreePointers DEF IsTree, LinksAgree, EndsAgree
  <2>4. n # Null
    BY <1>2, NodeAssumption
  <2>5. dom[n].first # Null => dom[n].first \in Allocated
    BY <2>3, <2>4 DEF Inv, Sound, NodesSound, AllNodes, Blank
  <2> QED
    BY <1>3, <2>2, <2>3, <2>4, <2>5
<1>5. call.copy = Fresh
  OBVIOUS
<1> HIDE DEF call, T
<1>6. /\ stack \in Seq(T) /\ Len(stack) \in Nat
      /\ \A i \in 1 .. Len(stack) :
            /\ stack[i].copy \in unlinked
            /\ stack[i].child # Null =>
                  /\ stack[i].child \in Allocated
                  /\ dom[stack[i].child].parent # Null
      /\ \A i, j \in 1 .. Len(stack) : stack[i].copy = stack[j].copy => i = j
  BY DEF StackSound, T
<1>7. /\ cloning' \in Seq(T) /\ Len(cloning') = Len(stack) + 1
      /\ cloning'[Len(stack) + 1] = call
      /\ \A i \in 1 .. Len(stack) : cloning'[i] = stack[i]
  BY <1>1, <1>4, <1>6
<1>8. \A i \in 1 .. Len(cloning') : i \in 1 .. Len(stack) \/ i = Len(stack) + 1
  BY <1>6, <1>7
<1>9. \A i \in 1 .. Len(cloning') :
         /\ cloning'[i].copy \in unlinked'
         /\ cloning'[i].child # Null =>
               /\ cloning'[i].child \in Allocated'
               /\ dom'[cloning'[i].child].parent # Null
  BY <1>1, <1>3, <1>4, <1>5, <1>6, <1>7, <1>8
<1>10. \A i, j \in 1 .. Len(cloning') :
          cloning'[i].copy = cloning'[j].copy => i = j
  BY <1>3, <1>5, <1>6, <1>7, <1>8
<1>11. CloningSound'
  BY <1>1, <1>7, <1>9, <1>10 DEF CloningSound, StackSound, T
<1>12. OpenSound' /\ StageSound'
  BY <1>1 DEF Inv, OpenSound, StageSound
<1> QED
  BY <1>3, <1>11, <1>12 DEF Inv

(* A client clones a node.                                                 *)
LEMMA DeepCloneKeepsInv ==
    ASSUME Inv, NEW n \in Allocated, DeepClone(n)
    PROVE  Inv'
<1>1. StackSound(<< >>)
  BY DEF StackSound
<1> QED
  BY <1>1, EditingIsQuiet, ShallowCloneKeepsInv DEF DeepClone

(* The calls below the innermost one.                                      *)
LEMMA CallersAreSound ==
    ASSUME NEW stack, StackSound(stack), stack # << >>
    PROVE  /\ StackSound(Front(stack))
           /\ Len(stack) \in Nat /\ Len(stack) >= 1 /\ Last(stack) = stack[Len(stack)]
           /\ \A i \in 1 .. Len(stack) - 1 :
                 Front(stack)[i] = stack[i] /\ stack[i].copy # Last(stack).copy
           /\ Len(Front(stack)) = Len(stack) - 1
           /\ Last(stack) \in [copy : Node, child : Link]
           /\ Last(stack).copy \in unlinked
           /\ Last(stack).child # Null =>
                 /\ Last(stack).child \in Allocated
                 /\ dom[Last(stack).child].parent # Null
<1> DEFINE T == [copy : Node, child : Link]
<1>1. /\ stack \in Seq(T) /\ Len(stack) \in Nat /\ Len(stack) >= 1
      /\ Last(stack) = stack[Len(stack)] /\ Len(stack) \in 1 .. Len(stack)
  BY DEF StackSound, Last
<1> HIDE DEF T
<1>2. /\ Front(stack) \in Seq(T) /\ Len(Front(stack)) = Len(stack) - 1
      /\ \A i \in 1 .. Len(stack) - 1 : Front(stack)[i] = stack[i]
  BY <1>1, FrontProperties
<1>3. \A i \in 1 .. Len(stack) - 1 :
         i \in 1 .. Len(stack) /\ i # Len(stack)
  BY <1>1
<1>4. StackSound(Front(stack))
  BY <1>1, <1>2, <1>3 DEF StackSound, T
<1>5. \A i \in 1 .. Len(stack) - 1 : stack[i].copy # Last(stack).copy
  BY <1>1, <1>3 DEF StackSound
<1>6. Last(stack) \in T
  BY <1>1
<1> QED
  BY <1>1, <1>2, <1>4, <1>5, <1>6 DEF StackSound, T

(* One turn of a DeepClone.                                                *)
LEMMA CloneKeepsInv ==
    ASSUME Inv, Clone
    PROVE  Inv'
<1> DEFINE call == Last(cloning)
           callers == Front(cloning)
           T == [copy : Node, child : Link]
<1>1. cloning # << >> /\ StackSound(cloning) /\ stage = "loaded" /\ dying = << >>
  BY DEF Clone, Inv, CloningSound
<1>2. /\ StackSound(callers)
      /\ Len(cloning) \in Nat /\ Len(cloning) >= 1
      /\ \A i \in 1 .. Len(callers) : callers[i].copy # call.copy
      /\ callers \in Seq(T) /\ Len(callers) \in Nat
      /\ call \in T /\ call.copy \in unlinked
      /\ call.child # Null => call.child \in Allocated /\ dom[call.child].parent # Null
  <2>1. /\ StackSound(callers)
        /\ Len(cloning) \in Nat /\ Len(cloning) >= 1
        /\ \A i \in 1 .. Len(cloning) - 1 :
              callers[i] = cloning[i] /\ cloning[i].copy # call.copy
        /\ Len(callers) = Len(cloning) - 1
        /\ call \in T /\ call.copy \in unlinked
        /\ call.child # Null => call.child \in Allocated /\ dom[call.child].parent # Null
    BY <1>1, CallersAreSound
  <2>2. callers \in Seq(T)
    BY <2>1 DEF StackSound
  <2> HIDE DEF callers, call, T
  <2> QED
    BY <2>1, <2>2
<1>3. unlinked \subseteq Allocated /\ Allocated \subseteq Node
  BY UnlinkedIsFinite DEF Inv, Sound
<1>4. IsTree(dom) /\ dom[Document].parent = Null
  BY DEF Inv, Sound, NodesSound
<1>5. CASE /\ call.child # Null
           /\ ShallowClone(call.child, Append(callers, [call EXCEPT !.child = dom[@].next]))
  <2> DEFINE child == call.child
             next == dom[child].next
             new == [call EXCEPT !.child = dom[@].next]
             stack == Append(callers, new)
  <2>1. child \in Allocated /\ child \in AllNodes /\ dom[child].parent # Null
    BY <1>2, <1>3, <1>5 DEF AllNodes
  <2>2. next \in Link
    BY <1>4, <2>1, TreePointers DEF Link
  <2>3. next # Null => next \in AllNodes /\ dom[next].parent # Null
    BY <1>4, <2>1, TreePointers DEF IsTree, LinksAgree, NeighboursAgree
  <2>4. next # Null => next \in Allocated
    BY <1>4, <2>3 DEF Inv, Sound, NodesSound, AllNodes, Blank
  <2>5. new \in T /\ new.copy = call.copy /\ new.child = next
    BY <1>2, <2>2
  <2> HIDE DEF new, next, T, callers, call
  <2>6. /\ stack \in Seq(T) /\ Len(stack) = Len(callers) + 1
        /\ stack[Len(callers) + 1] = new
        /\ \A i \in 1 .. Len(callers) : stack[i] = callers[i]
    BY <1>2, <2>5
  <2> HIDE DEF stack
  <2>7. \A i \in 1 .. Len(stack) : i \in 1 .. Len(callers) \/ i = Len(callers) + 1
    BY <1>2, <2>6
  <2>8. \A i \in 1 .. Len(stack) :
           /\ stack[i].copy \in unlinked
           /\ stack[i].child # Null =>
                 stack[i].child \in Allocated /\ dom[stack[i].child].parent # Null
    BY <1>2, <2>3, <2>4, <2>5, <2>6, <2>7 DEF StackSound
  <2>9. \A i, j \in 1 .. Len(stack) : stack[i].copy = stack[j].copy => i = j
    BY <1>2, <2>5, <2>6, <2>7 DEF StackSound
  <2>10. StackSound(stack)
    BY <2>6, <2>8, <2>9 DEF StackSound, T
  <2>11. ShallowClone(child, stack)
    BY <1>5 DEF stack, new
  <2> QED
    BY <1>1, <2>1, <2>10, <2>11, ShallowCloneKeepsInv
<1>6. CASE call.child = Null
  <2>1. /\ cloning' = callers
        /\ UNCHANGED <<node, dying, parser, open, error, stage>>
    BY <1>6 DEF Clone, parser
  <2>2. OpenSound' /\ StageSound'
    BY <1>1, <2>1 DEF Inv, OpenSound, StageSound
  <2>3. Allocated' = Allocated
    BY <2>1 DEF Allocated
  <2>4. CASE callers = << >>
    <3>1. UNCHANGED <<dom, unlinked, untracked>>
      BY <1>6, <2>4 DEF Clone
    <3>2. Sound'
      BY <2>1, <2>3, <3>1 DEF Inv, Sound, NodesSound, DyingSound, UnlinkedSound, CountSound
    <3>3. CloningSound'
      BY <2>1, <2>4 DEF CloningSound, StackSound
    <3> QED
      BY <2>2, <3>2, <3>3 DEF Inv
  <2>5. CASE callers # << >>
    <3> DEFINE this == Last(callers).copy
               add == call.copy
    <3>1. dom' = InsertEndChild(dom, this, add) /\ Preamble(add)
      BY <1>6, <2>5 DEF Clone
    <3>2. this \in unlinked /\ this # add
      BY <1>2, <2>5, CallersAreSound
    <3> HIDE DEF this, add, callers
    <3>3. /\ this \in Allocated /\ add \in Allocated
          /\ this \in AllNodes /\ add \in AllNodes
      BY <1>2, <1>3, <3>2 DEF AllNodes, add
    <3>4. Inserted(dom, this, add, dom')
      BY <1>4, <3>1, <3>2, <3>3, InsertEndChildKeepsTree
    <3>5. /\ Sound' /\ unlinked' = unlinked \ {add}
          /\ \A n \in AllNodes : n # add => dom'[n].parent = dom[n].parent
      BY <1>1, <2>1, <3>1, <3>3, <3>4, InsertKeepsSound DEF Inv
    <3>6. dom[add].parent = Null
      BY <1>2 DEF Inv, Sound, UnlinkedSound, add
    <3>7. \A i \in 1 .. Len(callers) :
             /\ callers[i].copy \in unlinked'
             /\ callers[i].child # Null =>
                   /\ callers[i].child \in Allocated'
                   /\ dom'[callers[i].child].parent # Null
      BY <1>2, <1>3, <2>3, <3>5, <3>6 DEF StackSound, add, AllNodes
    <3>8. CloningSound'
      BY <1>1, <1>2, <2>1, <3>7 DEF CloningSound, StackSound
    <3> QED
      BY <2>2, <3>5, <3>8 DEF Inv
  <2> QED
    BY <2>4, <2>5
<1> QED
  BY <1>5, <1>6 DEF Clone
-----------------------------------------------------------------------------
(* What a client may be given: nodes to make are no free places.           *)
AreItems(items) == \A data \in items : IsItem(data)

(* Every step of the document.                                             *)
LEMMA NextKeepsInv ==
    ASSUME NEW files, NEW items, NEW texts, NEW attributes, AreItems(items),
           Inv, [DocumentNext(files, items, texts, attributes)]_vars
    PROVE  Inv'
<1>1. CASE Turn
  BY <1>1, ParseKeepsInv, DestroyKeepsInv, CloneKeepsInv, ClearKeepsInv,
     LoadFileKeepsInv DEF Turn
<1>2. CASE Edit(items, texts, attributes)
  <2>1. ASSUME NEW data \in items, NewNode(data)
        PROVE  Inv'
    BY <2>1, NewNodeKeepsInv DEF AreItems
  <2>2. ASSUME NEW this \in Holders, NEW add \in Allocated,
               InsertLast(this, add) \/ InsertFirst(this, add)
        PROVE  Inv'
    BY <2>2, InsertionsKeepInv
  <2>3. ASSUME NEW this \in Holders, NEW after \in Allocated, NEW add \in Allocated,
               InsertAfter(this, after, add)
        PROVE  Inv'
    BY <2>3, InsertionsKeepInv
  <2>4. ASSUME NEW n \in Allocated, DeleteNode(n)
        PROVE  Inv'
    BY <2>4, EditingIsQuiet, DeleteKeepsInv DEF DeleteNode
  <2>5. ASSUME NEW n \in Allocated, DeepClone(n)
        PROVE  Inv'
    BY <2>5, DeepCloneKeepsInv
  <2>6. ASSUME NEW n \in Holders \ {Document}, NEW text \in texts, SetText(n, text)
        PROVE  Inv'
    BY <2>6, SetTextKeepsInv
  <2>7. ASSUME NEW n \in Holders \ {Document}, NEW a \in attributes,
               SetAttribute(n, a.name, a.value) \/ DeleteAttribute(n, a.name)
        PROVE  Inv'
    BY <2>7, AttributesKeepInv
  <2> QED
    BY <1>2, <2>1, <2>2, <2>3, <2>4, <2>5, <2>6, <2>7 DEF Edit
<1>3. CASE \E s \in files : LoadAnother(s)
  BY <1>3, LoadAnotherKeepsInv
<1>4. CASE UNCHANGED vars
  <2>1. UNCHANGED <<dom, node, unlinked, untracked, dying, cloning, open, error, stage>>
    BY <1>4 DEF vars, tree, calls, parser
  <2>2. Allocated' = Allocated
    BY <2>1 DEF Allocated
  <2> QED
    BY <2>1, <2>2 DEF Inv, Sound, NodesSound, DyingSound, UnlinkedSound, CountSound,
                      OpenSound, CloningSound, StackSound, StageSound
<1> QED
  BY <1>1, <1>2, <1>3, <1>4 DEF DocumentNext

(* Whatever files are loaded, one after the other, whatever nodes are      *)
(* made, moved, cloned and deleted, and wherever the parser gives up: the  *)
(* lists of children agree, _unlinked holds the nodes that are in no list, *)
(* and until an error the pools count them as untracked (offline/          *)
(* tinyxml2.cc, the assertions of Unlink, InsertEndChild and Clear).       *)
THEOREM DocumentStaysSound ==
    ASSUME NEW files, NEW items, NEW texts, NEW attributes, AreItems(items)
    PROVE  DocumentSpec(files, items, texts, attributes) => []TreeIsSound
<1>1. (\E s \in files : DocumentInit(s)) => Inv
  BY InitIsSound
<1>2. Inv /\ [DocumentNext(files, items, texts, attributes)]_vars => Inv'
  BY NextKeepsInv
<1>3. Inv => TreeIsSound
  BY DEF Inv, Sound, NodesSound, UnlinkedSound, CountSound, IsTree, TreeIsSound
<1> QED
  BY <1>1, <1>2, <1>3, PTL DEF DocumentSpec
-----------------------------------------------------------------------------
(* Finding a number, and functions that are defined by recursion           *)

(* The least of some naturals.                                             *)
LEMMA LeastNat ==
    ASSUME NEW numbers \in SUBSET Nat, numbers # {}
    PROVE  Min(numbers) \in numbers /\ \A n \in numbers : Min(numbers) <= n
<1>1. PICK less : less = OpToRel(<, Nat)
  OBVIOUS
<1>2. IsWellFoundedOn(less, Nat)
  BY <1>1, NatLessThanWellFounded, Zenon
<1>3. PICK m \in numbers : \A n \in numbers : ~(<<n, m>> \in less)
  BY <1>2, WFMin, Zenon
<1>4. \A n, k \in Nat : n < k => <<n, k>> \in less
  BY <1>1 DEF OpToRel
<1>5. ASSUME NEW n \in numbers
      PROVE  m <= n
  <2>1. m \in Nat /\ n \in Nat
    OBVIOUS
  <2>2. ~(n < m)
    BY <1>3, <1>4, <2>1, Zenon
  <2> QED
    BY <2>1, <2>2
<1> QED
  BY <1>5 DEF Min

(* Induction over the numbers to N, for the set of the good ones.          *)
LEMMA Induction ==
    ASSUME NEW N \in Nat, NEW good,
           \A n \in 0 .. N : (\A k \in 0 .. n - 1 : k \in good) => n \in good
    PROVE  \A n \in 0 .. N : n \in good
<1> DEFINE bad == (0 .. N) \ good
<1>1. SUFFICES ASSUME bad # {}
               PROVE  FALSE
  OBVIOUS
<1>2. bad \in SUBSET Nat
  OBVIOUS
<1>3. PICK n : n \in bad /\ \A k \in bad : n <= k
  <2> HIDE DEF bad
  <2> QED
    BY <1>1, <1>2, LeastNat, Zenon
<1>4. \A k \in 0 .. n - 1 : k \in good
  BY <1>3
<1> QED
  BY <1>3, <1>4

(* The same, one number after the other.                                   *)
LEMMA StepByStep ==
    ASSUME NEW N \in Nat, NEW good, 0 \in good,
           \A n \in 1 .. N : n - 1 \in good => n \in good
    PROVE  \A n \in 0 .. N : n \in good
<1>1. ASSUME NEW n \in 0 .. N, \A k \in 0 .. n - 1 : k \in good
      PROVE  n \in good
  <2>1. CASE n = 0
    BY <2>1
  <2>2. CASE n # 0
    <3>1. n \in 1 .. N /\ n - 1 \in 0 .. n - 1
      BY <2>2
    <3> QED
      BY <1>1, <3>1, Zenon
  <2> QED
    BY <2>1, <2>2
<1> QED
  BY <1>1, Induction

(* A function on the numbers to N, whose value at n is found from the one  *)
(* at a smaller number, or is given.                                       *)
Recursive(N, T, first, back, step) ==
    /\ N \in Nat
    /\ first \in [0 .. N -> T]
    /\ back \in [0 .. N -> 0 .. N]
    /\ step \in [0 .. N -> [T -> T]]

Follows(f, N, T, first, back, step) ==
    /\ f \in [0 .. N -> T]
    /\ \A n \in 0 .. N :
          f[n] = IF back[n] < n THEN step[n][f[back[n]]] ELSE first[n]

(* There is one.                                                           *)
LEMMA Recursion ==
    ASSUME NEW N, NEW T, NEW first, NEW back, NEW step,
           Recursive(N, T, first, back, step)
    PROVE  \E f : Follows(f, N, T, first, back, step)
<1> USE DEF Recursive
<1> DEFINE Obeys(f, n) ==
        f[n] = IF back[n] < n THEN step[n][f[back[n]]] ELSE first[n]
           Defined == {n \in 0 .. N : \E f \in [0 .. n -> T] :
                          \A k \in 0 .. n : Obeys(f, k)}
<1>1. ASSUME NEW n \in 0 .. N, \A k \in 0 .. n - 1 : k \in Defined
      PROVE  n \in Defined
  <2>1. \A k \in 0 .. n : back[k] < k => back[k] \in 0 .. n - 1
    OBVIOUS
  <2>2. CASE n = 0
    <3>1. PICK f : f = [k \in 0 .. 0 |-> first[0]]
      OBVIOUS
    <3>2. f \in [0 .. n -> T] /\ \A k \in 0 .. n : Obeys(f, k)
      BY <2>1, <2>2, <3>1
    <3> QED
      BY <3>2
  <2>3. CASE n # 0
    <3>1. n - 1 \in Defined
      <4>1. n - 1 \in 0 .. n - 1
        BY <2>3
      <4> QED
        BY <1>1, <4>1, Zenon
    <3>2. PICK g \in [0 .. n - 1 -> T] : \A k \in 0 .. n - 1 : Obeys(g, k)
      BY <3>1
    <3>3. PICK last \in T :
             last = IF back[n] < n THEN step[n][g[back[n]]] ELSE first[n]
      <4>1. back[n] < n => g[back[n]] \in T
        BY <2>1, <2>3
      <4>2. step[n] \in [T -> T] /\ first[n] \in T
        OBVIOUS
      <4> QED
        BY <4>1, <4>2
    <3>4. PICK f : f = [k \in 0 .. n |-> IF k = n THEN last ELSE g[k]]
      OBVIOUS
    <3>5. f \in [0 .. n -> T]
      BY <2>3, <3>4
    <3>6. (\A k \in 0 .. n - 1 : f[k] = g[k]) /\ f[n] = last
      BY <3>4
    <3>7. ASSUME NEW k \in 0 .. n
          PROVE  Obeys(f, k)
      <4>1. CASE k = n
        BY <2>1, <2>3, <3>3, <3>6, <4>1
      <4>2. CASE k # n
        <5>1. k \in 0 .. n - 1 /\ Obeys(g, k) /\ f[k] = g[k]
          <6>1. k \in 0 .. n - 1
            BY <4>2
          <6> QED
            BY <3>2, <3>6, <6>1, Zenon
        <5>2. back[k] < k => f[back[k]] = g[back[k]]
          BY <2>1, <3>6, <5>1
        <5> QED
          BY <5>1, <5>2
      <4> QED
        BY <4>1, <4>2
    <3> QED
      BY <3>5, <3>7
  <2> QED
    BY <2>2, <2>3
<1>2. N \in Defined
  <2>1. N \in 0 .. N
    OBVIOUS
  <2> HIDE DEF Defined
  <2> QED
    BY <1>1, <2>1, Induction
<1>3. PICK f \in [0 .. N -> T] : \A k \in 0 .. N : Obeys(f, k)
  BY <1>2, Zenon
<1> QED
  BY <1>3, Zenon DEF Follows

(* A function each of whose values is found from the one before it.        *)
Steps(f, N, T, start, step) ==
    /\ f \in [0 .. N -> T]
    /\ f[0] = start
    /\ \A n \in 1 .. N : f[n] = step[n][f[n - 1]]

(* There is such a function, too.                                          *)
LEMMA Iteration ==
    ASSUME NEW N \in Nat, NEW T, NEW start \in T, NEW step \in [1 .. N -> [T -> T]]
    PROVE  \E f : Steps(f, N, T, start, step)
<1>1. PICK first : first = [n \in 0 .. N |-> start]
  OBVIOUS
<1>2. PICK back : back = [n \in 0 .. N |-> IF n = 0 THEN 0 ELSE n - 1]
  OBVIOUS
<1>3. PICK steps : steps = [n \in 0 .. N |-> IF n = 0 THEN [s \in T |-> s] ELSE step[n]]
  OBVIOUS
<1>4. steps \in [0 .. N -> [T -> T]]
  <2>1. ASSUME NEW n \in 0 .. N
        PROVE  steps[n] \in [T -> T]
    <3>1. CASE n = 0
      BY <1>3, <3>1
    <3>2. CASE n # 0
      <4>1. n \in 1 .. N /\ steps[n] = step[n]
        BY <1>3, <3>2
      <4> QED
        BY <4>1
    <3> QED
      BY <3>1, <3>2
  <2> QED
    BY <1>3, <2>1
<1>5. Recursive(N, T, first, back, steps)
  BY <1>1, <1>2, <1>4 DEF Recursive
<1>6. PICK f : Follows(f, N, T, first, back, steps)
  BY <1>5, Recursion, Zenon
<1>7. f[0] = start
  BY <1>1, <1>2, <1>6 DEF Follows
<1>8. ASSUME NEW n \in 1 .. N
      PROVE  f[n] = step[n][f[n - 1]]
  <2>1. n \in 0 .. N /\ back[n] = n - 1 /\ back[n] < n
    BY <1>2
  <2>2. steps[n] = step[n]
    BY <1>3
  <2> QED
    BY <1>6, <2>1, <2>2, Zenon DEF Follows
<1> QED
  BY <1>6, <1>7, <1>8, Zenon DEF Follows, Steps

(* The numbers to N are N.                                                 *)
LEMMA CountTo ==
    ASSUME NEW N \in Nat
    PROVE  IsFiniteSet(1 .. N) /\ Cardinality(1 .. N) = N
<1>1. 1 \in Int /\ N \in Int /\ ~(1 > N /\ N # 0)
  OBVIOUS
<1>2. /\ IsFiniteSet(1 .. N)
      /\ Cardinality(1 .. N) = IF 1 > N THEN 0 ELSE N - 1 + 1
  BY <1>1, FS_Interval, Zenon
<1> QED
  BY <1>1, <1>2
-----------------------------------------------------------------------------
(* Sorting and removing                                                    *)

(* Some bits have a highest one.                                           *)
LEMMA GreatestBit ==
    ASSUME NEW bits \in SUBSET (0 .. 63), bits # {}
    PROVE  Max(bits) \in bits
<1> DEFINE above == {n \in Nat : \A b \in bits : b <= n}
<1>1. 63 \in above /\ above \in SUBSET Nat
  OBVIOUS
<1>2. Min(above) \in above /\ \A n \in above : Min(above) <= n
  <2>1. above # {}
    BY <1>1
  <2> HIDE DEF above
  <2> QED
    BY <1>1, <2>1, LeastNat, Zenon
<1>3. PICK m : m = Min(above)
  OBVIOUS
<1>4. m \in Nat /\ \A b \in bits : b <= m
  BY <1>2, <1>3
<1>5. m \in bits
  <2>1. SUFFICES ASSUME m \notin bits
                 PROVE  FALSE
    OBVIOUS
  <2>2. \A b \in bits : b <= m - 1
    BY <1>4, <2>1
  <2>3. m \in Nat \ {0}
    <3>1. PICK b : b \in bits
      OBVIOUS
    <3>2. b \in Nat /\ b <= m - 1
      BY <2>2, <3>1
    <3> QED
      BY <1>4, <3>2
  <2>4. m - 1 \in above
    BY <2>2, <2>3
  <2>5. m <= m - 1
    BY <1>2, <1>3, <2>4, Zenon
  <2> QED
    BY <1>4, <2>5
<1> QED
  BY <1>4, <1>5 DEF Max

(* Between two pages of one fingerprint sort() leaves no other.            *)
LEMMA OneFingerprintIsTogether ==
    ASSUME NEW a, NEW b, NEW c,
           a.u64 \in SUBSET (0 .. 63), b.u64 \in SUBSET (0 .. 63),
           ~IsLess(b, a), ~IsLess(c, b), a.u64 = c.u64
    PROVE  b.u64 = a.u64
<1> SUFFICES ASSUME b.u64 # a.u64
             PROVE  FALSE
  OBVIOUS
<1>1. PICK bits : bits = Differing(b, a)
  OBVIOUS
<1>2. Differing(c, b) = bits
  BY <1>1, Zenon DEF Differing
<1>3. bits \in SUBSET (0 .. 63) /\ bits # {}
  BY <1>1 DEF Differing
<1>4. Max(bits) \in bits
  BY <1>3, GreatestBit
<1>5. Max(bits) \notin a.u64 /\ Max(bits) \notin b.u64
  BY <1>1, <1>2 DEF IsLess
<1> QED
  BY <1>1, <1>4, <1>5 DEF Differing

(* Pages of one fingerprint are equal to the code.                         *)
LEMMA OneFingerprintIsEqual ==
    ASSUME NEW a, NEW b, a.u64 = b.u64
    PROVE  IsEqual(a, b)
<1>1. Differing(a, b) = {}
  BY DEF Differing
<1>2. Cardinality(Differing(a, b)) = 0
  BY <1>1, FS_EmptySet
<1> QED
  BY <1>2, NearAssumption DEF IsEqual

(* Which of two pages comes first makes no difference to that.             *)
LEMMA EqualBothWays ==
    ASSUME NEW a, NEW b
    PROVE  IsEqual(a, b) <=> IsEqual(b, a)
<1>1. Differing(a, b) = Differing(b, a)
  BY DEF Differing
<1> QED
  BY <1>1 DEF IsEqual

(* What unique() keeps of the first n pages.                               *)
KeptOf(webpages, kept) ==
    \A n \in 0 .. Len(webpages) :
        kept[n] = IF n = 0 THEN << >>
                  ELSE IF kept[n - 1] # << >> /\ IsEqual(Last(kept[n - 1]), webpages[n])
                  THEN kept[n - 1] ELSE Append(kept[n - 1], webpages[n])

(* unique() returns what it keeps of all the pages.                        *)
LEMMA UniqueIsKept ==
    ASSUME NEW T, NEW webpages \in Seq(T)
    PROVE  \E kept \in [0 .. Len(webpages) -> Seq(T)] :
              KeptOf(webpages, kept) /\ Unique(webpages) = kept[Len(webpages)]
<1> DEFINE redundant(before, p) == before # << >> /\ IsEqual(Last(before), p)
           next(before, p) == IF redundant(before, p) THEN before ELSE Append(before, p)
           Body(f) == [n \in 0 .. Len(webpages) |->
                          IF n = 0 THEN << >>
                          ELSE IF redundant(f[n - 1], webpages[n]) THEN f[n - 1]
                          ELSE Append(f[n - 1], webpages[n])]
<1>1. PICK N \in Nat : N = Len(webpages)
  OBVIOUS
<1>2. \A n \in 1 .. N, before \in Seq(T) : next(before, webpages[n]) \in Seq(T)
  <2> TAKE n \in 1 .. N, before \in Seq(T)
  <2>1. webpages[n] \in T
    BY <1>1
  <2>2. Append(before, webpages[n]) \in Seq(T)
    BY <2>1
  <2> QED
    BY <2>2, Zenon
<1>3. PICK step : step = [n \in 1 .. N |-> [before \in Seq(T) |-> next(before, webpages[n])]]
  OBVIOUS
<1>4. PICK f : Steps(f, N, Seq(T), << >>, step)
  <2>1. step \in [1 .. N -> [Seq(T) -> Seq(T)]]
    <3> HIDE DEF next
    <3> QED
      BY <1>2, <1>3
  <2>2. << >> \in Seq(T)
    OBVIOUS
  <2> QED
    BY <2>1, <2>2, Iteration
<1>5. ASSUME NEW n \in 0 .. N
       PROVE  f[n] = IF n = 0 THEN << >> ELSE next(f[n - 1], webpages[n])
  <2> HIDE DEF next
  <2>1. CASE n = 0
    BY <1>4, <2>1 DEF Steps
  <2>2. CASE n # 0
    <3>1. n \in 1 .. N /\ n - 1 \in 0 .. N
      BY <2>2
    <3>2. f[n] = step[n][f[n - 1]] /\ f[n - 1] \in Seq(T)
      BY <1>4, <3>1 DEF Steps
    <3> QED
      BY <1>3, <2>2, <3>1, <3>2
  <2> QED
    BY <2>1, <2>2
<1>6. f = Body(f)
  <2>1. ASSUME NEW n \in 0 .. N
        PROVE  f[n] = Body(f)[n]
    BY <1>1, <1>5, <2>1, Zenon
  <2>2. f \in [0 .. N -> Seq(T)]
    BY <1>4 DEF Steps
  <2>3. DOMAIN Body(f) = 0 .. N
    BY <1>1, Zenon
  <2> QED
    BY <1>1, <2>1, <2>2, <2>3
<1>7. PICK kept : kept = CHOOSE g : g = Body(g)
  BY Zenon
<1>8. kept = Body(kept)
  BY <1>6, <1>7, Zenon
<1>9. Unique(webpages) = kept[Len(webpages)]
  BY <1>7, Zenon DEF Unique
<1> HIDE DEF Body
<1>10. kept[0] = << >> /\ \A n \in 1 .. N : kept[n] = next(kept[n - 1], webpages[n])
  <2> HIDE DEF next
  <2>1. ASSUME NEW n \in 0 .. N
        PROVE  Body(kept)[n] = IF n = 0 THEN << >> ELSE next(kept[n - 1], webpages[n])
    BY <1>1, Zenon DEF Body, next
  <2> QED
    BY <1>1, <1>8, <2>1
<1>11. \A n \in 0 .. N : kept[n] \in Seq(T)
  <2> DEFINE good == {n \in 0 .. N : kept[n] \in Seq(T)}
  <2> HIDE DEF next
  <2>1. 0 \in good
    <3>1. << >> \in Seq(T) /\ 0 \in 0 .. N
      OBVIOUS
    <3> QED
      BY <1>10, <3>1, Zenon
  <2>2. ASSUME NEW n \in 1 .. N, n - 1 \in good
        PROVE  n \in good
    BY <1>2, <1>10, <2>2
  <2>3. \A n \in 0 .. N : n \in good
    <3> HIDE DEF good
    <3> QED
      BY <2>1, <2>2, StepByStep
  <2> QED
    BY <2>3
<1>12. kept \in [0 .. Len(webpages) -> Seq(T)]
  <2>1. DOMAIN kept = 0 .. Len(webpages) /\ kept = [n \in 0 .. Len(webpages) |-> kept[n]]
    BY <1>8 DEF Body
  <2> QED
    BY <1>1, <1>11, <2>1
<1>13. KeptOf(webpages, kept)
  <2>1. ASSUME NEW n \in 0 .. N
        PROVE  kept[n] = IF n = 0 THEN << >> ELSE next(kept[n - 1], webpages[n])
    <3> HIDE DEF next
    <3> QED
      BY <1>10
  <2> QED
    BY <1>1, <2>1, Zenon DEF KeptOf
<1> QED
  BY <1>9, <1>12, <1>13, Zenon

(* The pages at some places of a sequence, one for each fingerprint, of    *)
(* which every page of the first n is a copy or a neighbour.               *)
Keeps(webpages, n, kept, from) ==
    /\ from \in Seq(1 .. n) /\ Len(kept) = Len(from)
    /\ \A i \in 1 .. Len(from) : kept[i] = webpages[from[i]]
    /\ \A i, j \in 1 .. Len(from) : i < j => from[i] < from[j]
    /\ \A i, j \in 1 .. Len(from) : i < j => webpages[from[i]].u64 # webpages[from[j]].u64
    /\ \A m \in 1 .. n : \E i \in 1 .. Len(from) : IsEqual(webpages[m], kept[i])

InOrder(webpages) ==
    \A i, j \in 1 .. Len(webpages) : i < j => ~IsLess(webpages[j], webpages[i])

(* Of sorted pages unique() keeps such.                                    *)
LEMMA UniqueKeeps ==
    ASSUME NEW webpages \in Seq(Pages), InOrder(webpages)
    PROVE  \E from : Keeps(webpages, Len(webpages), Unique(webpages), from)
<1>1. PICK kept \in [0 .. Len(webpages) -> Seq(Pages)] :
          KeptOf(webpages, kept) /\ Unique(webpages) = kept[Len(webpages)]
  BY UniqueIsKept
<1>2. PICK N \in Nat : N = Len(webpages)
  OBVIOUS
<1> DEFINE good == {n \in 0 .. N : \E from : Keeps(webpages, n, kept[n], from)}
<1>3. 0 \in good
  <2>1. kept[0] = << >> /\ 0 \in 0 .. N
    BY <1>1, <1>2 DEF KeptOf
  <2>2. Keeps(webpages, 0, << >>, << >>)
    BY DEF Keeps
  <2> QED
    BY <2>1, <2>2, Zenon
<1>4. ASSUME NEW n \in 1 .. N, n - 1 \in good
      PROVE  n \in good
  <2>1. n \in 0 .. N
    OBVIOUS
  <2>2. PICK before \in Seq(Pages), after \in Seq(Pages) : before = kept[n - 1] /\ after = kept[n]
    BY <1>1, <1>2
  <2>3. PICK from : Keeps(webpages, n - 1, before, from)
    BY <1>4, <2>2, Zenon
  <2>4. webpages[n] \in Pages
    BY <1>2
  <2>5. after = IF before # << >> /\ IsEqual(Last(before), webpages[n])
                THEN before ELSE Append(before, webpages[n])
    <3>1. n \in 0 .. Len(webpages) /\ n # 0
      BY <1>2
    <3> QED
      BY <1>1, <2>2, <3>1, Zenon DEF KeptOf
  <2>6. PICK l \in Nat : l = Len(from)
    BY <2>3 DEF Keeps
  <2>7. /\ Len(before) = l /\ from \in Seq(1 .. n)
        /\ \A i \in 1 .. l : from[i] \in 1 .. n - 1
    <3>1. from \in Seq(1 .. n - 1) /\ Len(before) = l
      BY <2>3, <2>6, Zenon DEF Keeps
    <3> QED
      BY <2>6, <3>1
  <2>8. /\ \A i \in 1 .. l : before[i] = webpages[from[i]]
        /\ \A i, j \in 1 .. l : i < j => from[i] < from[j]
        /\ \A i, j \in 1 .. l : i < j => webpages[from[i]].u64 # webpages[from[j]].u64
        /\ \A m \in 1 .. n - 1 : \E i \in 1 .. l : IsEqual(webpages[m], before[i])
    BY <2>3, <2>6, Zenon DEF Keeps
  <2>9. CASE before # << >> /\ IsEqual(Last(before), webpages[n])
    <3>1. after = before
      BY <2>5, <2>9
    <3>2. l \in 1 .. l /\ IsEqual(webpages[n], before[l])
      <4>1. l \in 1 .. l
        BY <2>6, <2>7, <2>9
      <4>2. IsEqual(before[l], webpages[n])
        BY <2>7, <2>9, Zenon DEF Last
      <4> QED
        BY <4>1, <4>2, EqualBothWays, Zenon
    <3>3. \A m \in 1 .. n : \E i \in 1 .. l : IsEqual(webpages[m], before[i])
      <4> TAKE m \in 1 .. n
      <4>1. m = n \/ m \in 1 .. n - 1
        OBVIOUS
      <4> QED
        BY <2>8, <3>2, <4>1, Zenon
    <3>4. Keeps(webpages, n, before, from)
      BY <2>6, <2>7, <2>8, <3>3, Zenon DEF Keeps
    <3> QED
      BY <2>1, <2>2, <3>1, <3>4, Zenon
  <2>10. CASE ~(before # << >> /\ IsEqual(Last(before), webpages[n]))
    <3>1. after = Append(before, webpages[n])
      BY <2>5, <2>10
    <3>2. PICK longer : longer = Append(from, n)
      OBVIOUS
    <3>3. /\ longer \in Seq(1 .. n) /\ Len(longer) = l + 1
          /\ longer[l + 1] = n
          /\ \A i \in 1 .. l : longer[i] = from[i]
      BY <2>6, <2>7, <3>2
    <3>4. /\ Len(after) = l + 1
          /\ after[l + 1] = webpages[n]
          /\ \A i \in 1 .. l : after[i] = before[i]
      <4>1. PICK page \in Pages : page = webpages[n]
        BY <2>4
      <4>2. before \in Seq(Pages) /\ after = Append(before, page) /\ Len(before) = l
        BY <2>7, <3>1, <4>1, Zenon
      <4> QED
        BY <4>1, <4>2, AppendProperties
    <3>5. ASSUME NEW i \in 1 .. l
          PROVE  webpages[from[i]].u64 # webpages[n].u64
      <4>1. SUFFICES ASSUME webpages[from[i]].u64 = webpages[n].u64
                     PROVE  FALSE
        OBVIOUS
      <4>2. l \in 1 .. l
        BY <2>6
      <4>3. ~IsEqual(webpages[from[l]], webpages[n])
        <5>1. before # << >>
          BY <2>6, <2>7, <4>2
        <5>2. ~IsEqual(before[l], webpages[n])
          BY <2>7, <2>10, <5>1, Zenon DEF Last
        <5> QED
          BY <2>8, <4>2, <5>2, Zenon
      <4>4. CASE i = l
        BY <4>1, <4>3, <4>4, OneFingerprintIsEqual
      <4>5. CASE i # l
        <5>1. from[i] < from[l] /\ from[i] \in 1 .. n - 1 /\ from[l] \in 1 .. n - 1
          <6>1. i < l
            BY <2>6, <4>5
          <6> QED
            BY <2>7, <2>8, <4>2, <6>1, Zenon
        <5>2. /\ from[i] \in 1 .. Len(webpages) /\ from[l] \in 1 .. Len(webpages)
              /\ n \in 1 .. Len(webpages) /\ from[l] < n
          BY <1>2, <5>1
        <5>3. /\ ~IsLess(webpages[from[l]], webpages[from[i]])
              /\ ~IsLess(webpages[n], webpages[from[l]])
          BY <5>1, <5>2, Zenon DEF InOrder
        <5>4. webpages[from[i]] \in Pages /\ webpages[from[l]] \in Pages
          BY <5>2
        <5>5. /\ webpages[from[i]].u64 \in SUBSET (0 .. 63)
              /\ webpages[from[l]].u64 \in SUBSET (0 .. 63)
          BY <5>4 DEF Pages
        <5>6. webpages[from[l]].u64 = webpages[from[i]].u64
          BY <4>1, <5>3, <5>5, OneFingerprintIsTogether, Zenon
        <5> QED
          BY <4>1, <4>3, <5>6, OneFingerprintIsEqual, Zenon
      <4> QED
        BY <4>4, <4>5
    <3>6. \A i \in 1 .. l + 1 : i \in 1 .. l \/ i = l + 1
      BY <2>6
    <3>7. \A i \in 1 .. l + 1 : after[i] = webpages[longer[i]]
      BY <2>8, <3>3, <3>4, <3>6, Zenon
    <3>8. ASSUME NEW i \in 1 .. l + 1, NEW j \in 1 .. l + 1, i < j
          PROVE  longer[i] < longer[j] /\ webpages[longer[i]].u64 # webpages[longer[j]].u64
      <4>1. i \in 1 .. l /\ longer[i] = from[i] /\ from[i] < n
        BY <2>6, <2>7, <3>3, <3>8
      <4>2. CASE j = l + 1
        BY <3>3, <3>5, <4>1, <4>2, Zenon
      <4>3. CASE j \in 1 .. l
        <5>1. longer[j] = from[j]
          BY <3>3, <4>3, Zenon
        <5>2. from[i] < from[j] /\ webpages[from[i]].u64 # webpages[from[j]].u64
          BY <2>8, <3>8, <4>1, <4>3, Zenon
        <5> QED
          BY <4>1, <5>1, <5>2
      <4> QED
        BY <3>6, <4>2, <4>3
    <3>9. ASSUME NEW m \in 1 .. n
          PROVE  \E i \in 1 .. l + 1 : IsEqual(webpages[m], after[i])
      <4>1. CASE m = n
        <5>1. l + 1 \in 1 .. l + 1 /\ IsEqual(webpages[m], after[l + 1])
          BY <2>6, <3>4, <4>1, OneFingerprintIsEqual
        <5> QED
          BY <5>1
      <4>2. CASE m # n
        <5>1. PICK i \in 1 .. l : IsEqual(webpages[m], before[i])
          BY <2>8, <4>2
        <5>2. i \in 1 .. l + 1 /\ after[i] = before[i]
          BY <3>4
        <5> QED
          BY <5>1, <5>2
      <4> QED
        BY <4>1, <4>2
    <3>10. Keeps(webpages, n, after, longer)
      BY <3>3, <3>4, <3>7, <3>8, <3>9, Zenon DEF Keeps
    <3> QED
      BY <2>1, <2>2, <3>10, Zenon
  <2> QED
    BY <2>9, <2>10
<1>5. \A n \in 0 .. N : n \in good
  <2> HIDE DEF good
  <2> QED
    BY <1>3, <1>4, StepByStep
<1>6. N \in good
  BY <1>5
<1> QED
  BY <1>1, <1>2, <1>6, Zenon

(* What sort() makes of some pages are all of them, and no other.          *)
LEMMA SortedPages ==
    ASSUME NEW webpages \in Seq(Pages), NEW sorted \in Sorted(webpages)
    PROVE  /\ sorted \in Seq(Pages) /\ Len(sorted) = Len(webpages) /\ InOrder(sorted)
           /\ \A i \in 1 .. Len(webpages) : \E k \in 1 .. Len(webpages) : sorted[i] = webpages[k]
           /\ \A k \in 1 .. Len(webpages) : \E i \in 1 .. Len(webpages) : sorted[i] = webpages[k]
<1>1. PICK N \in Nat : N = Len(webpages) /\ DOMAIN webpages = 1 .. N
  OBVIOUS
<1>2. IsFiniteSet(1 .. N) /\ Cardinality(1 .. N) = N
  BY CountTo
<1>3. PICK s \in SetToSeqs(DOMAIN webpages) :
          /\ sorted = [i \in DOMAIN webpages |-> webpages[s[i]]]
          /\ \A i, j \in DOMAIN webpages : i < j => ~IsLess(webpages[s[j]], webpages[s[i]])
  BY DEF Sorted
<1>4. /\ s \in [1 .. N -> 1 .. N]
      /\ \A i, j \in 1 .. N : i # j => s[i] # s[j]
  BY <1>1, <1>2, <1>3 DEF SetToSeqs
<1>5. s \in Injection(1 .. N, 1 .. N)
  BY <1>4 DEF Injection, IsInjective
<1>6. s \in Surjection(1 .. N, 1 .. N)
  BY <1>2, <1>5, FS_Injection
<1>7. \A k \in 1 .. N : \E i \in 1 .. N : s[i] = k
  BY <1>6 DEF Surjection
<1>8. /\ sorted \in Seq(Pages) /\ Len(sorted) = N
      /\ \A i \in 1 .. N : sorted[i] = webpages[s[i]]
  BY <1>1, <1>3, <1>4
<1>9. InOrder(sorted)
  BY <1>1, <1>3, <1>8, Zenon DEF InOrder
<1> QED
  BY <1>1, <1>4, <1>7, <1>8, <1>9

(* What is left of the pages of a library.                                 *)
Reduced(given, left) ==
    /\ left \in Seq(Pages)
    /\ \A p \in ToSet(given) : \E r \in ToSet(left) : IsEqual(p, r)
    /\ \A d, e \in DOMAIN left : d # e => left[d].content # left[e].content

(* That is what sort() and unique() together leave.                        *)
LEMMA CuttingReduces ==
    ASSUME NEW given, Extracted(given), NEW sorted \in Sorted(given)
    PROVE  Reduced(given, Unique(sorted))
<1>1. given \in Seq(Pages)
  BY DEF Extracted
<1>2. PICK N \in Nat : N = Len(given) /\ DOMAIN given = 1 .. N
  BY <1>1
<1>3. /\ sorted \in Seq(Pages) /\ Len(sorted) = N /\ InOrder(sorted)
      /\ \A i \in 1 .. N : \E k \in 1 .. N : sorted[i] = given[k]
      /\ \A k \in 1 .. N : \E i \in 1 .. N : sorted[i] = given[k]
  BY <1>1, <1>2, SortedPages
<1>4. PICK from : Keeps(sorted, N, Unique(sorted), from)
  BY <1>3, UniqueKeeps
<1>5. PICK left \in Seq(Pages) : left = Unique(sorted)
  <2>1. PICK kept \in [0 .. Len(sorted) -> Seq(Pages)] : Unique(sorted) = kept[Len(sorted)]
    <3>1. \E kept \in [0 .. Len(sorted) -> Seq(Pages)] :
             KeptOf(sorted, kept) /\ Unique(sorted) = kept[Len(sorted)]
      BY <1>3, UniqueIsKept
    <3> QED
      BY <3>1, Zenon
  <2>2. Len(sorted) \in 0 .. Len(sorted)
    BY <1>2, <1>3
  <2> QED
    BY <2>1, <2>2
<1>6. PICK n \in Nat : n = Len(left) /\ DOMAIN left = 1 .. n
  BY <1>5
<1>7. /\ \A i \in 1 .. n : left[i] = sorted[from[i]] /\ from[i] \in 1 .. N
      /\ \A i, j \in 1 .. n : i < j => left[i].u64 # left[j].u64
      /\ \A m \in 1 .. N : \E i \in 1 .. n : IsEqual(sorted[m], left[i])
  <2>1. /\ from \in Seq(1 .. N) /\ Len(from) = n
        /\ \A i \in 1 .. n : left[i] = sorted[from[i]]
        /\ \A i, j \in 1 .. n : i < j => sorted[from[i]].u64 # sorted[from[j]].u64
        /\ \A m \in 1 .. N : \E i \in 1 .. n : IsEqual(sorted[m], left[i])
    BY <1>4, <1>5, <1>6 DEF Keeps
  <2>2. \A i \in 1 .. n : from[i] \in 1 .. N
    BY <2>1
  <2>3. ASSUME NEW i \in 1 .. n, NEW j \in 1 .. n, i < j
        PROVE  left[i].u64 # left[j].u64
    <3>1. left[i] = sorted[from[i]] /\ left[j] = sorted[from[j]]
      BY <2>1, Zenon
    <3>2. sorted[from[i]].u64 # sorted[from[j]].u64
      BY <2>1, <2>3, Zenon
    <3> QED
      BY <3>1, <3>2
  <2> QED
    BY <2>1, <2>2, <2>3, Zenon
<1>8. ASSUME NEW p \in ToSet(given)
      PROVE  \E r \in ToSet(left) : IsEqual(p, r)
  <2>1. PICK k \in 1 .. N : p = given[k]
    BY <1>2 DEF ToSet
  <2>2. PICK m \in 1 .. N : sorted[m] = given[k]
    BY <1>3
  <2>3. PICK i \in 1 .. n : IsEqual(sorted[m], left[i])
    BY <1>7
  <2>4. left[i] \in ToSet(left)
    BY <1>6, Zenon DEF ToSet
  <2> QED
    BY <2>1, <2>2, <2>3, <2>4, Zenon
<1>9. ASSUME NEW d \in 1 .. n, NEW e \in 1 .. n, left[d].content = left[e].content
      PROVE  left[d].u64 = left[e].u64
  <2>1. PICK c \in 1 .. N : left[d] = given[c]
    <3>1. left[d] = sorted[from[d]] /\ from[d] \in 1 .. N
      BY <1>7, Zenon
    <3>2. PICK c \in 1 .. N : sorted[from[d]] = given[c]
      BY <1>3, <3>1, Zenon
    <3> QED
      BY <3>1, <3>2
  <2>2. PICK k \in 1 .. N : left[e] = given[k]
    <3>1. left[e] = sorted[from[e]] /\ from[e] \in 1 .. N
      BY <1>7, Zenon
    <3>2. PICK k \in 1 .. N : sorted[from[e]] = given[k]
      BY <1>3, <3>1, Zenon
    <3> QED
      BY <3>1, <3>2
  <2> QED
    BY <1>2, <1>9, <2>1, <2>2, Zenon DEF Extracted
<1>10. \A d, e \in 1 .. n : d # e => left[d].content # left[e].content
  <2>1. ASSUME NEW d \in 1 .. n, NEW e \in 1 .. n, d # e
        PROVE  left[d].u64 # left[e].u64
    <3>1. d < e \/ e < d
      BY <2>1
    <3> QED
      BY <1>7, <3>1
  <2> QED
    BY <1>9, <2>1, Zenon
<1> QED
  BY <1>5, <1>6, <1>8, <1>10 DEF Reduced
-----------------------------------------------------------------------------
(* The index, written and read                                             *)

(* Numbered things can be listed by their numbers: the place of each is    *)
(* how many have no greater number.                                        *)
LEMMA SortedListExists ==
    ASSUME NEW T, IsFiniteSet(T), \A e \in T : e.doc \in Nat,
           \A e, f \in T : e # f => e.doc # f.doc
    PROVE  \E line \in SetToSeqs(T) :
              \A i, j \in DOMAIN line : i < j => line[i].doc < line[j].doc
<1>1. PICK n \in Nat : n = Cardinality(T)
  BY FS_CardinalityType
<1> DEFINE upTo(e) == {f \in T : f.doc <= e.doc}
<1>2. \A e \in T : IsFiniteSet(upTo(e)) /\ Cardinality(upTo(e)) \in 1 .. n
  <2> TAKE e \in T
  <2>1. upTo(e) \in SUBSET T /\ e \in upTo(e)
    OBVIOUS
  <2>2. IsFiniteSet(upTo(e)) /\ Cardinality(upTo(e)) <= n
    BY <1>1, <2>1, FS_Subset
  <2>3. Cardinality(upTo(e)) \in Nat /\ Cardinality(upTo(e)) # 0
    BY <2>1, <2>2, FS_CardinalityType, FS_EmptySet
  <2> QED
    BY <1>1, <2>2, <2>3
<1>3. ASSUME NEW e \in T, NEW f \in T, e.doc < f.doc
      PROVE  Cardinality(upTo(e)) < Cardinality(upTo(f))
  <2>1. upTo(e) \in SUBSET upTo(f) /\ f \in upTo(f) /\ f \notin upTo(e)
    BY <1>3
  <2>2. /\ Cardinality(upTo(e)) <= Cardinality(upTo(f))
        /\ Cardinality(upTo(e)) # Cardinality(upTo(f))
    <3> HIDE DEF upTo
    <3> QED
      BY <1>2, <2>1, FS_Subset
  <2>3. Cardinality(upTo(e)) \in 1 .. n /\ Cardinality(upTo(f)) \in 1 .. n
    BY <1>2, Zenon
  <2> QED
    BY <2>2, <2>3
<1>4. PICK place : place = [e \in T |-> Cardinality(upTo(e))]
  OBVIOUS
<1>5. place \in [T -> 1 .. n]
  BY <1>2, <1>4
<1>6. \A e, f \in T : e.doc < f.doc => place[e] < place[f]
  BY <1>3, <1>4
<1>7. place \in Injection(T, 1 .. n)
  <2>1. \A e, f \in T : e # f => place[e] # place[f]
    <3> TAKE e \in T, f \in T
    <3> HAVE e # f
    <3>1. e.doc < f.doc \/ f.doc < e.doc
      OBVIOUS
    <3> QED
      BY <1>5, <1>6, <3>1
  <2> QED
    BY <1>5, <2>1 DEF Injection, IsInjective
<1>8. \A i \in 1 .. n : \E e \in T : place[e] = i
  <2>1. IsFiniteSet(1 .. n) /\ Cardinality(1 .. n) = n
    BY <1>1, CountTo
  <2>2. place \in Surjection(T, 1 .. n)
    BY <1>1, <1>7, <2>1, FS_Injection
  <2> QED
    BY <2>2 DEF Surjection
<1>9. PICK line : line = [i \in 1 .. n |-> CHOOSE e \in T : place[e] = i]
  OBVIOUS
<1>10. \A i \in 1 .. n : line[i] \in T /\ place[line[i]] = i
  BY <1>8, <1>9
<1>11. line \in [1 .. n -> T] /\ DOMAIN line = 1 .. n
  BY <1>9, <1>10
<1>12. line \in SetToSeqs(T)
  <2>1. \A i, j \in 1 .. n : i # j => line[i] # line[j]
    BY <1>10
  <2> QED
    BY <1>1, <1>11, <2>1 DEF SetToSeqs
<1>13. ASSUME NEW i \in 1 .. n, NEW j \in 1 .. n, i < j
       PROVE  line[i].doc < line[j].doc
  <2>1. PICK e \in T, f \in T : e = line[i] /\ f = line[j]
    BY <1>10
  <2>2. place[e] < place[f]
    BY <1>10, <1>13, <2>1
  <2>3. ~(f.doc < e.doc) /\ f.doc # e.doc
    BY <1>5, <1>6, <2>2
  <2> QED
    BY <2>1, <2>3
<1> QED
  BY <1>11, <1>12, <1>13

(* The pages that have a word and are read back: before the first whose    *)
(* weight is no number.                                                    *)
Readable(webpages, w) ==
    {d \in PagesWith(webpages, w) :
        \A e \in PagesWith(webpages, w) : e <= d => ~NotANumber(webpages, e)}

(* A line of the index, as the tool writes it and the server reads it, has *)
(* these pages: the server stops at the first weight that is no number.    *)
LEMMA LineIsReadBack ==
    ASSUME NEW webpages \in Seq(Pages), NEW w \in WordsOf(webpages)
    PROVE  ReadLine(LineOf(IndexOf(webpages)[w])) = Readable(webpages, w)
<1> DEFINE entry(d) == [doc |-> d, nan |-> NotANumber(webpages, d)]
           T == {entry(d) : d \in PagesWith(webpages, w)}
<1>1. IndexOf(webpages)[w] = T
  BY DEF IndexOf
<1>2. PICK N \in Nat : N = Len(webpages) /\ DOMAIN webpages = 1 .. N
  OBVIOUS
<1>3. PagesWith(webpages, w) \in SUBSET (1 .. N) /\ IsFiniteSet(PagesWith(webpages, w))
  <2>1. PagesWith(webpages, w) \in SUBSET (1 .. N)
    BY <1>2 DEF PagesWith
  <2>2. IsFiniteSet(1 .. N)
    BY <1>2, CountTo
  <2> QED
    BY <2>1, <2>2, FS_Subset
<1>4. IsFiniteSet(T)
  <2>1. PICK f : f = [d \in PagesWith(webpages, w) |-> entry(d)]
    OBVIOUS
  <2>2. f \in Surjection(PagesWith(webpages, w), T)
    BY <2>1 DEF Surjection
  <2> QED
    BY <1>3, <2>2, FS_Surjection
<1>5. \A e \in T : e.doc \in PagesWith(webpages, w) /\ e = entry(e.doc)
  OBVIOUS
<1>6. \A e \in T : e.doc \in Nat
  BY <1>3, <1>5
<1>7. \A e, f \in T : e # f => e.doc # f.doc
  <2> HIDE DEF T
  <2> QED
    BY <1>5, Zenon
<1>8. PICK line : line = LineOf(T)
  OBVIOUS
<1>9. /\ line \in SetToSeqs(T)
      /\ \A i, j \in DOMAIN line : i < j => line[i].doc < line[j].doc
  <2> HIDE DEF T
  <2>1. \E l \in SetToSeqs(T) : \A i, j \in DOMAIN l : i < j => l[i].doc < l[j].doc
    BY <1>4, <1>6, <1>7, SortedListExists
  <2> QED
    BY <1>8, <2>1, Zenon DEF LineOf
<1>10. PICK n \in Nat : n = Cardinality(T)
  BY <1>4, FS_CardinalityType
<1>11. line \in [1 .. n -> T] /\ \A i, j \in 1 .. n : i < j => line[i].doc < line[j].doc
  <2> HIDE DEF T
  <2>1. line \in [1 .. n -> T]
    BY <1>9, <1>10 DEF SetToSeqs
  <2> QED
    BY <1>9, <2>1
<1>12. \A e \in T : \E i \in 1 .. n : line[i] = e
  <2> HIDE DEF T
  <2>1. line \in Injection(1 .. n, T)
    BY <1>9, <1>10, <1>11 DEF SetToSeqs, Injection, IsInjective
  <2>2. Cardinality(1 .. n) = n
    BY <1>10, CountTo
  <2>3. line \in Surjection(1 .. n, T)
    BY <1>4, <1>10, <2>1, <2>2, FS_Injection
  <2> QED
    BY <2>3 DEF Surjection
<1>13. ASSUME NEW i \in 1 .. n
       PROVE  /\ line[i].doc \in PagesWith(webpages, w) /\ line[i].doc \in Nat
              /\ line[i].nan = NotANumber(webpages, line[i].doc)
  <2>1. line[i] \in T
    BY <1>11
  <2>2. line[i] = entry(line[i].doc)
    BY <1>5, <2>1, Zenon
  <2>3. entry(line[i].doc).nan = NotANumber(webpages, line[i].doc)
    BY Zenon
  <2> QED
    BY <1>5, <1>6, <2>1, <2>2, <2>3, Zenon
<1>14. ASSUME NEW d \in ReadLine(line)
       PROVE  d \in Readable(webpages, w)
  <2>1. PICK i \in 1 .. n : d = line[i].doc /\ \A j \in 1 .. i : ~line[j].nan
    BY <1>11, <1>14, Zenon DEF ReadLine
  <2>2. ASSUME NEW e \in PagesWith(webpages, w), e <= d
        PROVE  ~NotANumber(webpages, e)
    <3>1. PICK j \in 1 .. n : line[j] = entry(e)
      BY <1>12
    <3>2. line[j].doc = e
      BY <3>1
    <3>3. ~(i < j)
      BY <1>11, <1>13, <2>1, <2>2, <3>2
    <3>4. j \in 1 .. i
      BY <3>3
    <3> QED
      BY <1>13, <2>1, <3>2, <3>4, Zenon
  <2> QED
    BY <1>13, <2>1, <2>2, Zenon DEF Readable
<1>15. ASSUME NEW d \in Readable(webpages, w)
       PROVE  d \in ReadLine(line)
  <2>1. /\ d \in PagesWith(webpages, w)
        /\ \A e \in PagesWith(webpages, w) : e <= d => ~NotANumber(webpages, e)
    BY <1>15, Zenon DEF Readable
  <2>2. PICK i \in 1 .. n : line[i] = entry(d)
    BY <1>12, <2>1
  <2>3. line[i].doc = d
    BY <2>2
  <2>4. ASSUME NEW j \in 1 .. i
        PROVE  ~line[j].nan
    <3>1. j \in 1 .. n /\ (j < i \/ j = i)
      OBVIOUS
    <3>2. line[j].doc <= line[i].doc
      BY <1>11, <1>13, <3>1
    <3> QED
      BY <1>13, <2>1, <2>3, <3>1, <3>2, Zenon
  <2>5. i \in DOMAIN line
    BY <1>11
  <2> QED
    BY <2>3, <2>4, <2>5, Zenon DEF ReadLine
<1> QED
  BY <1>1, <1>8, <1>14, <1>15, Zenon
-----------------------------------------------------------------------------
(* What the tool has made of its pages: nothing yet, or fewer of them.     *)
CutFrom(given) ==
    /\ extracted = given
    /\ phase = "buildWeblib" => pageLib = given
    /\ phase # "buildWeblib" => Reduced(given, pageLib)

(* A step leaves it so.                                                    *)
LEMMA CutStep ==
    ASSUME NEW CONSTANT given, Extracted(given), NEW CONSTANT asked,
           CutFrom(given), IndexNext(asked) \/ UNCHANGED indexVars
    PROVE  CutFrom(given)'
<1> USE DEF CutFrom
<1>1. CASE CutRedundantPages
  <2>1. PICK sorted \in Sorted(given) : pageLib' = Unique(sorted)
    BY <1>1 DEF CutRedundantPages
  <2>2. Reduced(given, Unique(sorted))
    BY CuttingReduces
  <2>3. Reduced(given, pageLib')
    BY <2>1, <2>2, Zenon
  <2> QED
    BY <1>1, <2>3 DEF CutRedundantPages
<1>2. CASE /\ ~CutRedundantPages
           /\ UNCHANGED <<extracted, pageLib>>
           /\ phase' = "buildWeblib" <=> phase = "buildWeblib"
  <2>1. Reduced(given, pageLib)' <=> Reduced(given, pageLib)
    BY <1>2, Zenon
  <2> QED
    BY <1>2, <2>1
<1>3. /\ IndexNext(asked) /\ ~CutRedundantPages => UNCHANGED <<extracted, pageLib>>
      /\ IndexNext(asked) /\ ~CutRedundantPages =>
            (phase' = "buildWeblib" <=> phase = "buildWeblib")
  BY DEF IndexNext, IndexStep, BuildInvertIndexTable, StoreOnDisk, LoadLibrary,
         DoQuery, DoQueryWithoutWords, offline
<1> QED
  BY <1>1, <1>2, <1>3 DEF indexVars, offline

(* However the pages of a library come, no two that are left have the same *)
(* content, and each that was removed is close to one that is left:        *)
(* cutRedundantPages(), with sort() and unique(), and all that follows it. *)
THEOREM CopiesAreRemoved ==
    ASSUME NEW CONSTANT given, Extracted(given), NEW CONSTANT asked
    PROVE  IndexSpec(given, asked) => []RedundancyRemoved
<1>1. phase = "buildWeblib" /\ IndexInit(given) => CutFrom(given)
  BY DEF IndexInit, CutFrom
<1>2. CutFrom(given) /\ [IndexNext(asked)]_indexVars => CutFrom(given)'
  BY CutStep
<1>3. CutFrom(given) => RedundancyRemoved
  BY DEF CutFrom, RedundancyRemoved, Reduced
<1> QED
  BY <1>1, <1>2, <1>3, PTL DEF IndexSpec
-----------------------------------------------------------------------------
(* Texts and marks                                                         *)

(* A text has a part at some place.                                        *)
StandsAt(text, part, p) ==
    /\ p \in 1 .. Len(text) - Len(part) + 1
    /\ \A i \in 1 .. Len(part) : text[p + i - 1] = part[i]

(* A part of a sequence, from one place to another.                        *)
LEMMA PartOfSeq ==
    ASSUME NEW T, NEW s \in Seq(T), NEW a \in Nat, NEW b \in Nat,
           1 <= a, b <= Len(s), a <= b + 1
    PROVE  /\ SubSeq(s, a, b) \in Seq(T) /\ Len(SubSeq(s, a, b)) = b - a + 1
           /\ \A i \in 1 .. b - a + 1 : SubSeq(s, a, b)[i] = s[a + i - 1]
<1>1. \A i \in a .. b : i \in 1 .. Len(s)
  OBVIOUS
<1>2. \A i \in a .. b : s[i] \in T
  BY <1>1, ElementOfSeq
<1>3. SubSeq(s, a, b) \in Seq(T)
  BY <1>2, SubSeqProperties
<1>4. Len(SubSeq(s, a, b)) = b - a + 1
  OBVIOUS
<1>5. \A i \in 1 .. b - a + 1 : SubSeq(s, a, b)[i] = s[a + i - 1]
  OBVIOUS
<1> QED
  BY <1>3, <1>4, <1>5

(* The first elements of a sequence.                                       *)
LEMMA FirstOfSeq ==
    ASSUME NEW T, NEW s \in Seq(T), NEW n \in Nat, n <= Len(s)
    PROVE  /\ SubSeq(s, 1, n) \in Seq(T) /\ Len(SubSeq(s, 1, n)) = n
           /\ \A i \in 1 .. n : SubSeq(s, 1, n)[i] = s[i]
<1>1. \A i \in 1 .. n : i \in 1 .. Len(s)
  OBVIOUS
<1>2. \A i \in 1 .. n : s[i] \in T
  BY <1>1, ElementOfSeq
<1>3. SubSeq(s, 1, n) \in Seq(T)
  BY <1>2, SubSeqProperties
<1> QED
  BY <1>3

(* A part of a text.                                                       *)
LEMMA PartOfText ==
    ASSUME NEW text \in Texts, NEW a \in Nat, NEW b \in Nat,
           1 <= a, b <= Len(text), a <= b + 1
    PROVE  /\ SubSeq(text, a, b) \in Texts /\ Len(SubSeq(text, a, b)) = b - a + 1
           /\ \A i \in 1 .. b - a + 1 : SubSeq(text, a, b)[i] = text[a + i - 1]
<1>1. text \in Seq(0 .. 255)
  BY DEF Texts
<1>2. /\ SubSeq(text, a, b) \in Seq(0 .. 255) /\ Len(SubSeq(text, a, b)) = b - a + 1
      /\ \A i \in 1 .. b - a + 1 : SubSeq(text, a, b)[i] = text[a + i - 1]
  BY <1>1, PartOfSeq, Zenon
<1> QED
  BY <1>2, Zenon DEF Texts

(* A text stands where the model compares it with a part of another.       *)
LEMMA SubSeqIsAt ==
    ASSUME NEW text \in Texts, NEW part \in Texts,
           NEW p \in 1 .. Len(text) - Len(part) + 1
    PROVE  SubSeq(text, p, p + Len(part) - 1) = part <=> StandsAt(text, part, p)
<1>1. PICK n \in Nat, l \in Nat : n = Len(text) /\ l = Len(part)
  BY DEF Texts
<1>2. PICK q : q = p + l - 1
  OBVIOUS
<1>3. q \in Nat /\ q - p + 1 = l /\ p \in Nat /\ 1 <= p /\ q <= n /\ p <= q + 1
  BY <1>1, <1>2
<1>4. /\ SubSeq(text, p, q) \in Texts /\ Len(SubSeq(text, p, q)) = l
      /\ \A i \in 1 .. l : SubSeq(text, p, q)[i] = text[p + i - 1]
  <2>1. /\ SubSeq(text, p, q) \in Texts /\ Len(SubSeq(text, p, q)) = q - p + 1
        /\ \A i \in 1 .. q - p + 1 : SubSeq(text, p, q)[i] = text[p + i - 1]
    BY <1>1, <1>3, PartOfText, Zenon
  <2> QED
    BY <1>3, <2>1, Zenon
<1>5. PICK s \in Texts : s = SubSeq(text, p, q)
  BY <1>4
<1>6. s = part <=> \A i \in 1 .. l : s[i] = part[i]
  <2>1. part \in Seq(0 .. 255) /\ s \in Seq(0 .. 255)
    BY DEF Texts
  <2>2. (\A i \in 1 .. l : s[i] = part[i]) => s = part
    BY <1>1, <1>4, <1>5, <2>1, SeqEqual, Zenon
  <2> QED
    BY <2>2
<1> QED
  BY <1>1, <1>2, <1>4, <1>5, <1>6, Zenon DEF StandsAt

(* So a text occurs in another one when it stands somewhere in it.         *)
LEMMA OccursAt ==
    ASSUME NEW text \in Texts, NEW part \in Texts
    PROVE  Occurs(part, text) <=> \E p \in Nat : StandsAt(text, part, p)
<1>1. PICK n \in Nat, l \in Nat : n = Len(text) /\ l = Len(part)
  BY DEF Texts
<1>2. \A p \in 1 .. n - l + 1 : SubSeq(text, p, p + l - 1) = part <=> StandsAt(text, part, p)
  BY <1>1, SubSeqIsAt
<1>3. \A p \in Nat : StandsAt(text, part, p) => p \in 1 .. n - l + 1
  BY <1>1 DEF StandsAt
<1>4. 1 .. n - l + 1 \in SUBSET Nat
  OBVIOUS
<1> QED
  BY <1>1, <1>2, <1>3, <1>4, Zenon DEF Occurs

(* The bytes of two texts, one after the other.                            *)
LEMMA Joined ==
    ASSUME NEW x \in Texts, NEW y \in Texts
    PROVE  /\ x \o y \in Texts /\ Len(x \o y) = Len(x) + Len(y)
           /\ \A i \in 1 .. Len(x) : (x \o y)[i] = x[i]
           /\ \A i \in 1 .. Len(y) : (x \o y)[Len(x) + i] = y[i]
  BY DEF Texts

(* What occurs in a text occurs in longer ones.                            *)
LEMMA OccursInLonger ==
    ASSUME NEW part \in Texts, NEW x \in Texts, NEW y \in Texts, Occurs(part, x)
    PROVE  Occurs(part, x \o y) /\ Occurs(part, y \o x)
<1>1. PICK k \in Nat, l \in Nat, n \in Nat : k = Len(x) /\ l = Len(y) /\ n = Len(part)
  BY DEF Texts
<1>2. PICK p \in 1 .. k - n + 1 : \A i \in 1 .. n : x[p + i - 1] = part[i]
  BY <1>1, OccursAt DEF StandsAt
<1>3. StandsAt(x \o y, part, p)
  <2>1. \A i \in 1 .. n : (x \o y)[p + i - 1] = x[p + i - 1]
    BY <1>1, <1>2, Joined
  <2> QED
    BY <1>1, <1>2, <2>1, Joined DEF StandsAt
<1>4. StandsAt(y \o x, part, l + p)
  <2>1. \A i \in 1 .. n : (y \o x)[l + p + i - 1] = x[p + i - 1]
    <3> TAKE i \in 1 .. n
    <3>1. p + i - 1 \in 1 .. k /\ l + p + i - 1 = l + (p + i - 1)
      BY <1>1, <1>2
    <3> QED
      BY <1>1, <3>1, Joined
  <2> QED
    BY <1>1, <1>2, <2>1, Joined DEF StandsAt
<1>5. x \o y \in Texts /\ y \o x \in Texts /\ p \in Nat /\ l + p \in Nat
  BY Joined
<1> QED
  BY <1>3, <1>4, <1>5, OccursAt

(* A name between < and >.                                                 *)
IsMark(m) ==
    /\ m \in Texts /\ Len(m) >= 2
    /\ m[1] = 60 /\ m[Len(m)] = 62
    /\ \A i \in 2 .. Len(m) - 1 : m[i] \in 97 .. 122

(* The marks of getDoct() are of that kind.                                *)
LEMMA MarksAreMarks ==
    \A name \in {"doc", "docid", "url", "title", "content"} : IsMark(Marks[name])
<1>1. IsMark(Marks["doc"])
  BY DEF Marks, IsMark, Texts
<1>2. IsMark(Marks["docid"])
  BY DEF Marks, IsMark, Texts
<1>3. IsMark(Marks["url"])
  BY DEF Marks, IsMark, Texts
<1>4. IsMark(Marks["title"])
  BY DEF Marks, IsMark, Texts
<1>5. IsMark(Marks["content"])
  BY DEF Marks, IsMark, Texts
<1> QED
  BY <1>1, <1>2, <1>3, <1>4, <1>5

(* A text without a mark, alone and with more after it: more that begins   *)
(* with no byte of a mark but its first, or follows the end of a mark.     *)
Unmarked(m, x) == x \in Texts /\ ~Occurs(m, x)
Begins(y) == y \in Texts /\ Len(y) > 0 /\ y[1] \notin 97 .. 122 /\ y[1] # 62
Ends(x) == x \in Texts /\ Len(x) > 0 /\ x[Len(x)] = 62

(* A mark cannot lie across the border of such texts: all of it but its    *)
(* ends are letters.                                                       *)
LEMMA UnmarkedJoined ==
    ASSUME NEW m, IsMark(m), NEW x, Unmarked(m, x), NEW y, Unmarked(m, y),
           Begins(y) \/ Ends(x)
    PROVE  Unmarked(m, x \o y)
<1>1. PICK k \in Nat, l \in Nat, n \in Nat : k = Len(x) /\ l = Len(y) /\ n = Len(m)
  BY DEF Unmarked, Texts, IsMark
<1>2. x \in Texts /\ y \in Texts /\ m \in Texts
  BY DEF Unmarked, IsMark
<1>3. /\ x \o y \in Texts /\ Len(x \o y) = k + l
      /\ \A i \in 1 .. k : (x \o y)[i] = x[i]
      /\ \A i \in 1 .. l : (x \o y)[k + i] = y[i]
  BY <1>1, <1>2, Joined
<1>4. ASSUME NEW p \in Nat, StandsAt(x \o y, m, p)
      PROVE  FALSE
  <2>1. p \in 1 .. k + l - n + 1 /\ \A i \in 1 .. n : (x \o y)[p + i - 1] = m[i]
    BY <1>1, <1>3, <1>4 DEF StandsAt
  <2>2. CASE p + n - 1 <= k
    <3>1. \A i \in 1 .. n : x[p + i - 1] = m[i]
      <4> TAKE i \in 1 .. n
      <4>1. p + i - 1 \in 1 .. k
        BY <2>1, <2>2
      <4> QED
        BY <1>3, <2>1, <4>1
    <3>2. StandsAt(x, m, p)
      BY <1>1, <2>1, <2>2, <3>1 DEF StandsAt
    <3> QED
      BY <1>2, <3>2, OccursAt DEF Unmarked
  <2>3. CASE p > k
    <3>1. \A i \in 1 .. n : y[p - k + i - 1] = m[i]
      <4> TAKE i \in 1 .. n
      <4>1. p - k + i - 1 \in 1 .. l /\ k + (p - k + i - 1) = p + i - 1
        BY <2>1, <2>3
      <4> QED
        BY <1>3, <2>1, <4>1
    <3>2. StandsAt(y, m, p - k) /\ p - k \in Nat
      BY <1>1, <2>1, <2>3, <3>1 DEF StandsAt
    <3> QED
      BY <1>2, <3>2, OccursAt DEF Unmarked
  <2>4. CASE p <= k /\ p + n - 1 > k
    <3>1. PICK i \in 1 .. n : i = k - p + 1
      BY <2>1, <2>4
    <3>2. i + 1 \in 2 .. n /\ p + i - 1 = k /\ p + (i + 1) - 1 = k + 1
      BY <2>1, <2>4, <3>1
    <3>3. 1 \in 1 .. l /\ k \in 1 .. k
      BY <2>1, <2>4
    <3>4. x[k] = m[i] /\ y[1] = m[i + 1]
      <4>1. i + 1 \in 1 .. n
        BY <3>2
      <4>2. (x \o y)[k] = m[i] /\ (x \o y)[k + 1] = m[i + 1]
        BY <2>1, <3>2, <4>1, Zenon
      <4> QED
        BY <1>3, <3>3, <4>2, Zenon
    <3>5. m[i] # 62 /\ (m[i + 1] \in 97 .. 122 \/ m[i + 1] = 62)
      <4>1. /\ m[1] = 60 /\ m[n] = 62
            /\ \A j \in 2 .. n - 1 : m[j] \in 97 .. 122
        BY <1>1 DEF IsMark
      <4>2. i = 1 \/ i \in 2 .. n - 1
        BY <3>1, <3>2
      <4>3. i + 1 = n \/ i + 1 \in 2 .. n - 1
        BY <3>1, <3>2
      <4> QED
        BY <4>1, <4>2, <4>3
    <3> QED
      BY <1>1, <3>4, <3>5 DEF Begins, Ends
  <2> QED
    BY <1>1, <2>1, <2>2, <2>3, <2>4
<1> QED
  BY <1>2, <1>3, <1>4, OccursAt DEF Unmarked
-----------------------------------------------------------------------------
(* Finding a field                                                         *)

(* The first place of a mark, from another place on.                       *)
LEMMA FoundAt ==
    ASSUME NEW text \in Texts, NEW m \in Texts, NEW from \in Nat, 1 <= from,
           NEW q \in Nat, from <= q, StandsAt(text, m, q),
           \A p \in from .. q - 1 : ~StandsAt(text, m, p)
    PROVE  FindMark(text, m, from) = q
<1>1. PICK n \in Nat, l \in Nat : n = Len(text) /\ l = Len(m)
  BY DEF Texts
<1>2. PICK places : places = {p \in from .. n - l + 1 : SubSeq(text, p, p + l - 1) = m}
  OBVIOUS
<1>3. ASSUME NEW p \in from .. n - l + 1
      PROVE  p \in places <=> StandsAt(text, m, p)
  <2>1. p \in 1 .. n - l + 1
    OBVIOUS
  <2> QED
    BY <1>1, <1>2, <2>1, SubSeqIsAt, Zenon
<1>4. q \in places
  <2>1. q \in from .. n - l + 1
    BY <1>1 DEF StandsAt
  <2> QED
    BY <1>3, <2>1
<1>5. places \in SUBSET Nat
  BY <1>2
<1>6. PICK least \in Nat : least = Min(places) /\ least \in places /\ least <= q
  BY <1>4, <1>5, LeastNat
<1>7. ~(least < q)
  <2>1. ASSUME NEW p \in places, p < q
        PROVE  FALSE
    <3>1. p \in from .. n - l + 1 /\ p \in from .. q - 1
      BY <1>2, <2>1
    <3> QED
      BY <1>3, <3>1
  <2> QED
    BY <1>6, <2>1
<1>8. least = q
  BY <1>6, <1>7
<1>9. FindMark(text, m, from) = Min(places)
  BY <1>1, <1>2 DEF FindMark
<1> QED
  BY <1>6, <1>8, <1>9

(* A text that goes on after another one.                                  *)
Extends(text, t) ==
    /\ text \in Texts /\ t \in Texts
    /\ Len(t) <= Len(text)
    /\ \A i \in 1 .. Len(t) : text[i] = t[i]

(* It goes on after the beginnings of that one, too.                       *)
LEMMA ExtendsFirst ==
    ASSUME NEW text, NEW x \in Texts, NEW y \in Texts, Extends(text, x \o y)
    PROVE  Extends(text, x)
<1>1. PICK k \in Nat, l \in Nat, n \in Nat : k = Len(x) /\ l = Len(y) /\ n = Len(text)
  BY DEF Extends, Texts
<1>2. /\ Len(x \o y) = k + l /\ \A i \in 1 .. k : (x \o y)[i] = x[i]
      /\ k + l <= n /\ \A i \in 1 .. k + l : text[i] = (x \o y)[i]
  BY <1>1, Joined DEF Extends
<1> QED
  BY <1>1, <1>2 DEF Extends

(* What it goes on with.                                                   *)
LEMMA ExtendsSecond ==
    ASSUME NEW text, NEW x \in Texts, NEW y \in Texts, Extends(text, x \o y)
    PROVE  SubSeq(text, Len(x) + 1, Len(x) + Len(y)) = y
<1>1. PICK k \in Nat, l \in Nat, n \in Nat : k = Len(x) /\ l = Len(y) /\ n = Len(text)
  BY DEF Extends, Texts
<1>2. k + l <= n /\ \A i \in 1 .. l : text[k + i] = y[i]
  <2>1. Len(x \o y) = k + l /\ \A i \in 1 .. l : (x \o y)[k + i] = y[i]
    BY <1>1, Joined
  <2>2. \A i \in 1 .. l : k + i \in 1 .. k + l
    OBVIOUS
  <2>3. k + l <= n /\ \A i \in 1 .. k + l : text[i] = (x \o y)[i]
    BY <1>1, <2>1 DEF Extends
  <2> QED
    BY <2>1, <2>2, <2>3, Zenon
<1>3. StandsAt(text, y, k + 1)
  <2>1. k + 1 \in 1 .. n - l + 1 /\ \A i \in 1 .. l : k + 1 + i - 1 = k + i
    BY <1>2
  <2> QED
    BY <1>1, <1>2, <2>1, Zenon DEF StandsAt
<1>4. k + 1 \in 1 .. Len(text) - Len(y) + 1
  BY <1>1, <1>2
<1>5. SubSeq(text, k + 1, k + 1 + Len(y) - 1) = y
  BY <1>3, <1>4, SubSeqIsAt, Zenon DEF Extends
<1>6. k + 1 + Len(y) - 1 = k + l
  BY <1>1
<1> QED
  BY <1>1, <1>5, <1>6

(* After some bytes and others without the mark comes the mark.            *)
LEMMA NextMark ==
    ASSUME NEW m, IsMark(m), NEW a \in Texts, NEW v, Unmarked(m, v),
           NEW text, Extends(text, a \o v \o m)
    PROVE  FindMark(text, m, Len(a) + 1) = Len(a) + Len(v) + 1
<1>1. v \in Texts /\ m \in Texts /\ text \in Texts
  BY DEF Unmarked, IsMark, Extends
<1>2. PICK k \in Nat, n \in Nat, l \in Nat, t \in Nat :
          k = Len(a) /\ n = Len(v) /\ l = Len(m) /\ t = Len(text)
  BY <1>1 DEF Texts
<1>3. /\ k + n + l <= t
      /\ \A i \in 1 .. n : text[k + i] = v[i]
      /\ \A i \in 1 .. l : text[k + n + i] = m[i]
  <2>1. /\ a \o v \in Texts /\ Len(a \o v) = k + n
        /\ \A i \in 1 .. n : (a \o v)[k + i] = v[i]
    BY <1>1, <1>2, Joined
  <2>2. /\ Len(a \o v \o m) = k + n + l
        /\ \A i \in 1 .. k + n : (a \o v \o m)[i] = (a \o v)[i]
        /\ \A i \in 1 .. l : (a \o v \o m)[k + n + i] = m[i]
    BY <1>1, <1>2, <2>1, Joined
  <2>3. k + n + l <= t /\ \A i \in 1 .. k + n + l : text[i] = (a \o v \o m)[i]
    BY <1>2, <2>2 DEF Extends
  <2>4. \A i \in 1 .. n : k + i \in 1 .. k + n /\ k + i \in 1 .. k + n + l
    OBVIOUS
  <2>5. \A i \in 1 .. l : k + n + i \in 1 .. k + n + l
    OBVIOUS
  <2> QED
    BY <2>1, <2>2, <2>3, <2>4, <2>5, Zenon
<1>4. StandsAt(text, m, k + n + 1)
  <2>1. k + n + 1 \in 1 .. t - l + 1
    BY <1>3
  <2>2. \A i \in 1 .. l : (k + n + 1) + i - 1 = k + n + i
    OBVIOUS
  <2> QED
    BY <1>2, <1>3, <2>1, <2>2, Zenon DEF StandsAt
<1>5. ASSUME NEW p \in k + 1 .. k + n + 1 - 1, StandsAt(text, m, p)
      PROVE  FALSE
  <2>1. \A i \in 1 .. l : text[p + i - 1] = m[i]
    BY <1>2, <1>5, Zenon DEF StandsAt
  <2>2. CASE p + l - 1 <= k + n
    <3>1. ASSUME NEW i \in 1 .. l
          PROVE  v[p - k + i - 1] = m[i]
      <4>1. p - k + i - 1 \in 1 .. n /\ k + (p - k + i - 1) = p + i - 1
        BY <2>2
      <4> QED
        BY <1>3, <2>1, <4>1, Zenon
    <3>2. p - k \in Nat /\ p - k \in 1 .. n - l + 1
      BY <2>2
    <3>3. StandsAt(v, m, p - k)
      BY <1>2, <3>1, <3>2, Zenon DEF StandsAt
    <3> QED
      BY <1>1, <3>2, <3>3, OccursAt, Zenon DEF Unmarked
  <2>3. CASE p + l - 1 > k + n
    <3>1. PICK i : i = k + n - p + 2
      OBVIOUS
    <3>2. i \in 2 .. l /\ i \in 1 .. l /\ p + i - 1 = k + n + 1 /\ 1 \in 1 .. l
      BY <2>3, <3>1
    <3>3. m[i] = m[1]
      BY <1>3, <2>1, <3>2, Zenon
    <3>4. m[1] = 60 /\ m[l] = 62 /\ \A j \in 2 .. l - 1 : m[j] \in 97 .. 122
      BY <1>2, Zenon DEF IsMark
    <3>5. i = l \/ i \in 2 .. l - 1
      BY <3>2
    <3> QED
      BY <3>3, <3>4, <3>5
  <2> QED
    BY <1>2, <2>2, <2>3
<1>6. PICK from \in Nat, q \in Nat :
          from = k + 1 /\ q = k + n + 1 /\ 1 <= from /\ from <= q
  OBVIOUS
<1>7. FindMark(text, m, k + 1) = k + n + 1
  <2>1. \A p \in from .. q - 1 : ~StandsAt(text, m, p)
    BY <1>5, <1>6
  <2>2. StandsAt(text, m, q)
    BY <1>4, <1>6
  <2>3. FindMark(text, m, from) = q
    BY <1>1, <1>6, <2>1, <2>2, FoundAt, Zenon
  <2> QED
    BY <1>6, <2>3
<1> QED
  BY <1>2, <1>7, Zenon

(* The first mark of all is found.                                         *)
LEMMA FirstMark ==
    ASSUME NEW m, IsMark(m), NEW x, Unmarked(m, x), NEW text, Extends(text, x \o m)
    PROVE  FindMark(text, m, 1) = Len(x) + 1
<1>1. PICK e \in Texts : e = << >>
  <2>1. << >> \in Texts
    BY DEF Texts
  <2> QED
    BY <2>1, Zenon
<1>2. x \in Texts /\ Len(x) \in Nat
  BY DEF Texts, Unmarked
<1>3. e \o x = x /\ Len(e) = 0
  BY <1>1, <1>2 DEF Texts
<1>4. Extends(text, e \o x \o m)
  BY <1>3, Zenon
<1>5. FindMark(text, m, Len(e) + 1) = Len(e) + Len(x) + 1
  BY <1>4, NextMark, Zenon
<1> QED
  BY <1>2, <1>3, <1>5

(* A text, and after it a field.                                           *)
WithField(x, m, v) == x \o m \o v \o m

(* What stands between the first two marks of a kind is found.             *)
LEMMA FieldFound ==
    ASSUME NEW m, IsMark(m), NEW x, Unmarked(m, x), NEW v, Unmarked(m, v),
           NEW text, Extends(text, WithField(x, m, v))
    PROVE  LET beg == FindMark(text, m, 1) + Len(m)
           IN  SubSeq(text, beg, FindMark(text, m, beg) - 1) = v
<1>1. x \in Texts /\ v \in Texts /\ m \in Texts /\ text \in Texts /\ << >> \in Texts
  BY DEF Unmarked, IsMark, Extends, Texts
<1>2. PICK k \in Nat, n \in Nat, l \in Nat, t \in Nat :
          k = Len(x) /\ n = Len(v) /\ l = Len(m) /\ t = Len(text)
  BY <1>1 DEF Texts
<1>3. PICK a \in Texts : a = x \o m /\ Len(a) = k + l
  BY <1>1, <1>2, Joined
<1>4. a \o v \in Texts
  BY <1>1, Joined
<1>5. Extends(text, a \o v \o m)
  BY <1>3, Zenon DEF WithField
<1>6. Extends(text, a \o v) /\ Extends(text, a)
  BY <1>1, <1>4, <1>5, ExtendsFirst, Zenon
<1>7. FindMark(text, m, 1) = k + 1
  <2>1. Extends(text, x \o m)
    BY <1>3, <1>6, Zenon
  <2> QED
    BY <1>2, <2>1, FirstMark
<1>8. FindMark(text, m, k + l + 1) = k + l + n + 1
  <2>1. FindMark(text, m, Len(a) + 1) = Len(a) + Len(v) + 1
    BY <1>5, NextMark, Zenon
  <2> QED
    BY <1>2, <1>3, <2>1
<1>9. SubSeq(text, k + l + 1, k + l + n) = v
  <2>1. SubSeq(text, Len(a) + 1, Len(a) + Len(v)) = v
    BY <1>1, <1>6, ExtendsSecond, Zenon
  <2> QED
    BY <1>2, <1>3, <2>1
<1>10. FindMark(text, m, 1) + Len(m) = k + l + 1 /\ k + l + n + 1 - 1 = k + l + n
  BY <1>2, <1>7
<1> QED
  BY <1>8, <1>9, <1>10

(* A field with another mark holds no mark of this kind.                   *)
LEMMA UnmarkedWithField ==
    ASSUME NEW m, IsMark(m), NEW k, IsMark(k), Unmarked(m, k),
           NEW x, Unmarked(m, x), NEW v, Unmarked(m, v)
    PROVE  Unmarked(m, WithField(x, k, v)) /\ Ends(WithField(x, k, v))
<1>1. Begins(k) /\ Ends(k) /\ k \in Texts
  BY DEF Begins, Ends, IsMark
<1>2. Unmarked(m, x \o k)
  BY <1>1, UnmarkedJoined
<1>3. Ends(x \o k)
  <2>1. PICK i \in Nat, j \in Nat : i = Len(x) /\ j = Len(k) /\ j > 0
    BY <1>1 DEF Unmarked, Texts, Ends
  <2>2. Len(x \o k) = i + j /\ (x \o k)[i + j] = k[j] /\ x \o k \in Texts
    BY <1>1, <2>1, Joined DEF Unmarked
  <2> QED
    BY <1>1, <2>1, <2>2 DEF Ends
<1>4. Unmarked(m, x \o k \o v)
  BY <1>2, <1>3, UnmarkedJoined
<1>5. Unmarked(m, x \o k \o v \o k)
  BY <1>1, <1>4, UnmarkedJoined
<1>6. Ends(x \o k \o v \o k)
  <2>1. PICK y \in Texts : y = x \o k \o v
    BY <1>4 DEF Unmarked
  <2>2. PICK i \in Nat, j \in Nat : i = Len(y) /\ j = Len(k) /\ j > 0
    BY <1>1, <2>1 DEF Texts, Ends
  <2>3. Len(y \o k) = i + j /\ (y \o k)[i + j] = k[j] /\ y \o k \in Texts
    BY <1>1, <2>1, <2>2, Joined
  <2> QED
    BY <1>1, <2>1, <2>2, <2>3 DEF Ends
<1> QED
  BY <1>5, <1>6 DEF WithField

(* Where there is no < there is no mark.                                   *)
LEMMA UnmarkedWithoutSign ==
    ASSUME NEW m, IsMark(m), NEW x \in Texts, \A i \in 1 .. Len(x) : x[i] # 60
    PROVE  Unmarked(m, x)
<1>1. PICK k \in Nat, l \in Nat : k = Len(x) /\ l = Len(m) /\ 2 <= l
  BY DEF IsMark, Texts
<1>2. ASSUME NEW p \in Nat, StandsAt(x, m, p)
      PROVE  FALSE
  <2>1. p \in 1 .. k - l + 1 /\ \A i \in 1 .. l : x[p + i - 1] = m[i]
    BY <1>1, <1>2 DEF StandsAt
  <2>2. p \in 1 .. k /\ 1 \in 1 .. l /\ p + 1 - 1 = p
    BY <1>1, <2>1
  <2>3. x[p] = m[1]
    BY <2>1, <2>2
  <2> QED
    BY <1>1, <2>2, <2>3 DEF IsMark
<1> QED
  BY <1>2, OccursAt DEF Unmarked, IsMark

(* No mark is in another one.                                              *)
LEMMA UnmarkedOtherMark ==
    ASSUME NEW m, IsMark(m), NEW k, IsMark(k), m # k
    PROVE  Unmarked(m, k)
<1>1. PICK i \in Nat, j \in Nat : i = Len(k) /\ j = Len(m) /\ 2 <= i /\ 2 <= j
  BY DEF IsMark, Texts
<1>2. m \in Texts /\ k \in Texts
  BY DEF IsMark
<1>3. ASSUME NEW p \in Nat, StandsAt(k, m, p)
      PROVE  m = k
  <2>1. p \in 1 .. i - j + 1 /\ \A n \in 1 .. j : k[p + n - 1] = m[n]
    BY <1>1, <1>3 DEF StandsAt
  <2>2. k[p] = 60 /\ k[p + j - 1] = 62
    <3>1. 1 \in 1 .. j /\ j \in 1 .. j /\ p + 1 - 1 = p
      BY <1>1
    <3>2. m[1] = 60 /\ m[j] = 62
      BY <1>1 DEF IsMark
    <3> QED
      BY <2>1, <3>1, <3>2
  <2>3. k[1] = 60 /\ k[i] = 62 /\ \A n \in 2 .. i - 1 : k[n] \in 97 .. 122
    BY <1>1 DEF IsMark
  <2>4. p = 1
    <3>1. p = 1 \/ p = i \/ p \in 2 .. i - 1
      BY <1>1, <2>1
    <3>2. p # i
      BY <2>2, <2>3
    <3>3. p \notin 2 .. i - 1
      <4>1. 60 \notin 97 .. 122
        OBVIOUS
      <4> QED
        BY <2>2, <2>3, <4>1, Zenon
    <3> QED
      BY <3>1, <3>2, <3>3
  <2>5. j = i
    <3>1. k[j] = 62
      BY <1>1, <2>2, <2>4
    <3>2. j = i \/ j \in 2 .. i - 1
      BY <1>1, <2>1, <2>4
    <3>3. 62 \notin 97 .. 122
      OBVIOUS
    <3> QED
      BY <2>3, <3>1, <3>2, <3>3, Zenon
  <2>6. \A n \in 1 .. j : k[n] = m[n]
    BY <2>1, <2>4
  <2>7. k \in Seq(0 .. 255) /\ m \in Seq(0 .. 255)
    BY <1>2 DEF Texts
  <2> QED
    BY <1>1, <2>5, <2>6, <2>7, SeqEqual
<1> QED
  BY <1>2, <1>3, OccursAt DEF Unmarked

(* A number is written with digits.                                        *)
LEMMA DigitsOfDecimal ==
    ASSUME NEW n \in Nat
    PROVE  Decimal(n) \in Seq(48 .. 57)
<1> DEFINE digit(k) == 48 + (k % 10)
           Body(f) == [k \in 0 .. n |->
                          (IF k < 10 THEN << >> ELSE f[k \div 10]) \o <<48 + (k % 10)>>]
<1>1. PICK T : T = Seq(48 .. 57)
  OBVIOUS
<1>2. \A k \in 0 .. n : digit(k) \in 48 .. 57 /\ k \div 10 \in 0 .. n
                          /\ (k >= 10 => k \div 10 < k)
  OBVIOUS
<1>3. /\ \A k \in 0 .. n : <<digit(k)>> \in T /\ << >> \o <<digit(k)>> = <<digit(k)>>
      /\ \A k \in 0 .. n, s \in T : s \o <<digit(k)>> \in T
  <2>1. \A d \in 48 .. 57 : <<d>> \in Seq(48 .. 57) /\ << >> \o <<d>> = <<d>>
    OBVIOUS
  <2>2. \A d \in 48 .. 57, s \in Seq(48 .. 57) : s \o <<d>> \in Seq(48 .. 57)
    OBVIOUS
  <2> HIDE DEF digit
  <2> QED
    BY <1>1, <1>2, <2>1, <2>2
<1>4. PICK first : first = [k \in 0 .. n |-> <<digit(k)>>]
  OBVIOUS
<1>5. PICK back : back = [k \in 0 .. n |-> IF k < 10 THEN k ELSE k \div 10]
  OBVIOUS
<1>6. PICK step : step = [k \in 0 .. n |-> [s \in T |-> s \o <<digit(k)>>]]
  OBVIOUS
<1>7. PICK f : Follows(f, n, T, first, back, step)
  <2>1. first \in [0 .. n -> T]
    <3> HIDE DEF digit
    <3> QED
      BY <1>3, <1>4
  <2>2. back \in [0 .. n -> 0 .. n]
    BY <1>2, <1>5
  <2>3. step \in [0 .. n -> [T -> T]]
    <3> HIDE DEF digit
    <3> QED
      BY <1>3, <1>6
  <2>4. Recursive(n, T, first, back, step)
    BY <2>1, <2>2, <2>3, Zenon DEF Recursive
  <2> QED
    BY <2>4, Recursion, Zenon
<1>8. ASSUME NEW k \in 0 .. n
      PROVE  f[k] = (IF k < 10 THEN << >> ELSE f[k \div 10]) \o <<digit(k)>>
  <2> HIDE DEF digit
  <2>1. f[k] = IF back[k] < k THEN step[k][f[back[k]]] ELSE first[k]
    BY <1>7, Zenon DEF Follows
  <2>2. CASE k < 10
    <3>1. ~(back[k] < k)
      BY <1>5, <2>2
    <3>2. f[k] = first[k]
      BY <2>1, <3>1, Zenon
    <3> QED
      BY <1>3, <1>4, <2>2, <3>2
  <2>3. CASE ~(k < 10)
    <3>1. back[k] = k \div 10 /\ back[k] < k /\ back[k] \in 0 .. n
      BY <1>2, <1>5, <2>3
    <3>2. f[k] = step[k][f[back[k]]]
      BY <2>1, <3>1, Zenon
    <3>3. f[back[k]] \in T
      BY <1>7, <3>1 DEF Follows
    <3>4. step[k][f[back[k]]] = f[back[k]] \o <<digit(k)>>
      BY <1>6, <3>3
    <3> QED
      BY <2>3, <3>1, <3>2, <3>4
  <2> QED
    BY <2>2, <2>3
<1>9. f = Body(f)
  <2>1. f \in [0 .. n -> T]
    BY <1>7 DEF Follows
  <2>2. ASSUME NEW k \in 0 .. n
        PROVE  f[k] = Body(f)[k]
    BY <1>8, <2>2, Zenon
  <2>3. DOMAIN Body(f) = 0 .. n
    BY Zenon
  <2> QED
    BY <2>1, <2>2, <2>3
<1>10. PICK digits : digits = CHOOSE g : g = Body(g)
  BY Zenon
<1>11. digits = Body(digits)
  BY <1>9, <1>10, Zenon
<1>12. Decimal(n) = digits[n]
  BY <1>10, Zenon DEF Decimal
<1> DEFINE good == {k \in 0 .. n : digits[k] \in T}
<1>13. ASSUME NEW k \in 0 .. n, \A j \in 0 .. k - 1 : j \in good
       PROVE  k \in good
  <2>1. digits[k] = (IF k < 10 THEN << >> ELSE digits[k \div 10]) \o <<digit(k)>>
    <3>1. Body(digits)[k] = (IF k < 10 THEN << >> ELSE digits[k \div 10]) \o <<digit(k)>>
      BY Zenon
    <3> HIDE DEF Body, digit
    <3> QED
      BY <1>11, <3>1
  <2>2. CASE k < 10
    <3>1. digits[k] = << >> \o <<digit(k)>>
      BY <2>1, <2>2, Zenon
    <3> HIDE DEF Body, digit
    <3> QED
      BY <1>3, <3>1
  <2>3. CASE ~(k < 10)
    <3>1. digits[k] = digits[k \div 10] \o <<digit(k)>>
      BY <2>1, <2>3, Zenon
    <3>2. k \div 10 \in 0 .. k - 1
      BY <1>2, <2>3
    <3>3. digits[k \div 10] \in T
      BY <1>13, <3>2
    <3>4. digits[k] \in T
      <4> HIDE DEF Body, digit
      <4> QED
        BY <1>3, <3>1, <3>3
    <3> QED
      BY <3>4
  <2> QED
    BY <2>2, <2>3
<1>14. n \in good
  <2> HIDE DEF good
  <2>1. \A k \in 0 .. n : k \in good
    BY <1>13, Induction
  <2> QED
    BY <2>1
<1> QED
  BY <1>1, <1>12, <1>14

(* So there is no mark in it.                                              *)
LEMMA UnmarkedDecimal ==
    ASSUME NEW m, IsMark(m), NEW n \in Nat
    PROVE  Unmarked(m, Decimal(n))
<1>1. PICK s \in Seq(48 .. 57) : s = Decimal(n)
  BY DigitsOfDecimal
<1>2. s \in Texts /\ \A i \in 1 .. Len(s) : s[i] # 60
  <2>1. \A i \in 1 .. Len(s) : s[i] \in 48 .. 57
    OBVIOUS
  <2>2. s \in Seq(0 .. 255)
    OBVIOUS
  <2> QED
    BY <2>1, <2>2 DEF Texts
<1> QED
  BY <1>1, <1>2, UnmarkedWithoutSign
-----------------------------------------------------------------------------
(* The text of a page                                                      *)

(* What begins a line of it, after the line feed of the line before.       *)
Tab == <<LF, 9>>

(* There is no mark in that, and none can begin before it and end in it.   *)
LEMMA TabIsUnmarked ==
    /\ Tab \in Texts /\ Begins(Tab)
    /\ \A m : IsMark(m) => Unmarked(m, Tab)
<1>1. Tab \in Texts /\ Len(Tab) = 2 /\ Tab[1] = 10 /\ Tab[2] = 9
  BY DEF Tab, LF, Texts
<1>2. \A i \in 1 .. Len(Tab) : Tab[i] # 60
  BY <1>1
<1>3. Begins(Tab)
  BY <1>1 DEF Begins
<1> QED
  BY <1>1, <1>2, <1>3, UnmarkedWithoutSign

(* A field after a text is a text, with a tab after it or without.         *)
LEMMA FieldIsText ==
    ASSUME NEW x \in Texts, NEW k \in Texts, NEW v \in Texts
    PROVE  /\ WithField(x, k, v) \in Texts /\ WithField(x, k, v) \o Tab \in Texts
           /\ \A text : Extends(text, WithField(x, k, v)) => Extends(text, x)
           /\ \A text : Extends(text, WithField(x, k, v) \o Tab) =>
                           Extends(text, WithField(x, k, v))
<1>1. x \o k \in Texts
  BY Joined
<1>2. x \o k \o v \in Texts
  BY <1>1, Joined
<1>3. x \o k \o v \o k \in Texts
  BY <1>2, Joined
<1>4. x \o k \o v \o k \o Tab \in Texts
  BY <1>3, TabIsUnmarked, Joined
<1>5. ASSUME NEW text, Extends(text, x \o k \o v \o k)
      PROVE  Extends(text, x)
  <2>1. Extends(text, x \o k \o v)
    BY <1>2, <1>5, ExtendsFirst, Zenon
  <2>2. Extends(text, x \o k)
    BY <1>1, <2>1, ExtendsFirst, Zenon
  <2> QED
    BY <2>2, ExtendsFirst, Zenon
<1>6. ASSUME NEW text, Extends(text, x \o k \o v \o k \o Tab)
      PROVE  Extends(text, x \o k \o v \o k)
  BY <1>3, <1>6, TabIsUnmarked, ExtendsFirst, Zenon
<1> QED
  BY <1>3, <1>4, <1>5, <1>6, Zenon DEF WithField

(* After a field of another kind there is still no mark of a kind.         *)
LEMMA UnmarkedAfterField ==
    ASSUME NEW m, IsMark(m), NEW k, IsMark(k), m # k,
           NEW x, Unmarked(m, x), NEW v, Unmarked(m, v)
    PROVE  Unmarked(m, WithField(x, k, v) \o Tab)
<1>1. Unmarked(m, k)
  BY UnmarkedOtherMark
<1>2. Unmarked(m, WithField(x, k, v)) /\ Ends(WithField(x, k, v))
  BY <1>1, UnmarkedWithField
<1> QED
  BY <1>2, TabIsUnmarked, UnmarkedJoined

(* The fields of the text of a page, as getDoct() writes them.             *)
DocidLine(d) == WithField(Marks.doc \o Tab, Marks.docid, Decimal(d - 1)) \o Tab
UrlLine(page, d) == WithField(DocidLine(d), Marks.url, page.url) \o Tab
TitleLine(page, d) == WithField(UrlLine(page, d), Marks.title, page.title) \o Tab
ContentLine(page, d) == WithField(TitleLine(page, d), Marks.content, page.content)

(* The text of a page goes on after each of its fields.                    *)
LEMMA DoctIsText ==
    ASSUME NEW page \in Pages, NEW d \in Nat \ {0}
    PROVE  /\ Doct(page, d) \in Texts
           /\ Extends(Doct(page, d), WithField(DocidLine(d), Marks.url, page.url))
           /\ Extends(Doct(page, d), WithField(UrlLine(page, d), Marks.title, page.title))
           /\ Extends(Doct(page, d), ContentLine(page, d))
<1>1. page.url \in Texts /\ page.title \in Texts /\ page.content \in Texts
  BY DEF Pages
<1>2. /\ Marks.doc \in Texts /\ Marks.docid \in Texts /\ Marks.url \in Texts
      /\ Marks.title \in Texts /\ Marks.content \in Texts
  BY MarksAreMarks DEF IsMark
<1>3. Decimal(d - 1) \in Texts
  <2>1. d - 1 \in Nat
    OBVIOUS
  <2>2. Unmarked(Marks.doc, Decimal(d - 1))
    BY <2>1, MarksAreMarks, UnmarkedDecimal
  <2> QED
    BY <2>2 DEF Unmarked
<1>4. DocidLine(d) \in Texts
  <2>1. Marks.doc \o Tab \in Texts
    BY <1>2, TabIsUnmarked, Joined
  <2> QED
    BY <1>2, <1>3, <2>1, FieldIsText, Zenon DEF DocidLine
<1>5. UrlLine(page, d) \in Texts /\ WithField(DocidLine(d), Marks.url, page.url) \in Texts
  BY <1>1, <1>2, <1>4, FieldIsText, Zenon DEF UrlLine
<1>6. TitleLine(page, d) \in Texts /\ WithField(UrlLine(page, d), Marks.title, page.title) \in Texts
  BY <1>1, <1>2, <1>5, FieldIsText, Zenon DEF TitleLine
<1>7. ContentLine(page, d) \in Texts
  BY <1>1, <1>2, <1>6, FieldIsText, Zenon DEF ContentLine
<1>8. PICK text : text = ContentLine(page, d) \o <<LF>> \o Marks.doc \o <<LF>>
  OBVIOUS
<1>9. Doct(page, d) = text
  BY <1>8 DEF Doct, ContentLine, TitleLine, UrlLine, DocidLine, WithField, Tab
<1>10. text \in Texts /\ Extends(text, ContentLine(page, d))
  <2>1. <<LF>> \in Texts
    BY DEF LF, Texts
  <2>2. PICK a \in Texts : a = ContentLine(page, d) \o <<LF>>
    BY <1>7, <2>1, Joined
  <2>3. PICK b \in Texts : b = a \o Marks.doc
    BY <1>2, <2>2, Joined
  <2>4. text = b \o <<LF>> /\ text \in Texts
    BY <1>8, <2>1, <2>2, <2>3, Joined
  <2>5. Extends(text, b \o <<LF>>)
    BY <2>4 DEF Extends, Texts
  <2>6. Extends(text, a \o Marks.doc)
    BY <2>1, <2>3, <2>5, ExtendsFirst, Zenon
  <2>7. Extends(text, ContentLine(page, d) \o <<LF>>)
    BY <1>2, <2>2, <2>6, ExtendsFirst, Zenon
  <2> QED
    BY <1>7, <2>1, <2>4, <2>7, ExtendsFirst, Zenon
<1>11. Extends(text, TitleLine(page, d))
  BY <1>1, <1>2, <1>6, <1>10, FieldIsText, Zenon DEF ContentLine
<1>12. Extends(text, WithField(UrlLine(page, d), Marks.title, page.title))
  BY <1>1, <1>2, <1>5, <1>11, FieldIsText, Zenon DEF TitleLine
<1>13. Extends(text, UrlLine(page, d))
  BY <1>1, <1>2, <1>5, <1>12, FieldIsText, Zenon
<1>14. Extends(text, WithField(DocidLine(d), Marks.url, page.url))
  BY <1>1, <1>2, <1>4, <1>13, FieldIsText, Zenon DEF UrlLine
<1> QED
  BY <1>9, <1>10, <1>12, <1>14

(* loadLibrary finds the fields of a page that has no mark in them.        *)
LEMMA FieldsFound ==
    ASSUME NEW page \in Pages, NEW d \in Nat \ {0},
           ~HasMark(page.url \o page.title \o page.content)
    PROVE  /\ FieldOf(Doct(page, d), "url") = page.url
           /\ FieldOf(Doct(page, d), "title") = page.title
           /\ FieldOf(Doct(page, d), "content") = page.content
<1>1. PICK u \in Texts, t \in Texts, c \in Texts :
          u = page.url /\ t = page.title /\ c = page.content
  BY DEF Pages
<1>2. PICK n \in Nat : n = d - 1
  OBVIOUS
<1>3. /\ IsMark(Marks.doc) /\ IsMark(Marks.docid)
      /\ IsMark(Marks.url) /\ IsMark(Marks.title) /\ IsMark(Marks.content)
  BY MarksAreMarks
<1>4. /\ Marks.url # Marks.doc /\ Marks.url # Marks.docid
      /\ Marks.title # Marks.doc /\ Marks.title # Marks.docid /\ Marks.title # Marks.url
      /\ Marks.content # Marks.doc /\ Marks.content # Marks.docid
      /\ Marks.content # Marks.url /\ Marks.content # Marks.title
  BY DEF Marks
<1>5. ASSUME NEW m \in {Marks.url, Marks.title, Marks.content}
      PROVE  Unmarked(m, u) /\ Unmarked(m, t) /\ Unmarked(m, c)
  <2>1. m \in Texts
    BY <1>3 DEF IsMark
  <2>2. ~Occurs(m, u \o t \o c)
    BY <1>1 DEF HasMark
  <2>3. PICK ut \in Texts : ut = u \o t
    BY Joined
  <2>4. ~Occurs(m, ut) /\ ~Occurs(m, c)
    BY <2>1, <2>2, <2>3, OccursInLonger
  <2>5. ~Occurs(m, u) /\ ~Occurs(m, t)
    BY <2>1, <2>3, <2>4, OccursInLonger
  <2> QED
    BY <2>4, <2>5 DEF Unmarked
<1>6. ASSUME NEW m \in {Marks.url, Marks.title, Marks.content}
      PROVE  Unmarked(m, DocidLine(d))
  <2>1. IsMark(m) /\ m # Marks.doc /\ m # Marks.docid
    BY <1>3, <1>4
  <2>2. Unmarked(m, Marks.doc)
    BY <1>3, <2>1, UnmarkedOtherMark, Zenon
  <2>3. Unmarked(m, Marks.doc \o Tab)
    BY <2>1, <2>2, TabIsUnmarked, UnmarkedJoined, Zenon
  <2>4. Unmarked(m, Decimal(n))
    BY <2>1, UnmarkedDecimal, Zenon
  <2>5. Unmarked(m, WithField(Marks.doc \o Tab, Marks.docid, Decimal(n)) \o Tab)
    BY <1>3, <2>1, <2>3, <2>4, UnmarkedAfterField, Zenon
  <2> QED
    BY <1>2, <2>5 DEF DocidLine
<1>7. Unmarked(Marks.title, UrlLine(page, d)) /\ Unmarked(Marks.content, UrlLine(page, d))
  <2>1. Unmarked(Marks.title, WithField(DocidLine(d), Marks.url, u) \o Tab)
    BY <1>3, <1>4, <1>5, <1>6, UnmarkedAfterField
  <2>2. Unmarked(Marks.content, WithField(DocidLine(d), Marks.url, u) \o Tab)
    BY <1>3, <1>4, <1>5, <1>6, UnmarkedAfterField
  <2> QED
    BY <1>1, <2>1, <2>2 DEF UrlLine
<1>8. Unmarked(Marks.content, TitleLine(page, d))
  <2>1. Unmarked(Marks.content, WithField(UrlLine(page, d), Marks.title, t) \o Tab)
    BY <1>3, <1>4, <1>5, <1>7, UnmarkedAfterField
  <2> QED
    BY <1>1, <2>1 DEF TitleLine
<1>9. PICK text : text = Doct(page, d)
  OBVIOUS
<1>10. /\ Extends(text, WithField(DocidLine(d), Marks.url, u))
       /\ Extends(text, WithField(UrlLine(page, d), Marks.title, t))
       /\ Extends(text, WithField(TitleLine(page, d), Marks.content, c))
  BY <1>1, <1>9, DoctIsText DEF ContentLine
<1>11. FieldOf(text, "url") = u
  BY <1>3, <1>5, <1>6, <1>10, FieldFound DEF FieldOf
<1>12. FieldOf(text, "title") = t
  BY <1>3, <1>5, <1>7, <1>10, FieldFound DEF FieldOf
<1>13. FieldOf(text, "content") = c
  BY <1>3, <1>5, <1>8, <1>10, FieldFound DEF FieldOf
<1> QED
  BY <1>1, <1>9, <1>11, <1>12, <1>13
-----------------------------------------------------------------------------
(* The files of pages                                                      *)

(* A text goes on after another one whatever is put after it.              *)
LEMMA ExtendsMore ==
    ASSUME NEW text, NEW x, Extends(text, x), NEW y \in Texts
    PROVE  Extends(text \o y, x)
<1>1. text \in Texts /\ x \in Texts
  BY DEF Extends
<1>2. PICK k \in Nat, l \in Nat, n \in Nat : k = Len(x) /\ l = Len(y) /\ n = Len(text)
  BY <1>1 DEF Texts
<1>3. /\ text \o y \in Texts /\ Len(text \o y) = n + l
      /\ \A i \in 1 .. n : (text \o y)[i] = text[i]
  BY <1>1, <1>2, Joined
<1>4. k <= n /\ \A i \in 1 .. k : text[i] = x[i]
  BY <1>2 DEF Extends
<1>5. \A i \in 1 .. k : i \in 1 .. n
  BY <1>4
<1>6. \A i \in 1 .. k : (text \o y)[i] = x[i]
  BY <1>3, <1>4, <1>5, Zenon
<1> QED
  BY <1>1, <1>2, <1>3, <1>4, <1>6 DEF Extends

(* written[n] are the texts of the first n pages, one after the other.     *)
Written(given, written) ==
    /\ written \in [0 .. Len(given) -> Texts]
    /\ written[0] = << >>
    /\ \A n \in 1 .. Len(given) : written[n] = written[n - 1] \o Doct(given[n], n)

(* The file of pages is written so, and that of the offsets tells where a  *)
(* page begins and how long its text is.                                   *)
LEMMA FilesAreWritten ==
    ASSUME NEW given \in Seq(Pages)
    PROVE  \E written :
              /\ Written(given, written)
              /\ FilesOf(given) =
                    [pages |-> written[Len(given)],
                     offsets |-> [d \in DOMAIN given |->
                        <<Len(written[d - 1]), Len(Doct(given[d], d))>>]]
<1> DEFINE Body(f) == [d \in 0 .. Len(given) |->
                          IF d = 0 THEN << >> ELSE f[d - 1] \o Doct(given[d], d)]
<1>1. PICK N \in Nat : N = Len(given)
  OBVIOUS
<1>2. \A n \in 1 .. N : given[n] \in Pages /\ n \in Nat \ {0}
  BY <1>1
<1>3. \A n \in 1 .. N : Doct(given[n], n) \in Texts
  BY <1>2, DoctIsText
<1>4. PICK step : step = [n \in 1 .. N |-> [t \in Texts |-> t \o Doct(given[n], n)]]
  OBVIOUS
<1>5. << >> \in Texts
  BY DEF Texts
<1>6. PICK f : Steps(f, N, Texts, << >>, step)
  <2>1. \A n \in 1 .. N, t \in Texts : t \o Doct(given[n], n) \in Texts
    BY <1>3, Joined
  <2>2. step \in [1 .. N -> [Texts -> Texts]]
    BY <1>4, <2>1
  <2> QED
    BY <1>5, <2>2, Iteration
<1>7. ASSUME NEW n \in 0 .. N
      PROVE  f[n] = IF n = 0 THEN << >> ELSE f[n - 1] \o Doct(given[n], n)
  <2>1. CASE n = 0
    BY <1>6, <2>1 DEF Steps
  <2>2. CASE n # 0
    <3>1. n \in 1 .. N /\ n - 1 \in 0 .. N
      BY <2>2
    <3>2. f[n] = step[n][f[n - 1]] /\ f[n - 1] \in Texts
      BY <1>6, <3>1 DEF Steps
    <3> QED
      BY <1>4, <2>2, <3>1, <3>2
  <2> QED
    BY <2>1, <2>2
<1>8. f = Body(f)
  <2>1. ASSUME NEW n \in 0 .. N
        PROVE  f[n] = Body(f)[n]
    BY <1>1, <1>7, <2>1, Zenon
  <2>2. f \in [0 .. N -> Texts]
    BY <1>6 DEF Steps
  <2>3. DOMAIN Body(f) = 0 .. N
    BY <1>1, Zenon
  <2> QED
    BY <1>1, <2>1, <2>2, <2>3
<1> DEFINE chosen == CHOOSE g : g = Body(g)
           files(w) == [pages |-> w[Len(given)],
                        offsets |-> [d \in DOMAIN given |->
                           <<Len(w[d - 1]), Len(Doct(given[d], d))>>]]
<1>9. PICK written : written = chosen
  BY Zenon
<1>10. written = Body(written)
  BY <1>8, <1>9, Zenon
<1>11. FilesOf(given) = files(written)
  <2>1. FilesOf(given) = files(chosen)
    BY Zenon DEF FilesOf
  <2> HIDE DEF chosen
  <2> QED
    BY <1>9, <2>1
<1>12. written[0] = << >> /\ \A n \in 1 .. N : written[n] = written[n - 1] \o Doct(given[n], n)
  <2>1. ASSUME NEW n \in 0 .. N
        PROVE  written[n] = IF n = 0 THEN << >> ELSE written[n - 1] \o Doct(given[n], n)
    <3>1. Body(written)[n] = IF n = 0 THEN << >> ELSE written[n - 1] \o Doct(given[n], n)
      BY <1>1, Zenon
    <3> HIDE DEF Body
    <3> QED
      BY <1>10, <3>1
  <2>2. 0 \in 0 .. N /\ \A n \in 1 .. N : n \in 0 .. N /\ n # 0
    OBVIOUS
  <2> QED
    BY <2>1, <2>2, Zenon
<1>13. \A n \in 0 .. N : written[n] \in Texts
  <2> DEFINE good == {n \in 0 .. N : written[n] \in Texts}
  <2> HIDE DEF Body
  <2>1. 0 \in good
    BY <1>5, <1>12
  <2>2. ASSUME NEW n \in 1 .. N, n - 1 \in good
        PROVE  n \in good
    <3>1. written[n] = written[n - 1] \o Doct(given[n], n)
      BY <1>12, Zenon
    <3>2. written[n - 1] \in Texts /\ Doct(given[n], n) \in Texts
      BY <1>3, <2>2
    <3>3. written[n] \in Texts
      BY <3>1, <3>2, Joined
    <3> QED
      BY <3>3
  <2>3. \A n \in 0 .. N : n \in good
    <3> HIDE DEF good
    <3> QED
      BY <2>1, <2>2, StepByStep
  <2> QED
    BY <2>3
<1>14. Written(given, written)
  <2>1. DOMAIN written = 0 .. N /\ written = [n \in 0 .. N |-> written[n]]
    BY <1>1, <1>10
  <2>2. written \in [0 .. N -> Texts]
    BY <1>13, <2>1
  <2>3. \A n \in 1 .. Len(given) : written[n] = written[n - 1] \o Doct(given[n], n)
    BY <1>1, <1>12, Zenon
  <2> QED
    BY <1>1, <1>12, <2>2, <2>3, Zenon DEF Written
<1> QED
  BY <1>11, <1>14, Zenon

(* At the offset of a page stands its text.                                *)
LEMMA PageIsReadBack ==
    ASSUME NEW given \in Seq(Pages), NEW d \in DOMAIN given
    PROVE  LET files == FilesOf(given)
           IN  SubSeq(files.pages, files.offsets[d][1] + 1,
                      files.offsets[d][1] + files.offsets[d][2]) = Doct(given[d], d)
<1>1. PICK N \in Nat : N = Len(given) /\ d \in 1 .. N
  OBVIOUS
<1>2. PICK written :
          /\ Written(given, written)
          /\ FilesOf(given) =
                [pages |-> written[Len(given)],
                 offsets |-> [e \in DOMAIN given |->
                    <<Len(written[e - 1]), Len(Doct(given[e], e))>>]]
  BY FilesAreWritten
<1>3. /\ FilesOf(given).pages = written[N]
      /\ FilesOf(given).offsets[d] = <<Len(written[d - 1]), Len(Doct(given[d], d))>>
  BY <1>1, <1>2
<1>4. \A n \in 1 .. N : given[n] \in Pages /\ n \in Nat \ {0}
  BY <1>1
<1>5. \A n \in 1 .. N : Doct(given[n], n) \in Texts
  BY <1>4, DoctIsText
<1>6. \A n \in 0 .. N : written[n] \in Texts
  BY <1>1, <1>2 DEF Written
<1>7. \A n \in 1 .. N : written[n] = written[n - 1] \o Doct(given[n], n)
  BY <1>1, <1>2 DEF Written
<1> DEFINE good == {n \in 0 .. N : n >= d => Extends(written[n], written[d])}
<1>8. Extends(written[d], written[d])
  <2>1. written[d] \in Texts
    BY <1>1, <1>6
  <2> QED
    BY <2>1 DEF Extends, Texts
<1>9. 0 \in good
  BY <1>1
<1>10. ASSUME NEW n \in 1 .. N, n - 1 \in good
       PROVE  n \in good
  <2>1. SUFFICES ASSUME n >= d
                 PROVE  Extends(written[n], written[d])
    OBVIOUS
  <2>2. CASE n = d
    BY <1>8, <2>2
  <2>3. CASE n # d
    <3>1. n - 1 >= d
      BY <1>1, <2>1, <2>3
    <3>2. Extends(written[n - 1], written[d])
      BY <1>10, <3>1
    <3> QED
      BY <1>5, <1>7, <3>2, ExtendsMore
  <2> QED
    BY <2>2, <2>3
<1>11. N \in good
  <2> HIDE DEF good
  <2>1. \A n \in 0 .. N : n \in good
    BY <1>9, <1>10, StepByStep
  <2> QED
    BY <2>1
<1>12. PICK text \in Texts, x \in Texts, y \in Texts :
          text = written[N] /\ x = written[d - 1] /\ y = Doct(given[d], d)
  <2>1. d - 1 \in 0 .. N /\ N \in 0 .. N
    BY <1>1
  <2> QED
    BY <1>1, <1>5, <1>6, <2>1, Zenon
<1>13. Extends(text, x \o y)
  <2>1. Extends(written[N], written[d])
    BY <1>1, <1>11
  <2>2. written[d] = written[d - 1] \o Doct(given[d], d)
    BY <1>1, <1>7, Zenon
  <2> HIDE DEF good
  <2> QED
    BY <1>12, <2>1, <2>2, Zenon
<1>14. SubSeq(text, Len(x) + 1, Len(x) + Len(y)) = y
  BY <1>13, ExtendsSecond
<1>15. FilesOf(given).offsets[d][1] = Len(x) /\ FilesOf(given).offsets[d][2] = Len(y)
  BY <1>3, <1>12
<1> QED
  BY <1>3, <1>12, <1>14, <1>15
-----------------------------------------------------------------------------
(* What is quoted of a page                                                *)

(* Blocks of some bytes, as many as there are whole ones.                  *)
LEMMA BlocksFit ==
    ASSUME NEW r \in Nat, NEW n \in 1 .. (r \div BlockSize)
    PROVE  \E c \in Nat : /\ c = (n - 1) * BlockSize /\ n * BlockSize = c + BlockSize
                          /\ c + BlockSize <= r
<1>1. PICK b \in Nat \ {0} : b = BlockSize
  BY BlockAssumption
<1>2. PICK s : s = r \div b
  OBVIOUS
<1>3. s \in Nat /\ s * b <= r
  BY <1>1, <1>2
<1>4. n \in Nat /\ 1 <= n /\ n <= s
  BY <1>1, <1>2, <1>3
<1>5. n * b <= s * b
  BY <1>3, <1>4
<1>6. (n - 1) * b = n * b - b /\ (n - 1) * b \in Nat /\ n * b \in Nat
  BY <1>4
<1> QED
  BY <1>1, <1>3, <1>5, <1>6

(* A part of a text occurs in it.                                          *)
LEMMA PartOccurs ==
    ASSUME NEW text \in Texts, NEW a \in Nat, NEW b \in Nat,
           1 <= a, b <= Len(text), a <= b + 1
    PROVE  /\ SubSeq(text, a, b) \in Texts /\ Len(SubSeq(text, a, b)) = b - a + 1
           /\ Occurs(SubSeq(text, a, b), text)
<1>1. PICK part \in Texts : part = SubSeq(text, a, b) /\ Len(part) = b - a + 1
  BY PartOfText
<1>2. PICK l \in Nat : l = Len(text)
  BY DEF Texts
<1>3. a + Len(part) - 1 = b /\ a \in 1 .. l - Len(part) + 1
  BY <1>1, <1>2
<1>4. SubSeq(text, a, a + Len(part) - 1) = part
  BY <1>1, <1>3
<1>5. Occurs(part, text)
  BY <1>2, <1>3, <1>4, Zenon DEF Occurs
<1> QED
  BY <1>1, <1>5

(* What occurs in what occurs in a text occurs in the text.                *)
LEMMA OccursThrough ==
    ASSUME NEW x \in Texts, NEW y \in Texts, NEW z \in Texts, Occurs(x, y), Occurs(y, z)
    PROVE  Occurs(x, z)
<1>1. PICK k \in Nat, l \in Nat, n \in Nat : k = Len(x) /\ l = Len(y) /\ n = Len(z)
  BY DEF Texts
<1>2. PICK p \in 1 .. l - k + 1 : \A i \in 1 .. k : y[p + i - 1] = x[i]
  BY <1>1, OccursAt DEF StandsAt
<1>3. PICK q \in 1 .. n - l + 1 : \A i \in 1 .. l : z[q + i - 1] = y[i]
  BY <1>1, OccursAt DEF StandsAt
<1>4. PICK r \in Nat : r = q + p - 1
  OBVIOUS
<1>5. r \in 1 .. n - k + 1
  BY <1>4
<1>6. \A i \in 1 .. k : p + i - 1 \in 1 .. l /\ q + (p + i - 1) - 1 = r + i - 1
  BY <1>4
<1>7. \A i \in 1 .. k : z[r + i - 1] = x[i]
  BY <1>2, <1>3, <1>6
<1>8. StandsAt(z, x, r)
  BY <1>1, <1>5, <1>7, Zenon DEF StandsAt
<1> QED
  BY <1>8, OccursAt

(* summary() quotes what the content has.                                  *)
LEMMA SummaryQuotes ==
    ASSUME NEW content \in Texts, NEW q
    PROVE  \A i \in DOMAIN Summary(content, q) : Occurs(Summary(content, q)[i], content)
<1> DEFINE first == Min({p \in 1 .. Len(content) + 1 :
                            p > Len(content) \/ content[p] = LF})
           rest == SubSeq(content, first + 1, Len(content))
           block(n) == SubSeq(rest, (n - 1) * BlockSize + 1, n * BlockSize)
           has(text) == \E w \in q : Occurs(w, text)
           next(before, n) == IF has(block(n)) THEN Append(before, block(n)) ELSE before
           Body(f) == [n \in 0 .. Len(rest) \div BlockSize |->
                          IF n = 0 THEN << >>
                          ELSE IF has(block(n)) THEN Append(f[n - 1], block(n)) ELSE f[n - 1]]
           chosen == CHOOSE f : f = Body(f)
<1>1. Summary(content, q) = chosen[Len(rest) \div BlockSize]
  BY Zenon DEF Summary
<1>2. PICK l \in Nat : l = Len(content)
  BY DEF Texts
<1>3. PICK f \in 1 .. l + 1 : f = first
  <2>1. PICK places : places = {p \in 1 .. Len(content) + 1 :
                                   p > Len(content) \/ content[p] = LF}
    OBVIOUS
  <2>2. places \in SUBSET Nat /\ l + 1 \in places /\ places \in SUBSET (1 .. l + 1)
    BY <1>2, <2>1
  <2>3. Min(places) \in places
    BY <2>2, LeastNat
  <2> QED
    BY <2>1, <2>2, <2>3
<1>4. PICK left \in Texts : left = rest /\ Occurs(left, content)
  <2>1. rest = SubSeq(content, f + 1, l)
    <3> HIDE DEF first
    <3> QED
      BY <1>2, <1>3
  <2>2. \E a, b \in Nat : /\ 1 <= a /\ b <= Len(content) /\ a <= b + 1
                          /\ rest = SubSeq(content, a, b)
    <3>1. CASE f <= l
      <4>1. f + 1 \in Nat /\ 1 <= f + 1 /\ l <= Len(content) /\ f + 1 <= l + 1
        BY <1>2, <3>1
      <4> HIDE DEF rest
      <4> QED
        BY <2>1, <4>1, Zenon
    <3>2. CASE f = l + 1
      <4>1. f + 1 \in Int /\ l \in Int /\ l < f + 1 /\ 1 \in Int /\ 0 \in Int /\ 0 < 1
        BY <3>2
      <4>2. SubSeq(content, f + 1, l) = << >> /\ SubSeq(content, 1, 0) = << >>
        BY <4>1, SubSeqEmpty, Zenon
      <4>3. 1 \in Nat /\ 0 \in Nat /\ 1 <= 1 /\ 0 <= Len(content) /\ 1 <= 0 + 1
        BY <1>2
      <4>4. rest = SubSeq(content, 1, 0)
        BY <2>1, <4>2, Zenon
      <4> HIDE DEF rest
      <4> QED
        BY <4>3, <4>4, Zenon
    <3>3. f <= l \/ f = l + 1
      OBVIOUS
    <3> QED
      BY <3>1, <3>2, <3>3, Zenon
  <2>3. rest \in Texts /\ Occurs(rest, content)
    <3> HIDE DEF rest
    <3> QED
      BY <2>2, PartOccurs
  <2> QED
    BY <2>3, Zenon
<1>5. PICK r \in Nat, N \in Nat :
          r = Len(left) /\ N = r \div BlockSize /\ N = Len(rest) \div BlockSize
  <2>1. Len(left) \in Nat
    BY DEF Texts
  <2>2. Len(left) \div BlockSize \in Nat
    BY <2>1, BlockAssumption
  <2> HIDE DEF rest
  <2> QED
    BY <1>4, <2>1, <2>2
<1>6. PICK Quoted : Quoted = {t \in Texts : Occurs(t, content)}
  OBVIOUS
<1>7. \A n \in 1 .. N : block(n) \in Quoted
  <2> TAKE n \in 1 .. N
  <2>1. PICK c \in Nat : /\ c = (n - 1) * BlockSize /\ n * BlockSize = c + BlockSize
                         /\ c + BlockSize <= r
    <3>1. n \in 1 .. (r \div BlockSize)
      BY <1>5
    <3> QED
      BY <3>1, BlocksFit
  <2>2. PICK a \in Nat, b \in Nat : a = c + 1 /\ b = c + BlockSize
    BY BlockAssumption
  <2>3. block(n) = SubSeq(left, a, b)
    <3> HIDE DEF rest
    <3> QED
      BY <1>4, <2>1, <2>2
  <2>4. 1 <= a /\ b <= Len(left) /\ a <= b + 1
    BY <1>5, <2>1, <2>2, BlockAssumption
  <2> HIDE DEF block
  <2>5. block(n) \in Texts /\ Occurs(block(n), left)
    BY <2>3, <2>4, PartOccurs
  <2>6. Occurs(block(n), content)
    BY <1>4, <2>5, OccursThrough
  <2> QED
    BY <1>6, <2>5, <2>6
<1>8. PICK T : T = Seq(Quoted)
  OBVIOUS
<1>9. << >> \in T /\ \A n \in 1 .. N, s \in T : next(s, n) \in T
  <2>1. << >> \in T
    BY <1>8
  <2>2. ASSUME NEW n \in 1 .. N, NEW s \in T
        PROVE  next(s, n) \in T
    <3>1. Append(s, block(n)) \in T
      <4> HIDE DEF block
      <4> QED
        BY <1>7, <1>8
    <3> QED
      BY <3>1, Zenon
  <2> QED
    BY <2>1, <2>2
<1>10. PICK step : step = [n \in 1 .. N |-> [s \in T |-> next(s, n)]]
  OBVIOUS
<1>11. PICK g : Steps(g, N, T, << >>, step)
  <2> HIDE DEF next
  <2>1. step \in [1 .. N -> [T -> T]]
    BY <1>9, <1>10
  <2> QED
    BY <1>9, <2>1, Iteration
<1>12. ASSUME NEW n \in 0 .. N
       PROVE  g[n] = IF n = 0 THEN << >> ELSE next(g[n - 1], n)
  <2> HIDE DEF next
  <2>1. CASE n = 0
    BY <1>11, <2>1 DEF Steps
  <2>2. CASE n # 0
    <3>1. n \in 1 .. N /\ n - 1 \in 0 .. N
      BY <2>2
    <3>2. g[n] = step[n][g[n - 1]] /\ g[n - 1] \in T
      BY <1>11, <3>1 DEF Steps
    <3> QED
      BY <1>10, <2>2, <3>1, <3>2
  <2> QED
    BY <2>1, <2>2
<1> HIDE DEF first, rest
<1>13. g = Body(g)
  <2>1. ASSUME NEW n \in 0 .. N
        PROVE  g[n] = Body(g)[n]
    <3>1. Body(g)[n] = IF n = 0 THEN << >> ELSE next(g[n - 1], n)
      BY <1>5, Zenon
    <3> HIDE DEF Body, next
    <3> QED
      BY <1>12, <3>1
  <2>2. g \in [0 .. N -> T]
    BY <1>11 DEF Steps
  <2>3. DOMAIN Body(g) = 0 .. N /\ Body(g) = [n \in DOMAIN Body(g) |-> Body(g)[n]]
    BY <1>5, Zenon
  <2> HIDE DEF Body
  <2> QED
    BY <2>1, <2>2, <2>3
<1>14. PICK taken : taken = chosen
  BY Zenon
<1>15. taken = Body(taken)
  BY <1>13, <1>14, Zenon
<1>16. taken[0] = << >> /\ \A n \in 1 .. N : taken[n] = next(taken[n - 1], n)
  <2>1. ASSUME NEW n \in 0 .. N
        PROVE  taken[n] = IF n = 0 THEN << >> ELSE next(taken[n - 1], n)
    <3>1. Body(taken)[n] = IF n = 0 THEN << >> ELSE next(taken[n - 1], n)
      BY <1>5, Zenon
    <3> HIDE DEF Body, next
    <3> QED
      BY <1>15, <3>1
  <2>2. 0 \in 0 .. N /\ \A n \in 1 .. N : n \in 0 .. N /\ n # 0
    OBVIOUS
  <2> HIDE DEF next
  <2> QED
    BY <2>1, <2>2, Zenon
<1>17. taken[N] \in T
  <2> DEFINE good == {n \in 0 .. N : taken[n] \in T}
  <2> HIDE DEF next
  <2>1. 0 \in good
    BY <1>9, <1>16
  <2>2. ASSUME NEW n \in 1 .. N, n - 1 \in good
        PROVE  n \in good
    <3>1. taken[n] = next(taken[n - 1], n) /\ taken[n - 1] \in T
      BY <1>16, <2>2
    <3>2. taken[n] \in T
      BY <1>9, <3>1
    <3> QED
      BY <3>2
  <2>3. \A n \in 0 .. N : n \in good
    <3> HIDE DEF good
    <3> QED
      BY <2>1, <2>2, StepByStep
  <2> QED
    BY <2>3
<1>18. PICK s \in Seq(Quoted) : s = Summary(content, q)
  <2> HIDE DEF chosen
  <2>1. Summary(content, q) = taken[N]
    BY <1>1, <1>5, <1>14
  <2> QED
    BY <1>8, <1>17, <2>1
<1>19. \A i \in DOMAIN s : s[i] \in Quoted
  OBVIOUS
<1> QED
  BY <1>6, <1>18, <1>19
-----------------------------------------------------------------------------
(* Answering                                                               *)

(* The pages that are ranked, as many of them as an answer has.            *)
Listed(docs, n, D) ==
    /\ docs \in [1 .. n -> D] /\ Len(docs) = n
    /\ \A i, j \in 1 .. n : i # j => docs[i] # docs[j]
    /\ n = MaxAnswers \/ \A d \in D : \E i \in 1 .. n : docs[i] = d

(* The pages that doQuery() returns are such.                              *)
LEMMA RankedAreListed ==
    ASSUME NEW D, IsFiniteSet(D), NEW docs \in Ranked(D)
    PROVE  \E n \in Nat : Listed(docs, n, D)
<1>1. PICK k \in Nat : k = Cardinality(D)
  BY FS_CardinalityType
<1>2. PICK s \in SetToSeqs(D) : docs = SubSeq(s, 1, Min({Len(s), MaxAnswers}))
  BY DEF Ranked
<1>3. s \in [1 .. k -> D] /\ \A i, j \in 1 .. k : i # j => s[i] # s[j]
  BY <1>1, <1>2 DEF SetToSeqs
<1>4. s \in Seq(D) /\ Len(s) = k
  BY <1>3
<1>5. \A d \in D : \E i \in 1 .. k : s[i] = d
  <2>1. s \in Injection(1 .. k, D)
    BY <1>3 DEF Injection, IsInjective
  <2>2. Cardinality(1 .. k) = k
    BY <1>1, CountTo
  <2>3. s \in Surjection(1 .. k, D)
    BY <1>1, <2>1, <2>2, FS_Injection
  <2> QED
    BY <2>3 DEF Surjection
<1>6. PICK n \in Nat : n = Min({Len(s), MaxAnswers}) /\ n <= k /\ (n = MaxAnswers \/ n = k)
  <2>1. PICK both \in SUBSET Nat : both = {k, MaxAnswers}
    BY AnswersAssumption
  <2>2. both # {}
    BY <2>1
  <2>3. Min(both) \in both /\ \A i \in both : Min(both) <= i
    BY <2>2, LeastNat, Zenon
  <2>4. Min(both) \in Nat /\ Min(both) <= k /\ (Min(both) = MaxAnswers \/ Min(both) = k)
    BY <2>1, <2>3
  <2>5. both = {Len(s), MaxAnswers}
    BY <1>4, <2>1
  <2> QED
    BY <2>4, <2>5
<1>7. /\ docs \in Seq(D) /\ Len(docs) = n
      /\ \A i \in 1 .. n : docs[i] = s[i]
  <2>1. n <= Len(s)
    BY <1>4, <1>6
  <2>2. /\ SubSeq(s, 1, n) \in Seq(D) /\ Len(SubSeq(s, 1, n)) = n
        /\ \A i \in 1 .. n : SubSeq(s, 1, n)[i] = s[i]
    BY <1>4, <2>1, FirstOfSeq
  <2>3. docs = SubSeq(s, 1, n)
    BY <1>2, <1>6
  <2> QED
    BY <2>2, <2>3
<1>8. docs \in [1 .. n -> D]
  BY <1>7
<1>9. \A i \in 1 .. n : i \in 1 .. k
  BY <1>6
<1>10. \A i, j \in 1 .. n : i # j => docs[i] # docs[j]
  BY <1>3, <1>7, <1>9
<1>11. n = MaxAnswers \/ \A d \in D : \E i \in 1 .. n : docs[i] = d
  <2>1. CASE n = k
    BY <1>5, <1>7, <2>1
  <2> QED
    BY <1>6, <2>1
<1> QED
  BY <1>7, <1>8, <1>10, <1>11, Zenon DEF Listed

(* What loadLibrary makes of the files of some pages.                      *)
Loaded(webpages, lib, words) ==
    /\ DOMAIN lib = DOMAIN webpages
    /\ \A d \in DOMAIN webpages :
          ~HasMark(webpages[d].url \o webpages[d].title \o webpages[d].content) =>
              /\ lib[d].url = webpages[d].url /\ lib[d].title = webpages[d].title
              /\ lib[d].content = webpages[d].content
    /\ \A w \in DOMAIN words : words[w] = Readable(webpages, w)
    /\ \A w \in WordsOf(webpages) \ DOMAIN words : Readable(webpages, w) = {}

(* A list of entries, as createJson makes it.                              *)
Entries(list, n, docs, lib, q) ==
    /\ DOMAIN list = 1 .. n /\ Len(list) = n
    /\ \A i \in 1 .. n :
          /\ list[i].doc = docs[i]
          /\ list[i].title = lib[docs[i]].title /\ list[i].url = lib[docs[i]].url
          /\ list[i].summary = Summary(lib[docs[i]].content, q)

(* AnswersAreExact, of some pages and an answer.                           *)
About(webpages, entry, q) ==
    LET page == webpages[entry.doc]
    IN  /\ q \subseteq page.words
        /\ ~HasMark(page.url \o page.title \o page.content) =>
              /\ entry.title = page.title /\ entry.url = page.url
              /\ \A i \in DOMAIN entry.summary : Occurs(entry.summary[i], page.content)

Exact(webpages, q, list) ==
    LET docs == {list[i].doc : i \in DOMAIN list}
    IN  /\ Cardinality(docs) = Len(list)
        /\ \A i \in DOMAIN list : About(webpages, list[i], q)
        /\ \A d \in DOMAIN webpages :
              q \subseteq webpages[d].words =>
                  \/ d \in docs
                  \/ Len(list) = MaxAnswers
                  \/ \E w \in q : \E e \in PagesWith(webpages, w) :
                        e <= d /\ NotANumber(webpages, e)

(* The entries of the pages in whose lists all words of a query are: the   *)
(* lists have no others, and lack those that are not read back.            *)
LEMMA EntriesAreExact ==
    ASSUME NEW webpages \in Seq(Pages), NEW lib, NEW words, Loaded(webpages, lib, words),
           NEW q, NEW D \in SUBSET DOMAIN webpages,
           \A d \in DOMAIN webpages :
              d \in D <=> q \subseteq DOMAIN words /\ \A w \in q : d \in words[w],
           NEW n \in Nat, NEW docs, Listed(docs, n, D),
           NEW list, Entries(list, n, docs, lib, q)
    PROVE  Exact(webpages, q, list)
<1>1. /\ docs \in [1 .. n -> D]
      /\ \A i, j \in 1 .. n : i # j => docs[i] # docs[j]
      /\ n = MaxAnswers \/ \A d \in D : \E i \in 1 .. n : docs[i] = d
  BY DEF Listed
<1>2. DOMAIN list = 1 .. n /\ Len(list) = n /\ \A i \in 1 .. n : list[i].doc = docs[i]
  BY DEF Entries
<1>3. PICK T : T = {list[i].doc : i \in DOMAIN list}
  OBVIOUS
<1>4. T = {docs[i] : i \in 1 .. n}
  BY <1>2, <1>3
<1>5. Cardinality(T) = n
  <2>1. docs \in Surjection(1 .. n, T)
    BY <1>1, <1>4 DEF Surjection
  <2>2. docs \in Injection(1 .. n, T)
    BY <1>1, <1>4 DEF Injection, IsInjective
  <2>3. IsFiniteSet(1 .. n) /\ Cardinality(1 .. n) = n
    BY CountTo
  <2> QED
    BY <2>1, <2>2, <2>3, FS_Surjection
<1>6. ASSUME NEW d \in D
      PROVE  d \in DOMAIN webpages /\ q \subseteq webpages[d].words
  <2>1. d \in DOMAIN webpages
    OBVIOUS
  <2>2. ASSUME NEW w \in q
        PROVE  w \in webpages[d].words
    <3>1. w \in DOMAIN words /\ d \in words[w]
      BY <1>6, <2>1, <2>2
    <3>2. d \in Readable(webpages, w)
      BY <3>1 DEF Loaded
    <3> QED
      BY <3>2 DEF Readable, PagesWith
  <2> QED
    BY <2>1, <2>2
<1>7. ASSUME NEW i \in 1 .. n
      PROVE  About(webpages, list[i], q)
  <2>1. PICK d \in D : d = docs[i]
    BY <1>1
  <2>2. /\ list[i].doc = d /\ list[i].title = lib[d].title /\ list[i].url = lib[d].url
        /\ list[i].summary = Summary(lib[d].content, q)
    BY <2>1 DEF Entries
  <2>3. d \in DOMAIN webpages /\ q \subseteq webpages[d].words
    BY <1>6
  <2>4. webpages[d] \in Pages
    BY <2>3
  <2>5. PICK c \in Texts : c = webpages[d].content
    BY <2>4 DEF Pages
  <2>6. ASSUME ~HasMark(webpages[d].url \o webpages[d].title \o webpages[d].content)
        PROVE  /\ list[i].title = webpages[d].title /\ list[i].url = webpages[d].url
               /\ \A k \in DOMAIN list[i].summary :
                     Occurs(list[i].summary[k], webpages[d].content)
    <3>1. /\ lib[d].url = webpages[d].url /\ lib[d].title = webpages[d].title
          /\ lib[d].content = webpages[d].content
      BY <2>3, <2>6, Zenon DEF Loaded
    <3>2. list[i].summary = Summary(c, q)
      BY <2>2, <2>5, <3>1
    <3>3. \A k \in DOMAIN Summary(c, q) : Occurs(Summary(c, q)[k], c)
      BY SummaryQuotes
    <3> QED
      BY <2>2, <2>5, <3>1, <3>2, <3>3
  <2>7. webpages[list[i].doc] = webpages[d]
    BY <2>2
  <2> QED
    BY <2>3, <2>6, <2>7 DEF About
<1>8. ASSUME NEW d \in DOMAIN webpages, q \subseteq webpages[d].words,
             d \notin T, n # MaxAnswers
      PROVE  \E w \in q : \E e \in PagesWith(webpages, w) : e <= d /\ NotANumber(webpages, e)
  <2>1. d \notin D
    BY <1>1, <1>4, <1>8
  <2>2. PICK w \in q : w \notin DOMAIN words \/ d \notin words[w]
    BY <1>8, <2>1
  <2>3. d \in PagesWith(webpages, w) /\ w \in WordsOf(webpages)
    BY <1>8, <2>2 DEF PagesWith, WordsOf, ToSet
  <2>4. d \notin Readable(webpages, w)
    BY <2>2, <2>3 DEF Loaded
  <2> QED
    BY <2>3, <2>4 DEF Readable
<1> QED
  BY <1>2, <1>3, <1>5, <1>7, <1>8, Zenon DEF Exact

(* The files that are stored of some pages.                                *)
DiskOf(webpages) ==
    [pages |-> FilesOf(webpages).pages, offsets |-> FilesOf(webpages).offsets,
     lines |-> [w \in WordsOf(webpages) |-> LineOf(IndexOf(webpages)[w])]]

(* What the two programs have made of the pages when they stop at a phase. *)
Serving == {"loadLibrary", "crashed"}
Searchable(given) ==
    /\ CutFrom(given)
    /\ phase = "buildInvertIndexTable" => index = IndexOf(pageLib)
    /\ phase = "storeOnDisk" => disk = DiskOf(pageLib)
    /\ phase \in Serving => Loaded(pageLib, library, table)
    /\ phase \notin Serving => query = {}
    /\ query # {} => Exact(pageLib, query, answer)

(* The library that is loaded is the one that was stored.                  *)
LEMMA StoredIsLoaded ==
    ASSUME pageLib \in Seq(Pages), disk = DiskOf(pageLib), LoadLibrary
    PROVE  Loaded(pageLib, library, table)'
<1>1. PICK webpages \in Seq(Pages) : webpages = pageLib
  OBVIOUS
<1>2. PICK files : files = FilesOf(webpages)
  OBVIOUS
<1>3. /\ disk.pages = files.pages /\ disk.offsets = files.offsets
      /\ disk.lines = [w \in WordsOf(webpages) |-> LineOf(IndexOf(webpages)[w])]
  BY <1>1, <1>2 DEF DiskOf
<1>4. DOMAIN files.offsets = DOMAIN webpages
  BY <1>2 DEF FilesOf
<1>5. PICK lib, words :
          /\ lib = library' /\ words = table'
          /\ lib = [d \in DOMAIN disk.offsets |-> ReadPage(disk.offsets[d])]
          /\ words = [w \in {v \in DOMAIN disk.lines : ReadLine(disk.lines[v]) # {}} |->
                         ReadLine(disk.lines[w])]
  BY DEF LoadLibrary
<1>6. ASSUME NEW d \in DOMAIN webpages,
             ~HasMark(webpages[d].url \o webpages[d].title \o webpages[d].content)
      PROVE  /\ lib[d].url = webpages[d].url /\ lib[d].title = webpages[d].title
             /\ lib[d].content = webpages[d].content
  <2>1. PICK text : text = SubSeq(disk.pages, disk.offsets[d][1] + 1,
                                  disk.offsets[d][1] + disk.offsets[d][2])
    OBVIOUS
  <2>2. text = Doct(webpages[d], d)
    BY <1>2, <1>3, <2>1, PageIsReadBack
  <2>3. lib[d] = ReadPage(disk.offsets[d])
    BY <1>3, <1>4, <1>5
  <2>4. /\ lib[d].title = FieldOf(text, "title") /\ lib[d].url = FieldOf(text, "url")
        /\ lib[d].content = FieldOf(text, "content")
    BY <2>1, <2>3 DEF ReadPage
  <2>5. webpages[d] \in Pages /\ d \in Nat \ {0}
    OBVIOUS
  <2> QED
    BY <1>6, <2>2, <2>4, <2>5, FieldsFound
<1>7. \A w \in WordsOf(webpages) : ReadLine(disk.lines[w]) = Readable(webpages, w)
  BY <1>3, LineIsReadBack
<1>8. /\ \A w \in DOMAIN words : words[w] = Readable(webpages, w)
      /\ \A w \in WordsOf(webpages) \ DOMAIN words : Readable(webpages, w) = {}
  <2>1. DOMAIN disk.lines = WordsOf(webpages)
    BY <1>3
  <2> QED
    BY <1>5, <1>7, <2>1
<1>9. DOMAIN lib = DOMAIN webpages
  BY <1>3, <1>4, <1>5
<1>10. Loaded(webpages, lib, words)
  BY <1>6, <1>8, <1>9 DEF Loaded
<1>11. pageLib' = webpages
  BY <1>1 DEF LoadLibrary, offline
<1> QED
  BY <1>5, <1>10, <1>11

(* A query is answered from what is loaded.                                *)
LEMMA QueryIsAnswered ==
    ASSUME pageLib \in Seq(Pages), Loaded(pageLib, library, table), NEW q, DoQuery(q)
    PROVE  Exact(pageLib, query, answer)'
<1>1. PICK webpages, lib, words, list :
          /\ webpages \in Seq(Pages)
          /\ webpages = pageLib /\ lib = library /\ words = table /\ list = answer'
  OBVIOUS
<1>2. Loaded(webpages, lib, words)
  BY <1>1
<1>3. PICK D : D = {d \in DOMAIN webpages : q \subseteq DOMAIN words /\ \A w \in q : d \in words[w]}
  OBVIOUS
<1>4. D \in SUBSET DOMAIN webpages /\ IsFiniteSet(D)
  <2>1. PICK N \in Nat : N = Len(webpages) /\ DOMAIN webpages = 1 .. N
    BY <1>1
  <2>2. D \in SUBSET (1 .. N)
    BY <1>3, <2>1
  <2>3. IsFiniteSet(1 .. N)
    BY CountTo
  <2> QED
    BY <2>1, <2>2, <2>3, FS_Subset
<1>5. PICK docs : /\ docs \in (IF q \subseteq DOMAIN words THEN Ranked(D) ELSE {<< >>})
                  /\ list = IF docs = << >> THEN << >> ELSE CreateJson(docs, q)
  <2>1. q \subseteq DOMAIN words => GetDocs(q) = D
    BY <1>1, <1>2, <1>3 DEF GetDocs, Loaded
  <2>2. PICK docs \in IF q \subseteq DOMAIN table THEN Ranked(GetDocs(q)) ELSE {<< >>} :
            answer' = IF docs = << >> THEN ReturnNoAnswer ELSE CreateJson(docs, q)
    BY DEF DoQuery
  <2>3. list = IF docs = << >> THEN << >> ELSE CreateJson(docs, q)
    BY <1>1, <2>2 DEF ReturnNoAnswer
  <2>4. docs \in IF q \subseteq DOMAIN words THEN Ranked(D) ELSE {<< >>}
    BY <1>1, <2>1, <2>2
  <2> QED
    BY <2>3, <2>4
<1>6. PICK n \in Nat : Listed(docs, n, D)
  <2>1. CASE q \subseteq DOMAIN words
    <3>1. docs \in Ranked(D)
      BY <1>5, <2>1
    <3> QED
      BY <1>4, <3>1, RankedAreListed
  <2>2. CASE ~(q \subseteq DOMAIN words)
    <3>1. docs = << >> /\ D = {}
      BY <1>3, <1>5, <2>2
    <3>2. Listed(docs, 0, D)
      BY <3>1 DEF Listed
    <3> QED
      BY <3>2
  <2> QED
    BY <2>1, <2>2
<1>7. Entries(list, n, docs, lib, q)
  <2>1. docs \in [1 .. n -> D] /\ Len(docs) = n /\ DOMAIN docs = 1 .. n
    BY <1>6 DEF Listed
  <2>2. CASE docs = << >>
    <3>1. n = 0 /\ list = << >>
      BY <1>5, <2>1, <2>2
    <3> QED
      BY <3>1 DEF Entries
  <2>3. CASE docs # << >>
    <3>1. list = [i \in 1 .. n |->
                     [doc |-> docs[i], title |-> lib[docs[i]].title,
                      url |-> lib[docs[i]].url,
                      summary |-> Summary(lib[docs[i]].content, q)]]
      BY <1>1, <1>5, <2>1, <2>3 DEF CreateJson
    <3>2. DOMAIN list = 1 .. n /\ Len(list) = n
      BY <3>1
    <3>3. ASSUME NEW i \in 1 .. n
          PROVE  /\ list[i].doc = docs[i]
                 /\ list[i].title = lib[docs[i]].title /\ list[i].url = lib[docs[i]].url
                 /\ list[i].summary = Summary(lib[docs[i]].content, q)
      BY <3>1
    <3> QED
      BY <3>2, <3>3 DEF Entries
  <2> QED
    BY <2>2, <2>3
<1>8. Exact(webpages, q, list)
  <2>1. \A d \in DOMAIN webpages :
           d \in D <=> q \subseteq DOMAIN words /\ \A w \in q : d \in words[w]
    BY <1>3
  <2> QED
    BY <1>1, <1>2, <1>4, <1>6, <1>7, <2>1, EntriesAreExact, Zenon
<1>9. pageLib' = webpages /\ query' = q /\ answer' = list
  BY <1>1 DEF DoQuery, offline
<1> QED
  BY <1>8, <1>9

(* Every step of the two programs leaves it so.                            *)
LEMMA SearchableStep ==
    ASSUME NEW CONSTANT given, Extracted(given), NEW CONSTANT asked,
           Searchable(given), IndexNext(asked) \/ UNCHANGED indexVars
    PROVE  Searchable(given)'
<1> USE DEF Serving
<1>1. CutFrom(given) /\ CutFrom(given)'
  BY CutStep DEF Searchable
<1>2. phase # "buildWeblib" => pageLib \in Seq(Pages)
  BY <1>1 DEF CutFrom, Reduced
<1>3. CASE CutRedundantPages
  BY <1>1, <1>3 DEF CutRedundantPages, Searchable, loaded
<1>4. CASE BuildInvertIndexTable
  <2>1. index' = IndexOf(pageLib')
    BY <1>4 DEF BuildInvertIndexTable
  <2> QED
    BY <1>1, <1>4, <2>1 DEF BuildInvertIndexTable, Searchable, loaded
<1>5. CASE StoreOnDisk
  <2>1. index = IndexOf(pageLib)
    BY <1>5 DEF StoreOnDisk, Searchable
  <2>2. DOMAIN index = WordsOf(pageLib)
    BY <2>1 DEF IndexOf
  <2>3. disk' = DiskOf(pageLib)
    BY <1>5, <2>1, <2>2 DEF StoreOnDisk, DiskOf
  <2>4. pageLib' = pageLib
    BY <1>5 DEF StoreOnDisk
  <2>5. disk' = DiskOf(pageLib')
    BY <2>3, <2>4
  <2> QED
    BY <1>1, <1>5, <2>5 DEF StoreOnDisk, Searchable, loaded
<1>6. CASE LoadLibrary
  <2>1. phase = "storeOnDisk" /\ query = {}
    BY <1>6 DEF LoadLibrary, Searchable
  <2>2. Loaded(pageLib, library, table)'
    BY <1>2, <1>6, <2>1, StoredIsLoaded DEF Searchable
  <2> QED
    BY <1>1, <1>6, <2>1, <2>2 DEF LoadLibrary, Searchable
<1>7. ASSUME NEW q \in asked, DoQuery(q)
      PROVE  Searchable(given)'
  <2>1. phase = "loadLibrary" /\ phase' = phase
        /\ UNCHANGED <<pageLib, library, table>>
    BY <1>7 DEF DoQuery, offline, loaded
  <2>2. Loaded(pageLib, library, table) /\ Loaded(pageLib, library, table)'
    BY <2>1 DEF Searchable
  <2>3. Exact(pageLib, query, answer)'
    BY <1>2, <1>7, <2>1, <2>2, QueryIsAnswered
  <2> QED
    BY <1>1, <2>1, <2>2, <2>3 DEF Searchable
<1>8. CASE \/ DoQueryWithoutWords
           \/ UNCHANGED indexVars
  <2>1. /\ UNCHANGED <<pageLib, index, disk, library, table, query, answer>>
        /\ phase' = phase \/ (phase = "loadLibrary" /\ phase' = "crashed")
    BY <1>8 DEF DoQueryWithoutWords, indexVars, offline, loaded
  <2> QED
    BY <1>1, <2>1 DEF Searchable
<1> QED
  BY <1>3, <1>4, <1>5, <1>6, <1>7, <1>8 DEF IndexNext, IndexStep

(* Whatever pages the library has, and whatever is asked of the server     *)
(* that loads it, an answer has pages that have all the words, none twice, *)
(* with the title and the address that they had and with quotations that   *)
(* are in them, and lacks none of those that can be read back: storeOnDisk *)
(* and loadLibrary, doQuery, getDocs, createJson and summary.              *)
THEOREM AnswersFitTheLibrary ==
    ASSUME NEW CONSTANT given, Extracted(given), NEW CONSTANT asked
    PROVE  IndexSpec(given, asked) => []AnswersAreExact
<1>1. phase = "buildWeblib" /\ IndexInit(given) => Searchable(given)
  BY DEF IndexInit, Searchable, CutFrom, Serving
<1>2. Searchable(given) /\ [IndexNext(asked)]_indexVars => Searchable(given)'
  BY SearchableStep
<1>3. Searchable(given) => AnswersAreExact
  BY DEF Searchable, AnswersAreExact, Exact, About, IsAbout
<1> QED
  BY <1>1, <1>2, <1>3, PTL DEF IndexSpec
-----------------------------------------------------------------------------
(* Recursion from the end to the beginning, sums and joins                 *)

(* Induction from the end to the beginning, for the set of the good ones.  *)
LEMMA FromTheEnd ==
    ASSUME NEW N \in Nat, NEW good,
           \A i \in 1 .. N : (\A j \in i + 1 .. N : j \in good) => i \in good
    PROVE  \A i \in 1 .. N : i \in good
<1>1. CASE N = 0
  BY <1>1
<1>2. CASE N # 0
  <2>1. PICK L \in Nat : L = N - 1
    BY <1>2
  <2>2. PICK mirrored : mirrored = {n \in 0 .. L : N - n \in good}
    OBVIOUS
  <2>3. ASSUME NEW n \in 0 .. L, \A k \in 0 .. n - 1 : k \in mirrored
        PROVE  n \in mirrored
    <3>1. PICK i \in 1 .. N : i = N - n
      BY <2>1
    <3>2. ASSUME NEW j \in i + 1 .. N
          PROVE  j \in good
      <4>1. N - j \in 0 .. n - 1
        BY <2>1, <3>1
      <4>2. N - j \in mirrored
        BY <2>3, <4>1
      <4>3. N - (N - j) \in good
        BY <2>2, <4>2
      <4>4. N - (N - j) = j
        OBVIOUS
      <4> QED
        BY <4>3, <4>4
    <3>3. i \in good
      BY <3>2
    <3> QED
      BY <2>2, <3>1, <3>3
  <2>4. \A n \in 0 .. L : n \in mirrored
    BY <2>3, Induction
  <2>5. ASSUME NEW i \in 1 .. N
        PROVE  i \in good
    <3>1. N - i \in mirrored
      <4>1. N - i \in 0 .. L
        BY <2>1
      <4> QED
        BY <2>4, <4>1
    <3>2. N - (N - i) \in good /\ N - (N - i) = i
      BY <2>2, <3>1
    <3> QED
      BY <3>2
  <2> QED
    BY <2>5
<1> QED
  BY <1>1, <1>2

(* A function whose value at a place is found from the one at a later      *)
(* place, or is given.                                                     *)
Onward(f, N, T, first, next, step) ==
    /\ f \in [1 .. N -> T]
    /\ \A i \in 1 .. N :
          f[i] = IF next[i] > i THEN step[i][f[next[i]]] ELSE first[i]

(* There is one.                                                           *)
LEMMA OnwardRecursion ==
    ASSUME NEW N \in Nat, N # 0, NEW T, NEW first \in [1 .. N -> T],
           NEW next \in [1 .. N -> 1 .. N], NEW step \in [1 .. N -> [T -> T]]
    PROVE  \E f : Onward(f, N, T, first, next, step)
<1>1. PICK L \in Nat : L = N - 1
  OBVIOUS
<1>2. PICK start : start = [n \in 0 .. L |-> first[N - n]]
  OBVIOUS
<1>3. PICK back : back = [n \in 0 .. L |-> N - next[N - n]]
  OBVIOUS
<1>4. PICK turn : turn = [n \in 0 .. L |-> step[N - n]]
  OBVIOUS
<1>5. \A n \in 0 .. L : N - n \in 1 .. N
  BY <1>1
<1>6. start \in [0 .. L -> T] /\ turn \in [0 .. L -> [T -> T]]
  BY <1>2, <1>4, <1>5
<1>7. back \in [0 .. L -> 0 .. L]
  <2>1. ASSUME NEW n \in 0 .. L
        PROVE  N - next[N - n] \in 0 .. L
    <3>1. next[N - n] \in 1 .. N
      BY <1>5
    <3> QED
      BY <1>1, <3>1
  <2> QED
    BY <1>3, <2>1
<1>8. Recursive(L, T, start, back, turn)
  BY <1>6, <1>7, Zenon DEF Recursive
<1>9. PICK g : Follows(g, L, T, start, back, turn)
  BY <1>8, Recursion, Zenon
<1>10. PICK f : f = [i \in 1 .. N |-> g[N - i]]
  OBVIOUS
<1>11. \A i \in 1 .. N : N - i \in 0 .. L
  BY <1>1
<1>12. f \in [1 .. N -> T]
  <2>1. g \in [0 .. L -> T]
    BY <1>9 DEF Follows
  <2> QED
    BY <1>10, <1>11, <2>1
<1>13. ASSUME NEW i \in 1 .. N
       PROVE  f[i] = IF next[i] > i THEN step[i][f[next[i]]] ELSE first[i]
  <2>1. PICK n \in 0 .. L : n = N - i
    BY <1>11
  <2>2. N - n = i
    BY <2>1
  <2>3. back[n] = N - next[i] /\ turn[n] = step[i] /\ start[n] = first[i]
    BY <1>2, <1>3, <1>4, <2>2
  <2>4. g[n] = IF back[n] < n THEN turn[n][g[back[n]]] ELSE start[n]
    BY <1>9, Zenon DEF Follows
  <2>5. next[i] \in 1 .. N
    OBVIOUS
  <2>6. f[i] = g[n] /\ f[next[i]] = g[back[n]]
    BY <1>10, <2>1, <2>3, <2>5
  <2>7. back[n] < n <=> next[i] > i
    BY <2>1, <2>3, <2>5
  <2> QED
    BY <2>3, <2>4, <2>6, <2>7
<1> QED
  BY <1>12, <1>13, Zenon DEF Onward

(* A list of weights has a first one that none exceeds.                    *)
LEMMA HeaviestIsFound ==
    ASSUME NEW T, NEW list \in Seq(T), list # << >>, \A t \in T : t.weight \in Int
    PROVE  \E n \in 1 .. Len(list) :
              /\ FirstHeaviest(list) = list[n]
              /\ \A k \in 1 .. Len(list) : /\ list[k].weight <= list[n].weight
                                           /\ k < n => list[k].weight < list[n].weight
<1> DEFINE first(n, m) ==
        \A k \in 1 .. m : /\ list[k].weight <= list[n].weight
                          /\ k < n => list[k].weight < list[n].weight
           good == {m \in 0 .. Len(list) : m = 0 \/ \E n \in 1 .. m : first(n, m)}
<1>1. PICK N \in Nat : N = Len(list) /\ N # 0
  OBVIOUS
<1>2. \A n \in 1 .. N : list[n].weight \in Int
  BY <1>1
<1>3. ASSUME NEW m \in 1 .. N, m - 1 \in good
      PROVE  m \in good
  <2>1. CASE m = 1
    <3>1. first(1, 1)
      BY <1>1, <1>2
    <3>2. m \in 0 .. Len(list) /\ 1 \in 1 .. m
      BY <1>1, <2>1
    <3> QED
      BY <2>1, <3>1, <3>2, Zenon
  <2>2. CASE m # 1
    <3>1. m - 1 # 0 /\ m \in 0 .. Len(list)
      BY <1>1, <2>2
    <3>2. PICK n \in 1 .. m - 1 : first(n, m - 1)
      BY <1>3, <3>1, Zenon
    <3>3. n \in 1 .. N /\ n \in 1 .. m
      OBVIOUS
    <3>4. CASE list[m].weight <= list[n].weight
      <4>1. first(n, m)
        <5> TAKE k \in 1 .. m
        <5>1. CASE k = m
          BY <1>2, <3>3, <3>4, <5>1
        <5>2. CASE k # m
          <6>1. k \in 1 .. m - 1
            BY <5>2
          <6> QED
            BY <3>2, <6>1, Zenon
        <5> QED
          BY <5>1, <5>2
      <4> QED
        BY <3>1, <3>3, <4>1, Zenon
    <3>5. CASE ~(list[m].weight <= list[n].weight)
      <4>1. first(m, m)
        <5> TAKE k \in 1 .. m
        <5>1. CASE k = m
          BY <1>2, <5>1
        <5>2. CASE k # m
          <6>1. k \in 1 .. m - 1 /\ k \in 1 .. N
            BY <5>2
          <6>2. list[k].weight <= list[n].weight
            BY <3>2, <6>1, Zenon
          <6> QED
            BY <1>2, <3>3, <3>5, <6>1, <6>2
        <5> QED
          BY <5>1, <5>2
      <4>2. m \in 1 .. m
        OBVIOUS
      <4> QED
        BY <3>1, <4>1, <4>2, Zenon
    <3> QED
      BY <3>4, <3>5, Zenon
  <2> QED
    BY <2>1, <2>2, Zenon
<1>4. N \in good
  <2>1. 0 \in good
    BY <1>1
  <2> HIDE DEF good
  <2>2. \A m \in 0 .. N : m \in good
    BY <1>3, <2>1, StepByStep
  <2> QED
    BY <2>2
<1>5. PICK n \in 1 .. N : first(n, N)
  BY <1>1, <1>4
<1>6. DOMAIN list = 1 .. N
  BY <1>1
<1> DEFINE isFirst(m) ==
        \A k \in DOMAIN list : /\ list[k].weight <= list[m].weight
                               /\ k < m => list[k].weight < list[m].weight
<1>7. n \in DOMAIN list /\ isFirst(n)
  BY <1>5, <1>6, Zenon
<1>8. PICK c : c = CHOOSE m \in DOMAIN list : isFirst(m)
  OBVIOUS
<1>9. c \in DOMAIN list /\ isFirst(c)
  <2> HIDE DEF isFirst
  <2> QED
    BY <1>7, <1>8, Zenon
<1>10. FirstHeaviest(list) = list[c]
  BY <1>8, Zenon DEF FirstHeaviest
<1> QED
  BY <1>1, <1>6, <1>9, <1>10, Zenon

(* What has been joined of some sequences, after each of them.             *)
Joins(joined, T, parts) ==
    /\ joined \in [0 .. Len(parts) -> Seq(T)]
    /\ joined[0] = << >>
    /\ \A n \in 1 .. Len(parts) : joined[n] = joined[n - 1] \o parts[n]

(* FlattenSeq joins a sequence of sequences, one after the other.          *)
LEMMA FlattenJoins ==
    ASSUME NEW T, NEW parts \in Seq(Seq(T))
    PROVE  \E joined : Joins(joined, T, parts) /\ FlattenSeq(parts) = joined[Len(parts)]
<1> DEFINE Body(f) == [i \in 1 .. Len(parts) |->
                          IF i = 1 THEN parts[i] ELSE f[i - 1] \o parts[i]]
<1>1. PICK N \in Nat : N = Len(parts)
  OBVIOUS
<1>2. PICK step : step = [n \in 1 .. N |-> [before \in Seq(T) |-> before \o parts[n]]]
  OBVIOUS
<1>3. PICK joined : Steps(joined, N, Seq(T), << >>, step)
  <2>1. step \in [1 .. N -> [Seq(T) -> Seq(T)]]
    <3>1. ASSUME NEW n \in 1 .. N, NEW before \in Seq(T)
          PROVE  before \o parts[n] \in Seq(T)
      <4>1. parts[n] \in Seq(T)
        BY <1>1
      <4> QED
        BY <4>1
    <3> QED
      BY <1>2, <3>1
  <2>2. << >> \in Seq(T)
    OBVIOUS
  <2> QED
    BY <2>1, <2>2, Iteration
<1>4. \A n \in 1 .. N : joined[n] = joined[n - 1] \o parts[n]
  <2> TAKE n \in 1 .. N
  <2>1. n - 1 \in 0 .. N
    OBVIOUS
  <2>2. joined[n] = step[n][joined[n - 1]] /\ joined[n - 1] \in Seq(T)
    BY <1>3, <2>1 DEF Steps
  <2> QED
    BY <1>2, <2>2
<1>5. Joins(joined, T, parts)
  BY <1>1, <1>3, <1>4 DEF Steps, Joins
<1>6. CASE N = 0
  <2>1. parts = << >>
    <3>1. PICK W : W = Seq(T)
      OBVIOUS
    <3>2. parts \in Seq(W) /\ Len(parts) = 0
      BY <1>1, <1>6, <3>1
    <3> QED
      BY <3>2
  <2>2. FlattenSeq(parts) = << >>
    BY <1>1, <1>6, <2>1 DEF FlattenSeq
  <2> QED
    BY <1>1, <1>5, <1>6, <2>2 DEF Joins
<1>7. CASE N # 0
  <2>1. joined[1] = parts[1]
    <3>1. 1 \in 1 .. N /\ joined[0] = << >>
      BY <1>3, <1>7 DEF Steps
    <3>2. joined[1] = << >> \o parts[1] /\ parts[1] \in Seq(T)
      <4>1. joined[1] = joined[1 - 1] \o parts[1]
        BY <1>4, <3>1
      <4>2. parts[1] \in Seq(T)
        BY <1>1, <3>1, ElementOfSeq
      <4>3. 1 - 1 = 0
        OBVIOUS
      <4> QED
        BY <3>1, <4>1, <4>2, <4>3
    <3> QED
      BY <3>2
  <2>2. PICK f : f = [n \in 1 .. N |-> joined[n]]
    OBVIOUS
  <2>3. f = Body(f)
    <3>1. ASSUME NEW i \in 1 .. N
          PROVE  f[i] = IF i = 1 THEN parts[i] ELSE f[i - 1] \o parts[i]
      <4>1. CASE i = 1
        BY <2>1, <2>2, <4>1
      <4>2. CASE i # 1
        <5>1. i - 1 \in 1 .. N
          BY <4>2
        <5> QED
          BY <1>4, <2>2, <4>2, <5>1
      <4> QED
        BY <4>1, <4>2
    <3> QED
      BY <1>1, <2>2, <3>1
  <2>4. PICK kept : kept = CHOOSE g : g = Body(g)
    BY Zenon
  <2>5. kept = Body(kept)
    BY <2>3, <2>4, Zenon
  <2>6. FlattenSeq(parts) = kept[Len(parts)]
    BY <1>1, <1>7, <2>4, Zenon DEF FlattenSeq
  <2>7. \A i \in 1 .. N : kept[i] = IF i = 1 THEN parts[i] ELSE kept[i - 1] \o parts[i]
    BY <1>1, <2>5
  <2> HIDE DEF Body
  <2>8. kept[N] = joined[N]
    <3> DEFINE good == {n \in 0 .. N : n = 0 \/ kept[n] = joined[n]}
    <3>1. ASSUME NEW n \in 1 .. N, n - 1 \in good
          PROVE  n \in good
      <4>1. CASE n = 1
        BY <2>1, <2>7, <4>1
      <4>2. CASE n # 1
        <5>1. kept[n - 1] = joined[n - 1]
          BY <3>1, <4>2
        <5>2. kept[n] = kept[n - 1] \o parts[n]
          BY <2>7, <4>2
        <5>3. joined[n] = joined[n - 1] \o parts[n]
          BY <1>4
        <5>4. kept[n] = joined[n]
          BY <5>1, <5>2, <5>3, Zenon
        <5>5. n \in 0 .. N
          OBVIOUS
        <5> QED
          BY <5>4, <5>5, Zenon
      <4> QED
        BY <4>1, <4>2
    <3>2. 0 \in good
      OBVIOUS
    <3> HIDE DEF good
    <3>3. \A n \in 0 .. N : n \in good
      BY <3>1, <3>2, StepByStep
    <3> QED
      BY <1>7, <3>3 DEF good
  <2> QED
    BY <1>1, <1>5, <2>6, <2>8
<1> QED
  BY <1>6, <1>7

(* A sequence of one sequence.                                             *)
LEMMA FlattenOne ==
    ASSUME NEW T, NEW part \in Seq(T)
    PROVE  FlattenSeq(<<part>>) = part
<1>1. PICK W : W = Seq(T)
  OBVIOUS
<1>2. PICK parts : parts = <<part>>
  OBVIOUS
<1>3. parts \in Seq(W) /\ Len(parts) = 1 /\ parts[1] = part
  BY <1>1, <1>2
<1>4. PICK joined : Joins(joined, T, parts) /\ FlattenSeq(parts) = joined[Len(parts)]
  BY <1>1, <1>3, FlattenJoins, Zenon
<1>5. joined[0] = << >> /\ joined[1] = joined[1 - 1] \o parts[1]
  BY <1>3, <1>4 DEF Joins
<1>6. joined[1] = << >> \o part
  BY <1>3, <1>5
<1>7. << >> \o part = part
  BY ConcatEmptySeq
<1> QED
  BY <1>2, <1>3, <1>4, <1>6, <1>7

(* Two sequences of sequences are joined one after the other.              *)
LEMMA FlattenConcat ==
    ASSUME NEW T, NEW a \in Seq(Seq(T)), NEW b \in Seq(Seq(T))
    PROVE  /\ FlattenSeq(a) \in Seq(T)
           /\ FlattenSeq(a \o b) = FlattenSeq(a) \o FlattenSeq(b)
<1>1. PICK W : W = Seq(T)
  OBVIOUS
<1>2. PICK both : both = a \o b
  OBVIOUS
<1>3. PICK L \in Nat, N \in Nat : L = Len(a) /\ N = Len(b)
  <2>1. Len(a) \in Nat /\ Len(b) \in Nat
    BY LenProperties
  <2> QED
    BY <2>1
<1>4. /\ both \in Seq(W) /\ Len(both) = L + N
      /\ \A n \in 1 .. L : both[n] = a[n]
      /\ \A n \in 1 .. N : both[L + n] = b[n]
  <2>1. a \in Seq(W) /\ b \in Seq(W)
    BY <1>1
  <2>2. /\ both \in Seq(W) /\ Len(both) = L + N
        /\ \A i \in 1 .. L + N : both[i] = IF i <= L THEN a[i] ELSE b[i - L]
    BY <1>2, <1>3, <2>1, ConcatProperties
  <2> QED
    BY <2>2
<1>5. PICK f : Joins(f, T, a) /\ FlattenSeq(a) = f[L]
  BY <1>3, FlattenJoins
<1>6. PICK g : Joins(g, T, b) /\ FlattenSeq(b) = g[N]
  BY <1>3, FlattenJoins
<1>7. PICK h : Joins(h, T, both) /\ FlattenSeq(both) = h[L + N]
  BY <1>1, <1>4, FlattenJoins
<1>8. f[L] \in Seq(T)
  BY <1>3, <1>5 DEF Joins
<1>9. h[L] = f[L]
  <2> DEFINE good == {n \in 0 .. L : h[n] = f[n]}
  <2>1. 0 \in good
    BY <1>5, <1>7 DEF Joins
  <2>2. ASSUME NEW n \in 1 .. L, n - 1 \in good
        PROVE  n \in good
    <3>1. n \in 1 .. Len(both) /\ n \in 0 .. L /\ n \in 1 .. Len(a)
      BY <1>3, <1>4
    <3>2. h[n] = h[n - 1] \o both[n] /\ f[n] = f[n - 1] \o a[n]
      BY <1>5, <1>7, <3>1, Zenon DEF Joins
    <3>3. both[n] = a[n] /\ h[n - 1] = f[n - 1]
      BY <1>4, <2>2
    <3>4. h[n] = f[n]
      BY <3>2, <3>3, Zenon
    <3> QED
      BY <3>1, <3>4, Zenon
  <2> HIDE DEF good
  <2>3. \A n \in 0 .. L : n \in good
    BY <2>1, <2>2, StepByStep
  <2>4. L \in 0 .. L
    OBVIOUS
  <2> QED
    BY <2>3, <2>4 DEF good
<1>10. h[L + N] = f[L] \o g[N]
  <2> DEFINE good == {n \in 0 .. N : h[L + n] = f[L] \o g[n]}
  <2>1. 0 \in good
    <3>1. g[0] = << >> /\ f[L] \o << >> = f[L] /\ L + 0 = L
      BY <1>6, <1>8, ConcatEmptySeq DEF Joins
    <3>2. h[L + 0] = f[L] \o g[0]
      BY <1>9, <3>1
    <3>3. 0 \in 0 .. N
      OBVIOUS
    <3> QED
      BY <3>2, <3>3, Zenon
  <2>2. ASSUME NEW n \in 1 .. N, n - 1 \in good
        PROVE  n \in good
    <3>1. PICK m : m = L + n
      OBVIOUS
    <3>2. /\ m \in 1 .. Len(both) /\ m - 1 = L + (n - 1)
          /\ n \in 1 .. Len(b) /\ n \in 0 .. N /\ n - 1 \in 0 .. Len(b)
      BY <1>3, <1>4, <3>1
    <3>3. h[m] = h[m - 1] \o both[m] /\ g[n] = g[n - 1] \o b[n]
      BY <1>6, <1>7, <3>2, Zenon DEF Joins
    <3>4. both[m] = b[n] /\ h[m - 1] = f[L] \o g[n - 1]
      BY <1>4, <2>2, <3>1, <3>2
    <3>5. g[n - 1] \in Seq(T) /\ b[n] \in Seq(T)
      <4>1. g[n - 1] \in Seq(T)
        BY <1>6, <3>2, Zenon DEF Joins
      <4>2. b \in Seq(W)
        BY <1>1
      <4> QED
        BY <1>1, <3>2, <4>1, <4>2, ElementOfSeq
    <3>6. (f[L] \o g[n - 1]) \o b[n] = f[L] \o (g[n - 1] \o b[n])
      <4>1. PICK x \in Seq(T), y \in Seq(T), z \in Seq(T) :
               x = f[L] /\ y = g[n - 1] /\ z = b[n]
        BY <1>8, <3>5
      <4>2. (x \o y) \o z = x \o (y \o z)
        BY ConcatAssociative
      <4> QED
        BY <4>1, <4>2
    <3>7. h[m] = f[L] \o g[n]
      BY <3>3, <3>4, <3>6, Zenon
    <3> QED
      BY <3>1, <3>2, <3>7, Zenon
  <2> HIDE DEF good
  <2>3. \A n \in 0 .. N : n \in good
    BY <2>1, <2>2, StepByStep
  <2>4. N \in 0 .. N
    OBVIOUS
  <2> QED
    BY <2>3, <2>4 DEF good
<1> QED
  BY <1>2, <1>5, <1>6, <1>7, <1>8, <1>10, Zenon

(* The weight of some parts, after each of them.                           *)
Weighed(sum, dict, parts) ==
    /\ sum \in [0 .. Len(parts) -> Int]
    /\ sum[0] = 0
    /\ \A n \in 1 .. Len(parts) :
          sum[n] = sum[n - 1] + WeightOf(dict, Find(dict, Unicode(parts[n])))
Weighs(dict) == \A word : WeightOf(dict, Find(dict, word)) \in Int

(* WeightOfAll is such a sum.                                              *)
LEMMA WeightIsWeighed ==
    ASSUME NEW dict, Weighs(dict), NEW T, NEW parts \in Seq(T)
    PROVE  \E sum : Weighed(sum, dict, parts) /\ WeightOfAll(dict, parts) = sum[Len(parts)]
<1> DEFINE weight(n) == WeightOf(dict, Find(dict, Unicode(parts[n])))
           Body(f) == [n \in 0 .. Len(parts) |->
                          IF n = 0 THEN 0
                          ELSE f[n - 1] + WeightOf(dict, Find(dict, Unicode(parts[n])))]
<1>1. PICK N \in Nat : N = Len(parts)
  OBVIOUS
<1>2. \A n : weight(n) \in Int
  BY Zenon DEF Weighs
<1> HIDE DEF weight
<1>3. PICK step : step = [n \in 1 .. N |-> [before \in Int |-> before + weight(n)]]
  OBVIOUS
<1>4. PICK sum : Steps(sum, N, Int, 0, step)
  <2>1. step \in [1 .. N -> [Int -> Int]]
    BY <1>2, <1>3
  <2>2. 0 \in Int
    OBVIOUS
  <2> QED
    BY <2>1, <2>2, Iteration
<1>5. \A n \in 1 .. N : sum[n] = sum[n - 1] + weight(n)
  <2> TAKE n \in 1 .. N
  <2>1. n - 1 \in 0 .. N
    OBVIOUS
  <2>2. sum[n] = step[n][sum[n - 1]] /\ sum[n - 1] \in Int
    BY <1>4, <2>1 DEF Steps
  <2> QED
    BY <1>3, <2>2
<1>6. sum \in [0 .. N -> Int] /\ sum[0] = 0
  BY <1>4 DEF Steps
<1>7. Weighed(sum, dict, parts)
  <2>1. \A n \in 1 .. N :
           sum[n] = sum[n - 1] + WeightOf(dict, Find(dict, Unicode(parts[n])))
    BY <1>5, Zenon DEF weight
  <2> QED
    BY <1>1, <1>6, <2>1, Zenon DEF Weighed
<1>8. sum = Body(sum)
  <2>1. ASSUME NEW n \in 0 .. N
        PROVE  sum[n] = IF n = 0 THEN 0 ELSE sum[n - 1] + weight(n)
    <3>1. CASE n = 0
      BY <1>6, <3>1
    <3>2. CASE n # 0
      BY <1>5, <3>2
    <3> QED
      BY <3>1, <3>2
  <2>2. sum = [n \in 0 .. N |-> IF n = 0 THEN 0 ELSE sum[n - 1] + weight(n)]
    BY <1>6, <2>1
  <2> QED
    BY <1>1, <2>2, Zenon DEF weight
<1>9. PICK kept : kept = CHOOSE g : g = Body(g)
  BY Zenon
<1>10. kept = Body(kept)
  BY <1>8, <1>9, Zenon
<1>11. WeightOfAll(dict, parts) = kept[Len(parts)]
  BY <1>9, Zenon DEF WeightOfAll
<1>12. \A n \in 0 .. N : kept[n] = IF n = 0 THEN 0 ELSE kept[n - 1] + weight(n)
  <2>1. ASSUME NEW n \in 0 .. N
        PROVE  Body(kept)[n] = IF n = 0 THEN 0 ELSE kept[n - 1] + weight(n)
    BY <1>1, Zenon DEF weight
  <2> QED
    BY <1>1, <1>10, <2>1, Zenon
<1> HIDE DEF Body
<1>13. kept[N] = sum[N]
  <2> DEFINE good == {n \in 0 .. N : kept[n] = sum[n]}
  <2>1. 0 \in good
    <3>1. 0 \in 0 .. N
      OBVIOUS
    <3> QED
      BY <1>6, <1>12, <3>1
  <2>2. ASSUME NEW n \in 1 .. N, n - 1 \in good
        PROVE  n \in good
    <3>1. n \in 0 .. N /\ n # 0
      OBVIOUS
    <3> QED
      BY <1>5, <1>12, <2>2, <3>1
  <2> HIDE DEF good
  <2>3. \A n \in 0 .. N : n \in good
    BY <2>1, <2>2, StepByStep
  <2>4. N \in 0 .. N
    OBVIOUS
  <2> QED
    BY <2>3, <2>4 DEF good
<1> QED
  BY <1>1, <1>7, <1>11, <1>13, Zenon

(* The weight of a part, and of some parts before others.                  *)
LEMMA WeightOfOne ==
    ASSUME NEW dict, Weighs(dict), NEW part
    PROVE  WeightOfAll(dict, <<part>>) = WeightOf(dict, Find(dict, Unicode(part)))
<1>1. PICK parts : parts = <<part>>
  OBVIOUS
<1>2. PICK T : T = {part}
  OBVIOUS
<1>3. parts \in Seq(T) /\ Len(parts) = 1 /\ parts[1] = part
  BY <1>1, <1>2
<1>4. PICK sum : Weighed(sum, dict, parts) /\ WeightOfAll(dict, parts) = sum[Len(parts)]
  BY <1>3, WeightIsWeighed, Zenon
<1>5. PICK weight \in Int : weight = WeightOf(dict, Find(dict, Unicode(part)))
  BY DEF Weighs
<1>6. sum[1] = sum[1 - 1] + WeightOf(dict, Find(dict, Unicode(parts[1]))) /\ sum[0] = 0
  BY <1>3, <1>4 DEF Weighed
<1>7. sum[1] = weight
  BY <1>3, <1>5, <1>6
<1> QED
  BY <1>1, <1>3, <1>4, <1>5, <1>7

(* The weights of two sequences of parts add up.                           *)
LEMMA WeightConcat ==
    ASSUME NEW dict, Weighs(dict), NEW T, NEW a \in Seq(T), NEW b \in Seq(T)
    PROVE  /\ WeightOfAll(dict, a) \in Int
           /\ WeightOfAll(dict, a \o b) = WeightOfAll(dict, a) + WeightOfAll(dict, b)
<1>1. PICK both : both = a \o b
  OBVIOUS
<1>2. PICK L \in Nat, N \in Nat : L = Len(a) /\ N = Len(b)
  OBVIOUS
<1>3. /\ both \in Seq(T) /\ Len(both) = L + N
      /\ \A n \in 1 .. L : both[n] = a[n]
      /\ \A n \in 1 .. N : both[L + n] = b[n]
  <2>1. /\ both \in Seq(T) /\ Len(both) = L + N
        /\ \A i \in 1 .. L + N : both[i] = IF i <= L THEN a[i] ELSE b[i - L]
    BY <1>1, <1>2, ConcatProperties
  <2> QED
    BY <2>1
<1>4. PICK f : Weighed(f, dict, a) /\ WeightOfAll(dict, a) = f[L]
  BY <1>2, WeightIsWeighed, Zenon
<1>5. PICK g : Weighed(g, dict, b) /\ WeightOfAll(dict, b) = g[N]
  BY <1>2, WeightIsWeighed, Zenon
<1>6. PICK h : Weighed(h, dict, both) /\ WeightOfAll(dict, both) = h[L + N]
  BY <1>3, WeightIsWeighed
<1> DEFINE weight(part) == WeightOf(dict, Find(dict, Unicode(part)))
<1>7. \A part : weight(part) \in Int
  BY Zenon DEF Weighs
<1>8. /\ f \in [0 .. L -> Int] /\ f[0] = 0 /\ \A n \in 1 .. L : f[n] = f[n - 1] + weight(a[n])
      /\ g \in [0 .. N -> Int] /\ g[0] = 0 /\ \A n \in 1 .. N : g[n] = g[n - 1] + weight(b[n])
      /\ h \in [0 .. L + N -> Int] /\ h[0] = 0
      /\ \A n \in 1 .. L + N : h[n] = h[n - 1] + weight(both[n])
  BY <1>2, <1>3, <1>4, <1>5, <1>6, Zenon DEF Weighed
<1> HIDE DEF weight
<1>9. h[L] = f[L]
  <2> DEFINE good == {n \in 0 .. L : h[n] = f[n]}
  <2>1. 0 \in good
    BY <1>8
  <2>2. ASSUME NEW n \in 1 .. L, n - 1 \in good
        PROVE  n \in good
    <3>1. n \in 1 .. L + N
      OBVIOUS
    <3>2. h[n] = h[n - 1] + weight(both[n]) /\ f[n] = f[n - 1] + weight(a[n])
      BY <1>8, <3>1
    <3>3. both[n] = a[n]
      BY <1>3
    <3> QED
      BY <2>2, <3>2, <3>3
  <2> HIDE DEF good
  <2>3. \A n \in 0 .. L : n \in good
    BY <2>1, <2>2, StepByStep
  <2>4. L \in 0 .. L
    OBVIOUS
  <2> QED
    BY <2>3, <2>4 DEF good
<1>10. h[L + N] = f[L] + g[N]
  <2> DEFINE good == {n \in 0 .. N : h[L + n] = f[L] + g[n]}
  <2>1. 0 \in good
    BY <1>8, <1>9
  <2>2. ASSUME NEW n \in 1 .. N, n - 1 \in good
        PROVE  n \in good
    <3>1. PICK m : m = L + n
      OBVIOUS
    <3>2. m \in 1 .. L + N /\ m - 1 = L + (n - 1) /\ n - 1 \in 0 .. N
      BY <3>1
    <3>3. h[m] = h[m - 1] + weight(both[m]) /\ g[n] = g[n - 1] + weight(b[n])
      BY <1>8, <3>2
    <3>4. both[m] = b[n] /\ h[m - 1] = f[L] + g[n - 1]
      BY <1>3, <2>2, <3>1, <3>2
    <3>5. f[L] \in Int /\ g[n - 1] \in Int /\ weight(b[n]) \in Int
      <4>1. weight(b[n]) \in Int
        BY <1>7, Zenon
      <4>2. L \in 0 .. L
        OBVIOUS
      <4> QED
        BY <1>8, <3>2, <4>1, <4>2
    <3> QED
      BY <3>1, <3>3, <3>4, <3>5
  <2> HIDE DEF good
  <2>3. \A n \in 0 .. N : n \in good
    BY <2>1, <2>2, StepByStep
  <2>4. N \in 0 .. N
    OBVIOUS
  <2> QED
    BY <2>3, <2>4 DEF good
<1> QED
  BY <1>1, <1>4, <1>5, <1>6, <1>8, <1>10
-----------------------------------------------------------------------------
(* MPSegment: the words that are chosen at each place                      *)

(* The words that Nexts tries at a place, and those that it lists.         *)
Edge(dict, text, i, n) ==
    [end |-> i + n - 1, unit |-> Find(dict, SubSeq(text, i, i + n - 1))]
Edges(dict, text, i) == {Edge(dict, text, i, n) : n \in 1 .. Len(text) - i + 1}
Reaches(dict, text, i, most, n) ==
    /\ n \in 1 .. Len(text) - i + 1 /\ n <= most
    /\ n = 1 \/ Edge(dict, text, i, n).unit # NoUnit

(* Trie::Find lists these edges at a place, all of them and no others.     *)
LEMMA NextsAreWords ==
    ASSUME NEW dict, NEW X, NEW text \in Seq(X), NEW i \in 1 .. Len(text),
           NEW most \in Nat \ {0}
    PROVE  \E list \in Seq(Edges(dict, text, i)) :
              /\ Nexts(dict, text, i, most) = list
              /\ \A k \in 1 .. Len(list) : \E n :
                    Reaches(dict, text, i, most, n) /\ list[k] = Edge(dict, text, i, n)
              /\ \A n : Reaches(dict, text, i, most, n) =>
                    \E k \in 1 .. Len(list) : list[k] = Edge(dict, text, i, n)
<1> DEFINE longest == Min({most, Len(text) - i + 1})
           edge(n) == [end |-> i + n - 1, unit |-> Find(dict, SubSeq(text, i, i + n - 1))]
           Body(f) == [n \in 0 .. longest |->
                          IF n = 0 THEN << >>
                          ELSE IF n = 1 \/ edge(n).unit # NoUnit
                          THEN Append(f[n - 1], edge(n))
                          ELSE f[n - 1]]
           found(n) == n = 1 \/ edge(n).unit # NoUnit
           next(n, before) == IF found(n) THEN Append(before, edge(n)) ELSE before
<1>1. PICK R \in Nat : R = Len(text) - i + 1 /\ R # 0
  OBVIOUS
<1>2. PICK N \in Nat : N \in 1 .. R /\ longest = N /\ N <= most /\ (N = most \/ N = R)
  <2>1. {most, R} \in SUBSET Nat /\ {most, R} # {}
    OBVIOUS
  <2>2. Min({most, R}) \in {most, R} /\ \A n \in {most, R} : Min({most, R}) <= n
    BY <2>1, LeastNat
  <2>3. PICK m : m = Min({most, R})
    OBVIOUS
  <2>4. longest = m
    BY <1>1, <2>3
  <2>5. m \in {most, R} /\ m <= most /\ m <= R
    BY <2>2, <2>3
  <2>6. m \in 1 .. R
    BY <1>1, <2>5
  <2> QED
    BY <2>4, <2>5, <2>6
<1> HIDE DEF longest
<1>3. PICK T : T = Edges(dict, text, i)
  OBVIOUS
<1>4. \A n \in 1 .. N : edge(n) = Edge(dict, text, i, n) /\ edge(n) \in T
  <2> TAKE n \in 1 .. N
  <2>1. n \in 1 .. R
    BY <1>2
  <2>2. edge(n) = Edge(dict, text, i, n)
    BY Zenon DEF Edge
  <2>3. Edge(dict, text, i, n) \in T
    BY <1>1, <1>3, <2>1, Zenon DEF Edges
  <2> QED
    BY <2>2, <2>3, Zenon
<1>5. \A n : Reaches(dict, text, i, most, n) <=> n \in 1 .. N /\ found(n)
  <2>1. ASSUME NEW n \in 1 .. N
        PROVE  Reaches(dict, text, i, most, n) <=> found(n)
    <3>1. n \in 1 .. R /\ n <= most
      BY <1>2
    <3> QED
      BY <1>1, <3>1, Zenon DEF Reaches, Edge
  <2>2. ASSUME NEW n, Reaches(dict, text, i, most, n)
        PROVE  n \in 1 .. N
    <3>1. n \in 1 .. R /\ n <= most
      BY <1>1, <2>2, Zenon DEF Reaches
    <3> QED
      BY <1>2, <3>1
  <2> QED
    BY <2>1, <2>2, Zenon
<1> HIDE DEF edge, found
<1>6. \A n \in 1 .. N, before \in Seq(T) : next(n, before) \in Seq(T)
  BY <1>4
<1>7. PICK step : step = [n \in 1 .. N |-> [before \in Seq(T) |-> next(n, before)]]
  OBVIOUS
<1> HIDE DEF next
<1>8. PICK list : Steps(list, N, Seq(T), << >>, step)
  <2>1. step \in [1 .. N -> [Seq(T) -> Seq(T)]]
    BY <1>6, <1>7
  <2>2. << >> \in Seq(T)
    OBVIOUS
  <2> QED
    BY <2>1, <2>2, Iteration
<1>9. list \in [0 .. N -> Seq(T)] /\ list[0] = << >>
  BY <1>8 DEF Steps
<1>10. \A n \in 1 .. N : list[n] = next(n, list[n - 1])
  <2> TAKE n \in 1 .. N
  <2>1. n - 1 \in 0 .. N
    OBVIOUS
  <2>2. list[n] = step[n][list[n - 1]] /\ list[n - 1] \in Seq(T)
    BY <1>8, <2>1 DEF Steps
  <2> QED
    BY <1>7, <2>2
<1>11. list = Body(list)
  <2>1. ASSUME NEW n \in 0 .. N
        PROVE  list[n] = IF n = 0 THEN << >> ELSE next(n, list[n - 1])
    <3>1. CASE n = 0
      BY <1>9, <3>1
    <3>2. CASE n # 0
      BY <1>10, <3>2
    <3> QED
      BY <3>1, <3>2
  <2>2. list = [n \in 0 .. N |-> IF n = 0 THEN << >> ELSE next(n, list[n - 1])]
    BY <1>9, <2>1
  <2> QED
    BY <1>2, <2>2, Zenon DEF next, found
<1>12. PICK kept : kept = CHOOSE g : g = Body(g)
  BY Zenon
<1>13. kept = Body(kept)
  BY <1>11, <1>12, Zenon
<1>14. Nexts(dict, text, i, most) = kept[N]
  <2>1. Nexts(dict, text, i, most) = kept[longest]
    BY <1>12, Zenon DEF Nexts, longest, edge
  <2> QED
    BY <1>2, <2>1
<1>15. \A n \in 0 .. N : kept[n] = IF n = 0 THEN << >> ELSE next(n, kept[n - 1])
  <2>1. ASSUME NEW n \in 0 .. N
        PROVE  Body(kept)[n] = IF n = 0 THEN << >> ELSE next(n, kept[n - 1])
    BY <1>2, Zenon DEF next, found
  <2> QED
    BY <1>13, <2>1, Zenon
<1> HIDE DEF Body
<1> DEFINE lists(s, n) ==
        /\ s \in Seq(T)
        /\ \A k \in 1 .. Len(s) : \E m \in 1 .. n : found(m) /\ s[k] = edge(m)
        /\ \A m \in 1 .. n : found(m) => \E k \in 1 .. Len(s) : s[k] = edge(m)
           good == {n \in 0 .. N : lists(kept[n], n)}
<1>16. 0 \in good
  <2>1. kept[0] = << >> /\ 0 \in 0 .. N
    BY <1>15
  <2>2. << >> \in Seq(T) /\ (\A k : ~(k \in 1 .. Len(<< >>))) /\ \A m : ~(m \in 1 .. 0)
    OBVIOUS
  <2>3. lists(<< >>, 0)
    BY <2>2, Zenon
  <2> QED
    BY <2>1, <2>3, Zenon
<1>17. ASSUME NEW n \in 1 .. N, n - 1 \in good
       PROVE  n \in good
  <2>1. PICK s \in Seq(T) : s = kept[n - 1] /\ lists(s, n - 1)
    BY <1>17
  <2>2. n \in 0 .. N /\ n # 0
    OBVIOUS
  <2>3. kept[n] = next(n, s)
    BY <1>15, <2>1, <2>2
  <2>4. CASE ~found(n)
    <3>1. kept[n] = s
      BY <2>3, <2>4, Zenon DEF next
    <3>2. lists(s, n)
      <4>1. \A m \in 1 .. n : m = n \/ m \in 1 .. n - 1
        OBVIOUS
      <4>2. \A m \in 1 .. n - 1 : m \in 1 .. n
        OBVIOUS
      <4> QED
        BY <2>1, <2>4, <4>1, <4>2, Zenon
    <3> QED
      BY <2>2, <3>1, <3>2, Zenon
  <2>5. CASE found(n)
    <3>1. PICK t : t = Append(s, edge(n))
      OBVIOUS
    <3>2. edge(n) \in T
      BY <1>4
    <3>3. /\ t \in Seq(T) /\ Len(t) = Len(s) + 1
          /\ \A k \in 1 .. Len(s) : t[k] = s[k]
          /\ t[Len(s) + 1] = edge(n)
      BY <3>1, <3>2, AppendProperties
    <3>4. PICK L \in Nat : L = Len(s)
      OBVIOUS
    <3>5. ASSUME NEW k \in 1 .. Len(t)
          PROVE  \E m \in 1 .. n : found(m) /\ t[k] = edge(m)
      <4>1. CASE k = L + 1
        <5>1. t[k] = edge(n) /\ n \in 1 .. n
          BY <3>3, <3>4, <4>1
        <5> QED
          BY <2>5, <5>1, Zenon
      <4>2. CASE k # L + 1
        <5>1. k \in 1 .. Len(s) /\ t[k] = s[k]
          BY <3>3, <3>4, <4>2
        <5>2. PICK m \in 1 .. n - 1 : found(m) /\ s[k] = edge(m)
          BY <2>1, <5>1, Zenon
        <5>3. m \in 1 .. n
          OBVIOUS
        <5> QED
          BY <5>1, <5>2, <5>3, Zenon
      <4> QED
        BY <4>1, <4>2, Zenon
    <3>6. ASSUME NEW m \in 1 .. n, found(m)
          PROVE  \E k \in 1 .. Len(t) : t[k] = edge(m)
      <4>1. CASE m = n
        <5>1. L + 1 \in 1 .. Len(t) /\ t[L + 1] = edge(n)
          BY <3>3, <3>4
        <5> QED
          BY <4>1, <5>1, Zenon
      <4>2. CASE m # n
        <5>1. m \in 1 .. n - 1
          BY <4>2
        <5>2. PICK k \in 1 .. Len(s) : s[k] = edge(m)
          BY <2>1, <3>6, <5>1, Zenon
        <5>3. k \in 1 .. Len(t) /\ t[k] = s[k]
          BY <3>3, <3>4
        <5> QED
          BY <5>2, <5>3, Zenon
      <4> QED
        BY <4>1, <4>2, Zenon
    <3>7. kept[n] = t
      BY <2>3, <2>5, <3>1, Zenon DEF next
    <3> QED
      BY <2>2, <3>3, <3>5, <3>6, <3>7, Zenon
  <2> QED
    BY <2>4, <2>5, Zenon
<1>18. lists(kept[N], N)
  <2>1. N \in 0 .. N
    OBVIOUS
  <2> HIDE DEF good
  <2>2. \A n \in 0 .. N : n \in good
    BY <1>16, <1>17, StepByStep
  <2> QED
    BY <2>1, <2>2, Zenon DEF good
<1>19. PICK result : result = kept[N]
  OBVIOUS
<1>20. result \in Seq(Edges(dict, text, i)) /\ Nexts(dict, text, i, most) = result
  BY <1>3, <1>14, <1>18, <1>19, Zenon
<1>21. ASSUME NEW k \in 1 .. Len(result)
       PROVE  \E n : Reaches(dict, text, i, most, n) /\ result[k] = Edge(dict, text, i, n)
  <2>1. PICK n \in 1 .. N : found(n) /\ result[k] = edge(n)
    BY <1>18, <1>19, Zenon
  <2>2. edge(n) = Edge(dict, text, i, n) /\ Reaches(dict, text, i, most, n)
    BY <1>4, <1>5, <2>1, Zenon
  <2>3. result[k] = Edge(dict, text, i, n)
    BY <2>1, <2>2, Zenon
  <2> QED
    BY <2>2, <2>3, Zenon
<1>22. ASSUME NEW n, Reaches(dict, text, i, most, n)
       PROVE  \E k \in 1 .. Len(result) : result[k] = Edge(dict, text, i, n)
  <2>1. n \in 1 .. N /\ found(n)
    BY <1>5, <1>22, Zenon
  <2>2. PICK k \in 1 .. Len(result) : result[k] = edge(n)
    BY <1>18, <1>19, <2>1, Zenon
  <2>3. edge(n) = Edge(dict, text, i, n)
    BY <1>4, <2>1, Zenon
  <2> QED
    BY <2>2, <2>3, Zenon
<1> QED
  BY <1>20, <1>21, <1>22, Zenon

(* What Find may return.                                                   *)
Units(dict) == {NoUnit} \cup {dict.trie[word] : word \in DOMAIN dict.trie}

(* Find returns one, and what it returns is at its word.                   *)
LEMMA FoundUnit ==
    ASSUME NEW dict, SoundDict(dict), NEW word
    PROVE  /\ Find(dict, word) \in Units(dict)
           /\ Find(dict, word) # NoUnit => IsUnitOf(Find(dict, word), word)
           /\ WeightOf(dict, Find(dict, word)) \in Int
<1>1. CASE word \in DOMAIN dict.trie
  <2>1. Find(dict, word) = dict.trie[word]
    BY <1>1, Zenon DEF Find
  <2>2. dict.trie[word] \in Units(dict)
    BY <1>1, Zenon DEF Units
  <2>3. dict.trie[word] # NoUnit => IsUnitOf(dict.trie[word], word)
    BY <1>1, Zenon DEF SoundDict
  <2>4. WeightOf(dict, dict.trie[word]) \in Int
    <3>1. CASE dict.trie[word] = NoUnit
      BY <3>1, Zenon DEF WeightOf, SoundDict
    <3>2. CASE dict.trie[word] # NoUnit
      BY <2>3, <3>2, Zenon DEF WeightOf, IsUnitOf
    <3> QED
      BY <3>1, <3>2, Zenon
  <2> QED
    BY <2>1, <2>2, <2>3, <2>4, Zenon
<1>2. CASE word \notin DOMAIN dict.trie
  <2>1. Find(dict, word) = NoUnit
    BY <1>2, Zenon DEF Find
  <2>2. NoUnit \in Units(dict)
    BY Zenon DEF Units
  <2>3. WeightOf(dict, NoUnit) \in Int
    BY Zenon DEF WeightOf, SoundDict
  <2> QED
    BY <2>1, <2>2, <2>3, Zenon
<1> QED
  BY <1>1, <1>2, Zenon

(* In such a dictionary every part has a weight.                           *)
LEMMA SoundWeighs ==
    ASSUME NEW dict, SoundDict(dict)
    PROVE  Weighs(dict)
BY FoundUnit, Zenon DEF Weighs

(* The choices that CalcDP has at a place.                                 *)
Bests(dict) == [unit : Units(dict), weight : Int]
Default == [unit |-> NoUnit, weight |-> MinDouble]
After(text, found, end) ==
    IF end < Len(text) THEN found[Len(text) - end].weight ELSE 0
Total(dict, text, found, e) ==
    [unit |-> e.unit, weight |-> After(text, found, e.end) + WeightOf(dict, e.unit)]
Totals(dict, text, found, list) ==
    <<Default>> \o [n \in DOMAIN list |-> Total(dict, text, found, list[n])]
IsBest(dict, text, i, most, found, best) ==
    /\ \A n : Reaches(dict, text, i, most, n) =>
          Total(dict, text, found, Edge(dict, text, i, n)).weight <= best.weight
    /\ \/ best = Default
       \/ \E n : /\ Reaches(dict, text, i, most, n)
                 /\ best = Total(dict, text, found, Edge(dict, text, i, n))

(* What CalcDP makes of an edge is one of them.                            *)
LEMMA TotalIsTyped ==
    ASSUME NEW dict, SoundDict(dict), NEW X, NEW text \in Seq(X), NEW i \in 1 .. Len(text),
           NEW found \in Seq(Bests(dict)), Len(found) = Len(text) - i,
           NEW n \in 1 .. Len(text) - i + 1
    PROVE  Total(dict, text, found, Edge(dict, text, i, n)) \in Bests(dict)
<1>1. PICK word : word = SubSeq(text, i, i + n - 1)
  OBVIOUS
<1>2. PICK e : e = Edge(dict, text, i, n)
  OBVIOUS
<1>3. e.end = i + n - 1 /\ e.unit = Find(dict, word)
  BY <1>1, <1>2 DEF Edge
<1>4. e.unit \in Units(dict) /\ WeightOf(dict, e.unit) \in Int
  BY <1>3, FoundUnit
<1>5. After(text, found, e.end) \in Int
  <2>1. CASE e.end < Len(text)
    <3>1. Len(text) - e.end \in 1 .. Len(found)
      BY <1>3, <2>1
    <3>2. found[Len(text) - e.end] \in Bests(dict)
      BY <3>1, ElementOfSeq
    <3>3. found[Len(text) - e.end].weight \in Int
      BY <3>2 DEF Bests
    <3> QED
      BY <2>1, <3>3 DEF After
  <2>2. CASE ~(e.end < Len(text))
    BY <2>2 DEF After
  <2> QED
    BY <2>1, <2>2
<1>6. After(text, found, e.end) + WeightOf(dict, e.unit) \in Int
  BY <1>4, <1>5
<1> QED
  BY <1>2, <1>4, <1>6 DEF Total, Bests

(* The choice is the best of them.                                         *)
LEMMA BestIsChosen ==
    ASSUME NEW dict, SoundDict(dict), NEW X, NEW text \in Seq(X), NEW i \in 1 .. Len(text),
           NEW most \in Nat \ {0},
           NEW found \in Seq(Bests(dict)), Len(found) = Len(text) - i
    PROVE  LET best == FirstHeaviest(Totals(dict, text, found, Nexts(dict, text, i, most)))
           IN  best \in Bests(dict) /\ IsBest(dict, text, i, most, found, best)
<1>1. PICK list \in Seq(Edges(dict, text, i)) :
         /\ Nexts(dict, text, i, most) = list
         /\ \A k \in 1 .. Len(list) : \E n :
               Reaches(dict, text, i, most, n) /\ list[k] = Edge(dict, text, i, n)
         /\ \A n : Reaches(dict, text, i, most, n) =>
               \E k \in 1 .. Len(list) : list[k] = Edge(dict, text, i, n)
  BY NextsAreWords
<1>2. PICK N \in Nat : N = Len(list) /\ DOMAIN list = 1 .. N
  BY LenProperties
<1>3. PICK totals : totals = [n \in DOMAIN list |-> Total(dict, text, found, list[n])]
  OBVIOUS
<1>4. \A n : Reaches(dict, text, i, most, n) => n \in 1 .. Len(text) - i + 1
  BY Zenon DEF Reaches
<1>5. \A k \in 1 .. N : Total(dict, text, found, list[k]) \in Bests(dict)
  <2> TAKE k \in 1 .. N
  <2>1. PICK n : Reaches(dict, text, i, most, n) /\ list[k] = Edge(dict, text, i, n)
    BY <1>1, <1>2, Zenon
  <2>2. n \in 1 .. Len(text) - i + 1
    BY <1>4, <2>1, Zenon
  <2>3. Total(dict, text, found, Edge(dict, text, i, n)) \in Bests(dict)
    BY <2>2, TotalIsTyped
  <2> QED
    BY <2>1, <2>3, Zenon
<1>6. totals \in Seq(Bests(dict)) /\ Len(totals) = N
  BY <1>2, <1>3, <1>5
<1>7. Default \in Bests(dict)
  <2>1. NoUnit \in Units(dict) /\ MinDouble \in Int
    BY DEF Units, MinDouble
  <2> QED
    BY <2>1 DEF Default, Bests
<1>8. PICK choices : choices = <<Default>> \o totals
  OBVIOUS
<1>9. /\ choices \in Seq(Bests(dict)) /\ Len(choices) = N + 1
      /\ choices[1] = Default /\ \A k \in 1 .. N : choices[k + 1] = totals[k]
  BY <1>6, <1>7, <1>8
<1>10. Totals(dict, text, found, Nexts(dict, text, i, most)) = choices
  BY <1>1, <1>3, <1>8, Zenon DEF Totals
<1>11. PICK c \in 1 .. Len(choices) :
          /\ FirstHeaviest(choices) = choices[c]
          /\ \A k \in 1 .. Len(choices) :
                /\ choices[k].weight <= choices[c].weight
                /\ k < c => choices[k].weight < choices[c].weight
  <2>1. choices # << >>
    BY <1>9
  <2>2. \A b \in Bests(dict) : b.weight \in Int
    BY DEF Bests
  <2> QED
    BY <1>9, <2>1, <2>2, HeaviestIsFound
<1>12. choices[c] \in Bests(dict)
  BY <1>9, ElementOfSeq
<1>13. ASSUME NEW n, Reaches(dict, text, i, most, n)
       PROVE  Total(dict, text, found, Edge(dict, text, i, n)).weight <= choices[c].weight
  <2>1. PICK k \in 1 .. N : list[k] = Edge(dict, text, i, n)
    BY <1>1, <1>2, <1>13, Zenon
  <2>2. choices[k + 1] = Total(dict, text, found, Edge(dict, text, i, n))
    BY <1>2, <1>3, <1>9, <2>1
  <2>3. k + 1 \in 1 .. Len(choices)
    BY <1>9
  <2>4. choices[k + 1].weight <= choices[c].weight
    BY <1>11, <2>3
  <2> QED
    BY <2>2, <2>4
<1>14. \/ choices[c] = Default
       \/ \E n : /\ Reaches(dict, text, i, most, n)
                 /\ choices[c] = Total(dict, text, found, Edge(dict, text, i, n))
  <2>1. CASE c = 1
    BY <1>9, <2>1
  <2>2. CASE c # 1
    <3>1. PICK k \in 1 .. N : c = k + 1
      <4>1. c - 1 \in 1 .. N /\ c = (c - 1) + 1
        BY <1>9, <2>2
      <4> QED
        BY <4>1
    <3>2. PICK n : Reaches(dict, text, i, most, n) /\ list[k] = Edge(dict, text, i, n)
      BY <1>1, <1>2, Zenon
    <3>3. choices[c] = Total(dict, text, found, list[k])
      BY <1>2, <1>3, <1>9, <3>1
    <3> QED
      BY <3>2, <3>3, Zenon
  <2> QED
    BY <2>1, <2>2
<1>15. IsBest(dict, text, i, most, found, choices[c])
  BY <1>13, <1>14, Zenon DEF IsBest
<1> QED
  BY <1>10, <1>11, <1>12, <1>15, Zenon

(* What CalcDP finds, the last place first.                                *)
LEMMA BestIsFound ==
    ASSUME NEW dict, SoundDict(dict), NEW X, NEW text \in Seq(X), NEW most \in Nat \ {0}
    PROVE  \E found \in Seq(Bests(dict)) :
              /\ Len(found) = Len(text) /\ CalcDP(dict, text, most) = Reverse(found)
              /\ \A i \in 1 .. Len(text) :
                    IsBest(dict, text, i, most, SubSeq(found, 1, Len(text) - i),
                           found[Len(text) + 1 - i])
<1> DEFINE size == Len(text)
           best(found, i) ==
               FirstHeaviest(Totals(dict, text, found, Nexts(dict, text, i, most)))
           Body(f) == [n \in 0 .. size |->
                          IF n = 0 THEN << >>
                          ELSE Append(f[n - 1], best(f[n - 1], size + 1 - n))]
           fits(s, n) == s \in Seq(Bests(dict)) /\ Len(s) = n
<1>1. PICK N \in Nat : N = Len(text)
  OBVIOUS
<1>2. PICK T : T = Seq(Bests(dict))
  OBVIOUS
<1>3. \A n \in 1 .. N : \A s : fits(s, n - 1) =>
         /\ best(s, N + 1 - n) \in Bests(dict)
         /\ IsBest(dict, text, N + 1 - n, most, s, best(s, N + 1 - n))
  <2> SUFFICES ASSUME NEW n \in 1 .. N, NEW s, fits(s, n - 1)
               PROVE  /\ best(s, N + 1 - n) \in Bests(dict)
                      /\ IsBest(dict, text, N + 1 - n, most, s, best(s, N + 1 - n))
    OBVIOUS
  <2>1. PICK i \in 1 .. Len(text) : i = N + 1 - n
    <3>1. N + 1 - n \in 1 .. N
      OBVIOUS
    <3> QED
      BY <1>1, <3>1, Zenon
  <2>2. s \in Seq(Bests(dict)) /\ Len(s) = Len(text) - i
    BY <1>1, <2>1
  <2>3. best(s, i) \in Bests(dict) /\ IsBest(dict, text, i, most, s, best(s, i))
    BY <2>2, BestIsChosen
  <2> QED
    BY <2>1, <2>3
<1>4. PICK step : step =
         [n \in 1 .. N |-> [s \in T |-> IF fits(s, n - 1)
                                        THEN Append(s, best(s, N + 1 - n)) ELSE << >>]]
  OBVIOUS
<1> HIDE DEF best
<1>5. \A n \in 1 .. N : \A s : fits(s, n - 1) => fits(Append(s, best(s, N + 1 - n)), n)
  <2> SUFFICES ASSUME NEW n \in 1 .. N, NEW s, fits(s, n - 1)
               PROVE  fits(Append(s, best(s, N + 1 - n)), n)
    OBVIOUS
  <2>1. best(s, N + 1 - n) \in Bests(dict)
    BY <1>3
  <2> QED
    BY <2>1
<1>6. PICK f : Steps(f, N, T, << >>, step)
  <2>1. step \in [1 .. N -> [T -> T]]
    <3>1. << >> \in T
      BY <1>2
    <3>2. ASSUME NEW n \in 1 .. N, NEW s \in T
          PROVE  (IF fits(s, n - 1) THEN Append(s, best(s, N + 1 - n)) ELSE << >>) \in T
      BY <1>2, <1>5, <3>1
    <3> HIDE DEF fits
    <3> QED
      BY <1>4, <3>2
  <2>2. << >> \in T
    BY <1>2
  <2> QED
    BY <2>1, <2>2, Iteration
<1>7. f[0] = << >> /\ \A n \in 1 .. N : f[n - 1] \in T /\ f[n] = step[n][f[n - 1]]
  <2>1. \A n \in 1 .. N : n - 1 \in 0 .. N
    OBVIOUS
  <2> QED
    BY <1>6, <2>1 DEF Steps
<1>8. \A n \in 0 .. N : fits(f[n], n)
  <2> DEFINE good == {n \in 0 .. N : fits(f[n], n)}
  <2>1. 0 \in good
    <3>1. fits(<< >>, 0) /\ 0 \in 0 .. N
      OBVIOUS
    <3> HIDE DEF fits
    <3> QED
      BY <1>7, <3>1
  <2>2. ASSUME NEW n \in 1 .. N, n - 1 \in good
        PROVE  n \in good
    <3> HIDE DEF fits
    <3>1. f[n - 1] \in T /\ fits(f[n - 1], n - 1)
      BY <1>7, <2>2
    <3>2. f[n] = Append(f[n - 1], best(f[n - 1], N + 1 - n))
      BY <1>4, <1>7, <3>1
    <3>3. fits(f[n], n)
      BY <1>5, <3>1, <3>2
    <3> QED
      BY <3>3
  <2> HIDE DEF good
  <2>3. \A n \in 0 .. N : n \in good
    BY <2>1, <2>2, StepByStep
  <2> QED
    BY <2>3 DEF good
<1>9. \A n \in 1 .. N : f[n] = Append(f[n - 1], best(f[n - 1], N + 1 - n))
  <2> TAKE n \in 1 .. N
  <2> HIDE DEF fits
  <2>1. n - 1 \in 0 .. N
    OBVIOUS
  <2>2. fits(f[n - 1], n - 1)
    BY <1>8, <2>1, Zenon
  <2> QED
    BY <1>4, <1>7, <2>2
<1>10. f = Body(f)
  <2>1. ASSUME NEW n \in 0 .. N
        PROVE  f[n] = IF n = 0 THEN << >> ELSE Append(f[n - 1], best(f[n - 1], N + 1 - n))
    <3>1. CASE n = 0
      BY <1>7, <3>1
    <3>2. CASE n # 0
      BY <1>9, <3>2
    <3> QED
      BY <3>1, <3>2
  <2>2. f \in [0 .. N -> T]
    BY <1>6 DEF Steps
  <2>3. f = [n \in 0 .. N |->
                IF n = 0 THEN << >> ELSE Append(f[n - 1], best(f[n - 1], N + 1 - n))]
    BY <2>1, <2>2
  <2> QED
    BY <1>1, <2>3, Zenon
<1>11. PICK kept : kept = CHOOSE g : g = Body(g)
  BY Zenon
<1>12. kept = Body(kept)
  BY <1>10, <1>11, Zenon
<1>13. CalcDP(dict, text, most) = Reverse(kept[size])
  BY <1>11, Zenon DEF CalcDP, best, Totals, Total, After, Default
<1>14. \A n \in 0 .. N : kept[n] =
          IF n = 0 THEN << >> ELSE Append(kept[n - 1], best(kept[n - 1], N + 1 - n))
  <2>1. ASSUME NEW n \in 0 .. N
        PROVE  Body(kept)[n] =
                  IF n = 0 THEN << >> ELSE Append(kept[n - 1], best(kept[n - 1], N + 1 - n))
    BY <1>1, Zenon
  <2> QED
    BY <1>12, <2>1, Zenon
<1> HIDE DEF Body
<1> DEFINE finds(s, n) ==
        /\ fits(s, n)
        /\ \A i \in N + 1 - n .. N :
              IsBest(dict, text, i, most, SubSeq(s, 1, N - i), s[N + 1 - i])
           good == {n \in 0 .. N : finds(kept[n], n)}
<1>15. 0 \in good
  <2>1. kept[0] = << >> /\ 0 \in 0 .. N /\ fits(<< >>, 0)
    BY <1>14
  <2>2. \A i : ~(i \in N + 1 - 0 .. N)
    OBVIOUS
  <2> QED
    BY <2>1, <2>2, Zenon
<1>16. ASSUME NEW n \in 1 .. N, n - 1 \in good
       PROVE  n \in good
  <2>1. PICK s : s = kept[n - 1] /\ finds(s, n - 1)
    BY <1>16
  <2>2. PICK b : b = best(s, N + 1 - n)
    OBVIOUS
  <2>3. PICK t : t = Append(s, b)
    OBVIOUS
  <2>4. kept[n] = t
    <3>1. n \in 0 .. N /\ n # 0
      OBVIOUS
    <3>2. kept[n] = Append(s, best(s, N + 1 - n))
      BY <1>14, <2>1, <3>1, Zenon
    <3> QED
      BY <2>2, <2>3, <3>2
  <2>5. fits(s, n - 1)
    BY <2>1
  <2>6. b \in Bests(dict) /\ IsBest(dict, text, N + 1 - n, most, s, b)
    <3> HIDE DEF fits
    <3> QED
      BY <1>3, <2>2, <2>5, Zenon
  <2>7. /\ fits(t, n) /\ t[n] = b /\ s \in Seq(Bests(dict)) /\ Len(s) = n - 1
        /\ \A k \in 1 .. n - 1 : t[k] = s[k]
    BY <2>3, <2>5, <2>6, AppendProperties
  <2>8. ASSUME NEW k \in 0 .. n - 1
        PROVE  SubSeq(t, 1, k) = SubSeq(s, 1, k)
    <3>1. PICK x, y : x = SubSeq(t, 1, k) /\ y = SubSeq(s, 1, k)
      OBVIOUS
    <3>2. k <= Len(s) /\ k <= Len(t) /\ k \in Nat /\ t \in Seq(Bests(dict))
      BY <2>7
    <3>3. /\ x \in Seq(Bests(dict)) /\ Len(x) = k /\ \A j \in 1 .. k : x[j] = t[j]
          /\ y \in Seq(Bests(dict)) /\ Len(y) = k /\ \A j \in 1 .. k : y[j] = s[j]
      BY <2>7, <3>1, <3>2, FirstOfSeq, Zenon
    <3>4. \A j \in 1 .. k : x[j] = y[j]
      BY <2>7, <3>3
    <3> QED
      BY <3>1, <3>3, <3>4, SeqEqual, Zenon
  <2>9. ASSUME NEW i \in N + 1 - n .. N
        PROVE  IsBest(dict, text, i, most, SubSeq(t, 1, N - i), t[N + 1 - i])
    <3>1. CASE i = N + 1 - n
      <4>1. N - i = n - 1 /\ N + 1 - i = n /\ n - 1 \in 0 .. n - 1
        BY <3>1
      <4>2. SubSeq(t, 1, n - 1) = s
        <5>1. SubSeq(t, 1, n - 1) = SubSeq(s, 1, n - 1)
          BY <2>8, <4>1
        <5>2. SubSeq(s, 1, Len(s)) = s
          BY <2>7, SubSeqFull
        <5> QED
          BY <2>7, <5>1, <5>2
      <4>3. SubSeq(t, 1, N - i) = s /\ t[N + 1 - i] = b
        BY <2>7, <4>1, <4>2
      <4> QED
        BY <2>6, <3>1, <4>3
    <3>2. CASE i # N + 1 - n
      <4>1. i \in N + 1 - (n - 1) .. N /\ N - i \in 0 .. n - 1 /\ N + 1 - i \in 1 .. n - 1
        BY <3>2
      <4>2. IsBest(dict, text, i, most, SubSeq(s, 1, N - i), s[N + 1 - i])
        BY <2>1, <4>1, Zenon
      <4>3. SubSeq(t, 1, N - i) = SubSeq(s, 1, N - i) /\ t[N + 1 - i] = s[N + 1 - i]
        BY <2>7, <2>8, <4>1, Zenon
      <4> QED
        BY <4>2, <4>3
    <3> QED
      BY <3>1, <3>2
  <2>10. n \in 0 .. N
    OBVIOUS
  <2> HIDE DEF fits
  <2> QED
    BY <2>4, <2>7, <2>9, <2>10, Zenon
<1>17. finds(kept[N], N)
  <2>1. N \in 0 .. N
    OBVIOUS
  <2> HIDE DEF good
  <2>2. \A n \in 0 .. N : n \in good
    BY <1>15, <1>16, StepByStep
  <2> QED
    BY <2>1, <2>2, Zenon DEF good
<1>18. PICK found : found = kept[N]
  OBVIOUS
<1>19. \A i \in 1 .. N : i \in N + 1 - N .. N
  OBVIOUS
<1>20. found \in Seq(Bests(dict)) /\ Len(found) = N
  BY <1>17, <1>18
<1>21. CalcDP(dict, text, most) = Reverse(found)
  BY <1>1, <1>13, <1>18, Zenon
<1>22. \A i \in 1 .. N :
          IsBest(dict, text, i, most, SubSeq(found, 1, N - i), found[N + 1 - i])
  BY <1>17, <1>18, <1>19, Zenon
<1> QED
  BY <1>1, <1>20, <1>21, <1>22, Zenon

(* Of the dags of CalcDP, each has the heaviest of the words at its place  *)
(* and what is best after it.                                              *)
Onwards(dags, end) == IF end < Len(dags) THEN dags[end + 1].weight ELSE 0
TotalAt(dict, text, dags, i, n) ==
    Onwards(dags, i + n - 1) + WeightOf(dict, Edge(dict, text, i, n).unit)
AreHeaviest(dict, text, most, dags) ==
    /\ dags \in Seq(Bests(dict)) /\ Len(dags) = Len(text)
    /\ \A i \in 1 .. Len(text) :
          /\ \A n : Reaches(dict, text, i, most, n) =>
                TotalAt(dict, text, dags, i, n) <= dags[i].weight
          /\ \/ dags[i] = Default
             \/ \E n : /\ Reaches(dict, text, i, most, n)
                       /\ dags[i].unit = Edge(dict, text, i, n).unit
                       /\ dags[i].weight = TotalAt(dict, text, dags, i, n)

(* CalcDP finds such words for all places, the last first.                 *)
LEMMA DagsAreHeaviest ==
    ASSUME NEW dict, SoundDict(dict), NEW X, NEW text \in Seq(X), NEW most \in Nat \ {0}
    PROVE  AreHeaviest(dict, text, most, CalcDP(dict, text, most))
<1>1. PICK found \in Seq(Bests(dict)) :
         /\ Len(found) = Len(text) /\ CalcDP(dict, text, most) = Reverse(found)
         /\ \A i \in 1 .. Len(text) :
               IsBest(dict, text, i, most, SubSeq(found, 1, Len(text) - i),
                      found[Len(text) + 1 - i])
  BY BestIsFound
<1>2. PICK N \in Nat : N = Len(text)
  OBVIOUS
<1>3. PICK dags : dags = Reverse(found)
  OBVIOUS
<1>4. dags = [i \in 1 .. N |-> found[N - i + 1]]
  BY <1>1, <1>2, <1>3 DEF Reverse
<1>5. \A i \in 1 .. N : N - i + 1 \in 1 .. N /\ N - i + 1 = N + 1 - i
  OBVIOUS
<1>6. \A i \in 1 .. N : found[N - i + 1] \in Bests(dict)
  BY <1>1, <1>2, <1>5
<1>7. dags \in Seq(Bests(dict)) /\ Len(dags) = N
  BY <1>4, <1>6
<1>8. \A i \in 1 .. N : dags[i] = found[N + 1 - i]
  BY <1>4, <1>5
<1>9. ASSUME NEW i \in 1 .. N, NEW n \in 1 .. N - i + 1
      PROVE  LET total == Total(dict, text, SubSeq(found, 1, N - i), Edge(dict, text, i, n))
             IN  /\ total.unit = Edge(dict, text, i, n).unit
                 /\ total.weight = TotalAt(dict, text, dags, i, n)
  <2>1. PICK before : before = SubSeq(found, 1, N - i)
    OBVIOUS
  <2>2. N - i \in Nat /\ N - i <= Len(found)
    BY <1>1, <1>2
  <2>3. \A k \in 1 .. N - i : before[k] = found[k]
    BY <1>1, <2>1, <2>2, FirstOfSeq
  <2>4. PICK end : end = i + n - 1
    OBVIOUS
  <2>5. After(text, before, end) = Onwards(dags, end)
    <3>1. CASE end < N
      <4>1. N - end \in 1 .. N - i /\ end + 1 \in 1 .. N /\ N + 1 - (end + 1) = N - end
        BY <2>4, <3>1
      <4>2. before[N - end] = dags[end + 1]
        BY <1>8, <2>3, <4>1
      <4> QED
        BY <1>2, <1>7, <3>1, <4>2 DEF After, Onwards
    <3>2. CASE ~(end < N)
      BY <1>2, <1>7, <3>2 DEF After, Onwards
    <3> QED
      BY <3>1, <3>2
  <2>6. PICK e : e = Edge(dict, text, i, n)
    OBVIOUS
  <2>7. e.end = end
    BY <2>4, <2>6 DEF Edge
  <2>8. Total(dict, text, before, e) =
           [unit |-> e.unit, weight |-> Onwards(dags, end) + WeightOf(dict, e.unit)]
    BY <2>5, <2>7 DEF Total
  <2>9. TotalAt(dict, text, dags, i, n) = Onwards(dags, end) + WeightOf(dict, e.unit)
    BY <2>4, <2>6 DEF TotalAt
  <2> QED
    BY <2>1, <2>6, <2>8, <2>9
<1>10. ASSUME NEW i \in 1 .. N
       PROVE  /\ \A n : Reaches(dict, text, i, most, n) =>
                    TotalAt(dict, text, dags, i, n) <= dags[i].weight
              /\ \/ dags[i] = Default
                 \/ \E n : /\ Reaches(dict, text, i, most, n)
                           /\ dags[i].unit = Edge(dict, text, i, n).unit
                           /\ dags[i].weight = TotalAt(dict, text, dags, i, n)
  <2>1. PICK before : before = SubSeq(found, 1, N - i)
    OBVIOUS
  <2>2. IsBest(dict, text, i, most, before, dags[i])
    BY <1>1, <1>2, <1>8, <2>1
  <2>3. \A n : Reaches(dict, text, i, most, n) => n \in 1 .. N - i + 1
    BY <1>2, Zenon DEF Reaches
  <2>4. ASSUME NEW n, Reaches(dict, text, i, most, n)
        PROVE  TotalAt(dict, text, dags, i, n) <= dags[i].weight
    <3>1. Total(dict, text, before, Edge(dict, text, i, n)).weight <= dags[i].weight
      BY <2>2, <2>4, Zenon DEF IsBest
    <3>2. Total(dict, text, before, Edge(dict, text, i, n)).weight
             = TotalAt(dict, text, dags, i, n)
      BY <1>9, <2>1, <2>3, <2>4, Zenon
    <3> QED
      BY <3>1, <3>2
  <2>5. ASSUME NEW n, Reaches(dict, text, i, most, n),
               dags[i] = Total(dict, text, before, Edge(dict, text, i, n))
        PROVE  /\ dags[i].unit = Edge(dict, text, i, n).unit
               /\ dags[i].weight = TotalAt(dict, text, dags, i, n)
    <3>1. n \in 1 .. N - i + 1
      BY <2>3, <2>5, Zenon
    <3> QED
      BY <1>9, <2>1, <2>5, <3>1
  <2> QED
    BY <2>2, <2>4, <2>5, Zenon DEF IsBest
<1> QED
  BY <1>1, <1>2, <1>3, <1>7, <1>10, Zenon DEF AreHeaviest
-----------------------------------------------------------------------------
(* Cuts from place to place                                                *)

(* A cut of the places to N, piece by piece: from each place there is a    *)
(* piece, to an end, and the cut of what follows the end.                  *)
PiecesTo(N, T, piece, end) ==
    /\ N \in Nat
    /\ piece \in [1 .. N -> Seq(T)]
    /\ end \in [1 .. N -> 1 .. N] /\ \A i \in 1 .. N : i <= end[i]
Cuts(from, N, piece, end) ==
    /\ DOMAIN from = 1 .. N + 1
    /\ from[N + 1] = << >>
    /\ \A i \in 1 .. N : from[i] = piece[i] \o from[end[i] + 1]

(* There is a cut, by recursion from the last place to the first.          *)
LEMMA CutExists ==
    ASSUME NEW N, NEW T, NEW piece, NEW end, PiecesTo(N, T, piece, end)
    PROVE  \E from \in [1 .. N + 1 -> Seq(T)] : Cuts(from, N, piece, end)
<1> USE DEF PiecesTo
<1>1. PICK P \in Nat : P = N + 1 /\ P # 0
  OBVIOUS
<1>2. PICK first : first = [i \in 1 .. P |-> << >>]
  OBVIOUS
<1>3. PICK next : next = [i \in 1 .. P |-> IF i = P THEN P ELSE end[i] + 1]
  OBVIOUS
<1>4. PICK step : step =
         [i \in 1 .. P |-> [s \in Seq(T) |-> IF i = P THEN << >> ELSE piece[i] \o s]]
  OBVIOUS
<1>5. \A i \in 1 .. P : i # P => i \in 1 .. N
  BY <1>1
<1>6. first \in [1 .. P -> Seq(T)]
  <2>1. << >> \in Seq(T)
    OBVIOUS
  <2> QED
    BY <1>2, <2>1
<1>7. next \in [1 .. P -> 1 .. P]
  <2>1. ASSUME NEW i \in 1 .. P
        PROVE  (IF i = P THEN P ELSE end[i] + 1) \in 1 .. P
    BY <1>1, <1>5
  <2> QED
    BY <1>3, <2>1
<1>8. step \in [1 .. P -> [Seq(T) -> Seq(T)]]
  <2>1. ASSUME NEW i \in 1 .. P, NEW s \in Seq(T)
        PROVE  (IF i = P THEN << >> ELSE piece[i] \o s) \in Seq(T)
    <3>1. CASE i = P
      BY <3>1
    <3>2. CASE i # P
      <4>1. piece[i] \in Seq(T)
        BY <1>5, <3>2
      <4>2. piece[i] \o s \in Seq(T)
        BY <4>1
      <4> QED
        BY <3>2, <4>2
    <3> QED
      BY <3>1, <3>2
  <2> QED
    BY <1>4, <2>1
<1>9. PICK from : Onward(from, P, Seq(T), first, next, step)
  BY <1>1, <1>6, <1>7, <1>8, OnwardRecursion, Zenon
<1>10. from \in [1 .. P -> Seq(T)]
  BY <1>9 DEF Onward
<1>11. from[P] = << >>
  <2>1. P \in 1 .. P /\ next[P] = P /\ first[P] = << >> /\ ~(P > P)
    BY <1>1, <1>2, <1>3
  <2>2. from[P] = IF next[P] > P THEN step[P][from[next[P]]] ELSE first[P]
    BY <1>9, <2>1, Zenon DEF Onward
  <2> QED
    BY <2>1, <2>2
<1>12. ASSUME NEW i \in 1 .. N
       PROVE  from[i] = piece[i] \o from[end[i] + 1]
  <2>1. i \in 1 .. P /\ i # P
    BY <1>1
  <2>2. next[i] = end[i] + 1 /\ next[i] > i /\ next[i] \in 1 .. P
    BY <1>3, <1>7, <2>1
  <2>3. from[i] = IF next[i] > i THEN step[i][from[next[i]]] ELSE first[i]
    BY <1>9, <2>1, Zenon DEF Onward
  <2>4. from[next[i]] \in Seq(T)
    BY <1>10, <2>2
  <2>5. step[i][from[next[i]]] = piece[i] \o from[next[i]]
    BY <1>4, <2>1, <2>4
  <2> QED
    BY <2>2, <2>3, <2>5
<1>13. Cuts(from, N, piece, end)
  BY <1>1, <1>10, <1>11, <1>12 DEF Cuts
<1> QED
  BY <1>1, <1>10, <1>13, Zenon

(* There is no other.                                                      *)
LEMMA CutIsUnique ==
    ASSUME NEW N, NEW T, NEW piece, NEW end, PiecesTo(N, T, piece, end),
           NEW f, NEW g, Cuts(f, N, piece, end), Cuts(g, N, piece, end)
    PROVE  \A i \in 1 .. N + 1 : f[i] = g[i]
<1> USE DEF PiecesTo
<1>1. PICK good : good = {i \in 1 .. N + 1 : f[i] = g[i]}
  OBVIOUS
<1>2. PICK P \in Nat : P = N + 1
  OBVIOUS
<1>3. ASSUME NEW i \in 1 .. P, \A j \in i + 1 .. P : j \in good
      PROVE  i \in good
  <2>1. CASE i = P
    <3>1. f[N + 1] = g[N + 1]
      BY DEF Cuts
    <3> QED
      BY <1>1, <1>2, <2>1, <3>1
  <2>2. CASE i # P
    <3>1. i \in 1 .. N
      BY <1>2, <2>2
    <3>2. end[i] + 1 \in i + 1 .. P
      BY <1>2, <3>1
    <3>3. f[end[i] + 1] = g[end[i] + 1]
      BY <1>1, <1>3, <3>2
    <3>4. f[i] = piece[i] \o f[end[i] + 1] /\ g[i] = piece[i] \o g[end[i] + 1]
      BY <3>1, Zenon DEF Cuts
    <3>5. f[i] = g[i]
      BY <3>3, <3>4, Zenon
    <3> QED
      BY <1>1, <1>2, <3>5
  <2> QED
    BY <2>1, <2>2
<1>4. \A i \in 1 .. P : i \in good
  BY <1>3, FromTheEnd, Zenon
<1> QED
  BY <1>1, <1>2, <1>4

(* A cut, whichever it is, consists of what the pieces consist of.         *)
LEMMA CutIsTyped ==
    ASSUME NEW N, NEW T, NEW piece, NEW end, PiecesTo(N, T, piece, end),
           NEW from, Cuts(from, N, piece, end)
    PROVE  \A i \in 1 .. N + 1 : from[i] \in Seq(T)
<1>1. PICK f \in [1 .. N + 1 -> Seq(T)] : Cuts(f, N, piece, end)
  BY CutExists
<1>2. \A i \in 1 .. N + 1 : from[i] = f[i]
  <2>1. PICK g : g = f
    OBVIOUS
  <2>2. Cuts(g, N, piece, end)
    BY <1>1, <2>1
  <2>3. \A i \in 1 .. N + 1 : from[i] = g[i]
    BY <2>2, CutIsUnique
  <2> QED
    BY <2>1, <2>3
<1> QED
  BY <1>2

(* When each piece is the text to its end, the cut is the text.            *)
ArePieces(piece, end, runes) ==
    \A i \in 1 .. Len(runes) : FlattenSeq(piece[i]) = SubSeq(runes, i, end[i])

(* The pieces are joined from the last to the first.                       *)
LEMMA CutOfText ==
    ASSUME NEW R, NEW runes \in Seq(R), NEW N, N = Len(runes),
           NEW W, W = Seq(R), NEW piece, NEW end, PiecesTo(N, W, piece, end),
           ArePieces(piece, end, runes),
           NEW from, Cuts(from, N, piece, end)
    PROVE  FlattenSeq(from[1]) = runes
<1>0. \A i \in 1 .. N + 1 : from[i] \in Seq(W)
  BY CutIsTyped
<1> USE DEF PiecesTo
<1>1. PICK good : good = {i \in 1 .. N + 1 : FlattenSeq(from[i]) = SubSeq(runes, i, N)}
  OBVIOUS
<1>2. PICK P \in Nat : P = N + 1
  OBVIOUS
<1>3. ASSUME NEW i \in 1 .. P, \A j \in i + 1 .. P : j \in good
      PROVE  i \in good
  <2>1. CASE i = P
    <3>1. from[P] = << >>
      BY <1>2 DEF Cuts
    <3>2. FlattenSeq(<< >>) = << >>
      BY DEF FlattenSeq
    <3>3. SubSeq(runes, P, N) = << >>
      BY <1>2, SubSeqEmpty
    <3>4. FlattenSeq(from[P]) = SubSeq(runes, P, N)
      BY <3>1, <3>2, <3>3
    <3> QED
      BY <1>1, <1>2, <2>1, <3>4
  <2>2. CASE i # P
    <3>1. i \in 1 .. N
      BY <1>2, <2>2
    <3>2. PICK e \in i .. N : e = end[i]
      BY <3>1
    <3>3. e + 1 \in i + 1 .. P /\ e + 1 \in 1 .. N + 1
      BY <1>2, <3>2
    <3>4. FlattenSeq(from[e + 1]) = SubSeq(runes, e + 1, N)
      BY <1>1, <1>3, <3>3
    <3>5. from[i] = piece[i] \o from[e + 1]
      BY <3>1, <3>2 DEF Cuts
    <3>6. piece[i] \in Seq(Seq(R)) /\ from[e + 1] \in Seq(Seq(R))
      <4>1. piece[i] \in Seq(W) /\ from[e + 1] \in Seq(W)
        BY <1>0, <3>1, <3>3, Zenon
      <4> QED
        BY <4>1
    <3>7. FlattenSeq(piece[i] \o from[e + 1])
             = FlattenSeq(piece[i]) \o FlattenSeq(from[e + 1])
      BY <3>6, FlattenConcat, Zenon
    <3>8. FlattenSeq(piece[i]) = SubSeq(runes, i, e)
      BY <3>1, <3>2 DEF ArePieces
    <3>9. SubSeq(runes, i, e) \o SubSeq(runes, e + 1, N) = SubSeq(runes, i, N)
      <4>1. i \in 1 .. Len(runes) + 1 /\ e \in i - 1 .. Len(runes) /\ N \in e .. Len(runes)
        BY <3>1
      <4> QED
        BY <4>1, ConcatAdjacentSubSeq
    <3>10. FlattenSeq(from[i]) = SubSeq(runes, i, N)
      BY <3>4, <3>5, <3>7, <3>8, <3>9
    <3> QED
      BY <1>1, <1>2, <3>10
  <2> QED
    BY <2>1, <2>2
<1>4. \A i \in 1 .. P : i \in good
  BY <1>3, FromTheEnd, Zenon
<1>5. FlattenSeq(from[1]) = SubSeq(runes, 1, N)
  <2>1. 1 \in 1 .. P
    BY <1>2
  <2> QED
    BY <1>1, <1>4, <2>1
<1>6. SubSeq(runes, 1, N) = runes
  BY SubSeqFull
<1> QED
  BY <1>5, <1>6
-----------------------------------------------------------------------------
(* MPSegment: the cut is the heaviest                                      *)

(* Multiples of what is not positive.                                      *)
LEMMA Multiples ==
    ASSUME NEW c \in Int, c <= 0, NEW N \in Nat, NEW k \in 0 .. N
    PROVE  /\ c * k \in Int /\ c * (k + 1) = c * k + c
           /\ c * N <= c * k
<1>1. c * k \in Int /\ c * (k + 1) = c * k + c
  OBVIOUS
<1>2. PICK d \in Nat : N = k + d
  <2>1. N - k \in Nat /\ N = k + (N - k)
    OBVIOUS
  <2> QED
    BY <2>1
<1>3. c * N = c * k + c * d
  BY <1>2
<1>4. c * d <= 0
  OBVIOUS
<1> QED
  BY <1>1, <1>3, <1>4

(* What a single rune weighs at least.                                     *)
LEMMA RuneWeight ==
    ASSUME NEW dict, SoundDict(dict), NEW size, NEW least \in Int,
           IsLeast(dict, least, size), NEW word, Len(word) = 1
    PROVE  least <= WeightOf(dict, Find(dict, word))
<1>1. CASE Find(dict, word) = NoUnit
  BY <1>1 DEF WeightOf, IsLeast
<1>2. CASE Find(dict, word) # NoUnit
  <2>1. word \in DOMAIN dict.trie /\ Find(dict, word) = dict.trie[word]
    BY <1>2, Zenon DEF Find
  <2>2. least <= dict.trie[word].weight
    BY <1>2, <2>1, Zenon DEF IsLeast
  <2> QED
    BY <1>2, <2>1, <2>2 DEF WeightOf
<1> QED
  BY <1>1, <1>2

(* So a word is chosen at every place.                                     *)
ChoosesWords(dict, text, most, dags) ==
    \A i \in 1 .. Len(text) :
        \E n : /\ Reaches(dict, text, i, most, n)
               /\ dags[i].unit = Edge(dict, text, i, n).unit
               /\ dags[i].weight = TotalAt(dict, text, dags, i, n)

(* The runes alone weigh more than the default, so that the best is not    *)
(* it.                                                                     *)
LEMMA WordsAreChosen ==
    ASSUME NEW dict, SoundDict(dict), NEW X, NEW text \in Seq(X), NEW most \in Nat \ {0},
           RunesAreLight(dict, Len(text)),
           NEW dags, AreHeaviest(dict, text, most, dags)
    PROVE  ChoosesWords(dict, text, most, dags)
<1>1. PICK N \in Nat : N = Len(text)
  OBVIOUS
<1>2. PICK least \in Int : least <= 0 /\ IsLeast(dict, least, N)
  <2>1. PICK least \in MinDouble .. 0 : IsLeast(dict, least, N)
    BY <1>1, Zenon DEF RunesAreLight
  <2>2. least \in Int /\ least <= 0
    BY DEF MinDouble
  <2> QED
    BY <2>1, <2>2, Zenon
<1>3. least <= 0 /\ MinDouble < least * N
  BY <1>2 DEF IsLeast
<1>4. \A i \in 1 .. N : dags[i].weight \in Int
  <2> TAKE i \in 1 .. N
  <2>1. dags[i] \in Bests(dict)
    BY <1>1 DEF AreHeaviest
  <2> QED
    BY <2>1 DEF Bests
<1>5. PICK good : good = {i \in 1 .. N : least * (N - i + 1) <= dags[i].weight}
  OBVIOUS
<1>6. ASSUME NEW i \in 1 .. N, \A j \in i + 1 .. N : j \in good
      PROVE  i \in good
  <2>1. PICK n : n = 1
    OBVIOUS
  <2>2. Reaches(dict, text, i, most, n)
    <3>1. n \in 1 .. Len(text) - i + 1 /\ n <= most
      BY <1>1, <2>1
    <3> QED
      BY <2>1, <3>1, Zenon DEF Reaches
  <2>3. TotalAt(dict, text, dags, i, n) <= dags[i].weight
    BY <1>1, <2>2, Zenon DEF AreHeaviest
  <2>4. PICK word : word = SubSeq(text, i, i)
    OBVIOUS
  <2>5. i + n - 1 = i
    BY <2>1
  <2>6. Edge(dict, text, i, n).unit = Find(dict, word)
    BY <2>4, <2>5 DEF Edge
  <2>7. Len(word) = 1
    BY <1>1, <2>4
  <2>8. PICK w \in Int : w = WeightOf(dict, Find(dict, word))
    BY FoundUnit, Zenon
  <2>9. least <= w
    BY <1>2, <2>7, <2>8, RuneWeight
  <2>10. PICK a \in Int : a = Onwards(dags, i) /\ least * (N - i) <= a
    <3>1. CASE i < N
      <4>1. i + 1 \in i + 1 .. N /\ i + 1 \in 1 .. N /\ N - (i + 1) + 1 = N - i
        BY <3>1
      <4>2. least * (N - (i + 1) + 1) <= dags[i + 1].weight
        BY <1>5, <1>6, <4>1
      <4>3. Onwards(dags, i) = dags[i + 1].weight
        BY <1>1, <3>1 DEF Onwards, AreHeaviest
      <4> QED
        BY <1>4, <4>1, <4>2, <4>3
    <3>2. CASE ~(i < N)
      <4>1. N - i = 0 /\ least * 0 = 0
        BY <3>2
      <4>2. Onwards(dags, i) = 0
        BY <1>1, <3>2 DEF Onwards, AreHeaviest
      <4> QED
        BY <4>1, <4>2
    <3> QED
      BY <3>1, <3>2
  <2>11. TotalAt(dict, text, dags, i, n) = a + w
    BY <2>5, <2>6, <2>8, <2>10 DEF TotalAt
  <2>12. PICK k \in Nat : k = N - i /\ k \in 0 .. N
    OBVIOUS
  <2>13. PICK m \in Int : m = least * k
    OBVIOUS
  <2>14. least * (k + 1) = m + least
    BY <1>3, <2>12, <2>13, Multiples
  <2>15. m + least <= dags[i].weight
    BY <1>4, <2>3, <2>9, <2>10, <2>11, <2>12, <2>13
  <2> QED
    BY <1>5, <2>12, <2>14, <2>15
<1>7. \A i \in 1 .. N : i \in good
  BY <1>6, FromTheEnd, Zenon
<1>8. ASSUME NEW i \in 1 .. N
      PROVE  dags[i] # Default
  <2>1. PICK k \in 0 .. N : k = N - i + 1
    OBVIOUS
  <2>2. least * N <= least * k
    BY <1>3, <2>1, Multiples
  <2>3. least * k <= dags[i].weight
    BY <1>5, <1>7, <2>1
  <2>4. PICK p \in Int, q \in Int : p = least * N /\ q = least * k
    OBVIOUS
  <2>5. MinDouble < dags[i].weight
    BY <1>3, <1>4, <2>2, <2>3, <2>4 DEF MinDouble
  <2>6. Default.weight = MinDouble /\ MinDouble \in Int
    BY DEF Default, MinDouble
  <2> QED
    BY <2>5, <2>6
<1> QED
  BY <1>1, <1>8, Zenon DEF AreHeaviest, ChoosesWords

(* The cut that the dags make.                                             *)
EndOf(dags, i) == IF dags[i].unit = NoUnit THEN i ELSE i + Len(dags[i].unit.word) - 1

(* The runes of some runes.                                                *)
LEMMA UnicodeOf ==
    ASSUME NEW R, NEW runes \in Seq(R)
    PROVE  /\ Unicode(runes) \in Seq({r.rune : r \in R})
           /\ Len(Unicode(runes)) = Len(runes)
           /\ \A i \in 1 .. Len(runes) : Unicode(runes)[i] = runes[i].rune
<1>1. PICK N \in Nat : N = Len(runes) /\ DOMAIN runes = 1 .. N
  BY LenProperties
<1>2. PICK X : X = {r.rune : r \in R}
  OBVIOUS
<1>3. \A i \in 1 .. N : runes[i].rune \in X
  <2> TAKE i \in 1 .. N
  <2>1. runes[i] \in R
    BY <1>1
  <2> QED
    BY <1>2, <2>1, Zenon
<1>4. PICK text : text = [i \in 1 .. N |-> runes[i].rune]
  OBVIOUS
<1>5. Unicode(runes) = text
  BY <1>1, <1>4, Zenon DEF Unicode
<1>6. text \in Seq(X) /\ Len(text) = N /\ \A i \in 1 .. N : text[i] = runes[i].rune
  BY <1>3, <1>4
<1> QED
  BY <1>1, <1>2, <1>5, <1>6

(* The runes of a part are a part of the runes.                            *)
LEMMA UnicodeOfPart ==
    ASSUME NEW R, NEW runes \in Seq(R), NEW i \in 1 .. Len(runes), NEW j \in i .. Len(runes)
    PROVE  Unicode(SubSeq(runes, i, j)) = SubSeq(Unicode(runes), i, j)
<1>1. PICK X : X = {r.rune : r \in R}
  OBVIOUS
<1>2. PICK text : text = Unicode(runes)
  OBVIOUS
<1>3. PICK part : part = SubSeq(runes, i, j)
  OBVIOUS
<1>4. PICK n \in Nat : n = j - i + 1
  OBVIOUS
<1>5. i \in Nat /\ j \in Nat /\ 1 <= i /\ j <= Len(runes) /\ i <= j + 1
  OBVIOUS
<1>6. part \in Seq(R) /\ Len(part) = n /\ \A k \in 1 .. n : part[k] = runes[i + k - 1]
  BY <1>3, <1>4, <1>5, PartOfSeq
<1>7. /\ text \in Seq(X) /\ Len(text) = Len(runes)
      /\ \A k \in 1 .. Len(runes) : text[k] = runes[k].rune
  BY <1>1, <1>2, UnicodeOf
<1>8. /\ Unicode(part) \in Seq(X) /\ Len(Unicode(part)) = n
      /\ \A k \in 1 .. n : Unicode(part)[k] = part[k].rune
  BY <1>1, <1>6, UnicodeOf
<1>9. PICK other : other = SubSeq(text, i, j)
  OBVIOUS
<1>10. other \in Seq(X) /\ Len(other) = n /\ \A k \in 1 .. n : other[k] = text[i + k - 1]
  <2>1. j <= Len(text)
    BY <1>7
  <2> QED
    BY <1>4, <1>5, <1>7, <1>9, <2>1, PartOfSeq
<1>11. \A k \in 1 .. n : Unicode(part)[k] = other[k]
  <2> TAKE k \in 1 .. n
  <2>1. i + k - 1 \in 1 .. Len(runes)
    BY <1>4
  <2> QED
    BY <1>6, <1>7, <1>8, <1>10, <2>1
<1>12. Unicode(part) = other
  BY <1>8, <1>10, <1>11, SeqEqual
<1> QED
  BY <1>2, <1>3, <1>9, <1>12

(* CutByDag cuts by the words chosen, and the cut weighs what CalcDP says. *)
LEMMA DagsCut ==
    ASSUME NEW dict, SoundDict(dict), NEW R, NEW runes \in Seq(R), NEW most \in Nat \ {0},
           NEW dags, AreHeaviest(dict, Unicode(runes), most, dags),
           ChoosesWords(dict, Unicode(runes), most, dags)
    PROVE  /\ CutByDag(runes, dags) \in Seq(Seq(R))
           /\ FlattenSeq(CutByDag(runes, dags)) = runes
           /\ WeightOfAll(dict, CutByDag(runes, dags)) = Onwards(dags, 0)
<1> DEFINE Body(f) ==
        [i \in 1 .. Len(runes) + 1 |->
            IF i > Len(runes) THEN << >>
            ELSE <<SubSeq(runes, i, EndOf(dags, i))>> \o f[EndOf(dags, i) + 1]]
<1>1. PICK N \in Nat : N = Len(runes)
  OBVIOUS
<1>2. PICK X : X = {r.rune : r \in R}
  OBVIOUS
<1>3. PICK text \in Seq(X) : text = Unicode(runes) /\ Len(text) = N
  BY <1>1, <1>2, UnicodeOf
<1>4. \A i \in 1 .. N : \E n \in 1 .. N - i + 1 :
         /\ EndOf(dags, i) = i + n - 1
         /\ dags[i].weight = TotalAt(dict, text, dags, i, n)
  <2> TAKE i \in 1 .. N
  <2>1. PICK n : /\ Reaches(dict, text, i, most, n)
                 /\ dags[i].unit = Edge(dict, text, i, n).unit
                 /\ dags[i].weight = TotalAt(dict, text, dags, i, n)
    BY <1>3, Zenon DEF ChoosesWords
  <2>2. n \in 1 .. N - i + 1 /\ (n = 1 \/ Edge(dict, text, i, n).unit # NoUnit)
    BY <1>3, <2>1, Zenon DEF Reaches
  <2>3. PICK word : word = SubSeq(text, i, i + n - 1)
    OBVIOUS
  <2>4. PICK unit : unit = dags[i].unit
    OBVIOUS
  <2>5. unit = Find(dict, word) /\ (n = 1 \/ unit # NoUnit)
    BY <2>1, <2>2, <2>3, <2>4 DEF Edge
  <2>6. EndOf(dags, i) = i + n - 1
    <3>1. CASE unit = NoUnit
      BY <2>4, <2>5, <3>1 DEF EndOf
    <3>2. CASE unit # NoUnit
      <4>1. unit.word = word
        BY <2>5, <3>2, FoundUnit, Zenon DEF IsUnitOf
      <4>2. Len(word) = n
        BY <1>3, <2>2, <2>3
      <4> QED
        BY <2>4, <3>2, <4>1, <4>2 DEF EndOf
    <3> QED
      BY <3>1, <3>2
  <2> QED
    BY <2>1, <2>2, <2>6, Zenon
<1>5. PICK end : end = [i \in 1 .. N |-> EndOf(dags, i)]
  OBVIOUS
<1>6. \A i \in 1 .. N : end[i] = EndOf(dags, i) /\ end[i] \in i .. N
  <2> TAKE i \in 1 .. N
  <2>1. PICK n \in 1 .. N - i + 1 : EndOf(dags, i) = i + n - 1
    BY <1>4
  <2> QED
    BY <1>5, <2>1
<1>7. PICK piece : piece = [i \in 1 .. N |-> <<SubSeq(runes, i, end[i])>>]
  OBVIOUS
<1>8. \A i \in 1 .. N : SubSeq(runes, i, end[i]) \in Seq(R)
  <2> TAKE i \in 1 .. N
  <2>1. PICK e \in i .. N : e = end[i]
    BY <1>6
  <2>2. i \in Nat /\ e \in Nat /\ 1 <= i /\ e <= Len(runes) /\ i <= e + 1
    BY <1>1
  <2> QED
    BY <2>1, <2>2, PartOfSeq
<1>9. PiecesTo(N, Seq(R), piece, end)
  <2>1. PICK W : W = Seq(R)
    OBVIOUS
  <2>2. \A i \in 1 .. N : <<SubSeq(runes, i, end[i])>> \in Seq(W)
    BY <1>8, <2>1
  <2>3. piece \in [1 .. N -> Seq(W)]
    BY <1>7, <2>2
  <2>4. end \in [1 .. N -> 1 .. N] /\ \A i \in 1 .. N : i <= end[i]
    <3>1. \A i \in 1 .. N : end[i] \in 1 .. N /\ i <= end[i]
      BY <1>6
    <3>2. end = [i \in 1 .. N |-> end[i]]
      BY <1>5
    <3> HIDE <1>5
    <3> QED
      BY <3>1, <3>2
  <2> QED
    BY <2>1, <2>3, <2>4 DEF PiecesTo
<1>10. PICK from \in [1 .. N + 1 -> Seq(Seq(R))] : Cuts(from, N, piece, end)
  BY <1>9, CutExists
<1>11. from = Body(from)
  <2>1. ASSUME NEW i \in 1 .. N + 1
        PROVE  from[i] = IF i > N THEN << >>
                         ELSE <<SubSeq(runes, i, EndOf(dags, i))>>
                                  \o from[EndOf(dags, i) + 1]
    <3>1. CASE i > N
      <4>1. i = N + 1
        BY <3>1
      <4> QED
        BY <1>10, <3>1, <4>1 DEF Cuts
    <3>2. CASE ~(i > N)
      <4>1. i \in 1 .. N
        BY <3>2
      <4>2. from[i] = piece[i] \o from[end[i] + 1] /\ end[i] = EndOf(dags, i)
        BY <1>6, <1>10, <4>1, Zenon DEF Cuts
      <4>3. piece[i] = <<SubSeq(runes, i, end[i])>>
        BY <1>7, <4>1
      <4> QED
        BY <3>2, <4>2, <4>3
    <3> QED
      BY <3>1, <3>2
  <2>2. from = [i \in 1 .. N + 1 |-> from[i]]
    OBVIOUS
  <2>3. from = [i \in 1 .. N + 1 |->
                   IF i > N THEN << >>
                   ELSE <<SubSeq(runes, i, EndOf(dags, i))>> \o from[EndOf(dags, i) + 1]]
    BY <2>1, <2>2
  <2> QED
    BY <1>1, <2>3, Zenon
<1>12. PICK kept : kept = CHOOSE g : g = Body(g)
  BY Zenon
<1>13. kept = Body(kept)
  BY <1>11, <1>12, Zenon
<1>14. CutByDag(runes, dags) = kept[1]
  BY <1>12, Zenon DEF CutByDag, EndOf
<1>15. Cuts(kept, N, piece, end)
  <2>1. DOMAIN kept = 1 .. N + 1
    BY <1>1, <1>13
  <2>2. ASSUME NEW i \in 1 .. N + 1
        PROVE  kept[i] = IF i > N THEN << >>
                         ELSE <<SubSeq(runes, i, EndOf(dags, i))>>
                                  \o kept[EndOf(dags, i) + 1]
    <3>1. Body(kept)[i] = IF i > N THEN << >>
                         ELSE <<SubSeq(runes, i, EndOf(dags, i))>>
                                  \o kept[EndOf(dags, i) + 1]
      BY <1>1, Zenon
    <3> QED
      BY <1>13, <3>1, Zenon
  <2> HIDE DEF Body
  <2>3. kept[N + 1] = << >>
    <3>1. N + 1 \in 1 .. N + 1 /\ N + 1 > N
      OBVIOUS
    <3> QED
      BY <2>2, <3>1, Zenon
  <2>4. ASSUME NEW i \in 1 .. N
        PROVE  kept[i] = piece[i] \o kept[end[i] + 1]
    <3>1. i \in 1 .. N + 1 /\ ~(i > N)
      OBVIOUS
    <3>2. kept[i] = <<SubSeq(runes, i, EndOf(dags, i))>> \o kept[EndOf(dags, i) + 1]
      BY <2>2, <3>1, Zenon
    <3>3. piece[i] = <<SubSeq(runes, i, end[i])>> /\ end[i] = EndOf(dags, i)
      BY <1>6, <1>7
    <3> QED
      BY <3>2, <3>3
  <2> QED
    BY <2>1, <2>3, <2>4, Zenon DEF Cuts
<1>16. CutByDag(runes, dags) = from[1]
  <2>1. \A i \in 1 .. N + 1 : kept[i] = from[i]
    <3>1. PICK W : W = Seq(R)
      OBVIOUS
    <3>2. PICK f : f = from
      OBVIOUS
    <3>3. PiecesTo(N, W, piece, end) /\ Cuts(f, N, piece, end)
      BY <1>9, <1>10, <3>1, <3>2
    <3>4. \A i \in 1 .. N + 1 : kept[i] = f[i]
      BY <1>15, <3>3, CutIsUnique
    <3> QED
      BY <3>2, <3>4
  <2>2. 1 \in 1 .. N + 1
    OBVIOUS
  <2> QED
    BY <1>14, <2>1, <2>2
<1> HIDE DEF Body
<1>17. FlattenSeq(from[1]) = runes
  <2>1. \A i \in 1 .. N : FlattenSeq(piece[i]) = SubSeq(runes, i, end[i])
    <3> TAKE i \in 1 .. N
    <3>1. PICK part \in Seq(R) : part = SubSeq(runes, i, end[i])
      BY <1>8
    <3>2. piece[i] = <<part>>
      BY <1>7, <3>1
    <3>3. FlattenSeq(<<part>>) = part
      BY FlattenOne
    <3> QED
      BY <3>1, <3>2, <3>3
  <2>2. ArePieces(piece, end, runes)
    BY <1>1, <2>1 DEF ArePieces
  <2> QED
    BY <1>1, <1>9, <1>10, <2>2, CutOfText
<1>18. WeightOfAll(dict, from[1]) = Onwards(dags, 0)
  <2>1. Weighs(dict)
    BY SoundWeighs
  <2>2. PICK good : good = {i \in 1 .. N + 1 : WeightOfAll(dict, from[i]) = Onwards(dags, i - 1)}
    OBVIOUS
  <2>3. PICK P \in Nat : P = N + 1
    OBVIOUS
  <2>4. Len(dags) = N
    BY <1>3 DEF AreHeaviest
  <2>5. ASSUME NEW i \in 1 .. P, \A j \in i + 1 .. P : j \in good
        PROVE  i \in good
    <3>1. CASE i = P
      <4>1. from[P] = << >> /\ Len(<< >>) = 0
        BY <1>10, <2>3 DEF Cuts
      <4>2. WeightOfAll(dict, << >>) = 0
        <5>1. << >> \in Seq(R)
          OBVIOUS
        <5>2. PICK sum : /\ Weighed(sum, dict, << >>)
                         /\ WeightOfAll(dict, << >>) = sum[Len(<< >>)]
          BY <2>1, <5>1, WeightIsWeighed, Zenon
        <5> QED
          BY <4>1, <5>2 DEF Weighed
      <4>3. Onwards(dags, P - 1) = 0
        BY <2>3, <2>4 DEF Onwards
      <4> QED
        BY <2>2, <2>3, <3>1, <4>1, <4>2, <4>3
    <3>2. CASE i # P
      <4>1. i \in 1 .. N
        BY <2>3, <3>2
      <4>2. PICK n \in 1 .. N - i + 1 : /\ EndOf(dags, i) = i + n - 1
                                        /\ dags[i].weight = TotalAt(dict, text, dags, i, n)
        BY <1>4, <4>1
      <4>3. PICK e \in i .. N : e = end[i] /\ e = i + n - 1
        BY <1>6, <4>1, <4>2
      <4>4. e + 1 \in i + 1 .. P /\ e + 1 \in 1 .. N + 1 /\ e + 1 - 1 = e
        BY <2>3
      <4>5. WeightOfAll(dict, from[e + 1]) = Onwards(dags, e)
        BY <2>2, <2>5, <4>4
      <4>6. PICK part \in Seq(R) : part = SubSeq(runes, i, e)
        BY <1>8, <4>1, <4>3
      <4>7. from[i] = <<part>> \o from[e + 1]
        <5>1. from[i] = piece[i] \o from[end[i] + 1] /\ piece[i] = <<SubSeq(runes, i, end[i])>>
          BY <1>7, <1>10, <4>1 DEF Cuts
        <5> QED
          BY <4>3, <4>6, <5>1
      <4>8. /\ WeightOfAll(dict, <<part>> \o from[e + 1])
                  = WeightOfAll(dict, <<part>>) + WeightOfAll(dict, from[e + 1])
        <5>1. PICK W : W = Seq(R)
          OBVIOUS
        <5>2. PICK a, b : a = <<part>> /\ b = from[e + 1]
          OBVIOUS
        <5>3. a \in Seq(W) /\ b \in Seq(W)
          BY <4>4, <5>1, <5>2
        <5>4. WeightOfAll(dict, a \o b) = WeightOfAll(dict, a) + WeightOfAll(dict, b)
          BY <2>1, <5>3, WeightConcat
        <5> QED
          BY <5>2, <5>4, Zenon
      <4>9. WeightOfAll(dict, <<part>>) = WeightOf(dict, Find(dict, Unicode(part)))
        BY <2>1, WeightOfOne
      <4>10. Unicode(part) = SubSeq(text, i, e)
        <5>1. i \in 1 .. Len(runes) /\ e \in i .. Len(runes)
          BY <1>1, <4>1
        <5> QED
          BY <1>3, <4>6, <5>1, UnicodeOfPart
      <4>11. Edge(dict, text, i, n).unit = Find(dict, SubSeq(text, i, e))
        BY <4>3 DEF Edge
      <4>12. TotalAt(dict, text, dags, i, n)
                = Onwards(dags, e) + WeightOf(dict, Find(dict, Unicode(part)))
        BY <4>3, <4>10, <4>11 DEF TotalAt
      <4>13. PICK w \in Int : w = WeightOf(dict, Find(dict, Unicode(part)))
        BY FoundUnit, Zenon
      <4>14. Onwards(dags, e) \in Int
        <5>1. CASE e < N
          <6>1. dags[e + 1] \in Bests(dict)
            <7>1. e + 1 \in 1 .. Len(dags)
              BY <2>4, <5>1
            <7> QED
              BY <7>1, ElementOfSeq DEF AreHeaviest
          <6> QED
            BY <2>4, <5>1, <6>1 DEF Onwards, Bests
        <5>2. CASE ~(e < N)
          BY <2>4, <5>2 DEF Onwards
        <5> QED
          BY <5>1, <5>2
      <4>15. WeightOfAll(dict, from[i]) = Onwards(dags, e) + w
        BY <4>5, <4>7, <4>8, <4>9, <4>13, <4>14
      <4>16. Onwards(dags, i - 1) = Onwards(dags, e) + w
        <5>1. Onwards(dags, i - 1) = dags[i].weight
          BY <2>4, <4>1 DEF Onwards
        <5> QED
          BY <4>2, <4>12, <4>13, <5>1
      <4>17. i \in 1 .. N + 1
        BY <4>1
      <4> QED
        BY <2>2, <4>15, <4>16, <4>17
    <3> QED
      BY <3>1, <3>2
  <2>6. \A i \in 1 .. P : i \in good
    BY <2>5, FromTheEnd, Zenon
  <2>7. 1 \in 1 .. P /\ 1 - 1 = 0
    BY <2>3
  <2> QED
    BY <2>2, <2>6, <2>7
<1>19. from[1] \in Seq(Seq(R))
  <2>1. 1 \in 1 .. N + 1
    OBVIOUS
  <2> QED
    BY <2>1, Zenon
<1> QED
  BY <1>16, <1>17, <1>18, <1>19

(* The cut after some places, as far as each place: the words to the last  *)
(* one of them, and where the next word begins.                            *)
CutFurther(before, runes, ends, x) ==
    IF x \notin ends THEN before
    ELSE [left |-> x + 1, words |-> Append(before.words, SubSeq(runes, before.left, x))]
CutsAfter(cut, R, runes, ends) ==
    /\ cut[0] = [left |-> 1, words |-> << >>]
    /\ \A x \in 1 .. Len(runes) : cut[x] = CutFurther(cut[x - 1], runes, ends, x)
    /\ \A x \in 0 .. Len(runes) :
          /\ cut[x].left \in 1 .. x + 1 /\ cut[x].words \in Seq(Seq(R))
          /\ x \in ends => cut[x].left = x + 1
          /\ FlattenSeq(cut[x].words) = SubSeq(runes, 1, cut[x].left - 1)

(* CutAfter goes through the text so.                                      *)
LEMMA CutAfterCuts ==
    ASSUME NEW R, NEW runes \in Seq(R), NEW ends
    PROVE  \E cut : /\ CutsAfter(cut, R, runes, ends)
                    /\ CutAfter(runes, ends) = cut[Len(runes)].words
<1> DEFINE Body(f) ==
        [x \in 0 .. Len(runes) |->
            IF x = 0 THEN [left |-> 1, words |-> << >>]
            ELSE CutFurther(f[x - 1], runes, ends, x)]
           T == [left : Nat \ {0}, words : Seq(Seq(R))]
<1>1. PICK N \in Nat : N = Len(runes)
  OBVIOUS
<1>2. PICK first \in T : first = [left |-> 1, words |-> << >>]
  <2>1. PICK W : W = Seq(R)
    OBVIOUS
  <2>2. << >> \in Seq(W) /\ 1 \in Nat \ {0}
    OBVIOUS
  <2>3. [left |-> 1, words |-> << >>] \in [left : Nat \ {0}, words : Seq(W)]
    BY <2>2
  <2> QED
    BY <2>1, <2>3
<1>3. ASSUME NEW x \in 1 .. N, NEW before \in T
      PROVE  CutFurther(before, runes, ends, x) \in T
  <2>1. CASE x \notin ends
    BY <2>1 DEF CutFurther
  <2>2. CASE x \in ends
    <3>1. PICK left \in Nat \ {0} : left = before.left
      OBVIOUS
    <3>2. PICK W : W = Seq(R)
      OBVIOUS
    <3>3. PICK words \in Seq(W) : words = before.words
      BY <3>2
    <3>4. PICK part : part = SubSeq(runes, left, x)
      OBVIOUS
    <3>5. part \in W
      <4>1. \A i \in left .. x : runes[i] \in R
        BY <1>1
      <4> QED
        BY <3>2, <3>4, <4>1, SubSeqProperties
    <3>6. Append(words, part) \in Seq(W)
      BY <3>5
    <3>7. CutFurther(before, runes, ends, x) = [left |-> x + 1, words |-> Append(words, part)]
      BY <2>2, <3>1, <3>3, <3>4 DEF CutFurther
    <3>8. x + 1 \in Nat \ {0}
      OBVIOUS
    <3> QED
      BY <3>2, <3>6, <3>7, <3>8
  <2> QED
    BY <2>1, <2>2
<1> HIDE DEF T
<1>4. PICK step : step = [x \in 1 .. N |-> [before \in T |-> CutFurther(before, runes, ends, x)]]
  OBVIOUS
<1>5. PICK f : Steps(f, N, T, first, step)
  <2>1. step \in [1 .. N -> [T -> T]]
    BY <1>3, <1>4
  <2> QED
    BY <2>1, Iteration
<1>6. f \in [0 .. N -> T] /\ f[0] = first
  BY <1>5 DEF Steps
<1>7. \A x \in 1 .. N : f[x] = CutFurther(f[x - 1], runes, ends, x)
  <2> TAKE x \in 1 .. N
  <2>1. x - 1 \in 0 .. N
    OBVIOUS
  <2>2. f[x] = step[x][f[x - 1]] /\ f[x - 1] \in T
    BY <1>5, <2>1 DEF Steps
  <2> QED
    BY <1>4, <2>2
<1>8. f = Body(f)
  <2>1. ASSUME NEW x \in 0 .. N
        PROVE  f[x] = IF x = 0 THEN first ELSE CutFurther(f[x - 1], runes, ends, x)
    <3>1. CASE x = 0
      BY <1>6, <3>1
    <3>2. CASE x # 0
      BY <1>7, <3>2
    <3> QED
      BY <3>1, <3>2
  <2>2. f = [x \in 0 .. N |-> IF x = 0 THEN first ELSE CutFurther(f[x - 1], runes, ends, x)]
    BY <1>6, <2>1
  <2> QED
    BY <1>1, <1>2, <2>2, Zenon
<1>9. PICK cut : cut = CHOOSE g : g = Body(g)
  BY Zenon
<1>10. cut = Body(cut)
  BY <1>8, <1>9, Zenon
<1>11. CutAfter(runes, ends) = cut[Len(runes)].words
  BY <1>9, Zenon DEF CutAfter, CutFurther
<1>12. \A x \in 0 .. N :
          cut[x] = IF x = 0 THEN first ELSE CutFurther(cut[x - 1], runes, ends, x)
  <2>1. ASSUME NEW x \in 0 .. N
        PROVE  Body(cut)[x] = IF x = 0 THEN first ELSE CutFurther(cut[x - 1], runes, ends, x)
    BY <1>1, <1>2, Zenon
  <2> QED
    BY <1>10, <2>1, Zenon
<1> HIDE DEF Body
<1>13. cut[0] = first /\ \A x \in 1 .. N : cut[x] = CutFurther(cut[x - 1], runes, ends, x)
  <2>1. 0 \in 0 .. N /\ \A x \in 1 .. N : x \in 0 .. N /\ x # 0
    OBVIOUS
  <2> QED
    BY <1>12, <2>1
<1> DEFINE fits(c, x) ==
        /\ c.left \in 1 .. x + 1 /\ c.words \in Seq(Seq(R))
        /\ x \in ends => c.left = x + 1
        /\ FlattenSeq(c.words) = SubSeq(runes, 1, c.left - 1)
           good == {x \in 0 .. N : fits(cut[x], x)}
<1>14. 0 \in good
  <2>1. first.left = 1 /\ first.words = << >> /\ first.words \in Seq(Seq(R))
    BY <1>2 DEF T
  <2>2. FlattenSeq(<< >>) = << >>
    BY DEF FlattenSeq
  <2>3. SubSeq(runes, 1, 0) = << >>
    BY SubSeqEmpty
  <2>4. fits(first, 0)
    <3>1. 1 - 1 = 0 /\ 0 + 1 = 1 /\ 1 \in 1 .. 1
      OBVIOUS
    <3>2. first.left \in 1 .. 0 + 1 /\ (0 \in ends => first.left = 0 + 1)
      BY <2>1, <3>1
    <3>3. FlattenSeq(first.words) = SubSeq(runes, 1, first.left - 1)
      BY <2>1, <2>2, <2>3, <3>1
    <3> QED
      BY <2>1, <3>2, <3>3, Zenon
  <2>5. 0 \in 0 .. N
    OBVIOUS
  <2> HIDE DEF fits
  <2> QED
    BY <1>13, <2>4, <2>5
<1>15. ASSUME NEW x \in 1 .. N, x - 1 \in good
       PROVE  x \in good
  <2>1. PICK before : before = cut[x - 1]
    OBVIOUS
  <2>2. fits(before, x - 1)
    BY <1>15, <2>1
  <2>3. cut[x] = CutFurther(before, runes, ends, x)
    BY <1>13, <2>1
  <2>4. CASE x \notin ends
    <3>1. cut[x] = before
      BY <2>3, <2>4 DEF CutFurther
    <3>2. before.left \in 1 .. x + 1
      BY <2>2
    <3>3. x \in 0 .. N
      OBVIOUS
    <3> QED
      BY <2>2, <2>4, <3>1, <3>2, <3>3, Zenon
  <2>5. CASE x \in ends
    <3>1. PICK left \in 1 .. x : left = before.left
      BY <2>2
    <3>2. PICK W : W = Seq(R)
      OBVIOUS
    <3>3. PICK words \in Seq(W) : words = before.words
      BY <2>2, <3>2
    <3>4. PICK part \in Seq(R) : part = SubSeq(runes, left, x)
      <4>1. left \in Nat /\ x \in Nat /\ 1 <= left /\ x <= Len(runes) /\ left <= x + 1
        BY <1>1
      <4> QED
        BY <4>1, PartOfSeq
    <3>5. PICK more : more = Append(words, part)
      OBVIOUS
    <3>6. more \in Seq(W) /\ more = words \o <<part>>
      <4>1. part \in W
        BY <3>2
      <4> QED
        BY <3>5, <4>1, AppendIsConcat, AppendProperties
    <3>7. cut[x].left = x + 1 /\ cut[x].words = more
      <4>1. cut[x] = [left |-> x + 1,
                      words |-> Append(before.words, SubSeq(runes, before.left, x))]
        BY <2>3, <2>5, Zenon DEF CutFurther
      <4>2. cut[x] = [left |-> x + 1, words |-> more]
        BY <3>1, <3>3, <3>4, <3>5, <4>1
      <4> QED
        BY <4>2
    <3>8. FlattenSeq(words \o <<part>>) = FlattenSeq(words) \o FlattenSeq(<<part>>)
      <4>1. words \in Seq(Seq(R)) /\ <<part>> \in Seq(Seq(R))
        BY <3>2
      <4> QED
        BY <4>1, FlattenConcat, Zenon
    <3>9. FlattenSeq(<<part>>) = part
      BY FlattenOne
    <3>10. FlattenSeq(words) = SubSeq(runes, 1, left - 1)
      BY <2>2, <3>1, <3>3
    <3>11. SubSeq(runes, 1, left - 1) \o SubSeq(runes, left, x) = SubSeq(runes, 1, x)
      <4>1. PICK b : b = left - 1
        OBVIOUS
      <4>2. /\ 1 \in 1 .. Len(runes) + 1 /\ b \in 1 - 1 .. Len(runes)
            /\ x \in b .. Len(runes) /\ b + 1 = left
        BY <1>1, <4>1
      <4>3. SubSeq(runes, 1, b) \o SubSeq(runes, b + 1, x) = SubSeq(runes, 1, x)
        BY <4>2, ConcatAdjacentSubSeq
      <4> QED
        BY <4>1, <4>2, <4>3
    <3>12. FlattenSeq(more) = SubSeq(runes, 1, x + 1 - 1)
      <4>1. x + 1 - 1 = x
        OBVIOUS
      <4> QED
        BY <3>4, <3>6, <3>8, <3>9, <3>10, <3>11, <4>1
    <3>13. x + 1 \in 1 .. x + 1 /\ more \in Seq(Seq(R)) /\ x \in 0 .. N
      BY <3>2, <3>6
    <3> QED
      BY <3>7, <3>12, <3>13
  <2> QED
    BY <2>4, <2>5
<1>16. \A x \in 0 .. N : fits(cut[x], x)
  <2> HIDE DEF good
  <2>1. \A x \in 0 .. N : x \in good
    BY <1>14, <1>15, StepByStep
  <2> QED
    BY <2>1 DEF good
<1>17. CutsAfter(cut, R, runes, ends)
  BY <1>1, <1>2, <1>13, <1>16, Zenon DEF CutsAfter
<1> QED
  BY <1>11, <1>17, Zenon

(* A cut that ends with the text is the text.                              *)
LEMMA CutAfterIsWhole ==
    ASSUME NEW R, NEW runes \in Seq(R), NEW ends,
           runes # << >> => Len(runes) \in ends
    PROVE  /\ CutAfter(runes, ends) \in Seq(Seq(R))
           /\ FlattenSeq(CutAfter(runes, ends)) = runes
<1>1. PICK N \in Nat : N = Len(runes)
  OBVIOUS
<1>2. PICK cut : CutsAfter(cut, R, runes, ends) /\ CutAfter(runes, ends) = cut[N].words
  BY <1>1, CutAfterCuts
<1>3. N \in 0 .. N
  OBVIOUS
<1>4. /\ cut[N].left \in 1 .. N + 1 /\ cut[N].words \in Seq(Seq(R))
      /\ N \in ends => cut[N].left = N + 1
      /\ FlattenSeq(cut[N].words) = SubSeq(runes, 1, cut[N].left - 1)
  BY <1>1, <1>2, <1>3, Zenon DEF CutsAfter
<1>5. cut[N].left - 1 = N
  <2>1. CASE N = 0
    BY <1>4, <2>1
  <2>2. CASE N # 0
    BY <1>1, <1>4, <2>2
  <2> QED
    BY <2>1, <2>2
<1>6. SubSeq(runes, 1, N) = runes
  BY <1>1, SubSeqFull
<1>7. FlattenSeq(cut[N].words) = runes
  BY <1>4, <1>5, <1>6
<1> QED
  BY <1>2, <1>4, <1>7, Zenon

(* No division into words weighs more than what the dags say at its start. *)
LEMMA DivisionIsLighter ==
    ASSUME NEW dict, SoundDict(dict), NEW R, NEW runes \in Seq(R),
           NEW dags, AreHeaviest(dict, Unicode(runes), MaxWordLength, dags),
           NEW ends, runes # << >> => Len(runes) \in ends,
           \A part \in ToSet(CutAfter(runes, ends)) : IsWord(dict, part)
    PROVE  WeightOfAll(dict, CutAfter(runes, ends)) <= Onwards(dags, 0)
<1>1. PICK N \in Nat : N = Len(runes)
  OBVIOUS
<1>2. PICK X : X = {r.rune : r \in R}
  OBVIOUS
<1>3. PICK text \in Seq(X) : text = Unicode(runes) /\ Len(text) = N
  BY <1>1, <1>2, UnicodeOf
<1>4. PICK W : W = Seq(R)
  OBVIOUS
<1>5. PICK cut : CutsAfter(cut, R, runes, ends) /\ CutAfter(runes, ends) = cut[N].words
  BY <1>1, CutAfterCuts
<1>6. /\ cut[0] = [left |-> 1, words |-> << >>]
      /\ \A x \in 1 .. N : cut[x] = CutFurther(cut[x - 1], runes, ends, x)
      /\ \A x \in 0 .. N :
            /\ cut[x].left \in 1 .. x + 1 /\ cut[x].words \in Seq(W)
            /\ x \in ends => cut[x].left = x + 1
  BY <1>1, <1>4, <1>5, Zenon DEF CutsAfter
<1>7. dags \in Seq(Bests(dict)) /\ Len(dags) = N
  BY <1>3 DEF AreHeaviest
<1>8. \A i \in 0 .. N : Onwards(dags, i) \in Int
  <2> TAKE i \in 0 .. N
  <2>1. CASE i < N
    <3>1. i + 1 \in 1 .. Len(dags)
      BY <1>7, <2>1
    <3>2. dags[i + 1] \in Bests(dict)
      BY <1>7, <3>1, ElementOfSeq
    <3> QED
      BY <1>7, <2>1, <3>2 DEF Onwards, Bests
  <2>2. CASE ~(i < N)
    BY <1>7, <2>2 DEF Onwards
  <2> QED
    BY <2>1, <2>2
<1>9. Weighs(dict)
  BY SoundWeighs
<1>10. MaxWordLength \in Nat \ {0}
  BY WordLengthAssumption
<1> DEFINE lighter(c) ==
        (\A part \in ToSet(c.words) : IsWord(dict, part)) =>
            WeightOfAll(dict, c.words) + Onwards(dags, c.left - 1) <= Onwards(dags, 0)
           good == {x \in 0 .. N : lighter(cut[x])}
<1>11. 0 \in good
  <2>1. WeightOfAll(dict, << >>) = 0
    <3>1. << >> \in Seq(R) /\ Len(<< >>) = 0
      OBVIOUS
    <3>2. PICK sum : Weighed(sum, dict, << >>) /\ WeightOfAll(dict, << >>) = sum[Len(<< >>)]
      BY <1>9, <3>1, WeightIsWeighed, Zenon
    <3> QED
      BY <3>1, <3>2 DEF Weighed
  <2>2. cut[0].words = << >> /\ cut[0].left - 1 = 0 /\ 0 \in 0 .. N
    BY <1>6
  <2>3. WeightOfAll(dict, cut[0].words) + Onwards(dags, cut[0].left - 1) <= Onwards(dags, 0)
    <3>1. PICK a \in Int : a = Onwards(dags, 0)
      BY <1>8, <2>2
    <3> QED
      BY <2>1, <2>2, <3>1
  <2> QED
    BY <2>2, <2>3
<1>12. ASSUME NEW x \in 1 .. N, x - 1 \in good
       PROVE  x \in good
  <2>1. x - 1 \in 0 .. N /\ x \in 0 .. N
    OBVIOUS
  <2>2. PICK before : before = cut[x - 1]
    OBVIOUS
  <2>3. /\ lighter(before) /\ cut[x] = CutFurther(before, runes, ends, x)
        /\ before.left \in 1 .. x - 1 + 1 /\ before.words \in Seq(W)
    BY <1>6, <1>12, <2>1, <2>2
  <2>4. CASE x \notin ends
    <3>1. cut[x] = before
      BY <2>3, <2>4 DEF CutFurther
    <3> QED
      BY <2>1, <2>3, <3>1, Zenon
  <2>5. CASE x \in ends
    <3>1. PICK left \in 1 .. x : left = before.left
      BY <2>3
    <3>2. PICK words \in Seq(W) : words = before.words
      BY <2>3
    <3>3. PICK part \in Seq(R) : part = SubSeq(runes, left, x)
      <4>1. left \in Nat /\ x \in Nat /\ 1 <= left /\ x <= Len(runes) /\ left <= x + 1
        BY <1>1
      <4> QED
        BY <4>1, PartOfSeq
    <3>4. PICK more : more = Append(words, part)
      OBVIOUS
    <3>5. part \in W
      BY <1>4
    <3>6. PICK L \in Nat : L = Len(words)
      OBVIOUS
    <3>7. /\ more \in Seq(W) /\ Len(more) = L + 1 /\ more = words \o <<part>>
          /\ \A k \in 1 .. L : more[k] = words[k]
          /\ more[L + 1] = part
      BY <3>4, <3>5, <3>6, AppendProperties, AppendIsConcat
    <3>8. cut[x] = [left |-> x + 1, words |-> more]
      <4>1. cut[x] = [left |-> x + 1,
                      words |-> Append(before.words, SubSeq(runes, before.left, x))]
        BY <2>3, <2>5, Zenon DEF CutFurther
      <4> QED
        BY <3>1, <3>2, <3>3, <3>4, <4>1
    <3>9. ASSUME \A p \in ToSet(more) : IsWord(dict, p)
          PROVE  WeightOfAll(dict, more) + Onwards(dags, x) <= Onwards(dags, 0)
      <4>1. ToSet(words) \subseteq ToSet(more) /\ part \in ToSet(more)
        <5>1. DOMAIN words = 1 .. L /\ DOMAIN more = 1 .. L + 1
          BY <3>6, <3>7
        <5>2. \A k \in 1 .. L : k \in 1 .. L + 1
          OBVIOUS
        <5>3. L + 1 \in 1 .. L + 1
          OBVIOUS
        <5> QED
          BY <3>7, <5>1, <5>2, <5>3 DEF ToSet
      <4>2. WeightOfAll(dict, words) + Onwards(dags, left - 1) <= Onwards(dags, 0)
        BY <2>3, <3>1, <3>2, <3>9, <4>1
      <4>3. PICK n \in 1 .. N - left + 1 : n = x - left + 1
        OBVIOUS
      <4>4. PICK word : word = SubSeq(text, left, x)
        OBVIOUS
      <4>5. Unicode(part) = word
        <5>1. left \in 1 .. Len(runes) /\ x \in left .. Len(runes)
          BY <1>1
        <5> QED
          BY <1>3, <3>3, <4>4, <5>1, UnicodeOfPart
      <4>6. Len(part) = n /\ Len(word) = n
        <5>1. Len(part) = n
          BY <1>1, <3>3, <4>3
        <5>2. Len(word) = n
          BY <1>3, <4>3, <4>4
        <5> QED
          BY <5>1, <5>2
      <4>7. Edge(dict, text, left, n).unit = Find(dict, word)
        <5>1. left + n - 1 = x
          BY <4>3
        <5> QED
          BY <4>4, <5>1 DEF Edge
      <4>8. n = 1 \/ Find(dict, word) # NoUnit
        BY <3>9, <4>1, <4>5, <4>6 DEF IsWord
      <4>9. n <= MaxWordLength
        <5>1. CASE n = 1
          BY <1>10, <5>1
        <5>2. CASE n # 1
          BY <4>6, <4>8, <5>2, FoundUnit DEF IsUnitOf
        <5> QED
          BY <5>1, <5>2
      <4>10. Reaches(dict, text, left, MaxWordLength, n)
        <5>1. n \in 1 .. Len(text) - left + 1
          BY <1>3
        <5> QED
          BY <4>7, <4>8, <4>9, <5>1 DEF Reaches
      <4>11. TotalAt(dict, text, dags, left, n) <= dags[left].weight
        <5>1. left \in 1 .. Len(text)
          BY <1>3
        <5> QED
          BY <1>3, <4>10, <5>1, Zenon DEF AreHeaviest
      <4>12. PICK w \in Int : w = WeightOf(dict, Find(dict, word))
        BY FoundUnit, Zenon
      <4>13. TotalAt(dict, text, dags, left, n) = Onwards(dags, x) + w
        <5>1. left + n - 1 = x
          BY <4>3
        <5> QED
          BY <4>7, <4>12, <5>1 DEF TotalAt
      <4>14. Onwards(dags, left - 1) = dags[left].weight
        <5>1. left - 1 < Len(dags) /\ left - 1 + 1 = left
          BY <1>7
        <5> QED
          BY <5>1 DEF Onwards
      <4>15. PICK sum \in Int : sum = WeightOfAll(dict, words)
        BY <1>9, WeightConcat
      <4>16. WeightOfAll(dict, more) = sum + w
        <5>1. PICK one : one = <<part>>
          OBVIOUS
        <5>2. one \in Seq(W)
          BY <3>5, <5>1
        <5>3. WeightOfAll(dict, words \o one)
                 = WeightOfAll(dict, words) + WeightOfAll(dict, one)
          BY <1>9, <5>2, WeightConcat
        <5>4. WeightOfAll(dict, <<part>>) = WeightOf(dict, Find(dict, Unicode(part)))
          BY <1>9, WeightOfOne
        <5> QED
          BY <3>7, <4>5, <4>12, <4>15, <5>1, <5>3, <5>4
      <4>17. PICK a \in Int, b \in Int, c \in Int :
                a = Onwards(dags, x) /\ b = Onwards(dags, 0) /\ c = Onwards(dags, left - 1)
        <5>1. 0 \in 0 .. N /\ left - 1 \in 0 .. N
          OBVIOUS
        <5> QED
          BY <1>8, <2>1, <5>1
      <4>18. a + w <= c
        BY <4>11, <4>13, <4>14, <4>17
      <4>19. sum + c <= b
        BY <4>2, <4>15, <4>17
      <4>20. sum + w + a <= b
        BY <4>18, <4>19
      <4> QED
        BY <4>16, <4>17, <4>20
    <3>10. lighter(cut[x])
      <4>1. cut[x].words = more /\ cut[x].left - 1 = x
        BY <3>8
      <4> QED
        BY <3>9, <4>1
    <3> HIDE DEF lighter
    <3> QED
      BY <2>1, <3>10
  <2> QED
    BY <2>4, <2>5
<1>13. lighter(cut[N])
  <2>1. N \in 0 .. N
    OBVIOUS
  <2> HIDE DEF good
  <2>2. \A x \in 0 .. N : x \in good
    BY <1>11, <1>12, StepByStep
  <2> QED
    BY <2>1, <2>2, Zenon DEF good
<1>14. Onwards(dags, cut[N].left - 1) = 0
  <2>1. N \in 0 .. N
    OBVIOUS
  <2>2. cut[N].left \in 1 .. N + 1 /\ (N \in ends => cut[N].left = N + 1)
    BY <1>6, <2>1
  <2>3. N = 0 \/ N \in ends
    BY <1>1
  <2>4. cut[N].left - 1 = N
    BY <2>2, <2>3
  <2> QED
    BY <1>7, <2>4 DEF Onwards
<1>15. PICK sum \in Int : sum = WeightOfAll(dict, cut[N].words)
  <2>1. N \in 0 .. N
    OBVIOUS
  <2>2. PICK words \in Seq(W) : words = cut[N].words
    BY <1>6, <2>1
  <2>3. WeightOfAll(dict, words) \in Int
    BY <1>9, WeightConcat
  <2> QED
    BY <2>2, <2>3
<1>16. sum + 0 <= Onwards(dags, 0)
  BY <1>5, <1>13, <1>14, <1>15
<1>17. sum <= Onwards(dags, 0)
  <2>1. PICK a \in Int : a = Onwards(dags, 0)
    <3>1. 0 \in 0 .. N
      OBVIOUS
    <3> QED
      BY <1>8, <3>1
  <2> QED
    BY <1>16, <2>1
<1> QED
  BY <1>5, <1>15, <1>17

(* MPSegment finds the heaviest division of the runes of a range.          *)
THEOREM HeaviestIsCut ==
    ASSUME NEW dict, SoundDict(dict), NEW R, NEW runes \in Seq(R),
           RunesAreLight(dict, Len(runes))
    PROVE  /\ MPCut(dict, runes, MaxWordLength) \in Seq(Seq(R))
           /\ FlattenSeq(MPCut(dict, runes, MaxWordLength)) = runes
           /\ HeaviestCut(dict, runes)
<1>1. PICK X : X = {r.rune : r \in R}
  OBVIOUS
<1>2. PICK text \in Seq(X) : text = Unicode(runes) /\ Len(text) = Len(runes)
  BY <1>1, UnicodeOf
<1>3. MaxWordLength \in Nat \ {0}
  BY WordLengthAssumption
<1>4. PICK dags : dags = CalcDP(dict, text, MaxWordLength)
  OBVIOUS
<1>5. AreHeaviest(dict, text, MaxWordLength, dags)
  BY <1>3, <1>4, DagsAreHeaviest
<1>6. ChoosesWords(dict, text, MaxWordLength, dags)
  BY <1>2, <1>3, <1>5, WordsAreChosen
<1>7. PICK words : words = MPCut(dict, runes, MaxWordLength)
  OBVIOUS
<1>8. words = CutByDag(runes, dags)
  BY <1>2, <1>4, <1>7, Zenon DEF MPCut
<1>9. words \in Seq(Seq(R)) /\ FlattenSeq(words) = runes /\ WeightOfAll(dict, words) = Onwards(dags, 0)
  <2>1. /\ AreHeaviest(dict, Unicode(runes), MaxWordLength, dags)
        /\ ChoosesWords(dict, Unicode(runes), MaxWordLength, dags)
    BY <1>2, <1>5, <1>6
  <2>2. /\ CutByDag(runes, dags) \in Seq(Seq(R))
        /\ FlattenSeq(CutByDag(runes, dags)) = runes
        /\ WeightOfAll(dict, CutByDag(runes, dags)) = Onwards(dags, 0)
    BY <1>3, <2>1, DagsCut
  <2> QED
    BY <1>8, <2>2
<1>10. ASSUME NEW places \in SUBSET (1 .. Len(runes) - 1),
              \A part \in ToSet(Divided(runes, places)) : IsWord(dict, part)
       PROVE  WeightOfAll(dict, Divided(runes, places)) <= WeightOfAll(dict, words)
  <2>1. PICK ends : ends = places \cup {Len(runes)}
    OBVIOUS
  <2>2. Len(runes) \in ends
    BY <2>1
  <2>3. Divided(runes, places) = CutAfter(runes, ends)
    BY <2>1, Zenon DEF Divided
  <2>4. \A part \in ToSet(CutAfter(runes, ends)) : IsWord(dict, part)
    BY <1>10, <2>3, Zenon
  <2>5. WeightOfAll(dict, CutAfter(runes, ends)) <= Onwards(dags, 0)
    BY <1>2, <1>5, <2>2, <2>4, DivisionIsLighter
  <2> QED
    BY <1>9, <2>3, <2>5
<1>11. IsHeaviest(dict, runes, words)
  BY <1>9, <1>10, Zenon DEF IsHeaviest
<1>12. HeaviestCut(dict, runes)
  BY <1>7, <1>11, Zenon DEF HeaviestCut
<1> QED
  BY <1>7, <1>9, <1>12, Zenon
-----------------------------------------------------------------------------
(* HMMSegment: the table and the way back through it                       *)

(* Every emission has a likelihood.                                        *)
LEMMA EmitIsLikelihood ==
    ASSUME NEW model, SoundModel(model), NEW tag \in Tags, NEW rune
    PROVE  GetEmitProb(model, tag, rune) \in Likelihood
<1>1. MinDouble \in Likelihood
  BY DEF MinDouble, Likelihood
<1>2. CASE rune \in DOMAIN model.emit[tag]
  <2>1. GetEmitProb(model, tag, rune) = model.emit[tag][rune]
    BY <1>2, Zenon DEF GetEmitProb
  <2>2. model.emit[tag][rune] \in Likelihood
    BY <1>2, Zenon DEF SoundModel
  <2> QED
    BY <2>1, <2>2
<1>3. CASE rune \notin DOMAIN model.emit[tag]
  <2>1. GetEmitProb(model, tag, rune) = MinDouble
    BY <1>3, Zenon DEF GetEmitProb
  <2> QED
    BY <1>1, <2>1
<1> QED
  BY <1>2, <1>3

(* A sum is possible if its terms are, and then it is their sum.           *)
LEMMA PlusIsSum ==
    ASSUME NEW x \in Likelihood, NEW y \in Likelihood
    PROVE  /\ Plus(x, y) \in Likelihood
           /\ ~Impossible(Plus(x, y)) <=> MinDouble < x + y /\ MinDouble < x /\ MinDouble < y
           /\ ~Impossible(Plus(x, y)) => Plus(x, y) = x + y
BY DEF Plus, Impossible, Likelihood, MinDouble

(* The cells of the table that Viterbi fills.                              *)
Cells == [weight : Likelihood, path : -1 .. 3]
Through(model, column, rune, pre, y) ==
    [weight |-> Plus(Plus(column[pre].weight, model.trans[pre][y]),
                     GetEmitProb(model, y, rune)),
     path |-> pre]
IsCell(model, column, rune, y, cell) ==
    /\ cell \in Cells /\ cell.path \in Tags
    /\ \A pre \in Tags : Through(model, column, rune, pre, y).weight <= cell.weight
    /\ ~Impossible(cell.weight) =>
          cell.weight = Through(model, column, rune, cell.path, y).weight

(* Through a cell comes a cell.                                            *)
LEMMA ThroughIsCell ==
    ASSUME NEW model, SoundModel(model), NEW column \in [Tags -> Cells], NEW rune,
           NEW pre \in Tags, NEW y \in Tags
    PROVE  Through(model, column, rune, pre, y) \in Cells
<1>1. column[pre].weight \in Likelihood
  <2>1. column[pre] \in Cells
    OBVIOUS
  <2> QED
    BY <2>1 DEF Cells
<1>2. model.trans[pre][y] \in Likelihood
  <2>1. model.trans \in [Tags -> [Tags -> Likelihood]]
    BY DEF SoundModel
  <2> QED
    BY <2>1
<1>3. PICK a : a = Plus(column[pre].weight, model.trans[pre][y])
  OBVIOUS
<1>4. a \in Likelihood
  BY <1>1, <1>2, <1>3, PlusIsSum
<1>5. PICK e : e = GetEmitProb(model, y, rune)
  OBVIOUS
<1>6. e \in Likelihood
  BY <1>5, EmitIsLikelihood
<1>7. Plus(a, e) \in Likelihood
  BY <1>4, <1>6, PlusIsSum
<1>8. Through(model, column, rune, pre, y) = [weight |-> Plus(a, e), path |-> pre]
  BY <1>3, <1>5 DEF Through
<1>9. pre \in -1 .. 3
  BY DEF Tags
<1> QED
  BY <1>7, <1>8, <1>9 DEF Cells

(* A column has the best cell for each tag, the first of those that are as *)
(* good.                                                                   *)
LEMMA NextCells ==
    ASSUME NEW model, SoundModel(model), NEW column \in [Tags -> Cells], NEW rune
    PROVE  /\ NextColumn(model, column, rune) \in [Tags -> Cells]
           /\ \A y \in Tags :
                 IsCell(model, column, rune, y, NextColumn(model, column, rune)[y])
<1> DEFINE list(y) == <<[weight |-> MinDouble, path |-> E]>>
                          \o [n \in 1 .. 4 |-> Through(model, column, rune, n - 1, y)]
<1>1. NextColumn(model, column, rune) = [y \in Tags |-> FirstHeaviest(list(y))]
  BY Zenon DEF NextColumn, Through
<1>2. ASSUME NEW y \in Tags
      PROVE  IsCell(model, column, rune, y, FirstHeaviest(list(y)))
  <2>1. PICK first : first = [weight |-> MinDouble, path |-> E]
    OBVIOUS
  <2>2. first \in Cells /\ first.weight = MinDouble /\ first.path = 1
    <3>1. MinDouble \in Likelihood /\ 1 \in -1 .. 3
      BY DEF MinDouble, Likelihood
    <3> QED
      BY <2>1, <3>1 DEF Cells, E
  <2>3. PICK rest : rest = [n \in 1 .. 4 |-> Through(model, column, rune, n - 1, y)]
    OBVIOUS
  <2>4. \A n \in 1 .. 4 : n - 1 \in Tags
    BY DEF Tags
  <2>5. \A n \in 1 .. 4 : rest[n] \in Cells
    <3> TAKE n \in 1 .. 4
    <3>1. PICK pre \in Tags : pre = n - 1
      BY <2>4
    <3>2. rest[n] = Through(model, column, rune, pre, y)
      BY <2>3, <3>1
    <3> QED
      BY <3>2, ThroughIsCell
  <2>6. rest \in Seq(Cells) /\ Len(rest) = 4
    BY <2>3, <2>5
  <2>7. PICK cells : cells = <<first>> \o rest
    OBVIOUS
  <2>8. /\ cells \in Seq(Cells) /\ Len(cells) = 5 /\ cells[1] = first
        /\ \A n \in 1 .. 4 : cells[n + 1] = Through(model, column, rune, n - 1, y)
    BY <2>2, <2>3, <2>6, <2>7
  <2>9. PICK c \in 1 .. Len(cells) :
           /\ FirstHeaviest(cells) = cells[c]
           /\ \A k \in 1 .. Len(cells) : /\ cells[k].weight <= cells[c].weight
                                         /\ k < c => cells[k].weight < cells[c].weight
    <3>1. cells \in Seq(Cells) /\ Len(cells) = 5
      BY <2>8, Zenon
    <3>2. cells # << >>
      BY <3>1
    <3>3. \A cell \in Cells : cell.weight \in Int
      BY DEF Cells, Likelihood
    <3> QED
      BY <3>1, <3>2, <3>3, HeaviestIsFound
  <2>10. PICK cell \in Cells : cell = cells[c]
    <3>1. cells \in Seq(Cells)
      BY <2>8, Zenon
    <3>2. cells[c] \in Cells
      BY <3>1, ElementOfSeq
    <3> QED
      BY <3>2
  <2>11. \A pre \in Tags : Through(model, column, rune, pre, y).weight <= cell.weight
    <3> TAKE pre \in Tags
    <3>1. PICK n \in 1 .. 4 : n = pre + 1 /\ n - 1 = pre
      BY DEF Tags
    <3>2. cells[n + 1] = Through(model, column, rune, pre, y)
      BY <2>8, <3>1
    <3>3. n + 1 \in 1 .. Len(cells)
      BY <2>8
    <3> QED
      BY <2>9, <2>10, <3>2, <3>3
  <2>12. /\ cell.path \in Tags
         /\ ~Impossible(cell.weight) =>
               cell.weight = Through(model, column, rune, cell.path, y).weight
    <3>1. CASE c = 1
      <4>1. cell = first
        BY <2>8, <2>10, <3>1
      <4>2. Impossible(cell.weight)
        BY <2>2, <4>1 DEF Impossible, MinDouble
      <4> QED
        BY <2>2, <4>1, <4>2 DEF Tags
    <3>2. CASE c # 1
      <4>1. PICK pre \in Tags : pre = c - 2
        BY <2>8, <3>2 DEF Tags
      <4>2. c - 1 \in 1 .. 4 /\ c - 1 + 1 = c /\ c - 1 - 1 = pre
        BY <2>8, <3>2, <4>1
      <4>3. cell = Through(model, column, rune, pre, y)
        BY <2>8, <2>10, <4>2
      <4>4. cell.path = pre
        BY <4>3 DEF Through
      <4> QED
        BY <4>3, <4>4
    <3> QED
      BY <3>1, <3>2
  <2>13. FirstHeaviest(list(y)) = cell
    BY <2>1, <2>3, <2>7, <2>9, <2>10
  <2>14. IsCell(model, column, rune, y, cell)
    BY <2>11, <2>12 DEF IsCell
  <2> QED
    BY <2>13, <2>14
<1> HIDE DEF list
<1>3. \A y \in Tags : FirstHeaviest(list(y)) \in Cells
  BY <1>2, Zenon DEF IsCell
<1> QED
  BY <1>1, <1>2, <1>3

(* The first column is of cells, too.                                      *)
LEMMA FirstCells ==
    ASSUME NEW model, SoundModel(model), NEW rune
    PROVE  /\ FirstColumn(model, rune) \in [Tags -> Cells]
           /\ \A y \in Tags : FirstColumn(model, rune)[y].weight
                                 = Plus(model.start[y], GetEmitProb(model, y, rune))
<1>1. ASSUME NEW y \in Tags
      PROVE  Plus(model.start[y], GetEmitProb(model, y, rune)) \in Likelihood
  <2>1. model.start[y] \in Likelihood
    BY DEF SoundModel
  <2>2. GetEmitProb(model, y, rune) \in Likelihood
    BY EmitIsLikelihood
  <2>3. PICK a \in Likelihood, b \in Likelihood :
           a = model.start[y] /\ b = GetEmitProb(model, y, rune)
    BY <2>1, <2>2
  <2>4. Plus(a, b) \in Likelihood
    BY PlusIsSum
  <2> QED
    BY <2>3, <2>4
<1>2. -1 \in -1 .. 3
  OBVIOUS
<1> QED
  BY <1>1, <1>2 DEF FirstColumn, Cells

(* The table, column after column.                                         *)
IsTable(model, text, columns) ==
    /\ columns \in Seq([Tags -> Cells]) /\ Len(columns) = Len(text)
    /\ \A x \in 1 .. Len(text) :
          columns[x] = IF x = 1 THEN FirstColumn(model, text[x])
                       ELSE NextColumn(model, columns[x - 1], text[x])

(* Columns is the table.                                                   *)
LEMMA ColumnsAreTable ==
    ASSUME NEW model, SoundModel(model), NEW X, NEW text \in Seq(X)
    PROVE  IsTable(model, text, Columns(model, text))
<1> DEFINE next(columns, x) ==
               IF x = 1 THEN FirstColumn(model, text[x])
               ELSE NextColumn(model, Last(columns), text[x])
           Body(f) == [x \in 0 .. Len(text) |->
                          IF x = 0 THEN << >> ELSE Append(f[x - 1], next(f[x - 1], x))]
           C == [Tags -> Cells]
           fits(s, n) == s \in Seq(C) /\ Len(s) = n
<1>1. PICK N \in Nat : N = Len(text)
  OBVIOUS
<1>2. \A n \in 1 .. N : \A s : fits(s, n - 1) => next(s, n) \in C
  <2> SUFFICES ASSUME NEW n \in 1 .. N, NEW s, fits(s, n - 1)
               PROVE  next(s, n) \in C
    OBVIOUS
  <2>1. CASE n = 1
    <3>1. FirstColumn(model, text[n]) \in C
      BY FirstCells
    <3> QED
      BY <2>1, <3>1
  <2>2. CASE n # 1
    <3>1. PICK D : D = C
      OBVIOUS
    <3>2. s \in Seq(D) /\ Len(s) \in 1 .. Len(s)
      BY <2>2, <3>1
    <3>3. Last(s) \in D
      BY <3>2, ElementOfSeq DEF Last
    <3>4. NextColumn(model, Last(s), text[n]) \in C
      BY <3>1, <3>3, NextCells
    <3> QED
      BY <2>2, <3>4
  <2> QED
    BY <2>1, <2>2
<1> HIDE DEF C, next
<1>3. PICK T : T = Seq(C)
  OBVIOUS
<1>4. PICK step : step =
         [n \in 1 .. N |-> [s \in T |-> IF fits(s, n - 1) THEN Append(s, next(s, n))
                                        ELSE << >>]]
  OBVIOUS
<1>5. \A n \in 1 .. N : \A s : fits(s, n - 1) =>
         /\ fits(Append(s, next(s, n)), n) /\ Append(s, next(s, n))[n] = next(s, n)
         /\ \A k \in 1 .. n - 1 : Append(s, next(s, n))[k] = s[k]
  <2> SUFFICES ASSUME NEW n \in 1 .. N, NEW s, fits(s, n - 1)
               PROVE  /\ fits(Append(s, next(s, n)), n)
                      /\ Append(s, next(s, n))[n] = next(s, n)
                      /\ \A k \in 1 .. n - 1 : Append(s, next(s, n))[k] = s[k]
    OBVIOUS
  <2>1. PICK b : b = next(s, n)
    OBVIOUS
  <2>2. b \in C
    BY <1>2, <2>1
  <2>3. /\ Append(s, b) \in Seq(C) /\ Len(Append(s, b)) = n /\ Append(s, b)[n] = b
        /\ \A k \in 1 .. n - 1 : Append(s, b)[k] = s[k]
    BY <2>2, AppendProperties
  <2> QED
    BY <2>1, <2>3
<1>6. PICK f : Steps(f, N, T, << >>, step)
  <2>1. << >> \in T
    BY <1>3
  <2>2. step \in [1 .. N -> [T -> T]]
    <3>1. ASSUME NEW n \in 1 .. N, NEW s \in T
          PROVE  (IF fits(s, n - 1) THEN Append(s, next(s, n)) ELSE << >>) \in T
      <4>1. CASE fits(s, n - 1)
        <5>1. fits(Append(s, next(s, n)), n)
          BY <1>5, <4>1, Zenon
        <5> QED
          BY <1>3, <4>1, <5>1
      <4>2. CASE ~fits(s, n - 1)
        BY <2>1, <4>2
      <4> QED
        BY <4>1, <4>2
    <3> HIDE DEF fits
    <3> QED
      BY <1>4, <3>1
  <2> QED
    BY <2>1, <2>2, Iteration
<1>7. f[0] = << >> /\ \A n \in 1 .. N : f[n - 1] \in T /\ f[n] = step[n][f[n - 1]]
  <2>1. \A n \in 1 .. N : n - 1 \in 0 .. N
    OBVIOUS
  <2> QED
    BY <1>6, <2>1 DEF Steps
<1>8. \A n \in 0 .. N : fits(f[n], n)
  <2> DEFINE good == {n \in 0 .. N : fits(f[n], n)}
  <2>1. 0 \in good
    <3>1. fits(<< >>, 0) /\ 0 \in 0 .. N
      OBVIOUS
    <3> HIDE DEF fits
    <3> QED
      BY <1>7, <3>1
  <2>2. ASSUME NEW n \in 1 .. N, n - 1 \in good
        PROVE  n \in good
    <3> HIDE DEF fits
    <3>1. f[n - 1] \in T /\ fits(f[n - 1], n - 1)
      BY <1>7, <2>2
    <3>2. f[n] = Append(f[n - 1], next(f[n - 1], n))
      BY <1>4, <1>7, <3>1
    <3>3. fits(f[n], n)
      BY <1>5, <3>1, <3>2
    <3> QED
      BY <3>3
  <2> HIDE DEF good
  <2>3. \A n \in 0 .. N : n \in good
    BY <2>1, <2>2, StepByStep
  <2> QED
    BY <2>3 DEF good
<1>9. \A n \in 1 .. N : f[n] = Append(f[n - 1], next(f[n - 1], n))
  <2> TAKE n \in 1 .. N
  <2> HIDE DEF fits
  <2>1. n - 1 \in 0 .. N
    OBVIOUS
  <2>2. fits(f[n - 1], n - 1)
    BY <1>8, <2>1, Zenon
  <2> QED
    BY <1>4, <1>7, <2>2
<1>10. f = Body(f)
  <2>1. ASSUME NEW n \in 0 .. N
        PROVE  f[n] = IF n = 0 THEN << >> ELSE Append(f[n - 1], next(f[n - 1], n))
    <3>1. CASE n = 0
      BY <1>7, <3>1
    <3>2. CASE n # 0
      BY <1>9, <3>2
    <3> QED
      BY <3>1, <3>2
  <2>2. f \in [0 .. N -> T]
    BY <1>6 DEF Steps
  <2>3. f = [n \in 0 .. N |-> IF n = 0 THEN << >> ELSE Append(f[n - 1], next(f[n - 1], n))]
    BY <2>1, <2>2
  <2> QED
    BY <1>1, <2>3, Zenon
<1>11. PICK kept : kept = CHOOSE g : g = Body(g)
  BY Zenon
<1>12. kept = Body(kept)
  BY <1>10, <1>11, Zenon
<1>13. Columns(model, text) = kept[Len(text)]
  BY <1>11, Zenon DEF Columns, next
<1>14. \A n \in 0 .. N : kept[n] =
          IF n = 0 THEN << >> ELSE Append(kept[n - 1], next(kept[n - 1], n))
  <2>1. ASSUME NEW n \in 0 .. N
        PROVE  Body(kept)[n] =
                  IF n = 0 THEN << >> ELSE Append(kept[n - 1], next(kept[n - 1], n))
    BY <1>1, Zenon
  <2> QED
    BY <1>12, <2>1, Zenon
<1> HIDE DEF Body
<1> DEFINE column(s, x) == IF x = 1 THEN FirstColumn(model, text[x])
                           ELSE NextColumn(model, s[x - 1], text[x])
           filled(s, n) == fits(s, n) /\ \A x \in 1 .. n : s[x] = column(s, x)
           good == {n \in 0 .. N : filled(kept[n], n)}
<1>15. 0 \in good
  <2>1. kept[0] = << >> /\ 0 \in 0 .. N /\ fits(<< >>, 0)
    BY <1>14
  <2>2. \A x : ~(x \in 1 .. 0)
    OBVIOUS
  <2> HIDE DEF fits
  <2> QED
    BY <2>1, <2>2, Zenon
<1>16. ASSUME NEW n \in 1 .. N, n - 1 \in good
       PROVE  n \in good
  <2>1. PICK s : s = kept[n - 1] /\ filled(s, n - 1)
    BY <1>16
  <2>2. fits(s, n - 1) /\ n \in 0 .. N /\ n # 0
    BY <2>1
  <2>3. PICK t : t = Append(s, next(s, n))
    OBVIOUS
  <2>4. kept[n] = t
    BY <1>14, <2>1, <2>2, <2>3
  <2>5. fits(t, n) /\ t[n] = next(s, n) /\ \A k \in 1 .. n - 1 : t[k] = s[k]
    <3> HIDE DEF fits
    <3> QED
      BY <1>5, <2>2, <2>3
  <2>6. Len(s) = n - 1
    BY <2>2
  <2> HIDE DEF fits
  <2>7. ASSUME NEW x \in 1 .. n
        PROVE  t[x] = column(t, x)
    <3>1. CASE x = n
      <4>1. CASE n = 1
        BY <2>5, <3>1, <4>1 DEF next
      <4>2. CASE n # 1
        <5>1. n - 1 \in 1 .. n - 1
          BY <4>2
        <5>2. Last(s) = t[n - 1]
          BY <2>5, <2>6, <5>1 DEF Last
        <5>3. t[n] = NextColumn(model, t[n - 1], text[n])
          BY <2>5, <4>2, <5>2 DEF next
        <5> QED
          BY <3>1, <4>2, <5>3
      <4> QED
        BY <4>1, <4>2
    <3>2. CASE x # n
      <4>1. x \in 1 .. n - 1 /\ s[x] = column(s, x)
        BY <2>1, <3>2
      <4>2. x # 1 => x - 1 \in 1 .. n - 1
        OBVIOUS
      <4>3. t[x] = s[x] /\ (x # 1 => t[x - 1] = s[x - 1])
        BY <2>5, <4>1, <4>2
      <4> QED
        BY <4>1, <4>3
    <3> QED
      BY <3>1, <3>2
  <2> QED
    BY <2>2, <2>4, <2>5, <2>7, Zenon
<1>17. filled(kept[N], N)
  <2>1. N \in 0 .. N
    OBVIOUS
  <2> HIDE DEF good
  <2>2. \A n \in 0 .. N : n \in good
    BY <1>15, <1>16, StepByStep
  <2> QED
    BY <2>1, <2>2, Zenon DEF good
<1> QED
  BY <1>1, <1>13, <1>17, Zenon DEF IsTable, C

(* Each cell of the table is the best of those before it.                  *)
LEMMA TableCells ==
    ASSUME NEW model, SoundModel(model), NEW X, NEW text \in Seq(X),
           NEW columns, IsTable(model, text, columns), NEW x \in 1 .. Len(text)
    PROVE  /\ columns[x] \in [Tags -> Cells]
           /\ \A y \in Tags :
                 IF x = 1
                 THEN columns[x][y].weight
                         = Plus(model.start[y], GetEmitProb(model, y, text[x]))
                 ELSE IsCell(model, columns[x - 1], text[x], y, columns[x][y])
<1>1. PICK C : C = [Tags -> Cells]
  OBVIOUS
<1>2. columns \in Seq(C) /\ Len(columns) = Len(text)
  BY <1>1, Zenon DEF IsTable
<1>3. \A k \in 1 .. Len(text) : columns[k] \in C
  BY <1>2, ElementOfSeq
<1>4. columns[x] = IF x = 1 THEN FirstColumn(model, text[x])
                   ELSE NextColumn(model, columns[x - 1], text[x])
  BY Zenon DEF IsTable
<1>5. CASE x = 1
  <2>1. columns[x] = FirstColumn(model, text[x])
    BY <1>4, <1>5, Zenon
  <2>2. \A y \in Tags : FirstColumn(model, text[x])[y].weight
                           = Plus(model.start[y], GetEmitProb(model, y, text[x]))
    BY FirstCells
  <2>3. \A y \in Tags : columns[x][y].weight
                           = Plus(model.start[y], GetEmitProb(model, y, text[x]))
    BY <2>1, <2>2, Zenon
  <2> QED
    BY <1>1, <1>3, <1>5, <2>3, Zenon
<1>6. CASE x # 1
  <2>1. PICK column : column = columns[x - 1]
    OBVIOUS
  <2>2. x - 1 \in 1 .. Len(text)
    BY <1>6
  <2>3. column \in [Tags -> Cells]
    BY <1>1, <1>3, <2>1, <2>2, Zenon
  <2>4. columns[x] = NextColumn(model, column, text[x])
    BY <1>4, <1>6, <2>1, Zenon
  <2>5. \A y \in Tags :
           IsCell(model, column, text[x], y, NextColumn(model, column, text[x])[y])
    BY <2>3, NextCells
  <2>6. \A y \in Tags : IsCell(model, column, text[x], y, columns[x][y])
    BY <2>4, <2>5, Zenon
  <2> QED
    BY <1>1, <1>3, <1>6, <2>1, <2>6, Zenon
<1> QED
  BY <1>5, <1>6, Zenon

(* The way back through the table: it starts where a word may end.         *)
LastTag(columns) ==
    IF columns[Len(columns)][E].weight >= columns[Len(columns)][S].weight THEN E ELSE S
IsWay(columns, way) ==
    /\ way \in [1 .. Len(columns) -> Tags]
    /\ way[Len(columns)] = LastTag(columns)
    /\ \A x \in 1 .. Len(columns) - 1 : way[x] = columns[x + 1][way[x + 1]].path

(* WayBack is the way.                                                     *)
LEMMA WayIsWalked ==
    ASSUME NEW model, SoundModel(model), NEW X, NEW text \in Seq(X), text # << >>,
           NEW columns, IsTable(model, text, columns)
    PROVE  IsWay(columns, WayBack(columns))
<1>1. PICK N \in Nat : N = Len(columns) /\ N = Len(text) /\ N # 0
  <2>1. Len(columns) = Len(text)
    BY Zenon DEF IsTable
  <2>2. Len(text) \in Nat /\ Len(text) # 0
    OBVIOUS
  <2> QED
    BY <2>1, <2>2
<1>2. PICK last \in Tags : last = LastTag(columns)
  BY DEF LastTag, E, S, Tags
<1>3. \A x \in 1 .. N - 1, tag \in Tags : columns[x + 1][tag].path \in Tags
  <2> TAKE x \in 1 .. N - 1, tag \in Tags
  <2>1. PICK k \in 1 .. Len(text) : k = x + 1 /\ k # 1
    BY <1>1
  <2>2. IsCell(model, columns[k - 1], text[k], tag, columns[k][tag])
    BY <2>1, TableCells, Zenon
  <2>3. columns[k][tag].path \in Tags
    BY <2>2, Zenon DEF IsCell
  <2> QED
    BY <2>1, <2>3
<1> DEFINE Body(f) == [x \in 1 .. Len(columns) |->
                          IF x = Len(columns) THEN LastTag(columns)
                          ELSE columns[x + 1][f[x + 1]].path]
<1>4. PICK first : first = [x \in 1 .. N |-> last]
  OBVIOUS
<1>5. PICK next : next = [x \in 1 .. N |-> IF x < N THEN x + 1 ELSE N]
  OBVIOUS
<1>6. PICK step : step =
         [x \in 1 .. N |-> [tag \in Tags |-> IF x < N THEN columns[x + 1][tag].path ELSE tag]]
  OBVIOUS
<1>7. PICK f : Onward(f, N, Tags, first, next, step)
  <2>1. first \in [1 .. N -> Tags] /\ next \in [1 .. N -> 1 .. N]
    BY <1>1, <1>4, <1>5
  <2>2. step \in [1 .. N -> [Tags -> Tags]]
    <3>1. ASSUME NEW x \in 1 .. N, NEW tag \in Tags
          PROVE  (IF x < N THEN columns[x + 1][tag].path ELSE tag) \in Tags
      <4>1. x < N => x \in 1 .. N - 1
        OBVIOUS
      <4> QED
        BY <1>3, <4>1
    <3> QED
      BY <1>6, <3>1
  <2> QED
    BY <1>1, <2>1, <2>2, OnwardRecursion
<1>8. f \in [1 .. N -> Tags]
  BY <1>7, Zenon DEF Onward
<1>9. \A x \in 1 .. N : f[x] = IF x = N THEN last ELSE columns[x + 1][f[x + 1]].path
  <2> TAKE x \in 1 .. N
  <2>1. f[x] = IF next[x] > x THEN step[x][f[next[x]]] ELSE first[x]
    BY <1>7 DEF Onward
  <2>2. CASE x = N
    <3>1. next[x] = N /\ ~(N > N) /\ first[x] = last
      BY <1>4, <1>5, <2>2
    <3> QED
      BY <2>1, <2>2, <3>1
  <2>3. CASE x # N
    <3>1. x < N /\ next[x] = x + 1 /\ x + 1 > x /\ x + 1 \in 1 .. N
      BY <1>5, <2>3
    <3>2. f[x + 1] \in Tags
      BY <1>8, <3>1
    <3>3. f[x] = step[x][f[x + 1]]
      BY <2>1, <3>1
    <3> QED
      BY <1>6, <2>3, <3>1, <3>2, <3>3
  <2> QED
    BY <2>2, <2>3
<1>10. f = Body(f)
  <2>1. f = [x \in 1 .. N |-> IF x = N THEN last ELSE columns[x + 1][f[x + 1]].path]
    BY <1>8, <1>9
  <2> QED
    BY <1>1, <1>2, <2>1, Zenon
<1>11. PICK kept : kept = CHOOSE g : g = Body(g)
  BY Zenon
<1>12. kept = Body(kept)
  BY <1>10, <1>11, Zenon
<1>13. WayBack(columns) = [x \in 1 .. Len(columns) |-> kept[x]]
  <2>1. WayBack(columns) = [x \in 1 .. Len(columns) |-> (CHOOSE g : g = Body(g))[x]]
    BY Zenon DEF WayBack, Back, LastTag
  <2> HIDE DEF Body
  <2>2. [x \in 1 .. Len(columns) |-> (CHOOSE g : g = Body(g))[x]]
           = [x \in 1 .. Len(columns) |-> kept[x]]
    BY <1>11
  <2> QED
    BY <2>1, <2>2, Zenon
<1>14. \A x \in 1 .. N : kept[x] = IF x = N THEN last ELSE columns[x + 1][kept[x + 1]].path
  <2>1. ASSUME NEW x \in 1 .. N
        PROVE  Body(kept)[x] = IF x = N THEN last ELSE columns[x + 1][kept[x + 1]].path
    BY <1>1, <1>2, Zenon
  <2> QED
    BY <1>12, <2>1, Zenon
<1> HIDE DEF Body
<1>15. \A x \in 1 .. N : kept[x] \in Tags
  <2> DEFINE good == {x \in 1 .. N : kept[x] \in Tags}
  <2>1. ASSUME NEW x \in 1 .. N, \A j \in x + 1 .. N : j \in good
        PROVE  x \in good
    <3>1. CASE x = N
      BY <1>14, <3>1
    <3>2. CASE x # N
      <4>1. x + 1 \in x + 1 .. N /\ x \in 1 .. N - 1
        BY <3>2
      <4>2. kept[x + 1] \in Tags
        BY <2>1, <4>1
      <4>3. columns[x + 1][kept[x + 1]].path \in Tags
        BY <1>3, <4>1, <4>2
      <4> QED
        BY <1>14, <3>2, <4>3
    <3> QED
      BY <3>1, <3>2
  <2> HIDE DEF good
  <2>2. \A x \in 1 .. N : x \in good
    BY <2>1, FromTheEnd
  <2> QED
    BY <2>2 DEF good
<1>16. PICK way : way = WayBack(columns)
  OBVIOUS
<1>17. way = [x \in 1 .. N |-> kept[x]]
  BY <1>1, <1>13, <1>16, Zenon
<1>18. way \in [1 .. N -> Tags] /\ \A x \in 1 .. N : way[x] = kept[x]
  BY <1>15, <1>17
<1>19. way[N] = last
  BY <1>1, <1>14, <1>18
<1>20. ASSUME NEW x \in 1 .. N - 1
       PROVE  way[x] = columns[x + 1][way[x + 1]].path
  <2>1. x \in 1 .. N /\ x + 1 \in 1 .. N /\ x # N
    OBVIOUS
  <2>2. way[x] = kept[x] /\ way[x + 1] = kept[x + 1]
    BY <1>18, <2>1
  <2>3. kept[x] = columns[x + 1][kept[x + 1]].path
    BY <1>14, <2>1
  <2> QED
    BY <2>2, <2>3
<1>21. IsWay(columns, way)
  BY <1>1, <1>2, <1>18, <1>19, <1>20, Zenon DEF IsWay
<1> QED
  BY <1>16, <1>21, Zenon
-----------------------------------------------------------------------------
(* HMMSegment: the way is the likeliest                                    *)

(* What the tags of a text weigh, up to each of them.                      *)
Emitted(model, text, tags, x) == GetEmitProb(model, tags[x], text[x])
Began(model, text, tags) == Plus(model.start[tags[1]], Emitted(model, text, tags, 1))
Moved(model, text, tags, x) ==
    Plus(model.trans[tags[x - 1]][tags[x]], Emitted(model, text, tags, x))
TagsWeigh(sum, model, text, tags) ==
    /\ sum \in [1 .. Len(text) -> Likelihood]
    /\ sum[1] = Began(model, text, tags)
    /\ \A x \in 1 .. Len(text) :
          x # 1 => sum[x] = Plus(sum[x - 1], Moved(model, text, tags, x))

(* The terms of the sum are likelihoods.                                   *)
LEMMA TagsAreLikely ==
    ASSUME NEW model, SoundModel(model), NEW X, NEW text \in Seq(X), text # << >>,
           NEW tags \in [1 .. Len(text) -> Tags]
    PROVE  /\ Began(model, text, tags) \in Likelihood
           /\ \A x \in 1 .. Len(text) :
                 x # 1 => Moved(model, text, tags, x) \in Likelihood
<1>1. \A x \in 1 .. Len(text) : tags[x] \in Tags
  OBVIOUS
<1>2. \A x \in 1 .. Len(text) : Emitted(model, text, tags, x) \in Likelihood
  <2> TAKE x \in 1 .. Len(text)
  <2>1. GetEmitProb(model, tags[x], text[x]) \in Likelihood
    BY <1>1, EmitIsLikelihood
  <2> QED
    BY <2>1, Zenon DEF Emitted
<1>3. Began(model, text, tags) \in Likelihood
  <2>1. 1 \in 1 .. Len(text)
    OBVIOUS
  <2>2. model.start[tags[1]] \in Likelihood
    BY <1>1, <2>1 DEF SoundModel
  <2>3. Emitted(model, text, tags, 1) \in Likelihood
    BY <1>2, <2>1, Zenon
  <2>4. PICK a \in Likelihood, b \in Likelihood :
           a = model.start[tags[1]] /\ b = Emitted(model, text, tags, 1)
    BY <2>2, <2>3, Zenon
  <2>5. Plus(a, b) \in Likelihood
    BY PlusIsSum
  <2> QED
    BY <2>4, <2>5, Zenon DEF Began
<1>4. ASSUME NEW x \in 1 .. Len(text), x # 1
      PROVE  Moved(model, text, tags, x) \in Likelihood
  <2>1. x - 1 \in 1 .. Len(text)
    BY <1>4
  <2>2. PICK p \in Tags, t \in Tags : p = tags[x - 1] /\ t = tags[x]
    BY <1>1, <2>1, Zenon
  <2>3. model.trans[p][t] \in Likelihood
    <3>1. model.trans \in [Tags -> [Tags -> Likelihood]]
      BY DEF SoundModel
    <3> QED
      BY <3>1
  <2>4. Emitted(model, text, tags, x) \in Likelihood
    BY <1>2, Zenon
  <2>5. PICK a \in Likelihood, b \in Likelihood :
           a = model.trans[p][t] /\ b = Emitted(model, text, tags, x)
    BY <2>3, <2>4, Zenon
  <2>6. Plus(a, b) \in Likelihood
    BY PlusIsSum
  <2>7. Moved(model, text, tags, x) = Plus(a, b)
    BY <2>2, <2>5, Zenon DEF Moved
  <2> QED
    BY <2>6, <2>7, Zenon
<1> QED
  BY <1>3, <1>4, Zenon

(* WeightOfTags is the sum.                                                *)
LEMMA WeightOfTheTags ==
    ASSUME NEW model, SoundModel(model), NEW X, NEW text \in Seq(X), text # << >>,
           NEW tags \in [1 .. Len(text) -> Tags]
    PROVE  \E sum : /\ TagsWeigh(sum, model, text, tags)
                    /\ WeightOfTags(model, text, tags) = sum[Len(text)]
<1> DEFINE Body(f) == [x \in 1 .. Len(text) |->
                          IF x = 1 THEN Plus(model.start[tags[x]], Emitted(model, text, tags, x))
                          ELSE Plus(f[x - 1], Moved(model, text, tags, x))]
           moved(x) == Moved(model, text, tags, x)
<1>1. PICK N \in Nat : N = Len(text) /\ N # 0 /\ 1 \in 1 .. N
  OBVIOUS
<1>2. PICK began \in Likelihood : began = Began(model, text, tags)
  BY TagsAreLikely
<1>3. \A x \in 1 .. N : x # 1 => moved(x) \in Likelihood
  BY <1>1, TagsAreLikely, Zenon
<1>4. PICK step : step =
         [n \in 1 .. N |-> [w \in Likelihood |-> IF n = 1 THEN began ELSE Plus(w, moved(n))]]
  OBVIOUS
<1> HIDE DEF moved
<1>5. PICK sum : Steps(sum, N, Likelihood, 0, step)
  <2>1. step \in [1 .. N -> [Likelihood -> Likelihood]]
    <3>1. ASSUME NEW n \in 1 .. N, NEW w \in Likelihood
          PROVE  (IF n = 1 THEN began ELSE Plus(w, moved(n))) \in Likelihood
      <4>1. CASE n = 1
        BY <4>1
      <4>2. CASE n # 1
        <5>1. PICK m \in Likelihood : m = moved(n)
          BY <1>3, <4>2
        <5>2. Plus(w, m) \in Likelihood
          BY PlusIsSum
        <5> QED
          BY <4>2, <5>1, <5>2
      <4> QED
        BY <4>1, <4>2
    <3> QED
      BY <1>4, <3>1
  <2>2. 0 \in Likelihood
    BY DEF Likelihood
  <2> QED
    BY <2>1, <2>2, Iteration
<1>6. sum \in [0 .. N -> Likelihood]
  BY <1>5, Zenon DEF Steps
<1>7. \A n \in 1 .. N : sum[n] = IF n = 1 THEN began ELSE Plus(sum[n - 1], moved(n))
  <2> TAKE n \in 1 .. N
  <2>1. n - 1 \in 0 .. N
    OBVIOUS
  <2>2. sum[n - 1] \in Likelihood
    BY <1>6, <2>1
  <2>3. sum[n] = step[n][sum[n - 1]]
    BY <1>5, Zenon DEF Steps
  <2> QED
    BY <1>4, <2>2, <2>3
<1>8. PICK f : f = [n \in 1 .. N |-> sum[n]]
  OBVIOUS
<1>9. f \in [1 .. N -> Likelihood]
  BY <1>6, <1>8
<1>10. \A n \in 1 .. N : f[n] = IF n = 1 THEN began ELSE Plus(f[n - 1], moved(n))
  <2> TAKE n \in 1 .. N
  <2>1. CASE n = 1
    BY <1>7, <1>8, <2>1
  <2>2. CASE n # 1
    <3>1. n - 1 \in 1 .. N
      BY <2>2
    <3>2. f[n - 1] = sum[n - 1] /\ f[n] = sum[n]
      BY <1>8, <3>1
    <3> QED
      BY <1>7, <2>2, <3>2
  <2> QED
    BY <2>1, <2>2
<1>11. \A n \in 1 .. N : f[n] =
          IF n = 1 THEN Plus(model.start[tags[n]], Emitted(model, text, tags, n))
          ELSE Plus(f[n - 1], Moved(model, text, tags, n))
  BY <1>2, <1>10, Zenon DEF Began, moved
<1>12. f = Body(f)
  <2>1. f = [n \in 1 .. N |->
                IF n = 1 THEN Plus(model.start[tags[n]], Emitted(model, text, tags, n))
                ELSE Plus(f[n - 1], Moved(model, text, tags, n))]
    BY <1>9, <1>11
  <2> QED
    BY <1>1, <2>1, Zenon
<1>13. PICK kept : kept = CHOOSE g : g = Body(g)
  BY Zenon
<1>14. kept = Body(kept)
  BY <1>12, <1>13, Zenon
<1>15. WeightOfTags(model, text, tags) = kept[Len(text)]
  BY <1>13, Zenon DEF WeightOfTags, Emitted, Moved
<1>16. \A n \in 1 .. N : kept[n] =
          IF n = 1 THEN Plus(model.start[tags[n]], Emitted(model, text, tags, n))
          ELSE Plus(kept[n - 1], Moved(model, text, tags, n))
  <2>1. ASSUME NEW n \in 1 .. N
        PROVE  Body(kept)[n] =
                  IF n = 1 THEN Plus(model.start[tags[n]], Emitted(model, text, tags, n))
                  ELSE Plus(kept[n - 1], Moved(model, text, tags, n))
    BY <1>1, Zenon
  <2> QED
    BY <1>14, <2>1, Zenon
<1> HIDE DEF Body
<1>17. kept[N] = f[N]
  <2> DEFINE good == {n \in 0 .. N : n = 0 \/ kept[n] = f[n]}
  <2>1. 0 \in good
    OBVIOUS
  <2>2. ASSUME NEW n \in 1 .. N, n - 1 \in good
        PROVE  n \in good
    <3>1. n \in 0 .. N
      OBVIOUS
    <3>2. CASE n = 1
      BY <1>11, <1>16, <3>1, <3>2
    <3>3. CASE n # 1
      <4>1. kept[n - 1] = f[n - 1]
        BY <2>2, <3>3
      <4>2. kept[n] = Plus(kept[n - 1], Moved(model, text, tags, n))
        BY <1>16, <3>3, Zenon
      <4>3. f[n] = Plus(f[n - 1], Moved(model, text, tags, n))
        BY <1>11, <3>3, Zenon
      <4>4. kept[n] = f[n]
        BY <4>1, <4>2, <4>3, Zenon
      <4> QED
        BY <3>1, <4>4, Zenon
    <3> QED
      BY <3>2, <3>3
  <2> HIDE DEF good
  <2>3. \A n \in 0 .. N : n \in good
    BY <2>1, <2>2, StepByStep
  <2> QED
    BY <1>1, <2>3 DEF good
<1>18. f[1] = Began(model, text, tags)
  BY <1>1, <1>2, <1>10
<1>19. \A x \in 1 .. N : x # 1 => f[x] = Plus(f[x - 1], Moved(model, text, tags, x))
  BY <1>11, Zenon
<1>20. TagsWeigh(f, model, text, tags)
  BY <1>1, <1>9, <1>18, <1>19, Zenon DEF TagsWeigh
<1> QED
  BY <1>1, <1>15, <1>17, <1>20, Zenon

(* In which order the terms are added makes no difference where the sum is *)
(* possible.                                                               *)
LEMMA PlusAssociates ==
    ASSUME NEW c \in Likelihood, NEW t \in Likelihood, NEW e \in Likelihood,
           ~Impossible(Plus(Plus(c, t), e))
    PROVE  Plus(Plus(c, t), e) = Plus(c, Plus(t, e)) /\ ~Impossible(c)
BY DEF Plus, Impossible, Likelihood, MinDouble

(* What is less before a transition is less after it.                      *)
LEMMA PlusGrows ==
    ASSUME NEW s \in Likelihood, NEW c \in Likelihood, s <= c,
           NEW t \in Likelihood, NEW e \in Likelihood,
           ~Impossible(Plus(s, Plus(t, e)))
    PROVE  Plus(s, Plus(t, e)) <= Plus(Plus(c, t), e) /\ ~Impossible(s)
BY DEF Plus, Impossible, Likelihood, MinDouble

(* The terms of one transition and one emission, and the cell before.      *)
LEMMA TermsOfMove ==
    ASSUME NEW model, SoundModel(model), NEW X, NEW text \in Seq(X),
           NEW tags \in [1 .. Len(text) -> Tags],
           NEW columns, IsTable(model, text, columns),
           NEW x \in 1 .. Len(text), x # 1
    PROVE  \E c \in Likelihood, t \in Likelihood, e \in Likelihood :
              /\ c = columns[x - 1][tags[x - 1]].weight
              /\ Moved(model, text, tags, x) = Plus(t, e)
              /\ Through(model, columns[x - 1], text[x], tags[x - 1], tags[x]).weight
                    = Plus(Plus(c, t), e)
<1>1. PICK k \in 1 .. Len(text) : k = x - 1
  OBVIOUS
<1>2. PICK p \in Tags, y \in Tags : p = tags[k] /\ y = tags[x]
  OBVIOUS
<1>3. PICK column \in [Tags -> Cells] : column = columns[k]
  BY TableCells
<1>4. column[p].weight \in Likelihood
  <2>1. column[p] \in Cells
    OBVIOUS
  <2> QED
    BY <2>1 DEF Cells
<1>5. model.trans[p][y] \in Likelihood
  <2>1. model.trans \in [Tags -> [Tags -> Likelihood]]
    BY DEF SoundModel
  <2> QED
    BY <2>1
<1>6. GetEmitProb(model, y, text[x]) \in Likelihood
  BY EmitIsLikelihood
<1>7. PICK c \in Likelihood, t \in Likelihood, e \in Likelihood :
         c = column[p].weight /\ t = model.trans[p][y] /\ e = GetEmitProb(model, y, text[x])
  BY <1>4, <1>5, <1>6, Zenon
<1>8. Moved(model, text, tags, x) = Plus(t, e)
  BY <1>1, <1>2, <1>7, Zenon DEF Moved, Emitted
<1>9. Through(model, column, text[x], p, y).weight = Plus(Plus(c, t), e)
  <2>1. Through(model, column, text[x], p, y)
           = [weight |-> Plus(Plus(c, t), e), path |-> p]
    BY <1>7, Zenon DEF Through
  <2> QED
    BY <2>1
<1> QED
  BY <1>1, <1>2, <1>3, <1>7, <1>8, <1>9, Zenon

(* Nothing that is possible weighs more than the cell it leads to.         *)
LEMMA TagsAreBelow ==
    ASSUME NEW model, SoundModel(model), NEW X, NEW text \in Seq(X), text # << >>,
           NEW tags \in [1 .. Len(text) -> Tags],
           NEW columns, IsTable(model, text, columns),
           NEW sum, TagsWeigh(sum, model, text, tags)
    PROVE  \A x \in 1 .. Len(text) :
              ~Impossible(sum[x]) => sum[x] <= columns[x][tags[x]].weight
<1>1. PICK N \in Nat : N = Len(text) /\ N # 0
  OBVIOUS
<1> DEFINE below(x) == ~Impossible(sum[x]) => sum[x] <= columns[x][tags[x]].weight
           good == {x \in 0 .. N : x = 0 \/ below(x)}
<1>2. below(1)
  <2>1. 1 \in 1 .. Len(text)
    OBVIOUS
  <2>2. PICK y \in Tags : y = tags[1]
    BY <2>1
  <2>3. columns[1][y].weight = Plus(model.start[y], GetEmitProb(model, y, text[1]))
    BY <2>1, TableCells
  <2>4. sum[1] = columns[1][tags[1]].weight
    BY <2>2, <2>3, Zenon DEF TagsWeigh, Began, Emitted
  <2>5. sum[1] \in Likelihood
    BY <2>1 DEF TagsWeigh
  <2> QED
    BY <2>4, <2>5 DEF Likelihood
<1>3. ASSUME NEW x \in 1 .. N, x - 1 \in good, x # 1
      PROVE  below(x)
  <2>1. PICK c \in Likelihood, t \in Likelihood, e \in Likelihood :
           /\ c = columns[x - 1][tags[x - 1]].weight
           /\ Moved(model, text, tags, x) = Plus(t, e)
           /\ Through(model, columns[x - 1], text[x], tags[x - 1], tags[x]).weight
                 = Plus(Plus(c, t), e)
    <3>1. x \in 1 .. Len(text) /\ x # 1
      BY <1>1, <1>3
    <3> HIDE DEF below, good
    <3> QED
      BY <3>1, TermsOfMove
  <2>2. x \in 1 .. Len(text) /\ x - 1 \in 1 .. Len(text) /\ x - 1 # 0
    BY <1>1, <1>3
  <2>3. PICK s \in Likelihood : s = sum[x - 1]
    BY <2>2 DEF TagsWeigh
  <2>4. ~Impossible(s) => s <= c
    <3>1. below(x - 1)
      BY <1>3, <2>2
    <3> QED
      BY <2>1, <2>3, <3>1
  <2>5. sum[x] = Plus(s, Plus(t, e))
    BY <1>3, <2>1, <2>2, <2>3, Zenon DEF TagsWeigh
  <2>6. PICK p \in Tags, y \in Tags : p = tags[x - 1] /\ y = tags[x]
    BY <2>2
  <2>7. Through(model, columns[x - 1], text[x], p, y).weight <= columns[x][y].weight
    <3>1. IsCell(model, columns[x - 1], text[x], y, columns[x][y])
      BY <1>3, <2>2, TableCells, Zenon
    <3> QED
      BY <3>1, Zenon DEF IsCell
  <2>8. ASSUME ~Impossible(sum[x])
        PROVE  sum[x] <= columns[x][y].weight
    <3>1. ~Impossible(s)
      <4>1. ~Impossible(Plus(s, Plus(t, e))) => ~Impossible(s)
        BY DEF Plus, Impossible, Likelihood, MinDouble
      <4> QED
        BY <2>5, <2>8, <4>1, Zenon
    <3>2. Plus(s, Plus(t, e)) <= Plus(Plus(c, t), e)
      BY <2>4, <2>5, <2>8, <3>1, PlusGrows
    <3>3. PICK a : a = Plus(Plus(c, t), e)
      OBVIOUS
    <3>4. a \in Likelihood
      <4>1. PICK b \in Likelihood : b = Plus(c, t)
        BY PlusIsSum
      <4>2. Plus(b, e) \in Likelihood
        BY PlusIsSum
      <4> QED
        BY <3>3, <4>1, <4>2
    <3>5. sum[x] \in Likelihood
      BY <2>2 DEF TagsWeigh
    <3>6. PICK w \in Likelihood : w = columns[x][y].weight
      <4>1. PICK column \in [Tags -> Cells] : column = columns[x]
        BY <2>2, TableCells
      <4>2. column[y].weight \in Likelihood
        <5>1. column[y] \in Cells
          OBVIOUS
        <5> QED
          BY <5>1 DEF Cells
      <4> QED
        BY <4>1, <4>2, Zenon
    <3>7. sum[x] <= a /\ a <= w
      BY <2>1, <2>5, <2>6, <2>7, <3>2, <3>3, <3>6, Zenon
    <3> QED
      BY <3>4, <3>5, <3>6, <3>7 DEF Likelihood
  <2> QED
    BY <2>6, <2>8, Zenon
<1>4. 0 \in good
  OBVIOUS
<1>5. ASSUME NEW x \in 1 .. N, x - 1 \in good
      PROVE  x \in good
  <2>1. below(x)
    <3>1. CASE x = 1
      BY <1>2, <3>1, Zenon
    <3>2. CASE x # 1
      BY <1>3, <1>5, <3>2, Zenon
    <3> QED
      BY <3>1, <3>2
  <2>2. x \in 0 .. N
    OBVIOUS
  <2> QED
    BY <2>1, <2>2, Zenon
<1> HIDE DEF good
<1>6. \A x \in 0 .. N : x \in good
  BY <1>4, <1>5, StepByStep
<1>7. ASSUME NEW x \in 1 .. N
      PROVE  below(x)
  <2>1. x \in 0 .. N /\ x # 0
    OBVIOUS
  <2> QED
    BY <1>6, <2>1, Zenon DEF good
<1> QED
  BY <1>1, <1>7, Zenon

(* The way back weighs what the cells on it do.                            *)
LEMMA WayIsExact ==
    ASSUME NEW model, SoundModel(model), NEW X, NEW text \in Seq(X), text # << >>,
           NEW columns, IsTable(model, text, columns),
           NEW way, IsWay(columns, way),
           NEW sum, TagsWeigh(sum, model, text, way)
    PROVE  \A x \in 1 .. Len(text) :
              ~Impossible(columns[x][way[x]].weight) => sum[x] = columns[x][way[x]].weight
<1>1. PICK N \in Nat : N = Len(text) /\ N # 0 /\ Len(columns) = N
  <2>1. Len(columns) = Len(text)
    BY Zenon DEF IsTable
  <2> QED
    BY <2>1
<1> DEFINE exact(x) ==
        ~Impossible(columns[x][way[x]].weight) => sum[x] = columns[x][way[x]].weight
           good == {x \in 0 .. N : x = 0 \/ exact(x)}
<1>2. way \in [1 .. Len(text) -> Tags]
  BY <1>1, Zenon DEF IsWay
<1>3. exact(1)
  <2>1. 1 \in 1 .. Len(text)
    OBVIOUS
  <2>2. PICK y \in Tags : y = way[1]
    BY <1>2, <2>1
  <2>3. columns[1][y].weight = Plus(model.start[y], GetEmitProb(model, y, text[1]))
    BY <2>1, TableCells
  <2>4. sum[1] = columns[1][way[1]].weight
    BY <2>2, <2>3, Zenon DEF TagsWeigh, Began, Emitted
  <2> QED
    BY <2>4
<1>4. ASSUME NEW x \in 1 .. N, x - 1 \in good, x # 1
      PROVE  exact(x)
  <2>1. PICK c \in Likelihood, t \in Likelihood, e \in Likelihood :
           /\ c = columns[x - 1][way[x - 1]].weight
           /\ Moved(model, text, way, x) = Plus(t, e)
           /\ Through(model, columns[x - 1], text[x], way[x - 1], way[x]).weight
                 = Plus(Plus(c, t), e)
    BY <1>1, <1>2, <1>4, TermsOfMove
  <2>2. x \in 1 .. Len(text) /\ x - 1 \in 1 .. Len(text) /\ x - 1 # 0
    BY <1>1, <1>4
  <2>3. ~Impossible(c) => sum[x - 1] = c
    <3>1. exact(x - 1)
      BY <1>4, <2>2
    <3> QED
      BY <2>1, <3>1, Zenon
  <2>4. sum[x] = Plus(sum[x - 1], Plus(t, e))
    BY <1>4, <2>1, <2>2, Zenon DEF TagsWeigh
  <2>5. PICK p \in Tags, y \in Tags : p = way[x - 1] /\ y = way[x]
    BY <1>2, <2>2
  <2>6. columns[x][y].path = p
    <3>1. PICK k \in 1 .. Len(columns) - 1 : k = x - 1 /\ k + 1 = x
      BY <1>1, <1>4
    <3>2. way[k] = columns[k + 1][way[k + 1]].path
      BY Zenon DEF IsWay
    <3> QED
      BY <2>5, <3>1, <3>2
  <2>7. IsCell(model, columns[x - 1], text[x], y, columns[x][y])
    BY <1>4, <2>2, TableCells, Zenon
  <2>8. ~Impossible(columns[x][y].weight) =>
           columns[x][y].weight = Through(model, columns[x - 1], text[x], p, y).weight
    BY <2>6, <2>7, Zenon DEF IsCell
  <2>9. ASSUME ~Impossible(columns[x][y].weight)
        PROVE  sum[x] = columns[x][y].weight
    <3>1. columns[x][y].weight = Plus(Plus(c, t), e)
      BY <2>1, <2>5, <2>8, <2>9, Zenon
    <3>2. ~Impossible(Plus(Plus(c, t), e))
      BY <2>9, <3>1, Zenon
    <3>3. Plus(Plus(c, t), e) = Plus(c, Plus(t, e)) /\ ~Impossible(c)
      BY <3>2, PlusAssociates
    <3> QED
      BY <2>3, <2>4, <3>1, <3>3, Zenon
  <2> QED
    BY <2>5, <2>9, Zenon
<1>5. 0 \in good
  OBVIOUS
<1>6. ASSUME NEW x \in 1 .. N, x - 1 \in good
      PROVE  x \in good
  <2>1. exact(x)
    <3>1. CASE x = 1
      BY <1>3, <3>1, Zenon
    <3>2. CASE x # 1
      BY <1>4, <1>6, <3>2, Zenon
    <3> QED
      BY <3>1, <3>2
  <2>2. x \in 0 .. N
    OBVIOUS
  <2> QED
    BY <2>1, <2>2, Zenon
<1> HIDE DEF good
<1>7. \A x \in 0 .. N : x \in good
  BY <1>5, <1>6, StepByStep
<1>8. ASSUME NEW x \in 1 .. N
      PROVE  exact(x)
  <2>1. x \in 0 .. N /\ x # 0
    OBVIOUS
  <2> QED
    BY <1>7, <2>1, Zenon DEF good
<1> QED
  BY <1>1, <1>8, Zenon

(* The path that Viterbi walks back is the likeliest that ends a word.     *)
LEMMA ViterbiIsAWay ==
    ASSUME NEW model, SoundModel(model), NEW X, NEW text \in Seq(X), text # << >>
    PROVE  /\ Viterbi(model, text) \in [1 .. Len(text) -> Tags]
           /\ EndsWord(Viterbi(model, text)[Len(text)])
<1>1. PICK columns : columns = Columns(model, text)
  OBVIOUS
<1>2. IsTable(model, text, columns)
  BY <1>1, ColumnsAreTable
<1>3. Len(columns) = Len(text)
  BY <1>2, Zenon DEF IsTable
<1>4. PICK way : way = WayBack(columns)
  OBVIOUS
<1>5. IsWay(columns, way)
  BY <1>2, <1>4, WayIsWalked
<1>6. Viterbi(model, text) = way
  BY <1>1, <1>4, Zenon DEF Viterbi
<1>7. LastTag(columns) = 1 \/ LastTag(columns) = 3
  BY DEF LastTag, E, S
<1>8. EndsWord(LastTag(columns))
  BY <1>7 DEF EndsWord
<1> QED
  BY <1>3, <1>5, <1>6, <1>8, Zenon DEF IsWay

(* HMMSegment finds the likeliest of the sequences of tags that are        *)
(* possible.                                                               *)
THEOREM LikeliestIsFound ==
    ASSUME NEW model, SoundModel(model), NEW X, NEW text \in Seq(X), text # << >>
    PROVE  LikeliestTags(model, text)
<1>1. PICK columns : columns = Columns(model, text)
  OBVIOUS
<1>2. IsTable(model, text, columns)
  BY <1>1, ColumnsAreTable
<1>3. PICK N \in Nat : N = Len(text) /\ Len(columns) = N /\ N # 0 /\ N \in 1 .. Len(text)
  <2>1. Len(columns) = Len(text)
    BY <1>2, Zenon DEF IsTable
  <2> QED
    BY <2>1
<1>4. PICK way : way = WayBack(columns)
  OBVIOUS
<1>5. IsWay(columns, way)
  BY <1>2, <1>4, WayIsWalked
<1>6. Viterbi(model, text) = way
  BY <1>1, <1>4, Zenon DEF Viterbi
<1>7. way \in [1 .. Len(text) -> Tags]
  BY <1>3, <1>5, Zenon DEF IsWay
<1>8. PICK sum : TagsWeigh(sum, model, text, way) /\ WeightOfTags(model, text, way) = sum[N]
  BY <1>3, <1>7, WeightOfTheTags
<1>9. PICK column \in [Tags -> Cells] : column = columns[N]
  BY <1>2, <1>3, TableCells
<1>10. \A y \in Tags : column[y].weight \in Likelihood
  <2> TAKE y \in Tags
  <2>1. column[y] \in Cells
    OBVIOUS
  <2> QED
    BY <2>1 DEF Cells
<1>11. way[N] = IF column[E].weight >= column[S].weight THEN E ELSE S
  BY <1>3, <1>5, <1>9, Zenon DEF IsWay, LastTag
<1>12. PICK e \in Likelihood, s \in Likelihood : e = column[1].weight /\ s = column[3].weight
  BY <1>10 DEF Tags
<1>13. \/ way[N] = 1 /\ e >= s
       \/ way[N] = 3 /\ s >= e
  BY <1>11, <1>12 DEF E, S, Likelihood
<1>14. PICK w \in Likelihood : w = column[way[N]].weight /\ e <= w /\ s <= w
  BY <1>12, <1>13 DEF Likelihood
<1>15. ~Impossible(w) => sum[N] = w
  BY <1>2, <1>3, <1>5, <1>8, <1>9, <1>14, WayIsExact
<1>16. ASSUME NEW tags \in [1 .. Len(text) -> Tags], EndsWord(tags[Len(text)]),
              ~Impossible(WeightOfTags(model, text, tags)),
              WeightOfTags(model, text, tags) > sum[N]
       PROVE  FALSE
  <2>1. PICK other : /\ TagsWeigh(other, model, text, tags)
                     /\ WeightOfTags(model, text, tags) = other[N]
    BY <1>3, WeightOfTheTags
  <2>2. other[N] \in Likelihood
    BY <1>3, <2>1 DEF TagsWeigh
  <2>3. ~Impossible(other[N]) => other[N] <= columns[N][tags[N]].weight
    BY <1>2, <1>3, <2>1, TagsAreBelow
  <2>4. tags[N] \in Tags
    BY <1>3
  <2>5. tags[N] = 1 \/ tags[N] = 3
    BY <1>3, <1>16, <2>4 DEF EndsWord, Tags
  <2>6. columns[N][tags[N]].weight = e \/ columns[N][tags[N]].weight = s
    BY <1>9, <1>12, <2>5
  <2>7. other[N] <= e \/ other[N] <= s
    BY <1>16, <2>1, <2>3, <2>6
  <2>8. PICK o \in Likelihood : o = other[N] /\ o <= w
    BY <1>14, <2>2, <2>7 DEF Likelihood
  <2>9. ~Impossible(o) /\ o > sum[N]
    BY <1>16, <2>1, <2>8
  <2>10. ~Impossible(w)
    BY <2>8, <2>9 DEF Impossible, MinDouble, Likelihood
  <2> QED
    BY <1>15, <2>8, <2>9, <2>10 DEF Likelihood
<1>17. WeightOfTags(model, text, Viterbi(model, text)) = sum[N]
  BY <1>6, <1>8, Zenon
<1> QED
  BY <1>16, <1>17, Zenon DEF LikeliestTags
-----------------------------------------------------------------------------
(* HMMSegment and MixSegment lose nothing                                  *)

(* A cut by tags, the last of which ends a word, loses nothing.            *)
LEMMA InternalCutIsWhole ==
    ASSUME NEW model, SoundModel(model), NEW R, NEW runes \in Seq(R), runes # << >>
    PROVE  /\ InternalCut(model, runes) \in Seq(Seq(R))
           /\ FlattenSeq(InternalCut(model, runes)) = runes
<1>1. PICK X : X = {r.rune : r \in R}
  OBVIOUS
<1>2. PICK text \in Seq(X) : text = Unicode(runes) /\ Len(text) = Len(runes)
  BY <1>1, UnicodeOf
<1>3. Len(runes) \in 1 .. Len(runes) /\ text # << >>
  BY <1>2
<1>4. PICK tags : tags = Viterbi(model, text)
  OBVIOUS
<1>5. tags \in [1 .. Len(text) -> Tags] /\ EndsWord(tags[Len(text)])
  BY <1>3, <1>4, ViterbiIsAWay
<1>6. PICK ends : ends = {x \in DOMAIN tags : EndsWord(tags[x])}
  OBVIOUS
<1>7. Len(runes) \in ends
  <2>1. DOMAIN tags = 1 .. Len(text)
    BY <1>5
  <2> QED
    BY <1>2, <1>3, <1>5, <1>6, <2>1
<1>8. InternalCut(model, runes) = CutAfter(runes, ends)
  BY <1>2, <1>4, <1>6, Zenon DEF InternalCut, CutByTags
<1>9. /\ CutAfter(runes, ends) \in Seq(Seq(R))
      /\ FlattenSeq(CutAfter(runes, ends)) = runes
  BY <1>7, CutAfterIsWhole
<1> QED
  BY <1>8, <1>9

(* The greatest of some numbers up to b.                                   *)
LEMMA GreatestIn ==
    ASSUME NEW a \in Nat, NEW b \in Nat, NEW numbers \in SUBSET (a .. b), numbers # {}
    PROVE  Max(numbers) \in numbers
<1>1. PICK left : left = {b - n : n \in numbers}
  OBVIOUS
<1>2. left \in SUBSET Nat /\ left # {}
  <2>1. \A n \in numbers : b - n \in Nat
    OBVIOUS
  <2>2. PICK n \in numbers : TRUE
    OBVIOUS
  <2>3. b - n \in left
    BY <1>1
  <2>4. \A m \in left : m \in Nat
    BY <1>1, <2>1
  <2> QED
    BY <2>3, <2>4
<1>3. PICK m \in left : \A n \in left : m <= n
  BY <1>2, LeastNat
<1>4. PICK k \in numbers : m = b - k
  BY <1>1, <1>3
<1>5. ASSUME NEW n \in numbers
      PROVE  k >= n
  <2>1. b - n \in left
    BY <1>1
  <2>2. b - k <= b - n
    BY <1>3, <1>4, <2>1
  <2> QED
    BY <2>2
<1> QED
  BY <1>4, <1>5 DEF Max

(* A cut as the segmenters write it down.                                  *)
CutOf(f, N, piece, end) ==
    [i \in 1 .. N + 1 |-> IF i > N THEN << >> ELSE piece[i] \o f[end[i] + 1]]

(* That is a cut, and there is one.                                        *)
LEMMA CutIsCutOf ==
    ASSUME NEW N, NEW T, NEW piece, NEW end, PiecesTo(N, T, piece, end)
    PROVE  /\ \E from : from = CutOf(from, N, piece, end)
           /\ \A from : from = CutOf(from, N, piece, end) => Cuts(from, N, piece, end)
<1>1. N \in Nat
  BY DEF PiecesTo
<1>2. ASSUME NEW from, from = CutOf(from, N, piece, end)
      PROVE  Cuts(from, N, piece, end)
  <2>1. DOMAIN from = 1 .. N + 1
    <3>1. DOMAIN CutOf(from, N, piece, end) = 1 .. N + 1
      BY DEF CutOf
    <3> QED
      BY <1>2, <3>1, Zenon
  <2>2. ASSUME NEW i \in 1 .. N + 1
        PROVE  from[i] = IF i > N THEN << >> ELSE piece[i] \o from[end[i] + 1]
    <3>1. CutOf(from, N, piece, end)[i]
             = IF i > N THEN << >> ELSE piece[i] \o from[end[i] + 1]
      BY Zenon DEF CutOf
    <3> QED
      BY <1>2, <3>1, Zenon
  <2>3. from[N + 1] = << >>
    <3>1. N + 1 \in 1 .. N + 1 /\ N + 1 > N
      BY <1>1
    <3> QED
      BY <2>2, <3>1, Zenon
  <2>4. ASSUME NEW i \in 1 .. N
        PROVE  from[i] = piece[i] \o from[end[i] + 1]
    <3>1. i \in 1 .. N + 1 /\ ~(i > N)
      BY <1>1
    <3> QED
      BY <2>2, <3>1, Zenon
  <2> QED
    BY <2>1, <2>3, <2>4, Zenon DEF Cuts
<1>3. PICK from \in [1 .. N + 1 -> Seq(T)] : Cuts(from, N, piece, end)
  BY CutExists
<1>4. from = CutOf(from, N, piece, end)
  <2>1. ASSUME NEW i \in 1 .. N + 1
        PROVE  from[i] = IF i > N THEN << >> ELSE piece[i] \o from[end[i] + 1]
    <3>1. CASE i > N
      <4>1. i = N + 1
        BY <1>1, <3>1
      <4> QED
        BY <1>3, <3>1, <4>1 DEF Cuts
    <3>2. CASE ~(i > N)
      <4>1. i \in 1 .. N
        BY <1>1, <3>2
      <4> QED
        BY <1>3, <3>2, <4>1, Zenon DEF Cuts
    <3> QED
      BY <3>1, <3>2
  <2>2. from = [i \in 1 .. N + 1 |-> from[i]]
    OBVIOUS
  <2> QED
    BY <2>1, <2>2 DEF CutOf
<1> QED
  BY <1>2, <1>4, Zenon

(* HMMSegment leaves letters and numbers together, and cuts by the model   *)
(* what is between them.                                                   *)
Ascii(runes, i) == runes[i].rune < 128
WideEnd(runes, i) == Max({j \in i .. Len(runes) : \A k \in i .. j : ~Ascii(runes, k)})
PieceEnd(runes, i) == IF Ascii(runes, i) THEN RuleEnd(runes, i) ELSE WideEnd(runes, i)
PieceAt(model, runes, i) ==
    IF Ascii(runes, i) THEN <<SubSeq(runes, i, RuleEnd(runes, i))>>
    ELSE InternalCut(model, SubSeq(runes, i, WideEnd(runes, i)))

(* A piece ends in the text, not before it begins.                         *)
LEMMA PieceEnds ==
    ASSUME NEW R, NEW runes \in Seq(R), NEW i \in 1 .. Len(runes)
    PROVE  PieceEnd(runes, i) \in i .. Len(runes)
<1>1. i \in Nat /\ Len(runes) \in Nat /\ i \in i .. Len(runes)
  OBVIOUS
<1>2. CASE Ascii(runes, i)
  <2> DEFINE rune(j) == runes[j].rune
             goesOn(k) == \/ IsLetter(rune(i)) /\ (IsLetter(rune(k)) \/ IsDigit(rune(k)))
                          \/ IsDigit(rune(i)) /\ (IsDigit(rune(k)) \/ rune(k) = 46)
             together == {j \in i .. Len(runes) : \A k \in i + 1 .. j : goesOn(k)}
  <2>1. RuleEnd(runes, i) = Max(together)
    BY Zenon DEF RuleEnd
  <2> HIDE DEF goesOn
  <2>2. \A k : ~(k \in i + 1 .. i)
    OBVIOUS
  <2>3. i \in together
    BY <1>1, <2>2, Zenon
  <2>4. together \in SUBSET (i .. Len(runes)) /\ together # {}
    BY <2>3
  <2> HIDE DEF together
  <2>5. Max(together) \in together
    BY <1>1, <2>4, GreatestIn
  <2> QED
    BY <1>2, <2>1, <2>4, <2>5 DEF PieceEnd
<1>3. CASE ~Ascii(runes, i)
  <2> DEFINE together == {j \in i .. Len(runes) : \A k \in i .. j : ~Ascii(runes, k)}
  <2>1. WideEnd(runes, i) = Max(together)
    BY Zenon DEF WideEnd
  <2>2. \A k \in i .. i : k = i
    OBVIOUS
  <2>3. i \in together
    BY <1>1, <1>3, <2>2, Zenon
  <2>4. together \in SUBSET (i .. Len(runes)) /\ together # {}
    BY <2>3
  <2> HIDE DEF together
  <2>5. Max(together) \in together
    BY <1>1, <2>4, GreatestIn
  <2> QED
    BY <1>3, <2>1, <2>4, <2>5 DEF PieceEnd
<1> QED
  BY <1>2, <1>3

(* A piece says what the text says to its end.                             *)
LEMMA PiecesAreWhole ==
    ASSUME NEW model, SoundModel(model), NEW R, NEW runes \in Seq(R),
           NEW i \in 1 .. Len(runes)
    PROVE  /\ PieceAt(model, runes, i) \in Seq(Seq(R))
           /\ FlattenSeq(PieceAt(model, runes, i)) = SubSeq(runes, i, PieceEnd(runes, i))
<1>1. PICK e \in i .. Len(runes) : e = PieceEnd(runes, i)
  BY PieceEnds
<1>2. PICK part : part = SubSeq(runes, i, e)
  OBVIOUS
<1>3. part \in Seq(R) /\ Len(part) = e - i + 1
  BY <1>2, PartOfSeq
<1>4. part # << >>
  BY <1>3
<1>5. CASE Ascii(runes, i)
  <2>1. PieceAt(model, runes, i) = <<part>>
    BY <1>1, <1>2, <1>5, Zenon DEF PieceAt, PieceEnd
  <2>2. FlattenSeq(<<part>>) = part
    BY <1>3, FlattenOne
  <2>3. <<part>> \in Seq(Seq(R))
    <3>1. PICK W : W = Seq(R)
      OBVIOUS
    <3>2. <<part>> \in Seq(W)
      BY <1>3, <3>1
    <3> QED
      BY <3>1, <3>2, Zenon
  <2> QED
    BY <1>1, <1>2, <2>1, <2>2, <2>3, Zenon
<1>6. CASE ~Ascii(runes, i)
  <2>1. PieceAt(model, runes, i) = InternalCut(model, part)
    BY <1>1, <1>2, <1>6, Zenon DEF PieceAt, PieceEnd
  <2>2. /\ InternalCut(model, part) \in Seq(Seq(R))
        /\ FlattenSeq(InternalCut(model, part)) = part
    BY <1>3, <1>4, InternalCutIsWhole
  <2> QED
    BY <1>1, <1>2, <2>1, <2>2, Zenon
<1> QED
  BY <1>5, <1>6, Zenon

(* So HMMSegment loses nothing.                                            *)
LEMMA HMMCutIsWhole ==
    ASSUME NEW model, SoundModel(model), NEW R, NEW runes \in Seq(R)
    PROVE  /\ HMMCut(model, runes) \in Seq(Seq(R))
           /\ FlattenSeq(HMMCut(model, runes)) = runes
<1> DEFINE Body(f) ==
        [i \in 1 .. Len(runes) + 1 |->
            IF i > Len(runes) THEN << >>
            ELSE IF Ascii(runes, i)
            THEN <<SubSeq(runes, i, RuleEnd(runes, i))>> \o f[RuleEnd(runes, i) + 1]
            ELSE InternalCut(model, SubSeq(runes, i, WideEnd(runes, i)))
                     \o f[WideEnd(runes, i) + 1]]
<1>1. PICK N \in Nat : N = Len(runes)
  OBVIOUS
<1>2. PICK W : W = Seq(R)
  OBVIOUS
<1>3. PICK end : end = [i \in 1 .. N |-> PieceEnd(runes, i)]
  OBVIOUS
<1>4. PICK piece : piece = [i \in 1 .. N |-> PieceAt(model, runes, i)]
  OBVIOUS
<1>5. \A i \in 1 .. N : end[i] = PieceEnd(runes, i) /\ piece[i] = PieceAt(model, runes, i)
  BY <1>3, <1>4
<1>6. \A i \in 1 .. N : PieceEnd(runes, i) \in i .. N
  BY <1>1, PieceEnds, Zenon
<1>7. \A i \in 1 .. N : /\ PieceAt(model, runes, i) \in Seq(W)
                        /\ FlattenSeq(PieceAt(model, runes, i))
                              = SubSeq(runes, i, PieceEnd(runes, i))
  BY <1>1, <1>2, PiecesAreWhole, Zenon
<1>8. PiecesTo(N, W, piece, end)
  <2>1. piece \in [1 .. N -> Seq(W)]
    BY <1>4, <1>7
  <2>2. \A i \in 1 .. N : PieceEnd(runes, i) \in 1 .. N /\ i <= PieceEnd(runes, i)
    BY <1>6
  <2>3. end \in [1 .. N -> 1 .. N] /\ \A i \in 1 .. N : i <= end[i]
    BY <1>3, <2>2
  <2> QED
    BY <2>1, <2>3 DEF PiecesTo
<1>9. ArePieces(piece, end, runes)
  BY <1>1, <1>5, <1>7, Zenon DEF ArePieces
<1>10. ASSUME NEW f
       PROVE  Body(f) = CutOf(f, N, piece, end)
  <2>1. ASSUME NEW i \in 1 .. N + 1
        PROVE  (IF i > N THEN << >>
                ELSE IF Ascii(runes, i)
                THEN <<SubSeq(runes, i, RuleEnd(runes, i))>> \o f[RuleEnd(runes, i) + 1]
                ELSE InternalCut(model, SubSeq(runes, i, WideEnd(runes, i)))
                         \o f[WideEnd(runes, i) + 1])
               = IF i > N THEN << >> ELSE piece[i] \o f[end[i] + 1]
    <3>1. CASE i > N
      BY <3>1
    <3>2. CASE ~(i > N)
      <4>1. i \in 1 .. N
        BY <3>2
      <4>2. end[i] = PieceEnd(runes, i) /\ piece[i] = PieceAt(model, runes, i)
        BY <1>5, <4>1, Zenon
      <4>3. CASE Ascii(runes, i)
        <5>1. /\ end[i] = RuleEnd(runes, i)
              /\ piece[i] = <<SubSeq(runes, i, RuleEnd(runes, i))>>
          BY <4>2, <4>3, Zenon DEF PieceEnd, PieceAt
        <5> QED
          BY <3>2, <4>3, <5>1
      <4>4. CASE ~Ascii(runes, i)
        <5>1. /\ end[i] = WideEnd(runes, i)
              /\ piece[i] = InternalCut(model, SubSeq(runes, i, WideEnd(runes, i)))
          BY <4>2, <4>4, Zenon DEF PieceEnd, PieceAt
        <5> QED
          BY <3>2, <4>4, <5>1
      <4> QED
        BY <4>3, <4>4
    <3> QED
      BY <3>1, <3>2
  <2> QED
    BY <1>1, <2>1 DEF CutOf
<1>11. PICK from : from = CutOf(from, N, piece, end)
  BY <1>8, CutIsCutOf
<1>12. from = Body(from)
  BY <1>10, <1>11, Zenon
<1>13. PICK kept : kept = CHOOSE g : g = Body(g)
  BY Zenon
<1>14. kept = Body(kept)
  BY <1>12, <1>13, Zenon
<1>15. HMMCut(model, runes) = kept[1]
  BY <1>13, Zenon DEF HMMCut, Ascii, WideEnd
<1> HIDE DEF Body
<1>16. Cuts(kept, N, piece, end)
  <2>1. kept = CutOf(kept, N, piece, end)
    BY <1>10, <1>14, Zenon
  <2> QED
    BY <1>8, <2>1, CutIsCutOf
<1>17. kept[1] \in Seq(W)
  <2>1. 1 \in 1 .. N + 1
    OBVIOUS
  <2> QED
    BY <1>8, <1>16, <2>1, CutIsTyped
<1>18. FlattenSeq(kept[1]) = runes
  BY <1>1, <1>2, <1>8, <1>9, <1>16, CutOfText
<1> QED
  BY <1>2, <1>15, <1>17, <1>18, Zenon

(* Pieces that say the same as the words they stand for, one after another,*)
(* say the same as all the words.                                          *)
AreWords(piece, end, words) ==
    \A i \in 1 .. Len(words) : FlattenSeq(piece[i]) = FlattenSeq(SubSeq(words, i, end[i]))

(* They are joined from the last to the first.                             *)
LEMMA CutOfWords ==
    ASSUME NEW R, NEW W, W = Seq(R), NEW words \in Seq(W), NEW N, N = Len(words),
           NEW piece, NEW end, PiecesTo(N, W, piece, end), AreWords(piece, end, words),
           NEW from, Cuts(from, N, piece, end)
    PROVE  FlattenSeq(from[1]) = FlattenSeq(words)
<1>0. \A i \in 1 .. N + 1 : from[i] \in Seq(W)
  BY CutIsTyped
<1> USE DEF PiecesTo
<1>1. PICK good : good = {i \in 1 .. N + 1 :
                             FlattenSeq(from[i]) = FlattenSeq(SubSeq(words, i, N))}
  OBVIOUS
<1>7. ASSUME NEW i \in 1 .. N
      PROVE  end[i] \in i .. N
  <2>1. end \in [1 .. N -> 1 .. N] /\ i <= end[i]
    BY Zenon
  <2> QED
    BY <2>1
<1>2. PICK P \in Nat : P = N + 1
  OBVIOUS
<1>3. ASSUME NEW i \in 1 .. P, \A j \in i + 1 .. P : j \in good
      PROVE  i \in good
  <2>1. CASE i = P
    <3>1. from[P] = << >>
      BY <1>2 DEF Cuts
    <3>2. SubSeq(words, P, N) = << >>
      BY <1>2, SubSeqEmpty
    <3>3. FlattenSeq(from[P]) = FlattenSeq(SubSeq(words, P, N))
      BY <3>1, <3>2, Zenon
    <3> QED
      BY <1>1, <1>2, <2>1, <3>3
  <2>2. CASE i # P
    <3>1. i \in 1 .. N
      BY <1>2, <2>2
    <3>2. PICK e \in i .. N : e = end[i]
      BY <1>7, <3>1, Zenon
    <3>3. e + 1 \in i + 1 .. P /\ e + 1 \in 1 .. N + 1
      BY <1>2, <3>2
    <3>4. FlattenSeq(from[e + 1]) = FlattenSeq(SubSeq(words, e + 1, N))
      BY <1>1, <1>3, <3>3
    <3>5. from[i] = piece[i] \o from[e + 1]
      BY <3>1, <3>2 DEF Cuts
    <3>6. piece[i] \in Seq(Seq(R)) /\ from[e + 1] \in Seq(Seq(R))
      <4>1. piece[i] \in Seq(W) /\ from[e + 1] \in Seq(W)
        BY <1>0, <3>1, <3>3, Zenon
      <4> QED
        BY <4>1
    <3>7. FlattenSeq(piece[i] \o from[e + 1])
             = FlattenSeq(piece[i]) \o FlattenSeq(from[e + 1])
      BY <3>6, FlattenConcat, Zenon
    <3>8. FlattenSeq(piece[i]) = FlattenSeq(SubSeq(words, i, e))
      BY <3>1, <3>2 DEF AreWords
    <3>9. PICK a \in Seq(W), b \in Seq(W) :
             a = SubSeq(words, i, e) /\ b = SubSeq(words, e + 1, N)
      <4>1. i \in Nat /\ e \in Nat /\ 1 <= i /\ e <= Len(words) /\ i <= e + 1
        BY <3>1, <3>2
      <4>2. SubSeq(words, i, e) \in Seq(W)
        BY <4>1, PartOfSeq
      <4>3. e + 1 \in Nat /\ N \in Nat /\ 1 <= e + 1 /\ N <= Len(words) /\ e + 1 <= N + 1
        BY <3>1, <3>2
      <4>4. SubSeq(words, e + 1, N) \in Seq(W)
        BY <4>3, PartOfSeq
      <4> QED
        BY <4>2, <4>4
    <3>10. a \o b = SubSeq(words, i, N)
      <4>1. i \in 1 .. Len(words) + 1 /\ e \in i - 1 .. Len(words) /\ N \in e .. Len(words)
        BY <3>1
      <4> QED
        BY <3>9, <4>1, ConcatAdjacentSubSeq
    <3>11. FlattenSeq(a \o b) = FlattenSeq(a) \o FlattenSeq(b)
      <4>1. a \in Seq(Seq(R)) /\ b \in Seq(Seq(R))
        BY <3>9
      <4> QED
        BY <4>1, FlattenConcat, Zenon
    <3>12. FlattenSeq(from[i]) = FlattenSeq(SubSeq(words, i, N))
      BY <3>4, <3>5, <3>7, <3>8, <3>9, <3>10, <3>11, Zenon
    <3> QED
      BY <1>1, <1>2, <3>12
  <2> QED
    BY <2>1, <2>2
<1>4. \A i \in 1 .. P : i \in good
  BY <1>3, FromTheEnd, Zenon
<1>5. FlattenSeq(from[1]) = FlattenSeq(SubSeq(words, 1, N))
  <2>1. 1 \in 1 .. P
    BY <1>2
  <2> QED
    BY <1>1, <1>4, <2>1
<1>6. SubSeq(words, 1, N) = words
  BY SubSeqFull
<1> QED
  BY <1>5, <1>6, Zenon

(* MixSegment gives the single runes next to each other to HMMSegment.     *)
LooseEnd(dict, words, i) ==
    Max({j \in i .. Len(words) : \A k \in i .. j : Loose(dict, words[k])})
MixEnd(dict, words, i) == IF ~Loose(dict, words[i]) THEN i ELSE LooseEnd(dict, words, i)
MixPiece(dict, words, i) ==
    IF ~Loose(dict, words[i]) THEN <<words[i]>>
    ELSE HMMCut(dict.model, FlattenSeq(SubSeq(words, i, LooseEnd(dict, words, i))))

(* What MixSegment puts for some words says the same as they do.           *)
LEMMA MixPieces ==
    ASSUME NEW dict, SoundModel(dict.model), NEW R, NEW words \in Seq(Seq(R)),
           NEW i \in 1 .. Len(words)
    PROVE  /\ MixEnd(dict, words, i) \in i .. Len(words)
           /\ MixPiece(dict, words, i) \in Seq(Seq(R))
           /\ FlattenSeq(MixPiece(dict, words, i))
                 = FlattenSeq(SubSeq(words, i, MixEnd(dict, words, i)))
<1>1. PICK W : W = Seq(R)
  OBVIOUS
<1>2. words \in Seq(W) /\ words \in Seq(Seq(R))
  BY <1>1
<1>3. i \in Nat /\ Len(words) \in Nat /\ i \in i .. Len(words) /\ 1 <= i
  BY <1>2
<1>4. CASE ~Loose(dict, words[i])
  <2>1. MixEnd(dict, words, i) = i /\ MixPiece(dict, words, i) = <<words[i]>>
    BY <1>4, Zenon DEF MixEnd, MixPiece
  <2>2. words[i] \in W
    BY <1>2, ElementOfSeq
  <2>3. <<words[i]>> \in Seq(Seq(R))
    <3>1. <<words[i]>> \in Seq(W)
      BY <2>2
    <3> QED
      BY <1>1, <3>1, Zenon
  <2>4. SubSeq(words, i, i) = <<words[i]>>
    <3>1. /\ SubSeq(words, i, i) \in Seq(W) /\ Len(SubSeq(words, i, i)) = i - i + 1
          /\ \A k \in 1 .. i - i + 1 : SubSeq(words, i, i)[k] = words[i + k - 1]
      <4>1. i <= Len(words) /\ i <= i + 1
        BY <1>3
      <4> QED
        BY <1>2, <1>3, <4>1, PartOfSeq
    <3>2. PICK s, w : s = SubSeq(words, i, i) /\ w = words[i]
      OBVIOUS
    <3>3. s \in Seq(W) /\ Len(s) = 1
      BY <1>3, <3>1, <3>2
    <3>4. s[1] = w
      <4>1. 1 \in 1 .. i - i + 1 /\ i + 1 - 1 = i
        BY <1>3
      <4> QED
        BY <3>1, <3>2, <4>1
    <3>5. s = <<w>>
      BY <3>3, <3>4
    <3> QED
      BY <3>2, <3>5, Zenon
  <2> QED
    BY <1>3, <2>1, <2>3, <2>4, Zenon
<1>5. CASE Loose(dict, words[i])
  <2> DEFINE together == {j \in i .. Len(words) : \A k \in i .. j : Loose(dict, words[k])}
  <2>1. LooseEnd(dict, words, i) = Max(together)
    BY Zenon DEF LooseEnd
  <2>2. \A k \in i .. i : k = i
    OBVIOUS
  <2>3. i \in together
    BY <1>3, <1>5, <2>2, Zenon
  <2>4. together \in SUBSET (i .. Len(words)) /\ together # {}
    BY <2>3
  <2> HIDE DEF together
  <2>5. Max(together) \in together
    BY <1>3, <2>4, GreatestIn
  <2>6. PICK e \in i .. Len(words) : e = LooseEnd(dict, words, i)
    BY <2>1, <2>4, <2>5
  <2>7. PICK part : part = SubSeq(words, i, e)
    OBVIOUS
  <2>8. part \in Seq(W)
    <3>1. e \in Nat /\ e <= Len(words) /\ i <= e + 1
      BY <1>3
    <3> QED
      BY <1>2, <1>3, <2>7, <3>1, PartOfSeq
  <2>9. PICK runes : runes = FlattenSeq(part)
    OBVIOUS
  <2>10. runes \in Seq(R)
    <3>1. part \in Seq(Seq(R)) /\ << >> \in Seq(Seq(R))
      BY <1>1, <2>8
    <3> QED
      BY <2>9, <3>1, FlattenConcat
  <2>11. HMMCut(dict.model, runes) \in Seq(Seq(R)) /\ FlattenSeq(HMMCut(dict.model, runes)) = runes
    BY <2>10, HMMCutIsWhole
  <2>12. MixEnd(dict, words, i) = e /\ MixPiece(dict, words, i) = HMMCut(dict.model, runes)
    BY <1>5, <2>6, <2>7, <2>9, Zenon DEF MixEnd, MixPiece
  <2> QED
    BY <2>6, <2>7, <2>9, <2>11, <2>12, Zenon
<1> QED
  BY <1>4, <1>5, Zenon

(* So MixSegment says what MPSegment says.                                 *)
LEMMA MixSaysTheSame ==
    ASSUME NEW dict, SoundModel(dict.model), NEW R, NEW words \in Seq(Seq(R))
    PROVE  /\ Mix(dict, words) \in Seq(Seq(R))
           /\ FlattenSeq(Mix(dict, words)) = FlattenSeq(words)
<1> DEFINE Body(f) ==
        [i \in 1 .. Len(words) + 1 |->
            IF i > Len(words) THEN << >>
            ELSE IF ~Loose(dict, words[i]) THEN <<words[i]>> \o f[i + 1]
            ELSE HMMCut(dict.model, FlattenSeq(SubSeq(words, i, LooseEnd(dict, words, i))))
                     \o f[LooseEnd(dict, words, i) + 1]]
<1>1. PICK W : W = Seq(R)
  OBVIOUS
<1>2. words \in Seq(W)
  BY <1>1
<1>3. PICK N \in Nat : N = Len(words)
  BY <1>2
<1>4. PICK end : end = [i \in 1 .. N |-> MixEnd(dict, words, i)]
  OBVIOUS
<1>5. PICK piece : piece = [i \in 1 .. N |-> MixPiece(dict, words, i)]
  OBVIOUS
<1>6. \A i \in 1 .. N : end[i] = MixEnd(dict, words, i) /\ piece[i] = MixPiece(dict, words, i)
  BY <1>4, <1>5
<1>7. \A i \in 1 .. N : /\ MixEnd(dict, words, i) \in i .. N
                        /\ MixPiece(dict, words, i) \in Seq(W)
                        /\ FlattenSeq(MixPiece(dict, words, i))
                              = FlattenSeq(SubSeq(words, i, MixEnd(dict, words, i)))
  BY <1>1, <1>3, MixPieces, Zenon
<1>8. PiecesTo(N, W, piece, end)
  <2>1. piece \in [1 .. N -> Seq(W)]
    BY <1>5, <1>7
  <2>2. \A i \in 1 .. N : MixEnd(dict, words, i) \in 1 .. N /\ i <= MixEnd(dict, words, i)
    <3> TAKE i \in 1 .. N
    <3>1. PICK e : e = MixEnd(dict, words, i)
      OBVIOUS
    <3>2. e \in i .. N
      BY <1>7, <3>1, Zenon
    <3>3. e \in 1 .. N /\ i <= e
      BY <3>2
    <3> QED
      BY <3>1, <3>3, Zenon
  <2>3. end \in [1 .. N -> 1 .. N] /\ \A i \in 1 .. N : i <= end[i]
    BY <1>4, <2>2
  <2> QED
    BY <2>1, <2>3 DEF PiecesTo
<1>9. AreWords(piece, end, words)
  BY <1>3, <1>6, <1>7, Zenon DEF AreWords
<1>10. ASSUME NEW f
       PROVE  Body(f) = CutOf(f, N, piece, end)
  <2>1. ASSUME NEW i \in 1 .. N + 1
        PROVE  (IF i > N THEN << >>
                ELSE IF ~Loose(dict, words[i]) THEN <<words[i]>> \o f[i + 1]
                ELSE HMMCut(dict.model, FlattenSeq(SubSeq(words, i, LooseEnd(dict, words, i))))
                         \o f[LooseEnd(dict, words, i) + 1])
               = IF i > N THEN << >> ELSE piece[i] \o f[end[i] + 1]
    <3>1. CASE i > N
      BY <3>1, Zenon
    <3>2. CASE ~(i > N)
      <4>1. i \in 1 .. N
        BY <3>2
      <4>2. end[i] = MixEnd(dict, words, i) /\ piece[i] = MixPiece(dict, words, i)
        BY <1>6, <4>1, Zenon
      <4>3. CASE ~Loose(dict, words[i])
        <5>1. end[i] = i /\ piece[i] = <<words[i]>>
          BY <4>2, <4>3, Zenon DEF MixEnd, MixPiece
        <5> QED
          BY <3>2, <4>3, <5>1, Zenon
      <4>4. CASE Loose(dict, words[i])
        <5>1. /\ end[i] = LooseEnd(dict, words, i)
              /\ piece[i] = HMMCut(dict.model,
                                   FlattenSeq(SubSeq(words, i, LooseEnd(dict, words, i))))
          BY <4>2, <4>4, Zenon DEF MixEnd, MixPiece
        <5> QED
          BY <3>2, <4>4, <5>1, Zenon
      <4> QED
        BY <4>3, <4>4
    <3> QED
      BY <3>1, <3>2
  <2> QED
    BY <1>3, <2>1 DEF CutOf
<1>11. PICK from : from = CutOf(from, N, piece, end)
  BY <1>8, CutIsCutOf
<1>12. from = Body(from)
  BY <1>10, <1>11, Zenon
<1>13. PICK kept : kept = CHOOSE g : g = Body(g)
  BY Zenon
<1>14. kept = Body(kept)
  BY <1>12, <1>13, Zenon
<1>15. Mix(dict, words) = kept[1]
  BY <1>13, Zenon DEF Mix, LooseEnd
<1> HIDE DEF Body
<1>16. Cuts(kept, N, piece, end)
  <2>1. kept = CutOf(kept, N, piece, end)
    BY <1>10, <1>14, Zenon
  <2> QED
    BY <1>8, <2>1, CutIsCutOf
<1>17. kept[1] \in Seq(W)
  <2>1. 1 \in 1 .. N + 1
    OBVIOUS
  <2> QED
    BY <1>8, <1>16, <2>1, CutIsTyped
<1>18. FlattenSeq(kept[1]) = FlattenSeq(words)
  BY <1>1, <1>2, <1>3, <1>8, <1>9, <1>16, CutOfWords
<1> QED
  BY <1>1, <1>15, <1>17, <1>18, Zenon

(* Nothing is lost where single runes go to the other segmenter and back.  *)
THEOREM MixCutIsWhole ==
    ASSUME NEW dict, SoundDict(dict), SoundModel(dict.model), NEW R, NEW runes \in Seq(R),
           RunesAreLight(dict, Len(runes))
    PROVE  MixCut(dict, runes, TRUE) \in Seq(Seq(R)) /\ CutIsWhole(dict, runes)
<1>1. PICK words : words = MPCut(dict, runes, MaxWordLength)
  OBVIOUS
<1>2. words \in Seq(Seq(R)) /\ FlattenSeq(words) = runes
  BY <1>1, HeaviestIsCut
<1>3. Mix(dict, words) \in Seq(Seq(R)) /\ FlattenSeq(Mix(dict, words)) = FlattenSeq(words)
  BY <1>2, MixSaysTheSame
<1>4. MixCut(dict, runes, TRUE) = Mix(dict, words)
  BY <1>1, Zenon DEF MixCut
<1> QED
  BY <1>2, <1>3, <1>4, Zenon DEF CutIsWhole
-----------------------------------------------------------------------------
(* FullSegment and QuerySegment list what they should                      *)

(* FullSegment visits the words that begin at each rune.                   *)
Accs(W) == [res : Seq(W), len : Nat, max : Nat]
NextsAt(dict, runes, i) == Nexts(dict, Unicode(runes), i, MaxWordLength)
Visit(dict, runes, acc, i, e) ==
    LET len == IF e.unit = NoUnit THEN acc.len ELSE Len(e.unit.word)
        listed == \/ e.unit # NoUnit /\ len >= 2
                  \/ Len(NextsAt(dict, runes, i)) = 1 /\ acc.max <= i - 1
    IN  [res |-> IF listed THEN Append(acc.res, SubSeq(runes, i, e.end)) ELSE acc.res,
         len |-> len,
         max |-> IF i - 1 + len > acc.max THEN i - 1 + len ELSE acc.max]
AllOf(dict, runes, acc, i) ==
    LET visited[n \in 0 .. Len(NextsAt(dict, runes, i))] ==
            IF n = 0 THEN acc
            ELSE Visit(dict, runes, visited[n - 1], i, NextsAt(dict, runes, i)[n])
    IN  visited[Len(NextsAt(dict, runes, i))]

(* What is appended is listed, and all that was before.                    *)
LEMMA ToSetOfAppend ==
    ASSUME NEW W, NEW words \in Seq(W), NEW word \in W
    PROVE  /\ word \in ToSet(Append(words, word))
           /\ \A w \in ToSet(words) : w \in ToSet(Append(words, word))
<1>1. PICK all \in Seq(W) : all = Append(words, word)
  BY AppendProperties
<1>2. /\ Len(all) = Len(words) + 1 /\ all[Len(all)] = word
      /\ \A k \in 1 .. Len(words) : all[k] = words[k]
  BY <1>1, AppendProperties
<1>3. ToSet(all) = {all[k] : k \in 1 .. Len(all)} /\ ToSet(words) = {words[k] : k \in 1 .. Len(words)}
  BY DEF ToSet
<1>4. word \in ToSet(all)
  <2>1. Len(all) \in 1 .. Len(all)
    BY <1>2
  <2> QED
    BY <1>2, <1>3, <2>1
<1>5. ASSUME NEW w \in ToSet(words)
      PROVE  w \in ToSet(all)
  <2>1. PICK k \in 1 .. Len(words) : w = words[k]
    BY <1>3
  <2>2. k \in 1 .. Len(all) /\ all[k] = w
    BY <1>2, <2>1
  <2> QED
    BY <1>3, <2>2
<1> QED
  BY <1>1, <1>4, <1>5, Zenon

(* An edge of the words at a place, and how long its word is.              *)
IsEdgeAt(runes, i, e) ==
    /\ e.end \in i .. Len(runes)
    /\ e.unit # NoUnit => Len(e.unit.word) = e.end - i + 1

(* A visit keeps what is listed, and lists the word of the edge if it is   *)
(* longer than a rune.                                                     *)
LEMMA VisitAdds ==
    ASSUME NEW dict, NEW R, NEW runes \in Seq(R), NEW i \in 1 .. Len(runes),
           NEW W, W = Seq(R), NEW acc \in Accs(W), NEW e, IsEdgeAt(runes, i, e)
    PROVE  /\ Visit(dict, runes, acc, i, e) \in Accs(W)
           /\ \A word \in ToSet(acc.res) : word \in ToSet(Visit(dict, runes, acc, i, e).res)
           /\ e.unit # NoUnit /\ i < e.end =>
                 SubSeq(runes, i, e.end) \in ToSet(Visit(dict, runes, acc, i, e).res)
<1>1. PICK end \in i .. Len(runes) : end = e.end
  BY DEF IsEdgeAt
<1>2. PICK part : part = SubSeq(runes, i, end)
  OBVIOUS
<1>3. part \in W
  BY <1>2, PartOfSeq
<1>4. PICK res \in Seq(W), before \in Nat, most \in Nat :
         acc = [res |-> res, len |-> before, max |-> most]
  BY DEF Accs
<1>5. PICK len : len = IF e.unit = NoUnit THEN acc.len ELSE Len(e.unit.word)
  OBVIOUS
<1>6. len \in Nat /\ (e.unit # NoUnit /\ i < end => len >= 2)
  <2>1. CASE e.unit = NoUnit
    BY <1>4, <1>5, <2>1
  <2>2. CASE e.unit # NoUnit
    <3>1. Len(e.unit.word) = end - i + 1
      BY <1>1, <2>2, Zenon DEF IsEdgeAt
    <3>2. len = end - i + 1
      BY <1>5, <2>2, <3>1, Zenon
    <3> QED
      BY <3>2
  <2> QED
    BY <2>1, <2>2
<1>7. PICK listed : listed = (\/ e.unit # NoUnit /\ len >= 2
                              \/ Len(NextsAt(dict, runes, i)) = 1 /\ acc.max <= i - 1)
  OBVIOUS
<1>8. PICK after : after = IF listed THEN Append(res, part) ELSE res
  OBVIOUS
<1>9. PICK max : max = IF i - 1 + len > acc.max THEN i - 1 + len ELSE acc.max
  OBVIOUS
<1>10. max \in Nat
  <2>1. acc.max = most
    BY <1>4
  <2> QED
    BY <1>6, <1>9, <2>1
<1>11. after \in Seq(W) /\ \A word \in ToSet(res) : word \in ToSet(after)
  <2>1. CASE listed
    <3>1. after = Append(res, part)
      BY <1>8, <2>1, Zenon
    <3>2. Append(res, part) \in Seq(W)
      BY <1>3, AppendProperties
    <3> QED
      BY <1>3, <3>1, <3>2, ToSetOfAppend, Zenon
  <2>2. CASE ~listed
    BY <1>8, <2>2, Zenon
  <2> QED
    BY <2>1, <2>2
<1>12. ASSUME e.unit # NoUnit, i < end
       PROVE  part \in ToSet(after)
  <2>1. listed
    BY <1>6, <1>7, <1>12, Zenon
  <2>2. after = Append(res, part)
    BY <1>8, <2>1, Zenon
  <2> QED
    BY <1>3, <2>2, ToSetOfAppend, Zenon
<1>13. Visit(dict, runes, acc, i, e) = [res |-> after, len |-> len, max |-> max]
  <2>1. acc.res = res
    BY <1>4
  <2> QED
    BY <1>1, <1>2, <1>5, <1>7, <1>8, <1>9, <2>1, Zenon DEF Visit
<1>14. Visit(dict, runes, acc, i, e).res = after /\ acc.res = res
  BY <1>4, <1>13
<1>15. Visit(dict, runes, acc, i, e) \in Accs(W)
  <2>1. [res |-> after, len |-> len, max |-> max] \in Accs(W)
    BY <1>6, <1>10, <1>11 DEF Accs
  <2> QED
    BY <1>13, <2>1, Zenon
<1> QED
  BY <1>1, <1>2, <1>11, <1>12, <1>14, <1>15, Zenon

(* All the words that begin at a rune are visited, and listed.             *)
LEMMA AllAreListed ==
    ASSUME NEW dict, SoundDict(dict), NEW R, NEW runes \in Seq(R),
           NEW i \in 1 .. Len(runes), NEW W, W = Seq(R), NEW acc \in Accs(W)
    PROVE  /\ AllOf(dict, runes, acc, i) \in Accs(W)
           /\ \A word \in ToSet(acc.res) : word \in ToSet(AllOf(dict, runes, acc, i).res)
           /\ \A j \in i + 1 .. Len(runes) :
                 Find(dict, Unicode(SubSeq(runes, i, j))) # NoUnit =>
                    SubSeq(runes, i, j) \in ToSet(AllOf(dict, runes, acc, i).res)
<1>1. PICK X : X = {r.rune : r \in R}
  OBVIOUS
<1>2. PICK text \in Seq(X) : text = Unicode(runes) /\ Len(text) = Len(runes)
  BY <1>1, UnicodeOf
<1>3. PICK most \in Nat \ {0} : most = MaxWordLength
  BY WordLengthAssumption
<1>4. i \in 1 .. Len(text)
  BY <1>2
<1>5. PICK list \in Seq(Edges(dict, text, i)) :
         /\ Nexts(dict, text, i, most) = list
         /\ \A k \in 1 .. Len(list) : \E n :
               Reaches(dict, text, i, most, n) /\ list[k] = Edge(dict, text, i, n)
         /\ \A n : Reaches(dict, text, i, most, n) =>
               \E k \in 1 .. Len(list) : list[k] = Edge(dict, text, i, n)
  BY <1>4, NextsAreWords
<1>6. NextsAt(dict, runes, i) = list
  BY <1>2, <1>3, <1>5, Zenon DEF NextsAt
<1>7. PICK N \in Nat : N = Len(list)
  OBVIOUS
<1>8. ASSUME NEW k \in 1 .. N
      PROVE  IsEdgeAt(runes, i, list[k])
  <2>1. PICK n : Reaches(dict, text, i, most, n) /\ list[k] = Edge(dict, text, i, n)
    BY <1>5, <1>7, Zenon
  <2>2. n \in 1 .. Len(text) - i + 1
    BY <2>1, Zenon DEF Reaches
  <2>3. PICK word : word = SubSeq(text, i, i + n - 1)
    OBVIOUS
  <2>4. list[k].end = i + n - 1 /\ list[k].unit = Find(dict, word)
    BY <2>1, <2>3 DEF Edge
  <2>5. Len(word) = n
    <3>1. PICK j \in Nat : j = i + n - 1
      BY <1>4, <2>2
    <3>2. i \in Nat /\ 1 <= i /\ j <= Len(text) /\ i <= j + 1 /\ j - i + 1 = n
      BY <1>4, <2>2, <3>1
    <3>3. Len(word) = j - i + 1
      BY <2>3, <3>1, <3>2, PartOfSeq
    <3> QED
      BY <3>2, <3>3
  <2>6. Find(dict, word) # NoUnit => Find(dict, word).word = word
    BY FoundUnit, Zenon DEF IsUnitOf
  <2>7. list[k].unit # NoUnit => Len(list[k].unit.word) = n
    BY <2>4, <2>5, <2>6, Zenon
  <2>8. list[k].end \in i .. Len(runes) /\ n = list[k].end - i + 1
    BY <1>2, <2>2, <2>4
  <2> QED
    BY <2>7, <2>8, Zenon DEF IsEdgeAt
<1> DEFINE visit(a, k) == Visit(dict, runes, a, i, list[k])
           Body(f) == [n \in 0 .. Len(NextsAt(dict, runes, i)) |->
                          IF n = 0 THEN acc
                          ELSE Visit(dict, runes, f[n - 1], i, NextsAt(dict, runes, i)[n])]
<1>9. ASSUME NEW k \in 1 .. N, NEW a \in Accs(W)
      PROVE  /\ visit(a, k) \in Accs(W)
             /\ \A word \in ToSet(a.res) : word \in ToSet(visit(a, k).res)
             /\ list[k].unit # NoUnit /\ i < list[k].end =>
                   SubSeq(runes, i, list[k].end) \in ToSet(visit(a, k).res)
  BY <1>8, VisitAdds
<1> HIDE DEF visit
<1>10. PICK step : step = [k \in 1 .. N |-> [a \in Accs(W) |-> visit(a, k)]]
  OBVIOUS
<1>11. PICK f : Steps(f, N, Accs(W), acc, step)
  <2>1. \A k \in 1 .. N, a \in Accs(W) : visit(a, k) \in Accs(W)
    BY <1>9, Zenon
  <2>2. step \in [1 .. N -> [Accs(W) -> Accs(W)]]
    BY <1>10, <2>1
  <2> QED
    BY <2>2, Iteration
<1>12. f \in [0 .. N -> Accs(W)] /\ f[0] = acc
  BY <1>11, Zenon DEF Steps
<1>13. \A n \in 1 .. N : f[n - 1] \in Accs(W) /\ f[n] = visit(f[n - 1], n)
  <2> TAKE n \in 1 .. N
  <2>1. n - 1 \in 0 .. N
    OBVIOUS
  <2>2. f[n - 1] \in Accs(W)
    BY <1>12, <2>1
  <2>3. f[n] = step[n][f[n - 1]]
    BY <1>11, Zenon DEF Steps
  <2> QED
    BY <1>10, <2>2, <2>3
<1>14. f = Body(f)
  <2>1. ASSUME NEW n \in 0 .. N
        PROVE  f[n] = IF n = 0 THEN acc ELSE Visit(dict, runes, f[n - 1], i, list[n])
    <3>1. CASE n = 0
      BY <1>12, <3>1, Zenon
    <3>2. CASE n # 0
      <4>1. n \in 1 .. N
        BY <3>2
      <4>2. f[n] = visit(f[n - 1], n)
        BY <1>13, <4>1, Zenon
      <4> QED
        BY <3>2, <4>2, Zenon DEF visit
    <3> QED
      BY <3>1, <3>2
  <2>2. f = [n \in 0 .. N |-> IF n = 0 THEN acc ELSE Visit(dict, runes, f[n - 1], i, list[n])]
    BY <1>12, <2>1
  <2> QED
    BY <1>6, <1>7, <2>2, Zenon
<1>15. PICK kept : kept = CHOOSE g : g = Body(g)
  BY Zenon
<1>16. kept = Body(kept)
  BY <1>14, <1>15, Zenon
<1>17. AllOf(dict, runes, acc, i) = kept[N]
  <2>1. AllOf(dict, runes, acc, i) = kept[Len(NextsAt(dict, runes, i))]
    BY <1>15, Zenon DEF AllOf
  <2> QED
    BY <1>6, <1>7, <2>1, Zenon
<1>18. \A n \in 0 .. N : kept[n] = IF n = 0 THEN acc ELSE visit(kept[n - 1], n)
  <2>1. ASSUME NEW n \in 0 .. N
        PROVE  Body(kept)[n] = IF n = 0 THEN acc ELSE Visit(dict, runes, kept[n - 1], i, list[n])
    BY <1>6, <1>7, Zenon
  <2> QED
    BY <1>16, <2>1, Zenon DEF visit
<1> HIDE DEF Body
<1> DEFINE fits(a, n) ==
        /\ a \in Accs(W)
        /\ \A word \in ToSet(acc.res) : word \in ToSet(a.res)
        /\ \A k \in 1 .. n : list[k].unit # NoUnit /\ i < list[k].end =>
                                SubSeq(runes, i, list[k].end) \in ToSet(a.res)
           good == {n \in 0 .. N : fits(kept[n], n)}
<1>19. 0 \in good
  <2>1. 0 \in 0 .. N
    OBVIOUS
  <2>2. kept[0] = acc
    BY <1>18, <2>1, Zenon
  <2>3. \A k : ~(k \in 1 .. 0)
    OBVIOUS
  <2> QED
    BY <2>1, <2>2, <2>3, Zenon
<1>20. ASSUME NEW n \in 1 .. N, n - 1 \in good
       PROVE  n \in good
  <2>1. n \in 0 .. N /\ n # 0
    OBVIOUS
  <2>2. PICK a \in Accs(W) : a = kept[n - 1] /\ fits(a, n - 1)
    BY <1>20, Zenon
  <2>3. PICK b : b = visit(a, n)
    OBVIOUS
  <2>4. kept[n] = b
    BY <1>18, <2>1, <2>2, <2>3, Zenon
  <2>5. /\ b \in Accs(W)
        /\ \A word \in ToSet(a.res) : word \in ToSet(b.res)
        /\ list[n].unit # NoUnit /\ i < list[n].end =>
              SubSeq(runes, i, list[n].end) \in ToSet(b.res)
    BY <1>9, <2>3, Zenon
  <2>6. ASSUME NEW k \in 1 .. n, list[k].unit # NoUnit, i < list[k].end
        PROVE  SubSeq(runes, i, list[k].end) \in ToSet(b.res)
    <3>1. CASE k = n
      BY <2>5, <2>6, <3>1, Zenon
    <3>2. CASE k # n
      <4>1. k \in 1 .. n - 1
        BY <3>2
      <4>2. SubSeq(runes, i, list[k].end) \in ToSet(a.res)
        BY <2>2, <2>6, <4>1, Zenon
      <4> QED
        BY <2>5, <4>2, Zenon
    <3> QED
      BY <3>1, <3>2
  <2>7. fits(b, n)
    BY <2>2, <2>5, <2>6, Zenon
  <2> QED
    BY <2>1, <2>4, <2>7, Zenon
<1>21. fits(kept[N], N)
  <2>1. N \in 0 .. N
    OBVIOUS
  <2> HIDE DEF good
  <2>2. \A n \in 0 .. N : n \in good
    BY <1>19, <1>20, StepByStep
  <2> QED
    BY <2>1, <2>2, Zenon DEF good
<1>22. ASSUME NEW j \in i + 1 .. Len(runes), Find(dict, Unicode(SubSeq(runes, i, j))) # NoUnit
       PROVE  SubSeq(runes, i, j) \in ToSet(kept[N].res)
  <2>1. PICK n \in 1 .. Len(text) - i + 1 : n = j - i + 1 /\ i + n - 1 = j /\ n # 1
    BY <1>2
  <2>2. PICK word : word = SubSeq(text, i, j)
    OBVIOUS
  <2>3. Unicode(SubSeq(runes, i, j)) = word
    <3>1. j \in i .. Len(runes)
      OBVIOUS
    <3> QED
      BY <1>2, <2>2, <3>1, UnicodeOfPart, Zenon
  <2>4. Find(dict, word) # NoUnit
    BY <1>22, <2>3, Zenon
  <2>5. Edge(dict, text, i, n) = [end |-> j, unit |-> Find(dict, word)]
    BY <2>1, <2>2, Zenon DEF Edge
  <2>6. Len(word) = n
    <3>1. j \in Nat /\ i \in Nat /\ 1 <= i /\ j <= Len(text) /\ i <= j + 1
      BY <1>2
    <3>2. Len(word) = j - i + 1
      BY <2>2, <3>1, PartOfSeq
    <3> QED
      BY <2>1, <3>2
  <2>7. Len(word) <= MaxWordLength
    BY <2>4, FoundUnit, Zenon DEF IsUnitOf
  <2>8. Edge(dict, text, i, n).unit # NoUnit
    BY <2>4, <2>5
  <2>9. n <= most
    BY <1>3, <2>6, <2>7, Zenon
  <2>10. Reaches(dict, text, i, most, n)
    BY <2>8, <2>9, Zenon DEF Reaches
  <2>11. PICK k \in 1 .. Len(list) : list[k] = Edge(dict, text, i, n)
    BY <1>5, <2>10, Zenon
  <2>12. list[k].unit # NoUnit /\ list[k].end = j /\ i < j
    BY <2>4, <2>5, <2>11
  <2> QED
    BY <1>7, <1>21, <2>12, Zenon
<1> QED
  BY <1>17, <1>21, <1>22, Zenon

(* FullSegment lists every word of the dictionary that is in the text.     *)
THEOREM FullCutListsAll ==
    ASSUME NEW dict, SoundDict(dict), NEW R, NEW runes \in Seq(R)
    PROVE  Lists(dict, runes, FullCut(dict, runes))
<1> DEFINE start == [res |-> << >>, len |-> 0, max |-> 0]
           Body(f) == [i \in 0 .. Len(runes) |->
                          IF i = 0 THEN start ELSE AllOf(dict, runes, f[i - 1], i)]
           after(a, i) == AllOf(dict, runes, a, i)
           isFound(i, j) == Find(dict, Unicode(SubSeq(runes, i, j))) # NoUnit
<1>1. PICK N \in Nat : N = Len(runes)
  OBVIOUS
<1>2. PICK W : W = Seq(R)
  OBVIOUS
<1>3. ASSUME NEW i \in 1 .. N, NEW a \in Accs(W)
      PROVE  /\ after(a, i) \in Accs(W)
             /\ \A word \in ToSet(a.res) : word \in ToSet(after(a, i).res)
             /\ \A j \in i + 1 .. N :
                   isFound(i, j) => SubSeq(runes, i, j) \in ToSet(after(a, i).res)
  BY <1>1, <1>2, AllAreListed
<1> HIDE DEF after, isFound
<1>4. PICK step : step = [i \in 1 .. N |-> [a \in Accs(W) |-> after(a, i)]]
  OBVIOUS
<1>5. start \in Accs(W)
  <2>1. << >> \in Seq(W) /\ 0 \in Nat
    OBVIOUS
  <2> QED
    BY <2>1 DEF Accs
<1> HIDE DEF start
<1>6. PICK f : Steps(f, N, Accs(W), start, step)
  <2>1. \A i \in 1 .. N, a \in Accs(W) : after(a, i) \in Accs(W)
    BY <1>3, Zenon
  <2>2. step \in [1 .. N -> [Accs(W) -> Accs(W)]]
    BY <1>4, <2>1
  <2> QED
    BY <1>5, <2>2, Iteration
<1>7. f \in [0 .. N -> Accs(W)] /\ f[0] = start
  BY <1>6, Zenon DEF Steps
<1>8. \A i \in 1 .. N : f[i] = after(f[i - 1], i)
  <2> TAKE i \in 1 .. N
  <2>1. i - 1 \in 0 .. N
    OBVIOUS
  <2>2. f[i - 1] \in Accs(W)
    BY <1>7, <2>1
  <2>3. f[i] = step[i][f[i - 1]]
    BY <1>6, Zenon DEF Steps
  <2> QED
    BY <1>4, <2>2, <2>3
<1>9. f = Body(f)
  <2>1. ASSUME NEW i \in 0 .. N
        PROVE  f[i] = IF i = 0 THEN start ELSE AllOf(dict, runes, f[i - 1], i)
    <3>1. CASE i = 0
      BY <1>7, <3>1, Zenon
    <3>2. CASE i # 0
      <4>1. i \in 1 .. N
        BY <3>2
      <4>2. f[i] = after(f[i - 1], i)
        BY <1>8, <4>1, Zenon
      <4> QED
        BY <3>2, <4>2, Zenon DEF after
    <3> QED
      BY <3>1, <3>2
  <2>2. f = [i \in 0 .. N |-> IF i = 0 THEN start ELSE AllOf(dict, runes, f[i - 1], i)]
    BY <1>7, <2>1
  <2> QED
    BY <1>1, <2>2, Zenon
<1>10. PICK kept : kept = CHOOSE g : g = Body(g)
  BY Zenon
<1>11. kept = Body(kept)
  BY <1>9, <1>10, Zenon
<1>12. FullCut(dict, runes) = kept[N].res
  <2>1. FullCut(dict, runes) = kept[Len(runes)].res
    BY <1>10, Zenon DEF FullCut, AllOf, Visit, NextsAt, start
  <2> QED
    BY <1>1, <2>1, Zenon
<1>13. \A i \in 0 .. N : kept[i] = IF i = 0 THEN start ELSE after(kept[i - 1], i)
  <2>1. ASSUME NEW i \in 0 .. N
        PROVE  Body(kept)[i] = IF i = 0 THEN start ELSE AllOf(dict, runes, kept[i - 1], i)
    BY <1>1, Zenon
  <2> QED
    BY <1>11, <2>1, Zenon DEF after
<1> HIDE DEF Body
<1> DEFINE fits(a, n) ==
        /\ a \in Accs(W)
        /\ \A i \in 1 .. n : \A j \in i + 1 .. N :
              isFound(i, j) => SubSeq(runes, i, j) \in ToSet(a.res)
           good == {n \in 0 .. N : fits(kept[n], n)}
<1>14. 0 \in good
  <2>1. 0 \in 0 .. N
    OBVIOUS
  <2>2. kept[0] = start
    BY <1>13, <2>1, Zenon
  <2>3. \A k : ~(k \in 1 .. 0)
    OBVIOUS
  <2> QED
    BY <1>5, <2>1, <2>2, <2>3, Zenon
<1>15. ASSUME NEW n \in 1 .. N, n - 1 \in good
       PROVE  n \in good
  <2>1. n \in 0 .. N /\ n # 0
    OBVIOUS
  <2>2. PICK a \in Accs(W) : a = kept[n - 1] /\ fits(a, n - 1)
    BY <1>15, Zenon
  <2>3. PICK b : b = after(a, n)
    OBVIOUS
  <2>4. kept[n] = b
    BY <1>13, <2>1, <2>2, <2>3, Zenon
  <2>5. /\ b \in Accs(W)
        /\ \A word \in ToSet(a.res) : word \in ToSet(b.res)
        /\ \A j \in n + 1 .. N : isFound(n, j) => SubSeq(runes, n, j) \in ToSet(b.res)
    BY <1>3, <2>3, Zenon
  <2>6. ASSUME NEW i \in 1 .. n, NEW j \in i + 1 .. N, isFound(i, j)
        PROVE  SubSeq(runes, i, j) \in ToSet(b.res)
    <3>1. CASE i = n
      BY <2>5, <2>6, <3>1, Zenon
    <3>2. CASE i # n
      <4>1. i \in 1 .. n - 1
        BY <3>2
      <4>2. SubSeq(runes, i, j) \in ToSet(a.res)
        BY <2>2, <2>6, <4>1, Zenon
      <4> QED
        BY <2>5, <4>2, Zenon
    <3> QED
      BY <3>1, <3>2
  <2>7. fits(b, n)
    BY <2>5, <2>6, Zenon
  <2> QED
    BY <2>1, <2>4, <2>7, Zenon
<1>16. fits(kept[N], N)
  <2>1. N \in 0 .. N
    OBVIOUS
  <2> HIDE DEF good
  <2>2. \A n \in 0 .. N : n \in good
    BY <1>14, <1>15, StepByStep
  <2> QED
    BY <2>1, <2>2, Zenon DEF good
<1>17. PICK words : words = FullCut(dict, runes)
  OBVIOUS
<1>18. ASSUME NEW i \in DOMAIN runes, NEW j \in DOMAIN runes, i < j,
              Find(dict, Unicode(SubSeq(runes, i, j))) # NoUnit
       PROVE  SubSeq(runes, i, j) \in ToSet(words)
  <2>1. i \in 1 .. N /\ j \in i + 1 .. N
    BY <1>1, <1>18
  <2>2. isFound(i, j)
    BY <1>18, Zenon DEF isFound
  <2> QED
    BY <1>12, <1>16, <1>17, <2>1, <2>2, Zenon
<1>19. Lists(dict, runes, words)
  BY <1>18, Zenon DEF Lists
<1> QED
  BY <1>17, <1>19, Zenon

(* What is in one of two sequences is in both joined.                      *)
LEMMA ToSetOfJoin ==
    ASSUME NEW T, NEW a \in Seq(T), NEW b \in Seq(T)
    PROVE  /\ a \o b \in Seq(T)
           /\ \A w : w \in ToSet(a) \/ w \in ToSet(b) => w \in ToSet(a \o b)
<1>1. PICK c : c = a \o b
  OBVIOUS
<1>2. /\ c \in Seq(T) /\ Len(c) = Len(a) + Len(b)
      /\ \A i \in 1 .. Len(a) : c[i] = a[i]
      /\ \A i \in 1 .. Len(b) : c[Len(a) + i] = b[i]
  BY <1>1, ConcatProperties
<1>3. DOMAIN c = 1 .. Len(c) /\ DOMAIN a = 1 .. Len(a) /\ DOMAIN b = 1 .. Len(b)
  BY <1>2
<1>4. ASSUME NEW w \in ToSet(a)
      PROVE  w \in ToSet(c)
  <2>1. PICK i \in 1 .. Len(a) : w = a[i]
    BY <1>3, Zenon DEF ToSet
  <2>2. i \in DOMAIN c /\ c[i] = w
    BY <1>2, <1>3, <2>1
  <2> QED
    BY <2>2, Zenon DEF ToSet
<1>5. ASSUME NEW w \in ToSet(b)
      PROVE  w \in ToSet(c)
  <2>1. PICK i \in 1 .. Len(b) : w = b[i]
    BY <1>3, Zenon DEF ToSet
  <2>2. PICK m \in DOMAIN c : m = Len(a) + i
    BY <1>2, <1>3
  <2>3. c[m] = w
    BY <1>2, <2>1, <2>2
  <2> QED
    BY <2>3, Zenon DEF ToSet
<1> QED
  BY <1>1, <1>2, <1>4, <1>5, Zenon

(* What is in one of some sequences is in all of them joined.              *)
LEMMA FlattenHasAll ==
    ASSUME NEW T, NEW parts \in Seq(Seq(T)), NEW k \in 1 .. Len(parts),
           NEW t \in ToSet(parts[k])
    PROVE  t \in ToSet(FlattenSeq(parts))
<1>1. PICK joined : Joins(joined, T, parts) /\ FlattenSeq(parts) = joined[Len(parts)]
  BY FlattenJoins
<1>2. PICK N \in Nat : N = Len(parts)
  OBVIOUS
<1>3. PICK W : W = Seq(T)
  OBVIOUS
<1>4. parts \in Seq(W)
  BY <1>3
<1>5. \A n \in 1 .. N : parts[n] \in W
  BY <1>2, <1>4, ElementOfSeq
<1>6. \A n \in 0 .. N : joined[n] \in W
  BY <1>1, <1>2, <1>3, Zenon DEF Joins
<1>7. ASSUME NEW n \in 1 .. N, NEW w, w \in ToSet(joined[n - 1]) \/ w \in ToSet(parts[n])
      PROVE  w \in ToSet(joined[n])
  <2>1. n - 1 \in 0 .. N /\ n \in 0 .. N
    OBVIOUS
  <2>2. PICK a \in Seq(T), b \in Seq(T) : a = joined[n - 1] /\ b = parts[n]
    BY <1>3, <1>5, <1>6, <2>1, Zenon
  <2>3. joined[n] = a \o b
    BY <1>1, <1>2, <2>2, Zenon DEF Joins
  <2> QED
    BY <1>7, <2>2, <2>3, ToSetOfJoin, Zenon
<1> DEFINE good == {n \in 0 .. N : k <= n => t \in ToSet(joined[n])}
<1>8. 0 \in good
  OBVIOUS
<1>9. ASSUME NEW n \in 1 .. N, n - 1 \in good
      PROVE  n \in good
  <2>1. CASE k = n
    BY <1>7, <2>1
  <2>2. CASE k # n
    <3>1. k <= n => k <= n - 1
      BY <2>2
    <3>2. k <= n => t \in ToSet(joined[n - 1])
      BY <1>9, <3>1
    <3>3. k <= n => t \in ToSet(joined[n])
      BY <1>7, <3>2, Zenon
    <3>4. n \in 0 .. N
      OBVIOUS
    <3> QED
      BY <3>3, <3>4, Zenon
  <2> QED
    BY <2>1, <2>2
<1>10. N \in good
  <2>1. N \in 0 .. N
    OBVIOUS
  <2> HIDE DEF good
  <2> QED
    BY <1>8, <1>9, <2>1, StepByStep
<1> QED
  BY <1>1, <1>2, <1>10

(* The words of two or three runes inside a word are parts of it.          *)
LEMMA PartsAreTyped ==
    ASSUME NEW dict, NEW R, NEW word \in Seq(R), NEW n \in Nat \ {0}
    PROVE  Parts(dict, word, n) \in Seq(Seq(R))
<1> DEFINE part(i) == SubSeq(word, i, i + n - 1)
           isNone(i) == Find(dict, Unicode(part(i))) = NoUnit
           Body(f) == [i \in 0 .. Len(word) - n + 1 |->
                          IF i = 0 THEN << >>
                          ELSE IF Find(dict, Unicode(SubSeq(word, i, i + n - 1))) = NoUnit
                               THEN f[i - 1]
                               ELSE Append(f[i - 1], SubSeq(word, i, i + n - 1))]
<1>1. PICK W : W = Seq(R)
  OBVIOUS
<1>2. CASE ~(Len(word) > n)
  <2>1. Parts(dict, word, n) = << >>
    BY <1>2, Zenon DEF Parts
  <2>2. << >> \in Seq(W)
    OBVIOUS
  <2> QED
    BY <1>1, <2>1, <2>2, Zenon
<1>3. CASE Len(word) > n
  <2>1. PICK N \in Nat : N = Len(word) - n + 1
    BY <1>3
  <2>2. \A i \in 1 .. N : part(i) \in W
    <3> TAKE i \in 1 .. N
    <3>1. PICK j \in Nat : j = i + n - 1
      OBVIOUS
    <3>2. i \in Nat /\ 1 <= i /\ j <= Len(word) /\ i <= j + 1
      BY <1>3, <2>1, <3>1
    <3>3. SubSeq(word, i, j) \in Seq(R)
      BY <3>1, <3>2, PartOfSeq
    <3> QED
      BY <1>1, <3>1, <3>3
  <2> HIDE DEF part, isNone
  <2>3. PICK step : step =
           [i \in 1 .. N |->
               [s \in Seq(W) |-> IF isNone(i) THEN s ELSE Append(s, part(i))]]
    OBVIOUS
  <2>4. PICK f : Steps(f, N, Seq(W), << >>, step)
    <3>1. \A i \in 1 .. N, s \in Seq(W) : Append(s, part(i)) \in Seq(W)
      BY <2>2, AppendProperties
    <3>2. step \in [1 .. N -> [Seq(W) -> Seq(W)]]
      BY <2>3, <3>1
    <3>3. << >> \in Seq(W)
      OBVIOUS
    <3> QED
      BY <3>2, <3>3, Iteration
  <2>5. f \in [0 .. N -> Seq(W)] /\ f[0] = << >>
    BY <2>4, Zenon DEF Steps
  <2>6. \A i \in 1 .. N : f[i] = IF isNone(i) THEN f[i - 1] ELSE Append(f[i - 1], part(i))
    <3> TAKE i \in 1 .. N
    <3>1. i - 1 \in 0 .. N
      OBVIOUS
    <3>2. f[i - 1] \in Seq(W)
      BY <2>5, <3>1
    <3>3. f[i] = step[i][f[i - 1]]
      BY <2>4, Zenon DEF Steps
    <3> QED
      BY <2>3, <3>2, <3>3
  <2>7. f = Body(f)
    <3>1. ASSUME NEW i \in 0 .. N
          PROVE  f[i] = IF i = 0 THEN << >>
                        ELSE IF isNone(i) THEN f[i - 1] ELSE Append(f[i - 1], part(i))
      <4>1. CASE i = 0
        BY <2>5, <4>1, Zenon
      <4>2. CASE i # 0
        <5>1. i \in 1 .. N
          BY <4>2
        <5> QED
          BY <2>6, <4>2, <5>1, Zenon
      <4> QED
        BY <4>1, <4>2
    <3>2. f = [i \in 0 .. N |->
                  IF i = 0 THEN << >>
                  ELSE IF isNone(i) THEN f[i - 1] ELSE Append(f[i - 1], part(i))]
      BY <2>5, <3>1
    <3> QED
      BY <2>1, <3>2, Zenon DEF isNone, part
  <2>8. PICK kept : kept = CHOOSE g : g = Body(g)
    BY Zenon
  <2>9. kept = Body(kept)
    BY <2>7, <2>8, Zenon
  <2>10. Parts(dict, word, n) = kept[Len(word) - n + 1]
    BY <1>3, <2>8, Zenon DEF Parts
  <2>11. \A i \in 0 .. N : kept[i] =
            IF i = 0 THEN << >>
            ELSE IF isNone(i) THEN kept[i - 1] ELSE Append(kept[i - 1], part(i))
    <3>1. ASSUME NEW i \in 0 .. N
          PROVE  Body(kept)[i] =
                    IF i = 0 THEN << >>
                    ELSE IF isNone(i) THEN kept[i - 1] ELSE Append(kept[i - 1], part(i))
      BY <2>1, Zenon DEF isNone, part
    <3> QED
      BY <2>9, <3>1, Zenon
  <2> HIDE DEF Body
  <2> DEFINE good == {i \in 0 .. N : kept[i] \in Seq(W)}
  <2>12. 0 \in good
    <3>1. 0 \in 0 .. N /\ << >> \in Seq(W)
      OBVIOUS
    <3>2. kept[0] = << >>
      BY <2>11, <3>1, Zenon
    <3> QED
      BY <3>1, <3>2
  <2>13. ASSUME NEW i \in 1 .. N, i - 1 \in good
         PROVE  i \in good
    <3>1. i \in 0 .. N /\ i # 0
      OBVIOUS
    <3>2. PICK s \in Seq(W) : s = kept[i - 1]
      BY <2>13
    <3>3. Append(s, part(i)) \in Seq(W)
      BY <2>2, AppendProperties
    <3>4. kept[i] = s \/ kept[i] = Append(s, part(i))
      BY <2>11, <3>1, <3>2, Zenon
    <3> QED
      BY <3>1, <3>3, <3>4
  <2>14. N \in good
    <3>1. N \in 0 .. N
      OBVIOUS
    <3> HIDE DEF good
    <3> QED
      BY <2>12, <2>13, <3>1, StepByStep
  <2> QED
    BY <1>1, <2>1, <2>10, <2>14, Zenon
<1> QED
  BY <1>2, <1>3

(* QuerySegment lists each word, after what it has found inside it.        *)
LEMMA QueryCutListsAll ==
    ASSUME NEW dict, NEW R, NEW runes, MixCut(dict, runes, TRUE) \in Seq(Seq(R))
    PROVE  ToSet(MixCut(dict, runes, TRUE)) \subseteq ToSet(QueryCut(dict, runes, TRUE))
<1> DEFINE listed(word) == Parts(dict, word, 2) \o Parts(dict, word, 3) \o <<word>>
<1>1. PICK W : W = Seq(R)
  OBVIOUS
<1>2. PICK words \in Seq(W) : words = MixCut(dict, runes, TRUE)
  BY <1>1
<1>3. PICK lists : lists = [k \in DOMAIN words |-> listed(words[k])]
  OBVIOUS
<1>4. ASSUME NEW word \in W
      PROVE  listed(word) \in Seq(W) /\ word \in ToSet(listed(word))
  <2>1. 2 \in Nat \ {0} /\ 3 \in Nat \ {0} /\ word \in Seq(R)
    BY <1>1
  <2>2. PICK a \in Seq(W), b \in Seq(W) :
           a = Parts(dict, word, 2) /\ b = Parts(dict, word, 3)
    BY <1>1, <2>1, PartsAreTyped
  <2>3. PICK c \in Seq(W) : c = a \o b
    BY ToSetOfJoin
  <2>4. listed(word) = c \o <<word>>
    BY <2>2, <2>3, Zenon
  <2>5. PICK one \in Seq(W) : one = <<word>> /\ word \in ToSet(one)
    <3>1. <<word>> \in Seq(W) /\ 1 \in DOMAIN <<word>> /\ <<word>>[1] = word
      OBVIOUS
    <3>2. word \in ToSet(<<word>>)
      BY <3>1, Zenon DEF ToSet
    <3> QED
      BY <3>1, <3>2, Zenon
  <2>6. c \o one \in Seq(W) /\ word \in ToSet(c \o one)
    BY <2>5, ToSetOfJoin, Zenon
  <2> HIDE DEF listed
  <2> QED
    BY <2>4, <2>5, <2>6
<1> HIDE DEF listed
<1>5. DOMAIN words = 1 .. Len(words) /\ \A k \in 1 .. Len(words) : words[k] \in W
  BY ElementOfSeq
<1>6. PICK V : V = Seq(W)
  OBVIOUS
<1>7. lists \in Seq(V) /\ Len(lists) = Len(words)
  <2>1. \A k \in 1 .. Len(words) : listed(words[k]) \in V
    BY <1>4, <1>5, <1>6, Zenon
  <2>2. PICK N \in Nat : N = Len(words)
    OBVIOUS
  <2>3. lists = [k \in 1 .. N |-> listed(words[k])]
    BY <1>3, <1>5, <2>2, Zenon
  <2>4. \A k \in 1 .. N : listed(words[k]) \in V
    BY <2>1, <2>2, Zenon
  <2> QED
    BY <2>2, <2>3, <2>4
<1>8. QueryCut(dict, runes, TRUE) = FlattenSeq(lists)
  BY <1>2, <1>3, Zenon DEF QueryCut, listed
<1>9. ASSUME NEW word \in ToSet(words)
      PROVE  word \in ToSet(FlattenSeq(lists))
  <2>1. PICK k \in 1 .. Len(words) : words[k] = word
    BY <1>5 DEF ToSet
  <2>2. lists[k] = listed(word)
    BY <1>3, <1>5, <2>1
  <2>3. word \in ToSet(lists[k])
    BY <1>4, <1>5, <2>1, <2>2, Zenon
  <2>4. k \in 1 .. Len(lists) /\ lists \in Seq(Seq(W))
    BY <1>6, <1>7
  <2> QED
    BY <2>3, <2>4, FlattenHasAll, Zenon
<1> QED
  BY <1>2, <1>8, <1>9, Zenon
-----------------------------------------------------------------------------
(* The runes of a text, its ranges and its pieces                          *)

(* What is decoded is a sequence of runes.                                 *)
RunesIn(s) == {RuneStr(SubSeq(s, i, j)) : i \in 1 .. Len(s), j \in 1 .. Len(s)}
Decoded(s) == [ok : BOOLEAN, runes : Seq(RunesIn(s))]
NotDecoded == [ok |-> FALSE, runes |-> << >>]
AllDecoded == [ok |-> TRUE, runes |-> << >>]
BeforeDecoded(s, i, n, rest) ==
    [rest EXCEPT !.runes = <<RuneStr(SubSeq(s, i, i + n - 1))>> \o @]

(* A first byte announces four bytes at most.                              *)
LEMMA AnnouncedIsShort ==
    ASSUME NEW b \in 0 .. 255
    PROVE  Announced(b) \in 0 .. 4
<1>1. CASE b < 128
  BY <1>1 DEF Announced
<1>2. CASE b \in 128 .. 223
  BY <1>2 DEF Announced
<1>3. CASE b \in 224 .. 239
  BY <1>3 DEF Announced
<1>4. CASE b \in 240 .. 247
  BY <1>4 DEF Announced
<1>5. CASE b > 247
  BY <1>5 DEF Announced
<1> QED
  BY <1>1, <1>2, <1>3, <1>4, <1>5

(* A rune before what is decoded makes it one longer.                      *)
LEMMA RuneIsDecoded ==
    ASSUME NEW s, NEW i \in 1 .. Len(s), NEW n, i + n - 1 \in 1 .. Len(s),
           NEW rest \in Decoded(s)
    PROVE  /\ BeforeDecoded(s, i, n, rest) \in Decoded(s)
           /\ Len(rest.runes) \in Nat
           /\ Len(BeforeDecoded(s, i, n, rest).runes) = Len(rest.runes) + 1
<1>1. PICK R : R = RunesIn(s)
  OBVIOUS
<1>2. PICK rune : rune = RuneStr(SubSeq(s, i, i + n - 1))
  OBVIOUS
<1>3. rune \in R
  BY <1>1, <1>2 DEF RunesIn
<1>4. PICK runes \in Seq(R), ok \in BOOLEAN : rest = [ok |-> ok, runes |-> runes]
  BY <1>1 DEF Decoded
<1>5. <<rune>> \o runes \in Seq(R)
  BY <1>3, <1>4
<1>6. BeforeDecoded(s, i, n, rest) = [ok |-> ok, runes |-> <<rune>> \o runes]
  <2>1. rest.runes = runes /\ rest.ok = ok /\ DOMAIN rest = {"ok", "runes"}
    BY <1>4
  <2>2. PICK all : all = <<rune>> \o runes
    OBVIOUS
  <2>3. BeforeDecoded(s, i, n, rest) = [rest EXCEPT !.runes = all]
    BY <1>2, <2>1, <2>2, Zenon DEF BeforeDecoded
  <2>4. [rest EXCEPT !.runes = all] = [ok |-> ok, runes |-> all]
    BY <1>4
  <2> QED
    BY <2>2, <2>3, <2>4, Zenon
<1>7. Len(<<rune>> \o runes) = Len(runes) + 1 /\ Len(runes) \in Nat
  BY <1>3, <1>4
<1>8. /\ Len(rest.runes) \in Nat
      /\ Len(BeforeDecoded(s, i, n, rest).runes) = Len(rest.runes) + 1
  <2>1. PICK all : all = <<rune>> \o runes
    OBVIOUS
  <2>2. BeforeDecoded(s, i, n, rest).runes = all /\ rest.runes = runes
    BY <1>4, <1>6, <2>1
  <2> QED
    BY <1>7, <2>1, <2>2
<1> QED
  BY <1>1, <1>5, <1>6, <1>8 DEF Decoded

(* What is decoded of some bytes are runes in them, no more than there are *)
(* bytes.                                                                  *)
LEMMA RunesAreDecoded ==
    ASSUME NEW s \in Seq(0 .. 255)
    PROVE  DecodeRunes(s) \in Seq(RunesIn(s)) /\ Len(DecodeRunes(s)) <= Len(s)
<1>1. PICK N \in Nat : N = Len(s) + 1 /\ N # 0
  OBVIOUS
<1>2. PICK T : T = Decoded(s)
  OBVIOUS
<1> DEFINE n(i) == Announced(s[i])
           stops(i) == n(i) = 0 \/ i + n(i) - 1 > Len(s)
           further(i, rest) == IF ~rest.ok THEN NotDecoded ELSE BeforeDecoded(s, i, n(i), rest)
           Body(f) == [i \in 1 .. Len(s) + 1 |->
                          IF i > Len(s) THEN AllDecoded
                          ELSE IF Announced(s[i]) = 0 \/ i + Announced(s[i]) - 1 > Len(s)
                          THEN NotDecoded
                          ELSE IF ~f[i + Announced(s[i])].ok THEN NotDecoded
                          ELSE BeforeDecoded(s, i, Announced(s[i]), f[i + Announced(s[i])])]
<1>3. NotDecoded \in T /\ AllDecoded \in T
  <2>1. PICK R : R = RunesIn(s)
    OBVIOUS
  <2>2. << >> \in Seq(R)
    OBVIOUS
  <2> QED
    BY <1>2, <2>1, <2>2 DEF Decoded, NotDecoded, AllDecoded
<1>4. ASSUME NEW i \in 1 .. N, i # N, ~stops(i)
      PROVE  i + n(i) \in i + 1 .. N /\ i + n(i) - 1 \in 1 .. Len(s) /\ i \in 1 .. Len(s)
  <2>1. i \in 1 .. Len(s) /\ i \in Nat
    BY <1>1, <1>4
  <2>2. s[i] \in 0 .. 255
    <3>1. PICK bytes : bytes = 0 .. 255
      OBVIOUS
    <3>2. s \in Seq(bytes) /\ i \in 1 .. Len(s)
      BY <2>1, <3>1
    <3>3. s[i] \in bytes
      BY <3>2, ElementOfSeq
    <3> QED
      BY <3>1, <3>3, Zenon
  <2>3. PICK k \in 0 .. 4 : k = n(i)
    BY <2>2, AnnouncedIsShort
  <2>4. k # 0 /\ ~(i + k - 1 > Len(s))
    BY <1>4, <2>3
  <2>5. i + k \in i + 1 .. N /\ i + k - 1 \in 1 .. Len(s)
    BY <1>1, <2>1, <2>4
  <2> QED
    BY <2>1, <2>3, <2>5, Zenon
<1>5. ASSUME NEW i \in 1 .. N, i # N, ~stops(i), NEW rest \in T
      PROVE  further(i, rest) \in T
  <2>1. i + n(i) - 1 \in 1 .. Len(s) /\ i \in 1 .. Len(s)
    BY <1>4, <1>5, Zenon
  <2>2. BeforeDecoded(s, i, n(i), rest) \in T
    BY <1>2, <2>1, RuneIsDecoded, Zenon
  <2> QED
    BY <1>3, <2>2, Zenon
<1> HIDE DEF n, stops, further
<1>6. PICK first : first = [i \in 1 .. N |-> IF i = N THEN AllDecoded ELSE NotDecoded]
  OBVIOUS
<1>7. PICK next : next = [i \in 1 .. N |-> IF i = N \/ stops(i) THEN i ELSE i + n(i)]
  OBVIOUS
<1>8. PICK step : step = [i \in 1 .. N |-> [rest \in T |->
                             IF i = N \/ stops(i) THEN rest ELSE further(i, rest)]]
  OBVIOUS
<1>9. PICK f : Onward(f, N, T, first, next, step)
  <2>1. first \in [1 .. N -> T]
    BY <1>3, <1>6
  <2>2. next \in [1 .. N -> 1 .. N]
    <3>1. ASSUME NEW i \in 1 .. N
          PROVE  (IF i = N \/ stops(i) THEN i ELSE i + n(i)) \in 1 .. N
      <4>1. CASE i = N \/ stops(i)
        BY <4>1, Zenon
      <4>2. CASE ~(i = N \/ stops(i))
        <5>1. i + n(i) \in i + 1 .. N
          BY <1>4, <4>2, Zenon
        <5>2. i + n(i) \in 1 .. N
          BY <5>1
        <5> QED
          BY <4>2, <5>2, Zenon
      <4> QED
        BY <4>1, <4>2
    <3> QED
      BY <1>7, <3>1
  <2>3. step \in [1 .. N -> [T -> T]]
    <3>1. ASSUME NEW i \in 1 .. N, NEW rest \in T
          PROVE  (IF i = N \/ stops(i) THEN rest ELSE further(i, rest)) \in T
      BY <1>5, Zenon
    <3> QED
      BY <1>8, <3>1
  <2> QED
    BY <1>1, <2>1, <2>2, <2>3, OnwardRecursion
<1>10. f \in [1 .. N -> T]
  BY <1>9, Zenon DEF Onward
<1>11. \A i \in 1 .. N :
          f[i] = IF i = N THEN AllDecoded ELSE IF stops(i) THEN NotDecoded
                 ELSE further(i, f[i + n(i)])
  <2> TAKE i \in 1 .. N
  <2>1. f[i] = IF next[i] > i THEN step[i][f[next[i]]] ELSE first[i]
    BY <1>9, Zenon DEF Onward
  <2>2. CASE i = N \/ stops(i)
    <3>1. next[i] = i
      BY <1>7, <2>2, Zenon
    <3>2. ~(next[i] > i)
      BY <3>1
    <3>3. f[i] = first[i]
      BY <2>1, <3>2, Zenon
    <3>4. first[i] = IF i = N THEN AllDecoded ELSE NotDecoded
      BY <1>6, Zenon
    <3> QED
      BY <2>2, <3>3, <3>4, Zenon
  <2>3. CASE ~(i = N \/ stops(i))
    <3>1. PICK j \in i + 1 .. N : j = i + n(i)
      BY <1>4, <2>3, Zenon
    <3>2. next[i] = j
      BY <1>7, <2>3, <3>1, Zenon
    <3>3. j > i /\ j \in 1 .. N
      OBVIOUS
    <3>4. f[j] \in T
      BY <1>10, <3>3
    <3>5. f[i] = step[i][f[j]]
      BY <2>1, <3>2, <3>3, Zenon
    <3>6. step[i] = [rest \in T |->
                        IF i = N \/ stops(i) THEN rest ELSE further(i, rest)]
      BY <1>8, Zenon
    <3>7. step[i][f[j]] = IF i = N \/ stops(i) THEN f[j] ELSE further(i, f[j])
      BY <3>4, <3>6, Zenon
    <3> QED
      BY <2>3, <3>1, <3>5, <3>7, Zenon
  <2> QED
    BY <2>2, <2>3
<1>12. \A i \in 1 .. N : i > Len(s) <=> i = N
  BY <1>1
<1>13. f = Body(f)
  <2>1. ASSUME NEW i \in 1 .. N
        PROVE  f[i] = IF i > Len(s) THEN AllDecoded
                      ELSE IF Announced(s[i]) = 0 \/ i + Announced(s[i]) - 1 > Len(s)
                      THEN NotDecoded
                      ELSE IF ~f[i + Announced(s[i])].ok THEN NotDecoded
                      ELSE BeforeDecoded(s, i, Announced(s[i]), f[i + Announced(s[i])])
    BY <1>11, <1>12, Zenon DEF stops, further, n
  <2>2. f = [i \in 1 .. N |-> f[i]]
    BY <1>10
  <2>3. f = [i \in 1 .. N |->
                IF i > Len(s) THEN AllDecoded
                ELSE IF Announced(s[i]) = 0 \/ i + Announced(s[i]) - 1 > Len(s)
                THEN NotDecoded
                ELSE IF ~f[i + Announced(s[i])].ok THEN NotDecoded
                ELSE BeforeDecoded(s, i, Announced(s[i]), f[i + Announced(s[i])])]
    BY <2>1, <2>2
  <2> QED
    BY <1>1, <2>3, Zenon
<1>14. PICK kept : kept = CHOOSE g : g = Body(g)
  BY Zenon
<1>15. kept = Body(kept)
  BY <1>13, <1>14, Zenon
<1>16. DecodeRunes(s) = kept[1].runes
  BY <1>14, Zenon DEF DecodeRunes, Decode, BeforeDecoded, NotDecoded, AllDecoded
<1>17. \A i \in 1 .. N :
          kept[i] = IF i = N THEN AllDecoded ELSE IF stops(i) THEN NotDecoded
                    ELSE further(i, kept[i + n(i)])
  <2>1. ASSUME NEW i \in 1 .. N
        PROVE  Body(kept)[i]
                  = IF i > Len(s) THEN AllDecoded
                    ELSE IF Announced(s[i]) = 0 \/ i + Announced(s[i]) - 1 > Len(s)
                    THEN NotDecoded
                    ELSE IF ~kept[i + Announced(s[i])].ok THEN NotDecoded
                    ELSE BeforeDecoded(s, i, Announced(s[i]), kept[i + Announced(s[i])])
    BY <1>1, Zenon
  <2> HIDE DEF Body
  <2>2. \A i \in 1 .. N :
           kept[i] = IF i > Len(s) THEN AllDecoded
                     ELSE IF Announced(s[i]) = 0 \/ i + Announced(s[i]) - 1 > Len(s)
                     THEN NotDecoded
                     ELSE IF ~kept[i + Announced(s[i])].ok THEN NotDecoded
                     ELSE BeforeDecoded(s, i, Announced(s[i]), kept[i + Announced(s[i])])
    BY <1>15, <2>1, Zenon
  <2> QED
    BY <1>12, <2>2, Zenon DEF stops, further, n
<1> HIDE DEF Body
<1> DEFINE good == {i \in 1 .. N : kept[i] \in T /\ Len(kept[i].runes) <= N - i}
<1>18. ASSUME NEW i \in 1 .. N, \A j \in i + 1 .. N : j \in good
       PROVE  i \in good
  <2>1. CASE i = N \/ stops(i)
    <3>1. kept[i] = AllDecoded \/ kept[i] = NotDecoded
      BY <1>17, <2>1, Zenon
    <3>2. Len(AllDecoded.runes) = 0 /\ Len(NotDecoded.runes) = 0
      BY DEF AllDecoded, NotDecoded
    <3>3. Len(kept[i].runes) <= N - i
      BY <3>1, <3>2
    <3> QED
      BY <1>3, <3>1, <3>3, Zenon
  <2>2. CASE ~(i = N \/ stops(i))
    <3>1. PICK j \in i + 1 .. N : j = i + n(i)
      BY <1>4, <2>2, Zenon
    <3>2. PICK rest : rest = kept[j]
      OBVIOUS
    <3>3. rest \in T /\ Len(rest.runes) <= N - j
      BY <1>18, <3>2, Zenon
    <3>4. further(i, rest) \in T
      BY <1>5, <2>2, <3>3, Zenon
    <3>5. kept[i] = further(i, rest)
      BY <1>17, <2>2, <3>1, <3>2, Zenon
    <3>6. Len(further(i, rest).runes) <= N - i
      <4>1. Len(NotDecoded.runes) = 0
        BY DEF NotDecoded
      <4>2. /\ Len(rest.runes) \in Nat
            /\ Len(BeforeDecoded(s, i, n(i), rest).runes) = Len(rest.runes) + 1
        <5>1. i + n(i) - 1 \in 1 .. Len(s) /\ i \in 1 .. Len(s)
          BY <1>4, <2>2, Zenon
        <5> QED
          BY <1>2, <3>3, <5>1, RuneIsDecoded, Zenon
      <4>3. PICK k \in Nat : k = Len(rest.runes)
        BY <4>2
      <4>4. k + 1 <= N - i
        BY <3>3, <4>3
      <4>5. further(i, rest) = NotDecoded \/ further(i, rest) = BeforeDecoded(s, i, n(i), rest)
        BY Zenon DEF further
      <4>6. CASE further(i, rest) = NotDecoded
        BY <4>1, <4>6
      <4>7. CASE further(i, rest) = BeforeDecoded(s, i, n(i), rest)
        BY <4>2, <4>3, <4>4, <4>7
      <4> QED
        BY <4>5, <4>6, <4>7, Zenon
    <3> QED
      BY <3>4, <3>5, <3>6, Zenon
  <2> QED
    BY <2>1, <2>2
<1>19. kept[1] \in T /\ Len(kept[1].runes) <= N - 1
  <2> HIDE DEF good
  <2>1. \A i \in 1 .. N : i \in good
    BY <1>18, FromTheEnd
  <2>2. 1 \in 1 .. N
    BY <1>1
  <2> QED
    BY <2>1, <2>2, Zenon DEF good
<1>20. PICK R : R = RunesIn(s)
  OBVIOUS
<1>21. kept[1].runes \in Seq(R)
  BY <1>2, <1>19, <1>20 DEF Decoded
<1>22. Len(DecodeRunes(s)) <= Len(s)
  BY <1>1, <1>16, <1>19
<1> QED
  BY <1>16, <1>20, <1>21, <1>22, Zenon

(* The filter divides a text into ranges, none of them empty.              *)
LEMMA RangesAreTyped ==
    ASSUME NEW R, NEW runes \in Seq(R)
    PROVE  \A range \in ToSet(Filtered(runes)) :
              range \in Seq(R) /\ range # << >> /\ Len(range) <= Len(runes)
<1>1. PICK N \in Nat : N = Len(runes)
  OBVIOUS
<1>2. PICK V : V = {range \in Seq(R) : range # << >> /\ Len(range) <= N}
  OBVIOUS
<1> DEFINE separates(i) == runes[i].rune \in Separators
           next(i) == Min({j \in i .. Len(runes) + 1 : j > Len(runes) \/ separates(j)})
           last(i) == IF next(i) = i THEN i ELSE next(i) - 1
           Body(f) == [i \in 1 .. Len(runes) + 1 |->
                          IF i > Len(runes) THEN << >>
                          ELSE <<SubSeq(runes, i, last(i))>> \o f[last(i) + 1]]
<1>3. ASSUME NEW i \in 1 .. N
      PROVE  last(i) \in i .. N
  <2> DEFINE ends == {j \in i .. Len(runes) + 1 : j > Len(runes) \/ separates(j)}
  <2>1. next(i) = Min(ends)
    BY Zenon
  <2> HIDE DEF separates
  <2>2. N + 1 \in ends /\ ends \in SUBSET Nat /\ \A j \in ends : j \in i .. N + 1
    BY <1>1
  <2> HIDE DEF ends
  <2>3. Min(ends) \in ends
    BY <2>2, LeastNat
  <2>4. PICK k \in i .. N + 1 : k = next(i)
    BY <2>1, <2>2, <2>3, Zenon
  <2> HIDE DEF next
  <2> QED
    BY <2>4
<1> HIDE DEF last
<1>4. PICK end : end = [i \in 1 .. N |-> last(i)]
  OBVIOUS
<1>5. PICK piece : piece = [i \in 1 .. N |-> <<SubSeq(runes, i, last(i))>>]
  OBVIOUS
<1>6. \A i \in 1 .. N : SubSeq(runes, i, last(i)) \in V
  <2> TAKE i \in 1 .. N
  <2>1. PICK e \in i .. N : e = last(i)
    BY <1>3
  <2>2. PICK part : part = SubSeq(runes, i, e)
    OBVIOUS
  <2>3. part \in Seq(R) /\ Len(part) = e - i + 1
    <3>1. i \in Nat /\ e \in Nat /\ 1 <= i /\ e <= Len(runes) /\ i <= e + 1
      BY <1>1
    <3> QED
      BY <2>2, <3>1, PartOfSeq
  <2>4. part # << >> /\ Len(part) <= N
    BY <2>3
  <2> QED
    BY <1>2, <2>1, <2>2, <2>3, <2>4
<1>7. PiecesTo(N, V, piece, end)
  <2>1. \A i \in 1 .. N : <<SubSeq(runes, i, last(i))>> \in Seq(V)
    BY <1>6
  <2>2. piece \in [1 .. N -> Seq(V)]
    BY <1>5, <2>1
  <2>3. \A i \in 1 .. N : last(i) \in 1 .. N /\ i <= last(i)
    BY <1>3
  <2>4. end \in [1 .. N -> 1 .. N] /\ \A i \in 1 .. N : i <= end[i]
    BY <1>4, <2>3
  <2> QED
    BY <2>2, <2>4 DEF PiecesTo
<1>8. ASSUME NEW f
      PROVE  Body(f) = CutOf(f, N, piece, end)
  <2>1. ASSUME NEW i \in 1 .. N + 1
        PROVE  (IF i > N THEN << >> ELSE <<SubSeq(runes, i, last(i))>> \o f[last(i) + 1])
               = IF i > N THEN << >> ELSE piece[i] \o f[end[i] + 1]
    <3>1. CASE i > N
      BY <3>1, Zenon
    <3>2. CASE ~(i > N)
      <4>1. i \in 1 .. N
        BY <3>2
      <4>2. end[i] = last(i) /\ piece[i] = <<SubSeq(runes, i, last(i))>>
        BY <1>4, <1>5, <4>1, Zenon
      <4> QED
        BY <3>2, <4>2, Zenon
    <3> QED
      BY <3>1, <3>2
  <2> QED
    BY <1>1, <2>1 DEF CutOf
<1>9. PICK from : from = CutOf(from, N, piece, end)
  BY <1>7, CutIsCutOf
<1>10. from = Body(from)
  BY <1>8, <1>9, Zenon
<1>11. PICK kept : kept = CHOOSE g : g = Body(g)
  BY Zenon
<1>12. kept = Body(kept)
  BY <1>10, <1>11, Zenon
<1>13. Filtered(runes) = kept[1]
  BY <1>11, Zenon DEF Filtered, last
<1> HIDE DEF Body
<1>14. Cuts(kept, N, piece, end)
  <2>1. kept = CutOf(kept, N, piece, end)
    BY <1>8, <1>12, Zenon
  <2> QED
    BY <1>7, <2>1, CutIsCutOf
<1>15. PICK ranges \in Seq(V) : ranges = Filtered(runes)
  <2>1. 1 \in 1 .. N + 1
    OBVIOUS
  <2>2. kept[1] \in Seq(V)
    BY <1>7, <1>14, <2>1, CutIsTyped
  <2> QED
    BY <1>13, <2>2, Zenon
<1>16. \A range \in ToSet(ranges) : range \in V
  <2>1. \A i \in DOMAIN ranges : ranges[i] \in V
    BY ElementOfSeq
  <2> QED
    BY <2>1, Zenon DEF ToSet
<1> QED
  BY <1>1, <1>2, <1>15, <1>16, Zenon

(* What holds of a text holds of a shorter one.                            *)
LEMMA FewerAreLight ==
    ASSUME NEW dict, NEW N \in Nat, RunesAreLight(dict, N), NEW n \in 0 .. N
    PROVE  RunesAreLight(dict, n)
<1>1. PICK least \in MinDouble .. 0 : IsLeast(dict, least, N)
  BY Zenon DEF RunesAreLight
<1>2. PICK few \in Int, many \in Int : few = least * n /\ many = least * N
  BY DEF MinDouble
<1>3. many <= few
  <2>1. least \in Int /\ least <= 0
    BY DEF MinDouble
  <2>2. least * N <= least * n
    BY <2>1, Multiples
  <2> QED
    BY <1>2, <2>2
<1>4. MinDouble < many
  BY <1>1, <1>2 DEF IsLeast
<1>5. MinDouble < few
  BY <1>3, <1>4 DEF MinDouble
<1>6. IsLeast(dict, least, n)
  BY <1>1, <1>2, <1>5, Zenon DEF IsLeast
<1> QED
  BY <1>6, Zenon DEF RunesAreLight

(* A sentence is cut as well as the dictionary and the model allow.        *)
THEOREM SentencesAreCutBest ==
    ASSUME NEW dict, SoundDict(dict), SoundModel(dict.model),
           NEW sentence \in Seq(0 .. 255), RunesAreLight(dict, Len(sentence))
    PROVE  BestSegmentation(dict, sentence)
<1>1. PICK R : R = RunesIn(sentence)
  OBVIOUS
<1>2. PICK decoded \in Seq(R) : decoded = DecodeRunes(sentence) /\ Len(decoded) <= Len(sentence)
  BY <1>1, RunesAreDecoded
<1>3. \A runes \in ToSet(Ranges(sentence)) :
         runes \in Seq(R) /\ runes # << >> /\ RunesAreLight(dict, Len(runes))
  <2> TAKE runes \in ToSet(Ranges(sentence))
  <2>1. runes \in Seq(R) /\ runes # << >> /\ Len(runes) <= Len(decoded)
    BY <1>2, RangesAreTyped, Zenon DEF Ranges
  <2>2. PICK n \in Nat, N \in Nat : n = Len(runes) /\ N = Len(sentence)
    BY <2>1
  <2>3. n \in 0 .. N
    BY <1>2, <2>1, <2>2
  <2>4. RunesAreLight(dict, N)
    BY <2>2, Zenon
  <2>5. RunesAreLight(dict, n)
    BY <2>3, <2>4, FewerAreLight
  <2> QED
    BY <2>1, <2>2, <2>5, Zenon
<1>4. ASSUME NEW runes \in ToSet(Ranges(sentence))
      PROVE  /\ HeaviestCut(dict, runes) /\ CutIsWhole(dict, runes) /\ ListsAll(dict, runes)
             /\ LikeliestTags(dict.model, Unicode(runes))
  <2>1. runes \in Seq(R) /\ runes # << >> /\ RunesAreLight(dict, Len(runes))
    BY <1>3, Zenon
  <2>2. HeaviestCut(dict, runes)
    BY <2>1, HeaviestIsCut
  <2>3. MixCut(dict, runes, TRUE) \in Seq(Seq(R)) /\ CutIsWhole(dict, runes)
    BY <2>1, MixCutIsWhole
  <2>4. ListsAll(dict, runes)
    <3>1. Lists(dict, runes, FullCut(dict, runes))
      BY <2>1, FullCutListsAll
    <3>2. ToSet(MixCut(dict, runes, TRUE)) \subseteq ToSet(QueryCut(dict, runes, TRUE))
      BY <2>3, QueryCutListsAll
    <3> QED
      BY <3>1, <3>2, Zenon DEF ListsAll
  <2>5. LikeliestTags(dict.model, Unicode(runes))
    <3>1. PICK X : X = {r.rune : r \in R}
      OBVIOUS
    <3>2. PICK text \in Seq(X) : text = Unicode(runes) /\ Len(text) = Len(runes)
      BY <2>1, <3>1, UnicodeOf
    <3>3. text # << >>
      BY <2>1, <3>2
    <3> QED
      BY <3>2, <3>3, LikeliestIsFound
  <2> QED
    BY <2>2, <2>3, <2>4, <2>5, Zenon
<1> QED
  BY <1>4, Zenon DEF BestSegmentation

(* A text is split into texts.                                             *)
LEMMA SplitIsTyped ==
    ASSUME NEW R, NEW s \in Seq(R), NEW separators
    PROVE  Split(s, separators) \in Seq({part \in Seq(R) : Len(part) <= Len(s)})
<1>1. PICK N \in Nat : N = Len(s)
  OBVIOUS
<1>2. PICK W : W = {part \in Seq(R) : Len(part) <= Len(s)}
  OBVIOUS
<1> DEFINE ends(p) == {q \in p .. Len(s) + 1 : q > Len(s) \/ s[q] \in separators}
           last(p) == IF Min(ends(p)) > Len(s) THEN Len(s) ELSE Min(ends(p))
           part(p) == SubSeq(s, p, Min(ends(p)) - 1)
           Body(f) == [p \in 1 .. Len(s) + 1 |->
                          IF p > Len(s) THEN << >> ELSE <<part(p)>> \o f[last(p) + 1]]
<1>3. ASSUME NEW p \in 1 .. N
      PROVE  Min(ends(p)) \in p .. N + 1
  <2>1. N + 1 \in ends(p) /\ ends(p) \in SUBSET Nat /\ \A q \in ends(p) : q \in p .. N + 1
    BY <1>1
  <2> HIDE DEF ends
  <2>2. Min(ends(p)) \in ends(p)
    <3>1. PICK numbers \in SUBSET Nat : numbers = ends(p)
      BY <2>1
    <3>2. numbers # {}
      BY <2>1, <3>1
    <3>3. Min(numbers) \in numbers
      BY <3>2, LeastNat
    <3> QED
      BY <3>1, <3>3
  <2> QED
    BY <2>1, <2>2, Zenon
<1> HIDE DEF ends
<1>4. ASSUME NEW p \in 1 .. N
      PROVE  last(p) \in p .. N /\ part(p) \in W
  <2>1. PICK e \in p .. N + 1 : e = Min(ends(p))
    BY <1>3
  <2>2. last(p) \in p .. N
    BY <1>1, <2>1
  <2>3. SubSeq(s, p, e - 1) \in Seq(R) /\ Len(SubSeq(s, p, e - 1)) = e - 1 - p + 1
    <3>1. p \in Nat /\ e - 1 \in Nat /\ 1 <= p /\ e - 1 <= Len(s) /\ p <= e - 1 + 1
      BY <1>1, <2>1
    <3> QED
      BY <3>1, PartOfSeq
  <2>4. e - 1 - p + 1 <= Len(s)
    BY <1>1, <2>1
  <2>5. SubSeq(s, p, e - 1) \in W
    BY <1>2, <2>3, <2>4
  <2> QED
    BY <2>1, <2>2, <2>5
<1> HIDE DEF last, part
<1>5. PICK end : end = [p \in 1 .. N |-> last(p)]
  OBVIOUS
<1>6. PICK piece : piece = [p \in 1 .. N |-> <<part(p)>>]
  OBVIOUS
<1>7. PiecesTo(N, W, piece, end)
  <2>1. \A p \in 1 .. N : <<part(p)>> \in Seq(W)
    BY <1>4
  <2>2. piece \in [1 .. N -> Seq(W)]
    BY <1>6, <2>1
  <2>3. \A p \in 1 .. N : last(p) \in 1 .. N /\ p <= last(p)
    BY <1>4
  <2>4. end \in [1 .. N -> 1 .. N] /\ \A p \in 1 .. N : p <= end[p]
    BY <1>5, <2>3
  <2> QED
    BY <2>2, <2>4 DEF PiecesTo
<1>8. ASSUME NEW f
      PROVE  Body(f) = CutOf(f, N, piece, end)
  <2>1. ASSUME NEW p \in 1 .. N + 1
        PROVE  (IF p > N THEN << >> ELSE <<part(p)>> \o f[last(p) + 1])
               = IF p > N THEN << >> ELSE piece[p] \o f[end[p] + 1]
    <3>1. CASE p > N
      BY <3>1, Zenon
    <3>2. CASE ~(p > N)
      <4>1. p \in 1 .. N
        BY <3>2
      <4>2. end[p] = last(p) /\ piece[p] = <<part(p)>>
        BY <1>5, <1>6, <4>1, Zenon
      <4> QED
        BY <3>2, <4>2, Zenon
    <3> QED
      BY <3>1, <3>2
  <2> QED
    BY <1>1, <2>1 DEF CutOf
<1>9. PICK from : from = CutOf(from, N, piece, end)
  BY <1>7, CutIsCutOf
<1>10. from = Body(from)
  BY <1>8, <1>9, Zenon
<1>11. PICK kept : kept = CHOOSE g : g = Body(g)
  BY Zenon
<1>12. kept = Body(kept)
  BY <1>10, <1>11, Zenon
<1>13. Split(s, separators) = kept[1]
  BY <1>11, Zenon DEF Split, last, part, ends
<1> HIDE DEF Body
<1>14. Cuts(kept, N, piece, end)
  <2>1. kept = CutOf(kept, N, piece, end)
    BY <1>8, <1>12, Zenon
  <2> QED
    BY <1>7, <2>1, CutIsCutOf
<1>15. kept[1] \in Seq(W)
  <2>1. 1 \in 1 .. N + 1
    OBVIOUS
  <2> QED
    BY <1>7, <1>14, <2>1, CutIsTyped
<1> QED
  BY <1>2, <1>13, <1>15, Zenon

(* The pieces of a text between white space are texts.                     *)
LEMMA PiecesAreTyped ==
    ASSUME NEW R, NEW s \in Seq(R)
    PROVE  \A piece \in ToSet(Pieces(s)) : piece \in Seq(R) /\ Len(piece) <= Len(s)
<1>1. PICK W : W = {part \in Seq(R) : Len(part) <= Len(s)}
  OBVIOUS
<1>2. PICK parts \in Seq(W) : parts = Split(s, Space)
  BY <1>1, SplitIsTyped
<1> DEFINE piece(i) == IF parts[i] = << >> THEN << >> ELSE <<parts[i]>>
<1>3. ASSUME NEW i \in DOMAIN parts
      PROVE  piece(i) \in Seq(W)
  <2>1. parts[i] \in W
    BY ElementOfSeq
  <2> QED
    BY <2>1
<1> HIDE DEF piece
<1>4. PICK lists : lists = [i \in DOMAIN parts |-> piece(i)]
  OBVIOUS
<1>5. lists \in Seq(Seq(W))
  <2>1. PICK V : V = Seq(W)
    OBVIOUS
  <2>2. \A i \in DOMAIN parts : piece(i) \in V
    BY <1>3, <2>1
  <2>3. PICK n \in Nat : DOMAIN parts = 1 .. n
    BY LenProperties
  <2>4. lists \in [1 .. n -> V]
    BY <1>4, <2>2, <2>3
  <2> QED
    BY <2>1, <2>4
<1>6. Pieces(s) = FlattenSeq(lists)
  BY <1>2, <1>4, Zenon DEF Pieces, piece
<1>7. PICK pieces \in Seq(W) : pieces = Pieces(s)
  <2>1. FlattenSeq(lists) \in Seq(W)
    BY <1>5, FlattenConcat
  <2> QED
    BY <1>6, <2>1
<1>8. \A i \in DOMAIN pieces : pieces[i] \in W
  BY ElementOfSeq
<1> QED
  BY <1>1, <1>7, <1>8, Zenon DEF ToSet

(* What a page is taken to be here: its content is bytes, and not so many  *)
(* that the weights of its runes together come to the impossible.          *)
PageIsLight ==
    pages # << >> =>
        /\ Last(pages).content \in Seq(0 .. 255)
        /\ RunesAreLight(Segmenter, Len(Last(pages).content))

(* Whatever a page says, its words are the best cut that the dictionary    *)
(* and the model allow (MPSegment, HMMSegment, MixSegment, FullSegment and *)
(* QuerySegment): of a dictionary of any words and weights, a model of any *)
(* probabilities, and a page of any length.                                *)
THEOREM PagesAreCutBest == PageIsLight => SegmentationIsBest
<1>1. SUFFICES ASSUME PageIsLight, tool = "items" /\ pages # << >>,
                      NEW piece \in ToSet(Pieces(Last(pages).content))
               PROVE  BestSegmentation(Segmenter, piece)
  BY Zenon DEF SegmentationIsBest
<1>2. PICK content : content = Last(pages).content
  OBVIOUS
<1>3. content \in Seq(0 .. 255) /\ RunesAreLight(Segmenter, Len(content))
  BY <1>1, <1>2, Zenon DEF PageIsLight
<1>4. piece \in Seq(0 .. 255) /\ RunesAreLight(Segmenter, Len(piece))
  <2>1. piece \in Seq(0 .. 255) /\ Len(piece) <= Len(content)
    BY <1>1, <1>2, <1>3, PiecesAreTyped
  <2>2. PICK n \in Nat, N \in Nat : n = Len(piece) /\ N = Len(content)
    BY <1>3, <2>1
  <2>3. n \in 0 .. N
    BY <2>1, <2>2
  <2>4. RunesAreLight(Segmenter, N)
    BY <1>3, <2>2, Zenon
  <2>5. RunesAreLight(Segmenter, n)
    BY <2>3, <2>4, FewerAreLight
  <2> QED
    BY <2>1, <2>2, <2>5, Zenon
<1>5. SoundDict(Segmenter) /\ SoundModel(Segmenter.model)
  BY SoundAssumption
<1> QED
  BY <1>4, <1>5, SentencesAreCutBest
=============================================================================
