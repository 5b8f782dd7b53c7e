------------------------------- MODULE XmlTree -------------------------------
(***************************************************************************)
(* The nodes of an XMLDocument and the pointers between them: XMLNode of   *)
(* offline/tinyxml2.cc.  A node's children are a doubly linked list that   *)
(* the parent holds by both ends.  dom gives the pointers of every node;   *)
(* each operator is what one member function makes of them.                *)
(***************************************************************************)
EXTENDS Sequences

CONSTANTS Node,      \* the places of the memory pools
          Document,  \* the XMLDocument, which is a node too
          Null

ASSUME NodeAssumption == Document \notin Node /\ Null \notin Node \cup {Document}

AllNodes == Node \cup {Document}
Link == AllNodes \cup {Null}
Links == [parent : Link, first : Link, last : Link, prev : Link, next : Link]

(* XMLNode::XMLNode                                                        *)
Blank == [parent |-> Null, first |-> Null, last |-> Null,
          prev |-> Null, next |-> Null]
-----------------------------------------------------------------------------
(* Mutant: the node before the child keeps its pointer to it.              *)
UnlinkForgetsPrev(dom, child) ==
    LET c == dom[child]
    IN  [n \in AllNodes |->
            IF n = child
            THEN [dom[n] EXCEPT !.parent = Null, !.prev = Null, !.next = Null]
            ELSE [dom[n] EXCEPT
                    !.first = IF n = c.parent /\ @ = child THEN c.next ELSE @,
                    !.last = IF n = c.parent /\ @ = child THEN c.prev ELSE @,
                    !.prev = IF n = c.next THEN c.prev ELSE @]]

Unlink(dom, child) ==
    LET c == dom[child]
    IN  [n \in AllNodes |->
            IF n = child
            THEN [dom[n] EXCEPT !.parent = Null, !.prev = Null, !.next = Null]
            ELSE [dom[n] EXCEPT
                    !.first = IF n = c.parent /\ @ = child THEN c.next ELSE @,
                    !.last = IF n = c.parent /\ @ = child THEN c.prev ELSE @,
                    !.next = IF n = c.prev THEN c.next ELSE @,
                    !.prev = IF n = c.next THEN c.prev ELSE @]]

(* InsertChildPreamble: a child of some node leaves it first.              *)
Detached(dom, add) == IF dom[add].parent = Null THEN dom ELSE Unlink(dom, add)

(* What the three insertions have in common: add goes between two children *)
(* of this, where Null stands for the end of the list.                     *)
Between(dom, this, prev, add, next) ==
    [n \in AllNodes |->
        IF n = add
        THEN [dom[n] EXCEPT !.parent = this, !.prev = prev, !.next = next]
        ELSE [dom[n] EXCEPT
                !.first = IF n = this /\ prev = Null THEN add ELSE @,
                !.last = IF n = this /\ next = Null THEN add ELSE @,
                !.next = IF n = prev THEN add ELSE @,
                !.prev = IF n = next THEN add ELSE @]]

InsertEndChild(dom, this, add) ==
    LET d == Detached(dom, add) IN Between(d, this, d[this].last, add, Null)

InsertFirstChild(dom, this, add) ==
    LET d == Detached(dom, add) IN Between(d, this, Null, add, d[this].first)

(* InsertAfterChild looks whether after is the last child before it takes  *)
(* add out of the list.                                                    *)
InsertAfterChild(dom, this, after, add) ==
    LET d == Detached(dom, add)
    IN  IF after = add THEN dom
        ELSE IF dom[after].next = Null THEN InsertEndChild(dom, this, add)
        ELSE Between(d, this, after, add, d[after].next)

(* It then follows a null pointer when add was all that came after.        *)
FollowsNull(dom, after, add) ==
    dom[after].next = add /\ dom[add].next = Null

(* DeleteNode gives a node back to its pool once it has no children.       *)
Freed(dom, node) == [dom EXCEPT ![node] = Blank]
-----------------------------------------------------------------------------
(* FirstChild() and NextSibling() until there is none: the children.       *)
Children(dom, this) ==
    LET from[n \in Link] ==
            IF n = Null THEN << >> ELSE <<n>> \o from[dom[n].next]
    IN  from[dom[this].first]
-----------------------------------------------------------------------------
(* Whatever is parsed, inserted, moved or deleted, in whichever order, a   *)
(* list of children reads the same in both directions, is held by both its *)
(* ends, and belongs to one parent: what the assertions of InsertEndChild, *)
(* InsertFirstChild and Unlink each say of the place they are at.          *)
EndsAgree(dom) ==
    \A n \in AllNodes :
        /\ dom[n].first = Null <=> dom[n].last = Null
        /\ dom[n].first # Null =>
               /\ dom[dom[n].first].parent = n
               /\ dom[dom[n].first].prev = Null
        /\ dom[n].last # Null =>
               /\ dom[dom[n].last].parent = n
               /\ dom[dom[n].last].next = Null

NeighboursAgree(dom) ==
    \A n \in AllNodes :
        /\ dom[n].next # Null =>
               /\ dom[dom[n].next].prev = n
               /\ dom[dom[n].next].parent = dom[n].parent
        /\ dom[n].prev # Null =>
               /\ dom[dom[n].prev].next = n
               /\ dom[dom[n].prev].parent = dom[n].parent

ParentsAgree(dom) ==
    \A n \in AllNodes :
        IF dom[n].parent = Null THEN dom[n].prev = Null /\ dom[n].next = Null
        ELSE /\ dom[n].prev = Null => dom[dom[n].parent].first = n
             /\ dom[n].next = Null => dom[dom[n].parent].last = n

LinksAgree(dom) == EndsAgree(dom) /\ NeighboursAgree(dom) /\ ParentsAgree(dom)
=============================================================================
