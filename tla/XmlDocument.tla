----------------------------- MODULE XmlDocument -----------------------------
(***************************************************************************)
(* XMLDocument of offline/tinyxml2.cc: a file is parsed into a tree, the   *)
(* tree is changed by calls of a client, written to a file and read again. *)
(*                                                                         *)
(* ParseDeep calls itself for each element; open is the stack of elements  *)
(* whose ParseDeep runs, and an action is one turn of the loop of the      *)
(* innermost.  An element becomes a child of its parent only when its end  *)
(* is read.  DeleteNode calls itself for each child, and so does           *)
(* DeepClone; dying and cloning are their stacks.                          *)
(***************************************************************************)
EXTENDS XmlText, XmlTree

CONSTANTS MaxDepth  \* TINYXML2_MAX_ELEMENT_DEPTH

(* A pool is as large as the memory.                                       *)
ASSUME NodeFinite == IsFiniteSet(Node)
ASSUME MaxDepthAssumption == MaxDepth \in Nat \ {0, 1}

VARIABLES dom,        \* the pointers of the nodes
          node,       \* what each node is
          unlinked,   \* _unlinked
          untracked,  \* _nUntracked of the pools
          dying,      \* the nodes whose DeleteNode runs
          cloning,    \* the copies whose DeepClone runs, and the child next
          file,       \* _charBuffer
          pos,        \* p
          open,
          error,      \* _errorID
          hasBOM,     \* _writeBOM
          stage       \* "parsing", "loaded" or "clearing"

calls == <<dying, cloning>>
tree == <<dom, node, unlinked, untracked, calls>>
parser == <<file, pos, open, error, hasBOM, stage>>
vars == <<tree, parser>>

Free == [kind |-> "free", value |-> << >>, attributes |-> << >>]
Allocated == {n \in Node : node[n].kind # "free"}
Item(kind, value, attributes) ==
    [kind |-> kind, value |-> value, attributes |-> attributes]
IsElement(n) == n \in Node /\ node[n].kind = "element"
IsText(n) == n \in Node /\ node[n].kind \in {"text", "cdata"}

(* The pool hands out its free places; all are alike.                      *)
Fresh == CHOOSE n \in Node : n \notin Allocated
HasFresh == Allocated # Node
-----------------------------------------------------------------------------
(* MemPoolT and the list of nodes that no tree has yet                     *)

(* CreateUnlinkedNode                                                      *)
Create(n, item) ==
    /\ node' = [node EXCEPT ![n] = item]
    /\ unlinked' = unlinked \cup {n}
    /\ untracked' = untracked + 1

(* What an insertion does to them; Preamble is InsertChildPreamble.        *)
Preamble(n) ==
    /\ unlinked' = unlinked \ {n}
    /\ untracked' = IF dom[n].parent = Null THEN untracked - 1 ELSE untracked

(* CreateUnlinkedNode and an insertion in one step.                        *)
CreateChild(n, item) ==
    /\ node' = [node EXCEPT ![n] = item]
    /\ UNCHANGED <<unlinked, untracked, calls>>
-----------------------------------------------------------------------------
(* Parse                                                                   *)

Idle == dying = << >> /\ cloning = << >> /\ stage = "loaded"

(* LoadFile of s, when the document is clear.                              *)
Load(s) ==
    LET p == ReadBOM(s, SkipWhiteSpace(s, 1))
        empty == p > Len(s)
    IN  /\ file' = s
        /\ pos' = p
        /\ hasBOM' = IF s = << >> THEN hasBOM ELSE p # SkipWhiteSpace(s, 1)
        /\ open' = IF empty THEN << >> ELSE <<Document>>
        /\ error' = IF empty THEN "empty" ELSE "none"
        /\ stage' = IF empty THEN "loaded" ELSE "parsing"

Parsing == stage = "parsing" /\ dying = << >>
Top == Last(open)
Ahead == Identify(file, pos)

(* The rest of the file is left, and no error is reported.                 *)
Return ==
    /\ open' = << >>
    /\ stage' = "loaded"
    /\ UNCHANGED <<tree, file, pos, error, hasBOM>>

(* Every ParseDeep returns null and the caller deletes its element; the    *)
(* first error stays, and without one it is a parsing error.  What the     *)
(* document has got so far it keeps.  The pools are not told: created is 1 *)
(* when the node being read is lost too.                                   *)
Fail(err, created) ==
    /\ error' = IF err = "none" THEN "parsing" ELSE err
    /\ open' = << >>
    /\ stage' = "loaded"
    /\ dying' = Tail(open)
    /\ unlinked' = unlinked \ {open[i] : i \in 2 .. Len(open)}
    /\ untracked' = untracked + created
    /\ UNCHANGED <<dom, node, cloning, file, pos, hasBOM>>

(* The loop of the document or of an element comes to the end of the file. *)
EndOfFile ==
    /\ Parsing
    /\ Ahead.kind = "none"
    /\ IF Top = Document THEN Return ELSE Fail("parsing", 0)

(* Declarations come first, and at the level of the document.              *)
WellLocated ==
    /\ Top = Document
    /\ \/ dom[Document].first = Null
       \/ /\ node[dom[Document].first].kind = "declaration"
          /\ node[dom[Document].last].kind = "declaration"

ParsedLeaf(leaf) ==
    /\ HasFresh
    /\ dom' = InsertEndChild(dom, Top, Fresh)
    /\ CreateChild(Fresh, Item(Ahead.kind, leaf.value, << >>))
    /\ pos' = leaf.p
    /\ UNCHANGED <<file, open, error, hasBOM, stage>>

LeafIsRead(leaf) ==
    IF leaf.error # "none" THEN Fail(leaf.error, 1)
    ELSE IF Ahead.kind = "declaration" /\ ~WellLocated THEN Fail("declaration", 1)
    ELSE ParsedLeaf(leaf)

Leaf ==
    /\ Parsing
    /\ Ahead.kind \in Leaves
    /\ LeafIsRead(ParseLeaf(file, Ahead))

(* A tag that cannot be read.                                              *)
BadTag(tag) == tag.p = Failed /\ Fail(tag.error, 1)

(* <a/>: an element without children.                                      *)
ClosedElement(tag) ==
    /\ tag.p # Failed /\ tag.closing = "closed"
    /\ HasFresh
    /\ dom' = InsertEndChild(dom, Top, Fresh)
    /\ CreateChild(Fresh, Item("element", tag.name, tag.attributes))
    /\ pos' = tag.p
    /\ UNCHANGED <<file, open, error, hasBOM, stage>>

(* <a>: its ParseDeep begins, unless nothing follows or it is too deep.    *)
OpenElement(tag) ==
    /\ tag.p # Failed /\ tag.closing = "open"
    /\ IF tag.p > Len(file) THEN Fail("mismatched", 1)
       ELSE IF Len(open) + 1 = MaxDepth THEN Fail("depth", 1)
       ELSE /\ HasFresh
            /\ Create(Fresh, Item("element", tag.name, tag.attributes))
            /\ open' = Append(open, Fresh)
            /\ pos' = tag.p
            /\ UNCHANGED <<dom, calls, file, error, hasBOM, stage>>

(* </a>: the innermost element is complete and becomes its parent's child. *)
(* At the level of the document it ends the parsing without an error.      *)
ClosingElement(tag) ==
    /\ tag.p # Failed /\ tag.closing = "closing"
    /\ IF Top = Document THEN Return
       ELSE IF tag.name # node[Top].value THEN Fail("mismatched", 0)
       ELSE /\ dom' = InsertEndChild(dom, open[Len(open) - 1], Top)
            /\ Preamble(Top)
            /\ open' = Front(open)
            /\ pos' = tag.p
            /\ UNCHANGED <<node, calls, file, error, hasBOM, stage>>

TagIsRead(tag) ==
    BadTag(tag) \/ ClosedElement(tag) \/ OpenElement(tag) \/ ClosingElement(tag)

Element ==
    /\ Parsing
    /\ Ahead.kind = "element"
    /\ TagIsRead(ParseTag(file, Ahead.p))

Parse == EndOfFile \/ Leaf \/ Element
-----------------------------------------------------------------------------
(* DeleteNode: the children first, each unlinked before it is deleted.     *)

Destroy ==
    /\ dying # << >>
    /\ LET n == Last(dying)
           child == dom[n].first
       IN  IF child # Null
           THEN /\ dom' = Unlink(dom, child)
                /\ dying' = Append(dying, child)
                /\ UNCHANGED node
           ELSE /\ dom' = Freed(dom, n)
                /\ node' = [node EXCEPT ![n] = Free]
                /\ dying' = Front(dying)
    /\ UNCHANGED <<unlinked, untracked, cloning, parser>>

(* XMLDocument::DeleteNode, and DeleteChild of the parent.                 *)
Delete(n) ==
    /\ dom' = Detached(dom, n)
    /\ Preamble(n)
    /\ dying' = <<n>>
    /\ UNCHANGED <<node, cloning, parser>>

(* Clear: the children of the document, then the unlinked nodes.           *)
Clear ==
    /\ stage = "clearing" /\ dying = << >>
    /\ \/ dom[Document].first # Null /\ Delete(dom[Document].first)
       \/ /\ dom[Document].first = Null
          /\ \E n \in unlinked : Delete(n)

(* The document is clear and the file is read.                             *)
LoadFile ==
    /\ stage = "clearing" /\ dying = << >>
    /\ dom[Document].first = Null /\ unlinked = {}
    /\ Load(file)
    /\ UNCHANGED tree
-----------------------------------------------------------------------------
(* What a client does with a document that was read without error.         *)

Editing == Idle /\ error = "none"
Holders == {n \in Allocated : IsElement(n)} \cup {Document}

(* NewElement, NewText, NewComment                                         *)
NewNode(item) ==
    /\ Editing /\ HasFresh
    /\ Create(Fresh, item)
    /\ UNCHANGED <<dom, calls, parser>>

(* n is this or below it.                                                  *)
IsUnder(n, this) ==
    LET from[m \in Link] ==
            IF m = Null THEN FALSE ELSE m = this \/ from[dom[m].parent]
    IN  n = this \/ from[dom[n].parent]

(* A client inserts nothing below itself, and texts not in the document.   *)
MayInsert(this, add) ==
    ~IsUnder(this, add) /\ (this = Document => ~IsText(add))

Insert(this, add, inserted) ==
    /\ Editing /\ MayInsert(this, add)
    /\ dom' = inserted
    /\ Preamble(add)
    /\ UNCHANGED <<node, calls, parser>>

InsertLast(this, add) == Insert(this, add, InsertEndChild(dom, this, add))
InsertFirst(this, add) == Insert(this, add, InsertFirstChild(dom, this, add))

(* A client does not move a last child behind the one before it, where     *)
(* InsertAfterChild would follow a null pointer.                           *)
InsertAfter(this, after, add) ==
    /\ dom[after].parent = this
    /\ ~FollowsNull(dom, after, add)
    /\ IF after = add THEN Editing /\ UNCHANGED vars
       ELSE Insert(this, add, InsertAfterChild(dom, this, after, add))

DeleteNode(n) == Editing /\ Delete(n)

(* ShallowClone: a new node that is like n, in no tree; its DeepClone then *)
(* goes through the children of n.                                         *)
ShallowClone(n, stack) ==
    /\ HasFresh
    /\ Create(Fresh, node[n])
    /\ cloning' = Append(stack, [copy |-> Fresh, child |-> dom[n].first])
    /\ UNCHANGED <<dom, dying, parser>>

DeepClone(n) == Editing /\ ShallowClone(n, << >>)

(* One turn of a DeepClone: the next child is cloned, or there is none and *)
(* the copy becomes the last child of that of its parent.                  *)
Clone ==
    /\ cloning # << >>
    /\ LET call == Last(cloning)
           callers == Front(cloning)
       IN  \/ /\ call.child # Null
              /\ ShallowClone(call.child,
                    Append(callers, [call EXCEPT !.child = dom[@].next]))
           \/ /\ call.child = Null
              /\ cloning' = callers
              /\ IF callers = << >> THEN UNCHANGED <<dom, unlinked, untracked>>
                 ELSE /\ dom' = InsertEndChild(dom, Last(callers).copy, call.copy)
                      /\ Preamble(call.copy)
              /\ UNCHANGED <<node, dying, parser>>

(* XMLElement::SetText: the first child's text, or a new first child.      *)
SetText(n, text) ==
    LET first == dom[n].first
    IN  /\ Editing
        /\ IF IsText(first)
           THEN /\ node' = [node EXCEPT ![first].value = text]
                /\ UNCHANGED <<dom, unlinked, untracked, calls>>
           ELSE /\ HasFresh
                /\ dom' = InsertFirstChild(dom, n, Fresh)
                /\ CreateChild(Fresh, Item("text", text, << >>))
        /\ UNCHANGED parser

(* SetAttribute through FindOrCreateAttribute, and DeleteAttribute.        *)
SetAttribute(n, name, value) ==
    LET old == node[n].attributes
        a == [name |-> name, value |-> value]
        new == IF \E i \in DOMAIN old : old[i].name = name
               THEN [i \in DOMAIN old |-> IF old[i].name = name THEN a ELSE old[i]]
               ELSE Append(old, a)
    IN  /\ Editing
        /\ node' = [node EXCEPT ![n].attributes = new]
        /\ UNCHANGED <<dom, unlinked, untracked, calls, parser>>

DeleteAttribute(n, name) ==
    LET other(a) == a.name # name
    IN  /\ Editing
        /\ node' = [node EXCEPT ![n].attributes = SelectSeq(@, other)]
        /\ UNCHANGED <<dom, unlinked, untracked, calls, parser>>

(* LoadFile of another file, which clears the document first.              *)
LoadAnother(s) ==
    /\ Editing
    /\ file' = s
    /\ stage' = "clearing"
    /\ UNCHANGED <<tree, pos, open, error, hasBOM>>

(* The calls that change the nodes, with what a client passes.             *)
Edit(items, texts, attributes) ==
    \/ \E item \in items : NewNode(item)
    \/ \E this \in Holders, add \in Allocated :
          InsertLast(this, add) \/ InsertFirst(this, add)
    \/ \E this \in Holders, after, add \in Allocated : InsertAfter(this, after, add)
    \/ \E n \in Allocated : DeleteNode(n) \/ DeepClone(n)
    \/ \E n \in Holders \ {Document} :
          \/ \E text \in texts : SetText(n, text)
          \/ \E a \in attributes : \/ SetAttribute(n, a.name, a.value)
                                  \/ DeleteAttribute(n, a.name)

(* One turn of a call that has begun.                                      *)
Turn == Parse \/ Destroy \/ Clone \/ Clear \/ LoadFile
-----------------------------------------------------------------------------
(* Init: the file is opened by LoadFile, with a new XMLDocument.           *)
DocumentInit(s) ==
    /\ dom = [n \in AllNodes |-> Blank]
    /\ node = [n \in Node |-> Free]
    /\ unlinked = {} /\ untracked = 0 /\ dying = << >> /\ cloning = << >>
    /\ file = s /\ pos = 1 /\ open = << >> /\ error = "none"
    /\ hasBOM = FALSE /\ stage = "clearing"

DocumentNext(files, items, texts, attributes) ==
    \/ Turn
    \/ Edit(items, texts, attributes)
    \/ \E s \in files : LoadAnother(s)

(* A document that is given files to load and nodes to make.               *)
DocumentSpec(files, items, texts, attributes) ==
    /\ \E s \in files : DocumentInit(s)
    /\ [][DocumentNext(files, items, texts, attributes)]_vars
-----------------------------------------------------------------------------
(* Through parsing, failing, editing, saving and reading again, the lists  *)
(* of children agree, _unlinked holds the nodes that are in no list, and   *)
(* until an error the pools count as untracked those that are not in use   *)
(* yet, which the assertions of Clear rely on.                             *)
TreeIsSound ==
    /\ LinksAgree(dom)
    /\ unlinked = {n \in Allocated : dom[n].parent = Null} \ ToSet(dying)
    /\ error = "none" => untracked = Cardinality(unlinked)
=============================================================================
