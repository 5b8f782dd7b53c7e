----------------------------- MODULE XmlPrinter -----------------------------
(***************************************************************************)
(* XMLPrinter of offline/tinyxml2.cc, which a document shows its nodes to  *)
(* (Accept), and SaveFile, which writes what it prints.                    *)
(***************************************************************************)
EXTENDS XmlDocument

VARIABLES saved  \* what SaveFile wrote, without the layout, and how it did

printerVars == <<vars, saved>>
-----------------------------------------------------------------------------
(* Accept of a node: an element is entered, then its children, and left.   *)
Accept(this) ==
    LET visits[n \in Node] ==
            LET below == Children(dom, n)
            IN  IF ~IsElement(n) THEN <<[visit |-> "leaf", n |-> n]>>
                ELSE <<[visit |-> "enter", n |-> n]>>
                     \o FlattenSeq([i \in DOMAIN below |-> visits[below[i]]])
                     \o <<[visit |-> "exit", n |-> n]>>
    IN  visits[this]

(* And of the document: its children, one after the other.                 *)
AcceptDocument ==
    LET top == Children(dom, Document)
    IN  FlattenSeq([i \in DOMAIN top |-> Accept(top[i])])

(* The state of a printer; textDepth is the depth of the element that the  *)
(* last text is in, and -1 outside of one.                                 *)
Printer == [out |-> << >>, depth |-> 0, textDepth |-> -1,
            justOpened |-> FALSE, first |-> TRUE]

Write(st, bytes) == [st EXCEPT !.out = @ \o bytes]

(* What is written before the first visit.                                 *)
PushHeader(st) == IF hasBOM THEN Write(st, ByteOrderMark) ELSE st

PrintSpace(depth) == [i \in 1 .. 4 * depth |-> 32]

(* SealElementIfJustOpened                                                 *)
Seal(st) ==
    IF st.justOpened THEN [Write(st, <<62>>) EXCEPT !.justOpened = FALSE]
    ELSE st

(* A new line, outside of texts.                                           *)
Break(st, compact) ==
    IF st.textDepth < 0 /\ ~st.first /\ ~compact THEN <<LF>> ELSE << >>

PushAttribute(a) ==
    <<32>> \o a.name \o <<61, 34>> \o PrintString(a.value, FALSE) \o <<34>>

(* OpenElement, whose spaces are written even where it breaks no line.     *)
PrintOpen(st, n, compact) ==
    LET s == Seal(st)
        attributes == node[n].attributes
    IN  [Write(s, Break(s, compact)
                  \o (IF compact THEN << >> ELSE PrintSpace(s.depth))
                  \o <<60>> \o node[n].value
                  \o FlattenSeq([i \in DOMAIN attributes |->
                                    PushAttribute(attributes[i])]))
            EXCEPT !.justOpened = TRUE, !.first = FALSE, !.depth = @ + 1]

(* CloseElement                                                            *)
PrintClose(st, n, compact) ==
    LET depth == st.depth - 1
        break == IF st.textDepth < 0 /\ ~compact
                 THEN <<LF>> \o PrintSpace(depth) ELSE << >>
        tag == IF st.justOpened THEN Sealed
               ELSE break \o <<60, Slash>> \o node[n].value \o <<62>>
        end == IF depth = 0 /\ ~compact THEN <<LF>> ELSE << >>
    IN  [Write(st, tag \o end) EXCEPT
            !.depth = depth, !.justOpened = FALSE,
            !.textDepth = IF @ = depth THEN -1 ELSE @]

(* PushText                                                                *)
PrintText(st, n) ==
    LET value == node[n].value
    IN  [Write(Seal(st), IF node[n].kind = "cdata"
                         THEN Header["cdata"] \o value \o EndTag["cdata"]
                         ELSE PrintString(value, TRUE))
            EXCEPT !.textDepth = st.depth - 1]

(* PushComment, PushDeclaration, PushUnknown                               *)
PrintOther(st, n, compact) ==
    LET s == Seal(st)
        break == Break(s, compact)
        kind == node[n].kind
    IN  [Write(s, break \o (IF break = << >> THEN << >> ELSE PrintSpace(s.depth))
                  \o Header[kind] \o node[n].value \o EndTag[kind])
            EXCEPT !.first = FALSE]

(* What the printer makes of each visit, and of the document.              *)
Printed(compact) ==
    LET visits == AcceptDocument
        print(st, v) ==
            IF v.visit = "enter" THEN PrintOpen(st, v.n, compact)
            ELSE IF v.visit = "exit" THEN PrintClose(st, v.n, compact)
            ELSE IF IsText(v.n) THEN PrintText(st, v.n)
            ELSE PrintOther(st, v.n, compact)
    IN  FoldLeft(print, PushHeader(Printer), visits).out
-----------------------------------------------------------------------------
(* SaveFile, and LoadFile of what it wrote.                                *)

(* A text that is all white space is not read again, nor are a carriage    *)
(* return and a null byte, which only a reference can have brought in.     *)
Plain(text) ==
    /\ ~(ToSet(text) \subseteq WhiteSpace)
    /\ {CR, Nul} \cap ToSet(text) = {}

(* The layout adds spaces, and between elements they do not count.         *)
LayoutIsLost ==
    \A n \in Allocated :
        node[n].kind = "text" /\ dom[n].next # Null =>
            IF dom[n].parent = Document THEN IsText(dom[n].next)
            ELSE ~IsElement(dom[n].next)

(* And a text cannot end a file: here one was followed by a closing tag.   *)
Faithful(compact) ==
    /\ \A n \in Allocated :
          /\ node[n].kind = "text" => Plain(node[n].value)
          /\ \A i \in DOMAIN node[n].attributes :
                {LF, CR, Nul} \cap ToSet(node[n].attributes[i].value) = {}
    /\ compact \/ LayoutIsLost
    /\ LET last == dom[Document].last
       IN  last # Null => node[last].kind # "text"

NotSaved == [faithful |-> FALSE, text |-> << >>]

SaveAndLoad(compact) ==
    /\ LoadAnother(Printed(compact))
    /\ saved' = [faithful |-> Faithful(compact), text |-> Printed(TRUE)]
-----------------------------------------------------------------------------
(* Whatever was parsed and edited, what SaveFile writes LoadFile reads as  *)
(* the same document: every mark that the printer does not escape, every   *)
(* text the parser splits or drops and every node left in the wrong list   *)
(* would show.                                                             *)
WhatIsSavedIsRead ==
    saved.faithful /\ stage = "loaded" /\ dying = << >> =>
        IF saved.text \in {<< >>, ByteOrderMark} THEN error = "empty"
        ELSE error = "none" /\ Printed(TRUE) = saved.text
=============================================================================
