------------------------------- MODULE Weblib -------------------------------
(***************************************************************************)
(* The first half of the offline tool: buildWeblib reads the items of an   *)
(* RSS file into pages (offline/PageLibPreprocessor.cc), and a page has    *)
(* its words counted (buildWordMap) and its text hashed (buildU64), both   *)
(* in offline/WebPage.cc.                                                  *)
(*                                                                         *)
(* item is the variable node of the loop over the items, one turn of which *)
(* is one action.                                                          *)
(***************************************************************************)
EXTENDS XmlPrinter, Segmentation

VARIABLES item, pages,
          tool       \* "waiting", "items", "built" or "died"

weblib == <<item, pages, tool>>
-----------------------------------------------------------------------------
(* FirstChildElement, NextSiblingElement and GetText of tinyxml2           *)

Names == [channel |-> Bytes("channel"), item |-> Bytes("item"),
          title |-> Bytes("title"), description |-> Bytes("description"),
          link |-> Bytes("link")]

ElementFrom(n, name) ==
    LET from[m \in Link] ==
            IF m = Null THEN Null
            ELSE IF IsElement(m) /\ node[m].value = Names[name] THEN m
            ELSE from[dom[m].next]
    IN  from[n]
FirstChildElement(n, name) == ElementFrom(dom[n].first, name)
NextSiblingElement(n, name) == ElementFrom(dom[n].next, name)

RootElement ==
    LET elements == SelectSeq(Children(dom, Document), IsElement)
    IN  IF elements = << >> THEN Null ELSE Head(elements)

HasText(n) == IsText(dom[n].first)
Text(n) == node[dom[n].first].value

(* regex_replace of <[^>]*> by nothing.                                    *)
StripTags(s) ==
    LET end(p) == {q \in p + 1 .. Len(s) : s[q] = 62}
        from[p \in 1 .. Len(s) + 1] ==
            IF p > Len(s) THEN << >>
            ELSE IF s[p] = 60 /\ end(p) # {} THEN from[Min(end(p)) + 1]
            ELSE <<s[p]>> \o from[p + 1]
    IN  from[1]

(* getline of the first line.                                              *)
FirstLine(s) ==
    LET inLine(b) == b # LF IN SubSeq(s, 1, SkipOver(s, 1, inLine) - 1)
-----------------------------------------------------------------------------
(* buildWeblib                                                             *)

Read == tool = "waiting" /\ stage = "loaded" /\ dying = << >>

(* The file was not read, or has no element: an assertion fails.           *)
LoadFails ==
    /\ Read
    /\ error # "none" \/ RootElement = Null
    /\ tool' = "died"
    /\ UNCHANGED <<printerVars, item, pages>>

(* A file without a channel has no pages.                                  *)
FirstItem ==
    /\ Read /\ error = "none" /\ RootElement # Null
    /\ LET channel == FirstChildElement(RootElement, "channel")
       IN  item' = IF channel = Null THEN Null
                   ELSE FirstChildElement(channel, "item")
    /\ tool' = "items"
    /\ UNCHANGED <<printerVars, pages>>

Title == FirstChildElement(item, "title")
Description == FirstChildElement(item, "description")
Url == FirstChildElement(item, "link")

(* GetText is called of each of them whether it is there or not.           *)
ItemFails ==
    /\ tool = "items" /\ item # Null
    /\ Null \in {Title, Description, Url}
    /\ tool' = "died"
    /\ UNCHANGED <<printerVars, item, pages>>

(* An item without a title takes the first line of its description; one    *)
(* that has a title but no description has no content.                     *)
Page ==
    LET described == HasText(Description)
        titled == HasText(Title)
        content == IF ~described THEN << >>
                   ELSE StripTags(IF titled
                                  THEN Text(Title) \o <<LF>> \o Text(Description)
                                  ELSE Text(Description))
    IN  [title |-> IF titled THEN Text(Title) ELSE FirstLine(content),
         url |-> Text(Url), content |-> content]

(* Mutant: an item without a link ends the loop.                           *)
ItemEnds ==
    /\ tool = "items" /\ item # Null
    /\ Null \notin {Title, Description, Url}
    /\ pages' = IF HasText(Url) THEN Append(pages, Page) ELSE pages
    /\ item' = IF HasText(Url) THEN NextSiblingElement(item, "item") ELSE Null
    /\ UNCHANGED <<printerVars, tool>>

ItemIsRead ==
    /\ tool = "items" /\ item # Null
    /\ Null \notin {Title, Description, Url}
    /\ pages' = IF HasText(Url) THEN Append(pages, Page) ELSE pages
    /\ item' = NextSiblingElement(item, "item")
    /\ UNCHANGED <<printerVars, tool>>

LastItem ==
    /\ tool = "items" /\ item = Null
    /\ tool' = "built"
    /\ UNCHANGED <<printerVars, item, pages>>

BuildWeblib == LoadFails \/ FirstItem \/ ItemFails \/ ItemIsRead \/ LastItem
-----------------------------------------------------------------------------
(* buildWordMap: how often each word is in the content.  It is read up to  *)
(* white space, each piece is cut, and the stop words are left out.        *)
Occurrences(words) ==
    [word \in ToSet(words) |-> Cardinality({i \in DOMAIN words : words[i] = word})]
Counted(words) == Occurrences(SelectSeq(words, LAMBDA word : word \notin StopWordList))

WordsMap(content) ==
    Counted(FlattenSeq(Images(LAMBDA piece : Cut(Segmenter, piece, TRUE), Pieces(content))))
-----------------------------------------------------------------------------
(* Whatever a page says, its words are the best cut that the dictionary    *)
(* and the model allow: the index is built from them, and queries are cut  *)
(* by the same segmenter.                                                  *)
SegmentationIsBest ==
    tool = "items" /\ pages # << >> =>
        \A piece \in ToSet(Pieces(Last(pages).content)) :
            BestSegmentation(Segmenter, piece)
=============================================================================
