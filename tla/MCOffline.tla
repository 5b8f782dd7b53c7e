------------------------------ MODULE MCOffline ------------------------------
(***************************************************************************)
(* An instance of SearchEngine for TLC.  It begins with some XML, which a  *)
(* client of the library edits, saves and reads again; or with the feed of *)
(* a few items, which the offline tool makes into pages and the server     *)
(* finds; or with pages of all kinds, whatever feed they are from.         *)
(***************************************************************************)
EXTENDS SearchEngine

CONSTANTS MaxPieces,   \* the length of an XML file
          MaxEdits,    \* the edits of a document
          MaxSentence, \* the runes of a sentence to segment
          MaxPages     \* the pages of a library

VARIABLES feed,   \* the items of the feed, if it is one
          edits   \* how often the document was edited

mcVars == <<engineVars, feed, edits>>

Given == INSTANCE MCSearchIndex

(* Pages as buildWeblib leaves them.                                       *)
ASSUME LibrariesAssumption == \A given \in Given!Libraries : Extracted(given)

(* No text here is long enough for the impossible to count.                *)
ASSUME LightAssumption == RunesAreLight(Segmenter, 100)
-----------------------------------------------------------------------------
(* XML files                                                               *)
Usual == {Bytes("<a>"), Bytes("</a>"), Bytes("<b k='&lt;'>"), Bytes("</b>"),
          Bytes("<a/>"), Bytes("x&amp;&y;"), Bytes("<!--c-->")}
Odd == {Bytes(" <a"), Bytes("<a k='1' k='2'/>"), Bytes("<a k>"), Bytes("</ a>"),
        Bytes("<![CDATA[<]]>"), Bytes("<!D>"), Bytes("&#65;&#x42;&#;"), <<LF>>,
        <<CR, LF>>, ByteOrderMark, Bytes("</a/>"), Bytes("<!--"), Bytes("x&#32;"),
        Bytes("<?d?>")}
(* The documents that are edited.                                          *)
Edited == {Bytes("<a/>"), Bytes("<a><b/>x</a>")}

XmlFiles ==
    LET usual == {FlattenSeq(s) : s \in BoundedSeq(Usual, MaxPieces)}
        around(o) == {FlattenSeq(s) : s \in
            {<<o, Bytes("<a/>")>>, <<Bytes("<a>"), o, Bytes("</a>")>>,
             <<Bytes("<a>"), o>>, <<Bytes("<a/>"), o>>}}
        deep == FlattenSeq([i \in 1 .. MaxDepth - 1 |-> Bytes("<a>")])
    IN  Edited \cup usual \cup {deep, deep \o Bytes("x")}
        \cup UNION {around(o) : o \in Odd}
-----------------------------------------------------------------------------
(* Feeds.  A field is absent, empty, or a text: all of it, and without the *)
(* tags in it.                                                             *)
field(all, plain) == [absent |-> FALSE, all |-> all, plain |-> plain]
Absent == [field(<< >>, << >>) EXCEPT !.absent = TRUE]
Empty == field(<< >>, << >>)
text(string) == field(Bytes(string), Bytes(string))
Titles == {Empty, field(Bytes("t<i>&"), Bytes("t&"))}
Descriptions == {Empty, field(Bytes("<p>hound</p>") \o <<LF>> \o Bytes("1>0<2"),
                              Bytes("hound") \o <<LF>> \o Bytes("1>0<2"))}
FeedItems == [title : Titles, description : Descriptions, link : {Empty, text("u")}]
Odds == {[title |-> field(Bytes("t<url>"), Bytes("t")),
          description |-> text("hound cat"), link |-> text("u")],
         [title |-> Absent, description |-> Empty, link |-> text("u")],
         [title |-> text("t"), description |-> Absent, link |-> text("u")],
         [title |-> Empty, description |-> Empty, link |-> Absent]}

(* Sentences of runes that are in the dictionary, and shorter ones with a  *)
(* letter, a digit and a separator too.                                    *)
Known == {20013, 20014, 20015}
Runes == Known \cup {120, 49, 12290}
Sentences == {FlattenSeq([i \in DOMAIN s |-> ConvertUTF32ToUTF8(s[i])]) :
                 s \in BoundedSeq(Known, MaxSentence) \cup
                       BoundedSeq(Runes, MaxSentence - 1)}
Feeds == {<<i, j>> : i, j \in FeedItems} \cup {<<i>> : i \in FeedItems \cup Odds} \cup
         {<<[title |-> Empty, description |-> field(s, s), link |-> text("u")]>> :
             s \in Sentences \ {<< >>}}

Field(name, value) ==
    IF value.absent THEN << >>
    ELSE <<60>> \o name \o <<62>> \o PrintString(value.all, TRUE)
         \o <<60, Slash>> \o name \o <<62>>
ItemText(i) ==
    Bytes("<item>") \o FlattenSeq([n \in 1 .. 3 |->
        LET name == <<"title", "description", "link">>[n]
        IN  Field(Names[name], i[name])]) \o Bytes("</item>")
FeedText(items) ==
    Bytes("<rss><channel>")
    \o FlattenSeq([i \in DOMAIN items |-> ItemText(items[i])])
    \o Bytes("</channel></rss>")
-----------------------------------------------------------------------------
(* Files that are no feed: the first two have no root element.             *)
NoElement == {Bytes("<a"), Bytes("<!--c-->")}
Unfit == NoElement \cup {Bytes("<rss/>")}

Init ==
    /\ \/ feed = << >> /\ tool = "none" /\ \E s \in XmlFiles : DocumentInit(s)
       \/ tool = "waiting" /\ feed \in Feeds /\ DocumentInit(FeedText(feed))
       \/ tool = "waiting" /\ feed = << >> /\ \E s \in Unfit : DocumentInit(s)
       \/ tool = "given" /\ feed = << >> /\ DocumentInit(<< >>)
    /\ IF tool = "given"
       THEN phase = "buildWeblib" /\ \E given \in Given!Libraries : IndexInit(given)
       ELSE phase = "none" /\ IndexInit(<< >>)
    /\ saved = NotSaved /\ item = Null /\ pages = << >> /\ edits = 0

EditNodes ==
    /\ edits < MaxEdits /\ file \in Edited
    /\ Edit({Item("element", Bytes("n"), << >>), Item("text", Bytes("t"), << >>)},
            {Bytes("s>")}, {[name |-> Bytes("k"), value |-> <<34>>]})
    /\ edits' = edits + 1
    /\ UNCHANGED <<saved, weblib, feed, indexVars>>

(* What is asked: words, no words, and the pages of a feed themselves.  No *)
(* answer depends on those before, so one is enough.                       *)
Asked == {Bytes("x"), Bytes("ww"), Bytes("hound"), ConvertUTF32ToUTF8(20013),
          ConvertUTF32ToUTF8(20013) \o Bytes("ww")}
AskedTexts == Asked \cup {page.content : page \in ToSet(pages)}

Next ==
    \/ Turn /\ UNCHANGED <<saved, weblib, feed, edits, indexVars>>
    \/ tool = "none" /\ saved = NotSaved
       /\ \/ EditNodes
          \/ \E compact \in BOOLEAN : SaveAndLoad(compact)
             /\ UNCHANGED <<weblib, feed, edits, indexVars>>
    \/ BuildWeblib /\ UNCHANGED <<feed, edits, indexVars>>
    \/ Engine /\ UNCHANGED <<feed, edits>>
    \/ query = {} /\ \E asked \in AskedTexts : Ask(asked) /\ UNCHANGED <<feed, edits>>

Spec == Init /\ [][Next]_mcVars
-----------------------------------------------------------------------------
(* Every item that has a link is a page, in the order of the file, with    *)
(* the text of its fields and no tag of theirs; an item that lacks an      *)
(* element altogether ends the tool.                                       *)
PageOf(i) ==
    LET described == i.description.all # << >>
        titled == i.title.all # << >>
        content == IF ~described THEN << >>
                   ELSE (IF titled THEN Append(i.title.plain, LF) ELSE << >>)
                        \o i.description.plain
    IN  [title |-> IF titled THEN i.title.all ELSE FirstLine(content),
         url |-> i.link.all, content |-> content]

Complete(i) == ~i.title.absent /\ ~i.description.absent /\ ~i.link.absent
Linked(i) == i.link.all # << >>

PagesOfTheFile ==
    LET complete == \A i \in DOMAIN feed : Complete(feed[i])
        linked == SelectSeq(feed, Linked)
    IN  /\ tool = "built" =>
              complete /\ pages = [i \in DOMAIN linked |-> PageOf(linked[i])]
        /\ tool = "died" => ~complete \/ file \in NoElement
-----------------------------------------------------------------------------
(* The dictionaries                                                        *)
zhong == ConvertUTF32ToUTF8(20013)
ya == ConvertUTF32ToUTF8(20014)
feng == ConvertUTF32ToUTF8(20015)
FileOf(lines) == FlattenSeq([i \in DOMAIN lines |-> Append(lines[i], LF)])

MCDictFile ==
    FileOf(<<zhong \o Bytes(" 32 n"), zhong \o ya \o Bytes(" 16 n"),
             ya \o feng \o Bytes(" 64 v"), zhong \o ya \o feng \o Bytes(" 1 n"),
             feng \o zhong \o Bytes(" 8 n"), Bytes("z 391 x")>>)

(* The words of the first two lines are in force, one by the carriage      *)
(* return that it has not.                                                 *)
MCUserDictFile ==
    FileOf(<<ya \o Bytes(" n"), feng \o feng \o Bytes(" 32 n"), << >>,
             zhong \o zhong \o <<CR>>, Bytes("a b c d"), <<255>>>>)

(* Tags are B, E, M, S; a word is B M* E, or S.                            *)
MCModelFile ==
    FileOf(<<Bytes("# start"), Bytes("-1 -1000 -1000 -2"), << >>,
             Bytes("-1000 -1 -3 -1000"), Bytes("-2 -1000 -1000 -1"),
             Bytes("-1000 -2 -1 -1000"), Bytes("-1 -1000 -1000 -2") \o <<CR>>,
             zhong \o Bytes(":-2,") \o ya \o Bytes(":-5,") \o feng \o Bytes(":-3"),
             zhong \o Bytes(":-4,") \o ya \o Bytes(":-1,") \o feng \o Bytes(":-3"),
             ya \o Bytes(":-2,") \o feng \o Bytes(":-6"),
             zhong \o Bytes(":-3,") \o ya \o Bytes(":-4,") \o feng \o Bytes(":-1")>>)

MCIdfFile == FileOf(<<Bytes("hound 3"), << >>, zhong \o ya \o Bytes(" 5")>>)
MCStopWordFile == FileOf(<<Bytes("x") \o <<CR>>, zhong \o ya \o <<CR>>>>)
=============================================================================
