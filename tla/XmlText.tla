------------------------------- MODULE XmlText -------------------------------
(***************************************************************************)
(* The text of an XML file, as offline/tinyxml2.cc reads and writes it:    *)
(* where a construct begins and ends, what the stretch between stands for, *)
(* and how a value is written.  A text is a sequence of bytes; a position  *)
(* past its end is where the code has put the null byte.                   *)
(***************************************************************************)
EXTENDS Utf8, FiniteSetsExt

Nul == 0
At(s, p) == IF p \in DOMAIN s THEN s[p] ELSE Nul

(* The null pointer that a function returns when it fails.                 *)
Failed == 0

WhiteSpace == 9 .. 13 \cup {32}
IsNameStartChar(b) == b >= 128 \/ IsLetter(b) \/ b \in {58, 95}
IsNameChar(b) == IsNameStartChar(b) \/ IsDigit(b) \/ b \in {45, 46}

(* The first position from p on whose byte is not one of these.            *)
SkipOver(s, p, bytes(_)) ==
    Min({q \in p .. Len(s) + 1 : q > Len(s) \/ ~bytes(s[q])})

SkipWhiteSpace(s, p) == LET white(b) == b \in WhiteSpace IN SkipOver(s, p, white)

StartsWith(s, p, pattern) ==
    /\ p + Len(pattern) - 1 <= Len(s)
    /\ SubSeq(s, p, p + Len(pattern) - 1) = pattern

(* ReadBOM: past the mark of UTF-8, if there is one.                       *)
ByteOrderMark == <<239, 187, 191>>
ReadBOM(s, p) == IF StartsWith(s, p, ByteOrderMark) THEN p + 3 ELSE p
-----------------------------------------------------------------------------
(* StrPair: a stretch of the file and what it stands for.                  *)

(* ParseText: [value, p], p after the end tag, or Failed without one.      *)
ParseText(s, p, endTag) ==
    LET ends == {q \in p .. Len(s) : StartsWith(s, q, endTag)}
    IN  IF ends = {} THEN [value |-> << >>, p |-> Failed]
        ELSE LET q == Min(ends)
             IN  [value |-> SubSeq(s, p, q - 1), p |-> q + Len(endTag)]

ParseName(s, p) ==
    IF ~IsNameStartChar(At(s, p)) THEN [value |-> << >>, p |-> Failed]
    ELSE LET q == SkipOver(s, p, IsNameChar)
         IN  [value |-> SubSeq(s, p, q - 1), p |-> q]

Entities == {[pattern |-> Bytes("quot;"), value |-> 34],
             [pattern |-> Bytes("amp;"), value |-> 38],
             [pattern |-> Bytes("apos;"), value |-> 39],
             [pattern |-> Bytes("lt;"), value |-> 60],
             [pattern |-> Bytes("gt;"), value |-> 62]}

DigitOf(b) == CASE IsDigit(b) -> b - 48
                [] b \in 97 .. 102 -> b - 87
                [] b \in 65 .. 70 -> b - 55
                [] OTHER -> 16

(* GetCharacterRef at an ampersand and a hash: what is put out and where   *)
(* reading goes on, Failed if it is no reference.  The digits are read     *)
(* from the semicolon back to the last x or hash.  A number that 32 bits   *)
(* do not hold is left out.                                                *)
GetCharacterRef(s, p) ==
    LET hex == At(s, p + 2) = 120
        radix == IF hex THEN 16 ELSE 10
        mark == IF hex THEN 120 ELSE 35
        ends == {q \in p + 2 .. Len(s) : s[q] = 59}
        end == Min(ends)
        begin == Max({q \in p + 1 .. end : s[q] = mark})
        digits == [i \in 1 .. end - begin - 1 |-> DigitOf(s[begin + i])]
        more(n, digit) == radix * n + digit
    IN  IF p + 2 > Len(s) THEN [out |-> << >>, p |-> p + 1]
        ELSE IF ends = {} \/ \E i \in DOMAIN digits : digits[i] >= radix
        THEN [out |-> << >>, p |-> Failed]
        ELSE [out |-> ConvertUTF32ToUTF8(FoldLeft(more, 0, digits)),
              p |-> end + 1]

(* What stands for the ampersand at p when out has been written.  GetStr   *)
(* writes over the text it reads: where the ampersand begins nothing it    *)
(* goes on without writing, and leaves the byte that was in that place.    *)
Ampersand(s, p, out) ==
    LET known == {e \in Entities : StartsWith(s, p + 1, e.pattern)}
        entity == CHOOSE e \in known : TRUE
        ref == GetCharacterRef(s, p)
        alone == [out |-> <<s[p]>>, p |-> p + 1]
    IN  IF At(s, p + 1) = 35 THEN IF ref.p = Failed THEN alone ELSE ref
        ELSE IF known # {}
        THEN [out |-> <<entity.value>>, p |-> p + Len(entity.pattern) + 1]
        ELSE [alone EXCEPT !.out = <<s[Len(out) + 1]>>]

(* A carriage return, a line feed, or one of each, is one line feed.       *)
NewLine(s, p) ==
    [out |-> <<LF>>,
     p |-> IF {s[p], At(s, p + 1)} = {CR, LF} THEN p + 2 ELSE p + 1]

(* GetStr, whose result is a C string: it ends at the first null byte.     *)
CString(s) == LET other(b) == b # Nul IN SubSeq(s, 1, SkipOver(s, 1, other) - 1)

GetStr(s, entities) ==
    LET piece(p, out) ==
            IF s[p] \in {CR, LF} THEN NewLine(s, p)
            ELSE IF entities /\ s[p] = 38 THEN Ampersand(s, p, out)
            ELSE [out |-> <<s[p]>>, p |-> p + 1]
        step(acc, p) ==
            IF p < acc.next THEN acc
            ELSE LET f == piece(p, acc.out)
                 IN  [out |-> acc.out \o f.out, next |-> f.p]
    IN  CString(FoldLeft(step, [out |-> << >>, next |-> 1],
                         [p \in 1 .. Len(s) |-> p]).out)
-----------------------------------------------------------------------------
(* How the constructs begin and end; a text ends where another begins.     *)
Header == [declaration |-> Bytes("<?"), comment |-> Bytes("<!--"),
           cdata |-> Bytes("<![CDATA["), unknown |-> Bytes("<!"),
           element |-> Bytes("<")]
EndTag == [declaration |-> Bytes("?>"), comment |-> Bytes("-->"),
           cdata |-> Bytes("]]>"), unknown |-> Bytes(">"), text |-> Bytes("<")]
Leaves == DOMAIN EndTag
Slash == 47
Sealed == Bytes("/>")

(* Identify: the kind of the node at p, by the longest header that fits,   *)
(* and where its ParseDeep begins.  White space before a text is its own.  *)
Identify(s, p) ==
    LET q == SkipWhiteSpace(s, p)
        begun == {kind \in DOMAIN Header : StartsWith(s, q, Header[kind])}
        kind == CHOOSE k \in begun : \A other \in begun :
                    Len(Header[k]) >= Len(Header[other])
    IN  IF q > Len(s) THEN [kind |-> "none", p |-> q]
        ELSE IF begun = {} THEN [kind |-> "text", p |-> p]
        ELSE [kind |-> kind, p |-> q + Len(Header[kind])]

(* ParseDeep of a leaf.  A text must be followed by another construct, and *)
(* leaves its bracket to it.                                               *)
LeafOf(s, kind, t) ==
    [value |-> GetStr(t.value, kind = "text"),
     p |-> IF kind # "text" \/ t.p = Failed THEN t.p
           ELSE IF t.p > Len(s) THEN Failed ELSE t.p - 1,
     error |-> IF t.p = Failed THEN kind
               ELSE IF kind = "text" /\ t.p > Len(s) THEN "parsing" ELSE "none"]
ParseLeaf(s, at) == LeafOf(s, at.kind, ParseText(s, at.p, EndTag[at.kind]))

(* XMLAttribute::ParseDeep                                                 *)
ParseAttribute(s, p) ==
    LET name == ParseName(s, p)
        equals == SkipWhiteSpace(s, name.p)
        quote == SkipWhiteSpace(s, equals + 1)
        value == ParseText(s, quote + 1, <<s[quote]>>)
        failed == [name |-> name.value, value |-> << >>, p |-> Failed]
    IN  IF \/ name.p > Len(s) \/ At(s, equals) # 61
           \/ At(s, quote) \notin {34, 39}
        THEN failed
        ELSE [name |-> name.value, value |-> GetStr(value.value, TRUE),
              p |-> value.p]

(* ParseAttributes: the attributes from p to the end of the tag.           *)
TagEnd(error, closed, p) ==
    [attributes |-> << >>, p |-> p, closed |-> closed, error |-> error]

EndOfTag(s, p) ==
    IF At(s, p) = 62 THEN TagEnd("none", FALSE, p + 1)
    ELSE IF StartsWith(s, p, Sealed) THEN TagEnd("none", TRUE, p + 2)
    ELSE TagEnd("element", FALSE, Failed)

Refused(a, given) == a.p = Failed \/ \E i \in DOMAIN given : given[i].name = a.name

ParseAttributes(s, p) ==
    LET from[q \in Nat, given \in Seq([name : Seq(Nat), value : Seq(Nat)])] ==
            LET r == SkipWhiteSpace(s, q)
                onward(a) == IF Refused(a, given) THEN TagEnd("attribute", FALSE, Failed)
                             ELSE from[a.p, Append(given, [name |-> a.name,
                                                           value |-> a.value])]
            IN  IF IsNameStartChar(At(s, r)) THEN onward(ParseAttribute(s, r))
                ELSE [EndOfTag(s, r) EXCEPT !.attributes = given]
    IN  from[p, << >>]

(* The tag of an element, from after its bracket: XMLElement::ParseDeep up *)
(* to the children.  A closing tag that ends in a slash counts as closed.  *)
Tag(name, closing, rest) ==
    [name |-> name, attributes |-> rest.attributes, p |-> rest.p,
     closing |-> IF rest.closed THEN "closed"
                 ELSE IF closing THEN "closing" ELSE "open",
     error |-> rest.error]

NamedTag(s, closing, name) ==
    IF name.p = Failed THEN Tag(<< >>, FALSE, TagEnd("parsing", FALSE, Failed))
    ELSE Tag(name.value, closing, ParseAttributes(s, name.p))

ParseTag(s, p) ==
    LET q == SkipWhiteSpace(s, p)
        closing == At(s, q) = Slash
    IN  NamedTag(s, closing, ParseName(s, IF closing THEN q + 1 ELSE q))
-----------------------------------------------------------------------------
(* Mutant: quotes stay in an attribute too.                                *)
PrintRestricted(s, restricted) ==
    LET written(b) ==
            IF b \in {38, 60, 62}
            THEN <<38>> \o (CHOOSE e \in Entities : e.value = b).pattern
            ELSE <<b>>
    IN  FlattenSeq([i \in DOMAIN s |-> written(s[i])])

(* XMLPrinter::PrintString: in a text (restricted) quotes stay.            *)
PrintString(s, restricted) ==
    LET flagged == IF restricted THEN {38, 60, 62} ELSE {e.value : e \in Entities}
        written(b) ==
            IF b \in flagged
            THEN <<38>> \o (CHOOSE e \in Entities : e.value = b).pattern
            ELSE <<b>>
    IN  FlattenSeq([i \in DOMAIN s |-> written(s[i])])
=============================================================================
