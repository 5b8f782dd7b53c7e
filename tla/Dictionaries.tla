----------------------------- MODULE Dictionaries -----------------------------
(***************************************************************************)
(* The files of lib/cppjieba/dict as the program loads them: the words and *)
(* frequencies of DictTrie, the user's words, the hidden Markov model, the *)
(* inverse document frequencies of KeywordExtractor, and the stop words,   *)
(* which are read twice, by two rules.                                     *)
(*                                                                         *)
(* A file is its bytes.  Its numbers are whole here, and a logarithm is    *)
(* one to the base 2, rounded down.  MIN_DOUBLE, the impossible, absorbs   *)
(* what is added to it as the doubles do.                                  *)
(***************************************************************************)
EXTENDS Utf8, FiniteSetsExt

CONSTANTS DictFile,      \* jieba.dict.utf8
          UserDictFile,  \* user.dict.utf8
          ModelFile,     \* hmm_model.utf8
          IdfFile,       \* idf.utf8
          StopWordFile   \* stop_words.utf8

MinDouble == -1000
-----------------------------------------------------------------------------
(* limonp::Split, and getline, which is the same with a line feed: nothing *)
(* follows the last separator.                                             *)
Split(s, separators) ==
    LET end(p) == Min({q \in p .. Len(s) + 1 : q > Len(s) \/ s[q] \in separators})
        last(p) == IF end(p) > Len(s) THEN Len(s) ELSE end(p)
        from[p \in 1 .. Len(s) + 1] ==
            IF p > Len(s) THEN << >>
            ELSE <<SubSeq(s, p, end(p) - 1)>> \o from[last(p) + 1]
    IN  from[1]

Lines(text) == Split(text, {LF})
Fields(line) == Split(line, {32})

Space == {32, 9, 10, 11, 12, 13}
Trim(s) ==
    LET black == {i \in DOMAIN s : s[i] \notin Space}
    IN  IF black = {} THEN << >> ELSE SubSeq(s, Min(black), Max(black))

(* is >> content: the pieces between white space.                          *)
Pieces(text) ==
    LET parts == Split(text, Space)
        piece(i) == IF parts[i] = << >> THEN << >> ELSE <<parts[i]>>
    IN  FlattenSeq([i \in DOMAIN parts |-> piece(i)])

(* atoi, and atof of a whole number.                                       *)
Number(s) ==
    LET negative == s # << >> /\ Head(s) = 45
        digits == {n \in DOMAIN s : \A i \in 1 .. n :
                       IsDigit(s[i]) \/ (i = 1 /\ negative)}
        add(sum, b) == IF IsDigit(b) THEN 10 * sum + b - 48 ELSE sum
        size == FoldLeft(add, 0, SubSeq(s, 1, Max({0} \cup digits)))
    IN  IF negative THEN -size ELSE size

(* The images of a sequence, all of them computed at once.                 *)
Images(op(_), s) == FoldLeft(LAMBDA a, e : Append(a, op(e)), << >>, s)

Sum(numbers) == FoldLeft(LAMBDA a, b : a + b, 0, numbers)

(* log(freq / sum); of 0 it is less than the impossible.                   *)
Log(freq, sum) ==
    IF freq = 0 THEN 2 * MinDouble
    ELSE IF freq <= sum THEN -Min({k \in 0 .. 20 : freq * 2 ^ k >= sum})
    ELSE Max({k \in 0 .. 20 : sum * 2 ^ k <= freq})
-----------------------------------------------------------------------------
(* DictTrie: the words of the program's dictionary                         *)

NoUnit == [word |-> << >>, weight |-> 0, tag |-> << >>]

(* MakeNodeInfo: a word that cannot be decoded makes an empty unit, which  *)
(* the trie does not take.                                                 *)
MakeNodeInfo(word, weight, tag) ==
    IF Decodes(word)
    THEN [word |-> Unicode(DecodeRunes(word)), weight |-> weight, tag |-> tag]
    ELSE NoUnit

DictLines == Images(Fields, Lines(DictFile))
Frequencies == Images(LAMBDA line : Number(line[2]), DictLines)

(* LoadDict checks that a line has three fields, and CalculateWeight that  *)
(* frequencies are positive; that the words decode it takes for granted.   *)
ASSUME DictAssumption ==
    /\ DictLines # << >>
    /\ \A i \in DOMAIN DictLines :
          Len(DictLines[i]) = 3 /\ Decodes(DictLines[i][1]) /\ Frequencies[i] > 0

FreqSum == Sum(Frequencies)

(* LoadDict and CalculateWeight                                            *)
Dictionary ==
    LET unit(line) == MakeNodeInfo(line[1], Log(Number(line[2]), FreqSum), line[3])
    IN  Images(unit, DictLines)

(* SetStaticWordWeights                                                    *)
SortedWeights == SortSeq(Images(LAMBDA unit : unit.weight, Dictionary), <)
MinWeight == Head(SortedWeights)
UserWordDefaultWeight == SortedWeights[(Len(SortedWeights) \div 2) + 1]

(* InserUserDictNode: a word, a word and its tag, or its frequency between *)
(* them.  A carriage return at the end of the line stays in the last one.  *)
UserDictNode(line) ==
    LET buf == Fields(line)
    IN  CASE Len(buf) = 1 -> MakeNodeInfo(buf[1], UserWordDefaultWeight, << >>)
          [] Len(buf) = 2 -> MakeNodeInfo(buf[1], UserWordDefaultWeight, buf[2])
          [] Len(buf) = 3 -> MakeNodeInfo(buf[1], Log(Number(buf[2]), FreqSum), buf[3])
          [] OTHER -> NoUnit

(* LoadUserDict                                                            *)
UserDictionary ==
    Images(UserDictNode, SelectSeq(Lines(UserDictFile), LAMBDA line : line # << >>))
(* Trie::InsertNode: a node is the path to it; its value may be no unit.   *)
InsertNode(trie, unit) ==
    IF unit.word = << >> THEN trie
    ELSE LET path == {SubSeq(unit.word, 1, n) : n \in 0 .. Len(unit.word)}
         IN  (unit.word :> unit) @@ trie @@ [p \in path |-> NoUnit]

CreateTrie(units) == FoldLeft(InsertNode, << >> :> NoUnit, units)
-----------------------------------------------------------------------------
(* HMMModel                                                                *)

(* GetLine: lines without their margins, but for empty ones and comments.  *)
ModelLines ==
    SelectSeq(Images(Trim, Lines(ModelFile)),
              LAMBDA line : line # << >> /\ Head(line) # 35)

Tags == 0 .. 3

(* What op says of each tag.                                               *)
ByTag(op(_)) == (0 :> op(0)) @@ (1 :> op(1)) @@ (2 :> op(2)) @@ (3 :> op(3))

Row(line) == ByTag(LAMBDA y : Number(Fields(line)[y + 1]))

(* LoadEmitProb: the fields are a rune and its probability, and the last   *)
(* field of a rune counts.                                                 *)
EmitFields(line) ==
    Images(LAMBDA field : Split(field, {58}), Split(line, {44}))

EmitProb(line) ==
    LET rune(field) == Head(Unicode(DecodeRunes(field[1])))
        put(prob, field) == (rune(field) :> Number(field[2])) @@ prob
    IN  FoldLeft(put, << >>, EmitFields(line))

(* What the checks of LoadModel let pass.                                  *)
ASSUME ModelAssumption ==
    /\ Len(ModelLines) >= 9
    /\ \A n \in 1 .. 5 : Len(Fields(ModelLines[n])) = 4
    /\ \A n \in 6 .. 9 : \A i \in DOMAIN EmitFields(ModelLines[n]) :
          LET field == EmitFields(ModelLines[n])[i]
          IN  Len(field) = 2 /\ Len(DecodeRunes(field[1])) = 1

LoadModel ==
    [start |-> Row(ModelLines[1]),
     trans |-> ByTag(LAMBDA y : Row(ModelLines[y + 2])),
     emit |-> ByTag(LAMBDA y : EmitProb(ModelLines[y + 6]))]
-----------------------------------------------------------------------------
(* What a Jieba holds, a DictTrie and an HMMModel; the user's words are    *)
(* inserted last and so take the place of others.                          *)
LoadJieba(userUnits) ==
    [trie |-> CreateTrie(Dictionary \o userUnits),
     singles |-> {unit.word : unit \in ToSet(userUnits)},
     minWeight |-> MinWeight,
     model |-> LoadModel]

(* The segmenter of the program, and that of KeywordExtractor in a         *)
(* Simhasher, which has no words of the user.                              *)
LoadSegmenter == LoadJieba(UserDictionary)
LoadExtractor == LoadJieba(<< >>)
-----------------------------------------------------------------------------
(* KeywordExtractor::LoadIdfDict                                           *)

IdfLines == Images(Fields, Lines(IdfFile))
IdfDomain == {i \in DOMAIN IdfLines : Len(IdfLines[i]) = 2}
IdfWords == {IdfLines[i][1] : i \in IdfDomain}

Idf(word) ==
    Number(IdfLines[Max({i \in IdfDomain : IdfLines[i][1] = word})][2])

IdfSum == Sum([i \in DOMAIN IdfLines |->
                  IF i \in IdfDomain THEN Number(IdfLines[i][2]) ELSE 0])

(* The average is IdfSum / IdfCount: lines that are skipped count too.     *)
IdfCount == Len(IdfLines)

ASSUME IdfAssumption == IdfCount > 0 /\ IdfSum > 0
-----------------------------------------------------------------------------
(* Stop words                                                              *)

(* Configuration: words between white space.                               *)
StopWordList == ToSet(Pieces(StopWordFile))

(* KeywordExtractor::LoadStopWordDict: whole lines.  In a file of lines    *)
(* that end with a carriage return every word has one.                     *)
ExtractorStopWords == ToSet(Lines(StopWordFile))
=============================================================================
