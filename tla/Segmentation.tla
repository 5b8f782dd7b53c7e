---------------------------- MODULE Segmentation ----------------------------
(***************************************************************************)
(* The segmenters of lib/cppjieba, which cut a text into words: by the     *)
(* weights of a dictionary (MPSegment), by a hidden Markov model           *)
(* (HMMSegment), by both (MixSegment, which the tool and the server use),  *)
(* and in the two ways that list overlapping words (FullSegment,           *)
(* QuerySegment).                                                          *)
(***************************************************************************)
EXTENDS Dictionaries

CONSTANTS Segmenter,     \* the Jieba of WordSegmentation
          Extractor,     \* what KeywordExtractor has of one
          MaxWordLength  \* MAX_WORD_LENGTH: 512

ASSUME WordLengthAssumption == MaxWordLength \in Nat \ {0}

(* They are what the constructors load from the files.                     *)
ASSUME LoadAssumption == Segmenter = LoadSegmenter /\ Extractor = LoadExtractor

(* A dictionary whose trie has each unit at its word, and no word that is  *)
(* longer than the segmenters look.                                        *)
IsUnitOf(unit, word) ==
    unit.word = word /\ unit.weight \in Int /\ Len(word) <= MaxWordLength
SoundDict(dict) ==
    /\ dict.minWeight \in Int
    /\ \A word \in DOMAIN dict.trie :
          dict.trie[word] # NoUnit => IsUnitOf(dict.trie[word], word)

(* A model of probabilities, of which it has the logarithms.               *)
Likelihood == {x \in Int : x <= 0}
SoundModel(model) ==
    /\ model.start \in [Tags -> Likelihood]
    /\ model.trans \in [Tags -> [Tags -> Likelihood]]
    /\ \A tag \in Tags : \A rune \in DOMAIN model.emit[tag] :
          model.emit[tag][rune] \in Likelihood

(* A word that is longer would never be found, and a probability is at     *)
(* most 1.                                                                 *)
ASSUME SoundAssumption == SoundDict(Segmenter) /\ SoundModel(Segmenter.model)
-----------------------------------------------------------------------------
(* PreFilter: the text between separators, and each separator by itself.   *)

Separators == {32, 9, 10, 65292, 12290}

Filtered(runes) ==
    LET separates(i) == runes[i].rune \in Separators
        from[i \in 1 .. Len(runes) + 1] ==
            IF i > Len(runes) THEN << >>
            ELSE LET next == Min({j \in i .. Len(runes) + 1 :
                                      j > Len(runes) \/ separates(j)})
                     end == IF next = i THEN i ELSE next - 1
                 IN  <<SubSeq(runes, i, end)>> \o from[end + 1]
    IN  from[1]
-----------------------------------------------------------------------------
(* Trie and DictTrie                                                       *)

IsUserDictSingleChineseWord(dict, rune) == <<rune>> \in dict.singles

(* DictTrie::Find of one word.                                             *)
Find(dict, word) == IF word \in DOMAIN dict.trie THEN dict.trie[word] ELSE NoUnit

(* Trie::Find: the nexts of a Dag, the end and the unit of each word that  *)
(* begins at i; first the rune alone, with or without a unit.              *)
Nexts(dict, text, i, maxWordLen) ==
    LET longest == Min({maxWordLen, Len(text) - i + 1})
        edge(n) == [end |-> i + n - 1, unit |-> Find(dict, SubSeq(text, i, i + n - 1))]
        nexts[n \in 0 .. longest] ==
            IF n = 0 THEN << >>
            ELSE IF n = 1 \/ edge(n).unit # NoUnit THEN Append(nexts[n - 1], edge(n))
            ELSE nexts[n - 1]
    IN  nexts[longest]
-----------------------------------------------------------------------------
(* MPSegment: the cut of the greatest weight.                              *)

WeightOf(dict, unit) == IF unit = NoUnit THEN dict.minWeight ELSE unit.weight

(* A later one takes the place of the heaviest only if it is heavier.      *)
FirstHeaviest(list) ==
    LET isFirst(n) ==
            \A k \in DOMAIN list :
                /\ list[k].weight <= list[n].weight
                /\ k < n => list[k].weight < list[n].weight
    IN  list[CHOOSE n \in DOMAIN list : isFirst(n)]

(* CalcDP goes from the last rune to the first; found are the best words   *)
(* of the places after this one, the last place first.                     *)
CalcDP(dict, text, maxWordLen) ==
    LET size == Len(text)
        after(found, end) == IF end < size THEN found[size - end].weight ELSE 0
        best(found, i) ==
            LET nexts == Nexts(dict, text, i, maxWordLen)
                total(e) == [unit |-> e.unit,
                             weight |-> after(found, e.end) + WeightOf(dict, e.unit)]
            IN  FirstHeaviest(<<[unit |-> NoUnit, weight |-> MinDouble]>>
                                  \o [n \in DOMAIN nexts |-> total(nexts[n])])
        dags[n \in 0 .. size] ==
            IF n = 0 THEN << >>
            ELSE LET found == dags[n - 1] IN Append(found, best(found, size + 1 - n))
    IN  Reverse(dags[size])

(* CutByDag takes the best word of each place; without a unit, one rune.   *)
CutByDag(runes, dags) ==
    LET end(i) == IF dags[i].unit = NoUnit THEN i ELSE i + Len(dags[i].unit.word) - 1
        from[i \in 1 .. Len(runes) + 1] ==
            IF i > Len(runes) THEN << >>
            ELSE <<SubSeq(runes, i, end(i))>> \o from[end(i) + 1]
    IN  from[1]

MPCut(dict, runes, maxWordLen) ==
    CutByDag(runes, CalcDP(dict, Unicode(runes), maxWordLen))
-----------------------------------------------------------------------------
(* HMMSegment: the likeliest tags of the runes.                            *)

B == 0
E == 1
M == 2
S == 3
EndsWord(tag) == tag % 2 = 1

(* Beside MIN_DOUBLE, and its multiples, other terms vanish.               *)
Impossible(x) == x <= MinDouble
Plus(x, y) ==
    IF Impossible(x) \/ Impossible(y)
    THEN (IF Impossible(x) THEN x ELSE 0) + (IF Impossible(y) THEN y ELSE 0)
    ELSE x + y

GetEmitProb(model, tag, rune) ==
    IF rune \in DOMAIN model.emit[tag] THEN model.emit[tag][rune] ELSE MinDouble

(* One column of Viterbi after another: weights, and where they are from.  *)
FirstColumn(model, rune) ==
    [y \in Tags |-> [weight |-> Plus(model.start[y], GetEmitProb(model, y, rune)),
                     path |-> -1]]

NextColumn(model, column, rune) ==
    LET through(pre, y) ==
            [weight |-> Plus(Plus(column[pre].weight, model.trans[pre][y]),
                             GetEmitProb(model, y, rune)),
             path |-> pre]
    IN  [y \in Tags |-> FirstHeaviest(<<[weight |-> MinDouble, path |-> E]>>
                             \o [n \in 1 .. 4 |-> through(n - 1, y)])]

Columns(model, text) ==
    LET next(columns, x) ==
            IF x = 1 THEN FirstColumn(model, text[x])
            ELSE NextColumn(model, Last(columns), text[x])
        columns[x \in 0 .. Len(text)] ==
            IF x = 0 THEN << >>
            ELSE LET before == columns[x - 1] IN Append(before, next(before, x))
    IN  columns[Len(text)]

(* Mutant: the way back is taken from the column after.                    *)
BackOneLate(columns, tag, x) == columns[IF x < Len(columns) THEN x + 1 ELSE x][tag].path

(* The tag of the rune before the one at x, which has this one.            *)
Back(columns, tag, x) == columns[x][tag].path

(* The way back from the last column, where a word ends.                   *)
WayBack(columns) ==
    LET n == Len(columns)
        last == IF columns[n][E].weight >= columns[n][S].weight THEN E ELSE S
        status[x \in 1 .. n] ==
            IF x = n THEN last ELSE Back(columns, status[x + 1], x + 1)
    IN  [x \in 1 .. n |-> status[x]]

Viterbi(model, text) == WayBack(Columns(model, text))

(* A word ends at each of some places, and begins at the next.             *)
CutAfter(runes, ends) ==
    LET cut[x \in 0 .. Len(runes)] ==
            IF x = 0 THEN [left |-> 1, words |-> << >>]
            ELSE LET before == cut[x - 1]
                 IN  IF x \notin ends THEN before
                     ELSE [left |-> x + 1,
                           words |-> Append(before.words, SubSeq(runes, before.left, x))]
    IN  cut[Len(runes)].words

CutByTags(runes, tags) == CutAfter(runes, {x \in DOMAIN tags : EndsWord(tags[x])})

InternalCut(model, runes) == CutByTags(runes, Viterbi(model, Unicode(runes)))

(* SequentialLetterRule and NumbersRule: the end of the word at i.         *)
RuleEnd(runes, i) ==
    LET rune(j) == runes[j].rune
        goesOn(k) == \/ IsLetter(rune(i)) /\ (IsLetter(rune(k)) \/ IsDigit(rune(k)))
                     \/ IsDigit(rune(i)) /\ (IsDigit(rune(k)) \/ rune(k) = 46)
    IN  Max({j \in i .. Len(runes) : \A k \in i + 1 .. j : goesOn(k)})

HMMCut(model, runes) ==
    LET ascii(j) == runes[j].rune < 128
        from[i \in 1 .. Len(runes) + 1] ==
            IF i > Len(runes) THEN << >>
            ELSE IF ascii(i)
            THEN LET end == RuleEnd(runes, i)
                 IN  <<SubSeq(runes, i, end)>> \o from[end + 1]
            ELSE LET end == Max({j \in i .. Len(runes) : \A k \in i .. j : ~ascii(k)})
                 IN  InternalCut(model, SubSeq(runes, i, end)) \o from[end + 1]
    IN  from[1]
-----------------------------------------------------------------------------
(* MixSegment: what MPSegment leaves as single runes, HMMSegment cuts.     *)

(* A single rune that the user's dictionary does not have.                 *)
Loose(dict, word) == Len(word) = 1 /\ ~IsUserDictSingleChineseWord(dict, word[1].rune)

Mix(dict, words) ==
    LET from[i \in 1 .. Len(words) + 1] ==
            IF i > Len(words) THEN << >>
            ELSE IF ~Loose(dict, words[i]) THEN <<words[i]>> \o from[i + 1]
            ELSE LET end == Max({j \in i .. Len(words) :
                                    \A k \in i .. j : Loose(dict, words[k])})
                 IN  HMMCut(dict.model, FlattenSeq(SubSeq(words, i, end))) \o from[end + 1]
    IN  from[1]

MixCut(dict, runes, hmm) ==
    IF hmm THEN Mix(dict, MPCut(dict, runes, MaxWordLength))
    ELSE MPCut(dict, runes, MaxWordLength)
-----------------------------------------------------------------------------
(* FullSegment and QuerySegment                                            *)

(* FullSegment lists the words of the dictionary, and a rune of its own    *)
(* where no word reached.  The length of the last word found is still used *)
(* at a rune that has none.                                                *)
FullCut(dict, runes) ==
    LET nexts(i) == Nexts(dict, Unicode(runes), i, MaxWordLength)
        visit(acc, i, e) ==
            LET len == IF e.unit = NoUnit THEN acc.len ELSE Len(e.unit.word)
                listed == \/ e.unit # NoUnit /\ len >= 2
                          \/ Len(nexts(i)) = 1 /\ acc.max <= i - 1
            IN  [res |-> IF listed THEN Append(acc.res, SubSeq(runes, i, e.end))
                         ELSE acc.res,
                 len |-> len,
                 max |-> IF i - 1 + len > acc.max THEN i - 1 + len ELSE acc.max]
        allOf(acc, i) ==
            LET visited[n \in 0 .. Len(nexts(i))] ==
                    IF n = 0 THEN acc ELSE visit(visited[n - 1], i, nexts(i)[n])
            IN  visited[Len(nexts(i))]
        full[i \in 0 .. Len(runes)] ==
            IF i = 0 THEN [res |-> << >>, len |-> 0, max |-> 0]
            ELSE allOf(full[i - 1], i)
    IN  full[Len(runes)].res

(* QuerySegment lists the words of the dictionary inside a long word, of   *)
(* two runes and then of three, before the word itself.                    *)
Parts(dict, word, n) ==
    LET parts[i \in 0 .. Len(word) - n + 1] ==
            IF i = 0 THEN << >>
            ELSE LET part == SubSeq(word, i, i + n - 1)
                 IN  IF Find(dict, Unicode(part)) = NoUnit THEN parts[i - 1]
                     ELSE Append(parts[i - 1], part)
    IN  IF Len(word) > n THEN parts[Len(word) - n + 1] ELSE << >>

QueryCut(dict, runes, hmm) ==
    LET listed(word) == Parts(dict, word, 2) \o Parts(dict, word, 3) \o <<word>>
        words == MixCut(dict, runes, hmm)
    IN  FlattenSeq([k \in DOMAIN words |-> listed(words[k])])
-----------------------------------------------------------------------------
(* Jieba: each range of the filter is cut, and the words are strings.      *)

Strings(words) == [i \in DOMAIN words |-> StringOf(words[i])]

Ranges(sentence) == Filtered(DecodeRunes(sentence))

CutRanges(cut(_), sentence) == Strings(FlattenSeq(Images(cut, Ranges(sentence))))

CutSmall(dict, sentence, maxWordLen) ==
    CutRanges(LAMBDA runes : MPCut(dict, runes, maxWordLen), sentence)
CutHMM(model, sentence) == CutRanges(LAMBDA runes : HMMCut(model, runes), sentence)
Cut(dict, sentence, hmm) == CutRanges(LAMBDA runes : MixCut(dict, runes, hmm), sentence)
CutAll(dict, sentence) == CutRanges(LAMBDA runes : FullCut(dict, runes), sentence)
CutForSearch(dict, sentence, hmm) ==
    CutRanges(LAMBDA runes : QueryCut(dict, runes, hmm), sentence)
-----------------------------------------------------------------------------
(* What the cuts promise, for the runes of one range.                      *)

(* A text that is divided after some places, and at its end.               *)
Divided(runes, places) == CutAfter(runes, places \cup {Len(runes)})

IsWord(dict, part) == Len(part) = 1 \/ Find(dict, Unicode(part)) # NoUnit
WeightOfAll(dict, parts) ==
    LET sum[n \in 0 .. Len(parts)] ==
            IF n = 0 THEN 0
            ELSE sum[n - 1] + WeightOf(dict, Find(dict, Unicode(parts[n])))
    IN  sum[Len(parts)]

(* No division into words of the dictionary weighs more than the one that  *)
(* MPSegment finds by looking at one word at a time, from the last.        *)
IsHeaviest(dict, runes, words) ==
    /\ FlattenSeq(words) = runes
    /\ \A places \in SUBSET (1 .. Len(runes) - 1) :
          (\A part \in ToSet(Divided(runes, places)) : IsWord(dict, part)) =>
              WeightOfAll(dict, Divided(runes, places)) <= WeightOfAll(dict, words)
HeaviestCut(dict, runes) == IsHeaviest(dict, runes, MPCut(dict, runes, MaxWordLength))

(* What a sequence of tags weighs, all its transitions and emissions.      *)
WeightOfTags(model, text, tags) ==
    LET emit(x) == GetEmitProb(model, tags[x], text[x])
        sum[x \in 1 .. Len(text)] ==
            IF x = 1 THEN Plus(model.start[tags[x]], emit(x))
            ELSE Plus(sum[x - 1], Plus(model.trans[tags[x - 1]][tags[x]], emit(x)))
    IN  sum[Len(text)]

(* Of the sequences of tags that the model allows and that end a word, the *)
(* path that Viterbi walks back is the likeliest.                          *)
LikeliestTags(model, text) ==
    LET beats(tags, most) ==
            /\ EndsWord(tags[Len(text)])
            /\ ~Impossible(WeightOfTags(model, text, tags))
            /\ WeightOfTags(model, text, tags) > most
        unbeaten(most) == \A tags \in [1 .. Len(text) -> Tags] : ~beats(tags, most)
    IN  unbeaten(WeightOfTags(model, text, Viterbi(model, text)))

(* Nothing is lost where single runes go to the other segmenter and back.  *)
CutIsWhole(dict, runes) == FlattenSeq(MixCut(dict, runes, TRUE)) = runes

(* The two cuts that overlap list every word they are meant to find.       *)
Lists(dict, runes, words) ==
    \A i, j \in DOMAIN runes :
        LET part == SubSeq(runes, i, j)
        IN  i < j /\ Find(dict, Unicode(part)) # NoUnit => part \in ToSet(words)

ListsAll(dict, runes) ==
    /\ Lists(dict, runes, FullCut(dict, runes))
    /\ ToSet(MixCut(dict, runes, TRUE)) \subseteq ToSet(QueryCut(dict, runes, TRUE))

(* All of this, of every range of a sentence.                              *)
BestSegmentation(dict, sentence) ==
    \A runes \in ToSet(Ranges(sentence)) :
        /\ HeaviestCut(dict, runes) /\ CutIsWhole(dict, runes) /\ ListsAll(dict, runes)
        /\ LikeliestTags(dict.model, Unicode(runes))

(* The impossible is out of reach: so many single runes together weigh     *)
(* more, whatever the dictionary says of each.                             *)
IsLeast(dict, least, size) ==
    /\ MinDouble < least * size /\ least <= dict.minWeight
    /\ \A word \in DOMAIN dict.trie :
          Len(word) = 1 /\ dict.trie[word] # NoUnit => least <= dict.trie[word].weight
RunesAreLight(dict, size) == \E least \in MinDouble .. 0 : IsLeast(dict, least, size)
=============================================================================
