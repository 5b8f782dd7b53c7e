------------------------------- MODULE Keywords -------------------------------
(***************************************************************************)
(* The fingerprint of a text: KeywordExtractor of lib/cppjieba finds its   *)
(* heaviest words, and Simhasher of lib/simhash adds up their hashes, bit  *)
(* by bit.                                                                 *)
(***************************************************************************)
EXTENDS Segmentation, Jenkins

CONSTANT TopN  \* of WebPage::buildU64: 5
-----------------------------------------------------------------------------
(* Extract: the words that count, and how often each of them occurs.       *)
Counts(word) == ~IsSingleWord(word) /\ word \notin ExtractorStopWords

(* The weights of some words, all multiplied by IdfCount.                  *)
Weight(word) == IF word \in IdfWords THEN Idf(word) * IdfCount ELSE IdfSum
WeightsOf(counted) ==
    [word \in ToSet(counted) |->
        Cardinality({i \in DOMAIN counted : counted[i] = word}) * Weight(word)]

(* partial_sort leaves open which words of one weight are the last of the  *)
(* first topN.                                                             *)
Heaviest(weights, topN) ==
    LET words == DOMAIN weights
        chosen(top) == \A v \in top, w \in words \ top : weights[v] >= weights[w]
        n == Min({topN, Cardinality(words)})
    IN  {[w \in top |-> weights[w]] : top \in {t \in kSubset(n, words) : chosen(t)}}

(* Words that are not all of the text are illegal, and no keywords are     *)
(* found.                                                                  *)
KeywordsOf(text, topN, words) ==
    IF FlattenSeq(words) # text THEN {<< >>}
    ELSE Heaviest(WeightsOf(SelectSeq(words, Counts)), topN)
Extract(text, topN) == KeywordsOf(text, topN, Cut(Extractor, text, TRUE))
-----------------------------------------------------------------------------
(* Simhasher::make: a keyword adds its weight to the bits that its hash    *)
(* has, and takes it from the others; those above 0 are the fingerprint.   *)
Total(keywords, some) == MapThenSumSet(LAMBDA h : keywords[h.word], some)
Hashed(keywords, reads) ==
    {[word |-> word, hash |-> Hash(word, reads)] : word \in DOMAIN keywords}
BitsOf(keywords, hashed) ==
    {j \in 0 .. 63 : Total(keywords, {h \in hashed : j \in h.hash}) >
                         Total(keywords, {h \in hashed : j \notin h.hash})}
Make(keywords, reads) == BitsOf(keywords, Hashed(keywords, reads))
=============================================================================
