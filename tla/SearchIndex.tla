----------------------------- MODULE SearchIndex -----------------------------
(***************************************************************************)
(* From pages to answers: offline/PageLibPreprocessor.cc and WebPage.cc,   *)
(* which remove redundant pages, number the others, weigh their words and  *)
(* store all that in files; and process/WordQuery.cc, which loads the      *)
(* files and intersects the lists of the words of a query.                 *)
(*                                                                         *)
(* A page has a title, a URL, a content, the set of its words, and its     *)
(* simhash: the positions of the bits that are 1.  How often a page has a  *)
(* word, and what a weight is, matters only where a weight is 0 or no      *)
(* number.  Pages are numbered from 1.                                     *)
(***************************************************************************)
EXTENDS Utf8, FiniteSetsExt

CONSTANTS Near,           \* the default n of Simhasher::isEqual: 3
          MaxAnswers,     \* pages that createJson appends: 51
          BlockSize       \* bytes that summary() reads at once: 150

ASSUME NearAssumption == Near \in Nat
ASSUME AnswersAssumption == MaxAnswers \in Nat \ {0}
ASSUME BlockAssumption == BlockSize \in Nat \ {0}

VARIABLES phase,          \* the function that is done: of the tool, then the server
          extracted,      \* history: _pageLib as buildWeblib left it
          pageLib,        \* PageLibPreprocessor::_pageLib
          index,          \* its _invertIndexTable
          disk,           \* the files of pages, of offsets and of the index
          library, table, \* WordQuery::_pageLib, _invertIndexTable
          query, answer   \* the words of the last call of doQuery, and its entries

offline == <<extracted, pageLib, index, disk>>
loaded == <<library, table>>
indexVars == <<phase, offline, loaded, query, answer>>

(* A page of buildWeblib, when it has its simhash.  Copies have the same.  *)
Texts == Seq(0 .. 255)
Pages == [title : Texts, url : Texts, content : Texts,
          words : SUBSET Texts, u64 : SUBSET (0 .. 63)]
Extracted(given) ==
    /\ given \in Seq(Pages)
    /\ \A c, d \in DOMAIN given :
          given[c].content = given[d].content => given[c].u64 = given[d].u64

IndexInit(given) ==
    /\ extracted = given /\ pageLib = given
    /\ index = << >>
    /\ disk = [pages |-> << >>, offsets |-> << >>, lines |-> << >>]
    /\ library = << >> /\ table = << >>
    /\ query = {} /\ answer = << >>
-----------------------------------------------------------------------------
(* cutRedundantPages                                                       *)

Differing(p, r) == (p.u64 \ r.u64) \cup (r.u64 \ p.u64)
IsEqual(p, r) == Cardinality(Differing(p, r)) <= Near

(* The highest bit in which they differ is one of r.                       *)
IsLess(p, r) == p.u64 # r.u64 /\ Max(Differing(p, r)) \in r.u64

(* sort() leaves pages of one simhash in any order.                        *)
Sorted(pages) ==
    {[i \in DOMAIN pages |-> pages[order[i]]] :
        order \in {s \in SetToSeqs(DOMAIN pages) :
            \A i, j \in DOMAIN pages : i < j => ~IsLess(pages[s[j]], pages[s[i]])}}

(* Mutant: a page is compared with the one before it, kept or not.         *)
UniqueByNeighbour(pages) ==
    LET kept == {i \in DOMAIN pages : i = 1 \/ ~IsEqual(pages[i - 1], pages[i])}
        numbers == SetToSortSeq(kept, <)
    IN  [n \in DOMAIN numbers |-> pages[numbers[n]]]

(* unique() compares a page with the last one that was kept; kept[n] are   *)
(* those of the first n.                                                   *)
Unique(pages) ==
    LET redundant(before, p) == before # << >> /\ IsEqual(Last(before), p)
        kept[n \in 0 .. Len(pages)] ==
            IF n = 0 THEN << >>
            ELSE IF redundant(kept[n - 1], pages[n]) THEN kept[n - 1]
            ELSE Append(kept[n - 1], pages[n])
    IN  kept[Len(pages)]

CutRedundantPages ==
    /\ phase = "buildWeblib"
    /\ phase' = "cutRedundantPages"
    /\ \E pages \in Sorted(pageLib) : pageLib' = Unique(pages)
    /\ UNCHANGED <<extracted, index, disk, loaded, query, answer>>
-----------------------------------------------------------------------------
(* buildInvertIndexTable                                                   *)

PagesWith(pages, w) == {d \in DOMAIN pages : w \in pages[d].words}

(* log(sum / (df + 1)) is 0: compute() gives the word no weight.           *)
Weightless(pages, w) == Cardinality(PagesWith(pages, w)) + 1 = Len(pages)

(* All words of the page are so, and compute() divides 0 by 0.             *)
NotANumber(pages, d) == \A w \in pages[d].words : Weightless(pages, w)

WordsOf(pages) == UNION {p.words : p \in ToSet(pages)}

IndexOf(pages) ==
    [w \in WordsOf(pages) |-> {[doc |-> d, nan |-> NotANumber(pages, d)] :
                                  d \in PagesWith(pages, w)}]

BuildInvertIndexTable ==
    /\ phase = "cutRedundantPages"
    /\ phase' = "buildInvertIndexTable"
    /\ index' = IndexOf(pageLib)
    /\ UNCHANGED <<extracted, pageLib, disk, loaded, query, answer>>
-----------------------------------------------------------------------------
(* The file of pages.                                                      *)

(* <doc>, <docid>, <url>, <title> and <content>                            *)
Marks == [doc |-> <<60, 100, 111, 99, 62>>,
          docid |-> <<60, 100, 111, 99, 105, 100, 62>>,
          url |-> <<60, 117, 114, 108, 62>>,
          title |-> <<60, 116, 105, 116, 108, 101, 62>>,
          content |-> <<60, 99, 111, 110, 116, 101, 110, 116, 62>>]

Decimal(n) ==
    LET digits[k \in 0 .. n] ==
            (IF k < 10 THEN << >> ELSE digits[k \div 10]) \o <<48 + (k % 10)>>
    IN  digits[n]

(* getDoct: the end of a field is marked like its beginning.               *)
Doct(page, d) ==
    Marks.doc \o <<LF, 9>> \o Marks.docid \o Decimal(d - 1) \o Marks.docid
        \o <<LF, 9>> \o Marks.url \o page.url \o Marks.url
        \o <<LF, 9>> \o Marks.title \o page.title \o Marks.title
        \o <<LF, 9>> \o Marks.content \o page.content \o Marks.content
        \o <<LF>> \o Marks.doc \o <<LF>>

Occurs(part, text) ==
    \E p \in 1 .. Len(text) - Len(part) + 1 :
        SubSeq(text, p, p + Len(part) - 1) = part

(* text.find(mark, from)                                                   *)
FindMark(text, mark, from) ==
    Min({p \in from .. Len(text) - Len(mark) + 1 :
            SubSeq(text, p, p + Len(mark) - 1) = mark})

(* What loadLibrary takes for a field: from the first mark to the next.    *)
FieldOf(text, name) ==
    LET mark == Marks[name]
        beg == FindMark(text, mark, 1) + Len(mark)
        end == FindMark(text, mark, beg)
    IN  SubSeq(text, beg, end - 1)
-----------------------------------------------------------------------------
(* The file of pages and that of their offsets; written[d] are the first d *)
(* of them, one after the other.                                           *)
FilesOf(given) ==
    LET written[d \in 0 .. Len(given)] ==
            IF d = 0 THEN << >> ELSE written[d - 1] \o Doct(given[d], d)
    IN  [pages |-> written[Len(given)],
         offsets |-> [d \in DOMAIN given |->
                         <<Len(written[d - 1]), Len(Doct(given[d], d))>>]]

(* The line of a word lists its pages by number.                           *)
LineOf(docs) ==
    CHOOSE line \in SetToSeqs(docs) :
        \A i, j \in DOMAIN line : i < j => line[i].doc < line[j].doc

StoreOnDisk ==
    /\ phase = "buildInvertIndexTable"
    /\ phase' = "storeOnDisk"
    /\ LET files == FilesOf(pageLib)
       IN  disk' = [pages |-> files.pages, offsets |-> files.offsets,
                    lines |-> [w \in DOMAIN index |-> LineOf(index[w])]]
    /\ UNCHANGED <<extracted, pageLib, index, loaded, query, answer>>

(* while(ss >> docId >> w) ends at a weight that is no number.             *)
ReadLine(line) == {line[i].doc : i \in {k \in DOMAIN line :
                                          \A j \in 1 .. k : ~line[j].nan}}

(* What stands in the buffer after the text of a page is never reached:    *)
(* the marks of the page come first.                                       *)
ReadPage(offset) ==
    LET text == SubSeq(disk.pages, offset[1] + 1, offset[1] + offset[2])
    IN  [title |-> FieldOf(text, "title"), url |-> FieldOf(text, "url"),
         content |-> FieldOf(text, "content")]

(* loadLibrary, when the server starts.  A word is put into the table with *)
(* its first page.                                                         *)
LoadLibrary ==
    /\ phase = "storeOnDisk"
    /\ phase' = "loadLibrary"
    /\ library' = [d \in DOMAIN disk.offsets |-> ReadPage(disk.offsets[d])]
    /\ table' = [w \in {v \in DOMAIN disk.lines : ReadLine(disk.lines[v]) # {}} |->
                    ReadLine(disk.lines[w])]
    /\ UNCHANGED <<offline, query, answer>>
-----------------------------------------------------------------------------
(* doQuery                                                                 *)

(* Mutant: set_union() in place of set_intersection().                     *)
GetDocsOfAny(q) == {d \in DOMAIN library : \E w \in q : d \in table[w]}

(* The pages that have every word.                                         *)
GetDocs(q) == {d \in DOMAIN library : \A w \in q : d \in table[w]}

(* stable_sort by similarity, which is left open, and as many of them as   *)
(* createJson takes.                                                       *)
Ranked(docs) ==
    {SubSeq(s, 1, Min({Len(s), MaxAnswers})) : s \in SetToSeqs(docs)}

(* OnWebPage::summary: what follows the first line, in blocks, those that  *)
(* have a word; the last bytes, which are no whole block, are never looked *)
(* at.                                                                     *)
Summary(content, q) ==
    LET first == Min({p \in 1 .. Len(content) + 1 :
                         p > Len(content) \/ content[p] = LF})
        rest == SubSeq(content, first + 1, Len(content))
        block(n) == SubSeq(rest, (n - 1) * BlockSize + 1, n * BlockSize)
        has(text) == \E w \in q : Occurs(w, text)
        taken[n \in 0 .. Len(rest) \div BlockSize] ==
            IF n = 0 THEN << >>
            ELSE IF has(block(n)) THEN Append(taken[n - 1], block(n)) ELSE taken[n - 1]
    IN  taken[Len(rest) \div BlockSize]

CreateJson(docs, q) ==
    LET entry(d) == [doc |-> d, title |-> library[d].title, url |-> library[d].url,
                     summary |-> Summary(library[d].content, q)]
    IN  [i \in DOMAIN docs |-> entry(docs[i])]

(* The entry "404, not found" is no entry here.                            *)
ReturnNoAnswer == << >>

(* The first call of a query with these words; the cache of the others is  *)
(* MyCache.  No page answers to a word that the table does not have.       *)
DoQuery(q) ==
    /\ phase = "loadLibrary"
    /\ q # {}
    /\ query' = q
    /\ \E docs \in IF q \subseteq DOMAIN table THEN Ranked(GetDocs(q)) ELSE {<< >>} :
          answer' = IF docs = << >> THEN ReturnNoAnswer ELSE CreateJson(docs, q)
    /\ UNCHANGED <<phase, offline, loaded>>

(* Without a word getDocs dereferences the first of no words.              *)
DoQueryWithoutWords ==
    /\ phase = "loadLibrary"
    /\ phase' = "crashed"
    /\ UNCHANGED <<offline, loaded, query, answer>>

IndexStep == CutRedundantPages \/ BuildInvertIndexTable \/ StoreOnDisk \/ LoadLibrary

(* Both programs, from some pages on, when queries of some words are asked.*)
IndexNext(asked) ==
    IndexStep \/ (\E q \in asked : DoQuery(q)) \/ DoQueryWithoutWords

IndexSpec(given, asked) ==
    /\ phase = "buildWeblib" /\ IndexInit(given)
    /\ [][IndexNext(asked)]_indexVars
-----------------------------------------------------------------------------
(* Removing redundant pages removes every copy of a page, and loses        *)
(* nothing: whatever the order in which the pages came, one that was       *)
(* removed is close to one that is left.                                   *)
RedundancyRemoved ==
    phase \notin {"none", "buildWeblib"} =>
        /\ \A p \in ToSet(extracted) : \E r \in ToSet(pageLib) : IsEqual(p, r)
        /\ \A d, e \in DOMAIN pageLib :
              d # e => pageLib[d].content # pageLib[e].content

(* A text that the marks of the file of pages would tear apart.            *)
HasMark(text) ==
    \E name \in {"url", "title", "content"} : Occurs(Marks[name], text)

(* An entry is about the page it is of: it has every word of the query,    *)
(* with the title and the address it had in the feed, and what is quoted   *)
(* of it can be found there.                                               *)
IsAbout(entry, q) ==
    LET page == pageLib[entry.doc]
    IN  /\ q \subseteq page.words
        /\ ~HasMark(page.url \o page.title \o page.content) =>
              /\ entry.title = page.title /\ entry.url = page.url
              /\ \A i \in DOMAIN entry.summary : Occurs(entry.summary[i], page.content)

(* After two programs and their files a query still returns entries about  *)
(* pages that have all its words, none twice, and leaves no page out,      *)
(* except for a full answer and for a weight that cannot be read back: it  *)
(* takes the rest of its line with it.                                     *)
AnswersAreExact ==
    query # {} =>
        LET docs == {answer[i].doc : i \in DOMAIN answer}
        IN  /\ Cardinality(docs) = Len(answer)
            /\ \A i \in DOMAIN answer : IsAbout(answer[i], query)
            /\ \A d \in DOMAIN pageLib :
                  query \subseteq pageLib[d].words =>
                      \/ d \in docs
                      \/ Len(answer) = MaxAnswers
                      \/ \E w \in query : \E e \in PagesWith(pageLib, w) :
                            e <= d /\ NotANumber(pageLib, e)

(* What the tool reports: all redundant pages are removed.                 *)
NoneRedundant ==
    phase = "cutRedundantPages" =>
        \A d, e \in DOMAIN pageLib : d # e => ~IsEqual(pageLib[d], pageLib[e])
=============================================================================
