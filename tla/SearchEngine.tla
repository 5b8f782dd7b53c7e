----------------------------- MODULE SearchEngine -----------------------------
(***************************************************************************)
(* The two programs from end to end: the pages that Weblib reads from a    *)
(* feed get their words and their fingerprints, SearchIndex makes files of *)
(* them, and the server answers the texts that clients send.               *)
(***************************************************************************)
EXTENDS Weblib, Keywords, SearchIndex

engineVars == <<printerVars, weblib, indexVars>>
-----------------------------------------------------------------------------
(* WebPage::buildU64, to which cutRedundantPages() sends every page first. *)
(* How the words of a page lie in memory, and which of equally heavy ones  *)
(* are its keywords, is open; but of one text they are always the same.    *)
OneOfEach(sets) ==
    {f \in [DOMAIN sets -> UNION Range(sets)] : \A e \in DOMAIN sets : f[e] \in sets[e]}

WithU64(page, u64) ==
    [title |-> page.title, url |-> page.url, content |-> page.content,
     words |-> DOMAIN WordsMap(page.content), u64 |-> u64]

U64s(keywords) == {Make(keywords, reads) : reads \in Reads}
Extracts == [text \in {page.content : page \in ToSet(pages)} |-> Extract(text, TopN)]

BuildU64 ==
    /\ tool = "built" /\ phase = "none"
    /\ phase' = "buildWeblib"
    /\ \E keywords \in OneOfEach(Extracts) :
       \E u64 \in OneOfEach([d \in DOMAIN pages |-> U64s(keywords[pages[d].content])]) :
          extracted' = [d \in DOMAIN pages |-> WithU64(pages[d], u64[d])]
    /\ pageLib' = extracted'
    /\ UNCHANGED <<printerVars, weblib, index, disk, loaded, query, answer>>
-----------------------------------------------------------------------------
(* WordSegmentation of the server counts the words of a query as a whole,  *)
(* up to its first null byte.                                              *)
QueryWords(text) == Counted(Cut(Segmenter, CString(text), TRUE))

Answer(words) == IF words = {} THEN DoQueryWithoutWords ELSE DoQuery(words)

(* doQuery of a text.  One without a byte has no answer at once.           *)
Ask(text) ==
    /\ phase = "loadLibrary" /\ text # << >>
    /\ Answer(DOMAIN QueryWords(text))
    /\ UNCHANGED <<printerVars, weblib>>

Engine == BuildU64 \/ (IndexStep /\ UNCHANGED <<printerVars, weblib>>)
=============================================================================
