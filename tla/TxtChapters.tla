---------------------------- MODULE TxtChapters -----------------------------
(***************************************************************************)
(* transoria/tools/txt_to_epub.py: a text is scanned for headings, the     *)
(* user edits the list of them, and the text is cut into the chapters of a *)
(* book, while the file may be edited elsewhere.  A line is                *)
(* [kind, word]: blank, text, or a heading that a rule of level 1 or 2     *)
(* finds; the list holds line numbers and nothing else of the text.        *)
(***************************************************************************)
EXTENDS Naturals, Sequences, SequencesExt, FiniteSets, Lists

CONSTANTS
    Texts,      \* the texts the file may hold
    Within,     \* pairs of words, the first a part of the second
    TocEdits    \* bound: edits of the list

VARIABLES
    txt,       \* lines of the file
    rewritten, \* the file was edited since (once)
    toc,       \* TxtToEpubTocEntry: Seq([line, level, on])
    tocEdits,  \* bound
    chapters,  \* _Chapter: Seq([head, level, body, on, headed])
    outcome    \* none, converted, failed
txtVars == <<txt, rewritten, toc, tocEdits, chapters, outcome>>

ASSUME TextsAssumption == \A text \in Texts : text \in Seq(ToSet(text))

TxtInit == txt \in Texts /\ rewritten = FALSE /\ toc = <<>> /\ tocEdits = 0 /\ chapters = <<>> /\ outcome = "none"

Entry(line, level) == [line |-> line, level |-> level, on |-> TRUE]
InToc(line)        == \E k \in DOMAIN toc : toc[k].line = line
Blank(line)        == txt[line].kind = "blank"
WithText           == {line \in DOMAIN txt : ~Blank(line)}

-----------------------------------------------------------------------------
(* The list of headings *)

\* _match_line with the rules of a preset: the level of the first that matches, 0 for none
LevelOf(line, rules) ==
    CASE txt[line].kind = "h1" /\ 1 \in rules -> 1
      [] txt[line].kind = "h2" /\ 2 \in rules -> 2 [] OTHER -> 0
\* scan_txt_toc
ScanToc(rules) ==
    /\ outcome = "none" /\ tocEdits < TocEdits
    /\ LET found == InOrder({n \in DOMAIN txt : LevelOf(n, rules) # 0}, Len(txt))
       IN toc' = [k \in DOMAIN found |-> Entry(found[k], LevelOf(found[k], rules))]
    /\ tocEdits' = tocEdits + 1 /\ UNCHANGED <<txt, rewritten, chapters, outcome>>

\* locate_txt_toc_entry: the first unused line that is the query, else the first that has it
Located(query) ==
    LET unused == {n \in WithText : ~InToc(n)}
        exact  == {n \in unused : txt[n].word = query}
        within == {n \in unused : <<query, txt[n].word>> \in Within}
    IN InOrder(exact, Len(txt)) \o InOrder(within, Len(txt))
LocateEntry(query, level) ==
    /\ outcome = "none" /\ tocEdits < TocEdits /\ Located(query) # <<>>
    /\ LET new == Entry(Located(query)[1], level)
       IN toc' = Picked(toc, {k \in DOMAIN toc : toc[k].line < new.line}) \o <<new>>
                 \o Picked(toc, {k \in DOMAIN toc : toc[k].line > new.line})
    /\ tocEdits' = tocEdits + 1 /\ UNCHANGED <<txt, rewritten, chapters, outcome>>
\* the page: an entry is switched off or on, moved to another level, removed
EditEntry(k) ==
    /\ outcome = "none" /\ tocEdits < TocEdits /\ tocEdits' = tocEdits + 1
    /\ \/ toc' = [toc EXCEPT ![k].on = ~@]
       \/ \E l \in 1..3 : toc' = [toc EXCEPT ![k].level = l]
       \/ toc' = RemoveAt(toc, k)
    /\ UNCHANGED <<txt, rewritten, chapters, outcome>>
\* the file is edited elsewhere: the list keeps its line numbers
TextChanges ==
    /\ ~rewritten /\ outcome = "none" /\ rewritten' = TRUE
    /\ \E other \in Texts : txt' = other
    /\ UNCHANGED <<toc, tocEdits, chapters, outcome>>

-----------------------------------------------------------------------------
(* The chapters *)

\* _validated_toc_entries
TocFits ==
    /\ \A k \in DOMAIN toc : toc[k].line <= Len(txt) /\ ~Blank(toc[k].line)
    /\ \A k \in 1..Len(toc) - 1 : toc[k].line < toc[k + 1].line

Chapter(head, level, first, last, on, headed) ==
    [head |-> head, level |-> level, body |-> InOrder((first..last) \ {head}, last),
     on |-> on, headed |-> headed]
\* _promote_first_text_line: without a list, the first line of text is the heading
OneChapter ==
    LET lines == InOrder(WithText, Len(txt))
    IN <<Chapter(IF lines = <<>> THEN 0 ELSE lines[1], 1, 1, Len(txt), TRUE, TRUE)>>
Cut == [k \in DOMAIN toc |->
           Chapter(toc[k].line, toc[k].level, toc[k].line,
                   IF k < Len(toc) THEN toc[k + 1].line - 1 ELSE Len(txt), toc[k].on, TRUE)]
\* what comes before the first heading is a chapter that no list shows
BeforeFirst ==
    LET body == Chapter(0, 1, 1, toc[1].line - 1, FALSE, FALSE)
    IN IF \E n \in ToSet(body.body) : ~Blank(n) THEN <<body>> ELSE <<>>
\* _build_chapters
BuildChapters == IF toc = <<>> THEN OneChapter ELSE BeforeFirst \o Cut

\* convert_txt_to_epub; writing and publishing may fail as well
ConvertText ==
    /\ outcome = "none"
    /\ \/ TocFits /\ chapters' = BuildChapters /\ outcome' = "converted"
       \/ outcome' = "failed" /\ UNCHANGED chapters
    /\ UNCHANGED <<txt, rewritten, toc, tocEdits>>

TxtNext ==
    \/ \E rules \in {{1}, {2}, {1, 2}} : ScanToc(rules)
    \/ \E line \in ToSet(txt), level \in 1..2 : LocateEntry(line.word, level)
    \/ \E k \in DOMAIN toc : EditEntry(k)
    \/ TextChanges \/ ConvertText

TxtSpec == TxtInit /\ [][TxtNext]_txtVars

\* _chapter_nav_tree: the chapters that are on, each under the last one of a lower level that
\* no later one has closed; popping leaves the lower levels, for they grow along the stack
Shown == InOrder({k \in DOMAIN chapters : chapters[k].on}, Len(chapters))
Place(state, k) ==
    LET open == Picked(state.open, {i \in DOMAIN state.open : chapters[state.open[i]].level < chapters[k].level})
    IN [open |-> Append(open, k),
        under |-> Append(state.under, <<k, IF open = <<>> THEN 0 ELSE Last(open)>>)]
NavState(n) ==
    LET state[i \in 0..Len(Shown)] ==
            IF i = 0 THEN [open |-> <<>>, under |-> <<>>] ELSE Place(state[i - 1], Shown[i])
    IN  state[n]
NavTree == NavState(Len(Shown)).under

-----------------------------------------------------------------------------
(* Properties *)

\* every line of text is in the book once, in its place: as a heading or in a body
Held(c) == (IF c.head = 0 THEN <<>> ELSE <<c.head>>) \o Picked(c.body, {i \in DOMAIN c.body : ~Blank(c.body[i])})
TextIsKept ==
    outcome = "converted" =>
        FlattenSeq([k \in DOMAIN chapters |-> Held(chapters[k])]) = InOrder(WithText, Len(txt))
\* a heading lies under the nearest one before it of a lower level, if none of its level or
\* lower lies between, and only what is on is shown
Above(k)   == {j \in ToSet(Shown) : j < k /\ chapters[j].level < chapters[k].level}
Nearest(k) == IF Above(k) = {} THEN 0 ELSE CHOOSE j \in Above(k) : \A o \in Above(k) : o <= j
TreeIsTrue ==
    outcome = "converted" => NavTree = [i \in DOMAIN Shown |-> <<Shown[i], Nearest(Shown[i])>>]
\* a list that follows the text it was made for is never refused
ListFits == ~rewritten => TocFits
\* The book made of a text holds all of it, once and in order, under the headings of the list
ChaptersHoldTheText == TextIsKept /\ TreeIsTrue /\ ListFits
=============================================================================
