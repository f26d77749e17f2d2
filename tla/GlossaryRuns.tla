---------------------------- MODULE GlossaryRuns ----------------------------
(***************************************************************************)
(* transoria/workflows/glossary: the terms of the books of a folder.  The  *)
(* books are cut into chunks, each chunk is a subtask of one task, and     *)
(* when the executor is through the terms of the completed ones are        *)
(* cleaned, counted in their book and written into the output folder.  A   *)
(* run may be stopped or die, and is continued over the same subtasks.     *)
(* Lines and terms are sequences of letters.                               *)
(***************************************************************************)
EXTENDS Integers, Sequences, SequencesExt, FiniteSets, FiniteSetsExt, Lists

CONSTANTS
    Folders,     \* [books, joins, min, refs]: the books as Seq([stem, chunks]), a chunk a sequence
                 \* of lines; merge_folder_glossary; minimum_frequency; reference examples
    Extracts,    \* what a model may find in a chunk: Seq([src, dst, info])
    Fold,        \* casefold of a term
    Srcs, Dsts, Infos, \* spellings of terms, translations and types in the order of their names
    Rejected,    \* types that reject a term
    StopMax, CrashMax, StartMax  \* bounds: stops, crashes, runs

VARIABLES
    shelf,      \* the request
    marks,      \* subtask of each chunk: [status, terms]; <<>> before they are seeded
    grand,      \* status of the record
    shelfAt,    \* where the run is: none, running, ended, book, combined, over
    bookNo,     \* the book whose artifacts are written
    groups,     \* records of the books so far: Seq([book, records]), a set each
    failedBooks, \* books without terms
    outFiles,   \* artifacts on disk: [base -> [xlsx, json, references]], a run and its records each
    issueFiles, \* decode issues on disk: base -> run
    told,       \* the last result: [run, outputs, issues], None before
    runNo, halts, deaths
glossaryVars == <<shelf, marks, grand, shelfAt, bookNo, groups, failedBooks, outFiles, issueFiles, told, runNo, halts, deaths>>

\* letters of terms are none of the marks that are put over them; a folder without text ends before
\* it is a run
Mask     == "-"
TermForm == [src : ToSet(Srcs) \cup {<<>>}, dst : ToSet(Dsts) \cup {<<>>}, info : ToSet(Infos) \cup {<<>>}]
BookForm == [stem : STRING, chunks : Seq(Seq(Seq(STRING)))]
ASSUME GlossaryAssumption ==
    /\ Folders \subseteq [books : Seq(BookForm) \ {<<>>}, joins : BOOLEAN, min : Nat, refs : Nat]
    /\ Srcs \in Seq(Seq(STRING \ {Mask})) /\ Dsts \in Seq(Seq(STRING)) /\ Infos \in Seq(Seq(STRING))
    /\ Extracts \subseteq Seq(TermForm) /\ ToSet(Srcs) \subseteq DOMAIN Fold

Kinds   == <<"xlsx", "json", "references">>
NotYet  == [run |-> 0, records |-> {}]
Joined  == "folder"
Bases   == {shelf.books[b].stem : b \in DOMAIN shelf.books} \cup {Joined}
\* build_glossary_chunks: the chunks of all books are numbered through
ChunkList   == FlattenSeq([b \in DOMAIN shelf.books |->
                   [k \in DOMAIN shelf.books[b].chunks |-> [book |-> b, lines |-> shelf.books[b].chunks[k]]]])
LinesOfBook(b) == FlattenSeq(shelf.books[b].chunks)
InStatus(status) == {c \in DOMAIN marks : marks[c].status = status}

GlossaryInit ==
    /\ shelf \in Folders
    /\ marks = <<>> /\ grand = "NONE" /\ shelfAt = "none" /\ bookNo = 0
    /\ groups = <<>> /\ failedBooks = {}
    /\ outFiles = [base \in Bases |-> [k \in ToSet(Kinds) |-> NotYet]]
    /\ issueFiles = [base \in Bases |-> 0]
    /\ told = [run |-> 0, outputs |-> {}, issues |-> {}]
    /\ runNo = 0 /\ halts = 0 /\ deaths = 0

-----------------------------------------------------------------------------
(* normalize_candidates: rejected and empty terms go, the others are grouped *)
(* by their folded source, and each group votes                              *)

PositionOf(value, order) == CHOOSE i \in DOMAIN order : order[i] = value
\* _vote: the most frequent one that is not empty, the first by name of those
Vote(values, order) ==
    LET Count(v) == Cardinality({i \in DOMAIN values : values[i] = v})
        given    == ToSet(values) \ {<<>>}
        most     == {v \in given : \A o \in given : Count(o) <= Count(v)}
    IN IF given = {} THEN <<>> ELSE CHOOSE v \in most : \A o \in most : PositionOf(v, order) <= PositionOf(o, order)
Usable(t)  == t.src # <<>> /\ t.dst # <<>> /\ t.dst # t.src /\ t.info \notin Rejected
Cleaned(terms) == Picked(terms, {i \in DOMAIN terms : Usable(terms[i])})
Voted(group) ==
    [src   |-> Vote([i \in DOMAIN group |-> group[i].src], Srcs),
     dst   |-> Vote([i \in DOMAIN group |-> group[i].dst], Dsts),
     info  |-> Vote([i \in DOMAIN group |-> group[i].info], Infos),
     votes |-> Len(group)]
Spelled(clean, key) == Picked(clean, {i \in DOMAIN clean : Fold[clean[i].src] = key})
Normalized(terms) ==
    LET clean == Cleaned(terms)
    IN {Voted(Spelled(clean, key)) : key \in {Fold[t.src] : t \in ToSet(clean)}}

-----------------------------------------------------------------------------
(* count_frequencies_and_references: the longest term first, of those the one *)
(* with most votes; where it was found the text is masked                     *)

MatchesAt(line, i, src) == i + Len(src) - 1 <= Len(line) /\ SubSeq(line, i, i + Len(src) - 1) = src
HasTerm(line, src)      == \E i \in DOMAIN line : MatchesAt(line, i, src)
\* str.replace: from the left, what was replaced is not matched again.  MaskedTo is the end of
\* the last match up to a place
MaskedTo(line, src) ==
    LET upto[i \in 0..Len(line)] ==
            IF i = 0 THEN 0 ELSE IF i > upto[i - 1] /\ MatchesAt(line, i, src) THEN i + Len(src) - 1 ELSE upto[i - 1]
    IN  upto
Masked(line, src) == [i \in DOMAIN line |-> IF i <= MaskedTo(line, src)[i] THEN Mask ELSE line[i]]
\* mutant: nothing is masked
LinesUnmasked(lines, src) == lines
LinesMasked(lines, src)   == [i \in DOMAIN lines |-> Masked(lines[i], src)]
Before(a, b) ==
    \/ Len(a.src) > Len(b.src)
    \/ Len(a.src) = Len(b.src) /\ a.votes > b.votes
    \/ Len(a.src) = Len(b.src) /\ a.votes = b.votes /\ PositionOf(a.src, Srcs) < PositionOf(b.src, Srcs)
FirstOf(terms)  == CHOOSE a \in terms : \A b \in terms \ {a} : Before(a, b)
Capped(seq)     == SubSeq(seq, 1, IF shelf.refs < Len(seq) THEN shelf.refs ELSE Len(seq))
LinesWith(lines, src) == InOrder({i \in DOMAIN lines : HasTerm(lines[i], src)}, Len(lines))
RecordIn(term, lines) ==
    [term |-> term, frequency |-> Len(LinesWith(lines, term.src)), refs |-> Capped(LinesWith(lines, term.src))]
CountedIn(acc) ==
    LET term == FirstOf(acc.left)
    IN [left |-> acc.left \ {term}, lines |-> LinesMasked(acc.lines, term.src),
        records |-> acc.records \cup {RecordIn(term, acc.lines)}]
Counting(terms, lines) ==
    LET after[n \in 0..Cardinality(terms)] ==
            IF n = 0 THEN [left |-> terms, lines |-> lines, records |-> {}] ELSE CountedIn(after[n - 1])
    IN  after
RecordsOf(terms, lines) == {r \in Counting(terms, lines)[Cardinality(terms)].records : r.frequency >= shelf.min}

-----------------------------------------------------------------------------
(* combine_glossary_records *)

\* a reference is the book and the number of its line
ReferenceText(ref) == LinesOfBook(ref[1])[ref[2]]
\* _round_robin_references: the next new text of each source in turn, until the cap
NewOf(list, taken) == Picked(list, {k \in DOMAIN list : \A c \in ToSet(taken) : ReferenceText(c) # ReferenceText(list[k])})
Turn(taken, list, cap) ==
    IF Len(taken) >= cap \/ NewOf(list, taken) = <<>> THEN taken ELSE Append(taken, Head(NewOf(list, taken)))
Round(taken, lists, cap) ==
    LET after[i \in 0..Len(lists)] == IF i = 0 THEN taken ELSE Turn(after[i - 1], lists[i], cap)
    IN  after[Len(lists)]
Dealt(lists, cap) ==
    LET after[d \in 0..cap] == IF d = 0 THEN <<>> ELSE Round(after[d - 1], lists, cap)
    IN  after[cap]
RecordFor(src, records) == CHOOSE r \in records : r.term.src = src
CombinedRecord(src) ==
    LET parts == Picked(groups, {g \in DOMAIN groups : \E r \in groups[g].records : r.term.src = src})
        OfBook(i) == RecordFor(src, parts[i].records)
        sum[i \in 0..Len(parts)] == IF i = 0 THEN 0 ELSE sum[i - 1] + OfBook(i).frequency
    IN [term |-> [src |-> src, dst |-> Vote([i \in DOMAIN parts |-> OfBook(i).term.dst], Dsts),
                  info |-> Vote([i \in DOMAIN parts |-> OfBook(i).term.info], Infos)],
        frequency |-> sum[Len(parts)],
        refs |-> Dealt([i \in DOMAIN parts |-> [k \in DOMAIN OfBook(i).refs |-> <<parts[i].book, OfBook(i).refs[k]>>]],
                       shelf.refs)]
Combined == {CombinedRecord(src) : src \in UNION {{r.term.src : r \in groups[g].records} : g \in DOMAIN groups}}

-----------------------------------------------------------------------------
(* The run *)

Idle        == shelfAt \in {"none", "over", "dead"}
Untouched   == UNCHANGED <<shelf, halts, deaths>>
Begins      == shelfAt' = "running" /\ bookNo' = 1 /\ groups' = <<>> /\ failedBooks' = {} /\ runNo' = runNo + 1

\* start_glossary: a new task, whose subtasks GlossaryOrchestrator.run seeds
StartGlossary ==
    /\ Idle /\ runNo < StartMax /\ grand # "RUNNING"
    /\ marks' = [c \in DOMAIN ChunkList |-> [status |-> "PENDING", terms |-> <<>>]]
    /\ grand' = "RUNNING" /\ Begins
    /\ Untouched /\ UNCHANGED <<outFiles, issueFiles, told>>
\* continue: what failed is asked again, what is completed stays
ContinueGlossary ==
    /\ Idle /\ runNo < StartMax /\ grand \in {"STOPPED", "FAILED"}
    /\ marks' = [c \in DOMAIN marks |-> IF marks[c].status = "FAILED" THEN [marks[c] EXCEPT !.status = "PENDING"]
                                        ELSE marks[c]]
    /\ grand' = "RUNNING" /\ Begins
    /\ Untouched /\ UNCHANGED <<outFiles, issueFiles, told>>
ChunkEnds(c) ==
    /\ shelfAt = "running" /\ marks[c].status = "PENDING"
    /\ \/ \E found \in Extracts : marks' = [marks EXCEPT ![c] = [status |-> "COMPLETED", terms |-> found]]
       \/ marks' = [marks EXCEPT ![c] = [status |-> "FAILED", terms |-> <<>>]]
    /\ Untouched /\ UNCHANGED <<grand, shelfAt, bookNo, groups, failedBooks, outFiles, issueFiles, told, runNo>>
\* the executor ends: stopped with chunks left, or with all of them settled; a stop that came
\* when all were completed already is a completion
ExecutorEnds ==
    /\ shelfAt = "running" /\ shelfAt' = "book"
    /\ \/ halts < StopMax /\ halts' = halts + 1
          /\ grand' = IF InStatus("COMPLETED") = DOMAIN marks THEN "COMPLETED" ELSE "STOPPED"
       \/ InStatus("PENDING") = {} /\ UNCHANGED halts
          /\ grand' = IF InStatus("FAILED") = {} THEN "COMPLETED" ELSE "FAILED"
    /\ UNCHANGED <<shelf, marks, bookNo, groups, failedBooks, outFiles, issueFiles, told, runNo, deaths>>

\* _aggregate_candidates
TermsOf(b) ==
    LET done == Picked(marks, {c \in DOMAIN marks : marks[c].status = "COMPLETED" /\ ChunkList[c].book = b})
    IN FlattenSeq([i \in DOMAIN done |-> done[i].terms])
HasIssues(b) == \E t \in ToSet(TermsOf(b)) : t.info = <<>>
BookRecords(b) == RecordsOf(Normalized(TermsOf(b)), LinesOfBook(b))
Bundle(records) == [run |-> runNo, records |-> records]
\* write_glossary_artifacts: one file after the other
Written(base, records, upto) ==
    outFiles' = [outFiles EXCEPT ![base] =
                    [k \in ToSet(Kinds) |-> IF PositionOf(k, Kinds) <= upto THEN Bundle(records) ELSE @[k]]]
NextBook ==
    /\ bookNo' = bookNo + 1
    /\ shelfAt' = IF bookNo < Len(shelf.books) THEN "book" ELSE "combined"
WriteBook(b) ==
    /\ shelfAt = "book" /\ b = bookNo
    /\ issueFiles' = IF HasIssues(b) THEN [issueFiles EXCEPT ![shelf.books[b].stem] = runNo] ELSE issueFiles
    /\ IF BookRecords(b) = {}
       THEN failedBooks' = failedBooks \cup {b} /\ UNCHANGED <<groups, outFiles>>
       ELSE /\ groups' = Append(groups, [book |-> b, records |-> BookRecords(b)])
            /\ IF shelf.joins THEN UNCHANGED outFiles ELSE Written(shelf.books[b].stem, BookRecords(b), 3)
            /\ UNCHANGED failedBooks
    /\ NextBook /\ Untouched /\ UNCHANGED <<marks, grand, told, runNo>>
\* purge_glossary_artifacts removes what the books of the folder have of their own, their
\* decode issues of this run as well; then the combined artifacts are written
WriteCombined ==
    /\ shelfAt = "combined" /\ shelfAt' = "finish"
    /\ IF shelf.joins /\ groups # <<>>
       THEN /\ outFiles' = [base \in Bases |-> IF base = Joined THEN [k \in ToSet(Kinds) |-> Bundle(Combined)]
                                               ELSE [k \in ToSet(Kinds) |-> NotYet]]
            /\ issueFiles' = [base \in Bases |-> IF base = Joined THEN issueFiles[base] ELSE 0]
       ELSE UNCHANGED <<outFiles, issueFiles>>
    /\ Untouched /\ UNCHANGED <<marks, grand, bookNo, groups, failedBooks, told, runNo>>
\* the statistics and the result
Finalize ==
    /\ shelfAt = "finish" /\ shelfAt' = "over"
    /\ told' = [run |-> runNo,
                outputs |-> IF shelf.joins THEN (IF groups = <<>> THEN {} ELSE {Joined})
                            ELSE {shelf.books[g.book].stem : g \in ToSet(groups)},
                issues |-> IF shelf.joins THEN {}
                           ELSE {shelf.books[g.book].stem : g \in {x \in ToSet(groups) : HasIssues(x.book)}}]
    /\ Untouched /\ UNCHANGED <<marks, grand, bookNo, groups, failedBooks, outFiles, issueFiles, runNo>>
\* the process ends, also between two artifacts of a book or after the purge; the next reader of
\* the record says STOPPED
Dies ==
    /\ ~Idle /\ deaths < CrashMax /\ deaths' = deaths + 1 /\ shelfAt' = "dead"
    /\ grand' = IF shelfAt = "running" THEN "STOPPED" ELSE grand
    /\ IF shelfAt = "book" /\ ~shelf.joins /\ BookRecords(bookNo) # {}
       THEN \E upto \in 0..2 : Written(shelf.books[bookNo].stem, BookRecords(bookNo), upto)
       ELSE \/ UNCHANGED outFiles
            \/ /\ shelfAt = "combined" /\ shelf.joins /\ groups # <<>>
               /\ outFiles' = [base \in Bases |-> IF base = Joined THEN outFiles[base] ELSE [k \in ToSet(Kinds) |-> NotYet]]
    /\ UNCHANGED <<shelf, marks, bookNo, groups, failedBooks, issueFiles, told, runNo, halts>>

GlossaryNext ==
    \/ StartGlossary \/ ContinueGlossary \/ \E c \in DOMAIN marks : ChunkEnds(c)
    \/ ExecutorEnds \/ \E b \in DOMAIN shelf.books : WriteBook(b)
    \/ WriteCombined \/ Finalize \/ Dies
GlossarySpec == GlossaryInit /\ [][GlossaryNext]_glossaryVars

-----------------------------------------------------------------------------
(* Properties *)

\* what a run has told is on disk, of that run, and the three files of it say the same
ToldIsThere ==
    shelfAt = "over" /\ told.run = runNo =>
        /\ \A base \in told.outputs : \A k \in ToSet(Kinds) :
               outFiles[base][k].run = runNo /\ outFiles[base][k] = outFiles[base]["xlsx"]
        /\ \A base \in told.issues : issueFiles[base] = runNo
        /\ failedBooks \cup {g.book : g \in ToSet(groups)} = DOMAIN shelf.books
        /\ failedBooks \cap {g.book : g \in ToSet(groups)} = {}
\* a book's term was found in one of its completed chunks, it has the translation most of them
\* gave it, and no term found often enough in one spelling is missing; what is told COMPLETED has
\* all its chunks
Shown(b) == LET g == CHOOSE x \in ToSet(groups) : x.book = b IN g.records
FoundIn(b) == {t \in ToSet(TermsOf(b)) : Usable(t)}
SameKey(b, src) == {t \in FoundIn(b) : Fold[t.src] = Fold[src]}
LinesFor(b, src) == {i \in DOMAIN LinesOfBook(b) : HasTerm(LinesOfBook(b)[i], src)}
AloneIn(b, src) == {i \in LinesFor(b, src) : \A t \in FoundIn(b) : t.src # src => ~HasTerm(LinesOfBook(b)[i], t.src)}
IsShownTrue(b, r) ==
    /\ r.term.src \in {t.src : t \in FoundIn(b)}
    /\ r.term.dst \in {t.dst : t \in SameKey(b, r.term.src)}
    /\ ToSet(r.refs) \subseteq LinesFor(b, r.term.src)
    /\ Cardinality(AloneIn(b, r.term.src)) <= r.frequency
    /\ r.frequency <= Cardinality(LinesFor(b, r.term.src))
TermsAreTrue ==
    shelfAt = "over" /\ told.run = runNo =>
        /\ \A b \in DOMAIN shelf.books :
            LET listed == IF b \in failedBooks THEN {} ELSE Shown(b)
            IN /\ \A r \in listed : IsShownTrue(b, r)
               /\ \A t \in FoundIn(b) :
                      {x.src : x \in SameKey(b, t.src)} = {t.src} /\ Cardinality(AloneIn(b, t.src)) >= shelf.min
                          => \E r \in listed : Fold[r.term.src] = Fold[t.src]
               /\ \A r, q \in listed : r # q => Fold[r.term.src] # Fold[q.term.src]
        /\ grand = "COMPLETED" => \A c \in DOMAIN marks : marks[c].status = "COMPLETED"
\* a line counts for a term only where the term stands outside of every longer one that is shown,
\* or that one is broken into by another that is as long and was counted there
Span(i, src) == i..i + Len(src) - 1
StandsAt(b, line, j, r) ==
    /\ MatchesAt(line, j, r.term.src)
    /\ \A x \in Shown(b) : \A p \in DOMAIN line :
           Len(x.term.src) > Len(r.term.src) /\ MatchesAt(line, p, x.term.src)
           /\ Span(j, r.term.src) \subseteq Span(p, x.term.src) =>
               \E y \in FoundIn(b) : \E q \in DOMAIN line :
                   /\ Len(y.src) >= Len(x.term.src) /\ MatchesAt(line, q, y.src)
                   /\ Span(q, y.src) \cap Span(p, x.term.src) # {} /\ Span(q, y.src) \cap Span(j, r.term.src) = {}
NothingCountsTwice ==
    shelfAt = "over" /\ told.run = runNo =>
        \A g \in ToSet(groups) : \A r \in g.records :
            LET text == LinesOfBook(g.book)
            IN r.frequency <= Cardinality({i \in DOMAIN text : \E j \in DOMAIN text[i] : StandsAt(g.book, text[i], j, r)})
\* the combined glossary gives every book its share: no frequency is lost, examples are dealt fairly
PartOf(g, src) == {x \in g.records : x.term.src = src}
SharesAreFair ==
    shelfAt = "over" /\ told.run = runNo /\ shelf.joins /\ Joined \in told.outputs =>
        \A r \in outFiles[Joined]["xlsx"].records :
            LET From(b) == Cardinality({k \in DOMAIN r.refs : r.refs[k][1] = b})
                Texts == {ReferenceText(p) : p \in ToSet(r.refs)}
                UsedUp(g) == \A x \in PartOf(g, r.term.src) : \A n \in ToSet(x.refs) : ReferenceText(<<g.book, n>>) \in Texts
                Who == {g \in ToSet(groups) : PartOf(g, r.term.src) # {}}
            IN /\ Who # {} /\ Len(r.refs) <= shelf.refs
               /\ \A g \in Who : \A x \in PartOf(g, r.term.src) : x.frequency <= r.frequency
               /\ Cardinality(Texts) = Len(r.refs)
               /\ \A g, h \in Who : From(g.book) + 1 < From(h.book) => UsedUp(g)
\* What is extracted is kept: the artifacts say what the completed chunks of each book have, once
\* and under the right book, and a result names what is there
TermsAreKept == ToldIsThere /\ TermsAreTrue /\ NothingCountsTwice /\ SharesAreFair
=============================================================================
