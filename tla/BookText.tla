------------------------------ MODULE BookText ------------------------------
(***************************************************************************)
(* transoria/formats: the texts of a book are cut into segments, and the   *)
(* translations are put back into its pages, one segment after the other.  *)
(* A page is the tree of a body (iter_elements, children and tails as lxml *)
(* keeps them): its nodes are numbered in document order, a node has a     *)
(* text before its children and a tail after it, and is called by what its *)
(* tag is to the code: block, inline, link, br, ruby, rt, code, note (a    *)
(* comment), other.  A letter is a number, 0 a space; a path is the node   *)
(* it leads to.  A plain text is letters with CR and LF between its lines. *)
(***************************************************************************)
EXTENDS Integers, Sequences, SequencesExt, FiniteSets, FiniteSetsExt

CONSTANTS
    Pages,      \* [tag, last, text, tail], each a sequence over the nodes; last: the last
                \* node below this one; and twice: the spine names the page twice
    PlainTexts, \* texts of TXT files
    PageWays    \* how pages are written: translated, bilingual (with originals), slots (texts
                \* for each slot, from a replacement), dedup (no original where nothing changed)

VARIABLES
    pageTree,  \* the page
    pageWay,
    segments,  \* what was read of it: the textSlots of each segment, in document order
    slotText,  \* text of each slot
    segmentNo, \* the loop over the segments
    answered,  \* translation of each segment: a sequence of lines, or OwnWords or NoTranslation
    removed,   \* nodes taken out
    warnedOf,  \* segments in format_warnings
    originals, \* blocks copied before their translation
    plainText, \* a plain text and what was written for it: [source, lines, out]
    pageAt     \* segments, ruby, page; or text, written
bookTextVars == <<pageTree, pageWay, segments, slotText, segmentNo, answered, removed, warnedOf,
                  originals, plainText, pageAt>>

OwnWords == <<<<-9>>>>
NoTranslation == <<<<-8>>>>

-----------------------------------------------------------------------------
(* The page *)

Nodes == DOMAIN pageTree.tag
\* n is m or below it
Below(n, m) == m <= n /\ n <= pageTree.last[m]
Up(n) == LET above == {m \in Nodes : m # n /\ Below(n, m)} IN IF above = {} THEN 0 ELSE Max(above)
PageSlots == {"text", "tail"} \X Nodes
SourceText(s) == IF s[1] = "text" THEN pageTree.text[s[2]] ELSE pageTree.tail[s[2]]
Letters(seq) == SelectSeq(seq, LAMBDA c : c # 0)
\* _slot_owner
SlotOwner(s) == IF s[1] = "text" THEN s[2] ELSE Up(s[2])
SlotRank(s)  == LET n == Len(pageTree.tag)
                IN IF s[1] = "text" THEN 2 * n * s[2] ELSE 2 * n * pageTree.last[s[2]] + 1 + n - s[2]
InDocument(S)   == [i \in 1..Cardinality(S) |->
                    CHOOSE s \in S : Cardinality({t \in S : SlotRank(t) < SlotRank(s)}) = i - 1]

IsBlock(n)   == pageTree.tag[n] = "block"
HasBlock(n)  == \E m \in Nodes \ {n} : Below(m, n) /\ IsBlock(m)
\* build_skipped_map; a comment has no text
Skipped(n)   == \E m \in Nodes : Below(n, m) /\ pageTree.tag[m] \in {"code", "rt", "note"}
TextSlots(S) == {s \in S : SlotOwner(s) # 0 /\ ~Skipped(SlotOwner(s)) /\ SourceText(s) # <<>>}

\* collect_document_units: a block without blocks in it is one unit; of the others each text
\* between their children is one, and each child that is no block
UnitOf(s) ==
    LET above == {b \in Nodes : IsBlock(b) /\ Below(SlotOwner(s), b)}
        block == Max(above)   \* ids grow downwards: the nearest
        child == CHOOSE c \in Nodes : Up(c) = block /\ Below(SlotOwner(s), c)
    IN  IF above = {} THEN <<>>
        ELSE IF ~HasBlock(block) THEN <<"block", block>>
        ELSE IF SlotOwner(s) = block THEN s
        ELSE IF HasBlock(child) THEN <<>> ELSE <<"run", child>>
BlockOf(s) == Max({b \in Nodes : IsBlock(b) /\ Below(SlotOwner(s), b)})

\* append_xhtml_segments
SegmentsRead ==
    LET textSlots == TextSlots(PageSlots)
        units == {InDocument({s \in textSlots : UnitOf(s) = u}) :
                      u \in {UnitOf(s) : s \in textSlots} \ {<<>>}}
    IN  SetToSortSeq({u \in units : \E i \in DOMAIN u : Letters(SourceText(u[i])) # <<>>},
                     LAMBDA u, v : SlotRank(u[1]) < SlotRank(v[1]))
\* extract_segments
PageRead == IF pageTree.twice THEN SegmentsRead \o SegmentsRead ELSE SegmentsRead
\* _segment_uses_ruby
InRuby(n)     == {r \in Nodes : pageTree.tag[r] = "ruby" /\ Below(n, r)}
UsesRuby(seg) == \E i \in DOMAIN seg : InRuby(seg[i][2]) # {}
\* join_segment_text: the lines a model is answered
LineCount(seg) ==
    IF UsesRuby(seg) THEN 1
    ELSE 1 + Cardinality({i \in 2..Len(seg) :
                             \A j \in {i - 1, i} : pageTree.tag[seg[j][2]] # "note"})

-----------------------------------------------------------------------------
(* _replace_text_slots *)

Common(seg) == Max({m \in Nodes : \A i \in DOMAIN seg : Below(SlotOwner(seg[i]), m)})

InlineTags == {"inline"}
OfNode(seg, n) == {i \in DOMAIN seg : Below(SlotOwner(seg[i]), n)}
Joined(seg, f, S) == Letters(FlattenSeq([i \in 1..Len(seg) |-> IF i \in S THEN f[seg[i]] ELSE <<>>]))
TextBefore(n) == LET left == {m \in Nodes \ removed : Up(m) = Up(n) /\ m < n}
             IN IF left = {} THEN <<"text", Up(n)>> ELSE <<"tail", Max(left)>>

\* _initial_scope: the node of an initial in front of the text, 0 for none
InitialOf(seg) ==
    LET filled == {i \in DOMAIN seg : Letters(slotText[seg[i]]) # <<>>}
        start  == seg[Min(filled)]
        IsInitial(n) ==
            pageTree.tag[n] \in InlineTags /\ Len(Joined(seg, slotText, OfNode(seg, n))) = 1
        chain  == {n \in Nodes : Below(start[2], n) /\
                      \A c \in Nodes : Below(start[2], c) /\ Below(c, n) => IsInitial(c)}
        carrier == Min(chain)
        parent  == Up(carrier)
        Alone  == /\ Letters(slotText[<<"text", parent>>]) = <<>>
                  /\ \A m \in Nodes : Up(m) = parent /\ m < carrier /\ pageTree.tag[m] # "note" =>
                        /\ \A n \in Nodes : Below(n, m) =>
                               \A part \in {"text", "tail"} : Letters(slotText[<<part, n>>]) = <<>>
    IN  IF /\ start[1] = "text" /\ chain # {}
           /\ \A n \in Nodes : Below(n, carrier) => pageTree.tag[n] \notin {"link", "ruby", "code"}
           /\ filled \ OfNode(seg, carrier) # {} /\ Alone
        THEN carrier ELSE 0

FirstOf(letters) == IF letters = <<>> THEN <<>> ELSE <<Head(letters)>>
Cleared(f, seg) == [s \in DOMAIN f |-> IF s \in ToSet(seg) THEN <<>> ELSE f[s]]
\* the initial takes the first letter, what follows it goes behind the node `after'
WithInitial(f, seg, carrier, after, letters) ==
    LET inside == OfNode(seg, carrier)
        g == [s \in DOMAIN f |->
                IF s = seg[Min(inside)] THEN FirstOf(letters)
                ELSE IF s \in {seg[i] : i \in inside} THEN <<>> ELSE f[s]]
    IN  [g EXCEPT ![<<"tail", after>>] = (IF letters = <<>> THEN <<>> ELSE Tail(letters)) \o @]

WithLines(seg, lines) ==
    [s \in DOMAIN slotText |->
        IF s \in ToSet(seg) THEN lines[CHOOSE i \in DOMAIN seg : seg[i] = s] ELSE slotText[s]]

\* a line for each slot
LineByLine(seg, lines) ==
    LET carrier == InitialOf(seg)
        inside  == OfNode(seg, carrier)
        prefix  == FlattenSeq([i \in DOMAIN lines |-> IF i \in inside THEN lines[i] ELSE <<>>])
        donors  == {i \in DOMAIN lines : i > Max(inside) /\ lines[i] # <<>>}
        donor   == Min(donors)
        f == WithLines(seg, lines)
    IN  IF carrier = 0 THEN f
        ELSE IF prefix = <<>> /\ donors # {}
             THEN WithInitial([f EXCEPT ![seg[donor]] = Tail(@)], seg, carrier, carrier,
                              FirstOf(lines[donor]))
             ELSE WithInitial(f, seg, carrier, carrier, prefix)

\* mutant: into the first of the slots
AllInFirst(seg, letters) == [Cleared(slotText, seg) EXCEPT ![seg[1]] = letters]
\* the boundaries of the slots are lost: the whole text goes into what they share
AllInOne(seg, letters) ==
    LET carrier == InitialOf(seg)
        f       == Cleared(slotText, seg)
        TopOf(n) == CHOOSE c \in Nodes : Up(c) = Common(seg) /\ Below(n, c)
    IN  IF carrier # 0 THEN WithInitial(f, seg, carrier, TopOf(carrier), letters)
        ELSE IF SlotOwner(seg[1]) = Common(seg) THEN [f EXCEPT ![seg[1]] = letters]
        ELSE [f EXCEPT ![TextBefore(TopOf(SlotOwner(seg[1])))] = @ \o letters]

\* a part that was set apart and has lost its text
Unmapped(seg, lines) ==
    LET inside == IF InitialOf(seg) = 0 THEN {} ELSE OfNode(seg, InitialOf(seg))
        Apart(i) == SlotOwner(seg[i]) # Common(seg)
    IN  \E i \in DOMAIN seg \ inside :
            /\ Letters(slotText[seg[i]]) # <<>>
            /\ IF Len(lines) = Len(seg) THEN Apart(i) /\ lines[i] = <<>>
               ELSE Apart(i) \/ pageTree.tag[seg[i][2]] = "br"

-----------------------------------------------------------------------------
(* _apply_doc_segments *)

\* what a model may answer for the k-th segment: a line for each, a first line that is empty
\* (and a second of one letter), one line, its own words; or there is no translation yet
Word(k, i)    == <<100 * k + 10 * i, 100 * k + 10 * i + 1>>
LinesFor(k, n) == [i \in 1..n |-> Word(k, i)]
Replies(k) ==
    LET n == LineCount(segments[k])
        noFirst == [LinesFor(k, n) EXCEPT ![1] = <<>>]
    IN  IF pageWay = "slots" THEN {LinesFor(k, Len(segments[k])), NoTranslation}
        ELSE {LinesFor(k, n), LinesFor(k, 1), OwnWords, NoTranslation}
             \cup IF n > 1 THEN {noFirst, [noFirst EXCEPT ![2] = FirstOf(@)]} ELSE {}

BookTextInit ==
    /\ pageTree \in Pages /\ pageWay \in PageWays /\ segments = PageRead
    /\ slotText = [s \in PageSlots |-> SourceText(s)]
    /\ segmentNo = 1 /\ answered = <<>> /\ removed = {} /\ warnedOf = {} /\ originals = {}
    /\ \/ /\ pageAt = "segments"
          /\ plainText = [source |-> <<>>, lines |-> <<>>, out |-> <<>>]
       \/ /\ pageAt = "text" /\ pageWay # "slots" /\ pageTree = CHOOSE p \in Pages : TRUE
          /\ plainText \in [source : PlainTexts, lines : {<<>>}, out : {<<>>}]

Both == pageWay \in {"bilingual", "dedup"}

ApplySegment ==
    /\ pageAt = "segments" /\ segmentNo <= Len(segments)
    /\ LET seg == segments[segmentNo] IN
       \E lines \in Replies(segmentNo) :
          /\ answered' = Append(answered, lines)
          /\ IF lines = NoTranslation \/ \E i \in DOMAIN seg : slotText[seg[i]] # SourceText(seg[i])
             THEN UNCHANGED <<slotText, warnedOf, originals>>
             ELSE /\ originals' = originals \cup
                         IF Both /\ (pageWay = "dedup" => lines # OwnWords)
                         THEN {BlockOf(seg[1])} ELSE {}
                  /\ IF lines = OwnWords THEN UNCHANGED <<slotText, warnedOf>>
                     ELSE /\ slotText' = IF pageWay = "slots" THEN WithLines(seg, lines)
                                         ELSE IF Len(lines) = Len(seg) THEN LineByLine(seg, lines)
                                         ELSE AllInOne(seg, FlattenSeq(lines))
                          /\ warnedOf' = warnedOf \cup
                                IF pageWay # "slots" /\ Unmapped(seg, lines) THEN {segmentNo} ELSE {}
    /\ segmentNo' = segmentNo + 1
    /\ UNCHANGED <<pageTree, pageWay, segments, removed, plainText, pageAt>>

\* segments whose translation has been put in: the second reading of a page that the spine names
\* twice finds its text changed
Translated ==
    {k \in DOMAIN answered : LET New(j) == answered[j] \notin {OwnWords, NoTranslation}
                             IN New(k) /\ \A j \in 1..(k - 1) : segments[j] = segments[k] => ~New(j)}

\* _remove_ruby_annotations: the readings of what is translated go, their tails stay
RubyText(f) ==
    LET changed == {k \in Translated : pageWay # "slots" /\ UsesRuby(segments[k])}
        rubies  == UNION {UNION {InRuby(s[2]) : s \in ToSet(segments[k])} : k \in changed}
        rts     == SetToSortSeq({n \in Nodes : pageTree.tag[n] = "rt" /\ InRuby(n) \cap rubies # {}},
                                <)
        Left(n) == {m \in Nodes \ ToSet(rts) : Up(m) = Up(n) /\ m < n}
        Onto(n) == IF Left(n) = {} THEN <<"text", Up(n)>> ELSE <<"tail", Max(Left(n))>>
    IN  [gone |-> ToSet(rts),
         text |-> FoldLeft(LAMBDA g, n : [g EXCEPT ![Onto(n)] = @ \o g[<<"tail", n>>],
                                                   ![<<"tail", n>>] = <<>>], f, rts)]
RemoveReadings ==
    /\ pageAt = "segments" /\ segmentNo > Len(segments) /\ pageAt' = "ruby"
    /\ removed' = RubyText(slotText).gone /\ slotText' = RubyText(slotText).text
    /\ UNCHANGED <<pageTree, pageWay, segments, segmentNo, answered, warnedOf, originals, plainText>>

\* a block inside of one that is copied is copied with it
InsertOriginals ==
    /\ pageAt = "ruby" /\ pageAt' = "page"
    /\ originals' = {b \in originals : \A c \in originals \ {b} : ~Below(b, c)}
    /\ UNCHANGED <<pageTree, pageWay, segments, slotText, segmentNo, answered, removed, warnedOf,
                   plainText>>

-----------------------------------------------------------------------------
(* Plain texts *)

CR == -1
LF == -2
\* _split_segments
LineEnds(t) == {i \in DOMAIN t : t[i] = LF \/ (t[i] = CR /\ (i = Len(t) \/ t[i + 1] # LF))}
SplitText(t) ==
    LET ends   == SetToSortSeq(LineEnds(t) \cup IF t = <<>> THEN {0} ELSE {Len(t)}, <)
        Row(k) == SubSeq(t, (IF k = 1 THEN 0 ELSE ends[k - 1]) + 1, ends[k])
        Ending(c) == c \in {CR, LF}
    IN  [k \in DOMAIN ends |-> [text    |-> SelectSeq(Row(k), LAMBDA c : ~Ending(c)),
                                newline |-> SelectSeq(Row(k), Ending)]]

\* _render_translated, _render_bilingual
RenderText(lineRows, lines) ==
    LET Ended(k, text) == text \o lineRows[k].newline
        Source(k)      == lineRows[k].text
        New(k) == IF pageWay = "dedup" /\ lines[k] = Source(k) THEN <<>> ELSE Ended(k, lines[k])
    IN  FlattenSeq([k \in DOMAIN lineRows |->
            IF ~Both THEN Ended(k, lines[k])
            ELSE IF Source(k) = <<>> THEN lineRows[k].newline
            ELSE Ended(k, Source(k)) \o New(k)])

WritePlain(lines) ==
    /\ pageAt = "text" /\ pageAt' = "written"
    /\ plainText' = [plainText EXCEPT !.lines = lines,
                                      !.out = RenderText(SplitText(plainText.source), lines)]
    /\ UNCHANGED <<pageTree, pageWay, segments, slotText, segmentNo, answered, removed, warnedOf,
                   originals>>

TextLines ==
    LET lineRows == SplitText(plainText.source)
        New(k)   == IF lineRows[k].text = <<>> THEN <<>> ELSE Word(k, 1)
    IN  {[k \in DOMAIN lineRows |-> IF k \in new THEN New(k) ELSE lineRows[k].text] :
            new \in SUBSET DOMAIN lineRows}

BookTextNext ==
    \/ ApplySegment \/ RemoveReadings \/ InsertOriginals
    \/ \E lines \in TextLines : WritePlain(lines)

-----------------------------------------------------------------------------
(* Properties *)

OneText(k) == Len(answered[k]) # Len(segments[k])
\* the text a reader finds in each block is its own with each segment exchanged for its translation:
\* nothing is lost, doubled or moved to another paragraph, whatever lines a model gave back
TextIsInPlace ==
    pageAt = "page" =>
        LET SegOf(s) == {k \in Translated : s \in ToSet(segments[k])}
            Expected(s) ==
                IF SegOf(s) = {} THEN SourceText(s)
                ELSE LET k == Max(SegOf(s))
                         i == CHOOSE n \in DOMAIN segments[k] : segments[k][n] = s
                     IN IF ~OneText(k) THEN answered[k][i]
                        ELSE IF i = 1 THEN FlattenSeq(answered[k]) ELSE <<>>
            Read(S, f(_)) == LET ordered == InDocument(S)
                             IN Letters(FlattenSeq([i \in DOMAIN ordered |-> f(ordered[i])]))
        IN  \A b \in {n \in Nodes : IsBlock(n)} :
                LET seen == {s \in PageSlots : SlotOwner(s) # 0 /\ Below(SlotOwner(s), b)
                                               /\ ~Skipped(SlotOwner(s))}
                IN  Read(seen, LAMBDA s : slotText[s]) = Read(seen, Expected)
\* a text whose boundaries are lost stands in what its parts share, never in a partial inline span
NeverInPartOfIt ==
    pageAt = "page" =>
        \A k \in Translated : OneText(k) =>
            LET apart == {s \in PageSlots : SlotOwner(s) \in Nodes \ {Common(segments[k])} /\
                                            \E c \in ToSet(slotText[s]) : c \div 100 = k}
            IN  Cardinality(apart) <= 1 /\ \A s \in apart : Len(slotText[s]) = 1
\* an emphasis that has lost its text is reported, unless its only letter is now the initial
LossIsReported ==
    pageAt = "page" /\ pageWay # "slots" =>
        \A k \in Translated : \A i \in DOMAIN segments[k] :
            LET s == segments[k][i] IN
            Letters(SourceText(s)) # <<>> /\ slotText[s] = <<>> /\ SlotOwner(s) # Common(segments[k])
                => \/ k \in warnedOf \/ InRuby(s[2]) # {}
                   \/ ~OneText(k) /\ Len(answered[k][i]) = 1
\* beside each translation its original stands once
OriginalsStand ==
    pageAt = "page" =>
        \A k \in DOMAIN answered :
            LET over == {b \in originals : Below(BlockOf(segments[k][1]), b)}
            IN  /\ Cardinality(over) <= 1 /\ (over # {} => Both)
                /\ Both /\ k \in Translated => over # {}
\* a written text is read again as the lines that were written
LinesAreRead ==
    pageAt = "written" /\ (Both => LineEnds(plainText.source) \cap {Len(plainText.source)} # {}) =>
        LET lineRows == SplitText(plainText.source)
            New(k)     == [lineRows[k] EXCEPT !.text = plainText.lines[k]]
            Doubled(k) == IF pageWay = "dedup" /\ New(k) = lineRows[k] THEN <<lineRows[k]>>
                          ELSE <<lineRows[k], New(k)>>
            expected   == FlattenSeq([k \in DOMAIN lineRows |->
                              IF ~Both THEN <<New(k)>>
                              ELSE IF lineRows[k].text = <<>> THEN <<lineRows[k]>> ELSE Doubled(k)])
        IN  SplitText(plainText.out) = expected
\* Every translation is in the book, once and where its original was, and only there
TextReachesTheBook ==
    TextIsInPlace /\ NeverInPartOfIt /\ LossIsReported /\ OriginalsStand /\ LinesAreRead
=============================================================================
