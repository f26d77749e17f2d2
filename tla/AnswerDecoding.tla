--------------------------- MODULE AnswerDecoding ---------------------------
(***************************************************************************)
(* transoria/llm/decoders.py: the lines of a model's answer, one per step. *)
(*                                                                         *)
(* A translation answer has rows {"index": text}; a line is the index of   *)
(* its row or what makes it useless.  When no line is a row, the answer is *)
(* parsed as one JSON value.  A glossary answer that holds no JSON rows is *)
(* searched for Markdown tables: a cell is the column it was meant for.    *)
(***************************************************************************)
EXTENDS Integers, Sequences, FiniteSets, SequencesExt, Lists

CONSTANTS
    Indices,      \* row indices a model may write
    MaxLines,     \* bound: lines of an answer
    HeaderRows,      \* header rows: sequences of column names
    Counters      \* how rows may be numbered: subset of {"none", "injected"}

ASSUME HeadersAssumption == HeaderRows \subseteq Seq(STRING)

VARIABLES
    decoding,     \* "idle", "rows", "table", "decoded"
    readLines,    \* lines read
    rowsTaken,     \* indices of TranslationLines, in the order of acceptance
    wholeValue,   \* what the answer as one JSON value maps: index -> present
    issues,       \* DecodeIssues by reason
    columnMap,    \* column_map: [src, dst, info] or NoMap
    header,       \* ghost: the header row above
    entries       \* GlossaryEntries salvaged: [src, dst, info] of cell kinds

decodeVars == <<decoding, readLines, rowsTaken, wholeValue, issues, columnMap,
                header, entries>>

NoMap == [src |-> 0, dst |-> 0, info |-> 0]

DecodeInit ==
    /\ decoding = "idle" /\ readLines = 0 /\ rowsTaken = <<>> /\ wholeValue = <<>>
    /\ issues = {} /\ columnMap = NoMap /\ header = <<>> /\ entries = {}

BeginDecode(mode) ==
    /\ decoding \in {"idle", "decoded"}
    /\ decoding' = mode /\ readLines' = 0 /\ rowsTaken' = <<>> /\ issues' = {}
    /\ columnMap' = NoMap /\ header' = <<>> /\ entries' = {}
    /\ wholeValue' = <<>>

-----------------------------------------------------------------------------
(* decode_translation_jsonl *)

Reading(mode) == decoding = mode /\ readLines < MaxLines /\ readLines' = readLines + 1

\* mutant: seen_indices is not consulted
ReadRowTwice(i) ==
    /\ Reading("rows")
    /\ rowsTaken' = Append(rowsTaken, i) /\ UNCHANGED issues
    /\ UNCHANGED <<decoding, wholeValue, columnMap, header, entries>>

ReadRow(i) ==
    /\ Reading("rows")
    /\ IF i \in ToSet(rowsTaken)
       THEN issues' = issues \cup {"duplicate"} /\ UNCHANGED rowsTaken
       ELSE rowsTaken' = Append(rowsTaken, i) /\ UNCHANGED issues
    /\ UNCHANGED <<decoding, wholeValue, columnMap, header, entries>>

ReadUseless(reason) ==
    /\ Reading("rows")
    /\ issues' = issues \cup {reason}
    /\ UNCHANGED <<decoding, rowsTaken, wholeValue, columnMap, header, entries>>

\* the whole answer is one object, array or wrapper of them: its indices, which
\* an array or an object with the keys "1" and "01" may repeat or not
Salvage(whole) == Picked(whole, {k \in DOMAIN whole : \A j \in 1..k - 1 : whole[j] # whole[k]})

\* mutant: the salvaged value is added to the rows of the lines
EndRowsSalvaging ==
    /\ decoding = "rows" /\ decoding' = "decoded"
    /\ \E whole \in SeqOf(Indices, 2) :
         /\ wholeValue' = whole
         /\ rowsTaken' = rowsTaken \o Salvage(whole)
    /\ UNCHANGED <<readLines, columnMap, header, entries, issues>>

EndRows ==
    /\ decoding = "rows" /\ decoding' = "decoded"
    /\ \E whole \in SeqOf(Indices, 2) :
         /\ wholeValue' = whole
         /\ rowsTaken' = IF rowsTaken = <<>> THEN Salvage(whole) ELSE rowsTaken
         /\ issues' = IF rowsTaken = <<>> /\ whole # <<>>
                      THEN issues \ {"not a row"} ELSE issues
    /\ UNCHANGED <<readLines, columnMap, header, entries>>

-----------------------------------------------------------------------------
(* _detect_header_columns and _salvage_glossary_table *)

Column(cells, name) == IF \E i \in DOMAIN cells : cells[i] = name
                       THEN CHOOSE i \in DOMAIN cells :
                              /\ cells[i] = name
                              /\ \A j \in 1..(i - 1) : cells[j] # name
                       ELSE 0

DetectHeader(cells) ==
    LET map == [src |-> Column(cells, "src"), dst |-> Column(cells, "dst"),
                info |-> Column(cells, "info")]
    IN  IF map.src > 0 /\ map.dst > 0 THEN map ELSE NoMap

ReadHeader(cells) ==
    /\ Reading("table")
    /\ DetectHeader(cells) # NoMap
    /\ header' = cells /\ columnMap' = DetectHeader(cells)
    /\ UNCHANGED <<decoding, rowsTaken, wholeValue, issues, entries>>

\* mutant: a blank line leaves the mapping of the table above
ReadBlankKeepingMap ==
    /\ Reading("table") /\ header' = <<>>
    /\ UNCHANGED <<decoding, rowsTaken, wholeValue, issues, columnMap, entries>>

\* a blank line ends the table
ReadBlank ==
    /\ Reading("table") /\ columnMap' = NoMap /\ header' = <<>>
    /\ UNCHANGED <<decoding, rowsTaken, wholeValue, issues, entries>>

\* mutant: the row counter is left in place
DropCounterNever(cells) == cells
\* a leading number is taken for a row counter unless src is the first column
DropCounter(cells) ==
    IF columnMap.src # 1 /\ cells # <<>> /\ Head(cells) = "number"
    THEN Tail(cells) ELSE cells

\* a row as the model means it: under the header above, or under some header
\* of its own when the table it belongs to has none
Written(columns, counter) ==
    (IF counter = "injected" THEN <<"number">> ELSE <<>>) \o columns

ReadTableRow(columns, counter) ==
    LET cells == DropCounter(Written(columns, counter))
        used  == {columnMap.src, columnMap.dst}
    IN  /\ Reading("table")
        /\ header # <<>> => columns = header
        /\ entries' = IF columnMap = NoMap \/ \E k \in used : k > Len(cells)
                      THEN entries
                      ELSE entries \cup {[src |-> cells[columnMap.src],
                                          dst |-> cells[columnMap.dst]]}
        /\ UNCHANGED <<decoding, rowsTaken, wholeValue, issues, columnMap, header>>

EndTable ==
    /\ decoding = "table" /\ decoding' = "decoded"
    /\ UNCHANGED <<readLines, rowsTaken, wholeValue, issues, columnMap, header, entries>>

DecodeNext ==
    \/ BeginDecode("rows") \/ BeginDecode("table")
    \/ \E i \in Indices : ReadRow(i)
    \/ \E reason \in {"not a row", "not a number"} : ReadUseless(reason)
    \/ EndRows
    \/ \E h \in HeaderRows : ReadHeader(h)
    \/ ReadBlank
    \/ \E h \in HeaderRows, c \in Counters : ReadTableRow(h, c)
    \/ EndTable

DecodeSpec == DecodeInit /\ [][DecodeNext]_decodeVars

-----------------------------------------------------------------------------
\* No index is translated twice, neither by two lines nor by a line and the
\* salvaged whole (seen_indices in decode_translation_jsonl).
IndicesAreUnique == IsInjective(rowsTaken)

\* A salvaged glossary entry never takes a cell of another column for its source
\* or its translation: the docstring of decode_glossary_jsonl says a
\* column-shuffled response cannot produce a misaligned entry.
EntriesAreAligned == \A e \in entries : e.src = "src" /\ e.dst = "dst"

\* What is taken from an answer is what the model has written.
RowsAreTrue == IndicesAreUnique /\ EntriesAreAligned
=============================================================================
