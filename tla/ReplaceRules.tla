---------------------------- MODULE ReplaceRules ----------------------------
(***************************************************************************)
(* transoria/tools/replacement.py: rules replace text one after the other  *)
(* in many slots (the lines of a text, the text nodes of a book).  Slots   *)
(* come in groups, and a literal rule leaves out a group whose joined text *)
(* it does not occur in; the joined text is kept until a slot changes.     *)
(* A slot is a sequence of symbols, a rule replaces one of them.           *)
(***************************************************************************)
EXTENDS Naturals, Sequences, SequencesExt, FiniteSets

CONSTANTS
    Symbols,     \* of the texts
    SlotTexts,   \* what a slot may hold
    RuleLists,   \* lists of rules [kind, src, dst]: literal, regex, bad (its template fails)
    SlotGroups   \* a group: a sequence of slots

VARIABLES
    slots,     \* text of each slot
    original,  \* ghost: what it was
    ruleList,  \* the rules
    joined,    \* joined text of a group, or Unjoined
    rulePos, groupPos,  \* the loops
    counts,    \* replacements of a slot
    badRules   \* rules that failed
ruleVars == <<slots, original, ruleList, joined, rulePos, groupPos, counts, badRules>>

Unjoined  == <<"unjoined">>
RuleForms == [kind : {"literal", "regex", "bad"}, src : Symbols, dst : Seq(Symbols)]
\* _line_groups and replace_epub_file give each slot's number to one group
ASSUME RulesAssumption ==
    /\ SlotTexts \subseteq Seq(Symbols) /\ RuleLists \subseteq Seq(RuleForms) /\ Unjoined \notin Seq(Symbols)
    /\ SlotGroups \in Seq(Seq(Nat))
    /\ \A g, h \in DOMAIN SlotGroups : g # h => ToSet(SlotGroups[g]) \cap ToSet(SlotGroups[h]) = {}

Slots    == UNION {ToSet(SlotGroups[g]) : g \in DOMAIN SlotGroups}
Rule     == ruleList[rulePos]

RulesInit ==
    /\ original \in [Slots -> SlotTexts] /\ slots = original
    /\ ruleList \in RuleLists
    /\ joined = [g \in DOMAIN SlotGroups |-> Unjoined]
    /\ rulePos = 1 /\ groupPos = 1 /\ counts = [s \in Slots |-> 0] /\ badRules = {}

\* _substitute
Occurs(seq, src)    == Cardinality({i \in DOMAIN seq : seq[i] = src})
Replaced(seq, rule) == FlattenSeq([i \in DOMAIN seq |-> IF seq[i] = rule.src THEN rule.dst ELSE <<seq[i]>>])

NextGroup == IF groupPos < Len(SlotGroups) THEN groupPos' = groupPos + 1 /\ UNCHANGED rulePos
             ELSE groupPos' = 1 /\ rulePos' = rulePos + 1
JoinOf(g) == FlattenSeq([i \in DOMAIN SlotGroups[g] |-> slots[SlotGroups[g][i]]])
Known     == IF joined[groupPos] = Unjoined THEN JoinOf(groupPos) ELSE joined[groupPos]
Kept(changed) == IF changed THEN Unjoined ELSE IF Rule.kind = "literal" THEN Known ELSE joined[groupPos]

\* a literal rule that does not occur in the group
SkipGroup ==
    /\ rulePos <= Len(ruleList) /\ Rule.kind = "literal" /\ Occurs(Known, Rule.src) = 0
    /\ joined' = [joined EXCEPT ![groupPos] = Known] /\ NextGroup
    /\ UNCHANGED <<slots, original, ruleList, counts, badRules>>
\* _apply_rules_to_slots, one rule in one group
ApplyRule ==
    /\ rulePos <= Len(ruleList) /\ Rule.kind # "bad"
    /\ Rule.kind = "literal" => Occurs(Known, Rule.src) # 0
    /\ LET hit == {s \in ToSet(SlotGroups[groupPos]) : Occurs(slots[s], Rule.src) # 0}
       IN /\ slots' = [s \in Slots |-> IF s \in hit THEN Replaced(slots[s], Rule) ELSE slots[s]]
          /\ counts' = [s \in Slots |-> IF s \in hit THEN counts[s] + Occurs(slots[s], Rule.src) ELSE counts[s]]
          /\ joined' = [joined EXCEPT ![groupPos] = Kept(hit # {})]
    /\ NextGroup /\ UNCHANGED <<original, ruleList, badRules>>
\* a template that cannot be used ends its rule in the first slot
BadRule ==
    /\ rulePos <= Len(ruleList) /\ Rule.kind = "bad"
    /\ badRules' = badRules \cup {rulePos} /\ rulePos' = rulePos + 1 /\ groupPos' = 1
    /\ UNCHANGED <<slots, original, ruleList, joined, counts>>
RulesNext == SkipGroup \/ ApplyRule \/ BadRule

RulesSpec == RulesInit /\ [][RulesNext]_ruleVars

\* replace_txt_file, replace_epub_file: only slots in which something was replaced are written
WrittenSlot(s) == IF counts[s] > 0 THEN slots[s] ELSE original[s]

\* a text after the first n of a list of rules, applied to the whole of it one after the other
AfterRules(text, rules, n) ==
    LET after[k \in 0..Len(rules)] ==
            IF k = 0 THEN text ELSE IF rules[k].kind = "bad" THEN after[k - 1] ELSE Replaced(after[k - 1], rules[k])
    IN  after[n]
\* Every slot ends as if each rule had been applied to the whole of it, in order, whatever
\* groups were left out; a rule sees what the rules before it have written
RulesChain ==
    rulePos > Len(ruleList) => \A s \in Slots : WrittenSlot(s) = AfterRules(original[s], ruleList, Len(ruleList))
=============================================================================
