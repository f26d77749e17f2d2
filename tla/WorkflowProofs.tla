--------------------------- MODULE WorkflowProofs ---------------------------
(***************************************************************************)
(* Workflows that run in rounds lose nothing on the way.  A                *)
(* translation task neither loses a segment nor says COMPLETED over one it *)
(* has no text for, for every book, every number of runs and of crashes:   *)
(* the inductive invariant says who owns the segments at each moment, the  *)
(* parent, its two halves, or, while it is being cut, the halves that are  *)
(* still to be written.  A glossary review that is told COMPLETED has      *)
(* asked of every row in every round and written what came of it: the      *)
(* invariant says up to which round it is whole at each step of the        *)
(* thread, and what the files on disk are of.  And what a glossary hears   *)
(* of the model, about a chunk or a batch, is what was said: the           *)
(* invariants are accounts of words, of calls and of decisions.  Last, the *)
(* terms a glossary counts in a text: a line, a record, a book and a       *)
(* folder, each true because what it is made of is.                        *)
(***************************************************************************)
EXTENDS TranslationRounds, GlossaryReview, GlossaryAnswers, GlossaryRuns, ListLemmas,
        FiniteSetTheorems, TLAPS

-----------------------------------------------------------------------------
(* The translation of a book.                                              *)

AllIds == Range(Ids)
Statuses == {"absent", "pending", "completed", "failed", "skipped"}

\* every subtask has its file, or the empty one of a file not yet written
FilesHaveShape ==
    /\ file = [id \in AllIds |-> file[id]]
    /\ \A id \in AllIds :
         /\ file[id] = [status |-> file[id].status, text |-> file[id].text,
                        accepted |-> file[id].accepted, preserved |-> file[id].preserved,
                        marker |-> file[id].marker, error |-> file[id].error,
                        byFallback |-> file[id].byFallback]
         /\ file[id].status \in Statuses

\* a text covers its chunk or nothing; a completed one and one that is asked for some of its
\* segments only has all
TextIsWhole(id) ==
    LET f == file[id] IN
    /\ DOMAIN f.text = SegsOf(id) \/ (DOMAIN f.text = {} /\ f.marker = {} /\ f.status # "completed")
    /\ f.marker \subseteq SegsOf(id)
    /\ f.status = "failed" /\ f.marker # {} => SegsOf(id) \ f.marker \subseteq f.accepted
TextsAreWhole == \A id \in AllIds : TextIsWhole(id)

Held(id)   == file[id].status \notin {"absent", "skipped"}
Gone(id)   == file[id].status = "absent"
Halving(c) == phase = "splitting" /\ todo # <<>> /\ Head(todo)[1] = c

\* a chunk is whole, or in halves, or being cut
ChunkIsOwned(c) ==
    /\ file[Half(c, 1)].status # "skipped" /\ file[Half(c, 2)].status # "skipped"
    /\ file[Whole(c)].status # "skipped" => Gone(Half(c, 1)) /\ Gone(Half(c, 2))
    /\ file[Whole(c)].status = "skipped" /\ ~Halving(c) => Held(Half(c, 1)) /\ Held(Half(c, 2))
    /\ Halving(c) => /\ file[Whole(c)].status = "skipped" /\ Gone(Half(c, 2))
                     /\ \/ todo = <<Half(c, 1), Half(c, 2)>> /\ Gone(Half(c, 1))
                        \/ todo = <<Half(c, 2)>> /\ Held(Half(c, 1))
ChunksAreOwned == \A c \in Range(Chunks) : ChunkIsOwned(c)

\* before the first start nothing is written; then the chunks are, one after the other
SeedingIsWhole ==
    /\ runs = 0 => phase = "idle" /\ record # "COMPLETED" /\ \A id \in AllIds : Gone(id)
    /\ runs > 0 /\ phase # "seeding" => \A c \in Range(Chunks) : ~Gone(Whole(c))
    /\ phase = "seeding" => /\ todo \in Seq(Range(Chunks))
                            /\ \A c \in Range(Chunks) : Gone(Whole(c)) => c \in Range(todo)
                            /\ \A c \in Range(Chunks) : file[Whole(c)].status # "skipped"
TodoIsUsed ==
    /\ phase \notin {"seeding", "splitting"} => todo = <<>>
    /\ phase = "splitting" /\ todo # <<>> => \E c \in Range(Chunks) : Halving(c)

\* what is planned again exists and has the text its plan leaves alone
PlanIsSound ==
    phase \in {"preparing", "requeueing"} =>
        \A id \in DOMAIN plan :
            /\ id \in AllIds /\ Held(id) /\ plan[id] \subseteq SegsOf(id)
            /\ plan[id] # {} => DOMAIN file[id].text = SegsOf(id)

\* COMPLETED is said of subtasks that are, and nothing is started after it
CompletedIsFinal ==
    /\ record = "COMPLETED" => /\ With("pending") = {} /\ With("failed") = {}
                               /\ phase \in {"ended", "splitting", "retry", "closing", "idle"}
    /\ phase = "splitting" /\ (todo # <<>> \/ created) => record # "COMPLETED"

RoundsInv ==
    /\ runs \in Nat /\ FilesHaveShape /\ TextsAreWhole /\ ChunksAreOwned /\ SeedingIsWhole
    /\ TodoIsUsed /\ PlanIsSound /\ CompletedIsFinal

-----------------------------------------------------------------------------
(* The ids of a book and the segments they stand for. *)

LEMMA IdsOfBook ==
    /\ \A c \in Range(Chunks) :
         Whole(c) \in AllIds /\ Half(c, 1) \in AllIds /\ Half(c, 2) \in AllIds
    /\ \A id \in AllIds : \E c \in Range(Chunks) : id \in {Whole(c), Half(c, 1), Half(c, 2)}
    /\ \A m, n \in DOMAIN Ids : Ids[m] = Ids[n] => m = n
<1>1. Chunks \in Seq(Range(Chunks)) /\ IsInjective(Chunks)
  BY RoundsAssumption
<1>2. Len(Chunks) \in Nat /\ DOMAIN Chunks = 1..Len(Chunks)
  BY <1>1
<1>3. DOMAIN Ids = 1..3 * Len(Chunks)
  BY DEF Ids
<1>4. ASSUME NEW c \in Range(Chunks), NEW i \in {0, 1, 2} PROVE <<c, i>> \in AllIds
  <2>1. PICK k \in 1..Len(Chunks) : Chunks[k] = c
    BY <1>2 DEF Range
  <2>2. 3 * k - 2 + i \in 1..3 * Len(Chunks)
    BY <1>2, <1>4
  <2>3. (3 * k - 2 + i + 2) \div 3 = k /\ (3 * k - 2 + i + 2) % 3 = i
    BY <1>2, <1>4
  <2>4. Ids[3 * k - 2 + i] = <<c, i>>
    BY <2>1, <2>2, <2>3 DEF Ids
  <2> QED BY <2>2, <2>4, <1>3 DEF AllIds, Range
<1>5. ASSUME NEW n \in DOMAIN Ids
      PROVE  (n + 2) \div 3 \in 1..Len(Chunks) /\ (n + 2) % 3 \in {0, 1, 2}
  BY <1>2, <1>3, <1>5
<1>6. ASSUME NEW id \in AllIds
      PROVE  \E c \in Range(Chunks) : id \in {Whole(c), Half(c, 1), Half(c, 2)}
  <2>1. PICK n \in DOMAIN Ids : id = Ids[n]
    BY DEF AllIds, Range
  <2>2. id = <<Chunks[(n + 2) \div 3], (n + 2) % 3>>
    BY <1>3, <2>1 DEF Ids
  <2>3. Chunks[(n + 2) \div 3] \in Range(Chunks)
    BY <1>2, <1>5 DEF Range
  <2> QED BY <1>5, <2>2, <2>3 DEF Whole, Half
<1>7. ASSUME NEW m \in DOMAIN Ids, NEW n \in DOMAIN Ids, Ids[m] = Ids[n] PROVE m = n
  <2>1. Chunks[(m + 2) \div 3] = Chunks[(n + 2) \div 3] /\ (m + 2) % 3 = (n + 2) % 3
    BY <1>3, <1>7 DEF Ids
  <2>2. (m + 2) \div 3 = (n + 2) \div 3
    BY <1>1, <1>2, <1>5, <2>1 DEF IsInjective
  <2> QED BY <1>2, <1>3, <2>1, <2>2
<1> QED BY <1>4, <1>6, <1>7 DEF Whole, Half

\* cutting a chunk loses no segment and gives none to both halves
LEMMA SegmentsOfIds ==
    /\ \A c \in Range(Chunks) :
          /\ SegsOf(Whole(c)) = Range(Segs[c])
          /\ SegsOf(Half(c, 1)) \cup SegsOf(Half(c, 2)) = SegsOf(Whole(c))
          /\ SegsOf(Half(c, 1)) \cap SegsOf(Half(c, 2)) = {}
    /\ \A c, d \in Range(Chunks) : c # d => SegsOf(Whole(c)) \cap SegsOf(Whole(d)) = {}
    /\ \A id \in AllIds : SegsOf(id) \subseteq Segments
<1>1. \A c \in Range(Chunks) : SegsOf(Whole(c)) = Range(Segs[c])
  BY DEF SegsOf, Whole
<1>2. ASSUME NEW c \in Range(Chunks)
      PROVE  /\ SegsOf(Half(c, 1)) \cup SegsOf(Half(c, 2)) = SegsOf(Whole(c))
             /\ SegsOf(Half(c, 1)) \cap SegsOf(Half(c, 2)) = {}
  <2> DEFINE q == Segs[c]  m == Middle(c)  n == Len(q)
             left == SubSeq(q, 1, m)  right == SubSeq(q, m + 1, n)
  <2>1. q \in Seq(Range(q)) /\ q # <<>> /\ \A i, k \in DOMAIN q : q[i] = q[k] => i = k
    BY RoundsAssumption DEF IsInjective
  <2>2. n \in Nat /\ n > 0 /\ DOMAIN q = 1..n
    BY <2>1
  <2>3. m \in 1..n
    <3>1. m = IF n \div 2 = 0 THEN 1 ELSE n \div 2
      BY DEF Middle
    <3>2. \A k \in Nat : k > 0 => k \div 2 \in 0..k
      OBVIOUS
    <3> HIDE DEF m, n
    <3> QED BY <2>2, <3>1, <3>2
  <2>4. SegsOf(Half(c, 1)) = Range(left) /\ SegsOf(Half(c, 2)) = Range(right)
    BY DEF SegsOf, Half
  <2> HIDE DEF m
  <2>5. /\ DOMAIN left = 1..m /\ \A i \in 1..m : left[i] = q[i]
        /\ DOMAIN right = 1..n - m /\ \A i \in 1..n - m : right[i] = q[m + i]
    BY <2>1, <2>2, <2>3
  <2>6. Range(left) = {q[i] : i \in 1..m}
    BY <2>5 DEF Range
  <2>7. Range(right) = {q[i] : i \in m + 1..n}
    <3>1. \A i \in m + 1..n : i - m \in 1..n - m /\ m + (i - m) = i
      BY <2>2, <2>3
    <3>2. \A i \in 1..n - m : m + i \in m + 1..n
      BY <2>2, <2>3
    <3>3. ASSUME NEW x \in Range(right) PROVE x \in {q[i] : i \in m + 1..n}
      BY <2>5, <3>2 DEF Range
    <3>4. ASSUME NEW i \in m + 1..n PROVE q[i] \in Range(right)
      <4>1. right[i - m] = q[i] /\ i - m \in DOMAIN right
        BY <2>5, <3>1
      <4> QED BY <4>1 DEF Range
    <3> QED BY <3>3, <3>4
  <2>8. \A i \in 1..n : i \in 1..m \/ i \in m + 1..n
    BY <2>2, <2>3
  <2>9. \A i \in 1..m, k \in m + 1..n : i \in 1..n /\ k \in 1..n /\ i # k
    BY <2>2, <2>3
  <2>10. Range(q) = {q[i] : i \in 1..n}
    BY <2>2 DEF Range
  <2> HIDE DEF q, left, right, n
  <2>11. Range(left) \cup Range(right) = Range(q)
    BY <2>6, <2>7, <2>8, <2>9, <2>10, <2>2, <2>3
  <2>12. Range(left) \cap Range(right) = {}
    BY <2>1, <2>2, <2>6, <2>7, <2>9
  <2> QED BY <1>1, <2>4, <2>11, <2>12 DEF q
<1>3. \A c, d \in Range(Chunks) : c # d => SegsOf(Whole(c)) \cap SegsOf(Whole(d)) = {}
  BY <1>1, RoundsAssumption
<1>4. \A c \in Range(Chunks) : SegsOf(Whole(c)) \subseteq Segments
  BY <1>1 DEF Segments
<1> QED BY <1>1, <1>2, <1>3, <1>4, IdsOfBook

\* no segment has two subtasks, unless one of them is given up
LEMMA OwnersAreUnique ==
    ASSUME ChunksAreOwned, NEW i \in AllIds, NEW j \in AllIds, Held(i), Held(j),
           NEW s \in SegsOf(i), s \in SegsOf(j)
    PROVE  i = j
<1>1. PICK c \in Range(Chunks) : i \in {Whole(c), Half(c, 1), Half(c, 2)}
  BY IdsOfBook
<1>2. PICK d \in Range(Chunks) : j \in {Whole(d), Half(d, 1), Half(d, 2)}
  BY IdsOfBook
<1>3. c = d
  BY <1>1, <1>2, SegmentsOfIds
<1>4. file[Whole(c)].status # "skipped" => Gone(Half(c, 1)) /\ Gone(Half(c, 2))
  BY DEF ChunksAreOwned, ChunkIsOwned
<1>5. SegsOf(Half(c, 1)) \cap SegsOf(Half(c, 2)) = {}
  BY SegmentsOfIds
<1> QED BY <1>1, <1>2, <1>3, <1>4, <1>5 DEF Held, Gone

-----------------------------------------------------------------------------
(* What a recovery plans, and what the executor brings back. *)

LEMMA RecoveryIsSound ==
    ASSUME FilesHaveShape, TextsAreWhole, ChunksAreOwned, NEW id \in DOMAIN Recovery
    PROVE  /\ id \in AllIds /\ Held(id) /\ Recovery[id] \subseteq SegsOf(id)
           /\ Recovery[id] # {} => DOMAIN file[id].text = SegsOf(id)
<1>1. id \in AllIds /\ Recovery[id] = Owned(id) /\ (Owned(id) # {} \/ file[id].status = "failed")
  BY DEF Recovery, AllIds, With
<1>2. ASSUME NEW s \in Owned(id)
      PROVE  Held(id) /\ s \in SegsOf(id) /\ DOMAIN file[id].text = SegsOf(id)
  <2>1. s \in Candidates /\ Ids[Owner(s)] = id
    BY DEF Owned
  <2>2. PICK i \in AllIds : s \in Echoes(file[i]) /\ file[i].status \in {"completed", "failed"}
    BY <2>1 DEF Candidates, With, AllIds
  <2>3. s \in SegsOf(i) /\ Held(i) /\ DOMAIN file[i].text = SegsOf(i)
    BY <2>2 DEF Echoes, TextsAreWhole, TextIsWhole, Held
  <2>4. PICK n \in DOMAIN Ids : Ids[n] = i
    BY DEF AllIds, Range
  <2>5. HoldersOf(s) = {n}
    <3>1. n \in HoldersOf(s)
      BY <2>3, <2>4 DEF HoldersOf, Held
    <3>2. ASSUME NEW m \in HoldersOf(s) PROVE m = n
      <4>1. m \in DOMAIN Ids /\ Ids[m] \in AllIds /\ s \in SegsOf(Ids[m]) /\ Held(Ids[m])
        BY DEF HoldersOf, Held, AllIds, Range
      <4>2. Ids[m] = i
        BY <2>3, <4>1, OwnersAreUnique
      <4> QED BY <2>4, <4>1, <4>2, IdsOfBook
    <3> QED BY <3>1, <3>2
  <2>6. {k \in HoldersOf(s) : file[Ids[k]].status \in {"completed", "failed"}} = {n}
    BY <2>2, <2>4, <2>5
  <2>7. n \in Nat
    BY DEF Ids
  <2>8. Owner(s) = n
    BY <2>6, <2>7 DEF Owner, Max
  <2> QED BY <2>1, <2>3, <2>4, <2>8
<1>3. file[id].status = "failed" => Held(id)
  BY DEF Held
<1> QED BY <1>1, <1>2, <1>3

HasShape(f) ==
    /\ f = [status |-> f.status, text |-> f.text, accepted |-> f.accepted,
            preserved |-> f.preserved, marker |-> f.marker, error |-> f.error,
            byFallback |-> f.byFallback]
    /\ f.status \in Statuses

LEMMA EndedKeeps ==
    ASSUME NEW f, HasShape(f), NEW st \in {"completed", "failed"}, NEW e
    PROVE  LET g == Ended(f, st, e) IN
           /\ HasShape(g) /\ g.status = st /\ g.text = f.text /\ g.accepted = f.accepted
           /\ g.marker = f.marker
<1>1. ASSUME NEW b, NEW g, g = [f EXCEPT !.status = st, !.error = e, !.byFallback = b]
      PROVE  /\ HasShape(g) /\ g.status = st /\ g.text = f.text /\ g.accepted = f.accepted
             /\ g.marker = f.marker
  BY <1>1 DEF HasShape, Statuses
<1>2. Ended(f, st, e) =
        [f EXCEPT !.status = st, !.error = e, !.byFallback = f.byFallback \/ fallback]
  BY Zenon DEF Ended
<1> QED BY <1>1, <1>2

LEMMA TextsOfSegments ==
    ASSUME NEW S, NEW t \in Texts(S)
    PROVE  DOMAIN t = S
BY DEF Texts

LEMMA PlainResults ==
    ASSUME NEW f, HasShape(f), f.marker = {}, NEW S,
           DOMAIN f.text = S \/ DOMAIN f.text = {}, NEW g \in PlainResult(f, S)
    PROVE  /\ HasShape(g) /\ g.status \in {"completed", "failed"} /\ g.marker = {}
           /\ DOMAIN g.text = S \/ (DOMAIN g.text = {} /\ g.status = "failed")
<1>1. CASE g \in {Ended(f, "failed", e) : e \in {"request", "local"}}
  BY <1>1, EndedKeeps
<1>2. CASE \E t \in Texts(S) :
             g = [Ended(f, "completed", "none")
                    EXCEPT !.text = t, !.accepted = {}, !.preserved = Drafts(t)]
  <2>1. PICK t \in Texts(S) :
             g = [Ended(f, "completed", "none")
                    EXCEPT !.text = t, !.accepted = {}, !.preserved = Drafts(t)]
    BY <1>2
  <2>2. HasShape(Ended(f, "completed", "none")) /\ Ended(f, "completed", "none").marker = {}
        /\ Ended(f, "completed", "none").status = "completed"
    BY EndedKeeps
  <2> QED BY <2>1, <2>2, TextsOfSegments DEF HasShape
<1>3. CASE \E t \in Texts(S) :
             g = [Ended(f, "failed", "mismatch")
                    EXCEPT !.text = t, !.accepted = Sound(t), !.preserved = Drafts(t)]
  <2>1. PICK t \in Texts(S) :
             g = [Ended(f, "failed", "mismatch")
                    EXCEPT !.text = t, !.accepted = Sound(t), !.preserved = Drafts(t)]
    BY <1>3
  <2>2. HasShape(Ended(f, "failed", "mismatch")) /\ Ended(f, "failed", "mismatch").marker = {}
        /\ Ended(f, "failed", "mismatch").status = "failed"
    BY EndedKeeps
  <2> QED BY <2>1, <2>2, TextsOfSegments DEF HasShape
<1> DEFINE done(t) == [Ended(f, "completed", "none")
                         EXCEPT !.text = t, !.accepted = {}, !.preserved = Drafts(t)]
           wrong(t) == [Ended(f, "failed", "mismatch")
                         EXCEPT !.text = t, !.accepted = Sound(t), !.preserved = Drafts(t)]
           main == UNION {{done(t)} \cup IF Sound(t) = S THEN {} ELSE {wrong(t)} : t \in Texts(S)}
           rest == {Ended(f, "failed", e) : e \in {"request", "local"}}
<1>4. PlainResult(f, S) = main \cup rest
  BY DEF PlainResult
<1> HIDE DEF done, wrong
<1>5. ASSUME g \in main PROVE \E t \in Texts(S) : g = done(t) \/ g = wrong(t)
  <2>1. PICK t \in Texts(S) : g \in {done(t)} \cup IF Sound(t) = S THEN {} ELSE {wrong(t)}
    BY <1>5
  <2> QED BY <2>1
<1> HIDE DEF main, rest
<1>6. g \in main \/ g \in rest
  BY <1>4
<1> QED BY <1>1, <1>2, <1>3, <1>5, <1>6 DEF done, wrong, rest

LEMMA RecoveredResults ==
    ASSUME NEW f, HasShape(f), NEW S, DOMAIN f.text = S, f.marker \subseteq S,
           NEW g \in Recovered(f, S)
    PROVE  /\ HasShape(g) /\ g.status \in {"completed", "failed"} /\ g.marker = f.marker
           /\ DOMAIN g.text = S /\ S \ f.marker \subseteq g.accepted
<1>1. S \ f.marker \subseteq Accept(f, S)
  BY DEF Accept
<1>2. \A t \in Texts(f.marker) : DOMAIN Merged(f, t) = S
  BY TextsOfSegments DEF Merged
<1>3. CASE \E e \in {"request", "recovery"} :
             g = [Ended(f, "failed", e) EXCEPT !.accepted = Accept(f, S)]
  <2>1. PICK e \in {"request", "recovery"} :
          g = [Ended(f, "failed", e) EXCEPT !.accepted = Accept(f, S)]
    BY <1>3
  <2>2. HasShape(Ended(f, "failed", e)) /\ Ended(f, "failed", e).marker = f.marker
        /\ Ended(f, "failed", e).status = "failed" /\ Ended(f, "failed", e).text = f.text
    BY EndedKeeps
  <2> QED BY <1>1, <2>1, <2>2 DEF HasShape
<1>4. ASSUME NEW t \in Texts(f.marker), NEW st \in {"completed", "failed"}, NEW e, NEW kept,
             S \ f.marker \subseteq kept,
             g = [Ended(f, st, e) EXCEPT !.text = Merged(f, t), !.accepted = kept]
      PROVE  /\ HasShape(g) /\ g.status \in {"completed", "failed"} /\ g.marker = f.marker
             /\ DOMAIN g.text = S /\ S \ f.marker \subseteq g.accepted
  <2>1. /\ HasShape(Ended(f, st, e)) /\ Ended(f, st, e).marker = f.marker
        /\ Ended(f, st, e).status = st
    BY EndedKeeps
  <2> QED BY <1>2, <1>4, <2>1 DEF HasShape
<1>5. CASE \E t \in Texts(f.marker) :
             LET m == Merged(f, t)
                 k == Accept(f, S) \cup {s \in f.marker : m[s] \in {"good", "draft"}}
             IN  \/ g = [Ended(f, "completed", "none") EXCEPT !.text = m, !.accepted = k]
                 \/ g = [Ended(f, "failed", "recovery") EXCEPT !.text = m, !.accepted = k]
  <2>1. PICK t \in Texts(f.marker) :
          LET m == Merged(f, t)
              k == Accept(f, S) \cup {s \in f.marker : m[s] \in {"good", "draft"}}
          IN  \/ g = [Ended(f, "completed", "none") EXCEPT !.text = m, !.accepted = k]
              \/ g = [Ended(f, "failed", "recovery") EXCEPT !.text = m, !.accepted = k]
    BY <1>5
  <2> DEFINE k == Accept(f, S) \cup {s \in f.marker : Merged(f, t)[s] \in {"good", "draft"}}
  <2>2. S \ f.marker \subseteq k
    BY <1>1
  <2>3. \/ g = [Ended(f, "completed", "none") EXCEPT !.text = Merged(f, t), !.accepted = k]
        \/ g = [Ended(f, "failed", "recovery") EXCEPT !.text = Merged(f, t), !.accepted = k]
    BY <2>1
  <2> HIDE DEF k
  <2> QED BY <1>4, <2>2, <2>3
<1> DEFINE kept(t) == Accept(f, S) \cup {s \in f.marker : Merged(f, t)[s] \in {"good", "draft"}}
           all(t) == [Ended(f, "completed", "none")
                        EXCEPT !.text = Merged(f, t), !.accepted = kept(t)]
           some(t) == [Ended(f, "failed", "recovery")
                         EXCEPT !.text = Merged(f, t), !.accepted = kept(t)]
           none(e) == [Ended(f, "failed", e) EXCEPT !.accepted = Accept(f, S)]
           main == UNION {{all(t)} \cup IF Sound(t) = f.marker THEN {} ELSE {some(t)} :
                            t \in Texts(f.marker)}
           rest == {none(e) : e \in {"request", "recovery"}}
<1>6. Recovered(f, S) = main \cup rest
  BY DEF Recovered
<1> HIDE DEF all, some, none
<1>7. ASSUME g \in main PROVE \E t \in Texts(f.marker) : g = all(t) \/ g = some(t)
  <2>1. PICK t \in Texts(f.marker) :
          g \in {all(t)} \cup IF Sound(t) = f.marker THEN {} ELSE {some(t)}
    BY <1>7
  <2> QED BY <2>1
<1>10. ASSUME g \in rest PROVE \E e \in {"request", "recovery"} : g = none(e)
  BY <1>10
<1> HIDE DEF main, rest
<1>11. g \in main \/ g \in rest
  BY <1>6
<1>8. CASE \E e \in {"request", "recovery"} : g = none(e)
  BY <1>3, <1>8 DEF none
<1>9. CASE \E t \in Texts(f.marker) : g = all(t) \/ g = some(t)
  BY <1>5, <1>9 DEF all, some
<1> QED BY <1>7, <1>8, <1>9, <1>10, <1>11

-----------------------------------------------------------------------------
(* The steps that leave the subtask files alone. *)

LEMMA SameFiles ==
    ASSUME RoundsInv, UNCHANGED file
    PROVE  /\ FilesHaveShape' /\ TextsAreWhole'
           /\ \A id \in AllIds : Held(id)' = Held(id) /\ Gone(id)' = Gone(id)
           /\ With("pending")' = With("pending") /\ With("failed")' = With("failed")
BY DEF RoundsInv, FilesHaveShape, TextsAreWhole, TextIsWhole, Held, Gone, With

LEMMA SameChunks ==
    ASSUME RoundsInv, UNCHANGED <<file, todo>>,
           phase' = phase \/ (phase \notin {"seeding", "splitting"} /\ phase' # "seeding")
                          \/ (todo = <<>> /\ phase # "seeding" /\ phase' # "seeding")
    PROVE  ChunksAreOwned' /\ TodoIsUsed'
BY DEF RoundsInv, ChunksAreOwned, ChunkIsOwned, TodoIsUsed, Halving, Held, Gone

LEMMA BeginRoundStep ==
    ASSUME RoundsInv, BeginRound
    PROVE  RoundsInv'
<1>1. /\ UNCHANGED <<file, plan, todo, runs, created>>
      /\ phase = "begin" /\ phase' \in {"ended", "round"}
      /\ record' = "COMPLETED" => phase' = "ended" /\ With("pending") = {} /\ With("failed") = {}
  BY DEF BeginRound, Verdict
<1> QED BY <1>1, SameFiles, SameChunks
        DEF RoundsInv, SeedingIsWhole, PlanIsSound, CompletedIsFinal, Gone, Held

LEMMA EndRoundStep ==
    ASSUME RoundsInv, EndRound
    PROVE  RoundsInv'
<1>1. /\ UNCHANGED <<file, plan, todo, runs, created>> /\ phase = "round" /\ phase' = "ended"
      /\ record' = "COMPLETED" => With("pending") = {} /\ With("failed") = {}
  BY DEF EndRound, Verdict
<1> QED BY <1>1, SameFiles, SameChunks
        DEF RoundsInv, SeedingIsWhole, PlanIsSound, CompletedIsFinal, Gone, Held

LEMMA LoopOnStep ==
    ASSUME RoundsInv, LoopOn
    PROVE  RoundsInv'
<1>1. /\ UNCHANGED <<file, plan, todo, runs, record>> /\ phase = "ended"
      /\ phase' \in {"splitting", "retry"} /\ ~created'
  BY DEF LoopOn, disk
<1>2. todo = <<>>
  BY <1>1 DEF RoundsInv, TodoIsUsed
<1> QED BY <1>1, <1>2, SameFiles, SameChunks
        DEF RoundsInv, SeedingIsWhole, PlanIsSound, CompletedIsFinal, Gone, Held

LEMMA SplitDoneStep ==
    ASSUME RoundsInv, SplitDone
    PROVE  RoundsInv'
<1>1. /\ UNCHANGED <<file, plan, todo, runs, record, created>> /\ phase = "splitting" /\ todo = <<>>
      /\ phase' = IF created THEN "begin" ELSE "retry"
  BY DEF SplitDone, disk, local
<1> QED BY <1>1, SameFiles, SameChunks
        DEF RoundsInv, SeedingIsWhole, PlanIsSound, CompletedIsFinal, Gone, Held

LEMMA RetryStep ==
    ASSUME RoundsInv, Retry
    PROVE  RoundsInv'
<1>1. /\ UNCHANGED <<file, todo, runs, record, created>> /\ phase = "retry"
      /\ \/ phase' = "requeueing" /\ plan' = Recovery /\ With("failed") # {}
         \/ phase' = "closing"
  BY DEF Retry, RetryWanted, local
<1>2. todo = <<>>
  BY <1>1 DEF RoundsInv, TodoIsUsed
<1>3. PlanIsSound'
  BY <1>1, RecoveryIsSound DEF RoundsInv, PlanIsSound, Held
<1> QED BY <1>1, <1>2, <1>3, SameFiles, SameChunks
        DEF RoundsInv, SeedingIsWhole, CompletedIsFinal, Gone, Held

LEMMA CloseTaskStep ==
    ASSUME RoundsInv, CloseTask
    PROVE  RoundsInv'
<1>1. /\ UNCHANGED <<file, runs>> /\ phase = "closing" /\ phase' = "idle" /\ todo' = <<>>
      /\ record' = "COMPLETED" => With("pending") = {} /\ With("failed") = {}
  BY DEF CloseTask, Discard, FinalStatus, RoundsInv, CompletedIsFinal
<1>2. todo = <<>>
  BY <1>1 DEF RoundsInv, TodoIsUsed
<1> QED BY <1>1, <1>2, SameFiles, SameChunks
        DEF RoundsInv, SeedingIsWhole, PlanIsSound, CompletedIsFinal, Gone, Held

LEMMA CrashStep ==
    ASSUME RoundsInv, Crash, CrashAt \cap {"seeding", "splitting"} = {}
    PROVE  RoundsInv'
<1>1. /\ UNCHANGED <<file, runs>> /\ phase \notin {"seeding", "splitting"} /\ phase' = "idle"
      /\ todo' = <<>> /\ record' \in {record, "STOPPED"}
  BY DEF Crash, Discard
<1>2. todo = <<>>
  BY <1>1 DEF RoundsInv, TodoIsUsed
<1> QED BY <1>1, <1>2, SameFiles, SameChunks
        DEF RoundsInv, SeedingIsWhole, PlanIsSound, CompletedIsFinal, Gone, Held

LEMMA PreparedStep ==
    ASSUME RoundsInv, Prepared
    PROVE  RoundsInv'
<1>1. /\ UNCHANGED <<file, runs, record, todo, created>> /\ phase \in {"preparing", "requeueing"}
      /\ phase' = "begin"
  BY DEF Prepared, disk
<1> QED BY <1>1, SameFiles, SameChunks
        DEF RoundsInv, SeedingIsWhole, PlanIsSound, CompletedIsFinal, Gone, Held

LEMMA UserStep ==
    ASSUME RoundsInv, RequestStop \/ RequestPause
    PROVE  RoundsInv'
<1>1. UNCHANGED <<file, runs, record, todo, created, phase, plan>>
  BY DEF RequestStop, RequestPause, disk
<1> QED BY <1>1, SameFiles, SameChunks
        DEF RoundsInv, SeedingIsWhole, PlanIsSound, CompletedIsFinal, Gone, Held

LEMMA StartStep ==
    ASSUME RoundsInv, Start
    PROVE  RoundsInv'
<1>1. /\ UNCHANGED <<file, record, created>> /\ phase = "idle" /\ runs' = runs + 1
      /\ runs = 0 \/ record \in {"STOPPED", "PAUSED", "FAILED"}
      /\ \/ With("absent") = AllIds /\ phase' = "seeding" /\ todo' = Chunks
         \/ /\ With("absent") # AllIds /\ phase' = "preparing" /\ UNCHANGED todo
            /\ plan' = [id \in {} |-> {}] \/ plan' = Recovery
  BY DEF Start, AllIds, disk, local
<1>2. todo = <<>> /\ record # "COMPLETED" /\ runs' \in Nat /\ runs' > 0
  BY <1>1 DEF RoundsInv, TodoIsUsed, SeedingIsWhole
<1>3. CASE phase' = "preparing"
  <2>1. runs # 0
    BY <1>1, <1>3 DEF RoundsInv, SeedingIsWhole, Gone, With, AllIds
  <2>2. PlanIsSound'
    BY <1>1, <1>3, RecoveryIsSound DEF RoundsInv, PlanIsSound, Held
  <2> QED BY <1>1, <1>2, <1>3, <2>1, <2>2, SameFiles, SameChunks
          DEF RoundsInv, SeedingIsWhole, CompletedIsFinal, Gone, Held
<1>4. CASE phase' = "seeding"
  <2>1. With("absent") = AllIds /\ todo' = Chunks
    BY <1>1, <1>4
  <2>2. \A id \in AllIds : file'[id].status = "absent"
    BY <1>1, <2>1 DEF With
  <2>3. ChunksAreOwned' /\ TodoIsUsed'
    BY <1>4, <2>2, IdsOfBook DEF ChunksAreOwned, ChunkIsOwned, TodoIsUsed, Halving, Gone, Held
  <2>4. SeedingIsWhole'
    <3>1. todo' \in Seq(Range(Chunks)) /\ Range(todo') = Range(Chunks)
      BY <2>1, RoundsAssumption
    <3>2. \A c \in Range(Chunks) : file'[Whole(c)].status # "skipped"
      BY <2>2, IdsOfBook
    <3> QED BY <1>2, <1>4, <3>1, <3>2 DEF SeedingIsWhole
  <2> QED BY <1>1, <1>2, <1>4, <2>3, <2>4, SameFiles
          DEF RoundsInv, PlanIsSound, CompletedIsFinal
<1> QED BY <1>1, <1>3, <1>4

-----------------------------------------------------------------------------
(* The steps that write a subtask file. *)

\* a file is written whose subtask exists before and after it
LEMMA Rewrite ==
    ASSUME RoundsInv, NEW id \in AllIds, NEW f, HasShape(f), f.status \notin {"absent", "skipped"},
           Held(id), file' = [file EXCEPT ![id] = f], UNCHANGED <<phase, todo>>,
           TextIsWhole(id)'
    PROVE  /\ FilesHaveShape' /\ TextsAreWhole' /\ ChunksAreOwned' /\ TodoIsUsed'
           /\ \A i \in AllIds : Held(i)' = Held(i) /\ Gone(i)' = Gone(i)
           /\ \A i \in AllIds : i # id => file'[i] = file[i]
<1>1. \A i \in AllIds : file'[i] = IF i = id THEN f ELSE file[i]
  BY DEF RoundsInv, FilesHaveShape
<1>2. FilesHaveShape'
  BY <1>1 DEF RoundsInv, FilesHaveShape, HasShape
<1>3. TextsAreWhole'
  BY <1>1 DEF RoundsInv, TextsAreWhole, TextIsWhole
<1>4. \A i \in AllIds : /\ Held(i)' = Held(i) /\ Gone(i)' = Gone(i)
                        /\ (file'[i].status = "skipped") = (file[i].status = "skipped")
  BY <1>1 DEF Held, Gone
<1>5. ChunksAreOwned' /\ TodoIsUsed'
  BY <1>4, IdsOfBook DEF RoundsInv, ChunksAreOwned, ChunkIsOwned, TodoIsUsed, Halving
<1> QED BY <1>1, <1>2, <1>3, <1>4, <1>5

LEMMA SettleStep ==
    ASSUME RoundsInv, NEW id \in AllIds, Settle(id)
    PROVE  RoundsInv'
<1>1. /\ UNCHANGED <<record, phase, plan, todo, created, runs>> /\ phase = "round"
      /\ file[id].status = "pending"
  BY DEF Settle, local, With
<1>2. PICK f \in IF file[id].marker = {} THEN PlainResult(file[id], SegsOf(id))
                 ELSE Recovered(file[id], SegsOf(id)) : file' = [file EXCEPT ![id] = f]
  BY DEF Settle
<1>3. HasShape(file[id]) /\ TextIsWhole(id)
  BY DEF RoundsInv, FilesHaveShape, TextsAreWhole, HasShape
<1>4. /\ HasShape(f) /\ f.status \in {"completed", "failed"} /\ f.marker = file[id].marker
      /\ DOMAIN f.text = SegsOf(id)
         \/ (DOMAIN f.text = {} /\ f.status = "failed" /\ f.marker = {})
      /\ f.marker # {} => SegsOf(id) \ f.marker \subseteq f.accepted
  <2>1. CASE file[id].marker = {}
    BY <1>2, <1>3, <2>1, PlainResults DEF TextIsWhole
  <2>2. CASE file[id].marker # {}
    BY <1>2, <1>3, <2>2, RecoveredResults DEF TextIsWhole
  <2> QED BY <2>1, <2>2
<1>5. file'[id] = f
  BY <1>2 DEF RoundsInv, FilesHaveShape
<1>6. TextIsWhole(id)'
  BY <1>3, <1>4, <1>5 DEF TextIsWhole
<1>7. Held(id)
  BY <1>1 DEF Held
<1>8. /\ FilesHaveShape' /\ TextsAreWhole' /\ ChunksAreOwned' /\ TodoIsUsed'
      /\ \A i \in AllIds : Held(i)' = Held(i) /\ Gone(i)' = Gone(i)
  BY <1>1, <1>2, <1>4, <1>6, <1>7, Rewrite
<1>9. SeedingIsWhole'
  BY <1>1, <1>8, IdsOfBook DEF RoundsInv, SeedingIsWhole, Gone
<1>10. PlanIsSound' /\ CompletedIsFinal'
  BY <1>1 DEF RoundsInv, PlanIsSound, CompletedIsFinal
<1> QED BY <1>1, <1>8, <1>9, <1>10 DEF RoundsInv

LEMMA PrepareOneStep ==
    ASSUME RoundsInv, PrepareOne
    PROVE  RoundsInv'
<1>1. PICK n \in DOMAIN Ids :
        /\ Ids[n] \in DOMAIN plan
        /\ file' = [file EXCEPT ![Ids[n]].status = "pending",
                                ![Ids[n]].marker = plan[Ids[n]], ![Ids[n]].error = "none"]
        /\ plan' = [i \in DOMAIN plan \ {Ids[n]} |-> plan[i]]
  BY DEF PrepareOne
<1>2. /\ UNCHANGED <<record, phase, todo, created, runs>> /\ phase \in {"preparing", "requeueing"}
  BY DEF PrepareOne, local
<1> DEFINE id == Ids[n]
<1>3. /\ id \in AllIds /\ Held(id) /\ plan[id] \subseteq SegsOf(id)
      /\ plan[id] # {} => DOMAIN file[id].text = SegsOf(id)
  BY <1>1, <1>2 DEF RoundsInv, PlanIsSound
<1>4. HasShape(file[id]) /\ TextIsWhole(id)
  BY <1>3 DEF RoundsInv, FilesHaveShape, TextsAreWhole, HasShape
<1>5. PICK f : f = [file[id] EXCEPT !.status = "pending", !.marker = plan[id], !.error = "none"]
  OBVIOUS
<1>6. /\ HasShape(f) /\ f.status = "pending" /\ f.marker = plan[id] /\ f.text = file[id].text
  BY <1>4, <1>5 DEF HasShape, Statuses
<1>7. file' = [file EXCEPT ![id] = f]
  BY <1>1, <1>3, <1>5 DEF RoundsInv, FilesHaveShape
<1>8. file'[id] = f
  BY <1>3, <1>7 DEF RoundsInv, FilesHaveShape
<1>9. TextIsWhole(id)'
  BY <1>3, <1>4, <1>6, <1>8 DEF TextIsWhole
<1> HIDE DEF id
<1>10. /\ FilesHaveShape' /\ TextsAreWhole' /\ ChunksAreOwned' /\ TodoIsUsed'
       /\ \A i \in AllIds : Held(i)' = Held(i) /\ Gone(i)' = Gone(i)
       /\ \A i \in AllIds : i # id => file'[i] = file[i]
  BY <1>2, <1>3, <1>6, <1>7, <1>9, Rewrite
<1>11. SeedingIsWhole'
  BY <1>2, <1>10, IdsOfBook DEF RoundsInv, SeedingIsWhole, Gone
<1>12. PlanIsSound'
  BY <1>1, <1>2, <1>10 DEF RoundsInv, PlanIsSound, id
<1>13. CompletedIsFinal'
  BY <1>2 DEF RoundsInv, CompletedIsFinal
<1> QED BY <1>2, <1>10, <1>11, <1>12, <1>13 DEF RoundsInv

-----------------------------------------------------------------------------
(* The steps that make and give up subtasks. *)

LEMMA IdsDiffer ==
    /\ \A c, d \in Range(Chunks) : \A i \in {1, 2} : Whole(c) # Half(d, i)
    /\ \A c, d \in Range(Chunks) : Whole(c) = Whole(d) => c = d
    /\ \A c, d \in Range(Chunks) : \A i, j \in {1, 2} : Half(c, i) = Half(d, j) => c = d /\ i = j
BY DEF Whole, Half

LEMMA FreshHasShape ==
    /\ HasShape(Fresh) /\ Fresh.status = "pending" /\ Fresh.marker = {} /\ DOMAIN Fresh.text = {}
<1>1. DOMAIN <<>> = {}
  OBVIOUS
<1>2. HasShape(Unwritten) /\ Unwritten.marker = {} /\ Unwritten.text = <<>>
  BY DEF Unwritten, HasShape, Statuses
<1>3. PICK f : f = [Unwritten EXCEPT !.status = "pending"]
  OBVIOUS
<1>4. HasShape(f) /\ f.status = "pending" /\ f.marker = {} /\ f.text = <<>>
  BY <1>2, <1>3 DEF HasShape, Statuses
<1>5. f = Fresh
  BY <1>3 DEF Fresh
<1> QED BY <1>1, <1>4, <1>5

LEMMA WriteFresh ==
    ASSUME RoundsInv, NEW id \in AllIds, file' = [file EXCEPT ![id] = Fresh]
    PROVE  /\ FilesHaveShape' /\ TextsAreWhole'
           /\ \A i \in AllIds : file'[i] = IF i = id THEN Fresh ELSE file[i]
<1>1. \A i \in AllIds : file'[i] = IF i = id THEN Fresh ELSE file[i]
  BY DEF RoundsInv, FilesHaveShape
<1>2. FilesHaveShape'
  BY <1>1, FreshHasShape DEF RoundsInv, FilesHaveShape, HasShape
<1>3. TextsAreWhole'
  BY <1>1, FreshHasShape DEF RoundsInv, TextsAreWhole, TextIsWhole
<1> QED BY <1>1, <1>2, <1>3

LEMMA SeedStep ==
    ASSUME RoundsInv, Seed
    PROVE  RoundsInv'
<1> DEFINE c == Head(todo)
<1>1. /\ UNCHANGED <<record, phase, plan, created, runs>> /\ phase = "seeding" /\ todo # <<>>
      /\ file' = [file EXCEPT ![Whole(c)] = Fresh] /\ todo' = Tail(todo)
  BY DEF Seed, local
<1>2. /\ todo \in Seq(Range(Chunks)) /\ runs # 0
      /\ \A d \in Range(Chunks) : Gone(Whole(d)) => d \in Range(todo)
      /\ \A d \in Range(Chunks) : file[Whole(d)].status # "skipped"
  BY <1>1 DEF RoundsInv, SeedingIsWhole
<1>3. /\ c \in Range(Chunks) /\ todo' \in Seq(Range(Chunks))
      /\ \A d \in Range(todo) : d = c \/ d \in Range(todo')
  <2>1. c \in Range(Chunks) /\ Tail(todo) \in Seq(Range(Chunks))
    BY <1>1, <1>2
  <2>2. ASSUME NEW i \in DOMAIN todo PROVE todo[i] = c \/ todo[i] \in Range(Tail(todo))
    <3>1. i \in 1..Len(todo) /\ Len(todo) \in Nat
      BY <1>2
    <3>2. i # 1 => i - 1 \in DOMAIN Tail(todo) /\ Tail(todo)[i - 1] = todo[i]
      BY <1>1, <1>2, <3>1
    <3> QED BY <1>1, <1>2, <3>2 DEF Range
  <2> QED BY <1>1, <2>1, <2>2 DEF Range
<1> HIDE DEF c
<1>4. /\ FilesHaveShape' /\ TextsAreWhole'
      /\ \A i \in AllIds : file'[i] = IF i = Whole(c) THEN Fresh ELSE file[i]
  BY <1>1, <1>3, IdsOfBook, WriteFresh
<1>5. \A d \in Range(Chunks) :
        /\ file'[Whole(d)].status # "skipped"
        /\ file'[Half(d, 1)] = file[Half(d, 1)] /\ file'[Half(d, 2)] = file[Half(d, 2)]
  BY <1>2, <1>3, <1>4, IdsOfBook, IdsDiffer, FreshHasShape
<1>6. ChunksAreOwned' /\ TodoIsUsed'
  BY <1>1, <1>2, <1>5 DEF RoundsInv, ChunksAreOwned, ChunkIsOwned, TodoIsUsed, Halving, Gone, Held
<1>7. SeedingIsWhole'
  <2>1. \A d \in Range(Chunks) : Gone(Whole(d))' => d # c /\ Gone(Whole(d))
    BY <1>4, IdsOfBook, FreshHasShape DEF Gone
  <2> QED BY <1>1, <1>2, <1>3, <1>5, <2>1 DEF SeedingIsWhole
<1>8. PlanIsSound' /\ CompletedIsFinal'
  BY <1>1 DEF RoundsInv, PlanIsSound, CompletedIsFinal
<1> QED BY <1>1, <1>4, <1>6, <1>7, <1>8 DEF RoundsInv

LEMMA SeedHeaderStep ==
    ASSUME RoundsInv, SeedHeader
    PROVE  RoundsInv'
<1>1. /\ UNCHANGED <<file, plan, todo, created, runs>> /\ phase = "seeding" /\ todo = <<>>
      /\ phase' = "begin" /\ record' = "PENDING"
  BY DEF SeedHeader, local
<1>2. /\ runs # 0 /\ \A c \in Range(Chunks) : Gone(Whole(c)) => c \in Range(todo)
  BY <1>1 DEF RoundsInv, SeedingIsWhole
<1>3. Range(todo) = {}
  BY <1>1 DEF Range
<1>4. ChunksAreOwned' /\ TodoIsUsed'
  BY <1>1 DEF RoundsInv, ChunksAreOwned, ChunkIsOwned, TodoIsUsed, Halving, Held, Gone
<1>5. FilesHaveShape' /\ TextsAreWhole'
  BY <1>1, SameFiles DEF RoundsInv
<1>6. SeedingIsWhole'
  BY <1>1, <1>2, <1>3 DEF SeedingIsWhole, Gone
<1>7. PlanIsSound' /\ CompletedIsFinal'
  BY <1>1 DEF PlanIsSound, CompletedIsFinal
<1> QED BY <1>1, <1>4, <1>5, <1>6, <1>7 DEF RoundsInv

LEMMA SplitParentStep ==
    ASSUME RoundsInv, NEW id \in AllIds, SplitParent(id)
    PROVE  RoundsInv'
<1>1. /\ UNCHANGED <<phase, plan, created, runs>> /\ phase = "splitting" /\ todo = <<>>
      /\ record' \in {record, "RUNNING"} /\ file' = [file EXCEPT ![id].status = "skipped"]
      /\ todo' = <<Half(id[1], 1), Half(id[1], 2)>>
      /\ file[id].status = "failed" /\ file[id].marker = {} /\ id[2] = 0
  BY DEF SplitParent, Splittable, local
<1>2. PICK c \in Range(Chunks) : id = Whole(c)
  BY <1>1, IdsOfBook DEF Whole, Half
<1>3. record # "COMPLETED"
  BY <1>1 DEF RoundsInv, CompletedIsFinal, With, AllIds
<1>4. HasShape(file[id]) /\ TextIsWhole(id)
  BY DEF RoundsInv, FilesHaveShape, TextsAreWhole, HasShape
<1>5. PICK f : f = [file[id] EXCEPT !.status = "skipped"]
  OBVIOUS
<1>6. /\ HasShape(f) /\ f.status = "skipped" /\ f.marker = {} /\ f.text = file[id].text
  BY <1>1, <1>4, <1>5 DEF HasShape, Statuses
<1>7. \A i \in AllIds : file'[i] = IF i = id THEN f ELSE file[i]
  BY <1>1, <1>5 DEF RoundsInv, FilesHaveShape
<1>8. FilesHaveShape'
  <2>1. file' = [i \in AllIds |-> file'[i]]
    BY <1>1 DEF RoundsInv, FilesHaveShape
  <2>2. \A i \in AllIds : HasShape(file'[i])
    BY <1>6, <1>7 DEF RoundsInv, FilesHaveShape, HasShape
  <2> QED BY <2>1, <2>2 DEF FilesHaveShape, HasShape
<1>9. TextsAreWhole'
  BY <1>4, <1>6, <1>7 DEF RoundsInv, TextsAreWhole, TextIsWhole
<1>10. \A d \in Range(Chunks) :
         /\ file'[Half(d, 1)] = file[Half(d, 1)] /\ file'[Half(d, 2)] = file[Half(d, 2)]
         /\ d # c => file'[Whole(d)] = file[Whole(d)]
  BY <1>2, <1>7, IdsOfBook, IdsDiffer
<1>11. /\ file'[Whole(c)].status = "skipped" /\ Head(todo')[1] = c
       /\ todo' = <<Half(c, 1), Half(c, 2)>>
  BY <1>1, <1>2, <1>6, <1>7 DEF Whole, Half
<1>12. Gone(Half(c, 1)) /\ Gone(Half(c, 2))
  BY <1>1, <1>2 DEF RoundsInv, ChunksAreOwned, ChunkIsOwned
<1>13. \A d \in Range(Chunks) : ~Halving(d) /\ (Halving(d)' <=> d = c)
  BY <1>1, <1>11 DEF Halving
<1>14. ChunksAreOwned'
  <2> SUFFICES ASSUME NEW d \in Range(Chunks) PROVE ChunkIsOwned(d)'
    BY DEF ChunksAreOwned
  <2>1. ChunkIsOwned(d)
    BY DEF RoundsInv, ChunksAreOwned
  <2>2. CASE d = c
    BY <1>10, <1>11, <1>12, <1>13, <2>1, <2>2 DEF ChunkIsOwned, Gone, Held
  <2>3. CASE d # c
    BY <1>10, <1>13, <2>1, <2>3 DEF ChunkIsOwned, Gone, Held
  <2> QED BY <2>2, <2>3
<1>15. TodoIsUsed'
  BY <1>1, <1>13 DEF TodoIsUsed
<1>16. SeedingIsWhole'
  BY <1>1, <1>10, <1>11 DEF RoundsInv, SeedingIsWhole, Gone
<1>17. PlanIsSound' /\ CompletedIsFinal'
  BY <1>1, <1>3 DEF PlanIsSound, CompletedIsFinal
<1> QED BY <1>1, <1>8, <1>9, <1>14, <1>15, <1>16, <1>17 DEF RoundsInv

LEMMA SplitChildStep ==
    ASSUME RoundsInv, SplitChild
    PROVE  RoundsInv'
<1>1. /\ UNCHANGED <<phase, plan, record, runs>> /\ phase = "splitting" /\ todo # <<>>
      /\ file' = [file EXCEPT ![Head(todo)] = Fresh] /\ todo' = Tail(todo)
  BY DEF SplitChild
<1>2. PICK c \in Range(Chunks) : Halving(c)
  BY <1>1 DEF RoundsInv, TodoIsUsed
<1>3. /\ file[Whole(c)].status = "skipped" /\ Gone(Half(c, 2))
      /\ \/ todo = <<Half(c, 1), Half(c, 2)>> /\ Gone(Half(c, 1))
         \/ todo = <<Half(c, 2)>> /\ Held(Half(c, 1))
      /\ file[Half(c, 1)].status # "skipped"
  BY <1>2 DEF RoundsInv, ChunksAreOwned, ChunkIsOwned
<1>4. PICK i \in {1, 2} : Head(todo) = Half(c, i)
  BY <1>3
<1>5. /\ FilesHaveShape' /\ TextsAreWhole'
      /\ \A j \in AllIds : file'[j] = IF j = Half(c, i) THEN Fresh ELSE file[j]
  BY <1>1, <1>4, IdsOfBook, WriteFresh
<1>6. \A d \in Range(Chunks) :
         /\ file'[Whole(d)] = file[Whole(d)]
         /\ d # c => file'[Half(d, 1)] = file[Half(d, 1)] /\ file'[Half(d, 2)] = file[Half(d, 2)]
  BY <1>4, <1>5, IdsOfBook, IdsDiffer
<1>7. \A d \in Range(Chunks) : d # c => ~Halving(d) /\ ~Halving(d)'
  <2>1. Head(todo)[1] = c
    BY <1>4 DEF Half
  <2>2. todo' # <<>> => Head(todo')[1] = c
    BY <1>1, <1>3 DEF Half
  <2> QED BY <2>1, <2>2 DEF Halving
<1>8. ASSUME todo = <<Half(c, 1), Half(c, 2)>>, Gone(Half(c, 1))
      PROVE  ChunkIsOwned(c)' /\ Halving(c)'
  <2>1. todo' = <<Half(c, 2)>> /\ Head(todo) = Half(c, 1) /\ Halving(c)'
    BY <1>1, <1>8 DEF Halving, Half
  <2>2. file'[Half(c, 1)] = Fresh /\ file'[Half(c, 2)] = file[Half(c, 2)]
    BY <1>2, <1>4, <1>5, <2>1, IdsOfBook, IdsDiffer
  <2>3. ChunkIsOwned(c)'
    BY <1>3, <1>6, <2>1, <2>2, FreshHasShape DEF ChunkIsOwned, Gone, Held
  <2> QED BY <2>1, <2>3
<1>9. ASSUME todo = <<Half(c, 2)>>, Held(Half(c, 1))
      PROVE  ChunkIsOwned(c)' /\ todo' = <<>>
  <2>1. todo' = <<>> /\ Head(todo) = Half(c, 2) /\ ~Halving(c)'
    BY <1>1, <1>9 DEF Halving
  <2>2. file'[Half(c, 2)] = Fresh /\ file'[Half(c, 1)] = file[Half(c, 1)]
    BY <1>2, <1>4, <1>5, <2>1, IdsOfBook, IdsDiffer
  <2>3. ChunkIsOwned(c)'
    BY <1>3, <1>6, <1>9, <2>1, <2>2, FreshHasShape DEF ChunkIsOwned, Gone, Held
  <2> QED BY <2>1, <2>3
<1>10. ChunkIsOwned(c)' /\ TodoIsUsed'
  BY <1>1, <1>3, <1>8, <1>9 DEF TodoIsUsed
<1>11. ChunksAreOwned'
  <2> SUFFICES ASSUME NEW d \in Range(Chunks), d # c PROVE ChunkIsOwned(d)'
    BY <1>10 DEF ChunksAreOwned
  <2>1. ChunkIsOwned(d)
    BY DEF RoundsInv, ChunksAreOwned
  <2> QED BY <1>6, <1>7, <2>1 DEF ChunkIsOwned, Gone, Held
<1>12. SeedingIsWhole'
  BY <1>1, <1>6 DEF RoundsInv, SeedingIsWhole, Gone
<1>13. record # "COMPLETED"
  BY <1>1 DEF RoundsInv, CompletedIsFinal
<1>14. PlanIsSound' /\ CompletedIsFinal'
  BY <1>1, <1>13 DEF PlanIsSound, CompletedIsFinal
<1> QED BY <1>1, <1>5, <1>10, <1>11, <1>12, <1>14 DEF RoundsInv

-----------------------------------------------------------------------------
(* The invariant. *)

LEMMA RoundsInvHolds ==
    ASSUME CrashAt \cap {"seeding", "splitting"} = {}
    PROVE  RoundsSpec => []RoundsInv
<1>1. ASSUME RoundsInit PROVE RoundsInv
  <2>1. \A id \in AllIds : file[id] = Unwritten
    BY <1>1 DEF RoundsInit, Fill, AllIds
  <2>2. /\ HasShape(Unwritten) /\ Unwritten.status = "absent" /\ Unwritten.marker = {}
        /\ DOMAIN Unwritten.text = {}
    <3>1. DOMAIN <<>> = {}
      OBVIOUS
    <3> QED BY <3>1 DEF Unwritten, HasShape, Statuses
  <2>3. FilesHaveShape
    <3>1. file = [id \in AllIds |-> file[id]]
      BY <1>1 DEF RoundsInit, Fill, AllIds
    <3> QED BY <2>1, <2>2, <3>1 DEF FilesHaveShape, HasShape
  <2>4. TextsAreWhole
    BY <2>1, <2>2 DEF TextsAreWhole, TextIsWhole
  <2>5. phase = "idle" /\ record = "PENDING" /\ todo = <<>> /\ runs = 0
    BY <1>1 DEF RoundsInit
  <2>6. \A c \in Range(Chunks) : Gone(Whole(c)) /\ Gone(Half(c, 1)) /\ Gone(Half(c, 2))
    BY <2>1, <2>2, IdsOfBook DEF Gone
  <2>7. ChunksAreOwned
    BY <2>5, <2>6 DEF ChunksAreOwned, ChunkIsOwned, Gone, Halving
  <2>8. SeedingIsWhole /\ TodoIsUsed /\ PlanIsSound /\ CompletedIsFinal
    BY <2>1, <2>2, <2>5 DEF SeedingIsWhole, TodoIsUsed, PlanIsSound, CompletedIsFinal, Gone
  <2> QED BY <2>3, <2>4, <2>5, <2>7, <2>8 DEF RoundsInv
<1>2. ASSUME RoundsInv, RoundsNext PROVE RoundsInv'
  <2>1. ASSUME Work PROVE RoundsInv'
    <3>1. CASE Seed \/ SeedHeader
      BY <1>2, <3>1, SeedStep, SeedHeaderStep
    <3>2. CASE PrepareOne \/ Prepared
      BY <1>2, <3>2, PrepareOneStep, PreparedStep
    <3>3. CASE BeginRound \/ EndRound
      BY <1>2, <3>3, BeginRoundStep, EndRoundStep
    <3>4. CASE LoopOn \/ SplitDone
      BY <1>2, <3>4, LoopOnStep, SplitDoneStep
    <3>5. CASE SplitChild
      BY <1>2, <3>5, SplitChildStep
    <3>6. CASE Retry \/ CloseTask
      BY <1>2, <3>6, RetryStep, CloseTaskStep
    <3>7. CASE \E id \in Range(Ids) : Settle(id) \/ SplitParent(id)
      BY <1>2, <3>7, SettleStep, SplitParentStep DEF AllIds
    <3> QED BY <2>1, <3>1, <3>2, <3>3, <3>4, <3>5, <3>6, <3>7 DEF Work
  <2>2. CASE Start
    BY <1>2, <2>2, StartStep
  <2>3. CASE RequestStop \/ RequestPause
    BY <1>2, <2>3, UserStep
  <2>4. CASE Crash
    BY <1>2, <2>4, CrashStep
  <2> QED BY <1>2, <2>1, <2>2, <2>3, <2>4 DEF RoundsNext
<1>3. ASSUME RoundsInv, UNCHANGED roundVars PROVE RoundsInv'
  <2>1. UNCHANGED <<file, record, phase, plan, todo, created, runs>>
    BY <1>3 DEF roundVars
  <2>2. FilesHaveShape' /\ TextsAreWhole' /\ ChunksAreOwned' /\ TodoIsUsed'
    BY <1>3, <2>1, SameFiles, SameChunks
  <2>3. SeedingIsWhole' /\ PlanIsSound' /\ CompletedIsFinal'
    BY <1>3, <2>1
       DEF RoundsInv, SeedingIsWhole, PlanIsSound, CompletedIsFinal, Gone, Held, With
  <2> QED BY <1>3, <2>1, <2>2, <2>3 DEF RoundsInv
<1> QED BY <1>1, <1>2, <1>3, PTL DEF RoundsSpec

-----------------------------------------------------------------------------
(* What the invariant says of a task at rest. *)

LEMMA EverySegmentIsHeld ==
    ASSUME RoundsInv, phase = "idle", runs > 0, NEW s \in Segments
    PROVE  \E id \in AllIds : s \in SegsOf(id) /\ Held(id)
<1>1. PICK c \in Range(Chunks) : s \in SegsOf(Whole(c))
  BY SegmentsOfIds DEF Segments
<1>2. ~Gone(Whole(c)) /\ ChunkIsOwned(c) /\ ~Halving(c)
  BY DEF RoundsInv, SeedingIsWhole, ChunksAreOwned, Halving
<1>3. CASE file[Whole(c)].status = "skipped"
  <2>1. Held(Half(c, 1)) /\ Held(Half(c, 2))
    BY <1>2, <1>3 DEF ChunkIsOwned
  <2> QED BY <1>1, <2>1, IdsOfBook, SegmentsOfIds
<1>4. CASE file[Whole(c)].status # "skipped"
  BY <1>1, <1>2, <1>4, IdsOfBook DEF Gone, Held
<1> QED BY <1>3, <1>4

LEMMA HeldIsCountedOrOpen ==
    ASSUME RoundsInv, NEW id \in AllIds, Held(id), NEW s \in SegsOf(id)
    PROVE  s \in Translated \/ id \in With("pending") \cup With("failed")
<1>1. file[id].status \in {"pending", "completed", "failed"}
  BY DEF RoundsInv, FilesHaveShape, Held, Statuses
<1>2. CASE file[id].status = "completed"
  <2>1. s \in DOMAIN file[id].text
    BY <1>2 DEF RoundsInv, TextsAreWhole, TextIsWhole
  <2> QED BY <1>2, <2>1 DEF Translated, Counted, AllIds
<1> QED BY <1>1, <1>2 DEF With, AllIds

LEMMA TranslatedIsOfTheBook ==
    ASSUME RoundsInv
    PROVE  Translated \subseteq Segments
<1>1. ASSUME NEW id \in AllIds PROVE Counted(id) \subseteq SegsOf(id)
  BY DEF RoundsInv, TextsAreWhole, TextIsWhole, Counted
<1> QED BY <1>1, SegmentsOfIds DEF Translated, AllIds

LEMMA AtRest ==
    ASSUME RoundsInv
    PROVE  CompletedMeansTranslated /\ NothingIsLost
<1>1. CompletedMeansTranslated
  <2> SUFFICES ASSUME phase = "idle", record = "COMPLETED", NEW s \in Segments
               PROVE  s \in Translated
    BY TranslatedIsOfTheBook DEF CompletedMeansTranslated
  <2>1. runs > 0 /\ With("pending") = {} /\ With("failed") = {}
    BY DEF RoundsInv, SeedingIsWhole, CompletedIsFinal
  <2>2. PICK id \in AllIds : s \in SegsOf(id) /\ Held(id)
    BY <2>1, EverySegmentIsHeld
  <2> QED BY <2>1, <2>2, HeldIsCountedOrOpen
<1>2. GapsCanBeFilled
  <2> SUFFICES ASSUME phase = "idle", runs > 0, NEW s \in Segments \ Translated
               PROVE  \E id \in With("pending") \cup With("failed") : s \in SegsOf(id)
    BY DEF GapsCanBeFilled
  <2>1. PICK id \in AllIds : s \in SegsOf(id) /\ Held(id)
    BY EverySegmentIsHeld
  <2> QED BY <2>1, HeldIsCountedOrOpen
<1>3. RecoveryKeepsTheRest
  <2> SUFFICES ASSUME NEW id \in With("failed"), file[id].marker # {},
                      NEW s \in SegsOf(id) \ file[id].marker,
                      TextOf(file[id], s) \in {"good", "draft"}
               PROVE  s \in Counted(id)
    BY DEF RecoveryKeepsTheRest
  <2>1. id \in AllIds /\ file[id].status = "failed"
    BY DEF With, AllIds
  <2>2. s \in file[id].accepted
    BY <2>1 DEF RoundsInv, TextsAreWhole, TextIsWhole
  <2>3. s \in DOMAIN file[id].text
    BY DEF TextOf
  <2> QED BY <2>1, <2>2, <2>3 DEF Counted
<1> QED BY <1>1, <1>2, <1>3 DEF NothingIsLost

\* A task that says COMPLETED has translated every segment of its book, for every book and
\* every number of runs and crashes: splits, recoveries and the advanced retry hand the
\* segments on without a gap (_split_failed_payload, _prepare_segment_recovery,
\* TranslationOrchestrator.run).  The two places where a crash does leave a gap are excluded: the
\* seeding (TaskCache.write_seed) and the making of the halves.
THEOREM CompletedBooksAreTranslated ==
    ASSUME CrashAt \cap {"seeding", "splitting"} = {}
    PROVE  RoundsSpec => []CompletedMeansTranslated
<1>1. RoundsInv => CompletedMeansTranslated
  BY AtRest
<1> QED BY <1>1, RoundsInvHolds, PTL

\* A task at rest owns what it has not translated in a subtask that Continue runs again, and
\* a recovery that fails keeps the other rows of its chunk in the output (runner.py,
\* TranslationRecoveryRunner).
THEOREM SegmentsAreNeverLost ==
    ASSUME CrashAt \cap {"seeding", "splitting"} = {}
    PROVE  RoundsSpec => []NothingIsLost
<1>1. RoundsInv => NothingIsLost
  BY AtRest
<1> QED BY <1>1, RoundsInvHolds, PTL
-----------------------------------------------------------------------------
(* Which route a failure was sent to, and what a stop leaves to start. *)

\* once the executor of a run is built it goes where the record of the task says
RouteIsRecorded ==
    /\ phase \notin {"idle", "seeding", "preparing", "requeueing"} =>
        /\ retryState = adv
        /\ adv = "running" => fallback
    /\ phase \in {"idle", "seeding"} => retryState = ""
OnlyRoutedRetry == adv = "running" => routed

\* a chunk that still fails in the retry was sent to the fallback, or is yet to be planned again
FailedWereRetried ==
    adv = "running" =>
        \A id \in With("failed") :
            file[id].byFallback \/ (phase = "requeueing" /\ id \in DOMAIN plan)

\* after STOPPED the run only closes
StoppedIsClosing ==
    ran /\ record = "STOPPED" => stop /\ phase \in {"ended", "retry", "closing"}

RetryInv == RouteIsRecorded /\ OnlyRoutedRetry /\ FailedWereRetried /\ StoppedIsClosing

LEMMA EndedByFallback ==
    ASSUME NEW f, HasShape(f), NEW st, NEW e, fallback
    PROVE  DOMAIN Ended(f, st, e) = DOMAIN f /\ Ended(f, st, e).byFallback
<1>1. ASSUME NEW b, b, NEW g, g = [f EXCEPT !.status = st, !.error = e, !.byFallback = b]
      PROVE  DOMAIN g = DOMAIN f /\ g.byFallback
  BY <1>1 DEF HasShape
<1>2. Ended(f, st, e) =
        [f EXCEPT !.status = st, !.error = e, !.byFallback = f.byFallback \/ fallback]
  BY Zenon DEF Ended
<1> QED BY <1>1, <1>2

LEMMA PlainByFallback ==
    ASSUME NEW f, HasShape(f), NEW S, fallback, NEW g \in PlainResult(f, S)
    PROVE  g.byFallback
<1> DEFINE done(t) == [Ended(f, "completed", "none")
                         EXCEPT !.text = t, !.accepted = {}, !.preserved = Drafts(t)]
           wrong(t) == [Ended(f, "failed", "mismatch")
                         EXCEPT !.text = t, !.accepted = Sound(t), !.preserved = Drafts(t)]
           main == UNION {{done(t)} \cup IF Sound(t) = S THEN {} ELSE {wrong(t)} : t \in Texts(S)}
           rest == {Ended(f, "failed", e) : e \in {"request", "local"}}
<1>1. PlainResult(f, S) = main \cup rest
  BY DEF PlainResult
<1>2. \A t : done(t).byFallback /\ wrong(t).byFallback
  BY EndedByFallback
<1>3. \A e : Ended(f, "failed", e).byFallback
  BY EndedByFallback
<1> HIDE DEF done, wrong
<1>4. ASSUME g \in main PROVE \E t \in Texts(S) : g = done(t) \/ g = wrong(t)
  <2>1. PICK t \in Texts(S) : g \in {done(t)} \cup IF Sound(t) = S THEN {} ELSE {wrong(t)}
    BY <1>4
  <2> QED BY <2>1
<1>5. ASSUME g \in rest PROVE \E e : g = Ended(f, "failed", e)
  BY <1>5
<1> HIDE DEF main, rest
<1>6. g \in main \/ g \in rest
  BY <1>1
<1> QED BY <1>2, <1>3, <1>4, <1>5, <1>6

LEMMA RecoveredByFallback ==
    ASSUME NEW f, HasShape(f), NEW S, fallback, NEW g \in Recovered(f, S)
    PROVE  g.byFallback
<1> DEFINE kept(t) == Accept(f, S) \cup {s \in f.marker : Merged(f, t)[s] \in {"good", "draft"}}
           all(t) == [Ended(f, "completed", "none")
                        EXCEPT !.text = Merged(f, t), !.accepted = kept(t)]
           some(t) == [Ended(f, "failed", "recovery")
                         EXCEPT !.text = Merged(f, t), !.accepted = kept(t)]
           none(e) == [Ended(f, "failed", e) EXCEPT !.accepted = Accept(f, S)]
           main == UNION {{all(t)} \cup IF Sound(t) = f.marker THEN {} ELSE {some(t)} :
                            t \in Texts(f.marker)}
           rest == {none(e) : e \in {"request", "recovery"}}
<1>1. Recovered(f, S) = main \cup rest
  BY DEF Recovered
<1>2. \A t : all(t).byFallback /\ some(t).byFallback
  <2> HIDE DEF kept
  <2> QED BY EndedByFallback
<1>3. \A e : none(e).byFallback
  BY EndedByFallback
<1> HIDE DEF all, some, none
<1>4. ASSUME g \in main PROVE \E t \in Texts(f.marker) : g = all(t) \/ g = some(t)
  <2>1. PICK t \in Texts(f.marker) :
          g \in {all(t)} \cup IF Sound(t) = f.marker THEN {} ELSE {some(t)}
    BY <1>4
  <2> QED BY <2>1
<1>5. ASSUME g \in rest PROVE \E e : g = none(e)
  BY <1>5
<1> HIDE DEF main, rest
<1>6. g \in main \/ g \in rest
  BY <1>1
<1> QED BY <1>2, <1>3, <1>4, <1>5, <1>6

\* a subtask is written and does not fail, or fails at the fallback
LEMMA OneFileWritten ==
    ASSUME RoundsInv, RetryInv, NEW id \in AllIds, NEW f, file' = [file EXCEPT ![id] = f],
           f.status # "failed" \/ f.byFallback,
           UNCHANGED <<adv, phase>>, phase = "requeueing" => DOMAIN plan \ {id} \subseteq DOMAIN plan'
    PROVE  FailedWereRetried'
<1>1. \A i \in AllIds : file'[i] = IF i = id THEN f ELSE file[i]
  BY DEF RoundsInv, FilesHaveShape
<1>2. SUFFICES ASSUME adv' = "running", NEW i \in AllIds, file'[i].status = "failed"
               PROVE  file'[i].byFallback \/ (phase' = "requeueing" /\ i \in DOMAIN plan')
  BY DEF FailedWereRetried, With, AllIds
<1>3. CASE i = id
  BY <1>1, <1>2, <1>3
<1>4. CASE i # id
  BY <1>1, <1>2, <1>4 DEF RetryInv, FailedWereRetried, With, AllIds
<1> QED BY <1>3, <1>4

\* steps that leave the files alone
LEMMA FailedKept ==
    ASSUME RetryInv, UNCHANGED <<file, plan>>, adv' = "running" => adv = "running",
           phase = "requeueing" => phase' = "requeueing" \/ DOMAIN plan = {}
    PROVE  FailedWereRetried'
BY DEF RetryInv, FailedWereRetried, With

LEMMA RetryInvNext ==
    ASSUME RoundsInv, RetryInv, RoundsNext, "requeueing" \notin CrashAt
    PROVE  RetryInv' /\ (adv = "running" /\ adv' = "done" =>
                            \A id \in With("failed") : file[id].byFallback)
                     /\ (ran /\ record = "STOPPED" => record' # "RUNNING")
<1> DEFINE Goal == /\ RetryInv'
                   /\ adv = "running" /\ adv' = "done" =>
                         \A id \in With("failed") : file[id].byFallback
                   /\ ran /\ record = "STOPPED" => record' # "RUNNING"
<1> USE DEF RouteIsRecorded, OnlyRoutedRetry, StoppedIsClosing
<1>1. CASE Start
  BY <1>1, FailedKept DEF RetryInv, Start, disk, local, FailedWereRetried, With
<1>2. CASE RequestStop \/ RequestPause
  <2>1. /\ UNCHANGED <<routed, adv, record, file, plan, phase, ran, retryState, fallback>>
        /\ stop' \in {stop, TRUE}
    BY <1>2 DEF RequestStop, RequestPause, disk
  <2>2. FailedWereRetried'
    BY <2>1, FailedKept
  <2> QED BY <2>1, <2>2 DEF RetryInv
<1>3. CASE Crash
  <2>1. FailedWereRetried'
    BY <1>3 DEF Crash, Discard, RetryInv, FailedWereRetried, With
  <2> QED BY <1>3, <2>1 DEF RetryInv, Crash, Discard
<1>4. CASE Seed
  <2>1. Whole(Head(todo)) \in AllIds
    <3>1. todo \in Seq(Range(Chunks)) /\ todo # <<>>
      BY <1>4 DEF Seed, RoundsInv, SeedingIsWhole
    <3>2. Head(todo) \in Range(Chunks)
      BY <3>1
    <3> QED BY <3>2, IdsOfBook
  <2>2. Fresh.status = "pending"
    BY DEF Fresh, Unwritten
  <2>3. FailedWereRetried'
    BY <1>4, <2>1, <2>2, OneFileWritten DEF Seed
  <2> QED BY <1>4, <2>3 DEF RetryInv, Seed, local
<1>5. CASE SeedHeader
  BY <1>5 DEF RetryInv, SeedHeader, local, FailedWereRetried
<1>6. CASE PrepareOne
  <2>1. PICK n \in DOMAIN Ids :
          /\ Ids[n] \in DOMAIN plan
          /\ file' = [file EXCEPT ![Ids[n]].status = "pending",
                                  ![Ids[n]].marker = plan[Ids[n]], ![Ids[n]].error = "none"]
          /\ plan' = [i \in DOMAIN plan \ {Ids[n]} |-> plan[i]]
    BY <1>6 DEF PrepareOne
  <2>2. UNCHANGED <<adv, phase, record, routed, local>> /\ phase \in {"preparing", "requeueing"}
    BY <1>6 DEF PrepareOne
  <2>3. Ids[n] \in AllIds
    BY <2>1, <2>2 DEF RoundsInv, PlanIsSound
  <2>4. PICK f : f = [file[Ids[n]] EXCEPT !.status = "pending", !.marker = plan[Ids[n]],
                                          !.error = "none"]
    OBVIOUS
  <2>5. HasShape(file[Ids[n]])
    BY <2>3 DEF RoundsInv, FilesHaveShape, HasShape
  <2>6. f.status = "pending" /\ file' = [file EXCEPT ![Ids[n]] = f]
    BY <2>1, <2>3, <2>4, <2>5 DEF RoundsInv, FilesHaveShape, HasShape
  <2>7. FailedWereRetried'
    BY <2>1, <2>2, <2>3, <2>6, OneFileWritten
  <2> QED BY <2>2, <2>7 DEF RetryInv, local
<1>7. CASE Prepared
  <2>1. FailedWereRetried'
    BY <1>7, FailedKept DEF Prepared, disk
  <2> QED BY <1>7, <2>1 DEF RetryInv, Prepared, disk
<1>8. CASE BeginRound
  <2>1. FailedWereRetried'
    BY <1>8, FailedKept DEF BeginRound
  <2>2. StoppedIsClosing'
    BY <1>8 DEF RetryInv, BeginRound, Verdict
  <2> QED BY <1>8, <2>1, <2>2 DEF RetryInv, BeginRound
<1>9. CASE EndRound
  <2>1. FailedWereRetried'
    BY <1>9, FailedKept DEF EndRound
  <2>2. StoppedIsClosing'
    BY <1>9 DEF RetryInv, EndRound, Verdict
  <2> QED BY <1>9, <2>1, <2>2 DEF RetryInv, EndRound
<1>10. CASE LoopOn
  <2>1. FailedWereRetried'
    BY <1>10, FailedKept DEF LoopOn, disk
  <2> QED BY <1>10, <2>1 DEF RetryInv, LoopOn, disk
<1>11. CASE SplitChild
  <2>1. Head(todo) \in AllIds
    <3>1. PICK c \in Range(Chunks) : Halving(c)
      BY <1>11 DEF SplitChild, RoundsInv, TodoIsUsed
    <3>2. ChunkIsOwned(c)
      BY <3>1 DEF RoundsInv, ChunksAreOwned
    <3>3. todo = <<Half(c, 1), Half(c, 2)>> \/ todo = <<Half(c, 2)>>
      BY <3>1, <3>2 DEF ChunkIsOwned
    <3> QED BY <3>3, IdsOfBook
  <2>2. Fresh.status = "pending"
    BY DEF Fresh, Unwritten
  <2>3. FailedWereRetried'
    BY <1>11, <2>1, <2>2, OneFileWritten DEF SplitChild
  <2> QED BY <1>11, <2>3 DEF RetryInv, SplitChild
<1>12. CASE SplitDone
  <2>1. FailedWereRetried'
    BY <1>12, FailedKept DEF SplitDone, disk
  <2> QED BY <1>12, <2>1 DEF RetryInv, SplitDone, disk, local
<1>13. CASE Retry
  <2>1. CASE RetryWanted
    <3>1. With("failed") \subseteq DOMAIN plan' /\ phase' = "requeueing" /\ file' = file
          /\ routed /\ ~stop /\ routed' = routed /\ UNCHANGED <<record, local>> /\ phase = "retry"
          /\ adv' = "running"
      BY <1>13, <2>1 DEF Retry, RetryWanted, Recovery
    <3>2. FailedWereRetried'
      BY <3>1 DEF FailedWereRetried, With
    <3> QED BY <3>1, <3>2 DEF RetryInv, local
  <2>2. CASE ~RetryWanted
    <3>1. UNCHANGED <<adv, plan, file, record, local, routed>> /\ phase = "retry"
          /\ phase' = "closing"
      BY <1>13, <2>2 DEF Retry
    <3>2. FailedWereRetried'
      BY <3>1, FailedKept
    <3> QED BY <3>1, <3>2 DEF RetryInv, local
  <2> QED BY <2>1, <2>2
<1>14. CASE CloseTask
  <2>1. /\ UNCHANGED <<file, routed>> /\ phase = "closing" /\ phase' = "idle" /\ ~ran' /\ retryState = adv
        /\ adv' \in {adv, "done"} /\ (record' # "RUNNING" \/ record' = record) /\ retryState' = ""
    BY <1>14 DEF CloseTask, Discard, FinalStatus, RetryInv
  <2>2. FailedWereRetried'
    BY <2>1 DEF RetryInv, FailedWereRetried, With
  <2>3. adv = "running" => \A id \in With("failed") : file[id].byFallback
    BY <2>1 DEF RetryInv, FailedWereRetried
  <2>4. adv' = "running" => adv = "running"
    BY <2>1
  <2> QED BY <2>1, <2>2, <2>3, <2>4 DEF RetryInv
<1>15. ASSUME NEW id \in AllIds, Settle(id) PROVE Goal
  <2>1. /\ UNCHANGED <<record, adv, phase, plan, routed, local>> /\ phase = "round"
    BY <1>15 DEF Settle
  <2>2. PICK f \in IF file[id].marker = {} THEN PlainResult(file[id], SegsOf(id))
                   ELSE Recovered(file[id], SegsOf(id)) : file' = [file EXCEPT ![id] = f]
    BY <1>15 DEF Settle
  <2>3. HasShape(file[id])
    BY DEF RoundsInv, FilesHaveShape, HasShape
  <2>4. adv = "running" => f.byFallback
    <3> SUFFICES ASSUME adv = "running" PROVE f.byFallback
      OBVIOUS
    <3>1. fallback
      BY <2>1 DEF RetryInv
    <3> QED BY <2>2, <2>3, <3>1, PlainByFallback, RecoveredByFallback
  <2>5. FailedWereRetried'
    <3>1. CASE adv = "running"
      BY <2>1, <2>2, <2>4, <3>1, OneFileWritten
    <3>2. CASE adv # "running"
      BY <2>1, <3>2 DEF FailedWereRetried
    <3> QED BY <3>1, <3>2
  <2> QED BY <2>1, <2>5 DEF RetryInv, local
<1>16. ASSUME NEW id \in AllIds, SplitParent(id) PROVE Goal
  <2>1. /\ UNCHANGED <<adv, phase, plan, routed, local>> /\ phase = "splitting"
        /\ file' = [file EXCEPT ![id].status = "skipped"]
        /\ record' \in {record, "RUNNING"}
    BY <1>16 DEF SplitParent
  <2>2. PICK f : f = [file[id] EXCEPT !.status = "skipped"]
    OBVIOUS
  <2>3. HasShape(file[id])
    BY DEF RoundsInv, FilesHaveShape, HasShape
  <2>4. f.status = "skipped" /\ file' = [file EXCEPT ![id] = f]
    BY <2>1, <2>2, <2>3 DEF RoundsInv, FilesHaveShape, HasShape
  <2>5. FailedWereRetried'
    BY <2>1, <2>4, OneFileWritten
  <2> QED BY <2>1, <2>5 DEF RetryInv, local
<1>17. ASSUME Work PROVE Goal
  <2>1. CASE \E id \in Range(Ids) : Settle(id) \/ SplitParent(id)
    BY <2>1, <1>15, <1>16 DEF AllIds
  <2> QED BY <1>17, <2>1, <1>4, <1>5, <1>6, <1>7, <1>8, <1>9, <1>10, <1>11, <1>12, <1>13, <1>14
          DEF Work
<1> QED BY <1>1, <1>2, <1>3, <1>17 DEF RoundsNext

\* The advanced retry says "done" only when each chunk that still fails was sent to the
\* fallback route, and after a STOPPED run no round or split starts (TranslationOrchestrator.run,
\* _split_failed_subtasks), for every book and any number of runs.  A crash while the retry
\* requeues is excluded: it leaves the chunks not yet requeued out of the retry for good.
THEOREM RetriesAreObedient ==
    ASSUME CrashAt \cap {"seeding", "splitting", "requeueing"} = {}
    PROVE  RoundsSpec => RetriesObey
<1>1. RoundsSpec => []RoundsInv
  BY RoundsInvHolds
<1>2. RoundsInit => RetryInv
  BY DEF RoundsInit, RetryInv, RouteIsRecorded, OnlyRoutedRetry, FailedWereRetried,
         StoppedIsClosing
<1>3. ASSUME RoundsInv, RetryInv, [RoundsNext]_roundVars PROVE RetryInv'
  <2>1. CASE RoundsNext
    BY <1>3, <2>1, RetryInvNext
  <2>2. CASE UNCHANGED roundVars
    BY <1>3, <2>2 DEF roundVars, RetryInv, RouteIsRecorded, OnlyRoutedRetry,
          FailedWereRetried, StoppedIsClosing, With
  <2> QED BY <1>3, <2>1, <2>2
<1>4. ASSUME RoundsInv, RetryInv, [RoundsNext]_roundVars
      PROVE  /\ [adv = "running" /\ adv' = "done" =>
                    \A id \in With("failed") : file[id].byFallback]_roundVars
             /\ [ran /\ record = "STOPPED" => record' # "RUNNING"]_roundVars
  BY <1>4, RetryInvNext
<1> QED BY <1>1, <1>2, <1>3, <1>4, PTL DEF RoundsSpec, RetriesObey, RetryReachesAll,
                                         StoppedStaysStopped

-----------------------------------------------------------------------------
(* The review of a glossary.                                               *)

\* a replay deletes a row if a review round, and not the consistency round, says so
LEMMA ReplayedDeletes ==
    ASSUME NEW dst, NEW acts, NEW r \in Nat
    PROVE  Replayed(dst, acts, r).deleted <=> \E q \in 1..r : q # LastRound /\ acts[q] = "delete"
<1> DEFINE D == {dst} \cup {acts[q] : q \in 1..r}
           R == [dst : D, deleted : BOOLEAN]
           V == [k \in 0..r |-> {v \in R : v.deleted <=> \E q \in 1..k : q # LastRound /\ acts[q] = "delete"}]
           b == [dst |-> dst, deleted |-> FALSE]
           left[q \in 0..r] == IF q = 0 THEN [dst |-> dst, deleted |-> FALSE] ELSE Applied(left[q - 1], acts[q], q)
<1>1. b \in V[0]
  <2>1. b \in R /\ ~b.deleted /\ \A q \in 1..0 : FALSE
    OBVIOUS
  <2> HIDE DEF b, R
  <2> QED BY <2>1
<1>2. ASSUME NEW k \in 1..r, NEW v \in V[k - 1] PROVE Applied(v, acts[k], k) \in V[k]
  <2>0. k - 1 \in 0..r /\ k \in 0..r
    OBVIOUS
  <2>1. v \in R /\ (v.deleted <=> \E q \in 1..(k - 1) : q # LastRound /\ acts[q] = "delete")
    BY <2>0
  <2>2. acts[k] \in D
    OBVIOUS
  <2> HIDE DEF D
  <2>3. v \in R /\ [v EXCEPT !.deleted = TRUE] \in R /\ [v EXCEPT !.deleted = TRUE].deleted
    BY <2>1
  <2>4. [v EXCEPT !.dst = acts[k]] \in R /\ [v EXCEPT !.dst = acts[k]].deleted = v.deleted
    BY <2>1, <2>2
  <2>5. 1..k = (1..(k - 1)) \cup {k}
    OBVIOUS
  <2> HIDE DEF R
  <2>6. /\ Applied(v, acts[k], k) \in R
        /\ Applied(v, acts[k], k).deleted <=> v.deleted \/ (k # LastRound /\ acts[k] = "delete")
    BY <2>3, <2>4 DEF Applied
  <2> QED BY <2>0, <2>1, <2>5, <2>6
<1>3. left = [q \in 0..r |-> IF q = 0 THEN [dst |-> dst, deleted |-> FALSE] ELSE Applied(left[q - 1], acts[q], q)]
  <2> DEFINE G == [k \in 1..r |-> [v \in V[k - 1] |-> Applied(v, acts[k], k)]]
  <2>1. \A k \in 1..r : \A v \in V[k - 1] : G[k][v] = Applied(v, acts[k], k)
    OBVIOUS
  <2>2. \A k \in 1..r : \A v \in V[k - 1] : G[k][v] \in V[k]
    <3> HIDE DEF V, G
    <3> QED BY <1>2, <2>1
  <2>3. PICK f : f[0] = b /\ \A k \in 1..r : f[k] \in V[k] /\ f[k] = G[k][f[k - 1]]
    <3> HIDE DEF V, G, b
    <3>1. StepsWithin(r, V, b, G)
      BY <1>1, <2>2 DEF StepsWithin
    <3>2. HasRun(r, V, b, G)
      BY <3>1, Recursion
    <3> QED BY <3>2 DEF HasRun
  <2> DEFINE g == [k \in 0..r |-> f[k]]
  <2>4. \A k \in 0..r : g[k] = IF k = 0 THEN b ELSE Applied(g[k - 1], acts[k], k)
    <3> HIDE DEF b
    <3> TAKE k \in 0..r
    <3>1. CASE k = 0
      BY <2>3, <3>1
    <3>2. CASE k # 0
      <4>1. k \in 1..r /\ k - 1 \in 0..r /\ (k - 1 # 0 => k - 1 \in 1..r)
        BY <3>2
      <4>2. f[k - 1] \in V[k - 1]
        <5> HIDE DEF V
        <5> QED BY <1>1, <2>3, <4>1
      <4>3. f[k] = Applied(f[k - 1], acts[k], k)
        <5> HIDE DEF V, G
        <5> QED BY <2>1, <2>3, <4>1, <4>2
      <4> QED BY <3>2, <4>1, <4>3
    <3> QED BY <3>1, <3>2
  <2>5. g = [q \in 0..r |-> IF q = 0 THEN [dst |-> dst, deleted |-> FALSE] ELSE Applied(g[q - 1], acts[q], q)]
    <3>1. g = [q \in 0..r |-> g[q]]
      OBVIOUS
    <3> HIDE DEF g
    <3> QED BY <2>4, <3>1
  <2> QED BY <2>5 DEF left
<1>4. Replayed(dst, acts, r) = left[r]
  BY DEF Replayed, left
<1> HIDE DEF left
<1>5. \A k \in 0..r : left[k] \in V[k]
  <2> DEFINE T == {k \in 0..r : left[k] \in V[k]}
  <2>1. 0 \in T
    <3> HIDE DEF V
    <3> QED BY <1>1, <1>3
  <2>2. ASSUME NEW k \in 1..r, k - 1 \in T PROVE k \in T
    <3> HIDE DEF V
    <3>1. k \in 0..r /\ k # 0 /\ left[k - 1] \in V[k - 1]
      BY <2>2
    <3>2. left[k] = Applied(left[k - 1], acts[k], k)
      BY <1>3, <3>1
    <3>3. left[k] \in V[k]
      BY <1>2, <3>1, <3>2
    <3> QED BY <3>1, <3>3
  <2>3. \A k \in 0..r : k \in T
    <3> HIDE DEF T
    <3> QED BY <2>1, <2>2, UpTo
  <2> QED BY <2>3
<1> QED BY <1>4, <1>5

\* the rounds one by one: the decisions stand in the order in which they count
LEMMA DecisionsInOrder ==
    ASSUME NEW n \in Nat, NEW m \in Nat, NEW own,
           \A q \in 1..n : own[q] \in Seq(1..m) /\ Ascends(own[q])
    PROVE  LET h == OneByOne(own, n)
           IN  /\ h \in Seq((1..n) \X (1..m))
               /\ \A i, j \in DOMAIN h : i < j => Earlier(h[i], h[j])
               /\ \A d \in (1..n) \X (1..m) : d \in ToSet(h) <=> d[2] \in ToSet(own[d[1]])
<1> DEFINE D == (1..n) \X (1..m)
           V == [k \in 0..n |-> {s \in Seq(D) :
                    /\ \A i, j \in DOMAIN s : i < j => Earlier(s[i], s[j])
                    /\ \A d \in D : d \in ToSet(s) <=> d[1] <= k /\ d[2] \in ToSet(own[d[1]])}]
           now(q) == [i \in DOMAIN own[q] |-> <<q, own[q][i]>>]
           all[q \in 0..n] == IF q = 0 THEN <<>> ELSE all[q - 1] \o [i \in DOMAIN own[q] |-> <<q, own[q][i]>>]
<1>1. <<>> \in V[0]
  <2>1. <<>> \in Seq(D) /\ DOMAIN <<>> = {} /\ ToSet(<<>>) = {}
    BY DEF ToSet
  <2>2. \A d \in D : ~(d[1] <= 0)
    OBVIOUS
  <2> HIDE DEF D
  <2> QED BY <2>1, <2>2
<1>2. ASSUME NEW k \in 1..n, NEW s \in V[k - 1] PROVE s \o now(k) \in V[k]
  <2>0. k - 1 \in 0..n /\ k \in 0..n
    OBVIOUS
  <2>1. /\ s \in Seq(D) /\ (\A i, j \in DOMAIN s : i < j => Earlier(s[i], s[j]))
        /\ \A d \in D : d \in ToSet(s) <=> d[1] <= k - 1 /\ d[2] \in ToSet(own[d[1]])
    BY <2>0
  <2> DEFINE a == now(k)
             r == s \o a
  <2>2. own[k] \in Seq(1..m) /\ Ascends(own[k]) /\ DOMAIN own[k] = 1..Len(own[k]) /\ Len(own[k]) \in Nat
    OBVIOUS
  <2>3. /\ a \in Seq(D) /\ Len(a) = Len(own[k]) /\ DOMAIN a = 1..Len(a)
        /\ \A i \in 1..Len(a) : a[i] = <<k, own[k][i]>>
    <3>1. \A i \in 1..Len(own[k]) : own[k][i] \in 1..m
      BY <2>2
    <3> QED BY <2>2, <3>1
  <2> HIDE DEF a
  <2>4. /\ r \in Seq(D) /\ Len(r) = Len(s) + Len(a) /\ DOMAIN r = 1..Len(r) /\ Len(s) \in Nat /\ Len(a) \in Nat
        /\ (\A i \in 1..Len(s) : r[i] = s[i]) /\ \A i \in 1..Len(a) : r[Len(s) + i] = a[i]
    <3> HIDE DEF D
    <3>0. s \in Seq(D) /\ a \in Seq(D)
      BY <2>1, <2>3
    <3>1. r \in Seq(D) /\ Len(r) = Len(s) + Len(a) /\ Len(s) \in Nat /\ Len(a) \in Nat
      BY <3>0
    <3>2. \A i \in 1..Len(s) : r[i] = s[i]
      BY <2>1, <2>3
    <3>3. \A i \in 1..Len(a) : r[Len(s) + i] = a[i]
      BY <2>1, <2>3
    <3> QED BY <3>1, <3>2, <3>3
  <2>5. DOMAIN s = 1..Len(s) /\ \A i \in 1..Len(s) : s[i] \in D /\ s[i] \in ToSet(s)
    <3> HIDE DEF D
    <3> QED BY <2>1 DEF ToSet
  <2> HIDE DEF r
  <2>a. Len(r) = Len(s) + Len(a) /\ Len(s) \in Nat /\ Len(a) \in Nat
    BY <2>4
  <2>b. ASSUME NEW i \in 1..Len(r), i > Len(s) PROVE i - Len(s) \in 1..Len(a) /\ r[i] = a[i - Len(s)]
    <3>1. i - Len(s) \in 1..Len(a) /\ Len(s) + (i - Len(s)) = i
      BY <2>a, <2>b
    <3> QED BY <2>4, <3>1
  <2>6. ASSUME NEW i \in 1..Len(r), NEW j \in 1..Len(r), i < j PROVE Earlier(r[i], r[j])
    <3>1. CASE j <= Len(s)
      <4>1. i \in 1..Len(s) /\ j \in 1..Len(s)
        BY <2>4, <2>6, <3>1
      <4> QED BY <2>1, <2>4, <2>5, <2>6, <4>1
    <3>2. CASE i <= Len(s) /\ j > Len(s)
      <4>1. i \in 1..Len(s)
        BY <2>a, <3>2
      <4>2. r[j][1] = k
        <5>1. r[j] = <<k, own[k][j - Len(s)]>>
          BY <2>3, <2>b, <3>2
        <5> QED BY <5>1
      <4>3. r[i] = s[i] /\ s[i] \in D /\ s[i] \in ToSet(s)
        BY <2>4, <2>5, <4>1
      <4>4. s[i][1] <= k - 1
        <5> HIDE DEF D
        <5> QED BY <2>1, <4>3
      <4>5. s[i][1] \in Nat
        BY <4>3
      <4> QED BY <4>2, <4>3, <4>4, <4>5 DEF Earlier
    <3>3. CASE i > Len(s)
      <4>1. j > Len(s) /\ i - Len(s) < j - Len(s)
        BY <2>a, <2>6, <3>3
      <4>2. i - Len(s) \in 1..Len(a) /\ j - Len(s) \in 1..Len(a)
        BY <2>b, <3>3, <4>1
      <4>3. r[i] = <<k, own[k][i - Len(s)]>>
        BY <2>3, <2>b, <3>3, <4>2
      <4>4. r[j] = <<k, own[k][j - Len(s)]>>
        BY <2>3, <2>b, <4>1, <4>2
      <4>5. own[k][i - Len(s)] < own[k][j - Len(s)]
        BY <2>2, <2>3, <4>1, <4>2 DEF Ascends
      <4> QED BY <4>3, <4>4, <4>5 DEF Earlier
    <3> QED BY <2>a, <3>1, <3>2, <3>3
  <2>7. ASSUME NEW d \in D PROVE d \in ToSet(r) <=> d[1] <= k /\ d[2] \in ToSet(own[d[1]])
    <3>1. d \in ToSet(r) <=> d \in ToSet(s) \/ d \in ToSet(a)
      <4>1. d \in ToSet(r) <=> \E i \in 1..Len(r) : d = r[i]
        BY <2>4 DEF ToSet
      <4>2. d \in ToSet(s) <=> \E i \in 1..Len(s) : d = s[i]
        BY <2>5 DEF ToSet
      <4>3. d \in ToSet(a) <=> \E i \in 1..Len(a) : d = a[i]
        BY <2>3 DEF ToSet
      <4>4. ASSUME NEW i \in 1..Len(r), d = r[i] PROVE d \in ToSet(s) \/ d \in ToSet(a)
        <5>1. CASE i <= Len(s)
          <6>1. i \in 1..Len(s)
            BY <2>a, <5>1
          <6> QED BY <2>4, <4>2, <4>4, <6>1
        <5>2. CASE i > Len(s)
          BY <2>b, <4>3, <4>4, <5>2
        <5> QED BY <2>a, <5>1, <5>2
      <4>5. ASSUME NEW i \in 1..Len(s), d = s[i] PROVE d \in ToSet(r)
        BY <2>4, <4>1, <4>5
      <4>6. ASSUME NEW i \in 1..Len(a), d = a[i] PROVE d \in ToSet(r)
        <5>1. Len(s) + i \in 1..Len(r)
          BY <2>4
        <5> QED BY <2>4, <4>1, <4>6, <5>1
      <4> QED BY <4>1, <4>2, <4>3, <4>4, <4>5, <4>6
    <3>2. d \in ToSet(a) <=> d[1] = k /\ d[2] \in ToSet(own[k])
      <4>1. d \in ToSet(a) <=> \E i \in 1..Len(a) : d = <<k, own[k][i]>>
        BY <2>3 DEF ToSet
      <4>2. d[2] \in ToSet(own[k]) <=> \E i \in 1..Len(a) : d[2] = own[k][i]
        BY <2>2, <2>3 DEF ToSet
      <4>3. d = <<d[1], d[2]>>
        OBVIOUS
      <4> QED BY <4>1, <4>2, <4>3
    <3>3. d[1] \in Nat
      OBVIOUS
    <3>4. d \in ToSet(s) <=> d[1] <= k - 1 /\ d[2] \in ToSet(own[d[1]])
      BY <2>1
    <3>5. CASE d[1] = k
      BY <3>1, <3>2, <3>4, <3>5
    <3>6. CASE d[1] # k
      <4>1. d[1] <= k <=> d[1] <= k - 1
        BY <3>3, <3>6
      <4> QED BY <3>1, <3>2, <3>4, <3>6, <4>1
    <3> QED BY <3>5, <3>6
  <2>8. r \in V[k]
    <3> HIDE DEF D
    <3> QED BY <2>0, <2>4, <2>6, <2>7
  <2> QED BY <2>8 DEF r, a
<1>3. all = [q \in 0..n |-> IF q = 0 THEN <<>> ELSE all[q - 1] \o [i \in DOMAIN own[q] |-> <<q, own[q][i]>>]]
  <2> DEFINE G == [k \in 1..n |-> [s \in V[k - 1] |-> s \o now(k)]]
  <2>1. \A k \in 1..n : \A s \in V[k - 1] : G[k][s] = s \o now(k)
    <3> HIDE DEF V
    <3> QED OBVIOUS
  <2>2. \A k \in 1..n : \A s \in V[k - 1] : G[k][s] \in V[k]
    <3> HIDE DEF V, G, now
    <3> QED BY <1>2, <2>1
  <2>3. PICK f : f[0] = <<>> /\ \A k \in 1..n : f[k] \in V[k] /\ f[k] = G[k][f[k - 1]]
    <3> HIDE DEF V, G, D, now
    <3>1. StepsWithin(n, V, <<>>, G)
      BY <1>1, <2>2 DEF StepsWithin
    <3>2. HasRun(n, V, <<>>, G)
      BY <3>1, Recursion
    <3> QED BY <3>2 DEF HasRun
  <2> DEFINE g == [k \in 0..n |-> f[k]]
  <2>4. \A k \in 0..n : g[k] = IF k = 0 THEN <<>> ELSE g[k - 1] \o now(k)
    <3> TAKE k \in 0..n
    <3>1. CASE k = 0
      BY <2>3, <3>1
    <3>2. CASE k # 0
      <4>1. k \in 1..n /\ k - 1 \in 0..n /\ (k - 1 # 0 => k - 1 \in 1..n)
        BY <3>2
      <4>2. f[k - 1] \in V[k - 1]
        <5> HIDE DEF V
        <5> QED BY <1>1, <2>3, <4>1
      <4>3. f[k] = f[k - 1] \o now(k)
        <5> HIDE DEF V, G, now
        <5> QED BY <2>1, <2>3, <4>1, <4>2
      <4> QED BY <3>2, <4>1, <4>3
    <3> QED BY <3>1, <3>2
  <2>5. g = [q \in 0..n |-> IF q = 0 THEN <<>> ELSE g[q - 1] \o [i \in DOMAIN own[q] |-> <<q, own[q][i]>>]]
    <3>1. g = [q \in 0..n |-> g[q]]
      OBVIOUS
    <3> HIDE DEF g
    <3> QED BY <2>4, <3>1
  <2> QED BY <2>5 DEF all
<1>4. OneByOne(own, n) = all[n]
  BY DEF OneByOne, all
<1> HIDE DEF all
<1>5. \A k \in 0..n : all[k] \in V[k]
  <2> DEFINE T == {k \in 0..n : all[k] \in V[k]}
  <2>1. 0 \in T
    <3> HIDE DEF V
    <3> QED BY <1>1, <1>3
  <2>2. ASSUME NEW k \in 1..n, k - 1 \in T PROVE k \in T
    <3> HIDE DEF V
    <3>1. k \in 0..n /\ k # 0 /\ all[k - 1] \in V[k - 1]
      BY <2>2
    <3>2. all[k] = all[k - 1] \o now(k)
      BY <1>3, <3>1
    <3>3. all[k] \in V[k]
      <4> HIDE DEF now
      <4> QED BY <1>2, <3>1, <3>2
    <3> QED BY <3>1, <3>3
  <2>3. \A k \in 0..n : k \in T
    <3> HIDE DEF T
    <3> QED BY <2>1, <2>2, UpTo
  <2> QED BY <2>3
<1> DEFINE h == OneByOne(own, n)
<1>6. h \in V[n]
  <2> HIDE DEF V
  <2> QED BY <1>4, <1>5
<1>7. \A d \in D : d[1] <= n
  OBVIOUS
<1> HIDE DEF h, D
<1>8. n \in 0..n
  OBVIOUS
<1> QED BY <1>6, <1>7, <1>8 DEF h, D

\* what stands before it stays in its place
LEMMA BeforePlace ==
    ASSUME NEW S, NEW q \in Seq(S), NEW i \in 1..Len(q)
    PROVE  Len(RemoveAt(q, i)) = Len(q) - 1 /\ \A j \in 1..(i - 1) : RemoveAt(q, i)[j] = q[j]
<1> DEFINE a == SubSeq(q, 1, i - 1)
           b == SubSeq(q, i + 1, Len(q))
<1>1. a \in Seq(S) /\ Len(a) = i - 1 /\ \A k \in 1..(i - 1) : a[k] = q[k]
  OBVIOUS
<1>2. b \in Seq(S) /\ Len(b) = Len(q) - i
  OBVIOUS
<1>3. RemoveAt(q, i) = a \o b
  BY DEF RemoveAt
<1> HIDE DEF a, b
<1>4. Len(a \o b) = Len(a) + Len(b) /\ \A j \in 1..Len(a) : (a \o b)[j] = a[j]
  <2>1. a \in Seq(S) /\ b \in Seq(S)
    BY <1>1, <1>2
  <2> QED BY <2>1
<1>5. Len(a) + Len(b) = Len(q) - 1
  BY <1>1, <1>2
<1> QED BY <1>1, <1>3, <1>4, <1>5

\* deleted from the last to the first, the rows that go are those that were named
LEMMA DeletedByPlace ==
    ASSUME NEW S, NEW rows \in Seq(S), IsInjective(rows), NEW is
    PROVE  /\ Deleted(rows, is) \in Seq(S) /\ IsInjective(Deleted(rows, is))
           /\ \A y : y \in ToSet(Deleted(rows, is)) <=>
                     y \in ToSet(rows) /\ ~\E i \in DOMAIN rows : i \in is /\ y = rows[i]
<1> DEFINE n == Len(rows)
           at(k) == Len(rows) - k + 1
           gone(y, k) == \E i \in 1..n : i \in is /\ i > n - k /\ y = rows[i]
           V == [k \in 0..n |-> {s \in Seq(S) :
                    /\ IsInjective(s) /\ Len(s) >= n - k /\ (\A j \in 1..(n - k) : s[j] = rows[j])
                    /\ \A y : y \in ToSet(s) <=> y \in ToSet(rows) /\ ~gone(y, k)}]
           next(k, s) == IF at(k) \in is THEN RemoveAt(s, at(k)) ELSE s
           left[k \in 0..Len(rows)] ==
               IF k = 0 THEN rows ELSE IF at(k) \in is THEN RemoveAt(left[k - 1], at(k)) ELSE left[k - 1]
<1>0. n \in Nat /\ DOMAIN rows = 1..n
  OBVIOUS
<1>1. rows \in V[0]
  <2>1. \A y : ~gone(y, 0)
    BY <1>0
  <2>2. n >= n - 0 /\ 0 \in 0..n
    BY <1>0
  <2> HIDE DEF gone
  <2> QED BY <2>1, <2>2
<1>2. ASSUME NEW k \in 1..n, NEW s \in V[k - 1] PROVE next(k, s) \in V[k]
  <2>0. k - 1 \in 0..n /\ k \in 0..n /\ n - (k - 1) = at(k) /\ at(k) \in 1..n /\ at(k) = (n - k) + 1
    BY <1>0
  <2> HIDE DEF at
  <2>1. /\ s \in Seq(S) /\ IsInjective(s) /\ Len(s) >= at(k) /\ (\A j \in 1..at(k) : s[j] = rows[j])
        /\ \A y : y \in ToSet(s) <=> y \in ToSet(rows) /\ ~gone(y, k - 1)
    <3> HIDE DEF gone
    <3> QED BY <2>0
  <2>2. \A y : gone(y, k) <=> gone(y, k - 1) \/ (at(k) \in is /\ y = rows[at(k)])
    <3> HIDE DEF n
    <3>1. ASSUME NEW i \in 1..n PROVE i > n - k <=> i > n - (k - 1) \/ i = at(k)
      <4>1. n \in Nat /\ k \in Nat /\ i \in Nat /\ at(k) = (n - k) + 1
        BY <1>0, <2>0
      <4> QED BY <4>1
    <3> QED BY <2>0, <3>1
  <2> HIDE DEF gone
  <2>3. CASE at(k) \in is
    <3> DEFINE r == RemoveAt(s, at(k))
    <3>1. at(k) \in 1..Len(s) /\ s[at(k)] = rows[at(k)]
      BY <2>0, <2>1
    <3>2. r \in Seq(S) /\ IsInjective(r) /\ ToSet(r) = ToSet(s) \ {s[at(k)]}
      BY <2>1, <3>1, WithoutPlace
    <3>3. Len(r) = Len(s) - 1 /\ \A j \in 1..(at(k) - 1) : r[j] = s[j]
      BY <2>1, <3>1, BeforePlace
    <3> HIDE DEF r
    <3>4. Len(r) >= n - k /\ \A j \in 1..(n - k) : r[j] = rows[j]
      <4>1. Len(s) \in Nat /\ n - k = at(k) - 1 /\ \A j \in 1..(n - k) : j \in 1..at(k)
        BY <1>0, <2>0, <2>1
      <4> HIDE DEF n
      <4>2. \A j \in 1..(n - k) : r[j] = rows[j]
        BY <2>1, <3>3, <4>1
      <4>3. Len(r) >= n - k
        BY <2>0, <2>1, <3>3, <4>1
      <4> QED BY <4>2, <4>3
    <3>5. \A y : y \in ToSet(r) <=> y \in ToSet(rows) /\ ~gone(y, k)
      BY <2>1, <2>2, <2>3, <3>1, <3>2
    <3> QED BY <2>0, <2>3, <3>2, <3>4, <3>5 DEF r
  <2>4. CASE at(k) \notin is
    <3>1. \A y : y \in ToSet(s) <=> y \in ToSet(rows) /\ ~gone(y, k)
      BY <2>1, <2>2, <2>4
    <3>2. Len(s) >= n - k /\ \A j \in 1..(n - k) : s[j] = rows[j]
      <4>1. Len(s) \in Nat /\ n - k = at(k) - 1 /\ \A j \in 1..(n - k) : j \in 1..at(k)
        BY <1>0, <2>0, <2>1
      <4> HIDE DEF n
      <4> QED BY <2>0, <2>1, <4>1
    <3> QED BY <2>0, <2>1, <2>4, <3>1, <3>2
  <2> QED BY <2>3, <2>4
<1>3. left = [k \in 0..Len(rows) |->
                IF k = 0 THEN rows ELSE IF at(k) \in is THEN RemoveAt(left[k - 1], at(k)) ELSE left[k - 1]]
  <2> DEFINE G == [k \in 1..n |-> [s \in V[k - 1] |-> next(k, s)]]
  <2>1. \A k \in 1..n : \A s \in V[k - 1] : G[k][s] = next(k, s)
    <3> HIDE DEF V, next
    <3> QED OBVIOUS
  <2>2. \A k \in 1..n : \A s \in V[k - 1] : G[k][s] \in V[k]
    <3> HIDE DEF V, G, next
    <3> QED BY <1>2, <2>1
  <2>3. PICK f : f[0] = rows /\ \A k \in 1..n : f[k] \in V[k] /\ f[k] = G[k][f[k - 1]]
    <3> HIDE DEF V, G
    <3>1. StepsWithin(n, V, rows, G)
      BY <1>1, <2>2 DEF StepsWithin
    <3>2. HasRun(n, V, rows, G)
      BY <1>0, <3>1, Recursion
    <3> QED BY <3>2 DEF HasRun
  <2> DEFINE g == [k \in 0..n |-> f[k]]
  <2>4. \A k \in 0..n : g[k] = IF k = 0 THEN rows ELSE next(k, g[k - 1])
    <3> HIDE DEF next
    <3> TAKE k \in 0..n
    <3>1. CASE k = 0
      BY <2>3, <3>1
    <3>2. CASE k # 0
      <4>1. k \in 1..n /\ k - 1 \in 0..n /\ (k - 1 # 0 => k - 1 \in 1..n)
        BY <1>0, <3>2
      <4>2. f[k - 1] \in V[k - 1]
        <5> HIDE DEF V
        <5> QED BY <1>1, <2>3, <4>1
      <4>3. f[k] = next(k, f[k - 1])
        <5> HIDE DEF V, G, next
        <5> QED BY <2>1, <2>3, <4>1, <4>2
      <4> QED BY <3>2, <4>1, <4>3
    <3> QED BY <3>1, <3>2
  <2>5. g = [k \in 0..Len(rows) |->
               IF k = 0 THEN rows ELSE IF at(k) \in is THEN RemoveAt(g[k - 1], at(k)) ELSE g[k - 1]]
    <3>1. g = [k \in 0..Len(rows) |-> g[k]]
      OBVIOUS
    <3> HIDE DEF g, at
    <3> QED BY <2>4, <3>1
  <2> QED BY <2>5 DEF left
<1>4. Deleted(rows, is) = left[n]
  BY DEF Deleted, left
<1> HIDE DEF left
<1>5. \A k \in 0..n : left[k] \in V[k]
  <2> DEFINE T == {k \in 0..n : left[k] \in V[k]}
  <2>1. 0 \in T
    <3> HIDE DEF V
    <3> QED BY <1>0, <1>1, <1>3
  <2>2. ASSUME NEW k \in 1..n, k - 1 \in T PROVE k \in T
    <3> HIDE DEF V
    <3>1. k \in 0..n /\ k # 0 /\ left[k - 1] \in V[k - 1]
      BY <2>2
    <3>2. left[k] = next(k, left[k - 1])
      <4> HIDE DEF at
      <4> QED BY <1>3, <3>1
    <3>3. left[k] \in V[k]
      <4> HIDE DEF next
      <4> QED BY <1>2, <3>1, <3>2
    <3> QED BY <3>1, <3>3
  <2>3. \A k \in 0..n : k \in T
    <3> HIDE DEF T, n
    <3> QED BY <1>0, <2>1, <2>2, UpTo
  <2> QED BY <2>3
<1>6. left[n] \in V[n] /\ n \in 0..n
  <2> HIDE DEF V, n
  <2> QED BY <1>0, <1>5
<1>7. \A y : gone(y, n) <=> \E i \in DOMAIN rows : i \in is /\ y = rows[i]
  BY <1>0
<1> HIDE DEF gone, n
<1> QED BY <1>4, <1>6, <1>7

-----------------------------------------------------------------------------
(* What is known of the rounds. *)

\* a row is passed over in a round
Skipped(bs, x, r) ==
    \/ After(bs, r - 1)[x].deleted
    \/ IF r = LastRound THEN ~review.terms[x].isName ELSE Agrees(bs, x, r)
Answered(bs, r) == \A k \in InRound(bs, r) : bs[k].status = "COMPLETED"
Covered(bs, r)  == \A x \in Terms : (\E k \in InRound(bs, r) : x \in bs[k].terms) \/ Skipped(bs, x, r)
WholeTo(bs, r)  == \A q \in 1..r : Answered(bs, q) /\ Covered(bs, q)
\* batches come after a round only, and the answered ones stay
Grows(bs, cs, r) ==
    /\ \A k \in DOMAIN bs : /\ k \in DOMAIN cs /\ cs[k].terms = bs[k].terms
                            /\ bs[k].status = "COMPLETED" => cs[k] = bs[k]
    /\ \A k \in DOMAIN cs \ DOMAIN bs : k[1] \in Nat /\ r < k[1]

\* what the casts of a review are assumed to be
LEMMA CastFacts ==
    ASSUME review \in ReviewCasts
    PROVE  /\ Len(review.terms) \in Nat \ {0} /\ Terms = 1..Len(review.terms)
           /\ review.rounds \in Nat /\ LastRound \in Nat /\ LastRound > 1 /\ LastRound > review.rounds
           /\ review.size \in Nat \ {0} /\ "none" \notin review.acts
<1>1. PICK S : review.terms \in Seq(S) /\ review.terms # <<>>
  BY ReviewAssumption
<1>2. Len(review.terms) \in Nat \ {0} /\ DOMAIN review.terms = 1..Len(review.terms)
  BY <1>1
<1> QED BY <1>2, ReviewAssumption DEF Terms, LastRound

\* a step leaves what is said of given batches, for the cast stays
LEMMA SamePrimed ==
    ASSUME review' = review
    PROVE  /\ Terms' = Terms /\ LastRound' = LastRound
           /\ \A bs, r : After(bs, r)' = After(bs, r)
           /\ \A bs, r : Covered(bs, r)' <=> Covered(bs, r)
           /\ \A bs, r : WholeTo(bs, r)' <=> WholeTo(bs, r)
<1>1. \A bs, r : After(bs, r)' = After(bs, r)
  BY DEF After, Replayed, Applied, LastRound, Terms
<1>2. \A bs, x, r : Agrees(bs, x, r)' <=> Agrees(bs, x, r)
  BY DEF Agrees, History, After, Replayed, Applied, LastRound, Terms
<1>3. \A bs, x, r : Skipped(bs, x, r)' <=> Skipped(bs, x, r)
  BY <1>1, <1>2 DEF Skipped, LastRound
<1>4. \A bs, r : Covered(bs, r)' <=> Covered(bs, r)
  BY <1>3 DEF Covered, Terms
<1>5. \A bs, r : WholeTo(bs, r)' <=> WholeTo(bs, r)
  BY <1>4 DEF WholeTo
<1> QED BY <1>1, <1>4, <1>5 DEF Terms, LastRound

\* a replay knows of the decisions up to its round only
LEMMA SameAfter ==
    ASSUME NEW bs, NEW cs, NEW r \in Nat,
           \A q \in 1..r, x \in Terms : Said(bs, q, x) = Said(cs, q, x)
    PROVE  After(bs, r) = After(cs, r)
<1>1. ASSUME NEW x \in Terms
      PROVE  Replayed(review.terms[x].dst, [q \in 1..r |-> Said(bs, q, x)], r)
           = Replayed(review.terms[x].dst, [q \in 1..r |-> Said(cs, q, x)], r)
  <2>1. [q \in 1..r |-> Said(bs, q, x)] = [q \in 1..r |-> Said(cs, q, x)]
    OBVIOUS
  <2> QED BY <2>1
<1> QED BY <1>1 DEF After

\* the decisions on a term before a round, in the order they count
DecisionsOn(bs, src, r) ==
    {d \in (1..r - 1) \X Terms : review.terms[d[2]].src = src /\ Said(bs, d[1], d[2]) # "none"}
\* so the history of a term is the decisions on it, in the order in which they count
LEMMA HistoryInOrder ==
    ASSUME review \in ReviewCasts, NEW bs, NEW src, NEW r \in Nat \ {0}
    PROVE  LET h == History(bs, src, r)
           IN  /\ h \in Seq((1..r - 1) \X Terms)
               /\ \A i, j \in DOMAIN h : i < j => Earlier(h[i], h[j])
               /\ ToSet(h) = DecisionsOn(bs, src, r)
<1> DEFINE m == Len(review.terms)
           spoke(q) == {x \in Terms : review.terms[x].src = src /\ Said(bs, q, x) # "none"}
           own == [q \in 1..r - 1 |-> InOrder(spoke(q), m)]
           h == OneByOne(own, r - 1)
<1>1. m \in Nat /\ Terms = 1..m /\ r - 1 \in Nat
  BY CastFacts
<1>2. History(bs, src, r) = h
  BY DEF History
<1>3. \A q \in 1..r - 1 : own[q] = InOrder(spoke(q), m)
  OBVIOUS
<1> HIDE DEF m, spoke, own, h
<1>4. ASSUME NEW q \in 1..r - 1
      PROVE  own[q] \in Seq(1..m) /\ Ascends(own[q]) /\ ToSet(own[q]) = spoke(q)
  <2>1. spoke(q) \cap (1..m) = spoke(q)
    BY <1>1 DEF spoke
  <2>2. PICK rows : rows = spoke(q)
    OBVIOUS
  <2>3. own[q] = InOrder(rows, m)
    BY <1>3, <2>2
  <2>4. /\ InOrder(rows, m) \in Seq(1..m) /\ Ascends(InOrder(rows, m))
        /\ ToSet(InOrder(rows, m)) = rows \cap (1..m)
    BY <1>1, InOrderFacts
  <2> QED BY <2>1, <2>2, <2>3, <2>4
<1>5. /\ h \in Seq((1..r - 1) \X Terms) /\ \A i, j \in DOMAIN h : i < j => Earlier(h[i], h[j])
      /\ \A d \in (1..r - 1) \X Terms : d \in ToSet(h) <=> d[2] \in ToSet(own[d[1]])
  BY <1>1, <1>4, DecisionsInOrder DEF h
<1>6. \A d \in (1..r - 1) \X Terms :
         d[2] \in ToSet(own[d[1]]) <=> review.terms[d[2]].src = src /\ Said(bs, d[1], d[2]) # "none"
  BY <1>4 DEF spoke
<1>7. ToSet(h) \subseteq (1..r - 1) \X Terms
  BY <1>5 DEF ToSet
<1>8. ToSet(h) = DecisionsOn(bs, src, r)
  BY <1>5, <1>6, <1>7 DEF DecisionsOn
<1> QED BY <1>2, <1>5, <1>8

\* so whether a row is passed over is settled by the rounds before
LEMMA SameSkipped ==
    ASSUME review \in ReviewCasts, NEW bs, NEW cs, NEW r \in Nat \ {0}, NEW x \in Terms,
           \A q \in 1..r - 1, y \in Terms : Said(bs, q, y) = Said(cs, q, y)
    PROVE  Skipped(bs, x, r) <=> Skipped(cs, x, r)
<1>1. After(bs, r - 1) = After(cs, r - 1)
  BY SameAfter
<1> DEFINE src == review.terms[x].src
           h == History(bs, src, r)
           spoke(ds, q) == {y \in Terms : review.terms[y].src = src /\ Said(ds, q, y) # "none"}
<1>2. h = History(cs, src, r)
  <2>1. \A q \in 1..r - 1 : spoke(bs, q) = spoke(cs, q)
    OBVIOUS
  <2>2. [q \in 1..r - 1 |-> InOrder(spoke(bs, q), Len(review.terms))]
      = [q \in 1..r - 1 |-> InOrder(spoke(cs, q), Len(review.terms))]
    BY <2>1
  <2> QED BY <2>2 DEF History
<1>3. h \in Seq((1..r - 1) \X Terms)
  BY HistoryInOrder
<1> HIDE DEF h
<1>4. \A i \in 1..Len(h) : After(bs, h[i][1]) = After(cs, h[i][1])
  <2> TAKE i \in 1..Len(h)
  <2>1. h[i][1] \in 1..r - 1
    BY <1>3
  <2> QED BY <2>1, SameAfter
<1>5. Agrees(bs, x, r) <=> Agrees(cs, x, r)
  <2>1. CASE Len(h) >= 2
    <3>1. Len(h) \in 1..Len(h) /\ Len(h) - 1 \in 1..Len(h)
      BY <1>3, <2>1
    <3> QED BY <1>2, <1>4, <3>1 DEF Agrees, h
  <2>2. CASE ~(Len(h) >= 2)
    BY <1>2, <2>2 DEF Agrees, h
  <2> QED BY <2>1, <2>2
<1> QED BY <1>1, <1>5 DEF Skipped

\* of an answered round the decisions stay
LEMMA SaidStays ==
    ASSUME NEW bs, NEW cs, NEW r \in Nat, Grows(bs, cs, r), NEW q \in 1..r, Answered(bs, q), NEW x
    PROVE  Said(bs, q, x) = Said(cs, q, x)
<1>1. \A k : k \in DOMAIN bs /\ k[1] = q <=> k \in DOMAIN cs /\ k[1] = q
  BY DEF Grows
<1>2. \A k \in DOMAIN bs : k[1] = q => cs[k] = bs[k]
  BY DEF Grows, Answered, InRound
<1>3. Heard(bs, q, x) = Heard(cs, q, x)
  BY <1>1, <1>2 DEF Heard
<1>4. CASE Heard(bs, q, x) = {}
  BY <1>3, <1>4 DEF Said
<1>5. CASE Heard(bs, q, x) # {}
  <2> DEFINE k == CHOOSE k \in Heard(bs, q, x) : TRUE
  <2>1. k \in Heard(bs, q, x)
    BY <1>5
  <2>2. bs[k] = cs[k]
    <3> HIDE DEF k
    <3> QED BY <1>2, <2>1 DEF Heard
  <2> QED BY <1>3, <1>5, <2>2 DEF Said
<1> QED BY <1>4, <1>5

\* and nobody needs to be asked again
LEMMA CoveredStays ==
    ASSUME review \in ReviewCasts, NEW bs, NEW cs, NEW r \in Nat \ {0},
           Grows(bs, cs, r - 1), WholeTo(bs, r - 1), Covered(bs, r)
    PROVE  Covered(cs, r)
<1> SUFFICES ASSUME NEW x \in Terms PROVE (\E k \in InRound(cs, r) : x \in cs[k].terms) \/ Skipped(cs, x, r)
  BY DEF Covered
<1>1. CASE \E k \in InRound(bs, r) : x \in bs[k].terms
  BY <1>1 DEF Grows, InRound
<1>2. CASE Skipped(bs, x, r)
  <2>1. \A q \in 1..r - 1, y \in Terms : Said(bs, q, y) = Said(cs, q, y)
    BY SaidStays DEF WholeTo
  <2> QED BY <1>2, <2>1, SameSkipped
<1> QED BY <1>1, <1>2 DEF Covered

\* rounds that are whole stay whole when later ones come
LEMMA WholeStays ==
    ASSUME review \in ReviewCasts, NEW bs, NEW cs, NEW r \in Nat, Grows(bs, cs, r), WholeTo(bs, r)
    PROVE  WholeTo(cs, r)
<1> SUFFICES ASSUME NEW q \in 1..r PROVE Answered(cs, q) /\ Covered(cs, q)
  BY DEF WholeTo
<1>1. q \in Nat \ {0} /\ Grows(bs, cs, q - 1) /\ WholeTo(bs, q - 1) /\ Covered(bs, q) /\ Answered(bs, q)
  <2>1. Grows(bs, cs, q - 1)
    BY DEF Grows
  <2> QED BY <2>1 DEF WholeTo
<1>2. Covered(cs, q)
  BY <1>1, CoveredStays
<1>3. \A k \in DOMAIN cs : k[1] = q => k \in DOMAIN bs
  BY DEF Grows
<1>4. Answered(cs, q)
  BY <1>1, <1>3 DEF Answered, InRound, Grows
<1> QED BY <1>2, <1>4

\* every place of a list lies in a slice
LEMMA SliceOfPlace ==
    ASSUME NEW i \in Nat \ {0}, NEW size \in Nat \ {0}
    PROVE  \E b \in 1..i : (b - 1) * size < i /\ i <= b * size
<1> DEFINE T == {b \in Nat : i <= b * size}
<1>1. i \in T
  <2>1. i * size = i + i * (size - 1) /\ i * (size - 1) \in Nat
    OBVIOUS
  <2> QED BY <2>1
<1>2. PICK b \in T : \A c \in T : b <= c
  <2>1. T \in SUBSET Nat /\ T # {}
    BY <1>1
  <2> HIDE DEF T
  <2> QED BY <2>1, LeastNat
<1>3. b # 0 /\ b <= i
  BY <1>1, <1>2
<1>4. b - 1 \in Nat /\ b - 1 \notin T
  <2> HIDE DEF T
  <2>1. b \in Nat
    BY <1>2 DEF T
  <2> QED BY <1>2, <1>3, <2>1
<1>5. ~(i <= (b - 1) * size) /\ (b - 1) * size \in Nat
  BY <1>4
<1> QED BY <1>2, <1>3, <1>5

\* the batches of a round have the rows that are not passed over
LEMMA BatchesOfRound ==
    ASSUME review \in ReviewCasts, NEW bs, NEW r \in 1..LastRound
    PROVE  LET new == NewBatches(bs, r)
           IN  /\ \A k \in DOMAIN new :
                     /\ k \in (1..LastRound) \X Nat /\ k[1] = r /\ new[k] = Sent(new[k].terms)
                     /\ new[k].terms \subseteq {x \in Terms : ~Skipped(bs, x, r)} /\ new[k].terms # {}
               /\ \A x \in Terms : Skipped(bs, x, r) \/ \E k \in DOMAIN new : x \in new[k].terms
<1> DEFINE n == Len(review.terms)
           open == {x \in Terms : ~Skipped(bs, x, r)}
           rows == Chosen(bs, r)
           size == IF r = LastRound THEN Len(review.terms) ELSE review.size
           slice(b) == {i \in DOMAIN rows : (b - 1) * size < i /\ i <= b * size}
           keys == {r} \X {b \in DOMAIN rows : slice(b) # {}}
           of(k) == {rows[i] : i \in slice(k[2])}
           new == [k \in keys |-> Sent(of(k))]
<1>1. n \in Nat \ {0} /\ Terms = 1..n /\ LastRound \in Nat /\ size \in Nat \ {0}
  BY CastFacts
<1>2. NewBatches(bs, r) = new
  BY DEF NewBatches
<1>3. rows \in Seq(1..n) /\ ToSet(rows) = open
  <2>1. rows = InOrder(open, n)
    <3>1. open = {x \in Terms : /\ ~After(bs, r - 1)[x].deleted
                                /\ IF r = LastRound THEN review.terms[x].isName ELSE ~Agrees(bs, x, r)}
      BY DEF Skipped
    <3> HIDE DEF open
    <3> QED BY <3>1 DEF Chosen
  <2>2. open \cap (1..n) = open
    BY <1>1
  <2>3. PICK o : o = open
    OBVIOUS
  <2> HIDE DEF open, n
  <2> QED BY <1>1, <2>1, <2>2, <2>3, InOrderFacts
<1> HIDE DEF n, open, rows, size
<1>4. DOMAIN rows \subseteq Nat \ {0} /\ \A i \in DOMAIN rows : rows[i] \in open
  BY <1>1, <1>3 DEF ToSet
<1>5. ASSUME NEW k \in keys
      PROVE  /\ k \in (1..LastRound) \X Nat /\ k[1] = r /\ new[k] = Sent(new[k].terms)
             /\ new[k].terms \subseteq open /\ new[k].terms # {}
  <2>1. k \in (1..LastRound) \X Nat /\ k[1] = r /\ slice(k[2]) # {}
    BY <1>4
  <2>2. of(k) \subseteq open /\ of(k) # {}
    BY <1>4, <2>1
  <2> HIDE DEF keys, of
  <2>3. new[k] = Sent(of(k)) /\ new[k].terms = of(k)
    BY DEF Sent
  <2> HIDE DEF new
  <2> QED BY <2>1, <2>2, <2>3
<1>6. ASSUME NEW x \in open PROVE \E k \in keys : x \in new[k].terms
  <2>1. PICK i \in DOMAIN rows : x = rows[i]
    BY <1>3 DEF ToSet
  <2>2. PICK b \in 1..i : (b - 1) * size < i /\ i <= b * size
    BY <1>1, <1>4, SliceOfPlace
  <2>3. b \in DOMAIN rows /\ i \in slice(b)
    BY <1>3, <2>1, <2>2
  <2> DEFINE k == <<r, b>>
  <2>4. k \in keys /\ x \in of(k)
    BY <2>1, <2>3
  <2> HIDE DEF keys, of
  <2>5. new[k].terms = of(k)
    BY <2>4 DEF Sent
  <2> QED BY <2>4, <2>5
<1>7. DOMAIN new = keys
  OBVIOUS
<1> HIDE DEF new, keys
<1>8. \A x \in Terms : x \in open \/ Skipped(bs, x, r)
  BY DEF open
<1> QED BY <1>2, <1>5, <1>6, <1>7, <1>8 DEF open

\* agreement is what it says: the last two decisions on the term have left the same
LEMMA AgreedIsSettled ==
    ASSUME review \in ReviewCasts, NEW x \in Terms, NEW r \in Nat \ {0}, Agrees(batches, x, r)
    PROVE  Settled(x, r)
<1> DEFINE src == review.terms[x].src
           h == History(batches, src, r)
           n == Len(h)
           D == (1..r - 1) \X Terms
<1>1. r >= 3 /\ n >= 2 /\ After(batches, h[n][1])[h[n][2]] = After(batches, h[n - 1][1])[h[n - 1][2]]
  BY DEF Agrees
<1>2. h \in Seq(D) /\ (\A i, j \in DOMAIN h : i < j => Earlier(h[i], h[j])) /\ ToSet(h) = Told(x, r)
  <2>1. PICK bs, s : bs = batches /\ s = src
    OBVIOUS
  <2> DEFINE g == History(bs, s, r)
  <2>2. g \in Seq(D) /\ (\A i, j \in DOMAIN g : i < j => Earlier(g[i], g[j])) /\ ToSet(g) = DecisionsOn(bs, s, r)
    BY HistoryInOrder
  <2>3. g = h /\ DecisionsOn(bs, s, r) = Told(x, r)
    BY <2>1 DEF DecisionsOn, Told
  <2> HIDE DEF g, h, D, src
  <2> QED BY <2>1, <2>2, <2>3
<1> HIDE DEF h, D, src
<1>5. n \in Nat /\ DOMAIN h = 1..n /\ \A i \in 1..n : h[i] \in D /\ h[i] \in ToSet(h)
  BY <1>2 DEF ToSet
<1> HIDE DEF n
<1>6. n \in 1..n /\ n - 1 \in 1..n /\ n - 1 < n
  BY <1>1, <1>5
<1>7. h[n] \in Told(x, r) /\ h[n - 1] \in Told(x, r) /\ Earlier(h[n - 1], h[n])
  BY <1>2, <1>5, <1>6
<1>8. ASSUME NEW o \in Told(x, r) PROVE o = h[n] \/ o = h[n - 1] \/ Earlier(o, h[n - 1])
  <2>2. PICK i \in 1..n : o = h[i]
    BY <1>2, <1>5 DEF ToSet
  <2>3. i = n \/ i = n - 1 \/ i < n - 1
    BY <1>5
  <2> QED BY <1>2, <1>5, <1>6, <2>2, <2>3
<1> QED BY <1>1, <1>7, <1>8 DEF Settled

-----------------------------------------------------------------------------
(* The invariant. *)

Driving == {"run", "drive", "upgrade", "again"}
Closing == {"close", "book", "report"}
Places  == {"unborn", "seed", "round", "leave", "raised", "failing", "ended"} \cup Driving \cup Closing

ReviewTypes ==
    /\ review \in ReviewCasts
    /\ header \in Transient \cup Final \cup {"none"}
    /\ entry \in {"none", "live", "done"} /\ stopFlag \in BOOLEAN
    /\ where \in Places /\ round \in 0..LastRound /\ held \in Final \cup {"none"}
    /\ report \in BOOLEAN /\ stopping \in {"no", "mark", "read"} /\ shown \in Final \cup {"none"}
    /\ stops \in Nat /\ edits \in Nat /\ lives \in Nat /\ (edits # 0 => review.edits # 0)
BatchTypes ==
    /\ batches = None \/ DOMAIN batches # {}
    /\ \A k \in DOMAIN batches :
        /\ k \in (1..LastRound) \X Nat /\ batches[k].terms \subseteq Terms
        /\ batches[k].status \in {"PENDING", "RUNNING", "COMPLETED", "FAILED"}
        /\ batches[k] = [terms |-> batches[k].terms, status |-> batches[k].status, said |-> batches[k].said]
\* a round is sent only after those before it, and as a whole
InTurn == \A k \in DOMAIN batches : WholeTo(batches, k[1] - 1) /\ Covered(batches, k[1])
\* what the thread relies on at each step
ThreadAt ==
    /\ where \in {"round"} \cup Driving \cup Closing => round # 0
    /\ where \in {"round"} \cup Driving => WholeTo(batches, round - 1)
    /\ where \in Driving => Covered(batches, round)
    /\ where = "upgrade" /\ held = "COMPLETED" => \A k \in DOMAIN batches : batches[k].status = "COMPLETED"
    /\ where = "again" => WholeTo(batches, round) /\ round # LastRound
    /\ where \in Closing => WholeTo(batches, LastRound)
    /\ where \notin {"unborn", "seed", "ended"} => batches # None
    /\ where = "report" => book # NoBook
    /\ where \in {"raised", "failing"} => Fault("write")
\* the files are of a whole review, and a thread that finds them runs to its end
WrittenIsWhole ==
    /\ report => book # NoBook /\ where \notin Driving \cup {"unborn"}
    /\ book # NoBook => batches # None /\ WholeTo(batches, LastRound)
    /\ report /\ where \in {"seed", "round", "close"} => entry = "live" /\ header \in {"RUNNING", "STOPPING"}
\* COMPLETED is said of the files alone, and nothing takes it back but a failed rewrite
ToldIsWritten ==
    shown = "COMPLETED" =>
        /\ report /\ entry # "live" /\ stopping = "no"
        /\ where \in {"book", "report", "leave", "raised", "failing", "ended"}
        /\ Fault("write") \/ (header = "COMPLETED" /\ where \notin {"raised", "failing"})
Struck(bs, x) == \E r \in 1..review.rounds : Said(bs, r, x) = "delete"
\* the workbook lacks what was deleted, by a round or by the user
BookHolds ==
    /\ edits = 0 => dropped = {}
    /\ edits # 0 => where = "ended" /\ shown = "COMPLETED"
    /\ book # NoBook =>
        /\ book \in Seq(Terms) /\ IsInjective(book)
        /\ \A x \in Terms :
            /\ x \in dropped => x \notin ToSet(book)
            /\ x \notin ToSet(book) => x \in dropped \/ Struck(batches, x)
            /\ edits = 0 /\ Struck(batches, x) => x \notin ToSet(book)
ReviewInv == ReviewTypes /\ BatchTypes /\ InTurn /\ ThreadAt /\ WrittenIsWhole /\ ToldIsWritten /\ BookHolds

\* no user edits a result whose workbook could not be written again
NoEditAfterFailure == \A c \in ReviewCasts : "write" \notin c.faults \/ c.edits = 0

\* the batches are the same, and those that are answered stay as they are
Moved(bs, cs) ==
    /\ DOMAIN cs = DOMAIN bs
    /\ \A k \in DOMAIN bs : cs[k].terms = bs[k].terms /\ (bs[k].status = "COMPLETED" => cs[k] = bs[k])
\* so what was known of them stays known
StaysKnown ==
    /\ Terms' = Terms /\ LastRound' = LastRound
    /\ \A r \in 0..LastRound : WholeTo(batches, r) => WholeTo(batches, r)'
    /\ \A r \in 1..LastRound : WholeTo(batches, r - 1) /\ Covered(batches, r) => Covered(batches, r)'
    /\ WholeTo(batches, LastRound) => \A x \in Terms : Struck(batches, x)' <=> Struck(batches, x)

\* a step that moves batches only forward keeps what was known of them
LEMMA MovedKeeps ==
    ASSUME review \in ReviewCasts, review' = review, BatchTypes, InTurn, Moved(batches, batches')
    PROVE  StaysKnown /\ InTurn'
<1>1. \A r : Grows(batches, batches', r)
  BY DEF Grows, Moved
<1>2. LastRound \in Nat /\ LastRound > 1 /\ LastRound > review.rounds /\ review.rounds \in Nat
  BY CastFacts
<1>3. ASSUME NEW r \in 0..LastRound, WholeTo(batches, r) PROVE WholeTo(batches, r)'
  <2>1. PICK bs, cs : bs = batches /\ cs = batches'
    OBVIOUS
  <2>2. WholeTo(cs, r)
    BY <1>1, <1>2, <1>3, <2>1, WholeStays
  <2> QED BY <2>1, <2>2, SamePrimed
<1>4. ASSUME NEW r \in 1..LastRound, WholeTo(batches, r - 1), Covered(batches, r) PROVE Covered(batches, r)'
  <2>1. PICK bs, cs : bs = batches /\ cs = batches'
    OBVIOUS
  <2>2. Covered(cs, r)
    BY <1>1, <1>2, <1>4, <2>1, CoveredStays
  <2> QED BY <2>1, <2>2, SamePrimed
<1>5. ASSUME WholeTo(batches, LastRound), NEW x \in Terms PROVE Struck(batches, x)' <=> Struck(batches, x)
  <2>1. PICK bs, cs : bs = batches /\ cs = batches'
    OBVIOUS
  <2>2. \A q \in 1..review.rounds : Said(bs, q, x) = Said(cs, q, x)
    <3> TAKE q \in 1..review.rounds
    <3>1. q \in 1..LastRound /\ Answered(bs, q) /\ Grows(bs, cs, LastRound)
      BY <1>1, <1>2, <1>5, <2>1 DEF WholeTo
    <3> QED BY <1>2, <3>1, SaidStays
  <2> QED BY <2>1, <2>2 DEF Struck
<1>6. InTurn'
  <2> SUFFICES ASSUME NEW k \in DOMAIN batches' PROVE WholeTo(batches, k[1] - 1)' /\ Covered(batches, k[1])'
    BY DEF InTurn
  <2>1. k \in DOMAIN batches /\ k[1] \in 1..LastRound /\ k[1] - 1 \in 0..LastRound
    BY <1>2 DEF BatchTypes, Moved
  <2> QED BY <1>3, <1>4, <2>1 DEF InTurn
<1> QED BY <1>3, <1>4, <1>5, <1>6, SamePrimed DEF StaysKnown

\* and so does one that leaves them alone
LEMMA BatchesStay ==
    ASSUME ReviewTypes, BatchTypes, InTurn, UNCHANGED <<review, batches>>
    PROVE  BatchTypes' /\ InTurn' /\ StaysKnown
<1>1. Moved(batches, batches')
  BY DEF Moved
<1> QED BY <1>1, MovedKeeps, SamePrimed DEF ReviewTypes, BatchTypes

\* the workbook is written with the rows that no round has deleted
LEMMA KeptRows ==
    ASSUME review \in ReviewCasts, NEW bs
    PROVE  /\ Kept(bs) \in Seq(Terms) /\ IsInjective(Kept(bs)) /\ Kept(bs) # NoBook
           /\ \A x \in Terms : x \in ToSet(Kept(bs)) <=> ~Struck(bs, x)
<1> DEFINE m == Len(review.terms)
           left == {x \in Terms : ~After(bs, LastRound)[x].deleted}
<1>1. m \in Nat /\ Terms = 1..m /\ LastRound \in Nat /\ review.rounds \in Nat
  BY CastFacts
<1>2. Kept(bs) \in Seq(1..m) /\ Ascends(Kept(bs)) /\ ToSet(Kept(bs)) = left
  <2>1. PICK rows : rows = left
    OBVIOUS
  <2>2. Kept(bs) = InOrder(rows, m) /\ rows \cap (1..m) = rows
    BY <1>1, <2>1 DEF Kept
  <2>3. /\ InOrder(rows, m) \in Seq(1..m) /\ Ascends(InOrder(rows, m))
        /\ ToSet(InOrder(rows, m)) = rows \cap (1..m)
    BY <1>1, InOrderFacts
  <2> QED BY <2>1, <2>2, <2>3
<1> HIDE DEF m
<1>3. ASSUME NEW x \in Terms PROVE x \in left <=> ~Struck(bs, x)
  <2> DEFINE acts == [q \in 1..LastRound |-> Said(bs, q, x)]
  <2>1. After(bs, LastRound)[x] = Replayed(review.terms[x].dst, acts, LastRound)
    BY DEF After
  <2>2. \A q \in 1..LastRound : acts[q] = Said(bs, q, x)
    OBVIOUS
  <2> HIDE DEF acts
  <2>3. After(bs, LastRound)[x].deleted <=> \E q \in 1..LastRound : q # LastRound /\ acts[q] = "delete"
    BY <1>1, <2>1, ReplayedDeletes
  <2>4. \A q \in 1..LastRound : q # LastRound <=> q \in 1..review.rounds
    BY <1>1 DEF LastRound
  <2>5. 1..review.rounds \subseteq 1..LastRound
    BY <1>1 DEF LastRound
  <2>6. (\E q \in 1..LastRound : q # LastRound /\ acts[q] = "delete") <=> Struck(bs, x)
    BY <2>2, <2>4, <2>5 DEF Struck
  <2> QED BY <2>3, <2>6
<1>4. PICK s : s = Kept(bs)
  OBVIOUS
<1>5. s \in Seq(1..m) /\ Ascends(s) /\ DOMAIN s = 1..Len(s) /\ \A i \in 1..Len(s) : s[i] \in 1..m
  <2>1. s \in Seq(1..m) /\ Ascends(s)
    BY <1>2, <1>4
  <2>2. PICK S : S = 1..m
    OBVIOUS
  <2>3. s \in Seq(S)
    BY <2>1, <2>2
  <2>4. DOMAIN s = 1..Len(s)
    BY <2>3
  <2>5. \A i \in 1..Len(s) : s[i] \in S
    BY <2>3
  <2> QED BY <2>1, <2>2, <2>4, <2>5
<1>6. IsInjective(s)
  <2> SUFFICES ASSUME NEW i \in DOMAIN s, NEW j \in DOMAIN s, i # j PROVE s[i] # s[j]
    BY DEF IsInjective
  <2>1. i < j \/ j < i
    BY <1>5
  <2> QED BY <1>1, <1>5, <2>1 DEF Ascends
<1>7. s # NoBook
  <2>1. NoBook[1] = 0 /\ 1 \in 1..Len(NoBook)
    BY DEF NoBook
  <2> QED BY <1>5, <2>1
<1> HIDE DEF left
<1> QED BY <1>1, <1>2, <1>3, <1>4, <1>6, <1>7

\* The steps of the thread, of the calls and of the user keep the invariant: first those that
\* leave the batches alone.
LEMMA RunsStep ==
    ASSUME ReviewInv, RunsRound PROVE ReviewInv'
<1> USE DEF ReviewInv
<1>0. review' = review /\ batches' = batches
  BY DEF RunsRound, Finalizes, RoundVerdict, Goes, OnlyThread, bounds
<1>1. BatchTypes' /\ InTurn' /\ StaysKnown
  BY <1>0, BatchesStay
<1>2. ReviewTypes'
  BY <1>0, CastFacts, SamePrimed DEF RunsRound, Finalizes, RoundVerdict, Goes, OnlyThread, bounds, ReviewTypes, Places, Driving, Transient, Final
<1>3. ThreadAt'
  BY <1>0, <1>1, CastFacts DEF RunsRound, Finalizes, RoundVerdict, Goes, OnlyThread, bounds, ReviewTypes, ThreadAt, StaysKnown, Driving, Closing
<1>4. WrittenIsWhole'
  BY <1>0, <1>1, CastFacts DEF RunsRound, Finalizes, RoundVerdict, Goes, OnlyThread, bounds, ReviewTypes, ThreadAt, StaysKnown, WrittenIsWhole, Driving
<1>5. ToldIsWritten'
  BY <1>0, <1>1 DEF RunsRound, Finalizes, RoundVerdict, Goes, OnlyThread, bounds, ToldIsWritten
<1>6. BookHolds'
  BY <1>0, <1>1 DEF RunsRound, Finalizes, RoundVerdict, Goes, OnlyThread, bounds, BookHolds, StaysKnown, WrittenIsWhole
<1> QED BY <1>1, <1>2, <1>3, <1>4, <1>5, <1>6

LEMMA EndsStep ==
    ASSUME ReviewInv, EndsRun PROVE ReviewInv'
<1> USE DEF ReviewInv
<1>0. review' = review /\ batches' = batches
  BY DEF EndsRun, Finalizes, RoundVerdict, Goes, OnlyThread, bounds, Open
<1>1. BatchTypes' /\ InTurn' /\ StaysKnown
  BY <1>0, BatchesStay
<1>2. ReviewTypes'
  BY <1>0, CastFacts, SamePrimed DEF EndsRun, Finalizes, RoundVerdict, Goes, OnlyThread, bounds, Open, ReviewTypes, Places, Driving, Final
<1>3. ThreadAt'
  BY <1>0, <1>1, CastFacts DEF EndsRun, Finalizes, RoundVerdict, Goes, OnlyThread, bounds, Open, ReviewTypes, ThreadAt, StaysKnown, Driving, Closing, BatchTypes
<1>4. WrittenIsWhole'
  BY <1>0, <1>1, CastFacts DEF EndsRun, Finalizes, RoundVerdict, Goes, OnlyThread, bounds, Open, ReviewTypes, ThreadAt, StaysKnown, WrittenIsWhole, Driving
<1>5. ToldIsWritten'
  BY <1>0, <1>1 DEF EndsRun, Finalizes, RoundVerdict, Goes, OnlyThread, bounds, Open, ToldIsWritten
<1>6. BookHolds'
  BY <1>0, <1>1 DEF EndsRun, Finalizes, RoundVerdict, Goes, OnlyThread, bounds, Open, BookHolds, StaysKnown, WrittenIsWhole
<1> QED BY <1>1, <1>2, <1>3, <1>4, <1>5, <1>6

LEMMA UpgradesStep ==
    ASSUME ReviewInv, UpgradesStop PROVE ReviewInv'
<1> USE DEF ReviewInv
<1>0. review' = review /\ batches' = batches
  BY DEF UpgradesStop, AllDone, Goes, OnlyThread, bounds
<1>1. BatchTypes' /\ InTurn' /\ StaysKnown
  BY <1>0, BatchesStay
<1>2. ReviewTypes'
  BY <1>0, CastFacts, SamePrimed DEF UpgradesStop, AllDone, Goes, OnlyThread, bounds, ReviewTypes, Places, Driving, Closing, Final
<1>3. ThreadAt'
  <2>1. held' = "COMPLETED" => \A k \in DOMAIN batches : batches[k].status = "COMPLETED"
    BY DEF UpgradesStop, AllDone, ThreadAt
  <2>2. held' = "COMPLETED" => WholeTo(batches, round)
    BY <2>1, CastFacts DEF UpgradesStop, ThreadAt, Driving, WholeTo, Answered, InRound, ReviewTypes
  <2>3. round \in 1..LastRound /\ (round < LastRound \/ round = LastRound)
    BY CastFacts DEF UpgradesStop, ThreadAt, Driving, ReviewTypes
  <2>4. round \in 0..LastRound /\ round - 1 \in 0..LastRound /\ LastRound \in 0..LastRound
    BY <2>3, CastFacts DEF ReviewTypes
  <2>5. /\ WholeTo(batches, round - 1)' /\ Covered(batches, round)' /\ batches' # None /\ round' = round
        /\ LastRound' = LastRound /\ (held' = "COMPLETED" => WholeTo(batches, round)')
    BY <1>0, <1>1, <2>2, <2>3, <2>4 DEF UpgradesStop, ThreadAt, StaysKnown, Driving
  <2>6. held' = "COMPLETED" /\ round = LastRound => WholeTo(batches, LastRound)'
    BY <2>5
  <2>7. round' # 0 /\ where' \in {"leave", "again", "close"}
    BY <2>3, <2>5, CastFacts DEF UpgradesStop, Goes, ReviewTypes
  <2> QED BY <2>3, <2>5, <2>6, <2>7 DEF UpgradesStop, Goes, ThreadAt, Closing
<1>4. WrittenIsWhole'
  BY <1>0, <1>1, CastFacts DEF UpgradesStop, AllDone, Goes, OnlyThread, bounds, ReviewTypes, ThreadAt, StaysKnown, WrittenIsWhole, Driving
<1>5. ToldIsWritten'
  BY <1>0, <1>1 DEF UpgradesStop, AllDone, Goes, OnlyThread, bounds, ToldIsWritten
<1>6. BookHolds'
  BY <1>0, <1>1 DEF UpgradesStop, AllDone, Goes, OnlyThread, bounds, BookHolds, StaysKnown, WrittenIsWhole
<1> QED BY <1>1, <1>2, <1>3, <1>4, <1>5, <1>6

LEMMA GoesOnStep ==
    ASSUME ReviewInv, GoesOn PROVE ReviewInv'
<1> USE DEF ReviewInv
<1>0. review' = review /\ batches' = batches
  BY DEF GoesOn, Goes, OnlyThread, bounds
<1>1. BatchTypes' /\ InTurn' /\ StaysKnown
  BY <1>0, BatchesStay
<1>2. ReviewTypes'
  <2>1. round' \in 0..LastRound'
    BY <1>0, CastFacts, SamePrimed DEF GoesOn, ReviewTypes, ThreadAt
  <2> QED BY <1>0, <2>1 DEF GoesOn, Goes, OnlyThread, bounds, ReviewTypes, Places, Transient
<1>3. ThreadAt'
  BY <1>0, <1>1, CastFacts DEF GoesOn, Goes, OnlyThread, bounds, ReviewTypes, ThreadAt, StaysKnown, Driving, Closing
<1>4. WrittenIsWhole'
  BY <1>0, <1>1, CastFacts DEF GoesOn, Goes, OnlyThread, bounds, ReviewTypes, ThreadAt, StaysKnown, WrittenIsWhole, Driving
<1>5. ToldIsWritten'
  BY <1>0, <1>1 DEF GoesOn, Goes, OnlyThread, bounds, ToldIsWritten
<1>6. BookHolds'
  BY <1>0, <1>1 DEF GoesOn, Goes, OnlyThread, bounds, BookHolds, StaysKnown, WrittenIsWhole
<1> QED BY <1>1, <1>2, <1>3, <1>4, <1>5, <1>6

LEMMA ClosesStep ==
    ASSUME ReviewInv, Closes PROVE ReviewInv'
<1> USE DEF ReviewInv
<1>0. review' = review /\ batches' = batches
  BY DEF Closes, AllDone, Goes, OnlyThread, bounds
<1>1. BatchTypes' /\ InTurn' /\ StaysKnown
  BY <1>0, BatchesStay
<1>2. ReviewTypes'
  <2>1. AllDone(batches)
    BY CastFacts DEF Closes, AllDone, ThreadAt, Closing, WholeTo, Answered, InRound, BatchTypes
  <2>2. header' = "COMPLETED" /\ held' = "COMPLETED"
    BY <2>1 DEF Closes
  <2> QED BY <1>0, <2>2, SamePrimed DEF Closes, Goes, OnlyThread, bounds, ReviewTypes, Places, Closing, Final
<1>3. ThreadAt'
  BY <1>0, <1>1, CastFacts DEF Closes, AllDone, Goes, OnlyThread, bounds, ReviewTypes, ThreadAt, StaysKnown, Driving, Closing
<1>4. WrittenIsWhole'
  BY <1>0, <1>1, CastFacts DEF Closes, AllDone, Goes, OnlyThread, bounds, ReviewTypes, ThreadAt, StaysKnown, WrittenIsWhole, Driving
<1>5. ToldIsWritten'
  BY <1>0, <1>1 DEF Closes, AllDone, Goes, OnlyThread, bounds, ToldIsWritten
<1>6. BookHolds'
  BY <1>0, <1>1 DEF Closes, AllDone, Goes, OnlyThread, bounds, BookHolds, StaysKnown, WrittenIsWhole
<1> QED BY <1>1, <1>2, <1>3, <1>4, <1>5, <1>6

LEMMA WritesReportStep ==
    ASSUME ReviewInv, WritesReport PROVE ReviewInv'
<1> USE DEF ReviewInv
<1>0. review' = review /\ batches' = batches
  BY DEF WritesReport, Goes, OnlyThread, bounds
<1>1. BatchTypes' /\ InTurn' /\ StaysKnown
  BY <1>0, BatchesStay
<1>2. ReviewTypes'
  BY <1>0, CastFacts, SamePrimed DEF WritesReport, Goes, OnlyThread, bounds, ReviewTypes, Places
<1>3. ThreadAt'
  BY <1>0, <1>1, CastFacts DEF WritesReport, Goes, OnlyThread, bounds, ThreadAt, Driving, Closing
<1>4. WrittenIsWhole'
  BY <1>0, <1>1, CastFacts DEF WritesReport, Goes, OnlyThread, bounds, ReviewTypes, ThreadAt, StaysKnown, WrittenIsWhole, Driving
<1>5. ToldIsWritten'
  BY <1>0, <1>1 DEF WritesReport, Goes, OnlyThread, bounds, ToldIsWritten, Fault
<1>6. BookHolds'
  BY <1>0, <1>1 DEF WritesReport, Goes, OnlyThread, bounds, BookHolds, StaysKnown, WrittenIsWhole
<1> QED BY <1>1, <1>2, <1>3, <1>4, <1>5, <1>6

LEMMA LeavesStep ==
    ASSUME ReviewInv, LeavesReview PROVE ReviewInv'
<1> USE DEF ReviewInv
<1>0. review' = review /\ batches' = batches
  BY DEF LeavesReview, Leaves, Goes, bounds
<1>1. BatchTypes' /\ InTurn' /\ StaysKnown
  BY <1>0, BatchesStay
<1>2. ReviewTypes'
  BY <1>0, CastFacts, SamePrimed DEF LeavesReview, Leaves, Goes, bounds, ReviewTypes, Places
<1>3. ThreadAt'
  BY <1>0, <1>1, CastFacts DEF LeavesReview, Leaves, Goes, bounds, ThreadAt, Driving, Closing, Fault
<1>4. WrittenIsWhole'
  BY <1>0, <1>1, CastFacts DEF LeavesReview, Leaves, Goes, bounds, ReviewTypes, ThreadAt, StaysKnown, WrittenIsWhole, Driving
<1>5. ToldIsWritten'
  BY <1>0, <1>1 DEF LeavesReview, Leaves, Goes, bounds, ToldIsWritten, Fault
<1>6. BookHolds'
  BY <1>0, <1>1 DEF LeavesReview, Leaves, Goes, bounds, BookHolds, StaysKnown, WrittenIsWhole
<1> QED BY <1>1, <1>2, <1>3, <1>4, <1>5, <1>6

LEMMA FailsStep ==
    ASSUME ReviewInv, FailsReview PROVE ReviewInv'
<1> USE DEF ReviewInv
<1>0. review' = review /\ batches' = batches
  BY DEF FailsReview, Goes, OnlyThread, bounds
<1>1. BatchTypes' /\ InTurn' /\ StaysKnown
  BY <1>0, BatchesStay
<1>2. ReviewTypes'
  BY <1>0, CastFacts, SamePrimed DEF FailsReview, Goes, OnlyThread, bounds, ReviewTypes, Places, Final
<1>3. ThreadAt'
  BY <1>0, <1>1, CastFacts DEF FailsReview, Goes, OnlyThread, bounds, ThreadAt, Driving, Closing
<1>4. WrittenIsWhole'
  BY <1>0, <1>1, CastFacts DEF FailsReview, Goes, OnlyThread, bounds, ReviewTypes, ThreadAt, StaysKnown, WrittenIsWhole, Driving
<1>5. ToldIsWritten'
  BY <1>0, <1>1 DEF FailsReview, Goes, OnlyThread, bounds, ToldIsWritten, Fault
<1>6. BookHolds'
  BY <1>0, <1>1 DEF FailsReview, Goes, OnlyThread, bounds, BookHolds, StaysKnown, WrittenIsWhole
<1> QED BY <1>1, <1>2, <1>3, <1>4, <1>5, <1>6

LEMMA StartReviewStep ==
    ASSUME ReviewInv, StartReview PROVE ReviewInv'
<1> USE DEF ReviewInv
<1>0. review' = review /\ batches' = batches
  BY DEF StartReview, Goes, bounds
<1>1. BatchTypes' /\ InTurn' /\ StaysKnown
  BY <1>0, BatchesStay
<1>2. ReviewTypes'
  BY <1>0, CastFacts, SamePrimed DEF StartReview, Goes, bounds, ReviewTypes, Places, Transient
<1>3. ThreadAt'
  BY <1>0, <1>1, CastFacts DEF StartReview, Goes, bounds, ThreadAt, Driving, Closing
<1>4. WrittenIsWhole'
  BY <1>0, <1>1, CastFacts DEF StartReview, Goes, bounds, ReviewTypes, ThreadAt, StaysKnown, WrittenIsWhole
<1>5. ToldIsWritten'
  BY <1>0, <1>1 DEF StartReview, Goes, bounds, ToldIsWritten
<1>6. BookHolds'
  BY <1>0, <1>1 DEF StartReview, Goes, bounds, BookHolds, StaysKnown, WrittenIsWhole
<1> QED BY <1>1, <1>2, <1>3, <1>4, <1>5, <1>6

LEMMA StopsStep ==
    ASSUME ReviewInv, StopsReview PROVE ReviewInv'
<1> USE DEF ReviewInv
<1>0. review' = review /\ batches' = batches
  BY DEF StopsReview, NotThread, inReview
<1>1. BatchTypes' /\ InTurn' /\ StaysKnown
  BY <1>0, BatchesStay
<1>2. ReviewTypes'
  BY <1>0, CastFacts, SamePrimed DEF StopsReview, NotThread, inReview, ReviewTypes
<1>3. ThreadAt'
  BY <1>0, <1>1, CastFacts DEF StopsReview, NotThread, inReview, ReviewTypes, ThreadAt, StaysKnown, Fault
<1>4. WrittenIsWhole'
  BY <1>0, <1>1, CastFacts DEF StopsReview, NotThread, inReview, ReviewTypes, ThreadAt, StaysKnown, WrittenIsWhole
<1>5. ToldIsWritten'
  BY <1>0, <1>1 DEF StopsReview, NotThread, inReview, ToldIsWritten
<1>6. BookHolds'
  BY <1>0, <1>1 DEF StopsReview, NotThread, inReview, BookHolds, StaysKnown, WrittenIsWhole
<1> QED BY <1>1, <1>2, <1>3, <1>4, <1>5, <1>6

LEMMA MarksStep ==
    ASSUME ReviewInv, MarksReview PROVE ReviewInv'
<1> USE DEF ReviewInv
<1>0. review' = review /\ batches' = batches
  BY DEF MarksReview, NotThread, inReview
<1>1. BatchTypes' /\ InTurn' /\ StaysKnown
  BY <1>0, BatchesStay
<1>2. ReviewTypes'
  BY <1>0, CastFacts, SamePrimed DEF MarksReview, NotThread, inReview, ReviewTypes, Transient
<1>3. ThreadAt'
  BY <1>0, <1>1, CastFacts DEF MarksReview, NotThread, inReview, ReviewTypes, ThreadAt, StaysKnown, Fault
<1>4. WrittenIsWhole'
  BY <1>0, <1>1, CastFacts DEF MarksReview, NotThread, inReview, ReviewTypes, ThreadAt, StaysKnown, WrittenIsWhole
<1>5. ToldIsWritten'
  BY <1>0, <1>1 DEF MarksReview, NotThread, inReview, ToldIsWritten
<1>6. BookHolds'
  BY <1>0, <1>1 DEF MarksReview, NotThread, inReview, BookHolds, StaysKnown, WrittenIsWhole
<1> QED BY <1>1, <1>2, <1>3, <1>4, <1>5, <1>6

LEMMA RestartStep ==
    ASSUME ReviewInv, RestartReview PROVE ReviewInv'
<1> USE DEF ReviewInv
<1>0. review' = review /\ batches' = batches
  BY DEF RestartReview, Goes, bounds
<1>1. BatchTypes' /\ InTurn' /\ StaysKnown
  BY <1>0, BatchesStay
<1>2. ReviewTypes'
  <2>1. round' \in 0..LastRound'
    BY <1>0, CastFacts, SamePrimed DEF RestartReview, ReviewTypes
  <2> QED BY <1>0, <2>1 DEF RestartReview, Goes, bounds, ReviewTypes, Places
<1>3. ThreadAt'
  BY <1>0, <1>1, CastFacts DEF RestartReview, Goes, bounds, ThreadAt, Driving, Closing
<1>4. WrittenIsWhole'
  BY <1>0, <1>1, CastFacts DEF RestartReview, Goes, bounds, ReviewTypes, ThreadAt, StaysKnown, WrittenIsWhole, Driving
<1>5. ToldIsWritten'
  BY <1>0, <1>1 DEF RestartReview, Goes, bounds, Fault, ToldIsWritten
<1>6. BookHolds'
  BY <1>0, <1>1 DEF RestartReview, Goes, bounds, BookHolds, StaysKnown, WrittenIsWhole
<1> QED BY <1>1, <1>2, <1>3, <1>4, <1>5, <1>6

\* the workbook is written from batches that are whole
LEMMA WritesBookStep ==
    ASSUME ReviewInv, WritesBook PROVE ReviewInv'
<1> USE DEF ReviewInv
<1>0. review' = review /\ batches' = batches /\ review \in ReviewCasts /\ LastRound \in 0..LastRound
  BY CastFacts DEF WritesBook, OnlyThread, bounds, ReviewTypes
<1>1. BatchTypes' /\ InTurn' /\ StaysKnown
  BY <1>0, BatchesStay
<1>2. ReviewTypes'
  BY <1>0, SamePrimed DEF WritesBook, Goes, OnlyThread, bounds, ReviewTypes, Places, Closing
<1>3. WholeTo(batches, LastRound)' /\ batches # None
  BY <1>0, <1>1 DEF WritesBook, ThreadAt, Closing, StaysKnown
<1>4. book' = book \/ (book' = Kept(batches) /\ book' # NoBook)
  BY <1>0, KeptRows DEF WritesBook
<1>5. ThreadAt'
  BY <1>0, <1>3, <1>4, KeptRows DEF WritesBook, Goes, OnlyThread, bounds, ThreadAt, Driving, Closing, Fault
<1>6. WrittenIsWhole'
  BY <1>0, <1>3, <1>4 DEF WritesBook, Goes, OnlyThread, WrittenIsWhole, Driving
<1>7. ToldIsWritten'
  BY <1>0 DEF WritesBook, Goes, OnlyThread, bounds, ToldIsWritten, Fault
<1>8. BookHolds'
  <2>1. edits = 0 /\ dropped = {} /\ edits' = edits /\ dropped' = dropped /\ Terms' = Terms
    BY <1>1 DEF WritesBook, BookHolds, OnlyThread, bounds, StaysKnown
  <2>2. \A x \in Terms : Struck(batches, x)' <=> Struck(batches, x)
    BY <1>0, <1>1 DEF WritesBook, ThreadAt, Closing, StaysKnown
  <2>3. CASE book' = Kept(batches)
    <3>1. /\ book' \in Seq(Terms) /\ IsInjective(book')
          /\ \A x \in Terms : x \in ToSet(book') <=> ~Struck(batches, x)
      BY <1>0, <2>3, KeptRows
    <3> QED BY <2>1, <2>2, <3>1 DEF BookHolds
  <2>4. CASE book' = book
    BY <2>1, <2>2, <2>4 DEF BookHolds
  <2> QED BY <1>4, <2>3, <2>4
<1> QED BY <1>1, <1>2, <1>5, <1>6, <1>7, <1>8

\* batches that move on keep the invariant, whatever else a step does
LEMMA BatchesMove ==
    ASSUME ReviewTypes, BatchTypes, InTurn, review' = review, Moved(batches, batches'),
           \A k \in DOMAIN batches' :
              /\ batches'[k].status \in {"PENDING", "RUNNING", "COMPLETED", "FAILED"}
              /\ batches'[k] = [terms |-> batches'[k].terms, status |-> batches'[k].status,
                               said |-> batches'[k].said]
    PROVE  BatchTypes' /\ InTurn' /\ StaysKnown
<1>1. batches' = None \/ DOMAIN batches' # {}
  BY DEF BatchTypes, Moved, None
<1>2. BatchTypes'
  BY <1>1, SamePrimed DEF BatchTypes, Moved
<1> QED BY <1>2, MovedKeeps DEF ReviewTypes

\* a batch is sent again only if it is not answered
LEMMA RestedMoves ==
    ASSUME BatchTypes
    PROVE  /\ Moved(batches, Rested(batches)) /\ (batches = None => Rested(batches) = None)
           /\ \A k \in DOMAIN Rested(batches) :
                 /\ Rested(batches)[k].status \in {"PENDING", "RUNNING", "COMPLETED", "FAILED"}
                 /\ Rested(batches)[k] = [terms |-> Rested(batches)[k].terms, status |-> Rested(batches)[k].status,
                                          said |-> Rested(batches)[k].said]
<1> DEFINE cs == Rested(batches)
<1>1. /\ DOMAIN cs = DOMAIN batches
      /\ \A k \in DOMAIN batches :
            cs[k] = IF batches[k].status = "RUNNING" THEN [batches[k] EXCEPT !.status = "PENDING"] ELSE batches[k]
  BY DEF Rested
<1>2. batches = None => cs = None
  BY DEF Rested, None
<1> HIDE DEF cs
<1>3. ASSUME NEW k \in DOMAIN batches
      PROVE  /\ cs[k].terms = batches[k].terms /\ (batches[k].status = "COMPLETED" => cs[k] = batches[k])
             /\ cs[k].status \in {"PENDING", "RUNNING", "COMPLETED", "FAILED"}
             /\ cs[k] = [terms |-> cs[k].terms, status |-> cs[k].status, said |-> cs[k].said]
  <2>1. CASE batches[k].status = "RUNNING"
    <3>1. batches[k] = [terms |-> batches[k].terms, status |-> batches[k].status, said |-> batches[k].said]
      BY DEF BatchTypes
    <3>2. cs[k] = [terms |-> batches[k].terms, status |-> "PENDING", said |-> batches[k].said]
      BY <1>1, <2>1, <3>1
    <3> QED BY <2>1, <3>2
  <2>2. CASE batches[k].status # "RUNNING"
    BY <1>1, <2>2 DEF BatchTypes
  <2> QED BY <2>1, <2>2
<1> QED BY <1>1, <1>2, <1>3 DEF Moved, cs

\* while the batches of a round are sent and answered, nothing else moves
LEMMA DrivingStep ==
    ASSUME ReviewInv, where = "drive", DOMAIN batches' = DOMAIN batches,
           BatchTypes', InTurn', StaysKnown,
           UNCHANGED <<header, inReview, book, report>>, OnlyThread
    PROVE  ReviewInv'
<1> USE DEF ReviewInv
<1>0. /\ review' = review /\ header' = header /\ entry' = entry /\ stopFlag' = stopFlag /\ where' = where
      /\ round' = round /\ held' = held /\ book' = book /\ report' = report /\ stopping' = stopping
      /\ shown' = shown /\ dropped' = dropped /\ stops' = stops /\ edits' = edits /\ lives' = lives
  BY DEF inReview, OnlyThread, bounds
<1>1. ReviewTypes'
  BY <1>0, SamePrimed DEF ReviewTypes
<1>2. round \in 1..LastRound /\ round - 1 \in 0..LastRound
  BY CastFacts DEF ReviewTypes, ThreadAt, Driving
<1>3. ThreadAt'
  BY <1>0, <1>2, None \in {None} DEF ThreadAt, StaysKnown, Closing, None
<1>a. batches' # None
  BY DEF ThreadAt, BatchTypes, None
<1>4. WrittenIsWhole' /\ ToldIsWritten'
  BY <1>0, <1>a, CastFacts DEF WrittenIsWhole, ToldIsWritten, StaysKnown, ReviewTypes
<1>5. BookHolds'
  BY <1>0, CastFacts DEF BookHolds, StaysKnown, WrittenIsWhole
<1> QED BY <1>1, <1>3, <1>4, <1>5

\* a batch is taken, and settled
LEMMA TakesStep ==
    ASSUME ReviewInv, NEW k, TakesBatch(k) PROVE ReviewInv'
<1> USE DEF ReviewInv
<1>0. /\ review' = review /\ where = "drive" /\ where' = where /\ round' = round /\ held' = held
      /\ k \in DOMAIN batches /\ batches[k].status = "PENDING"
      /\ batches' = [batches EXCEPT ![k].status = "RUNNING"]
  BY DEF TakesBatch, OnlyThread, bounds, inReview, Open
<1>1. /\ DOMAIN batches' = DOMAIN batches /\ (\A j \in DOMAIN batches : j # k => batches'[j] = batches[j])
      /\ batches'[k] = [terms |-> batches[k].terms, status |-> "RUNNING", said |-> batches[k].said]
  <2>1. batches[k] = [terms |-> batches[k].terms, status |-> batches[k].status, said |-> batches[k].said]
    BY <1>0 DEF BatchTypes
  <2> QED BY <1>0, <2>1
<1>2. Moved(batches, batches')
  BY <1>0, <1>1 DEF Moved
<1>3. \A j \in DOMAIN batches' :
         /\ batches'[j].status \in {"PENDING", "RUNNING", "COMPLETED", "FAILED"}
         /\ batches'[j] = [terms |-> batches'[j].terms, status |-> batches'[j].status, said |-> batches'[j].said]
  BY <1>0, <1>1 DEF BatchTypes
<1>4. BatchTypes' /\ InTurn' /\ StaysKnown
  BY <1>0, <1>2, <1>3, BatchesMove
<1> QED BY <1>0, <1>1, <1>4, DrivingStep DEF TakesBatch

LEMMA SettlesStep ==
    ASSUME ReviewInv, NEW k, SettlesBatch(k) PROVE ReviewInv'
<1> USE DEF ReviewInv
<1>0. /\ review' = review /\ where = "drive" /\ where' = where /\ round' = round /\ held' = held
      /\ k \in DOMAIN batches /\ batches[k].status = "RUNNING"
  BY DEF SettlesBatch, OnlyThread, bounds, inReview, Open
<1>1. batches[k] = [terms |-> batches[k].terms, status |-> batches[k].status, said |-> batches[k].said]
  BY <1>0 DEF BatchTypes
<1>2. /\ DOMAIN batches' = DOMAIN batches /\ (\A j \in DOMAIN batches : j # k => batches'[j] = batches[j])
      /\ batches'[k] = [terms |-> batches[k].terms, status |-> batches'[k].status, said |-> batches'[k].said]
      /\ batches'[k].status \in {"PENDING", "COMPLETED", "FAILED"}
  <2>1. ASSUME NEW said, batches' = [batches EXCEPT ![k].status = "COMPLETED", ![k].said = said]
        PROVE  /\ DOMAIN batches' = DOMAIN batches /\ (\A j \in DOMAIN batches : j # k => batches'[j] = batches[j])
               /\ batches'[k] = [terms |-> batches[k].terms, status |-> "COMPLETED", said |-> said]
    <3>1. /\ DOMAIN batches' = DOMAIN batches /\ (\A j \in DOMAIN batches : j # k => batches'[j] = batches[j])
          /\ batches'[k] = [batches[k] EXCEPT !.status = "COMPLETED", !.said = said]
      BY <1>0, <2>1
    <3>2. [batches[k] EXCEPT !.status = "COMPLETED", !.said = said]
            = [terms |-> batches[k].terms, status |-> "COMPLETED", said |-> said]
      <4> DEFINE d == [batches[k] EXCEPT !.status = "COMPLETED"]
      <4>1. [d EXCEPT !.said = said] = [batches[k] EXCEPT !.status = "COMPLETED", !.said = said]
        OBVIOUS
      <4>2. d = [terms |-> batches[k].terms, status |-> "COMPLETED", said |-> batches[k].said]
        BY <1>1
      <4> HIDE DEF d
      <4>3. [d EXCEPT !.said = said] = [terms |-> batches[k].terms, status |-> "COMPLETED", said |-> said]
        BY <4>2
      <4> QED BY <4>1, <4>3
    <3> QED BY <3>1, <3>2
  <2>2. ASSUME NEW st, batches' = [batches EXCEPT ![k].status = st]
        PROVE  /\ DOMAIN batches' = DOMAIN batches /\ (\A j \in DOMAIN batches : j # k => batches'[j] = batches[j])
               /\ batches'[k] = [terms |-> batches[k].terms, status |-> st, said |-> batches[k].said]
    <3>1. /\ DOMAIN batches' = DOMAIN batches /\ (\A j \in DOMAIN batches : j # k => batches'[j] = batches[j])
          /\ batches'[k] = [batches[k] EXCEPT !.status = st]
      BY <1>0, <2>2
    <3>2. [batches[k] EXCEPT !.status = st] = [terms |-> batches[k].terms, status |-> st, said |-> batches[k].said]
      BY <1>1
    <3> QED BY <3>1, <3>2
  <2>3. CASE \E said : batches' = [batches EXCEPT ![k].status = "COMPLETED", ![k].said = said]
    <3>1. PICK said : batches' = [batches EXCEPT ![k].status = "COMPLETED", ![k].said = said]
      BY <2>3
    <3>2. /\ DOMAIN batches' = DOMAIN batches /\ (\A j \in DOMAIN batches : j # k => batches'[j] = batches[j])
          /\ batches'[k] = [terms |-> batches[k].terms, status |-> "COMPLETED", said |-> said]
      BY <2>1, <3>1
    <3> QED BY <3>2
  <2>4. CASE \E st \in {"FAILED", "PENDING"} : batches' = [batches EXCEPT ![k].status = st]
    <3>1. PICK st \in {"FAILED", "PENDING"} : batches' = [batches EXCEPT ![k].status = st]
      BY <2>4
    <3>2. /\ DOMAIN batches' = DOMAIN batches /\ (\A j \in DOMAIN batches : j # k => batches'[j] = batches[j])
          /\ batches'[k] = [terms |-> batches[k].terms, status |-> st, said |-> batches[k].said]
      BY <2>2, <3>1
    <3> QED BY <3>2
  <2> QED BY <2>3, <2>4 DEF SettlesBatch
<1>3. Moved(batches, batches')
  BY <1>0, <1>2 DEF Moved
<1>4. \A j \in DOMAIN batches' :
         /\ batches'[j].status \in {"PENDING", "RUNNING", "COMPLETED", "FAILED"}
         /\ batches'[j] = [terms |-> batches'[j].terms, status |-> batches'[j].status, said |-> batches'[j].said]
  BY <1>0, <1>2 DEF BatchTypes
<1>5. BatchTypes' /\ InTurn' /\ StaysKnown
  BY <1>0, <1>3, <1>4, BatchesMove
<1> QED BY <1>0, <1>2, <1>5, DrivingStep DEF SettlesBatch

\* a continued review and a poll put back the batches that a dead thread was running
LEMMA ContinueStep ==
    ASSUME ReviewInv, NoEditAfterFailure, ContinueReview PROVE ReviewInv'
<1> USE DEF ReviewInv
<1>0. /\ review' = review /\ batches' = Rested(batches) /\ review \in ReviewCasts
      /\ header' = "RUNNING" /\ entry' = "live" /\ where' = "seed" /\ shown' = "none"
      /\ round' = round /\ held' = held /\ book' = book /\ report' = report /\ stopping' = stopping
      /\ dropped' = dropped /\ stops' = stops /\ edits' = edits /\ stopFlag' = FALSE /\ lives' = lives + 1
      /\ where = "ended" /\ header # "COMPLETED"
  BY DEF ContinueReview, Goes, ReviewTypes, Transient
<1>1. BatchTypes' /\ InTurn' /\ StaysKnown
  BY <1>0, RestedMoves, BatchesMove
<1>2. ReviewTypes'
  <2>1. round' \in 0..LastRound' /\ lives' \in Nat
    BY <1>0, SamePrimed DEF ReviewTypes
  <2> QED BY <1>0, <2>1 DEF ReviewTypes, Places, Transient
<1>3. batches # None => batches' # None
  BY <1>0, RestedMoves DEF Moved, BatchTypes, None
<1>4. ThreadAt'
  BY <1>0 DEF ThreadAt, Driving, Closing
<1>5. WrittenIsWhole' /\ ToldIsWritten'
  BY <1>0, <1>1, <1>3, CastFacts DEF WrittenIsWhole, ToldIsWritten, Driving, StaysKnown
<1>6. edits = 0
  BY <1>0 DEF BookHolds, ToldIsWritten, Fault, NoEditAfterFailure, ReviewTypes
<1>7. BookHolds'
  BY <1>0, <1>1, <1>6, CastFacts DEF BookHolds, StaysKnown, WrittenIsWhole
<1> QED BY <1>1, <1>2, <1>4, <1>5, <1>7

LEMMA PollStep ==
    ASSUME ReviewInv, NoEditAfterFailure, PollReview PROVE ReviewInv'
<1> USE DEF ReviewInv
<1>0. /\ review' = review /\ review \in ReviewCasts /\ (batches' = Rested(batches) \/ batches' = batches)
      /\ where' = where /\ round' = round /\ held' = held /\ book' = book /\ report' = report
      /\ dropped' = dropped /\ stops' = stops /\ edits' = edits /\ stopFlag' = stopFlag /\ lives' = lives
      /\ stopping' = "no" /\ header # "none"
  BY DEF PollReview, NotThread, inReview, ReviewTypes
<1> DEFINE st == Recognised
<1>a. /\ header' = IF st = "RUNNING" THEN header ELSE st
      /\ entry' = IF st \in Final /\ entry = "live" THEN "done" ELSE entry
      /\ shown' = IF st \in Final THEN st ELSE shown
  BY DEF PollReview
<1>b. st \in Transient \cup Final
  BY <1>0 DEF Recognised, Woken, ReviewTypes, Transient, Final
<1>c. /\ st = "COMPLETED" => Artifacts
      /\ entry = "live" /\ header \in {"RUNNING", "STOPPING"} => st = header
      /\ entry # "live" => st \in Final
      /\ header = "COMPLETED" /\ Artifacts => st = "COMPLETED"
  BY <1>0 DEF Recognised, Woken, Zombie, ReviewTypes, Transient, Final
<1> HIDE DEF st
<1>1. BatchTypes' /\ InTurn' /\ StaysKnown
  BY <1>0, BatchesStay, RestedMoves, BatchesMove
<1>2. ReviewTypes'
  BY <1>0, <1>a, <1>b, SamePrimed DEF ReviewTypes, Transient, Final
<1>3. /\ batches # None => batches' # None
      /\ \A k \in DOMAIN batches' : k \in DOMAIN batches /\ (batches[k].status = "COMPLETED" => batches'[k] = batches[k])
  BY <1>0, RestedMoves DEF Moved, BatchTypes, None
<1>4. ThreadAt'
  <2>1. round \in 0..LastRound /\ (round # 0 => round \in 1..LastRound /\ round - 1 \in 0..LastRound)
        /\ LastRound \in 0..LastRound
    BY <1>0, CastFacts DEF ReviewTypes
  <2>2. LastRound' = LastRound
    BY <1>1 DEF StaysKnown
  <2>3. where \in {"round"} \cup Driving => WholeTo(batches, round - 1)'
    BY <1>0, <1>1, <2>1 DEF ThreadAt, StaysKnown
  <2>4. where \in Driving => Covered(batches, round)'
    BY <1>0, <1>1, <2>1 DEF ThreadAt, StaysKnown
  <2>5. where = "again" => WholeTo(batches, round)'
    BY <1>0, <1>1, <2>1 DEF ThreadAt, StaysKnown
  <2>6. where \in Closing => WholeTo(batches, LastRound)'
    BY <1>0, <1>1, <2>1 DEF ThreadAt, StaysKnown
  <2> QED BY <1>0, <1>3, <2>2, <2>3, <2>4, <2>5, <2>6 DEF ThreadAt, Fault
<1>5. WrittenIsWhole'
  <2>1. report /\ where \in {"seed", "round", "close"} => entry' = "live" /\ header' \in {"RUNNING", "STOPPING"}
    BY <1>a, <1>c DEF WrittenIsWhole, Final
  <2> QED BY <1>0, <1>1, <1>3, <2>1, CastFacts DEF WrittenIsWhole, StaysKnown
<1>6. ToldIsWritten'
  <2>1. CASE st = "COMPLETED"
    <3>1. report /\ book # NoBook /\ header' = "COMPLETED" /\ entry' # "live"
      BY <1>a, <1>c, <2>1 DEF Artifacts, Final
    <3>2. where \in {"book", "report", "leave", "raised", "failing", "ended"}
      BY <1>0, <1>c, <2>1, <3>1 DEF WrittenIsWhole, ReviewTypes, Places, Closing
    <3> QED BY <1>0, <3>1, <3>2 DEF ToldIsWritten, ThreadAt, Fault
  <2>2. CASE st # "COMPLETED" /\ shown' = "COMPLETED"
    <3>1. st \notin Final /\ shown = "COMPLETED"
      BY <1>a, <2>2
    <3> QED BY <1>c, <3>1 DEF ToldIsWritten
  <2>3. CASE shown' # "COMPLETED"
    BY <2>3 DEF ToldIsWritten
  <2> QED BY <2>1, <2>2, <2>3
<1>7. BookHolds'
  <2>1. edits # 0 => shown' = "COMPLETED"
    BY <1>a, <1>c DEF BookHolds, ToldIsWritten, Fault, NoEditAfterFailure, ReviewTypes, WrittenIsWhole, Artifacts
  <2> QED BY <1>0, <1>1, <2>1, CastFacts DEF BookHolds, StaysKnown, WrittenIsWhole
<1> QED BY <1>1, <1>2, <1>4, <1>5, <1>6, <1>7

\* an edit leaves the files, and the workbook without the rows the user has deleted
LEMMA EditStep ==
    ASSUME ReviewInv, NEW rows, NEW gone, Edits(rows, gone),
           rows \in Seq(Terms), IsInjective(rows),
           \A x \in Terms :
              /\ x \in gone => x \notin ToSet(rows)
              /\ x \notin ToSet(rows) => x \in gone \/ (x \notin ToSet(book) /\ x \notin dropped)
    PROVE  ReviewInv'
<1> USE DEF ReviewInv
<1>0. /\ shown = "COMPLETED" /\ where = "ended" /\ edits < review.edits
      /\ edits' = edits + 1 /\ book' = rows /\ dropped' = gone
      /\ review' = review /\ header' = header /\ batches' = batches /\ entry' = entry /\ stopFlag' = stopFlag
      /\ where' = where /\ round' = round /\ held' = held /\ report' = report /\ stopping' = stopping
      /\ shown' = shown /\ stops' = stops /\ lives' = lives
  BY DEF Edits, inReview
<1>1. BatchTypes' /\ InTurn' /\ StaysKnown
  BY <1>0, BatchesStay
<1>2. edits \in Nat /\ edits' \in Nat /\ edits' # 0 /\ review.edits # 0
  BY <1>0 DEF ReviewTypes
<1>3. ReviewTypes'
  BY <1>0, <1>2, SamePrimed DEF ReviewTypes
<1>4. book # NoBook /\ book' # NoBook
  <2>1. book # NoBook
    BY <1>0 DEF ToldIsWritten, WrittenIsWhole
  <2>2. NoBook[1] = 0 /\ 1 \in 1..Len(NoBook) /\ 0 \notin Terms
    BY CastFacts DEF NoBook, ReviewTypes
  <2>3. \A i \in 1..Len(rows) : rows[i] \in Terms
    OBVIOUS
  <2> QED BY <1>0, <2>1, <2>2, <2>3
<1>5. ThreadAt' /\ ToldIsWritten'
  BY <1>0 DEF ThreadAt, ToldIsWritten, Driving, Closing, Fault
<1>6. WrittenIsWhole'
  BY <1>0, <1>1, <1>4, CastFacts DEF WrittenIsWhole, StaysKnown, ReviewTypes
<1>7. \A x \in Terms : Struck(batches, x)' <=> Struck(batches, x)
  BY <1>1, <1>4 DEF StaysKnown, WrittenIsWhole
<1>8. Terms' = Terms
  BY <1>1 DEF StaysKnown
<1>9. BookHolds'
  <2>1. \A x \in Terms : x \notin ToSet(rows) => x \in gone \/ Struck(batches, x)
    BY <1>4 DEF BookHolds
  <2>2. \A x \in Terms : x \notin ToSet(book') => x \in dropped' \/ Struck(batches, x)'
    BY <1>0, <1>7, <2>1
  <2>3. \A x \in Terms : x \in dropped' => x \notin ToSet(book')
    <3>1. \A x \in Terms : x \in gone => x \notin ToSet(rows)
      OBVIOUS
    <3> QED BY <1>0, <3>1
  <2>4. book' \in Seq(Terms) /\ IsInjective(book')
    <3>1. rows \in Seq(Terms) /\ IsInjective(rows) /\ book' = rows
      BY <1>0
    <3>2. IsInjective(book')
      BY <3>1 DEF IsInjective
    <3> QED BY <3>1, <3>2
  <2>5. edits' # 0 /\ where' = "ended" /\ shown' = "COMPLETED"
    BY <1>0, <1>2
  <2> QED BY <1>8, <2>2, <2>3, <2>4, <2>5 DEF BookHolds
<1> QED BY <1>1, <1>3, <1>5, <1>6, <1>9

\* the edits of the user hit the rows they name
LEMMA EditsStep ==
    ASSUME ReviewInv, DeleteFinalRows \/ UpdateFinalRow \/ RestoreRow PROVE ReviewInv'
<1> USE DEF ReviewInv
<1>1. shown = "COMPLETED"
  BY DEF DeleteFinalRows, UpdateFinalRow, RestoreRow, Edits
<1>2. /\ book \in Seq(Terms) /\ IsInjective(book)
      /\ \A x \in Terms : x \in dropped => x \notin ToSet(book)
  BY <1>1 DEF ToldIsWritten, WrittenIsWhole, BookHolds
<1>3. DOMAIN book = 1..Len(book) /\ \A i \in 1..Len(book) : book[i] \in Terms /\ book[i] \in ToSet(book)
  BY <1>2 DEF ToSet
<1>4. CASE DeleteFinalRows
  <2>1. PICK is \in SUBSET DOMAIN book : Edits(Deleted(book, is), dropped \cup {book[i] : i \in is})
    BY <1>4 DEF DeleteFinalRows
  <2>2. PICK rows, gone : rows = Deleted(book, is) /\ gone = dropped \cup {book[i] : i \in is}
    OBVIOUS
  <2>3. /\ rows \in Seq(Terms) /\ IsInjective(rows)
        /\ \A y : y \in ToSet(rows) <=> y \in ToSet(book) /\ ~\E i \in DOMAIN book : i \in is /\ y = book[i]
    <3>1. PICK q, T : q = book /\ T = Terms
      OBVIOUS
    <3>2. /\ Deleted(q, is) \in Seq(T) /\ IsInjective(Deleted(q, is))
          /\ \A y : y \in ToSet(Deleted(q, is)) <=> y \in ToSet(q) /\ ~\E i \in DOMAIN q : i \in is /\ y = q[i]
      BY <1>2, <3>1, DeletedByPlace
    <3> QED BY <2>2, <3>1, <3>2
  <2>4. \A x : x \in gone <=> x \in dropped \/ \E i \in DOMAIN book : i \in is /\ x = book[i]
    BY <2>2
  <2>5. Edits(rows, gone)
    BY <2>1, <2>2
  <2> QED BY <1>2, <2>3, <2>4, <2>5, EditStep
<1>5. CASE UpdateFinalRow
  <2>1. PICK i \in 1..Len(book) : Edits(RemoveAt(book, i), dropped \cup {book[i]})
    BY <1>3, <1>5 DEF UpdateFinalRow
  <2>2. PICK rows, gone : rows = RemoveAt(book, i) /\ gone = dropped \cup {book[i]}
    OBVIOUS
  <2>3. rows \in Seq(Terms) /\ IsInjective(rows) /\ ToSet(rows) = ToSet(book) \ {book[i]}
    <3>1. PICK q, T : q = book /\ T = Terms
      OBVIOUS
    <3>2. rows \in Seq(T) /\ IsInjective(rows) /\ ToSet(rows) = ToSet(q) \ {q[i]}
      BY <1>2, <2>2, <3>1, WithoutPlace
    <3> QED BY <3>1, <3>2
  <2>4. Edits(rows, gone)
    BY <2>1, <2>2
  <2> QED BY <1>2, <2>2, <2>3, <2>4, EditStep
<1>6. CASE RestoreRow
  <2>1. PICK y \in Terms \ ToSet(book) : Edits(Append(book, y), dropped \ {y})
    BY <1>6 DEF RestoreRow
  <2>2. PICK rows, gone : rows = Append(book, y) /\ gone = dropped \ {y}
    OBVIOUS
  <2>3. rows \in Seq(Terms) /\ IsInjective(rows) /\ ToSet(rows) = ToSet(book) \cup {y}
    <3>1. PICK q, T : q = book /\ T = Terms
      OBVIOUS
    <3>2. Append(q, y) \in Seq(T) /\ IsInjective(Append(q, y)) /\ ToSet(Append(q, y)) = ToSet(q) \cup {y}
      BY <1>2, <2>1, <3>1, WithAtEnd
    <3> QED BY <2>2, <3>1, <3>2
  <2>4. Edits(rows, gone)
    BY <2>1, <2>2
  <2>5. \A x \in Terms :
           /\ x \in gone => x \notin ToSet(rows)
           /\ x \notin ToSet(rows) => x \in gone \/ (x \notin ToSet(book) /\ x \notin dropped)
    BY <1>2, <2>2, <2>3
  <2> QED BY <2>3, <2>4, <2>5, EditStep
<1> QED BY <1>4, <1>5, <1>6

\* a round that is sent now is covered
LEMMA SentIsCovered ==
    ASSUME review \in ReviewCasts, NEW bs, NEW cs, NEW r \in 1..LastRound, WholeTo(bs, r - 1), Grows(bs, cs, r - 1),
           \A k \in DOMAIN NewBatches(bs, r) : k \in DOMAIN cs /\ cs[k].terms = NewBatches(bs, r)[k].terms
    PROVE  Covered(cs, r)
<1> DEFINE new == NewBatches(bs, r)
<1>1. /\ \A k \in DOMAIN new : k[1] = r
      /\ \A x \in Terms : Skipped(bs, x, r) \/ \E k \in DOMAIN new : x \in new[k].terms
  BY BatchesOfRound
<1> HIDE DEF new
<1> SUFFICES ASSUME NEW x \in Terms PROVE (\E k \in InRound(cs, r) : x \in cs[k].terms) \/ Skipped(cs, x, r)
  BY DEF Covered
<1>2. CASE \E k \in DOMAIN new : x \in new[k].terms
  BY <1>1, <1>2 DEF InRound, new
<1>3. CASE Skipped(bs, x, r)
  <2>1. r \in Nat \ {0} /\ r - 1 \in Nat
    BY CastFacts
  <2>2. \A q \in 1..r - 1, y \in Terms : Said(bs, q, y) = Said(cs, q, y)
    BY <2>1, SaidStays DEF WholeTo
  <2> QED BY <1>3, <2>1, <2>2, SameSkipped
<1> QED BY <1>1, <1>2, <1>3

\* in the first round every row is asked for
LEMMA FirstRoundAsks ==
    ASSUME review \in ReviewCasts, NEW bs, NEW x \in Terms
    PROVE  ~Skipped(bs, x, 1)
<1>1. After(bs, 0)[x] = Replayed(review.terms[x].dst, [q \in 1..0 |-> Said(bs, q, x)], 0)
  BY DEF After
<1>2. PICK acts : acts = [q \in 1..0 |-> Said(bs, q, x)]
  OBVIOUS
<1>3. ~Replayed(review.terms[x].dst, acts, 0).deleted
  BY ReplayedDeletes
<1>4. ~After(bs, 1 - 1)[x].deleted
  BY <1>1, <1>2, <1>3
<1>5. ~Agrees(bs, x, 1) /\ 1 # LastRound
  BY CastFacts DEF Agrees
<1> QED BY <1>4, <1>5 DEF Skipped

\* the first round asks of every row
LEMMA SeedsStep ==
    ASSUME ReviewInv, SeedsReview PROVE ReviewInv'
<1> USE DEF ReviewInv
<1>0. /\ where = "seed" /\ where' = "round" /\ round' = 1 /\ review' = review /\ review \in ReviewCasts
      /\ entry' = entry /\ stopFlag' = stopFlag /\ held' = held /\ book' = book /\ report' = report
      /\ stopping' = stopping /\ shown' = shown /\ dropped' = dropped
      /\ stops' = stops /\ edits' = edits /\ lives' = lives
  BY DEF SeedsReview, Goes, OnlyThread, bounds, ReviewTypes
<1>1. LastRound \in Nat /\ LastRound > 1 /\ LastRound' = LastRound /\ 1 \in 1..LastRound /\ 1 \in Terms
  BY <1>0, CastFacts, SamePrimed
<1>2. WholeTo(batches, 0)'
  BY DEF WholeTo
<1>3. CASE batches = None
  <2> DEFINE new == NewBatches(batches, 1)
  <2>1. batches' = new /\ header' = "PENDING"
    BY <1>3 DEF SeedsReview
  <2>2. /\ \A k \in DOMAIN new :
             /\ k \in (1..LastRound) \X Nat /\ k[1] = 1 /\ new[k] = Sent(new[k].terms)
             /\ new[k].terms \subseteq {x \in Terms : ~Skipped(batches, x, 1)} /\ new[k].terms # {}
        /\ \A x \in Terms : Skipped(batches, x, 1) \/ \E k \in DOMAIN new : x \in new[k].terms
    BY <1>0, <1>1, BatchesOfRound
  <2> HIDE DEF new
  <2>3. DOMAIN new # {}
    BY <1>0, <1>1, <2>2, FirstRoundAsks
  <2>4. BatchTypes'
    <3>1. Terms' = Terms
      BY <1>0, SamePrimed
    <3> QED BY <1>1, <2>1, <2>2, <2>3, <3>1 DEF BatchTypes, Sent
  <2>5. Covered(batches, 1)'
    <3>1. PICK bs, cs : bs = batches /\ cs = batches'
      OBVIOUS
    <3>2. Grows(bs, cs, 1 - 1) /\ WholeTo(bs, 1 - 1)
      BY <1>3, <2>1, <2>2, <3>1 DEF Grows, None, WholeTo
    <3>3. Covered(cs, 1)
      BY <1>0, <1>1, <2>1, <3>1, <3>2, SentIsCovered DEF new
    <3> QED BY <1>0, <3>1, <3>3, SamePrimed
  <2>6. InTurn'
    <3> SUFFICES ASSUME NEW k \in DOMAIN batches' PROVE WholeTo(batches, k[1] - 1)' /\ Covered(batches, k[1])'
      BY DEF InTurn
    <3>1. k[1] = 1
      BY <2>1, <2>2
    <3> QED BY <1>2, <2>5, <3>1
  <2>7. ReviewTypes'
    BY <1>0, <1>1, <2>1 DEF ReviewTypes, Places, Transient
  <2>8. book = NoBook /\ ~report
    BY <1>3 DEF WrittenIsWhole
  <2>9. batches' # None
    BY <2>1, <2>3 DEF None
  <2>10. ThreadAt'
    BY <1>0, <1>2, <2>9 DEF ThreadAt, Driving, Closing
  <2>11. WrittenIsWhole' /\ ToldIsWritten' /\ BookHolds'
    BY <1>0, <2>8 DEF WrittenIsWhole, ToldIsWritten, BookHolds
  <2> QED BY <2>4, <2>6, <2>7, <2>10, <2>11
<1>4. CASE batches # None
  <2>1. batches' = batches /\ header' = header
    BY <1>4 DEF SeedsReview
  <2>2. BatchTypes' /\ InTurn' /\ StaysKnown
    BY <1>0, <2>1, BatchesStay
  <2>3. ReviewTypes'
    BY <1>0, <1>1, <2>1 DEF ReviewTypes, Places
  <2>4. ThreadAt'
    BY <1>0, <1>2, <1>4, <2>1 DEF ThreadAt, Driving, Closing
  <2>5. WrittenIsWhole' /\ ToldIsWritten'
    BY <1>0, <1>1, <2>1, <2>2 DEF WrittenIsWhole, ToldIsWritten, Driving, StaysKnown
  <2>6. BookHolds'
    BY <1>0, <1>1, <2>1, <2>2 DEF BookHolds, StaysKnown, WrittenIsWhole
  <2> QED BY <2>2, <2>3, <2>4, <2>5, <2>6
<1> QED BY <1>3, <1>4

\* a round is entered when the one before is whole, and asks of every row it may not pass over
LEMMA EntersStep ==
    ASSUME ReviewInv, EntersRound PROVE ReviewInv'
<1> USE DEF ReviewInv
<1> DEFINE new == NewBatches(batches, round)
           bs  == IF InRound(batches, round) # {} THEN batches
                  ELSE [k \in DOMAIN batches \cup DOMAIN new |-> IF k \in DOMAIN new THEN new[k] ELSE batches[k]]
           done == \A k \in InRound(bs, round) : bs[k].status = "COMPLETED"
<1>r. PICK r : r = round
  OBVIOUS
<1>0. /\ where = "round" /\ review' = review /\ review \in ReviewCasts /\ batches' = FailedReset(bs, round)
      /\ header' = header /\ held' = held /\ book' = book /\ report' = report
      /\ entry' = entry /\ stopFlag' = stopFlag /\ stopping' = stopping /\ shown' = shown /\ dropped' = dropped
      /\ stops' = stops /\ edits' = edits /\ lives' = lives
  BY DEF EntersRound, OnlyThread, bounds, ReviewTypes
<1>1. IF done THEN /\ where' = (IF round = LastRound THEN "close" ELSE "round")
                   /\ round' = (IF round = LastRound THEN round ELSE round + 1)
              ELSE where' = "run" /\ round' = round
  BY DEF EntersRound, Goes
<1>2. /\ LastRound \in Nat /\ LastRound > 1 /\ LastRound' = LastRound /\ Terms' = Terms /\ LastRound \in 0..LastRound
      /\ round \in 1..LastRound /\ round \in 0..LastRound /\ round - 1 \in 0..LastRound /\ round \in Nat \ {0}
      /\ (round # LastRound => round + 1 \in 1..LastRound /\ (round + 1) - 1 = round)
  BY <1>0, CastFacts, SamePrimed DEF ReviewTypes, ThreadAt
<1>3. /\ WholeTo(batches, round - 1) /\ batches # None
      /\ \A k \in DOMAIN batches : k \in (1..LastRound) \X Nat
  BY <1>0 DEF ThreadAt, BatchTypes
<1>4. /\ \A k \in DOMAIN new :
             /\ k \in (1..LastRound) \X Nat /\ k[1] = round /\ new[k] = Sent(new[k].terms)
             /\ new[k].terms \subseteq {x \in Terms : ~Skipped(batches, x, round)} /\ new[k].terms # {}
      /\ \A x \in Terms : Skipped(batches, x, round) \/ \E k \in DOMAIN new : x \in new[k].terms
  BY <1>0, <1>2, BatchesOfRound
<1> HIDE DEF new
\* what the step makes of a batch
<1>5. ASSUME NEW k \in DOMAIN batches'
      PROVE  /\ k \in DOMAIN bs /\ batches'[k].terms = bs[k].terms
             /\ bs[k].status = "COMPLETED" => batches'[k] = bs[k]
             /\ batches'[k].status \in {"PENDING", "RUNNING", "COMPLETED", "FAILED"}
             /\ batches'[k] = [terms |-> batches'[k].terms, status |-> batches'[k].status, said |-> batches'[k].said]
             /\ batches'[k].terms \subseteq Terms /\ k \in (1..LastRound) \X Nat
  <2>1. /\ k \in DOMAIN bs
        /\ batches'[k] = IF k[1] = round /\ bs[k].status = "FAILED" THEN [bs[k] EXCEPT !.status = "PENDING"] ELSE bs[k]
    <3> HIDE DEF bs
    <3> QED BY <1>0 DEF FailedReset
  <2>2. (bs[k] = batches[k] /\ k \in DOMAIN batches) \/ (bs[k] = new[k] /\ k \in DOMAIN new)
    <3>1. CASE InRound(batches, round) # {}
      <4>1. bs = batches
        BY <3>1
      <4> HIDE DEF bs
      <4> QED BY <2>1, <4>1
    <3>2. CASE InRound(batches, round) = {}
      <4>1. bs = [i \in DOMAIN batches \cup DOMAIN new |-> IF i \in DOMAIN new THEN new[i] ELSE batches[i]]
        BY <3>2
      <4> HIDE DEF bs
      <4> QED BY <2>1, <4>1
    <3> QED BY <3>1, <3>2
  <2>3. /\ bs[k].terms \subseteq Terms /\ k \in (1..LastRound) \X Nat
        /\ bs[k].status \in {"PENDING", "RUNNING", "COMPLETED", "FAILED"}
        /\ bs[k] = [terms |-> bs[k].terms, status |-> bs[k].status, said |-> bs[k].said]
    <3>1. CASE bs[k] = batches[k] /\ k \in DOMAIN batches
      BY <3>1 DEF BatchTypes
    <3>2. CASE bs[k] = new[k] /\ k \in DOMAIN new
      <4>1. new[k] = Sent(new[k].terms) /\ new[k].terms \subseteq Terms /\ k \in (1..LastRound) \X Nat
        BY <1>4, <3>2
      <4> HIDE DEF bs
      <4> QED BY <3>2, <4>1 DEF Sent
    <3> QED BY <2>2, <3>1, <3>2
  <2> HIDE DEF bs
  <2>4. CASE k[1] = round /\ bs[k].status = "FAILED"
    <3>1. batches'[k] = [terms |-> bs[k].terms, status |-> "PENDING", said |-> bs[k].said]
      BY <2>1, <2>3, <2>4
    <3> QED BY <2>1, <2>3, <2>4, <3>1
  <2>5. CASE ~(k[1] = round /\ bs[k].status = "FAILED")
    BY <2>1, <2>3, <2>5
  <2> QED BY <2>4, <2>5
<1>6. DOMAIN batches' = DOMAIN bs
  BY <1>0 DEF FailedReset
<1>7. CASE InRound(batches, round) # {} \/ DOMAIN new = {}
  <2>1. /\ DOMAIN bs = DOMAIN batches /\ \A k \in DOMAIN batches : bs[k] = batches[k]
    BY <1>7
  <2>2. (\A k \in InRound(batches, round) : batches[k].status = "COMPLETED") <=> done
    BY <2>1 DEF InRound
  <2> HIDE DEF bs, done
  <2>3. Covered(batches, round)
    <3>1. CASE InRound(batches, round) # {}
      BY <3>1 DEF InTurn, InRound
    <3>2. CASE DOMAIN new = {}
      BY <1>4, <3>2 DEF Covered
    <3> QED BY <1>7, <3>1, <3>2
  <2>4. Moved(batches, batches')
    BY <1>5, <1>6, <2>1 DEF Moved
  <2>5. BatchTypes' /\ InTurn' /\ StaysKnown
    BY <1>0, <1>5, <2>4, BatchesMove
  <2>6. done => WholeTo(batches, round)
    BY <1>2, <1>3, <2>2, <2>3 DEF WholeTo, Answered
  <2>7. book # NoBook => done
    BY <1>2, <2>2 DEF WrittenIsWhole, WholeTo, Answered
  <2>8. batches' # None
    BY <1>3, <2>4 DEF Moved, BatchTypes, None
  <2>9. WholeTo(batches, r - 1)' /\ Covered(batches, r)' /\ (done => WholeTo(batches, r)')
    BY <1>r, <1>2, <1>3, <2>3, <2>5, <2>6 DEF StaysKnown
  <2>10. ReviewTypes'
    <3>1. round' \in 0..LastRound' /\ where' \in {"close", "round", "run"}
      BY <1>1, <1>2
    <3> QED BY <1>0, <3>1 DEF ReviewTypes, Places, Driving, Closing
  <2>11. ThreadAt'
    <3>1. CASE done /\ round = LastRound
      <4>1. where' = "close" /\ round' = round /\ WholeTo(batches, LastRound)'
        BY <1>r, <1>1, <1>2, <2>9, <3>1
      <4> QED BY <1>2, <2>8, <4>1 DEF ThreadAt, Driving, Closing
    <3>2. CASE done /\ round # LastRound
      <4>1. where' = "round" /\ round' = round + 1 /\ WholeTo(batches, round - 1)'
        <5>1. round' = r + 1 /\ where' = "round" /\ (r + 1) - 1 = r /\ WholeTo(batches, r)'
          BY <1>r, <1>1, <1>2, <2>9, <3>2
        <5>2. round' - 1 = r
          BY <5>1
        <5> QED BY <1>r, <5>1, <5>2
      <4> QED BY <1>2, <2>8, <4>1 DEF ThreadAt, Driving, Closing
    <3>3. CASE ~done
      <4>1. where' = "run" /\ round' = round
        BY <1>1, <3>3
      <4>2. WholeTo(batches, round - 1)' /\ Covered(batches, round)'
        BY <1>r, <2>9, <4>1
      <4> QED BY <1>2, <2>8, <4>1, <4>2 DEF ThreadAt, Driving, Closing
    <3> QED BY <3>1, <3>2, <3>3
  <2>12. WrittenIsWhole'
    BY <1>0, <1>1, <1>2, <2>5, <2>7, <2>8 DEF WrittenIsWhole, Driving, StaysKnown
  <2>13. ToldIsWritten'
    BY <1>0 DEF ToldIsWritten
  <2>14. BookHolds'
    BY <1>0, <1>2, <2>5 DEF BookHolds, StaysKnown, WrittenIsWhole
  <2> QED BY <2>5, <2>10, <2>11, <2>12, <2>13, <2>14
<1>8. CASE InRound(batches, round) = {} /\ DOMAIN new # {}
  <2>1. /\ DOMAIN bs = DOMAIN batches \cup DOMAIN new
        /\ \A k \in DOMAIN bs : bs[k] = IF k \in DOMAIN new THEN new[k] ELSE batches[k]
    BY <1>8
  <2>2. ~Covered(batches, round)
    <3>1. PICK k \in DOMAIN new : TRUE
      BY <1>8
    <3>2. PICK x \in new[k].terms : x \in Terms /\ ~Skipped(batches, x, round)
      BY <1>4
    <3> QED BY <1>8, <3>2 DEF Covered
  <2>3. ASSUME NEW k \in DOMAIN batches PROVE k[1] < round
    <3>1. k[1] \in 1..LastRound /\ k[1] # round
      BY <1>3, <1>8 DEF InRound
    <3>2. ~(round \in 1..(k[1] - 1))
      BY <2>2 DEF InTurn, WholeTo
    <3> QED BY <1>2, <3>1, <3>2
  <2>4. book = NoBook /\ ~report
    BY <1>2, <2>2 DEF WrittenIsWhole, WholeTo
  <2>5. ~done
    <3>1. PICK k \in DOMAIN new : k[1] = round /\ new[k] = Sent(new[k].terms)
      BY <1>4, <1>8
    <3>2. k \in InRound(bs, round) /\ bs[k].status = "PENDING"
      <4>1. bs[k] = new[k] /\ k \in DOMAIN bs
        BY <2>1
      <4> HIDE DEF bs
      <4> QED BY <3>1, <4>1 DEF InRound, Sent
    <3> HIDE DEF bs
    <3> QED BY <3>2
  <2> HIDE DEF bs, done
  <2>6. Grows(batches, batches', round - 1)
    <3>1. \A k \in DOMAIN batches : k \in DOMAIN bs /\ bs[k] = batches[k]
      BY <1>2, <1>4, <2>1, <2>3
    <3>2. \A k \in DOMAIN batches' \ DOMAIN batches : k[1] = round
      BY <1>4, <1>6, <2>1
    <3> QED BY <1>2, <1>5, <1>6, <3>1, <3>2 DEF Grows
  <2>7. WholeTo(batches, r - 1)' /\ Covered(batches, r)'
    <3>1. PICK as, cs : as = batches /\ cs = batches'
      OBVIOUS
    <3>2. WholeTo(cs, round - 1)
      BY <1>0, <1>2, <1>3, <2>6, <3>1, WholeStays
    <3>3. \A k \in DOMAIN NewBatches(as, round) : k \in DOMAIN cs /\ cs[k].terms = NewBatches(as, round)[k].terms
      BY <1>5, <1>6, <2>1, <3>1 DEF new
    <3>4. Covered(cs, round)
      BY <1>0, <1>2, <1>3, <2>6, <3>1, <3>3, SentIsCovered
    <3> QED BY <1>r, <1>0, <3>1, <3>2, <3>4, SamePrimed
  <2>8. BatchTypes'
    <3>1. DOMAIN batches' # {}
      BY <1>6, <1>8, <2>1
    <3> QED BY <1>2, <1>5, <3>1 DEF BatchTypes
  <2>9. InTurn'
    <3> SUFFICES ASSUME NEW k \in DOMAIN batches' PROVE WholeTo(batches, k[1] - 1)' /\ Covered(batches, k[1])'
      BY DEF InTurn
    <3>1. k[1] = round \/ (k[1] < round /\ k[1] \in 1..LastRound)
      BY <1>3, <1>4, <1>6, <2>1, <2>3
    <3>2. CASE k[1] = round
      BY <1>r, <2>7, <3>2
    <3>3. CASE k[1] < round /\ k[1] \in 1..LastRound
      <4>1. 1..(k[1] - 1) \subseteq 1..(r - 1) /\ k[1] \in 1..(r - 1)
        BY <1>r, <1>2, <3>3
      <4> QED BY <2>7, <4>1 DEF WholeTo
    <3> QED BY <3>1, <3>2, <3>3
  <2>10. where' = "run" /\ round' = round
    BY <1>1, <2>5
  <2>11. ReviewTypes'
    BY <1>0, <1>2, <2>10 DEF ReviewTypes, Places, Driving
  <2>12. batches' # None
    BY <1>6, <1>8, <2>1 DEF None
  <2>13. ThreadAt'
    <3>1. WholeTo(batches, round - 1)' /\ Covered(batches, round)'
      BY <1>r, <2>7, <2>10
    <3> QED BY <1>2, <2>10, <2>12, <3>1 DEF ThreadAt, Driving, Closing
  <2>14. WrittenIsWhole' /\ ToldIsWritten' /\ BookHolds'
    BY <1>0, <2>4 DEF WrittenIsWhole, ToldIsWritten, BookHolds
  <2> QED BY <2>8, <2>9, <2>11, <2>13, <2>14
<1> QED BY <1>7, <1>8


\* a review that has not begun
LEMMA StartsInOrder ==
    ASSUME ReviewInit PROVE ReviewInv
<1>1. /\ review \in ReviewCasts /\ LastRound \in Nat /\ 0 \in 0..LastRound
  BY CastFacts DEF ReviewInit
<1>2. DOMAIN batches = {} /\ batches = None
  BY DEF ReviewInit, None
<1>3. ReviewTypes /\ BatchTypes /\ InTurn
  BY <1>1, <1>2 DEF ReviewInit, ReviewTypes, Places, BatchTypes, InTurn, Transient, Final
<1>4. ThreadAt /\ WrittenIsWhole /\ ToldIsWritten /\ BookHolds
  BY DEF ReviewInit, ThreadAt, WrittenIsWhole, ToldIsWritten, BookHolds, Driving, Closing
<1> QED BY <1>3, <1>4 DEF ReviewInv

\* nothing happens
LEMMA NothingStep ==
    ASSUME ReviewInv, UNCHANGED reviewVars PROVE ReviewInv'
<1> USE DEF ReviewInv
<1>0. /\ review' = review /\ batches' = batches /\ header' = header /\ entry' = entry
      /\ stopFlag' = stopFlag /\ where' = where /\ round' = round /\ held' = held /\ book' = book
      /\ report' = report /\ stopping' = stopping /\ shown' = shown /\ dropped' = dropped
      /\ stops' = stops /\ edits' = edits /\ lives' = lives
  BY DEF reviewVars
<1>1. BatchTypes' /\ InTurn' /\ StaysKnown
  BY <1>0, BatchesStay
<1>2. ReviewTypes'
  BY <1>0, <1>1 DEF ReviewTypes, StaysKnown
<1>3. ThreadAt'
  <2>1. round \in 0..LastRound /\ (round # 0 => round - 1 \in 0..LastRound /\ round \in 1..LastRound)
    BY CastFacts DEF ReviewTypes
  <2>2. LastRound \in 0..LastRound
    BY CastFacts DEF ReviewTypes
  <2>3. PICK r, n : r = round /\ n = LastRound
    OBVIOUS
  <2>4. /\ WholeTo(batches, r - 1) /\ r # 0 => WholeTo(batches, r - 1)'
        /\ WholeTo(batches, r - 1) /\ r # 0 /\ Covered(batches, r) => Covered(batches, r)'
        /\ WholeTo(batches, r) => WholeTo(batches, r)'
        /\ WholeTo(batches, n) => WholeTo(batches, n)'
    BY <1>1, <2>1, <2>2, <2>3 DEF StaysKnown
  <2> QED BY <1>0, <1>1, <2>3, <2>4 DEF ThreadAt, StaysKnown, Driving, Closing, Fault
<1>4. WrittenIsWhole'
  BY <1>0, <1>1, CastFacts DEF ReviewTypes, WrittenIsWhole, StaysKnown
<1>5. ToldIsWritten'
  BY <1>0 DEF ToldIsWritten, Fault
<1>6. BookHolds'
  BY <1>0, <1>1 DEF BookHolds, StaysKnown, WrittenIsWhole
<1> QED BY <1>1, <1>2, <1>3, <1>4, <1>5, <1>6

\* the invariant holds
LEMMA ReviewInvHolds ==
    ASSUME NoEditAfterFailure PROVE ReviewSpec => []ReviewInv
<1>1. ReviewInit => ReviewInv
  BY StartsInOrder
<1>2. ASSUME ReviewInv, [ReviewNext]_reviewVars PROVE ReviewInv'
  <2>1. CASE ReviewThread
    BY <1>2, <2>1, SeedsStep, EntersStep, RunsStep, EndsStep, UpgradesStep, GoesOnStep, ClosesStep,
       WritesBookStep, WritesReportStep, LeavesStep, FailsStep, TakesStep, SettlesStep
    DEF ReviewThread
  <2>2. CASE StartReview \/ StopsReview \/ MarksReview \/ PollReview \/ ContinueReview \/ RestartReview
    BY <1>2, <2>2, StartReviewStep, StopsStep, MarksStep, PollStep, ContinueStep, RestartStep
  <2>3. CASE DeleteFinalRows \/ UpdateFinalRow \/ RestoreRow
    BY <1>2, <2>3, EditsStep
  <2>4. CASE UNCHANGED reviewVars
    BY <1>2, <2>4, NothingStep
  <2> QED BY <1>2, <2>1, <2>2, <2>3, <2>4 DEF ReviewNext
<1> QED BY <1>1, <1>2, PTL DEF ReviewSpec

\* and says what a finished review has to be
LEMMA CompleteByReviewInv ==
    ASSUME ReviewInv PROVE ReviewIsComplete
<1> USE DEF ReviewInv
<1>1. SUFFICES ASSUME shown = "COMPLETED"
               PROVE  EveryRowReviewed /\ RowsAreKept /\ ToldWhenWritten
  BY DEF ReviewIsComplete, EveryRowReviewed, RowsAreKept, ToldWhenWritten
<1>2. /\ report /\ book # NoBook /\ WholeTo(batches, LastRound)
      /\ review \in ReviewCasts /\ (header = "COMPLETED" \/ Fault("write"))
  BY <1>1 DEF ToldIsWritten, WrittenIsWhole, ReviewTypes
<1>3. ASSUME NEW x \in Terms, NEW r \in 1..review.rounds
      PROVE  Decided(x, r) \/ After(batches, r - 1)[x].deleted \/ Settled(x, r)
  <2>1. r \in 1..LastRound /\ r # LastRound /\ r \in Nat \ {0}
    BY <1>2, CastFacts
  <2>2. Answered(batches, r) /\ Covered(batches, r)
    BY <1>2, <2>1 DEF WholeTo
  <2>3. CASE \E k \in InRound(batches, r) : x \in batches[k].terms
    BY <2>2, <2>3 DEF Decided, Answered
  <2>4. CASE Skipped(batches, x, r)
    BY <1>2, <2>1, <2>4, AgreedIsSettled DEF Skipped
  <2> QED BY <2>2, <2>3, <2>4 DEF Covered
<1>4. RowsAreKept
  BY <1>2 DEF RowsAreKept, BookHolds, Struck
<1> QED BY <1>2, <1>3, <1>4 DEF EveryRowReviewed, ToldWhenWritten, Artifacts

\* What the page calls a finished review is one, for every workbook, number of rounds and answer:
\* each row was asked of in each round, or had left the workbook, or its term was agreed on; the
\* workbook lacks no other row; and COMPLETED is said of files that are there
\* (_ensure_round_seeded, _has_consensus, _reconcile_glossary_review_completion).  A cast whose
\* user edits a result that could not be rewritten is excluded: Continue writes over the edit.
THEOREM ReviewsStayComplete ==
    ASSUME NoEditAfterFailure PROVE ReviewSpec => []ReviewIsComplete
BY ReviewInvHolds, CompleteByReviewInv, PTL

-----------------------------------------------------------------------------
(* The answers a glossary hears: the chunk of an extraction.                *)

\* the budgets of a piece are numbers
LEMMA CallsOfAPiece == PieceCalls \in Nat /\ FormatBudget \in Nat /\ TransportBudget \in Nat
BY ChunksAssumption DEF PieceCalls, FormatBudget, TransportBudget, LeastOf

\* the cost of a piece is that of a call with its retries and of two halves
LEMMA CostSteps ==
    \A n \in 0..CutDepth : /\ CostOf[n] \in Nat
                           /\ CostOf[n] = IF n = 0 THEN PieceCalls ELSE PieceCalls + 2 * CostOf[n - 1]
<1> DEFINE V == [k \in 0..CutDepth |-> Nat]
           G == [k \in 1..CutDepth |-> [v \in Nat |-> PieceCalls + 2 * v]]
<1>0. CutDepth \in Nat /\ PieceCalls \in Nat
  BY ChunksAssumption, CallsOfAPiece
<1>a. \A k \in 0..CutDepth : V[k] = Nat
  OBVIOUS
<1>b. \A k \in 1..CutDepth : \A v \in Nat : G[k][v] = PieceCalls + 2 * v
  OBVIOUS
<1> HIDE DEF V, G
<1>1. StepsWithin(CutDepth, V, PieceCalls, G)
  <2>1. \A k \in 1..CutDepth : k - 1 \in 0..CutDepth /\ k \in 0..CutDepth /\ 0 \in 0..CutDepth
    BY <1>0
  <2>2. \A v \in Nat : PieceCalls + 2 * v \in Nat
    BY <1>0
  <2>3. 0 \in 0..CutDepth
    BY <1>0
  <2> QED BY <1>0, <1>a, <1>b, <2>1, <2>2, <2>3 DEF StepsWithin
<1>2. PICK f : f[0] = PieceCalls /\ \A k \in 1..CutDepth : f[k] \in V[k] /\ f[k] = G[k][f[k - 1]]
  BY <1>0, <1>1, Recursion DEF HasRun
<1>3. \A k \in 0..CutDepth : f[k] \in Nat
  <2> TAKE k \in 0..CutDepth
  <2>1. CASE k = 0
    BY <1>0, <1>2, <2>1
  <2>2. CASE k # 0
    <3>1. k \in 1..CutDepth
      BY <1>0, <2>2
    <3> QED BY <1>2, <1>a, <3>1
  <2> QED BY <2>1, <2>2
<1>4. \A k \in 0..CutDepth : f[k] = IF k = 0 THEN PieceCalls ELSE PieceCalls + 2 * f[k - 1]
  <2> TAKE k \in 0..CutDepth
  <2>1. CASE k = 0
    BY <1>2, <2>1
  <2>2. CASE k # 0
    <3>1. k \in 1..CutDepth /\ k - 1 \in 0..CutDepth
      BY <1>0, <2>2
    <3>2. f[k - 1] \in Nat
      BY <1>3, <3>1
    <3> QED BY <1>2, <1>b, <2>2, <3>1, <3>2
  <2> QED BY <2>1, <2>2
<1> DEFINE g == [k \in 0..CutDepth |-> f[k]]
<1>5. g = [k \in 0..CutDepth |-> IF k = 0 THEN PieceCalls ELSE PieceCalls + 2 * g[k - 1]]
  <2>1. \A k \in 0..CutDepth : g[k] = IF k = 0 THEN PieceCalls ELSE PieceCalls + 2 * g[k - 1]
    <3> TAKE k \in 0..CutDepth
    <3>1. k # 0 => k - 1 \in 0..CutDepth
      BY <1>0
    <3> QED BY <1>4, <3>1
  <2>2. g = [k \in 0..CutDepth |-> g[k]]
    OBVIOUS
  <2> HIDE DEF g
  <2> QED BY <2>1, <2>2
<1>6. CostOf = [k \in 0..CutDepth |-> IF k = 0 THEN PieceCalls ELSE PieceCalls + 2 * CostOf[k - 1]]
  <2> HIDE DEF g
  <2> QED BY <1>5 DEF CostOf
<1>7. \A k \in 0..CutDepth : CostOf[k] = IF k = 0 THEN PieceCalls ELSE PieceCalls + 2 * CostOf[k - 1]
  BY <1>6
<1> DEFINE T == {k \in 0..CutDepth : CostOf[k] \in Nat}
<1>8. \A k \in 0..CutDepth : k \in T
  <2>1. 0 \in T
    <3>1. 0 \in 0..CutDepth
      BY <1>0
    <3> QED BY <1>0, <1>7, <3>1
  <2>2. ASSUME NEW k \in 1..CutDepth, k - 1 \in T PROVE k \in T
    <3>1. k \in 0..CutDepth /\ k # 0 /\ CostOf[k - 1] \in Nat
      BY <1>0, <2>2
    <3>2. CostOf[k] = PieceCalls + 2 * CostOf[k - 1]
      BY <1>7, <3>1
    <3>3. CostOf[k] \in Nat
      BY <1>0, <3>1, <3>2
    <3> QED BY <3>1, <3>3
  <2> HIDE DEF T
  <2> QED BY <1>0, <2>1, <2>2, UpTo
<1> QED BY <1>7, <1>8

-----------------------------------------------------------------------------
(* The words of lines. *)

LineForms  == Seq(STRING)
LinesForms == Seq(LineForms)

\* the words of lines are words
LEMMA WordsAre ==
    ASSUME NEW lines \in LinesForms
    PROVE  WordsOf(lines) \in Seq(STRING)
BY FlattenMembers DEF WordsOf, LinesForms, LineForms

\* the words of two texts behind one another
LEMMA WordsInParts ==
    ASSUME NEW a \in LinesForms, NEW b \in LinesForms
    PROVE  WordsOf(a \o b) = WordsOf(a) \o WordsOf(b)
BY FlattenConcat DEF WordsOf, LinesForms, LineForms

\* the words of a line by itself
LEMMA WordsOfOne ==
    ASSUME NEW line \in Seq(STRING)
    PROVE  <<line>> \in LinesForms /\ WordsOf(<<line>>) = line
<1>1. <<line>> \in LinesForms
  BY DEF LinesForms, LineForms
<1> QED BY <1>1, FlattenOne DEF WordsOf

\* the words of a text that is cut between two lines
LEMMA WordsSplit ==
    ASSUME NEW lines \in LinesForms, NEW n \in 0..Len(lines)
    PROVE  /\ SubSeq(lines, 1, n) \in LinesForms /\ SubSeq(lines, n + 1, Len(lines)) \in LinesForms
           /\ WordsOf(lines) = WordsOf(SubSeq(lines, 1, n)) \o WordsOf(SubSeq(lines, n + 1, Len(lines)))
<1> DEFINE a == SubSeq(lines, 1, n)
           b == SubSeq(lines, n + 1, Len(lines))
<1>1. a \in LinesForms /\ b \in LinesForms /\ lines = a \o b
  BY SplitAt DEF LinesForms
<1> HIDE DEF a, b
<1>2. WordsOf(lines) = WordsOf(a) \o WordsOf(b)
  BY <1>1, WordsInParts
<1> QED BY <1>1, <1>2 DEF a, b

\* the words of a text around one of its lines
LEMMA WordsAround ==
    ASSUME NEW lines \in LinesForms, NEW i \in 1..Len(lines)
    PROVE  \E a, c \in Seq(STRING) :
               /\ WordsOf(lines) = (a \o lines[i]) \o c /\ lines[i] \in Seq(STRING)
               /\ WordsOf(RemoveAt(lines, i)) = a \o c
<1> DEFINE p == SubSeq(lines, 1, i - 1)
           q == SubSeq(lines, i + 1, Len(lines))
           x == lines[i]
<1>1. p \in LinesForms /\ q \in LinesForms /\ lines = (p \o <<x>>) \o q /\ x \in Seq(STRING)
  <2>1. p \in LinesForms /\ q \in LinesForms /\ lines = (p \o <<x>>) \o q
    BY AroundOne DEF LinesForms
  <2>2. x \in LineForms
    BY DEF LinesForms
  <2> QED BY <2>1, <2>2 DEF LineForms
<1>2. RemoveAt(lines, i) = p \o q
  BY DEF RemoveAt
<1> HIDE DEF p, q, x
<1>3. <<x>> \in LinesForms /\ p \o <<x>> \in LinesForms
  <2>1. <<x>> \in LinesForms
    BY <1>1, WordsOfOne
  <2> QED BY <1>1, <2>1, ConcatInTurn DEF LinesForms
<1>4. WordsOf(lines) = (WordsOf(p) \o x) \o WordsOf(q)
  <2>1. WordsOf(p \o <<x>>) = WordsOf(p) \o x
    <3>1. WordsOf(p \o <<x>>) = WordsOf(p) \o WordsOf(<<x>>)
      BY <1>1, <1>3, WordsInParts
    <3>2. WordsOf(<<x>>) = x
      BY <1>1, WordsOfOne
    <3> QED BY <3>1, <3>2
  <2> DEFINE px == p \o <<x>>
  <2>2. px \in LinesForms /\ lines = px \o q /\ WordsOf(px) = WordsOf(p) \o x
    BY <1>1, <1>3, <2>1
  <2> HIDE DEF px
  <2>3. WordsOf(px \o q) = WordsOf(px) \o WordsOf(q)
    BY <1>1, <2>2, WordsInParts
  <2> QED BY <2>2, <2>3
<1>5. WordsOf(RemoveAt(lines, i)) = WordsOf(p) \o WordsOf(q)
  BY <1>1, <1>2, WordsInParts
<1>6. WordsOf(p) \in Seq(STRING) /\ WordsOf(q) \in Seq(STRING)
  BY <1>1, WordsAre
<1> QED BY <1>1, <1>4, <1>5, <1>6 DEF x

\* what is still to be asked of a list of pieces
PieceForms == [lines : {t \in LinesForms : t # <<>>}, depth : 0..CutDepth]
WaitingOf(ps) == WordsOf([i \in DOMAIN ps |-> WordsOf(ps[i].lines)])

\* what is waiting is a list of words
LEMMA WaitingForms ==
    ASSUME NEW ps \in Seq(PieceForms)
    PROVE  /\ [i \in DOMAIN ps |-> WordsOf(ps[i].lines)] \in LinesForms
           /\ WaitingOf(ps) \in Seq(STRING)
<1>1. \A i \in 1..Len(ps) : WordsOf(ps[i].lines) \in Seq(STRING)
  <2> TAKE i \in 1..Len(ps)
  <2>1. ps[i] \in PieceForms
    OBVIOUS
  <2>2. ps[i].lines \in LinesForms
    BY <2>1 DEF PieceForms
  <2> QED BY <2>2, WordsAre
<1>2. DOMAIN ps = 1..Len(ps) /\ Len(ps) \in Nat
  OBVIOUS
<1> DEFINE w == [i \in DOMAIN ps |-> WordsOf(ps[i].lines)]
<1>3. w \in [1..Len(ps) -> Seq(STRING)]
  BY <1>1, <1>2
<1>4. w \in LinesForms
  <2> HIDE DEF w
  <2> QED BY <1>2, <1>3 DEF LinesForms, LineForms
<1> HIDE DEF w
<1>5. WordsOf(w) \in Seq(STRING)
  BY <1>4, WordsAre
<1> QED BY <1>4, <1>5 DEF w, WaitingOf

\* ... and the first piece is waiting in front of the others
LEMMA WaitingFirst ==
    ASSUME NEW p \in PieceForms, NEW ps \in Seq(PieceForms)
    PROVE  <<p>> \o ps \in Seq(PieceForms) /\ WaitingOf(<<p>> \o ps) = WordsOf(p.lines) \o WaitingOf(ps)
<1> DEFINE F(q) == [i \in DOMAIN q |-> WordsOf(q[i].lines)]
           all == <<p>> \o ps
<1>1. /\ all \in Seq(PieceForms) /\ Len(all) = 1 + Len(ps) /\ all[1] = p
      /\ \A k \in 1..Len(ps) : all[1 + k] = ps[k]
  OBVIOUS
<1> HIDE DEF all
<1>2. F(ps) \in LinesForms
  BY WaitingForms
<1>3. WordsOf(p.lines) \in Seq(STRING)
  BY WordsAre DEF PieceForms
<1> DEFINE a == <<WordsOf(p.lines)>>
           b == F(ps)
           c == F(all)
<1>4. a \in LinesForms /\ Len(a) = 1 /\ a[1] = WordsOf(p.lines)
  BY <1>3 DEF LinesForms, LineForms
<1>5. b \in LinesForms /\ Len(b) = Len(ps) /\ \A k \in 1..Len(ps) : b[k] = WordsOf(ps[k].lines)
  BY <1>2
<1>6. c \in LinesForms /\ Len(c) = 1 + Len(ps) /\ \A k \in 1..(1 + Len(ps)) : c[k] = WordsOf(all[k].lines)
  <2>1. c \in LinesForms
    BY <1>1, WaitingForms
  <2> QED BY <1>1, <2>1
<1> HIDE DEF a, b, c
<1>7. a \o b \in LinesForms /\ Len(a \o b) = 1 + Len(ps) /\ (a \o b)[1] = a[1]
      /\ \A k \in 1..Len(ps) : (a \o b)[1 + k] = b[k]
  <2>1. /\ a \o b \in LinesForms /\ Len(a \o b) = Len(a) + Len(b)
        /\ \A k \in 1..Len(a) : (a \o b)[k] = a[k]
        /\ \A k \in 1..Len(b) : (a \o b)[Len(a) + k] = b[k]
    <3>1. ASSUME NEW u \in LinesForms, NEW v \in LinesForms
          PROVE  /\ u \o v \in LinesForms /\ Len(u \o v) = Len(u) + Len(v)
                 /\ \A k \in 1..Len(u) : (u \o v)[k] = u[k]
                 /\ \A k \in 1..Len(v) : (u \o v)[Len(u) + k] = v[k]
      BY ConcatPlaces DEF LinesForms
    <3> QED BY <1>4, <1>5, <3>1, Zenon
  <2>2. 1 \in 1..Len(a)
    BY <1>4
  <2> QED BY <1>4, <1>5, <2>1, <2>2
<1> DEFINE ab == a \o b
<1>8. \A k \in 1..(1 + Len(ps)) : ab[k] = c[k]
  <2> TAKE k \in 1..(1 + Len(ps))
  <2>1. CASE k = 1
    BY <1>1, <1>4, <1>6, <1>7, <2>1
  <2>2. CASE k # 1
    <3>1. k - 1 \in 1..Len(ps) /\ 1 + (k - 1) = k
      BY <2>2
    <3>2. ab[k] = b[k - 1] /\ all[k] = ps[k - 1]
      BY <1>1, <1>7, <3>1
    <3> QED BY <1>5, <1>6, <3>1, <3>2
  <2> QED BY <2>1, <2>2
<1>9. c = ab
  <2>1. ab \in LinesForms /\ Len(ab) = 1 + Len(ps)
    BY <1>7
  <2> HIDE DEF ab
  <2> QED BY <1>6, <1>8, <2>1 DEF LinesForms
<1>10. WordsOf(c) = WordsOf(a) \o WordsOf(b)
  BY <1>4, <1>5, <1>9, WordsInParts
<1>11. WordsOf(a) = WordsOf(p.lines)
  BY <1>3, WordsOfOne DEF a
<1> QED BY <1>1, <1>10, <1>11 DEF WaitingOf, all, b, c

-----------------------------------------------------------------------------
(* The invariant of a chunk. *)

ChunkType ==
    /\ whole \in ChunkTexts /\ pieces \in Seq(PieceForms)
    /\ spent \in [format : 0..FormatBudget, transport : 0..TransportBudget]
    /\ heard \in Seq(STRING) /\ lostWords \in [Reasons -> SUBSET STRING] /\ asked \in Nat
    /\ chunkEnd \in {"none", "completed", "failed"} /\ (chunkEnd = "none" <=> pieces # <<>>)

\* what the pieces may still cost, the last one first
Owes(f, ps) ==
    /\ f[0] = 0 /\ \A k \in 0..Len(ps) : f[k] \in Nat
    /\ \A k \in 1..Len(ps) : f[k] = f[k - 1] + CostOf[CutDepth - ps[Len(ps) + 1 - k].depth]
CallsCovered ==
    /\ pieces = <<>> => spent = NoRetries
    /\ \E f : Owes(f, pieces) /\ asked + f[Len(pieces)] <= CostOf[CutDepth] + spent.format + spent.transport

WordsCovered ==
    chunkEnd # "failed" =>
        /\ IsPartOf(heard \o Waiting, WordsOf(whole))
        /\ ToSet(heard \o Waiting) \cup Missed = ToSet(WordsOf(whole))
        /\ Missed \cap ToSet(heard \o Waiting) = {}

ChunkInv == ChunkType /\ WordsCovered /\ CallsCovered

\* the shapes of a step
Retried ==
    /\ UNCHANGED <<pieces, heard, lostWords, chunkEnd>>
    /\ spent' \in [format : 0..FormatBudget, transport : 0..TransportBudget]
    /\ spent'.format + spent'.transport = spent.format + spent.transport + 1
Loses(b) == lostWords' \in [Reasons -> SUBSET STRING] /\ Missed' = Missed \cup ToSet(b)
Parted(a, b, c) ==
    /\ a \in Seq(STRING) /\ b \in Seq(STRING) /\ c \in Seq(STRING)
    /\ WordsOf(Piece.lines) = (a \o b) \o c /\ Loses(b)
WentOn  == \E a, b, c : Parted(a, b, c) /\ heard' = heard \o (a \o c) /\ NextPiece
Divided ==
    /\ Piece.depth < CutDepth /\ spent' = NoRetries /\ UNCHANGED <<heard, chunkEnd>>
    /\ \E a, b, c : /\ Parted(a, b, c)
                    /\ \E p, q \in PieceForms :
                          /\ p.depth = Piece.depth + 1 /\ q.depth = Piece.depth + 1
                          /\ WordsOf(p.lines) = a /\ WordsOf(q.lines) = c
                          /\ pieces' = <<p>> \o (<<q>> \o Tail(pieces))
StepShape ==
    /\ Asking /\ whole' = whole /\ asked' = asked + 1
    /\ Retried \/ WentOn \/ Divided \/ FailsChunk

\* the piece that is asked for, and those behind it
LEMMA PieceIs ==
    ASSUME ChunkType, Asking
    PROVE  /\ Piece \in PieceForms /\ Piece.lines \in LinesForms /\ Len(Piece.lines) \in Nat \ {0}
           /\ Piece.depth \in 0..CutDepth /\ WordsOf(Piece.lines) \in Seq(STRING)
           /\ pieces = <<Piece>> \o Tail(pieces) /\ Tail(pieces) \in Seq(PieceForms)
           /\ Len(Tail(pieces)) = Len(pieces) - 1 /\ Len(pieces) \in Nat \ {0}
<1>1. pieces \in Seq(PieceForms) /\ pieces # <<>>
  BY DEF ChunkType, Asking
<1>2. /\ Head(pieces) \in PieceForms /\ pieces = <<Head(pieces)>> \o Tail(pieces) /\ Tail(pieces) \in Seq(PieceForms)
      /\ Len(Tail(pieces)) = Len(pieces) - 1 /\ Len(pieces) \in Nat \ {0}
  BY <1>1
<1>3. Piece \in PieceForms
  BY <1>2 DEF Piece
<1>4. Piece.lines \in LinesForms /\ Piece.lines # <<>> /\ Piece.depth \in 0..CutDepth
  BY <1>3 DEF PieceForms
<1>5. Len(Piece.lines) \in Nat \ {0}
  BY <1>4 DEF LinesForms
<1> QED BY <1>2, <1>3, <1>4, <1>5, WordsAre DEF Piece

\* words that are missed are lost for one more reason
LEMMA MissesLoses ==
    ASSUME ChunkType, NEW b \in Seq(STRING), NEW r \in Reasons, Misses(ToSet(b), r)
    PROVE  Loses(b)
<1>1. ToSet(b) \subseteq STRING
  BY SeqToSet
<1>2. lostWords \in [Reasons -> SUBSET STRING] /\ lostWords' = [lostWords EXCEPT ![r] = @ \cup ToSet(b)]
  BY DEF ChunkType, Misses
<1> DEFINE l == lostWords'
<1>3. l \in [Reasons -> SUBSET STRING] /\ \A x \in Reasons : l[x] = IF x = r THEN lostWords[x] \cup ToSet(b) ELSE lostWords[x]
  BY <1>1, <1>2
<1> HIDE DEF l
<1>4. UNION {l[x] : x \in Reasons} = (UNION {lostWords[x] : x \in Reasons}) \cup ToSet(b)
  <2>1. ASSUME NEW y, NEW x \in Reasons, y \in l[x]
        PROVE  y \in (UNION {lostWords[z] : z \in Reasons}) \cup ToSet(b)
    BY <1>3, <2>1
  <2>2. ASSUME NEW y, NEW x \in Reasons, y \in lostWords[x] PROVE y \in l[x]
    BY <1>3, <2>2
  <2>3. ASSUME NEW y \in ToSet(b) PROVE y \in l[r]
    BY <1>3
  <2> QED BY <2>1, <2>2, <2>3
<1>5. Missed' = UNION {l[x] : x \in Reasons}
  BY DEF Missed, l
<1> QED BY <1>3, <1>4, <1>5 DEF Loses, Missed, l

\* where nothing is missed nothing is lost
LEMMA NothingLost ==
    ASSUME ChunkType, UNCHANGED lostWords
    PROVE  Loses(<<>>)
<1>1. ToSet(<<>>) = {}
  BY DEF ToSet
<1>2. Missed' = Missed
  BY DEF Missed
<1> QED BY <1>1, <1>2 DEF Loses, ChunkType

\* An action has one of four shapes: the piece is retried, done with, divided, or the chunk fails. A whole answer
LEMMA WholeShape ==
    ASSUME ChunkType, AnswersWhole
    PROVE  StepShape
<1>0. Asking /\ whole' = whole /\ asked' = asked + 1
  BY DEF AnswersWhole, Pays
<1> DEFINE a == WordsOf(Piece.lines)
<1>1. a \in Seq(STRING)
  BY <1>0, PieceIs
<1>2. Loses(<<>>) /\ heard' = heard \o a /\ NextPiece
  BY NothingLost DEF AnswersWhole, Hears
<1> HIDE DEF a
<1>3. <<>> \in Seq(STRING) /\ (a \o <<>>) \o <<>> = a /\ a \o <<>> = a
  BY <1>1, EmptyParts
<1>4. Parted(a, <<>>, <<>>)
  BY <1>1, <1>2, <1>3 DEF Parted, a
<1>5. WentOn
  BY <1>2, <1>3, <1>4 DEF WentOn
<1> QED BY <1>0, <1>5 DEF StepShape

\* an answer some rows of which cannot be used
LEMMA PartlyShape ==
    ASSUME ChunkType, AnswersPartly
    PROVE  StepShape
<1>0. Asking /\ whole' = whole /\ asked' = asked + 1 /\ NextPiece
  BY DEF AnswersPartly, Pays
<1>1. PICK bad \in 1..Len(Piece.lines) :
          heard' = heard \o WordsOf(RemoveAt(Piece.lines, bad)) /\ Misses(ToSet(Piece.lines[bad]), "row")
  BY DEF AnswersPartly, Hears
<1>2. PICK a, c \in Seq(STRING) :
          /\ WordsOf(Piece.lines) = (a \o Piece.lines[bad]) \o c /\ Piece.lines[bad] \in Seq(STRING)
          /\ WordsOf(RemoveAt(Piece.lines, bad)) = a \o c
  BY <1>0, PieceIs, WordsAround
<1>3. Loses(Piece.lines[bad])
  BY <1>1, <1>2, MissesLoses DEF Reasons
<1>4. Parted(a, Piece.lines[bad], c)
  BY <1>2, <1>3 DEF Parted
<1>5. WentOn
  BY <1>0, <1>1, <1>2, <1>4 DEF WentOn
<1> QED BY <1>0, <1>5 DEF StepShape

\* an answer without rows
LEMMA ProseShape ==
    ASSUME ChunkType, AnswersProse
    PROVE  StepShape
<1>0. Asking /\ whole' = whole /\ asked' = asked + 1 /\ heard' = heard
  BY DEF AnswersProse, Pays
<1>1. CASE spent.format < FormatBudget
  <2>1. spent' = [spent EXCEPT !.format = @ + 1] /\ UNCHANGED <<pieces, lostWords, chunkEnd>>
    BY <1>1 DEF AnswersProse
  <2>2. spent.format \in 0..FormatBudget /\ spent.transport \in 0..TransportBudget /\ FormatBudget \in Nat
        /\ spent \in [format : 0..FormatBudget, transport : 0..TransportBudget]
    BY CallsOfAPiece DEF ChunkType
  <2>3. spent' \in [format : 0..FormatBudget, transport : 0..TransportBudget]
        /\ spent'.format = spent.format + 1 /\ spent'.transport = spent.transport
    BY <1>1, <2>1, <2>2
  <2>4. Retried
    <3>1. TransportBudget \in Nat
      BY CallsOfAPiece
    <3> QED BY <1>0, <2>1, <2>2, <2>3, <3>1 DEF Retried
  <2> QED BY <1>0, <2>4 DEF StepShape
<1>2. CASE ~(spent.format < FormatBudget)
  <2> DEFINE b == WordsOf(Piece.lines)
  <2>1. NextPiece /\ Misses(ToSet(b), "prose") /\ b \in Seq(STRING)
    BY <1>0, <1>2, PieceIs DEF AnswersProse
  <2>2. Loses(b)
    BY <2>1, MissesLoses DEF Reasons
  <2> HIDE DEF b
  <2>3. <<>> \in Seq(STRING) /\ (<<>> \o b) \o <<>> = b /\ heard \o (<<>> \o <<>>) = heard
    <3>1. heard \in Seq(STRING)
      BY DEF ChunkType
    <3> QED BY <2>1, <3>1, EmptyParts
  <2>4. Parted(<<>>, b, <<>>)
    BY <2>1, <2>2, <2>3 DEF Parted, b
  <2>5. WentOn
    BY <1>0, <2>1, <2>3, <2>4 DEF WentOn
  <2> QED BY <1>0, <2>5 DEF StepShape
<1> QED BY <1>1, <1>2

\* a server error
LEMMA BrieflyShape ==
    ASSUME ChunkType, FailsBriefly
    PROVE  StepShape
<1>0. Asking /\ whole' = whole /\ asked' = asked + 1
  BY DEF FailsBriefly, Pays
<1>1. CASE spent.transport < TransportBudget
  <2>1. spent' = [spent EXCEPT !.transport = @ + 1] /\ UNCHANGED <<pieces, heard, lostWords, chunkEnd>>
    BY <1>1 DEF FailsBriefly
  <2>2. spent.format \in 0..FormatBudget /\ spent.transport \in 0..TransportBudget /\ TransportBudget \in Nat
        /\ spent \in [format : 0..FormatBudget, transport : 0..TransportBudget] /\ FormatBudget \in Nat
    BY CallsOfAPiece DEF ChunkType
  <2>3. spent' \in [format : 0..FormatBudget, transport : 0..TransportBudget]
        /\ spent'.format = spent.format /\ spent'.transport = spent.transport + 1
    BY <1>1, <2>1, <2>2
  <2>4. Retried
    BY <2>1, <2>2, <2>3 DEF Retried
  <2> QED BY <1>0, <2>4 DEF StepShape
<1>2. CASE ~(spent.transport < TransportBudget)
  BY <1>0, <1>2 DEF FailsBriefly, StepShape
<1> QED BY <1>1, <1>2

\* an error for good
LEMMA ForGoodShape ==
    ASSUME ChunkType, FailsForGood
    PROVE  StepShape
BY DEF FailsForGood, StepShape, Pays

\* a middle lies inside
LEMMA HalfBounds ==
    ASSUME NEW n \in Nat, n > 1
    PROVE  n \div 2 \in 1..(n - 1) /\ n \div 2 \in 0..n /\ n - (n \div 2) \in 1..n
OBVIOUS

\* two halves in front of the rest
LEMMA HalvedForms ==
    ASSUME ChunkType, Asking, Piece.depth < CutDepth,
           NEW first \in LinesForms, NEW second \in LinesForms, first # <<>>, second # <<>>,
           NEW b, Parted(WordsOf(first), b, WordsOf(second)), Halved(<<first, second>>)
    PROVE  Divided
<1> DEFINE p == [lines |-> first, depth |-> Piece.depth + 1]
           q == [lines |-> second, depth |-> Piece.depth + 1]
<1>1. Piece.depth + 1 \in 0..CutDepth
  BY PieceIs, ChunksAssumption
<1>2. p \in PieceForms /\ q \in PieceForms
  BY <1>1 DEF PieceForms
<1>3. p.depth = Piece.depth + 1 /\ q.depth = Piece.depth + 1 /\ p.lines = first /\ q.lines = second
  OBVIOUS
<1>4. [i \in 1..2 |-> [lines |-> <<first, second>>[i], depth |-> Piece.depth + 1]] = <<p, q>>
  <2> DEFINE d == Piece.depth + 1
             g == [i \in 1..2 |-> [lines |-> <<first, second>>[i], depth |-> d]]
  <2>1. g[1] = p /\ g[2] = q
    OBVIOUS
  <2>2. g = [i \in 1..2 |-> g[i]] /\ DOMAIN <<p, q>> = 1..2 /\ <<p, q>>[1] = p /\ <<p, q>>[2] = q
    OBVIOUS
  <2> HIDE DEF p, q, g
  <2>3. \A i \in 1..2 : g[i] = <<p, q>>[i]
    <3>1. \A i \in 1..2 : i = 1 \/ i = 2
      OBVIOUS
    <3> QED BY <2>1, <2>2, <3>1
  <2>4. g = <<p, q>>
    <3>1. <<p, q>> = [i \in 1..2 |-> <<p, q>>[i]]
      OBVIOUS
    <3> QED BY <2>2, <2>3, <3>1
  <2> QED BY <2>4 DEF g
<1>5. pieces' = <<p, q>> \o Tail(pieces) /\ spent' = NoRetries /\ UNCHANGED <<heard, chunkEnd>>
  BY <1>4 DEF Halved
<1> HIDE DEF p, q
<1>6. <<p, q>> \o Tail(pieces) = <<p>> \o (<<q>> \o Tail(pieces))
  <2>1. Tail(pieces) \in Seq(PieceForms)
    BY PieceIs
  <2> QED BY <1>2, <2>1, PairInTurn
<1> QED BY <1>2, <1>3, <1>5, <1>6 DEF Divided

\* a piece in halves, cut between two lines or inside one
LEMMA HalvesShape ==
    ASSUME ChunkType, Asking, Piece.depth < CutDepth, AsksHalves
    PROVE  Divided
<1> DEFINE lines == Piece.lines
           n == Len(lines)
           middle == n \div 2
<1>1. lines \in LinesForms /\ n \in Nat \ {0} /\ WordsOf(lines) \in Seq(STRING)
  BY PieceIs
<1>2. CASE n > 1
  <2> DEFINE first == SubSeq(lines, 1, middle)
             second == SubSeq(lines, middle + 1, n)
  <2>0. middle \in 1..(n - 1) /\ middle \in 0..n /\ n - middle \in 1..n
    <3> HIDE DEF n
    <3> QED BY <1>1, <1>2, HalfBounds
  <2>1. Halved(<<first, second>>) /\ UNCHANGED lostWords
    BY <1>2 DEF AsksHalves
  <2>2. /\ first \in LinesForms /\ second \in LinesForms /\ Len(first) = middle /\ Len(second) = n - middle
        /\ WordsOf(lines) = WordsOf(first) \o WordsOf(second)
    <3>1. lines \in Seq(LineForms)
      BY <1>1 DEF LinesForms
    <3>2. Len(first) = middle /\ Len(second) = n - middle
      BY <2>0, <3>1, SplitAt, ZenonT(40)
    <3> QED BY <1>1, <2>0, <3>2, WordsSplit
  <2>3. first # <<>> /\ second # <<>>
    <3>1. Len(first) # 0 /\ Len(second) # 0
      <4> HIDE DEF n, middle, first, second
      <4> QED BY <1>1, <2>0, <2>2
    <3>2. Len(<<>>) = 0
      OBVIOUS
    <3> HIDE DEF first, second
    <3> QED BY <3>1, <3>2
  <2> HIDE DEF first, second
  <2>4. WordsOf(first) \in Seq(STRING) /\ WordsOf(second) \in Seq(STRING)
    BY <2>2, WordsAre
  <2>5. Parted(WordsOf(first), <<>>, WordsOf(second))
    <3>1. WordsOf(first) \o <<>> = WordsOf(first) /\ <<>> \in Seq(STRING)
      BY <2>4, EmptyParts
    <3>2. Loses(<<>>)
      BY <2>1, NothingLost
    <3> QED BY <2>2, <2>4, <3>1, <3>2 DEF Parted
  <2> QED BY <2>1, <2>2, <2>3, <2>5, HalvedForms
<1>3. CASE ~(n > 1)
  <2> DEFINE line == lines[1]
  <2>1. n = 1 /\ line \in Seq(STRING) /\ lines = <<line>>
    <3>1. n = 1
      <4> HIDE DEF n
      <4> QED BY <1>1, <1>3
    <3>2. lines \in Seq(LineForms)
      BY <1>1 DEF LinesForms
    <3>3. lines[1] \in LineForms /\ lines = <<lines[1]>>
      BY <3>1, <3>2
    <3> QED BY <3>1, <3>3 DEF LineForms
  <2>2. PICK left \in 0..Len(line), torn \in 0..1 :
            /\ left + torn <= Len(line)
            /\ Halved(<<<<SubSeq(line, 1, left)>>, <<SubSeq(line, left + torn + 1, Len(line))>>>>)
            /\ Misses(ToSet(SubSeq(line, left + 1, left + torn)), "torn")
    BY <1>3 DEF AsksHalves
  <2> DEFINE a == SubSeq(line, 1, left)
             b == SubSeq(line, left + 1, left + torn)
             c == SubSeq(line, left + torn + 1, Len(line))
             r == SubSeq(line, left + 1, Len(line))
  <2>3. WordsOf(lines) = line
    BY <2>1, WordsOfOne
  <2> HIDE DEF lines, line
  <2>4. a \in Seq(STRING) /\ r \in Seq(STRING) /\ line = a \o r /\ Len(r) = Len(line) - left
    BY <2>1, <2>2, SplitAt
  <2>5. b \in Seq(STRING) /\ c \in Seq(STRING) /\ r = b \o c
    <3>1. Len(line) \in Nat /\ left \in Nat /\ torn \in Nat /\ left <= Len(line) /\ torn \in 0..Len(r)
          /\ left + torn \in 0..Len(line)
      BY <2>1, <2>2, <2>4
    <3>2. b \in Seq(STRING) /\ c \in Seq(STRING) /\ Len(b) = torn /\ Len(c) = Len(line) - (left + torn)
          /\ (\A k \in 1..torn : b[k] = line[left + k])
          /\ (\A k \in 1..(Len(line) - (left + torn)) : c[k] = line[(left + torn) + k])
      BY <2>1, <3>1
    <3>3. \A k \in 1..(Len(line) - left) : r[k] = line[left + k]
      BY <2>1, <3>1
    <3> HIDE DEF b, c, r
    <3> DEFINE bc == b \o c
    <3>4. /\ bc \in Seq(STRING) /\ Len(bc) = torn + (Len(line) - (left + torn))
          /\ (\A k \in 1..torn : bc[k] = b[k])
          /\ \A k \in 1..(Len(line) - (left + torn)) : bc[torn + k] = c[k]
      <4>1. ASSUME NEW u \in Seq(STRING), NEW v \in Seq(STRING)
            PROVE  /\ u \o v \in Seq(STRING) /\ Len(u \o v) = Len(u) + Len(v)
                   /\ \A k \in 1..Len(u) : (u \o v)[k] = u[k]
                   /\ \A k \in 1..Len(v) : (u \o v)[Len(u) + k] = v[k]
        BY ConcatPlaces
      <4>2. /\ bc \in Seq(STRING) /\ Len(bc) = Len(b) + Len(c)
            /\ (\A k \in 1..Len(b) : bc[k] = b[k])
            /\ \A k \in 1..Len(c) : bc[Len(b) + k] = c[k]
        BY <3>2, <4>1, Zenon
      <4> HIDE DEF bc
      <4> QED BY <3>2, <4>2
    <3> HIDE DEF bc
    <3>5. \A k \in 1..Len(r) : bc[k] = r[k]
      <4> TAKE k \in 1..Len(r)
      <4>1. CASE k <= torn
        <5>1. k \in 1..torn /\ k \in 1..(Len(line) - left)
          BY <2>4, <3>1, <4>1
        <5> QED BY <3>2, <3>3, <3>4, <5>1
      <4>2. CASE ~(k <= torn)
        <5>1. k - torn \in 1..(Len(line) - (left + torn)) /\ k \in 1..(Len(line) - left)
              /\ torn + (k - torn) = k /\ (left + torn) + (k - torn) = left + k
          BY <2>4, <3>1, <4>2
        <5>2. bc[k] = c[k - torn] /\ c[k - torn] = line[left + k] /\ r[k] = line[left + k]
          <6>1. bc[torn + (k - torn)] = c[k - torn] /\ c[k - torn] = line[(left + torn) + (k - torn)]
            BY <3>2, <3>4, <5>1
          <6> QED BY <3>3, <5>1, <6>1
        <5> QED BY <5>2
      <4> QED BY <4>1, <4>2
    <3>6. Len(bc) = Len(r)
      BY <2>4, <3>1, <3>4
    <3>7. bc = r
      <4>1. bc \in Seq(STRING) /\ r \in Seq(STRING)
        BY <2>4, <3>4
      <4> QED BY <3>5, <3>6, <4>1, SameSeq
    <3> QED BY <3>2, <3>7 DEF bc
  <2>6. Halved(<<<<a>>, <<c>>>>) /\ Misses(ToSet(b), "torn")
    BY <2>2
  <2> HIDE DEF a, b, c, r
  <2>7. line = (a \o b) \o c
    <3>1. (a \o b) \o c = a \o (b \o c)
      BY <2>4, <2>5, ConcatInTurn
    <3> QED BY <2>4, <2>5, <3>1
  <2>8. /\ <<a>> \in LinesForms /\ <<c>> \in LinesForms /\ WordsOf(<<a>>) = a /\ WordsOf(<<c>>) = c
        /\ <<a>> # <<>> /\ <<c>> # <<>>
    BY <2>4, <2>5, WordsOfOne
  <2>9. Loses(b)
    BY <2>5, <2>6, MissesLoses DEF Reasons
  <2>10. Parted(WordsOf(<<a>>), b, WordsOf(<<c>>))
    BY <2>3, <2>4, <2>5, <2>7, <2>8, <2>9 DEF Parted, lines
  <2> QED BY <2>6, <2>8, <2>10, HalvedForms
<1> QED BY <1>2, <1>3

\* an answer that is cut off
LEMMA CutOffShape ==
    ASSUME ChunkType, CutOff
    PROVE  StepShape
<1>0. Asking /\ whole' = whole /\ asked' = asked + 1
  BY DEF CutOff, Pays
<1>1. CASE Piece.depth < CutDepth /\ AsksHalves
  BY <1>0, <1>1, HalvesShape DEF StepShape
<1>2. CASE \E n \in 0..(Len(Piece.lines) - 1) :
               /\ Hears(WordsOf(SubSeq(Piece.lines, 1, n)))
               /\ Misses(ToSet(WordsOf(SubSeq(Piece.lines, n + 1, Len(Piece.lines)))), "cut")
               /\ NextPiece
  <2> DEFINE lines == Piece.lines
  <2>0. PICK n \in 0..(Len(lines) - 1) :
               /\ Hears(WordsOf(SubSeq(lines, 1, n)))
               /\ Misses(ToSet(WordsOf(SubSeq(lines, n + 1, Len(lines)))), "cut")
               /\ NextPiece
    BY <1>2
  <2> DEFINE a == WordsOf(SubSeq(lines, 1, n))
             b == WordsOf(SubSeq(lines, n + 1, Len(lines)))
  <2>1. heard' = heard \o a /\ Misses(ToSet(b), "cut") /\ NextPiece
    BY <2>0 DEF Hears
  <2>2. lines \in LinesForms /\ n \in 0..Len(lines)
    BY <1>0, PieceIs
  <2>3. a \in Seq(STRING) /\ b \in Seq(STRING) /\ WordsOf(lines) = a \o b
    BY <2>2, WordsSplit, WordsAre
  <2> HIDE DEF a, b
  <2>4. a \o b \in Seq(STRING) /\ <<>> \in Seq(STRING) /\ (a \o b) \o <<>> = a \o b /\ a \o <<>> = a
    <3>1. a \o b \in Seq(STRING)
      BY <2>3, ConcatInTurn
    <3> DEFINE ab == a \o b
    <3>2. ab \in Seq(STRING)
      BY <3>1
    <3> HIDE DEF ab
    <3>3. ab \o <<>> = ab
      BY <3>2, EmptyParts
    <3> QED BY <2>3, <3>1, <3>3, EmptyParts DEF ab
  <2>5. Loses(b)
    BY <2>1, <2>3, MissesLoses DEF Reasons
  <2>6. Parted(a, b, <<>>)
    BY <2>3, <2>4, <2>5 DEF Parted
  <2>7. WentOn
    BY <2>1, <2>4, <2>6 DEF WentOn
  <2> QED BY <1>0, <2>7 DEF StepShape
<1> QED BY <1>1, <1>2 DEF CutOff

\* no answer in time
LEMMA TimesOutShape ==
    ASSUME ChunkType, TimesOut
    PROVE  StepShape
<1>0. Asking /\ whole' = whole /\ asked' = asked + 1
  BY DEF TimesOut, Pays
<1>1. CASE Piece.depth < LateDepth /\ AsksHalves
  <2>1. Piece.depth < CutDepth
    BY <1>0, <1>1, PieceIs, ChunksAssumption
  <2> QED BY <1>0, <1>1, <2>1, HalvesShape DEF StepShape
<1>2. CASE FailsChunk
  BY <1>0, <1>2 DEF StepShape
<1> QED BY <1>1, <1>2 DEF TimesOut

-----------------------------------------------------------------------------
(* A step of a chunk keeps the invariant. *)

\* every step has one of the shapes
LEMMA ChunkStepShape ==
    ASSUME ChunkType, ChunksNext
    PROVE  StepShape
BY WholeShape, PartlyShape, ProseShape, BrieflyShape, ForGoodShape, CutOffShape, TimesOutShape DEF ChunksNext

\* a piece begins without retries
LEMMA NoRetriesForm == NoRetries \in [format : 0..FormatBudget, transport : 0..TransportBudget]
BY CallsOfAPiece DEF NoRetries

\* what a piece that is done with leaves
LEMMA WentOnForms ==
    ASSUME ChunkType, Asking, WentOn
    PROVE  /\ pieces' = Tail(pieces) /\ spent' = NoRetries
           /\ heard' \in Seq(STRING) /\ lostWords' \in [Reasons -> SUBSET STRING]
           /\ chunkEnd' \in {"none", "completed"} /\ (chunkEnd' = "none" <=> Tail(pieces) # <<>>)
<1>1. PICK a, b, c : Parted(a, b, c) /\ heard' = heard \o (a \o c) /\ NextPiece
  BY DEF WentOn
<1>2. a \o c \in Seq(STRING)
  BY <1>1, ConcatInTurn DEF Parted
<1>3. heard' \in Seq(STRING)
  BY <1>1, <1>2, ConcatInTurn DEF ChunkType
<1>4. Tail(pieces) # <<>> <=> Len(pieces) # 1
  <2>1. Tail(pieces) \in Seq(PieceForms) /\ Len(Tail(pieces)) = Len(pieces) - 1 /\ Len(pieces) \in Nat \ {0}
    BY PieceIs
  <2> DEFINE t == Tail(pieces)
  <2>2. t \in Seq(PieceForms) /\ Len(t) = Len(pieces) - 1
    BY <2>1
  <2> HIDE DEF t
  <2>3. t = <<>> <=> Len(t) = 0
    BY <2>2, EmptySeq
  <2> QED BY <2>1, <2>2, <2>3 DEF t
<1> QED BY <1>1, <1>3, <1>4 DEF NextPiece, Parted, Loses

\* a step keeps the types
LEMMA ChunkTypeStep ==
    ASSUME ChunkType, StepShape
    PROVE  ChunkType'
<1>1. whole' \in ChunkTexts /\ asked' \in Nat /\ Asking
  BY DEF StepShape, ChunkType
<1>2. CASE Retried
  BY <1>1, <1>2 DEF Retried, ChunkType
<1>3. CASE WentOn
  <2>1. Tail(pieces) \in Seq(PieceForms)
    BY <1>1, PieceIs
  <2> QED BY <1>1, <1>3, <2>1, WentOnForms, NoRetriesForm DEF ChunkType
<1>4. CASE Divided
  <2>1. PICK a, b, c : /\ Parted(a, b, c)
                    /\ \E p, q \in PieceForms :
                          /\ p.depth = Piece.depth + 1 /\ q.depth = Piece.depth + 1
                          /\ WordsOf(p.lines) = a /\ WordsOf(q.lines) = c
                          /\ pieces' = <<p>> \o (<<q>> \o Tail(pieces))
    BY <1>4 DEF Divided
  <2>2. PICK p, q \in PieceForms : pieces' = <<p>> \o (<<q>> \o Tail(pieces))
    BY <2>1
  <2>3. Tail(pieces) \in Seq(PieceForms)
    BY <1>1, PieceIs
  <2> DEFINE t == Tail(pieces)
             qt == <<q>> \o t
  <2>4. t \in Seq(PieceForms)
    BY <2>3
  <2> HIDE DEF t
  <2>5. qt \in Seq(PieceForms) /\ Len(qt) # 0
    BY <2>4
  <2> HIDE DEF qt
  <2>6. <<p>> \o qt \in Seq(PieceForms) /\ <<p>> \o qt # <<>>
    <3> DEFINE all == <<p>> \o qt
    <3>1. all \in Seq(PieceForms) /\ Len(all) = 1 + Len(qt) /\ Len(qt) \in Nat
      BY <2>5
    <3> HIDE DEF all
    <3>2. Len(all) # 0 /\ Len(<<>>) = 0
      BY <3>1
    <3>3. all # <<>>
      BY <3>2
    <3> QED BY <3>1, <3>3 DEF all
  <2>7. pieces' \in Seq(PieceForms) /\ pieces' # <<>>
    BY <2>2, <2>6 DEF t, qt
  <2> QED BY <1>1, <1>4, <2>1, <2>7, NoRetriesForm DEF Divided, ChunkType, Parted, Loses, Asking
<1>5. CASE FailsChunk
  <2>1. <<>> \in Seq(PieceForms)
    OBVIOUS
  <2> QED BY <1>1, <1>5, <2>1, NoRetriesForm DEF FailsChunk, ChunkType
<1> QED BY <1>2, <1>3, <1>4, <1>5 DEF StepShape

\* five lists behind one another, in the groupings that the steps leave them in
Regroups(h, a, b, c, r) ==
    /\ Then(h, Then(Then(Then(a, b), c), r)) = Then(Then(Then(h, a), b), Then(c, r))
    /\ Then(Then(h, Then(a, c)), r) = Then(Then(h, a), Then(c, r))
    /\ Then(h, Then(a, Then(c, r))) = Then(Then(h, a), Then(c, r))
    /\ Then(h, a) \in LineForms /\ Then(c, r) \in LineForms

LEMMA Regrouped ==
    ASSUME NEW h \in LineForms, NEW a \in LineForms, NEW b \in LineForms, NEW c \in LineForms, NEW r \in LineForms
    PROVE  Regroups(h, a, b, c, r)
<1>0. \A x, y, z \in LineForms : Then(x, y) \in LineForms /\ Then(Then(x, y), z) = Then(x, Then(y, z))
  BY ThenInTurn DEF LineForms
<1>1. /\ Then(a, b) \in LineForms /\ Then(c, r) \in LineForms /\ Then(a, c) \in LineForms /\ Then(h, a) \in LineForms
      /\ Then(Then(a, c), r) = Then(a, Then(c, r)) /\ Then(Then(h, a), b) = Then(h, Then(a, b))
  BY <1>0
<1>2. /\ Then(h, Then(a, Then(c, r))) = Then(Then(h, a), Then(c, r))
      /\ Then(Then(h, Then(a, c)), r) = Then(h, Then(Then(a, c), r))
      /\ Then(Then(Then(a, b), c), r) = Then(Then(a, b), Then(c, r))
      /\ Then(h, Then(Then(a, b), Then(c, r))) = Then(Then(h, Then(a, b)), Then(c, r))
  BY <1>0, <1>1
<1> QED BY <1>1, <1>2 DEF Regroups

\* a part that is lost stood in one place of what was heard and waited
LEMMA PartLost ==
    ASSUME ChunkType, WordsCovered, Asking, whole' = whole, NEW b, Loses(b),
           NEW u \in Seq(STRING), NEW v \in Seq(STRING), b \in Seq(STRING),
           heard \o Waiting = (u \o b) \o v, heard' \o Waiting' = u \o v
    PROVE  WordsCovered'
<1> DEFINE W == WordsOf(whole)
           all == (u \o b) \o v
           new == u \o v
<1>1. W \in Seq(STRING) /\ IsInjective(W)
  BY ChunksAssumption, WordsAre DEF ChunkType, LinesForms, LineForms
<1>2. IsPartOf(all, W) /\ ToSet(all) \cup Missed = ToSet(W) /\ Missed \cap ToSet(all) = {}
  <2>1. chunkEnd # "failed"
    BY DEF Asking
  <2> QED BY <2>1 DEF WordsCovered
<1>3. IsPartOf(new, W) /\ ToSet(all) = ToSet(new) \cup ToSet(b) /\ ToSet(b) \cap ToSet(new) = {}
  <2> HIDE DEF W
  <2> QED BY <1>1, <1>2, GapCloses
<1>4. Missed' = Missed \cup ToSet(b)
  BY DEF Loses
<1> HIDE DEF all, new
<1>5. ToSet(new) \cup Missed' = ToSet(W) /\ Missed' \cap ToSet(new) = {}
  BY <1>2, <1>3, <1>4
<1>6. (heard \o Waiting)' = new /\ WordsOf(whole)' = W
  BY DEF new
<1> QED BY <1>3, <1>5, <1>6 DEF WordsCovered

\* what is waiting, of the pieces
LEMMA WaitingIs ==
    ASSUME TRUE
    PROVE  Waiting = WaitingOf(pieces) /\ Waiting' = WaitingOf(pieces')
BY DEF Waiting, WaitingOf

\* a step keeps the account of the words
LEMMA WordsStep ==
    ASSUME ChunkType, WordsCovered, StepShape
    PROVE  WordsCovered'
<1>0. Asking /\ whole' = whole
  BY DEF StepShape
<1> DEFINE rest == WaitingOf(Tail(pieces))
<1>1. rest \in Seq(STRING) /\ Waiting = WordsOf(Piece.lines) \o rest
  <2>1. Piece \in PieceForms /\ Tail(pieces) \in Seq(PieceForms) /\ pieces = <<Piece>> \o Tail(pieces)
    BY <1>0, PieceIs
  <2>2. WaitingOf(<<Piece>> \o Tail(pieces)) = WordsOf(Piece.lines) \o rest
    BY <2>1, WaitingFirst
  <2>3. rest \in Seq(STRING)
    BY <2>1, WaitingForms
  <2> QED BY <2>1, <2>2, <2>3, WaitingIs
<1> HIDE DEF rest
<1>h. heard \in Seq(STRING)
  BY DEF ChunkType
<1>2. CASE Retried
  <2>1. Missed' = Missed /\ Waiting' = Waiting /\ heard' = heard /\ chunkEnd' = chunkEnd
    BY <1>2 DEF Retried, Missed, Waiting
  <2> QED BY <1>0, <2>1 DEF WordsCovered
<1>3. CASE WentOn
  <2>1. PICK a, b, c : Parted(a, b, c) /\ heard' = heard \o (a \o c) /\ NextPiece
    BY <1>3 DEF WentOn
  <2>2. /\ a \in Seq(STRING) /\ b \in Seq(STRING) /\ c \in Seq(STRING)
        /\ WordsOf(Piece.lines) = (a \o b) \o c /\ Loses(b)
    BY <2>1 DEF Parted
  <2>3. Waiting' = rest
    BY <2>1, WaitingIs DEF NextPiece, rest
  <2>4. /\ Then(heard, Then(Then(Then(a, b), c), rest)) = Then(Then(Then(heard, a), b), Then(c, rest))
        /\ Then(Then(heard, Then(a, c)), rest) = Then(Then(heard, a), Then(c, rest))
        /\ Then(heard, a) \in LineForms /\ Then(c, rest) \in LineForms
    <3>1. heard \in LineForms /\ a \in LineForms /\ b \in LineForms /\ c \in LineForms /\ rest \in LineForms
      BY <1>1, <1>h, <2>2 DEF LineForms
    <3>2. Regroups(heard, a, b, c, rest)
      BY <3>1, Regrouped
    <3> QED BY <3>2, Zenon DEF Regroups
  <2>5. heard \o Waiting = Then(heard, Then(Then(Then(a, b), c), rest))
        /\ heard' \o Waiting' = Then(Then(heard, Then(a, c)), rest)
    BY <1>1, <2>1, <2>2, <2>3, Zenon DEF Then
  <2> DEFINE u == Then(heard, a)
             v == Then(c, rest)
  <2>6. u \in Seq(STRING) /\ v \in Seq(STRING) /\ heard \o Waiting = Then(Then(u, b), v) /\ heard' \o Waiting' = Then(u, v)
    BY <2>4, <2>5, Zenon DEF LineForms
  <2> HIDE DEF u, v
  <2>7. heard \o Waiting = (u \o b) \o v /\ heard' \o Waiting' = u \o v
    BY <2>6, Zenon DEF Then
  <2> QED BY <1>0, <2>2, <2>6, <2>7, PartLost
<1>4. CASE Divided
  <2>1. PICK a, b, c : /\ Parted(a, b, c)
                    /\ \E p, q \in PieceForms :
                          /\ p.depth = Piece.depth + 1 /\ q.depth = Piece.depth + 1
                          /\ WordsOf(p.lines) = a /\ WordsOf(q.lines) = c
                          /\ pieces' = <<p>> \o (<<q>> \o Tail(pieces))
    BY <1>4 DEF Divided
  <2>2. PICK p, q \in PieceForms : /\ WordsOf(p.lines) = a /\ WordsOf(q.lines) = c
                                   /\ pieces' = <<p>> \o (<<q>> \o Tail(pieces))
    BY <2>1
  <2>3. /\ a \in Seq(STRING) /\ b \in Seq(STRING) /\ c \in Seq(STRING)
        /\ WordsOf(Piece.lines) = (a \o b) \o c /\ Loses(b)
    BY <2>1 DEF Parted
  <2>4. Waiting' = a \o (c \o rest)
    <3>1. Tail(pieces) \in Seq(PieceForms)
      BY <1>0, PieceIs
    <3>2. <<q>> \o Tail(pieces) \in Seq(PieceForms) /\ WaitingOf(<<q>> \o Tail(pieces)) = c \o rest
      BY <2>2, <3>1, WaitingFirst DEF rest
    <3>3. WaitingOf(<<p>> \o (<<q>> \o Tail(pieces))) = a \o (c \o rest)
      BY <2>2, <3>2, WaitingFirst
    <3> QED BY <2>2, <3>3, WaitingIs
  <2>5. /\ Then(heard, Then(Then(Then(a, b), c), rest)) = Then(Then(Then(heard, a), b), Then(c, rest))
        /\ Then(heard, Then(a, Then(c, rest))) = Then(Then(heard, a), Then(c, rest))
        /\ Then(heard, a) \in LineForms /\ Then(c, rest) \in LineForms
    <3>1. heard \in LineForms /\ a \in LineForms /\ b \in LineForms /\ c \in LineForms /\ rest \in LineForms
      BY <1>1, <1>h, <2>3 DEF LineForms
    <3>2. Regroups(heard, a, b, c, rest)
      BY <3>1, Regrouped
    <3> QED BY <3>2, Zenon DEF Regroups
  <2>6. heard' = heard
    BY <1>4 DEF Divided
  <2>7. heard \o Waiting = Then(heard, Then(Then(Then(a, b), c), rest))
        /\ heard' \o Waiting' = Then(heard, Then(a, Then(c, rest)))
    BY <1>1, <2>3, <2>4, <2>6, Zenon DEF Then
  <2> DEFINE u == Then(heard, a)
             v == Then(c, rest)
  <2>8. u \in Seq(STRING) /\ v \in Seq(STRING) /\ heard \o Waiting = Then(Then(u, b), v) /\ heard' \o Waiting' = Then(u, v)
    BY <2>5, <2>7, Zenon DEF LineForms
  <2> HIDE DEF u, v
  <2>9. heard \o Waiting = (u \o b) \o v /\ heard' \o Waiting' = u \o v
    BY <2>8, Zenon DEF Then
  <2> QED BY <1>0, <2>3, <2>8, <2>9, PartLost
<1>5. CASE FailsChunk
  BY <1>5 DEF FailsChunk, WordsCovered
<1> QED BY <1>2, <1>3, <1>4, <1>5 DEF StepShape

-----------------------------------------------------------------------------
(* What the pieces may still cost. *)

\* a piece costs at least its call and its retries
LEMMA CostAtLeast ==
    \A n \in 0..CutDepth : CostOf[n] \in Nat /\ CostOf[n] >= PieceCalls
<1> SUFFICES ASSUME NEW n \in 0..CutDepth PROVE CostOf[n] \in Nat /\ CostOf[n] >= PieceCalls
  OBVIOUS
<1>0. CutDepth \in Nat /\ PieceCalls \in Nat /\ CostOf[n] \in Nat
  BY ChunksAssumption, CallsOfAPiece, CostSteps
<1>1. CASE n = 0
  BY <1>0, <1>1, CostSteps
<1>2. CASE n # 0
  <2>1. n - 1 \in 0..CutDepth
    BY <1>0, <1>2
  <2>2. CostOf[n - 1] \in Nat /\ CostOf[n] = PieceCalls + 2 * CostOf[n - 1]
    BY <1>2, <2>1, CostSteps
  <2> QED BY <1>0, <2>2
<1> QED BY <1>1, <1>2

\* the cost of a piece covers that of its halves
LEMMA CostOfHalves ==
    \A d \in 0..CutDepth : d < CutDepth =>
        CostOf[CutDepth - d] = PieceCalls + 2 * CostOf[CutDepth - (d + 1)]
<1> SUFFICES ASSUME NEW d \in 0..CutDepth, d < CutDepth
             PROVE  CostOf[CutDepth - d] = PieceCalls + 2 * CostOf[CutDepth - (d + 1)]
  OBVIOUS
<1>0. CutDepth \in Nat
  BY ChunksAssumption
<1> DEFINE n == CutDepth - d
<1>1. n \in 0..CutDepth /\ n # 0 /\ n - 1 = CutDepth - (d + 1)
  BY <1>0
<1>2. CostOf[n] = PieceCalls + 2 * CostOf[n - 1]
  <2> HIDE DEF n
  <2> QED BY <1>1, CostSteps
<1> QED BY <1>1, <1>2

\* what is owed without the first piece
LEMMA OwesTail ==
    ASSUME NEW ps \in Seq(PieceForms), ps # <<>>, NEW f, Owes(f, ps)
    PROVE  /\ Owes(f, Tail(ps)) /\ f[Len(Tail(ps))] \in Nat
           /\ f[Len(ps)] = f[Len(Tail(ps))] + CostOf[CutDepth - Head(ps).depth]
<1> DEFINE t == Tail(ps)
           n == Len(ps)
<1>1. /\ t \in Seq(PieceForms) /\ Len(t) = n - 1 /\ n \in Nat \ {0} /\ Head(ps) = ps[1]
      /\ \A k \in 1..(n - 1) : t[k] = ps[k + 1]
  OBVIOUS
<1>2. /\ f[0] = 0 /\ \A k \in 0..n : f[k] \in Nat
      /\ \A k \in 1..n : f[k] = f[k - 1] + CostOf[CutDepth - ps[n + 1 - k].depth]
  BY DEF Owes
<1> HIDE DEF t, n
<1>3. \A k \in 1..Len(t) : f[k] = f[k - 1] + CostOf[CutDepth - t[Len(t) + 1 - k].depth]
  <2> SUFFICES ASSUME NEW k \in 1..Len(t) PROVE f[k] = f[k - 1] + CostOf[CutDepth - t[Len(t) + 1 - k].depth]
    OBVIOUS
  <2>1. k \in 1..n /\ Len(t) + 1 - k \in 1..(n - 1) /\ (Len(t) + 1 - k) + 1 = n + 1 - k
    BY <1>1
  <2>2. t[Len(t) + 1 - k] = ps[n + 1 - k]
    BY <1>1, <2>1
  <2> QED BY <1>2, <2>1, <2>2
<1>4. \A k \in 0..Len(t) : f[k] \in Nat
  BY <1>1, <1>2
<1>5. f[Len(t)] \in Nat
  BY <1>1, <1>4
<1>6. f[n] = f[n - 1] + CostOf[CutDepth - ps[1].depth]
  <2>1. n \in 1..n /\ n + 1 - n = 1
    BY <1>1
  <2>2. f[n] = f[n - 1] + CostOf[CutDepth - ps[n + 1 - n].depth]
    BY <1>2, <2>1
  <2> QED BY <2>1, <2>2
<1>7. Owes(f, t)
  BY <1>2, <1>3, <1>4 DEF Owes
<1>8. f[n] = f[Len(t)] + CostOf[CutDepth - Head(ps).depth]
  BY <1>1, <1>6
<1> QED BY <1>5, <1>7, <1>8 DEF t, n

\* what is owed with one more piece in front
LEMMA OwesOne ==
    ASSUME NEW ps \in Seq(PieceForms), NEW p \in PieceForms, NEW f, Owes(f, ps)
    PROVE  \E g : /\ Owes(g, <<p>> \o ps)
                  /\ g[Len(<<p>> \o ps)] = f[Len(ps)] + CostOf[CutDepth - p.depth]
                  /\ f[Len(ps)] \in Nat
<1> DEFINE n == Len(ps)
           all == <<p>> \o ps
           c == CostOf[CutDepth - p.depth]
           g == [k \in 0..(n + 1) |-> IF k <= n THEN f[k] ELSE f[n] + c]
<1>1. /\ n \in Nat /\ all \in Seq(PieceForms) /\ Len(all) = n + 1 /\ all[1] = p
      /\ \A k \in 1..n : all[k + 1] = ps[k]
  OBVIOUS
<1>2. /\ f[0] = 0 /\ \A k \in 0..n : f[k] \in Nat
      /\ \A k \in 1..n : f[k] = f[k - 1] + CostOf[CutDepth - ps[n + 1 - k].depth]
  BY DEF Owes
<1>3. c \in Nat
  <2>1. p.depth \in 0..CutDepth /\ CutDepth \in Nat
    BY ChunksAssumption DEF PieceForms
  <2>2. CutDepth - p.depth \in 0..CutDepth
    BY <2>1
  <2> QED BY <2>2, CostSteps
<1>4. \A k \in 0..(n + 1) : g[k] = IF k <= n THEN f[k] ELSE f[n] + c
  OBVIOUS
<1> HIDE DEF g
<1>5. /\ n + 1 \in 0..(n + 1) /\ 0 \in 0..(n + 1) /\ n \in 0..n /\ ~(n + 1 <= n) /\ 0 <= n
  BY <1>1
<1> HIDE DEF n, all, c
<1>6. g[0] = 0 /\ g[n + 1] = f[n] + c /\ f[n] \in Nat
  BY <1>2, <1>4, <1>5
<1>7. \A k \in 0..(n + 1) : g[k] \in Nat
  <2> SUFFICES ASSUME NEW k \in 0..(n + 1) PROVE g[k] \in Nat
    OBVIOUS
  <2>1. CASE k <= n
    <3>1. k \in 0..n
      BY <1>1, <2>1
    <3> QED BY <1>2, <1>4, <2>1, <3>1
  <2>2. CASE ~(k <= n)
    <3>1. g[k] = f[n] + c
      BY <1>4, <2>2
    <3> QED BY <1>3, <1>6, <3>1
  <2> QED BY <2>1, <2>2
<1>8. \A k \in 1..(n + 1) : g[k] = g[k - 1] + CostOf[CutDepth - all[(n + 1) + 1 - k].depth]
  <2> SUFFICES ASSUME NEW k \in 1..(n + 1)
               PROVE  g[k] = g[k - 1] + CostOf[CutDepth - all[(n + 1) + 1 - k].depth]
    OBVIOUS
  <2>1. k \in 0..(n + 1) /\ k - 1 \in 0..(n + 1) /\ k - 1 <= n
    BY <1>1
  <2>2. g[k - 1] = f[k - 1]
    BY <1>4, <2>1
  <2>3. CASE k <= n
    <3>1. k \in 1..n /\ n + 1 - k \in 1..n /\ (n + 1 - k) + 1 = (n + 1) + 1 - k
      BY <1>1, <2>3
    <3>2. all[(n + 1) + 1 - k] = ps[n + 1 - k]
      BY <1>1, <3>1
    <3>3. g[k] = f[k]
      BY <1>4, <2>1, <2>3
    <3> QED BY <1>2, <2>2, <3>1, <3>2, <3>3
  <2>4. CASE ~(k <= n)
    <3>1. k = n + 1 /\ (n + 1) + 1 - k = 1 /\ k - 1 = n
      BY <1>1, <2>4
    <3>2. g[k] = f[n] + c /\ g[k - 1] = f[n]
      BY <1>6, <2>2, <3>1
    <3>3. all[(n + 1) + 1 - k] = p
      BY <1>1, <3>1
    <3> QED BY <3>2, <3>3 DEF c
  <2> QED BY <2>3, <2>4
<1>9. Owes(g, all)
  BY <1>1, <1>6, <1>7, <1>8 DEF Owes
<1>10. g[Len(all)] = f[Len(ps)] + CostOf[CutDepth - p.depth] /\ f[Len(ps)] \in Nat
  BY <1>1, <1>6 DEF n, c
<1> QED BY <1>9, <1>10 DEF all

\* a step keeps the account of the calls
LEMMA CallsStep ==
    ASSUME ChunkType, CallsCovered, StepShape
    PROVE  CallsCovered'
<1>0. Asking /\ asked' = asked + 1 /\ asked \in Nat /\ CutDepth \in Nat
  BY ChunksAssumption DEF StepShape, ChunkType
<1>1. /\ spent.format \in 0..FormatBudget /\ spent.transport \in 0..TransportBudget
      /\ FormatBudget \in Nat /\ TransportBudget \in Nat /\ PieceCalls = 1 + FormatBudget + TransportBudget
  BY CallsOfAPiece DEF ChunkType, PieceCalls
<1>2. PICK f : Owes(f, pieces) /\ asked + f[Len(pieces)] <= CostOf[CutDepth] + spent.format + spent.transport
  BY DEF CallsCovered
<1>3. pieces \in Seq(PieceForms) /\ pieces # <<>> /\ Tail(pieces) \in Seq(PieceForms) /\ Piece = Head(pieces)
  BY <1>0, PieceIs DEF ChunkType, Asking, Piece
<1> DEFINE d == Piece.depth
           t == Tail(pieces)
           owed == f[Len(t)]
           cost == CostOf[CutDepth - d]
<1>4. d \in 0..CutDepth /\ CutDepth - d \in 0..CutDepth
  BY <1>0, PieceIs
<1>5. Owes(f, t) /\ owed \in Nat /\ f[Len(pieces)] = owed + cost
  BY <1>2, <1>3, OwesTail
<1>6. cost \in Nat /\ cost >= PieceCalls /\ CostOf[CutDepth] \in Nat
  <2>1. CutDepth \in 0..CutDepth
    BY <1>0
  <2> QED BY <1>4, <2>1, CostAtLeast
<1>n. NoRetries.format = 0 /\ NoRetries.transport = 0
  BY DEF NoRetries
<1> HIDE DEF d, t, owed, cost
<1>7. asked + owed + cost <= CostOf[CutDepth] + spent.format + spent.transport
  BY <1>0, <1>1, <1>2, <1>5, <1>6
<1>8. asked + 1 + owed <= CostOf[CutDepth]
  BY <1>0, <1>1, <1>5, <1>6, <1>7
<1>9. CASE Retried
  <2>1. pieces' = pieces /\ spent'.format + spent'.transport = spent.format + spent.transport + 1
        /\ spent'.format \in Nat /\ spent'.transport \in Nat
    BY <1>1, <1>9 DEF Retried
  <2> DEFINE x == spent'.format
             y == spent'.transport
             all == f[Len(pieces)]
  <2>2. all \in Nat /\ asked + all <= CostOf[CutDepth] + spent.format + spent.transport /\ x + y = spent.format + spent.transport + 1
        /\ x \in Nat /\ y \in Nat
    BY <1>2, <1>5, <1>6, <2>1
  <2> HIDE DEF x, y, all
  <2>3. asked + 1 + all <= CostOf[CutDepth] + x + y
    BY <1>0, <1>1, <1>6, <2>2
  <2>4. Owes(f, pieces') /\ asked' + f[Len(pieces')] <= CostOf[CutDepth] + spent'.format + spent'.transport
    BY <1>0, <1>2, <2>1, <2>3 DEF x, y, all
  <2> QED BY <1>3, <2>1, <2>4 DEF CallsCovered
<1>10. CASE WentOn
  <2>1. pieces' = t /\ spent' = NoRetries
    BY <1>10 DEF WentOn, NextPiece, t
  <2>2. asked' + f[Len(t)] <= CostOf[CutDepth] + 0 + 0
    BY <1>0, <1>5, <1>6, <1>8 DEF owed
  <2> QED BY <1>5, <1>n, <2>1, <2>2 DEF CallsCovered
<1>11. CASE Divided
  <2>1. PICK p, q \in PieceForms : /\ p.depth = Piece.depth + 1 /\ q.depth = Piece.depth + 1
                                   /\ pieces' = <<p>> \o (<<q>> \o Tail(pieces))
    BY <1>11 DEF Divided
  <2>2. Piece.depth < CutDepth /\ spent' = NoRetries
    BY <1>11 DEF Divided
  <2> DEFINE half == CostOf[CutDepth - (d + 1)]
             qt == <<q>> \o t
  <2>3. half \in Nat /\ cost = PieceCalls + 2 * half
    <3>1. d < CutDepth /\ CutDepth - (d + 1) \in 0..CutDepth
      BY <1>0, <1>4, <2>2 DEF d
    <3>2. cost = PieceCalls + 2 * CostOf[CutDepth - (d + 1)]
      BY <1>4, <3>1, CostOfHalves DEF cost
    <3> QED BY <3>1, <3>2, CostSteps
  <2>4. PICK g : Owes(g, qt) /\ g[Len(qt)] = owed + half
    <3>1. t \in Seq(PieceForms) /\ q \in PieceForms /\ q.depth = d + 1
      BY <1>3, <2>1 DEF t, d
    <3> QED BY <1>5, <3>1, OwesOne DEF owed
  <2>5. qt \in Seq(PieceForms)
    BY <1>3 DEF t
  <2> HIDE DEF half, qt
  <2>6. PICK h : Owes(h, <<p>> \o qt) /\ h[Len(<<p>> \o qt)] = g[Len(qt)] + half
    <3>1. p \in PieceForms /\ p.depth = d + 1
      BY <2>1 DEF d
    <3>2. \E h : /\ Owes(h, <<p>> \o qt)
                 /\ h[Len(<<p>> \o qt)] = g[Len(qt)] + CostOf[CutDepth - p.depth]
      BY <2>4, <2>5, OwesOne
    <3> QED BY <3>1, <3>2 DEF half
  <2>7. pieces' = <<p>> \o qt
    BY <2>1 DEF qt, t
  <2>8. asked + 1 + (owed + half + half) <= CostOf[CutDepth] + 0 + 0
    BY <1>0, <1>1, <1>5, <1>6, <1>7, <2>3
  <2>9. h[Len(pieces')] = owed + half + half
    BY <2>4, <2>6, <2>7
  <2>10. asked' + h[Len(pieces')] <= CostOf[CutDepth] + spent'.format + spent'.transport
    BY <1>0, <1>n, <2>2, <2>8, <2>9
  <2> QED BY <2>2, <2>6, <2>7, <2>10 DEF CallsCovered
<1>12. CASE FailsChunk
  <2>1. pieces' = <<>> /\ spent' = NoRetries
    BY <1>12 DEF FailsChunk
  <2> DEFINE g == [k \in 0..0 |-> 0]
  <2>2. Owes(g, <<>>) /\ g[Len(<<>>)] = 0
    <3>1. Len(<<>>) = 0 /\ g[0] = 0 /\ 1..0 = {} /\ 0..0 = {0}
      OBVIOUS
    <3> HIDE DEF g
    <3> QED BY <3>1 DEF Owes
  <2>3. asked' + 0 <= CostOf[CutDepth] + 0 + 0
    BY <1>0, <1>5, <1>6, <1>8
  <2> HIDE DEF g
  <2> QED BY <1>n, <2>1, <2>2, <2>3 DEF CallsCovered
<1> QED BY <1>9, <1>10, <1>11, <1>12 DEF StepShape

\* the account of the calls bounds them
LEMMA CallsBound ==
    ASSUME ChunkType, CallsCovered
    PROVE  CostIsBounded
<1>0. asked \in Nat /\ CutDepth \in Nat /\ CutDepth \in 0..CutDepth
  BY ChunksAssumption DEF ChunkType
<1>1. /\ spent.format \in 0..FormatBudget /\ spent.transport \in 0..TransportBudget
      /\ FormatBudget \in Nat /\ TransportBudget \in Nat /\ PieceCalls = 1 + FormatBudget + TransportBudget
  BY CallsOfAPiece DEF ChunkType, PieceCalls
<1>2. PICK f : Owes(f, pieces) /\ asked + f[Len(pieces)] <= CostOf[CutDepth] + spent.format + spent.transport
  BY DEF CallsCovered
<1>3. CostOf[CutDepth] \in Nat
  BY <1>0, CostSteps
<1>4. CASE pieces = <<>>
  <2>1. spent.format = 0 /\ spent.transport = 0 /\ f[Len(pieces)] = 0
    <3>1. Len(pieces) = 0 /\ spent = NoRetries
      BY <1>4 DEF CallsCovered
    <3> QED BY <1>2, <3>1 DEF NoRetries, Owes
  <2> QED BY <1>0, <1>2, <1>3, <2>1 DEF CostIsBounded
<1>5. CASE pieces # <<>>
  <2>1. pieces \in Seq(PieceForms) /\ Head(pieces).depth \in 0..CutDepth
    <3>1. Asking
      BY <1>5 DEF ChunkType, Asking
    <3> QED BY <3>1, PieceIs DEF ChunkType, Piece
  <2> DEFINE cost == CostOf[CutDepth - Head(pieces).depth]
             owed == f[Len(Tail(pieces))]
  <2>2. owed \in Nat /\ f[Len(pieces)] = owed + cost
    BY <1>2, <1>5, <2>1, OwesTail
  <2>3. cost \in Nat /\ cost >= PieceCalls
    <3>1. CutDepth - Head(pieces).depth \in 0..CutDepth
      BY <1>0, <2>1
    <3> QED BY <3>1, CostAtLeast
  <2> HIDE DEF cost, owed
  <2> QED BY <1>0, <1>1, <1>2, <1>3, <2>2, <2>3 DEF CostIsBounded
<1> QED BY <1>4, <1>5

-----------------------------------------------------------------------------
(* A chunk is heard. *)

\* a chunk begins in the invariant
LEMMA ChunkInitInv ==
    ASSUME ChunksInit
    PROVE  ChunkInv
<1>0. /\ whole \in ChunkTexts /\ whole \in LinesForms /\ whole # <<>> /\ CutDepth \in Nat
      /\ pieces = <<[lines |-> whole, depth |-> 0]>> /\ spent = NoRetries
      /\ heard = <<>> /\ lostWords = [r \in Reasons |-> {}] /\ asked = 0 /\ chunkEnd = "none"
  BY ChunksAssumption DEF ChunksInit, LinesForms, LineForms
<1> DEFINE p == [lines |-> whole, depth |-> 0]
           W == WordsOf(whole)
<1>1. p \in PieceForms /\ p.lines = whole /\ p.depth = 0
  BY <1>0 DEF PieceForms
<1> HIDE DEF p
<1>2. pieces = <<p>> /\ <<p>> \in Seq(PieceForms) /\ <<p>> # <<>> /\ Len(<<p>>) = 1 /\ <<p>>[1] = p
  BY <1>0, <1>1 DEF p
<1>3. ChunkType
  <2>1. lostWords \in [Reasons -> SUBSET STRING] /\ heard \in Seq(STRING) /\ asked \in Nat
    BY <1>0
  <2> QED BY <1>0, <1>2, <2>1, NoRetriesForm DEF ChunkType
<1>4. W \in Seq(STRING)
  BY <1>0, WordsAre
<1>5. Waiting = W
  <2>1. <<>> \in Seq(PieceForms) /\ <<p>> \o <<>> = <<p>>
    BY <1>1
  <2>2. WaitingOf(<<p>> \o <<>>) = W \o WaitingOf(<<>>)
    BY <1>1, <2>1, WaitingFirst
  <2>3. WaitingOf(<<>>) = <<>>
    <3>1. [i \in DOMAIN <<>> |-> WordsOf(<<>>[i].lines)] = <<>>
      OBVIOUS
    <3> QED BY <3>1, FlattenEmpty DEF WaitingOf, WordsOf
  <2>4. W \o <<>> = W
    BY <1>4, EmptyParts
  <2> QED BY <1>2, <2>1, <2>2, <2>3, <2>4, WaitingIs
<1> HIDE DEF W
<1>6. heard \o Waiting = W
  BY <1>0, <1>4, <1>5, EmptyParts
<1>7. IsPartOf(W, W)
  <2>1. PlacesOf(W, ToSet(W)) = DOMAIN W
    BY DEF PlacesOf, ToSet
  <2> QED BY <1>4, <2>1, AllPicked DEF IsPartOf
<1>8. Missed = {}
  <2>1. \A r \in Reasons : lostWords[r] = {}
    BY <1>0
  <2> QED BY <2>1 DEF Missed
<1>9. WordsCovered
  BY <1>6, <1>7, <1>8 DEF WordsCovered, W
<1>10. CallsCovered
  <2> DEFINE c == CostOf[CutDepth]
             g == [k \in 0..1 |-> IF k = 0 THEN 0 ELSE c]
  <2>1. c \in Nat
    <3>1. CutDepth \in 0..CutDepth
      BY <1>0
    <3> QED BY <3>1, CostSteps
  <2>2. g[0] = 0 /\ g[1] = c
    OBVIOUS
  <2>3. c = CostOf[CutDepth - p.depth]
    BY <1>0, <1>1
  <2> HIDE DEF c, g
  <2>4. Owes(g, <<p>>)
    <3>1. \A k \in 0..1 : g[k] \in Nat
      BY <2>1, <2>2
    <3>2. \A k \in 1..1 : g[k] = g[k - 1] + CostOf[CutDepth - <<p>>[1 + 1 - k].depth]
      <4>1. 1 - 1 = 0 /\ 1 + 1 - 1 = 1 /\ \A k \in 1..1 : k = 1
        OBVIOUS
      <4>2. g[1] = g[0] + CostOf[CutDepth - p.depth]
        BY <2>1, <2>2, <2>3
      <4> QED BY <1>2, <4>1, <4>2
    <3> QED BY <1>2, <2>2, <3>1, <3>2 DEF Owes
  <2>5. asked + g[Len(<<p>>)] <= CostOf[CutDepth] + spent.format + spent.transport
    <3>1. spent.format = 0 /\ spent.transport = 0
      BY <1>0 DEF NoRetries
    <3> QED BY <1>0, <1>2, <2>1, <2>2, <3>1 DEF c
  <2> QED BY <1>2, <2>4, <2>5 DEF CallsCovered
<1> QED BY <1>3, <1>9, <1>10 DEF ChunkInv

\* a step keeps the invariant
LEMMA ChunkInvStep ==
    ASSUME ChunkInv, [ChunksNext]_chunkVars
    PROVE  ChunkInv'
<1>1. CASE ChunksNext
  <2>1. StepShape
    BY <1>1, ChunkStepShape DEF ChunkInv
  <2> QED BY <2>1, ChunkTypeStep, WordsStep, CallsStep DEF ChunkInv
<1>2. CASE UNCHANGED chunkVars
  <2>1. ChunkType'
    BY <1>2 DEF ChunkInv, chunkVars, ChunkType
  <2>2. WordsCovered'
    BY <1>2 DEF ChunkInv, chunkVars, WordsCovered, Missed, Waiting
  <2>3. CallsCovered'
    BY <1>2 DEF ChunkInv, chunkVars, CallsCovered
  <2> QED BY <2>1, <2>2, <2>3 DEF ChunkInv
<1> QED BY <1>1, <1>2

\* in the invariant the chunk is heard
LEMMA ChunkInvHeard ==
    ASSUME ChunkInv
    PROVE  ChunkIsHeard
<1>1. CostIsBounded
  BY CallsBound DEF ChunkInv
<1>2. ASSUME chunkEnd # "failed"
      PROVE  /\ heard \o Waiting = InText(ToSet(heard) \cup ToSet(Waiting))
             /\ ToSet(heard) \cup ToSet(Waiting) \cup Missed = ToSet(WordsOf(whole))
             /\ Missed \cap (ToSet(heard) \cup ToSet(Waiting)) = {}
  <2>1. Waiting \in Seq(STRING) /\ heard \in Seq(STRING)
    BY WaitingForms, WaitingIs DEF ChunkInv, ChunkType
  <2>2. ToSet(heard \o Waiting) = ToSet(heard) \cup ToSet(Waiting)
    BY <2>1, ConcatMembers
  <2>3. /\ IsPartOf(heard \o Waiting, WordsOf(whole))
        /\ ToSet(heard \o Waiting) \cup Missed = ToSet(WordsOf(whole))
        /\ Missed \cap ToSet(heard \o Waiting) = {}
    BY <1>2 DEF ChunkInv, WordsCovered
  <2>4. heard \o Waiting = InText(ToSet(heard \o Waiting))
    BY <2>3 DEF IsPartOf, PlacesOf, InText
  <2> QED BY <2>2, <2>3, <2>4
<1> QED BY <1>1, <1>2 DEF ChunkIsHeard, WordsAddUp

\* Each word of a chunk is heard once and in its place, still to be asked or lost for a reason, and
\* the calls stay within what a piece with its halves and retries may cost, for every text, wherever
\* it is cut and whatever the model answers (_run_resilient, _run_split_parts, _attempt).
THEOREM ChunkHeard == ChunksSpec => []ChunkIsHeard
<1>1. ChunksInit => ChunkInv
  BY ChunkInitInv
<1>2. ChunkInv /\ [ChunksNext]_chunkVars => ChunkInv'
  BY ChunkInvStep
<1>3. ChunkInv => ChunkIsHeard
  BY ChunkInvHeard
<1> QED BY <1>1, <1>2, <1>3, PTL DEF ChunksSpec

-----------------------------------------------------------------------------
(* The texts of a conversation. *)

\* a decision, or the prose around it
Sayings == [row : Nat, act : STRING \cup {"prose"}]
Pieces == [d : Sayings, part : {"whole", "tail", "head", "prose"}]
TalkForms  == Seq(Pieces)
\* every tail is behind its head
WellJoined(text) == \A i \in 1..Len(text) : text[i].part = "tail" => i > 1 /\ text[i - 1].part = "head"
FinishedAt(text, rows) == {i \in DOMAIN text : text[i].part \in {"whole", "tail"} /\ text[i].d.row \in rows}

\* the decisions in a text
LEMMA ThingsForms ==
    ASSUME NEW s \in TalkForms
    PROVE  ThingsIn(s) \in Seq(Sayings) /\ Len(ThingsIn(s)) = Len(s) /\ \A i \in 1..Len(s) : ThingsIn(s)[i] = s[i].d
<1> DEFINE t == [i \in DOMAIN s |-> s[i].d]
<1>1. DOMAIN s = 1..Len(s) /\ Len(s) \in Nat /\ \A i \in 1..Len(s) : s[i] \in Pieces
  BY DEF TalkForms
<1>2. t \in [1..Len(s) -> Sayings]
  BY <1>1 DEF Pieces
<1> QED BY <1>1, <1>2 DEF ThingsIn

\* ... and in two, one behind the other
LEMMA ThingsJoin ==
    ASSUME NEW a \in TalkForms, NEW b \in TalkForms
    PROVE  a \o b \in TalkForms /\ ThingsIn(a \o b) = ThingsIn(a) \o ThingsIn(b)
<1> DEFINE ab == a \o b
           x == ThingsIn(a)
           y == ThingsIn(b)
           z == ThingsIn(ab)
<1>1. /\ ab \in TalkForms /\ Len(ab) = Len(a) + Len(b) /\ Len(a) \in Nat /\ Len(b) \in Nat
      /\ \A k \in 1..Len(a) : ab[k] = a[k]
      /\ \A k \in 1..Len(b) : ab[Len(a) + k] = b[k]
  BY ConcatPlaces DEF TalkForms
<1> HIDE DEF ab
<1>2. /\ x \in Seq(Sayings) /\ Len(x) = Len(a) /\ \A i \in 1..Len(a) : x[i] = a[i].d
      /\ y \in Seq(Sayings) /\ Len(y) = Len(b) /\ \A i \in 1..Len(b) : y[i] = b[i].d
      /\ z \in Seq(Sayings) /\ Len(z) = Len(ab) /\ \A i \in 1..Len(ab) : z[i] = ab[i].d
  BY <1>1, ThingsForms
<1> HIDE DEF x, y, z
<1> DEFINE xy == x \o y
<1>3. /\ xy \in Seq(Sayings) /\ Len(xy) = Len(a) + Len(b)
      /\ \A k \in 1..Len(a) : xy[k] = x[k]
      /\ \A k \in 1..Len(b) : xy[Len(a) + k] = y[k]
  <2>1. IsJoin(xy, x, y, Sayings)
    BY <1>2, JoinIs, Zenon
  <2> HIDE DEF xy
  <2> QED BY <1>2, <2>1 DEF IsJoin
<1> HIDE DEF xy
<1>4. \A k \in 1..(Len(a) + Len(b)) : xy[k] = z[k]
  <2> SUFFICES ASSUME NEW k \in 1..(Len(a) + Len(b)) PROVE xy[k] = z[k]
    OBVIOUS
  <2>1. CASE k <= Len(a)
    <3>1. k \in 1..Len(a)
      BY <1>1, <2>1
    <3> QED BY <1>1, <1>2, <1>3, <3>1
  <2>2. CASE ~(k <= Len(a))
    <3>1. k - Len(a) \in 1..Len(b) /\ k = Len(a) + (k - Len(a))
      BY <1>1, <2>2
    <3> DEFINE j == k - Len(a)
    <3>2. j \in 1..Len(b) /\ k = Len(a) + j
      BY <3>1
    <3> HIDE DEF j
    <3> QED BY <1>1, <1>2, <1>3, <3>2
  <2> QED BY <2>1, <2>2
<1>5. xy = z
  <2>1. xy \in Seq(Sayings) /\ Len(xy) = Len(z) /\ Len(z) = Len(a) + Len(b)
    BY <1>1, <1>2, <1>3
  <2> HIDE DEF xy
  <2> QED BY <1>2, <1>4, <2>1, SameSeq
<1> QED BY <1>1, <1>5, Zenon DEF x, y, z, ab, xy

\* the decisions a model has finished
LEMMA FinishedForms ==
    ASSUME NEW text \in TalkForms, NEW rows
    PROVE  /\ Finished(text, rows) = ThingsIn(Picked(text, FinishedAt(text, rows)))
           /\ Picked(text, FinishedAt(text, rows)) \in TalkForms
           /\ Finished(text, rows) \in Seq(Sayings)
           /\ \A i \in 1..Len(Finished(text, rows)) : Finished(text, rows)[i].row \in rows
<1> DEFINE P == FinishedAt(text, rows)
           at == InOrder(P, Len(text))
           s == Picked(text, P)
           f == Finished(text, rows)
<1>1. f = ThingsIn(s)
  BY DEF Finished, FinishedAt
<1>2. s \in Seq(Pieces) /\ Len(s) = Len(at) /\ \A k \in 1..Len(at) : s[k] = text[at[k]] /\ at[k] \in P \cap (1..Len(text))
  <2>1. text \in Seq(Pieces) /\ at = InOrder(P, Len(text))
    BY DEF TalkForms
  <2> HIDE DEF at, P
  <2> QED BY <2>1, PickedFacts
<1> HIDE DEF s, at, f
<1>3. s \in TalkForms
  BY <1>2 DEF TalkForms
<1>4. ThingsIn(s) \in Seq(Sayings) /\ Len(ThingsIn(s)) = Len(s) /\ \A i \in 1..Len(s) : ThingsIn(s)[i] = s[i].d
  BY <1>3, ThingsForms
<1>5. \A i \in 1..Len(f) : f[i].row \in rows
  <2> SUFFICES ASSUME NEW i \in 1..Len(f) PROVE f[i].row \in rows
    OBVIOUS
  <2>1. f[i] = text[at[i]].d /\ at[i] \in P
    BY <1>1, <1>2, <1>4
  <2> QED BY <2>1 DEF FinishedAt
<1> QED BY <1>1, <1>3, <1>4, <1>5 DEF s, f

\* ... are those of the parts of a conversation
LEMMA FinishedJoins ==
    ASSUME NEW a \in TalkForms, NEW b \in TalkForms, NEW rows
    PROVE  Finished(a \o b, rows) = Finished(a, rows) \o Finished(b, rows)
<1> DEFINE ab == a \o b
           P == FinishedAt(ab, rows)
<1>1. /\ ab \in TalkForms /\ Len(ab) = Len(a) + Len(b) /\ Len(a) \in Nat /\ Len(b) \in Nat
      /\ \A k \in 1..Len(a) : ab[k] = a[k]
      /\ \A k \in 1..Len(b) : ab[Len(a) + k] = b[k]
      /\ DOMAIN ab = 1..Len(ab) /\ DOMAIN a = 1..Len(a) /\ DOMAIN b = 1..Len(b)
  BY ConcatPlaces DEF TalkForms
<1>2. Picked(ab, P) = Picked(a, P) \o Picked(b, Behind(P, Len(a), Len(b)))
  <2>1. a \in Seq(Pieces) /\ b \in Seq(Pieces)
    BY DEF TalkForms
  <2> HIDE DEF P
  <2> QED BY <2>1, PickedJoins, Zenon
<1> HIDE DEF ab
<1>3. Behind(P, Len(a), Len(b)) = FinishedAt(b, rows)
  <2>1. ASSUME NEW j \in 1..Len(b) PROVE Len(a) + j \in DOMAIN ab /\ ab[Len(a) + j] = b[j]
    BY <1>1
  <2> QED BY <1>1, <2>1 DEF FinishedAt, Behind
<1>4. P \cap (1..Len(a)) = FinishedAt(a, rows)
  <2>1. ASSUME NEW j \in 1..Len(a) PROVE j \in DOMAIN ab /\ ab[j] = a[j]
    BY <1>1
  <2> QED BY <1>1, <2>1 DEF FinishedAt
<1>5. Picked(a, P) = Picked(a, FinishedAt(a, rows))
  <2> DEFINE Q == FinishedAt(a, rows)
  <2>1. Q \cap (1..Len(a)) = P \cap (1..Len(a))
    BY <1>4
  <2> HIDE DEF P, Q
  <2>2. InOrder(P, Len(a)) = InOrder(Q, Len(a))
    BY <1>1, <2>1, OrderWithin
  <2> QED BY <2>2 DEF Picked, Q
<1> DEFINE x == Picked(a, FinishedAt(a, rows))
           y == Picked(b, FinishedAt(b, rows))
<1>6. x \in TalkForms /\ y \in TalkForms /\ Picked(ab, P) = x \o y
  BY <1>2, <1>3, <1>5, FinishedForms
<1>7. Finished(a, rows) = ThingsIn(x) /\ Finished(b, rows) = ThingsIn(y) /\ Finished(ab, rows) = ThingsIn(Picked(ab, P))
  BY <1>1, FinishedForms
<1> HIDE DEF x, y
<1>8. ThingsIn(x \o y) = ThingsIn(x) \o ThingsIn(y)
  BY <1>6, ThingsJoin
<1> QED BY <1>6, <1>7, <1>8 DEF ab

-----------------------------------------------------------------------------
(* The decisions that are kept of a text. *)

\* each decision is kept with its row, and with its act or as it was
Matches(p, m) ==
    Len(p) = Len(m) /\ \A i \in 1..Len(p) : p[i].row = m[i].row /\ p[i].act \in {m[i].act, "keep"} \cap ValidActs

\* what is kept of a text is what the model has finished in it, once every tail has its head
LEMMA DecisionsMatch ==
    ASSUME NEW text \in TalkForms, WellJoined(text), NEW rows
    PROVE  /\ DecisionsOf(text, rows) \in Seq(Sayings) /\ RowsIn(DecisionsOf(text, rows)) \subseteq rows
           /\ Finished(text, rows) \in Seq(Sayings) /\ Matches(DecisionsOf(text, rows), Finished(text, rows))
<1> DEFINE f == Finished(text, rows)
           ds == DecisionsOf(text, rows)
<1>1. {i \in Closed(text) : text[i].d.row \in rows} = FinishedAt(text, rows)
  <2>1. DOMAIN text = 1..Len(text)
    BY SeqPlaces DEF TalkForms
  <2> QED BY <2>1 DEF Closed, FinishedAt, WellJoined
<1>2. ThingsIn(Picked(text, {i \in Closed(text) : text[i].d.row \in rows})) = f
  BY <1>1, FinishedForms
<1>3. ds = [i \in DOMAIN f |-> IF f[i].act \in ValidActs THEN f[i] ELSE [f[i] EXCEPT !.act = "keep"]]
  BY <1>2, Zenon DEF DecisionsOf
<1>4. f \in Seq(Sayings) /\ \A i \in 1..Len(f) : f[i].row \in rows
  BY FinishedForms
<1>5. "keep" \in ValidActs /\ ValidActs \subseteq STRING
  BY RepliesAssumption
<1> HIDE DEF f, ds
<1>6. Len(f) \in Nat /\ DOMAIN f = 1..Len(f) /\ \A i \in 1..Len(f) : f[i] \in Sayings
  BY <1>4, SeqPlaces
<1>7. /\ DOMAIN ds = 1..Len(f)
      /\ \A i \in 1..Len(f) : ds[i] = IF f[i].act \in ValidActs THEN f[i] ELSE [f[i] EXCEPT !.act = "keep"]
  BY <1>3, <1>6
<1>8. ASSUME NEW i \in 1..Len(f)
      PROVE  ds[i] \in Sayings /\ ds[i].row = f[i].row /\ ds[i].act \in {f[i].act, "keep"} \cap ValidActs
  <2>1. f[i] \in Sayings
    BY <1>6
  <2> QED BY <1>5, <1>7, <2>1 DEF Sayings
<1>9. ds \in [1..Len(f) -> Sayings]
  <2>1. ds = [i \in 1..Len(f) |-> ds[i]]
    BY <1>3, <1>6
  <2> QED BY <1>8, <2>1
<1>10. ds \in Seq(Sayings) /\ Len(ds) = Len(f)
  BY <1>6, <1>9
<1>11. Matches(ds, f)
  BY <1>8, <1>10 DEF Matches
<1>12. RowsIn(ds) \subseteq rows
  BY <1>4, <1>7, <1>8 DEF RowsIn
<1> QED BY <1>4, <1>10, <1>11, <1>12 DEF ds, f

\* what is kept of two texts matches what was finished in both
LEMMA MatchesJoin ==
    ASSUME NEW p \in Seq(Sayings), NEW m \in Seq(Sayings), Matches(p, m),
           NEW q \in Seq(Sayings), NEW k \in Seq(Sayings), Matches(q, k)
    PROVE  p \o q \in Seq(Sayings) /\ m \o k \in Seq(Sayings) /\ Matches(p \o q, m \o k)
<1> DEFINE pq == p \o q
           mk == m \o k
<1>1. IsJoin(pq, p, q, Sayings) /\ IsJoin(mk, m, k, Sayings)
  BY JoinIs, Zenon
<1> HIDE DEF pq, mk
<1>2. pq \in Seq(Sayings) /\ mk \in Seq(Sayings) /\ Len(pq) = Len(p) + Len(q) /\ Len(mk) = Len(pq)
      /\ Len(p) \in Nat /\ Len(q) \in Nat /\ Len(m) = Len(p) /\ Len(k) = Len(q)
  BY <1>1 DEF IsJoin, Matches
<1>3. ASSUME NEW i \in 1..Len(pq)
      PROVE  pq[i].row = mk[i].row /\ pq[i].act \in {mk[i].act, "keep"} \cap ValidActs
  <2>1. CASE i <= Len(p)
    <3>1. i \in 1..Len(p)
      BY <1>2, <2>1
    <3>2. pq[i] = p[i] /\ mk[i] = m[i]
      BY <1>1, <1>2, <3>1 DEF IsJoin
    <3> QED BY <3>1, <3>2 DEF Matches
  <2>2. CASE ~(i <= Len(p))
    <3> DEFINE j == i - Len(p)
    <3>1. j \in 1..Len(q) /\ i = Len(p) + j
      BY <1>2, <2>2
    <3> HIDE DEF j
    <3>2. pq[i] = q[j] /\ mk[i] = k[j]
      BY <1>1, <1>2, <3>1 DEF IsJoin
    <3> QED BY <3>1, <3>2 DEF Matches
  <2> QED BY <2>1, <2>2
<1>4. Matches(pq, mk)
  BY <1>2, <1>3 DEF Matches
<1> QED BY <1>2, <1>4, Zenon DEF pq, mk

\* an empty conversation
LEMMA EmptyText ==
    /\ <<>> \in TalkForms /\ WellJoined(<<>>) /\ <<>> \in Seq(Sayings)
    /\ \A rows : Finished(<<>>, rows) = <<>>
    /\ RowsIn(<<>>) = {} /\ Matches(<<>>, <<>>)
<1>1. <<>> \in TalkForms /\ <<>> \in Seq(Sayings)
  BY DEF TalkForms
<1>2. WellJoined(<<>>) /\ RowsIn(<<>>) = {} /\ Matches(<<>>, <<>>)
  BY DEF WellJoined, RowsIn, Matches
<1>3. ASSUME NEW rows PROVE Finished(<<>>, rows) = <<>>
  <2>1. Picked(<<>>, FinishedAt(<<>>, rows)) = <<>>
    <3>1. FinishedAt(<<>>, rows) \cap (1..0) = {} /\ 0 \in Nat /\ Len(<<>>) = 0
      BY DEF FinishedAt
    <3>2. InOrder(FinishedAt(<<>>, rows), Len(<<>>)) = <<>>
      BY <3>1, NoneInOrder
    <3> QED BY <3>1, <3>2 DEF Picked
  <2> QED BY <1>1, <2>1, FinishedForms DEF ThingsIn
<1> QED BY <1>1, <1>2, <1>3

-----------------------------------------------------------------------------
(* The answers. *)

NoTails(s) == \A i \in 1..Len(s) : s[i].part # "tail"
\* what may come first in an answer that goes on; the answer; where it is cut
Onsets == IF reply # <<>> /\ Last(reply).part = "head"
          THEN {<<>>, <<PieceOf(Last(reply).d, "tail")>>} ELSE {<<>>}
Bodies == {<<Prose>>} \cup (UNION {[1..n -> {PieceOf(d, "whole") : d \in voice.says}] : n \in 0..PieceMax})
Ends   == {<<>>} \cup {<<PieceOf(d, "head")>> : d \in voice.says}
\* a tail is only the first, and goes on with what has been cut
Follows(part) ==
    /\ part \in TalkForms
    /\ \A i \in 1..Len(part) :
           part[i].part = "tail" => i = 1 /\ reply # <<>> /\ reply[Len(reply)].part = "head"

\* what a model may say
LEMMA VoiceSays ==
    ASSUME voice \in Voices
    PROVE  /\ \A d \in voice.says : d \in Sayings /\ PieceOf(d, "whole") \in Pieces /\ PieceOf(d, "head") \in Pieces
           /\ Prose \in Pieces
<1>1. \A d \in voice.says : d \in Sayings
  <2>1. \A d \in Decisions : d \in Sayings
    BY DEF Decisions, Sayings
  <2>2. voice.says \subseteq Decisions
    BY RepliesAssumption
  <2> QED BY <2>1, <2>2
<1>2. ASSUME NEW d \in Sayings, NEW w \in {"whole", "tail", "head", "prose"} PROVE PieceOf(d, w) \in Pieces
  BY DEF Pieces, PieceOf
<1>3. [row |-> 0, act |-> "prose"] \in Sayings
  BY DEF Sayings
<1>4. Prose \in Pieces
  BY <1>2, <1>3 DEF Prose
<1> QED BY <1>1, <1>2, <1>4

\* the body of an answer
LEMMA BodyForms ==
    ASSUME voice \in Voices, NEW b \in Bodies
    PROVE  b \in TalkForms /\ NoTails(b)
<1>1. CASE b = <<Prose>>
  <2>1. Prose \in Pieces /\ Prose.part = "prose"
    BY VoiceSays DEF Prose, PieceOf
  <2> DEFINE x == Prose
  <2>2. x \in Pieces /\ x.part = "prose" /\ b = <<x>>
    BY <1>1, <2>1
  <2> HIDE DEF x
  <2>3. b \in Seq(Pieces) /\ Len(b) = 1 /\ b[1] = x
    BY <2>2
  <2> QED BY <2>2, <2>3 DEF TalkForms, NoTails
<1>2. CASE b # <<Prose>>
  <2> DEFINE P == {PieceOf(d, "whole") : d \in voice.says}
  <2>1. PICK n \in 0..PieceMax : b \in [1..n -> P]
    BY <1>2 DEF Bodies
  <2>2. n \in Nat
    BY <2>1, RepliesAssumption
  <2>3. \A x \in P : x \in Pieces /\ x.part = "whole"
    <3> SUFFICES ASSUME NEW x \in P PROVE x \in Pieces /\ x.part = "whole"
      OBVIOUS
    <3>1. PICK d \in voice.says : x = PieceOf(d, "whole")
      OBVIOUS
    <3>2. x \in Pieces
      BY <3>1, VoiceSays
    <3> QED BY <3>1, <3>2 DEF PieceOf
  <2> HIDE DEF P
  <2>4. b \in Seq(Pieces) /\ Len(b) = n /\ \A i \in 1..n : b[i] \in P
    BY <2>1, <2>2, <2>3
  <2> QED BY <2>3, <2>4 DEF TalkForms, NoTails
<1> QED BY <1>1, <1>2

\* what goes on with a cut
LEMMA OnForms ==
    ASSUME reply \in TalkForms, NEW o \in Onsets
    PROVE  /\ o \in TalkForms /\ Len(o) \in 0..1
           /\ Len(o) = 1 => reply # <<>> /\ reply[Len(reply)].part = "head"
<1>1. CASE o = <<>>
  BY <1>1 DEF TalkForms
<1>2. CASE o # <<>>
  <2>1. reply # <<>> /\ Last(reply).part = "head" /\ o = <<PieceOf(Last(reply).d, "tail")>>
    BY <1>2 DEF Onsets
  <2>2. Last(reply) = reply[Len(reply)] /\ Last(reply) \in Pieces
    <3>1. Len(reply) \in Nat /\ \A k \in 1..Len(reply) : reply[k] \in Pieces
      BY SeqPlaces DEF TalkForms
    <3>2. Len(reply) # 0
      BY <2>1, EmptySeq DEF TalkForms
    <3> QED BY <3>1, <3>2 DEF Last
  <2> DEFINE x == PieceOf(Last(reply).d, "tail")
  <2>3. x \in Pieces
    BY <2>2 DEF Pieces, PieceOf
  <2>4. o = <<x>>
    BY <2>1
  <2> HIDE DEF x
  <2>5. o \in Seq(Pieces) /\ Len(o) = 1
    BY <2>3, <2>4
  <2> QED BY <2>1, <2>2, <2>5 DEF TalkForms
<1> QED BY <1>1, <1>2

\* the head a cut leaves
LEMMA EndForms ==
    ASSUME voice \in Voices, NEW t \in Ends
    PROVE  t \in TalkForms /\ NoTails(t)
<1>1. CASE t = <<>>
  BY <1>1 DEF TalkForms, NoTails
<1>2. CASE t # <<>>
  <2>1. PICK d \in voice.says : t = <<PieceOf(d, "head")>>
    BY <1>2 DEF Ends
  <2> DEFINE x == PieceOf(d, "head")
  <2>2. x \in Pieces /\ x.part = "head" /\ t = <<x>>
    BY <2>1, VoiceSays DEF PieceOf
  <2> HIDE DEF x
  <2>3. t \in Seq(Pieces) /\ Len(t) = 1 /\ t[1] = x
    BY <2>2
  <2> QED BY <2>2, <2>3 DEF TalkForms, NoTails
<1> QED BY <1>1, <1>2

\* a text without tails adds none
LEMMA TailsOfJoin ==
    ASSUME NEW x \in TalkForms, NEW y \in TalkForms, NoTails(y)
    PROVE  /\ x \o y \in TalkForms
           /\ \A i \in 1..Len(x \o y) : (x \o y)[i].part = "tail" => i \in 1..Len(x) /\ x[i].part = "tail"
<1> DEFINE z == x \o y
<1>1. IsJoin(z, x, y, Pieces)
  BY JoinIs, Zenon DEF TalkForms
<1> HIDE DEF z
<1>2. z \in TalkForms /\ Len(z) = Len(x) + Len(y) /\ Len(x) \in Nat /\ Len(y) \in Nat
  BY <1>1 DEF IsJoin, TalkForms
<1>3. ASSUME NEW i \in 1..Len(z), z[i].part = "tail" PROVE i \in 1..Len(x) /\ x[i].part = "tail"
  <2>1. CASE i <= Len(x)
    <3>1. i \in 1..Len(x)
      BY <1>2, <2>1
    <3>2. z[i] = x[i]
      BY <1>1, <3>1 DEF IsJoin
    <3> QED BY <1>3, <3>1, <3>2
  <2>2. CASE ~(i <= Len(x))
    <3> DEFINE j == i - Len(x)
    <3>1. j \in 1..Len(y) /\ i = Len(x) + j
      BY <1>2, <2>2
    <3> HIDE DEF j
    <3>2. z[i] = y[j]
      BY <1>1, <3>1 DEF IsJoin
    <3> QED BY <1>3, <3>1, <3>2 DEF NoTails
  <2> QED BY <2>1, <2>2
<1> QED BY <1>2, <1>3, Zenon DEF z

\* an answer begins with a tail only where the one before was cut
LEMMA RepliedForms ==
    ASSUME voice \in Voices, reply \in TalkForms, NEW part \in Replied
    PROVE  Follows(part)
<1>1. PICK o \in Onsets, b \in Bodies : part = o \o b
  BY SMTT(30) DEF Replied, Onsets, Bodies
<1>2. /\ o \in TalkForms /\ Len(o) \in 0..1
      /\ Len(o) = 1 => reply # <<>> /\ reply[Len(reply)].part = "head"
      /\ b \in TalkForms /\ NoTails(b)
  BY OnForms, BodyForms
<1>3. part \in TalkForms /\ \A i \in 1..Len(part) : part[i].part = "tail" => i \in 1..Len(o)
  <2>1. /\ o \o b \in TalkForms
        /\ \A i \in 1..Len(o \o b) : (o \o b)[i].part = "tail" => i \in 1..Len(o) /\ o[i].part = "tail"
    BY <1>2, TailsOfJoin, Zenon
  <2> QED BY <1>1, <2>1, Zenon
<1>4. ASSUME NEW i \in 1..Len(o) PROVE i = 1 /\ Len(o) = 1
  <2> DEFINE n == Len(o)
  <2>1. n \in 0..1 /\ i \in 1..n
    BY <1>2
  <2> HIDE DEF n
  <2>2. i = 1 /\ n = 1
    BY <2>1
  <2> QED BY <2>2 DEF n
<1> QED BY <1>2, <1>3, <1>4 DEF Follows

\* ... also one that is cut itself
LEMMA CutForms ==
    ASSUME voice \in Voices, reply \in TalkForms, NEW part \in Cut
    PROVE  Follows(part)
<1>1. PICK w \in Replied, t \in Ends : part = w \o t
  BY DEF Cut, Ends
<1>2. Follows(w) /\ w \in TalkForms /\ t \in TalkForms /\ NoTails(t)
  BY RepliedForms, EndForms DEF Follows
<1>3. part \in TalkForms /\ \A i \in 1..Len(part) : part[i].part = "tail" => i \in 1..Len(w) /\ w[i].part = "tail"
  <2>1. /\ w \o t \in TalkForms
        /\ \A i \in 1..Len(w \o t) : (w \o t)[i].part = "tail" => i \in 1..Len(w) /\ w[i].part = "tail"
    BY <1>2, TailsOfJoin, Zenon
  <2> QED BY <1>1, <2>1, Zenon
<1> QED BY <1>2, <1>3 DEF Follows

\* so in the joined text every tail is behind its head
LEMMA JoinedOn ==
    ASSUME reply \in TalkForms, WellJoined(reply), NEW part, Follows(part)
    PROVE  reply \o part \in TalkForms /\ WellJoined(reply \o part)
<1> DEFINE z == reply \o part
<1>1. part \in TalkForms
  BY DEF Follows
<1>2. IsJoin(z, reply, part, Pieces)
  BY <1>1, JoinIs, Zenon DEF TalkForms
<1> HIDE DEF z
<1>3. z \in TalkForms /\ Len(z) = Len(reply) + Len(part) /\ Len(reply) \in Nat /\ Len(part) \in Nat
  BY <1>2 DEF IsJoin, TalkForms
<1>4. ASSUME NEW i \in 1..Len(z), z[i].part = "tail" PROVE i > 1 /\ z[i - 1].part = "head"
  <2>1. CASE i <= Len(reply)
    <3>1. i \in 1..Len(reply)
      BY <1>3, <2>1
    <3>2. z[i] = reply[i]
      BY <1>2, <3>1 DEF IsJoin
    <3>3. i > 1 /\ reply[i - 1].part = "head"
      BY <1>4, <3>1, <3>2 DEF WellJoined
    <3>4. i - 1 \in 1..Len(reply)
      BY <3>1, <3>3
    <3> QED BY <1>2, <3>3, <3>4 DEF IsJoin
  <2>2. CASE ~(i <= Len(reply))
    <3> DEFINE j == i - Len(reply)
    <3>1. j \in 1..Len(part) /\ i = Len(reply) + j
      BY <1>3, <2>2
    <3> HIDE DEF j
    <3>2. z[i] = part[j]
      BY <1>2, <3>1 DEF IsJoin
    <3>3. j = 1 /\ reply # <<>> /\ reply[Len(reply)].part = "head"
      BY <1>4, <3>1, <3>2 DEF Follows
    <3>4. Len(reply) # 0
      BY <3>3, EmptySeq DEF TalkForms
    <3>5. Len(reply) \in 1..Len(reply) /\ i - 1 = Len(reply) /\ i > 1
      BY <1>3, <3>1, <3>3, <3>4
    <3>6. z[Len(reply)] = reply[Len(reply)]
      BY <1>2, <3>5 DEF IsJoin
    <3> QED BY <3>3, <3>5, <3>6
  <2> QED BY <2>1, <2>2
<1> QED BY <1>3, <1>4, Zenon DEF z, WellJoined

-----------------------------------------------------------------------------
(* The invariant of a review's conversation. *)

RepliesType ==
    /\ voice \in Voices /\ topic \in {"main", "missing", "done", "failed"}
    /\ reply \in TalkForms /\ WellJoined(reply) /\ turn \in Nat /\ seenAtCut \in Nat
    /\ picked \in Seq(Sayings) /\ mains \in Nat /\ meant \in Seq(Sayings)
AskedFor(main) ==
    ~voice.named =>
        wanted = IF \E d \in ToSet(main) : d.act = "keep" THEN BatchRows \ RowsIn(main) ELSE {}
InMain    == picked = <<>> /\ mains = 0 /\ meant = Finished(reply, BatchRows)
InMissing ==
    /\ mains = Len(picked) /\ AskedFor(picked) /\ RowsIn(picked) \cap wanted = {}
    /\ \E first \in Seq(Sayings) : Matches(picked, first) /\ meant = first \o Finished(reply, wanted)
InDone ==
    /\ Matches(picked, meant)
    /\ \E main, more \in Seq(Sayings) :
           /\ picked = main \o more /\ mains = Len(main) /\ AskedFor(main)
           /\ RowsIn(main) \cap RowsIn(more) = {}
KeptSoFar ==
    /\ topic = "main" => InMain
    /\ topic = "missing" => InMissing
    /\ topic = "done" => InDone
    /\ topic = "failed" => picked = <<>> /\ mains = 0
RepliesInv == RepliesType /\ KeptSoFar /\ CutsEnd

\* a list and the empty one
LEMMA OneList ==
    ASSUME NEW S, NEW s \in Seq(S)
    PROVE  s \o <<>> = s /\ <<>> \in Seq(S) /\ SubSeq(s, 1, Len(s)) = s /\ RowsIn(<<>>) = {}
<1>1. s \o <<>> = s /\ <<>> \in Seq(S)
  BY EmptyParts
<1>2. SubSeq(s \o <<>>, 1, Len(s)) = s
  BY <1>1, FrontAndBack
<1> QED BY <1>1, <1>2, EmptyText

\* a conversation that begins anew
LEMMA NewTalkForms ==
    ASSUME NewTalk
    PROVE  /\ reply' \in TalkForms /\ WellJoined(reply') /\ turn' \in Nat /\ seenAtCut' \in Nat
           /\ reply' = <<>> /\ turn' = 0 /\ seenAtCut' = 0 /\ CutsEnd'
<1>1. reply' = <<>> /\ turn' = 0 /\ seenAtCut' = 0 /\ ContinueMax \in Nat
  BY RepliesAssumption DEF NewTalk
<1>2. CutsEnd'
  BY <1>1 DEF CutsEnd
<1> QED BY <1>1, <1>2, EmptyText

\* a conversation that is given up leaves the main answer, if there is one
LEMMA GivesUpStep ==
    ASSUME RepliesInv, Conversing, UNCHANGED voice, NEW left, GivesUp(left)
    PROVE  RepliesInv'
<1>1. /\ reply' \in TalkForms /\ WellJoined(reply') /\ turn' \in Nat /\ seenAtCut' \in Nat
      /\ reply' = <<>> /\ turn' = 0 /\ seenAtCut' = 0 /\ CutsEnd'
  BY NewTalkForms DEF GivesUp
<1>2. RepliesType /\ KeptSoFar /\ UNCHANGED <<wanted, mains, voice, picked>>
  BY DEF RepliesInv, GivesUp
<1>3. CASE topic = "missing"
  <2>1. topic' = "done" /\ meant' = SubSeq(meant, 1, mains)
    BY <1>3 DEF GivesUp
  <2>2. InMissing /\ picked \in Seq(Sayings)
    BY <1>2, <1>3 DEF KeptSoFar, RepliesType
  <2>3. PICK first \in Seq(Sayings) : Matches(picked, first) /\ meant = first \o Finished(reply, wanted)
    BY <2>2 DEF InMissing
  <2>4. meant' = first
    <3> DEFINE rest == Finished(reply, wanted)
    <3>1. rest \in Seq(Sayings)
      BY <1>2, FinishedForms DEF RepliesType
    <3>2. mains = Len(first)
      BY <2>2, <2>3 DEF InMissing, Matches
    <3> HIDE DEF rest
    <3>3. SubSeq(first \o rest, 1, Len(first)) = first
      BY <3>1, FrontAndBack
    <3> QED BY <2>1, <2>3, <3>2, <3>3 DEF rest
  <2>5. picked = picked \o <<>> /\ <<>> \in Seq(Sayings) /\ RowsIn(<<>>) = {}
    BY <2>2, OneList
  <2>6. AskedFor(picked)'
    BY <1>2, <2>2 DEF InMissing, AskedFor
  <2>7. InDone'
    <3>1. Matches(picked', meant')
      BY <1>2, <2>3, <2>4
    <3>2. /\ picked' = picked \o <<>> /\ mains' = Len(picked) /\ RowsIn(picked) \cap RowsIn(<<>>) = {}
      BY <1>2, <2>2, <2>5 DEF InMissing
    <3>3. AskedFor(picked)' <=> (~voice'.named =>
             wanted' = IF \E d \in ToSet(picked) : d.act = "keep" THEN BatchRows \ RowsIn(picked) ELSE {})
      BY <1>2 DEF AskedFor
    <3> DEFINE p == picked
    <3>4. p \in Seq(Sayings) /\ picked' = p \o <<>> /\ mains' = Len(p) /\ RowsIn(p) \cap RowsIn(<<>>) = {}
          /\ (~voice'.named => wanted' = IF \E d \in ToSet(p) : d.act = "keep" THEN BatchRows \ RowsIn(p) ELSE {})
      BY <2>2, <2>6, <3>2, <3>3
    <3> HIDE DEF p
    <3> QED BY <2>5, <3>1, <3>4 DEF InDone, AskedFor
  <2> QED BY <1>1, <1>2, <2>1, <2>3, <2>4, <2>7 DEF RepliesInv, RepliesType, KeptSoFar
<1>4. CASE topic # "missing"
  <2>1. topic = "main" /\ InMain
    BY <1>2, <1>4 DEF Conversing, KeptSoFar
  <2>2. meant' = <<>> /\ (topic' = topic \/ topic' = "failed")
    BY <1>4 DEF GivesUp
  <2>3. meant' = Finished(reply', BatchRows) /\ meant' \in Seq(Sayings)
    BY <1>1, <2>2, EmptyText
  <2>4. InMain'
    BY <1>2, <2>1, <2>3 DEF InMain
  <2>5. RepliesType'
    BY <1>1, <1>2, <2>1, <2>2, <2>3 DEF RepliesType
  <2>6. KeptSoFar'
    BY <1>2, <2>1, <2>2, <2>4 DEF KeptSoFar, InMain
  <2> QED BY <1>1, <2>5, <2>6 DEF RepliesInv
<1> QED BY <1>3, <1>4

\* a part of the conversation, in which the model finishes some decisions
LEMMA PartMeans ==
    ASSUME RepliesInv, Conversing, NEW part, Follows(part), Means(part)
    PROVE  /\ reply \o part \in TalkForms /\ WellJoined(reply \o part) /\ meant' \in Seq(Sayings)
           /\ Finished(reply \o part, AskedRows) \in Seq(Sayings)
           /\ topic = "main" => meant' = Finished(reply \o part, AskedRows)
           /\ topic = "missing" =>
                 \E first \in Seq(Sayings) : /\ Matches(picked, first)
                                               /\ meant' = first \o Finished(reply \o part, AskedRows)
<1>1. reply \in TalkForms /\ WellJoined(reply) /\ meant \in Seq(Sayings) /\ part \in TalkForms
  BY DEF RepliesInv, RepliesType, Follows
<1>2. reply \o part \in TalkForms /\ WellJoined(reply \o part)
  BY <1>1, JoinedOn
<1> DEFINE a == Finished(reply, AskedRows)
           b == Finished(part, AskedRows)
           all == Finished(reply \o part, AskedRows)
<1>3. a \in Seq(Sayings) /\ b \in Seq(Sayings) /\ all \in Seq(Sayings)
  BY <1>1, <1>2, FinishedForms
<1>4. all = a \o b
  BY <1>1, FinishedJoins
<1>5. meant' = meant \o b
  BY DEF Means
<1> HIDE DEF a, b, all
<1>6. meant' \in Seq(Sayings)
  BY <1>1, <1>3, <1>5
<1>7. ASSUME topic = "main" PROVE meant' = all
  <2>1. meant = a
    BY <1>7 DEF RepliesInv, KeptSoFar, InMain, AskedRows, a
  <2> QED BY <1>4, <1>5, <2>1, Zenon
<1>8. ASSUME topic = "missing" PROVE \E first \in Seq(Sayings) : Matches(picked, first) /\ meant' = first \o all
  <2>1. PICK first \in Seq(Sayings) : Matches(picked, first) /\ meant = first \o a
    BY <1>8 DEF RepliesInv, KeptSoFar, InMissing, AskedRows, a
  <2>2. (first \o a) \o b = first \o (a \o b)
    BY <1>3, ConcatInTurn
  <2>3. meant' = first \o all
    BY <1>4, <1>5, <2>1, <2>2, Zenon
  <2> QED BY <2>1, <2>3
<1> QED BY <1>2, <1>3, <1>6, <1>7, <1>8 DEF all

\* the end of a conversation
LEMMA ConcludesStep ==
    ASSUME RepliesInv, Conversing, UNCHANGED voice, NEW part, Follows(part),
           Concludes(reply \o part), Means(part)
    PROVE  RepliesInv'
<1> DEFINE text == reply \o part
           rows == AskedRows
           ds == DecisionsOf(text, rows)
           fin == Finished(text, rows)
<1>1. /\ reply' \in TalkForms /\ WellJoined(reply') /\ turn' \in Nat /\ seenAtCut' \in Nat
      /\ reply' = <<>> /\ turn' = 0 /\ seenAtCut' = 0 /\ CutsEnd'
  <2>1. NewTalk
    BY DEF Concludes
  <2> QED BY <2>1, NewTalkForms
<1>2. /\ text \in TalkForms /\ WellJoined(text) /\ meant' \in Seq(Sayings) /\ fin \in Seq(Sayings)
      /\ topic = "main" => meant' = fin
      /\ topic = "missing" => \E first \in Seq(Sayings) : Matches(picked, first) /\ meant' = first \o fin
  BY PartMeans
<1>3. voice' = voice /\ voice \in Voices /\ topic \in {"main", "missing"} /\ picked \in Seq(Sayings) /\ mains \in Nat
  BY DEF RepliesInv, RepliesType, Conversing
<1> HIDE DEF text
<1>4. ds \in Seq(Sayings) /\ RowsIn(ds) \subseteq rows /\ Matches(ds, fin)
  BY <1>2, DecisionsMatch
<1>c. IF topic = "missing"
      THEN topic' = "done" /\ picked' = picked \o ds /\ UNCHANGED <<wanted, mains>>
      ELSE /\ topic' = IF AsksAgain(ds) THEN "missing" ELSE "done"
           /\ wanted' = IF AsksAgain(ds) THEN Unanswered(ds) ELSE {}
           /\ picked' = ds /\ mains' = Len(ds)
  BY DEF Concludes, text
<1> HIDE DEF rows, ds, fin
<1>5. CASE topic = "missing"
  <2>1. topic' = "done" /\ picked' = picked \o ds /\ wanted' = wanted /\ mains' = mains
    BY <1>5, <1>c
  <2>2. PICK first \in Seq(Sayings) : Matches(picked, first) /\ meant' = first \o fin
    BY <1>2, <1>5
  <2>3. picked \o ds \in Seq(Sayings) /\ Matches(picked \o ds, first \o fin)
    BY <1>2, <1>3, <1>4, <2>2, MatchesJoin
  <2>4. mains = Len(picked) /\ AskedFor(picked) /\ RowsIn(picked) \cap wanted = {}
    BY <1>5 DEF RepliesInv, KeptSoFar, InMissing
  <2>5. RowsIn(picked) \cap RowsIn(ds) = {}
    BY <1>4, <1>5, <2>4 DEF rows, AskedRows
  <2> DEFINE p == picked
  <2>6. p \in Seq(Sayings) /\ picked' = p \o ds /\ mains' = Len(p) /\ RowsIn(p) \cap RowsIn(ds) = {}
        /\ (~voice'.named => wanted' = IF \E d \in ToSet(p) : d.act = "keep" THEN BatchRows \ RowsIn(p) ELSE {})
    BY <1>3, <2>1, <2>4, <2>5 DEF AskedFor
  <2>7. Matches(picked', meant') /\ picked' \in Seq(Sayings)
    BY <2>1, <2>2, <2>3, Zenon
  <2> HIDE DEF p
  <2>8. InDone'
    BY <1>4, <2>6, <2>7 DEF InDone, AskedFor
  <2> QED BY <1>1, <1>2, <1>3, <2>1, <2>7, <2>8 DEF RepliesInv, RepliesType, KeptSoFar
<1>6. CASE topic = "main"
  <2>0. Len(ds) \in Nat
    BY <1>4
  <2>1. /\ topic' = IF AsksAgain(ds) THEN "missing" ELSE "done"
        /\ wanted' = IF AsksAgain(ds) THEN Unanswered(ds) ELSE {}
        /\ picked' = ds /\ mains' = Len(ds) /\ meant' = fin
    BY <1>2, <1>6, <1>c
  <2>2. ~voice.named =>
           wanted' = IF \E d \in ToSet(ds) : d.act = "keep" THEN BatchRows \ RowsIn(ds) ELSE {}
    BY <2>1 DEF AsksAgain, Unanswered
  <2>3. RowsIn(ds) \cap wanted' = {}
    BY <2>1 DEF Unanswered
  <2>4. ds \o <<>> = ds /\ <<>> \in Seq(Sayings) /\ RowsIn(<<>>) = {} /\ fin \o <<>> = fin
    BY <1>2, <1>4, OneList
  <2>5. topic' = "missing" => InMissing'
    <3>1. Finished(reply', wanted') = <<>>
      BY <1>1, EmptyText
    <3>2. Matches(picked', fin) /\ meant' = fin \o Finished(reply', wanted') /\ fin \in Seq(Sayings)
      BY <1>2, <1>4, <2>1, <2>4, <3>1
    <3> QED BY <1>3, <2>1, <2>2, <2>3, <3>2 DEF InMissing, AskedFor
  <2>6. topic' = "done" => InDone'
    <3>1. Matches(picked', meant')
      BY <1>4, <2>1
    <3>2. /\ ds \in Seq(Sayings) /\ <<>> \in Seq(Sayings) /\ picked' = ds \o <<>> /\ mains' = Len(ds)
          /\ RowsIn(ds) \cap RowsIn(<<>>) = {}
      BY <1>4, <2>1, <2>4
    <3> QED BY <1>3, <2>2, <3>1, <3>2 DEF InDone, AskedFor
  <2>7. topic' \in {"missing", "done"}
    BY <2>1
  <2>8. KeptSoFar'
    BY <2>5, <2>6, <2>7 DEF KeptSoFar
  <2>9. RepliesType'
    BY <1>1, <1>2, <1>3, <1>4, <2>0, <2>1, <2>7 DEF RepliesType
  <2> QED BY <1>1, <2>8, <2>9 DEF RepliesInv
<1> QED BY <1>3, <1>5, <1>6

\* a cut after which the conversation goes on
LEMMA TalkGoesOnStep ==
    ASSUME RepliesInv, Conversing, UNCHANGED voice, NEW part, Follows(part), Means(part),
           ~(turn = ContinueMax \/ (turn > 0 /\ Len(Scanned(reply \o part)) <= seenAtCut)),
           reply' = reply \o part, turn' = turn + 1, seenAtCut' = Len(Scanned(reply \o part)),
           UNCHANGED <<topic, wanted, picked, mains>>
    PROVE  RepliesInv'
<1>1. /\ reply' \in TalkForms /\ WellJoined(reply') /\ meant' \in Seq(Sayings)
      /\ topic = "main" => meant' = Finished(reply', AskedRows)
      /\ topic = "missing" =>
            \E first \in Seq(Sayings) : Matches(picked, first) /\ meant' = first \o Finished(reply', AskedRows)
  <2>1. /\ reply \o part \in TalkForms /\ WellJoined(reply \o part) /\ meant' \in Seq(Sayings)
        /\ topic = "main" => meant' = Finished(reply \o part, AskedRows)
        /\ topic = "missing" =>
              \E first \in Seq(Sayings) : /\ Matches(picked, first)
                                            /\ meant' = first \o Finished(reply \o part, AskedRows)
    BY PartMeans
  <2> QED BY <2>1, Zenon
<1> DEFINE seen == Len(Scanned(reply \o part))
<1>2. seen \in Nat
  <2> DEFINE text == reply \o part
  <2>1. text \in TalkForms
    BY PartMeans
  <2> HIDE DEF text
  <2>2. Picked(text, Closed(text)) \in TalkForms
    <3>1. text \in Seq(Pieces)
      BY <2>1 DEF TalkForms
    <3>2. Picked(text, Closed(text)) \in Seq(Pieces)
      <4> DEFINE at == InOrder(Closed(text), Len(text))
      <4>1. at = InOrder(Closed(text), Len(text))
        OBVIOUS
      <4> HIDE DEF at
      <4> QED BY <3>1, <4>1, PickedFacts
    <3> QED BY <3>2 DEF TalkForms
  <2>3. Scanned(text) \in Seq(Sayings)
    BY <2>2, ThingsForms DEF Scanned
  <2>4. Len(Scanned(text)) \in Nat
    BY <2>3, SeqPlaces
  <2> QED BY <2>4 DEF text
<1>3. RepliesType /\ KeptSoFar /\ CutsEnd
  BY DEF RepliesInv
<1>4. /\ turn \in Nat /\ seenAtCut \in Nat /\ turn' = turn + 1 /\ seenAtCut' = seen
      /\ turn <= ContinueMax /\ turn <= seenAtCut + 1 /\ turn # ContinueMax /\ ~(turn > 0 /\ seen <= seenAtCut)
      /\ ContinueMax \in Nat
  BY <1>3, RepliesAssumption DEF RepliesType, CutsEnd
<1> HIDE DEF seen
<1>5. turn' <= ContinueMax /\ turn' <= seenAtCut' + 1 /\ turn' \in Nat /\ seenAtCut' \in Nat
  BY <1>2, <1>4
<1>6. CutsEnd'
  BY <1>5 DEF CutsEnd
<1>7. RepliesType'
  BY <1>1, <1>3, <1>5 DEF RepliesType
<1>8. CASE topic = "main"
  <2>1. InMain'
    BY <1>1, <1>3, <1>8 DEF KeptSoFar, InMain, AskedRows
  <2> QED BY <1>6, <1>7, <1>8, <2>1 DEF RepliesInv, KeptSoFar
<1>9. CASE topic = "missing"
  <2>1. InMissing'
    <3>1. mains = Len(picked) /\ AskedFor(picked) /\ RowsIn(picked) \cap wanted = {}
      BY <1>3, <1>9 DEF KeptSoFar, InMissing
    <3>2. AskedFor(picked)'
      BY <3>1 DEF AskedFor
    <3>3. PICK first \in Seq(Sayings) : Matches(picked, first) /\ meant' = first \o Finished(reply', wanted)
      BY <1>1, <1>9 DEF AskedRows
    <3>4. Matches(picked', first) /\ meant' = first \o Finished(reply', wanted')
      BY <3>3
    <3> QED BY <3>1, <3>2, <3>4 DEF InMissing
  <2> QED BY <1>6, <1>7, <1>9, <2>1 DEF RepliesInv, KeptSoFar
<1> QED BY <1>8, <1>9 DEF Conversing

\* a step keeps the invariant
LEMMA RepliesInvStep ==
    ASSUME RepliesInv, [RepliesNext]_replyVars
    PROVE  RepliesInv'
<1>0. voice \in Voices /\ reply \in TalkForms
  BY DEF RepliesInv, RepliesType
<1>1. CASE Answers
  <2>1. PICK part \in Replied : IF Unreadable(reply \o part) THEN GivesUp("format")
                                ELSE Concludes(reply \o part) /\ Means(part)
    BY <1>1 DEF Answers
  <2>2. Conversing /\ UNCHANGED voice /\ Follows(part)
    BY <1>0, <1>1, RepliedForms DEF Answers
  <2>3. CASE Unreadable(reply \o part)
    BY <2>1, <2>2, <2>3, GivesUpStep
  <2>4. CASE ~Unreadable(reply \o part)
    <3>1. Concludes(reply \o part) /\ Means(part)
      BY <2>1, <2>4
    <3> QED BY <2>2, <3>1, ConcludesStep
  <2> QED BY <2>3, <2>4
<1>2. CASE CutShort
  <2>1. PICK part \in Cut :
           IF turn = ContinueMax \/ (turn > 0 /\ Len(Scanned(reply \o part)) <= seenAtCut) THEN GivesUp("none")
           ELSE /\ reply' = reply \o part /\ turn' = turn + 1 /\ seenAtCut' = Len(Scanned(reply \o part))
                /\ Means(part) /\ UNCHANGED <<topic, wanted, picked, mains>>
    BY <1>2 DEF CutShort
  <2>2. Conversing /\ UNCHANGED voice /\ Follows(part)
    BY <1>0, <1>2, CutForms DEF CutShort
  <2>3. CASE turn = ContinueMax \/ (turn > 0 /\ Len(Scanned(reply \o part)) <= seenAtCut)
    BY <2>1, <2>2, <2>3, GivesUpStep
  <2>4. CASE ~(turn = ContinueMax \/ (turn > 0 /\ Len(Scanned(reply \o part)) <= seenAtCut))
    BY <2>1, <2>2, <2>4, TalkGoesOnStep
  <2> QED BY <2>3, <2>4
<1>3. CASE Refused
  <2>1. Conversing /\ UNCHANGED voice
    BY <1>3 DEF Refused
  <2>2. CASE capped /\ ~bare
    <3>1. UNCHANGED <<voice, topic, wanted, reply, turn, seenAtCut, picked, mains, meant>>
      BY <1>3, <2>2 DEF Refused
    <3> QED BY <3>1 DEF RepliesInv, RepliesType, KeptSoFar, InMain, InMissing, InDone, AskedFor, CutsEnd, Conversing
  <2>3. CASE ~(capped /\ ~bare)
    <3>1. GivesUp("none")
      BY <1>3, <2>3 DEF Refused
    <3> QED BY <2>1, <3>1, GivesUpStep
  <2> QED BY <2>2, <2>3
<1>4. CASE BreaksOff
  BY <1>4, GivesUpStep DEF BreaksOff
<1>5. CASE UNCHANGED replyVars
  <2>1. UNCHANGED <<voice, topic, wanted, reply, turn, seenAtCut, picked, mains, meant>>
    BY <1>5 DEF replyVars, talkVars
  <2> QED BY <2>1 DEF RepliesInv, RepliesType, KeptSoFar, InMain, InMissing, InDone, AskedFor, CutsEnd, Conversing
<1> QED BY <1>1, <1>2, <1>3, <1>4, <1>5 DEF RepliesNext

\* a review begins in the invariant
LEMMA RepliesInitInv ==
    ASSUME RepliesInit
    PROVE  RepliesInv
<1>1. /\ voice \in Voices /\ topic = "main" /\ reply = <<>> /\ turn = 0 /\ seenAtCut = 0
      /\ picked = <<>> /\ mains = 0 /\ meant = <<>>
  BY DEF RepliesInit
<1>2. RepliesType
  BY <1>1, EmptyText DEF RepliesType
<1>3. KeptSoFar
  BY <1>1, EmptyText DEF KeptSoFar, InMain
<1>4. CutsEnd
  BY <1>1, RepliesAssumption DEF CutsEnd
<1> QED BY <1>2, <1>3, <1>4 DEF RepliesInv

\* in the invariant what was said is kept
LEMMA RepliesInvHeard ==
    ASSUME RepliesInv
    PROVE  RepliesAreHeard
<1>0. RepliesType /\ KeptSoFar /\ CutsEnd
  BY DEF RepliesInv
<1>1. SaidIsKept
  <2> SUFFICES ASSUME topic = "done"
               PROVE  /\ [i \in DOMAIN picked |-> picked[i].row] = [i \in DOMAIN meant |-> meant[i].row]
                      /\ \A i \in DOMAIN picked : picked[i].act \in {meant[i].act, "keep"} \cap ValidActs
    BY DEF SaidIsKept
  <2>1. Matches(picked, meant)
    BY <1>0 DEF KeptSoFar, InDone
  <2>2. DOMAIN picked = 1..Len(picked) /\ DOMAIN meant = 1..Len(meant)
    BY <1>0, SeqPlaces DEF RepliesType
  <2> QED BY <2>1, <2>2 DEF Matches
<1>2. \E main, more \in Seq(Sayings) :
          /\ picked = main \o more /\ mains = Len(main) /\ RowsIn(main) \cap RowsIn(more) = {}
          /\ topic = "done" => AskedFor(main)
  <2>0. topic \in {"main", "missing", "done", "failed"} /\ picked \in Seq(Sayings)
    BY <1>0 DEF RepliesType
  <2>1. CASE topic = "done"
    BY <1>0, <2>1 DEF KeptSoFar, InDone
  <2>2. CASE topic # "done"
    <3>1. mains = Len(picked)
      BY <1>0, <2>0, <2>2 DEF KeptSoFar, InMain, InMissing
    <3>2. picked = picked \o <<>> /\ <<>> \in Seq(Sayings) /\ RowsIn(<<>>) = {}
      BY <2>0, OneList
    <3> QED BY <2>0, <2>2, <3>1, <3>2
  <2> QED BY <2>1, <2>2
<1>3. PICK main \in Seq(Sayings), more \in Seq(Sayings) :
          /\ picked = main \o more /\ mains = Len(main) /\ RowsIn(main) \cap RowsIn(more) = {}
          /\ topic = "done" => AskedFor(main)
  BY <1>2
<1>4. SubSeq(picked, 1, mains) = main /\ SubSeq(picked, mains + 1, Len(picked)) = more
  <2>1. SubSeq(main \o more, 1, Len(main)) = main /\ SubSeq(main \o more, Len(main) + 1, Len(main \o more)) = more
    BY FrontAndBack
  <2> QED BY <1>3, <2>1, Zenon
<1>5. MainAnswerStands
  BY <1>0, <1>3, <1>4 DEF MainAnswerStands, KeptSoFar
<1>6. RowsAreAsked
  BY <1>3, <1>4 DEF RowsAreAsked, AskedFor
<1> QED BY <1>0, <1>1, <1>5, <1>6 DEF RepliesAreHeard

\* Of a batch of the review every finished decision on a row that was asked for is kept once and in
\* order, the first word stands, and cut answers come to an end, for every batch, voice and bound
\* (_chat_until_complete, _review_missing_rows, _scan_decision_items).
THEOREM RepliesHeard == RepliesSpec => []RepliesAreHeard
<1>1. RepliesInit => RepliesInv
  BY RepliesInitInv
<1>2. RepliesInv /\ [RepliesNext]_replyVars => RepliesInv'
  BY RepliesInvStep
<1>3. RepliesInv => RepliesAreHeard
  BY RepliesInvHeard
<1> QED BY <1>1, <1>2, <1>3, PTL DEF RepliesSpec

\* What a glossary hears: both, for any chunk and any batch.
THEOREM AnswersHeard == AnswersSpec => []AnswersAreHeard
<1>1. ChunkIsHeard /\ RepliesAreHeard => AnswersAreHeard
  BY DEF AnswersAreHeard
<1> QED BY <1>1, ChunkHeard, RepliesHeard, PTL DEF AnswersSpec

-----------------------------------------------------------------------------
(* Counting.                                                               *)

\* a finite set of numbers has a greatest
LEMMA FiniteGreatest ==
    ASSUME NEW T \in SUBSET Nat, IsFiniteSet(T), T # {}
    PROVE  \E m \in T : \A x \in T : x <= m
<1> DEFINE n == Cardinality(T)
<1>0. n \in Nat /\ ExistsBijection(1..n, T)
  BY FS_CardinalityType
<1> HIDE DEF n
<1>1. PICK f : f \in Bijection(1..n, T)
  BY <1>0 DEF ExistsBijection
<1>2. f \in [1..n -> T] /\ \A x \in T : \E i \in 1..n : f[i] = x
  BY <1>1 DEF Bijection, Surjection, Injection
<1> DEFINE S == {k \in 0..n : \E b \in Nat : \A i \in 1..k : f[i] < b}
<1>3. 0 \in S
  BY <1>0
<1>4. ASSUME NEW k \in 1..n, k - 1 \in S PROVE k \in S
  <2>1. PICK b \in Nat : \A i \in 1..(k - 1) : f[i] < b
    BY <1>4
  <2>2. f[k] \in Nat
    BY <1>0, <1>2
  <2> DEFINE c == IF f[k] < b THEN b ELSE f[k] + 1
  <2>3. \A i \in 1..k : f[i] < c
    <3> TAKE i \in 1..k
    <3>1. CASE i = k
      BY <2>2, <3>1
    <3>2. CASE i # k
      <4>0. i \in 1..(k - 1) /\ i \in 1..n
        BY <1>0, <3>2
      <4>1. i \in 1..(k - 1) /\ f[i] \in Nat
        BY <1>2, <4>0
      <4>2. f[i] < b
        BY <2>1, <4>1
      <4> QED BY <2>2, <4>1, <4>2
    <3> QED BY <3>1, <3>2
  <2>4. c \in Nat /\ k \in 0..n
    BY <1>0, <2>2
  <2> QED BY <2>3, <2>4
<1>5. n \in S
  <2> HIDE DEF S
  <2>1. \A k \in 0..n : k \in S
    BY <1>0, <1>3, <1>4, UpTo
  <2> QED BY <1>0, <2>1
<1>6. PICK b \in Nat : \A i \in 1..n : f[i] < b
  BY <1>5
<1>7. \A x \in T : x < b
  BY <1>2, <1>6
<1> QED BY <1>7, GreatestNat

\* as many places are picked as there are
LEMMA CountInOrder ==
    ASSUME NEW P, NEW n \in Nat
    PROVE  /\ IsFiniteSet(P \cap (1..n)) /\ Len(InOrder(P, n)) = Cardinality(P \cap (1..n))
           /\ Cardinality(P \cap (1..n)) \in Nat
<1> DEFINE s == InOrder(P, n)
           Q == P \cap (1..n)
<1>1. s \in Seq(1..n) /\ Ascends(s) /\ ToSet(s) = Q
  BY InOrderFacts
<1>2. DOMAIN s = 1..Len(s) /\ Len(s) \in Nat
  BY <1>1
<1> HIDE DEF s
<1>3. s \in [1..Len(s) -> Q] /\ \A x \in Q : \E i \in 1..Len(s) : s[i] = x
  <2>1. \A i \in 1..Len(s) : s[i] \in Q
    BY <1>1, <1>2 DEF ToSet
  <2>2. \A x \in Q : \E i \in 1..Len(s) : s[i] = x
    BY <1>1, <1>2 DEF ToSet
  <2>3. s = [i \in 1..Len(s) |-> s[i]]
    BY <1>1
  <2> HIDE DEF Q
  <2> QED BY <2>1, <2>2, <2>3
<1>4. \A i, j \in 1..Len(s) : s[i] = s[j] => i = j
  <2> SUFFICES ASSUME NEW i \in 1..Len(s), NEW j \in 1..Len(s), i < j PROVE s[i] # s[j]
    OBVIOUS
  <2>1. s[i] < s[j] /\ s[i] \in Nat /\ s[j] \in Nat
    BY <1>1, <1>2 DEF Ascends
  <2> QED BY <2>1
<1>5. s \in Bijection(1..Len(s), Q)
  <2> HIDE DEF Q
  <2> QED BY <1>3, <1>4 DEF Bijection, Injection, Surjection, IsInjective
<1>6. ExistsBijection(1..Len(s), Q)
  <2> HIDE DEF Q
  <2> QED BY <1>5 DEF ExistsBijection
<1>8. IsFiniteSet(Q)
  <2>1. IsFiniteSet(1..n)
    BY FS_Interval
  <2> QED BY <2>1, FS_Subset
<1>9. Cardinality(Q) = Len(s)
  <2> HIDE DEF Q
  <2> QED BY <1>2, <1>6, <1>8, FS_CountingElements
<1> QED BY <1>2, <1>8, <1>9 DEF s

-----------------------------------------------------------------------------
(* Votes, spellings and the order of the terms.                            *)

LEMMA PlaceFacts ==
    ASSUME NEW order, order = [i \in 1..Len(order) |-> order[i]], Len(order) \in Nat, NEW v \in ToSet(order)
    PROVE  PositionOf(v, order) \in 1..Len(order) /\ order[PositionOf(v, order)] = v
<1>1. \E i \in DOMAIN order : order[i] = v
  BY DEF ToSet
<1> QED BY <1>1 DEF PositionOf

\* a vote goes to one of the values that are not empty, if there is one
LEMMA VoteFacts ==
    ASSUME NEW S, NEW order \in Seq(S), NEW values \in Seq(ToSet(order) \cup {<<>>})
    PROVE  IF ToSet(values) \ {<<>>} = {} THEN Vote(values, order) = <<>>
           ELSE Vote(values, order) \in ToSet(values) \ {<<>>}
<1> DEFINE Count(v) == Cardinality({i \in DOMAIN values : values[i] = v})
           given == ToSet(values) \ {<<>>}
           most == {v \in given : \A o \in given : Count(o) <= Count(v)}
<1>1. DOMAIN values = 1..Len(values) /\ Len(values) \in Nat /\ given \subseteq ToSet(order)
  BY DEF ToSet
<1>2. \A v \in given : Count(v) \in Nat /\ Count(v) < Len(values) + 1
  <2> TAKE v \in given
  <2>1. {i \in DOMAIN values : values[i] = v} \subseteq 1..Len(values)
    BY <1>1
  <2>2. IsFiniteSet(1..Len(values)) /\ Cardinality(1..Len(values)) <= Len(values)
    <3>0. 1 \in Int /\ Len(values) \in Int
      BY <1>1
    <3>1. IsFiniteSet(1..Len(values)) /\ Cardinality(1..Len(values)) = IF 1 > Len(values) THEN 0 ELSE Len(values) - 1 + 1
      BY <3>0, FS_Interval
    <3> QED BY <1>1, <3>1
  <2>3. IsFiniteSet({i \in DOMAIN values : values[i] = v}) /\ Count(v) <= Cardinality(1..Len(values))
    BY <2>1, <2>2, FS_Subset
  <2>4. Count(v) \in Nat /\ Cardinality(1..Len(values)) \in Nat
    BY <2>2, <2>3, FS_CardinalityType
  <2> HIDE DEF Count
  <2> QED BY <1>1, <2>2, <2>3, <2>4
<1>3. CASE given = {}
  BY <1>3 DEF Vote
<1>4. CASE given # {}
  <2> DEFINE T == {Count(v) : v \in given}
  <2>1. PICK m \in T : \A x \in T : x <= m
    <3>1. T \in SUBSET Nat /\ T # {} /\ \A x \in T : x < Len(values) + 1
      BY <1>2, <1>4
    <3>2. Len(values) + 1 \in Nat
      BY <1>1
    <3> HIDE DEF T
    <3> QED BY <3>1, <3>2, GreatestNat
  <2>2. most # {}
    <3> HIDE DEF Count
    <3> QED BY <2>1
  <2> DEFINE P == {PositionOf(v, order) : v \in most}
  <2>3. \A v \in most : PositionOf(v, order) \in Nat
    <3> TAKE v \in most
    <3>1. v \in ToSet(order) /\ order = [i \in 1..Len(order) |-> order[i]] /\ Len(order) \in Nat
      <4> HIDE DEF given
      <4> QED BY <1>1
    <3>2. PositionOf(v, order) \in 1..Len(order)
      BY <3>1, PlaceFacts
    <3> QED BY <3>1, <3>2
  <2>4. PICK n \in P : \A x \in P : n <= x
    <3>1. P \in SUBSET Nat /\ P # {}
      <4> HIDE DEF most
      <4> QED BY <2>2, <2>3
    <3> HIDE DEF P
    <3> QED BY <3>1, LeastNat
  <2>5. \E v \in most : \A o \in most : PositionOf(v, order) <= PositionOf(o, order)
    <3> HIDE DEF most
    <3> QED BY <2>4
  <2>6. Vote(values, order) = CHOOSE v \in most : \A o \in most : PositionOf(v, order) <= PositionOf(o, order)
    BY <1>4 DEF Vote
  <2>7. Vote(values, order) \in most
    <3> HIDE DEF most
    <3> QED BY <2>5, <2>6
  <2> QED BY <1>4, <2>7
<1> QED BY <1>3, <1>4

CandForm == [src : ToSet(Srcs) \ {<<>>}, dst : ToSet(Dsts) \ {<<>>}, info : ToSet(Infos) \cup {<<>>}, votes : Nat]
Wanted(terms) == {t \in ToSet(terms) : Usable(t)}

LEMMA CleanedFacts ==
    ASSUME NEW terms \in Seq(TermForm)
    PROVE  Cleaned(terms) \in Seq(TermForm) /\ ToSet(Cleaned(terms)) = Wanted(terms)
<1> DEFINE P == {i \in DOMAIN terms : Usable(terms[i])}
<1>1. /\ Picked(terms, P) \in Seq(TermForm)
      /\ ToSet(Picked(terms, P)) = {terms[i] : i \in P \cap (1..Len(terms))}
  <2> HIDE DEF P
  <2> QED BY PickedFacts
<1>2. DOMAIN terms = 1..Len(terms)
  OBVIOUS
<1>3. {terms[i] : i \in P \cap (1..Len(terms))} = Wanted(terms)
  BY <1>2 DEF Wanted, ToSet
<1> QED BY <1>1, <1>3 DEF Cleaned

\* what a group of spellings votes for was said by one of the group
LEMMA VotedFacts ==
    ASSUME NEW clean \in Seq(TermForm), \A t \in ToSet(clean) : Usable(t),
           NEW key, \E t \in ToSet(clean) : Fold[t.src] = key, NEW a, a = Voted(Spelled(clean, key))
    PROVE  /\ a \in CandForm
           /\ \E t \in ToSet(clean) : Fold[t.src] = key /\ t.src = a.src
           /\ \E t \in ToSet(clean) : Fold[t.src] = key /\ t.dst = a.dst
<1> DEFINE P == {i \in DOMAIN clean : Fold[clean[i].src] = key}
           g == Spelled(clean, key)
<1>1. g \in Seq(TermForm) /\ ToSet(g) = {clean[i] : i \in P \cap (1..Len(clean))}
  <2> HIDE DEF P
  <2>1. /\ Picked(clean, P) \in Seq(TermForm)
        /\ ToSet(Picked(clean, P)) = {clean[i] : i \in P \cap (1..Len(clean))}
    BY PickedFacts
  <2>2. g = Picked(clean, P)
    BY DEF Spelled, P
  <2> QED BY <2>1, <2>2
<1>2. ToSet(g) = {t \in ToSet(clean) : Fold[t.src] = key}
  <2>1. DOMAIN clean = 1..Len(clean)
    OBVIOUS
  <2> HIDE DEF g
  <2> QED BY <1>1, <2>1 DEF ToSet
<1> HIDE DEF g, P
<1>3. /\ DOMAIN g = 1..Len(g) /\ Len(g) \in Nat /\ \A i \in 1..Len(g) : g[i] \in TermForm
      /\ \A t \in ToSet(g) : \E i \in 1..Len(g) : g[i] = t
      /\ \A i \in 1..Len(g) : g[i] \in ToSet(g) /\ Usable(g[i])
  <2>1. /\ DOMAIN g = 1..Len(g) /\ Len(g) \in Nat /\ \A i \in 1..Len(g) : g[i] \in TermForm
    BY <1>1, SeqPlaces
  <2>2. \A t \in ToSet(g) : \E i \in 1..Len(g) : g[i] = t
    BY <2>1 DEF ToSet
  <2>3. \A i \in 1..Len(g) : g[i] \in ToSet(g)
    BY <2>1 DEF ToSet
  <2> QED BY <1>2, <2>1, <2>2, <2>3
<1>4. ToSet(g) # {}
  BY <1>2
<1>5. /\ Srcs \in Seq(Seq(STRING)) /\ Dsts \in Seq(Seq(STRING)) /\ Infos \in Seq(Seq(STRING))
  <2>1. Srcs \in Seq(Seq(STRING \ {Mask}))
    BY GlossaryAssumption
  <2>2. Seq(STRING \ {Mask}) \subseteq Seq(STRING)
    OBVIOUS
  <2>3. Srcs \in Seq(Seq(STRING))
    BY <2>1, <2>2
  <2> QED BY <2>3, GlossaryAssumption
<1> DEFINE srcs == [i \in DOMAIN g |-> g[i].src]
           dsts == [i \in DOMAIN g |-> g[i].dst]
           infos == [i \in DOMAIN g |-> g[i].info]
<1>6. Vote(srcs, Srcs) \in ToSet(srcs) \ {<<>>}
  <2>1. srcs \in Seq(ToSet(Srcs) \cup {<<>>})
    BY <1>3 DEF TermForm
  <2>2. ToSet(srcs) = {g[i].src : i \in 1..Len(g)}
    BY <1>3 DEF ToSet
  <2>3. ToSet(srcs) \ {<<>>} # {}
    <3>1. PICK i \in 1..Len(g) : Usable(g[i])
      BY <1>3, <1>4
    <3>2. g[i].src \in ToSet(srcs) /\ g[i].src # <<>>
      <4> HIDE DEF srcs
      <4> QED BY <2>2, <3>1 DEF Usable
    <3> QED BY <3>2
  <2> HIDE DEF srcs
  <2> QED BY <1>5, <2>1, <2>3, VoteFacts
<1>7. Vote(dsts, Dsts) \in ToSet(dsts) \ {<<>>}
  <2>1. dsts \in Seq(ToSet(Dsts) \cup {<<>>})
    BY <1>3 DEF TermForm
  <2>2. ToSet(dsts) = {g[i].dst : i \in 1..Len(g)}
    BY <1>3 DEF ToSet
  <2>3. ToSet(dsts) \ {<<>>} # {}
    <3>1. PICK i \in 1..Len(g) : Usable(g[i])
      BY <1>3, <1>4
    <3>2. g[i].dst \in ToSet(dsts) /\ g[i].dst # <<>>
      <4> HIDE DEF dsts
      <4> QED BY <2>2, <3>1 DEF Usable
    <3> QED BY <3>2
  <2> HIDE DEF dsts
  <2> QED BY <1>5, <2>1, <2>3, VoteFacts
<1>8. Vote(infos, Infos) \in ToSet(Infos) \cup {<<>>}
  <2>1. infos \in Seq(ToSet(Infos) \cup {<<>>})
    BY <1>3 DEF TermForm
  <2>2. ToSet(infos) \subseteq ToSet(Infos) \cup {<<>>}
    <3> HIDE DEF infos
    <3> QED BY <2>1, SeqToSet
  <2> HIDE DEF infos
  <2>3. IF ToSet(infos) \ {<<>>} = {} THEN Vote(infos, Infos) = <<>> ELSE Vote(infos, Infos) \in ToSet(infos) \ {<<>>}
    BY <1>5, <2>1, VoteFacts
  <2> QED BY <2>2, <2>3
<1>9. a = [src |-> Vote(srcs, Srcs), dst |-> Vote(dsts, Dsts), info |-> Vote(infos, Infos), votes |-> Len(g)]
  BY DEF Voted, g
<1>10. ToSet(srcs) = {t.src : t \in ToSet(g)} /\ ToSet(dsts) = {t.dst : t \in ToSet(g)}
  BY <1>3 DEF ToSet
<1>11. ToSet(srcs) \subseteq ToSet(Srcs) \cup {<<>>} /\ ToSet(dsts) \subseteq ToSet(Dsts) \cup {<<>>}
  BY <1>3 DEF ToSet, TermForm
<1>12. a \in CandForm /\ a.src \in ToSet(srcs) /\ a.dst \in ToSet(dsts)
  <2> HIDE DEF srcs, dsts, infos
  <2> QED BY <1>3, <1>6, <1>7, <1>8, <1>9, <1>11 DEF CandForm
<1> HIDE DEF srcs, dsts, infos
<1> QED BY <1>2, <1>10, <1>12

\* the terms of a book: one for each spelling that was found
IsNormal(T, found) ==
    /\ T \subseteq CandForm /\ IsFiniteSet(T)
    /\ \A a \in T : a.src \in {t.src : t \in found} /\ \E t \in found : Fold[t.src] = Fold[a.src] /\ t.dst = a.dst
    /\ \A a, b \in T : Fold[a.src] = Fold[b.src] => a = b
    /\ \A t \in found : \E a \in T : Fold[a.src] = Fold[t.src]
LEMMA NormalizedFacts ==
    ASSUME NEW terms \in Seq(TermForm)
    PROVE  IsNormal(Normalized(terms), Wanted(terms))
<1> DEFINE clean == Cleaned(terms)
           K == {Fold[t.src] : t \in ToSet(clean)}
           V(key) == Voted(Spelled(clean, key))
           T == Normalized(terms)
<1>1. clean \in Seq(TermForm) /\ ToSet(clean) = Wanted(terms) /\ \A t \in ToSet(clean) : Usable(t)
  BY CleanedFacts DEF Wanted
<1>2. T = {V(key) : key \in K}
  BY DEF Normalized
<1>3. \A key \in K : \E t \in ToSet(clean) : Fold[t.src] = key
  OBVIOUS
<1> HIDE DEF clean
<1>4. \A key \in K : /\ V(key) \in CandForm
                     /\ \E t \in ToSet(clean) : Fold[t.src] = key /\ t.src = V(key).src
                     /\ \E t \in ToSet(clean) : Fold[t.src] = key /\ t.dst = V(key).dst
  BY <1>1, <1>3, VotedFacts
<1>5. IsFiniteSet(T)
  <2> DEFINE f == [i \in 1..Len(clean) |-> V(Fold[clean[i].src])]
  <2>1. IsFiniteSet(1..Len(clean))
    <3>1. 1 \in Int /\ Len(clean) \in Int
      BY <1>1
    <3> QED BY <3>1, FS_Interval
  <2>2. {f[i] : i \in 1..Len(clean)} = T
    <3>1. ToSet(clean) = {clean[i] : i \in 1..Len(clean)}
      BY <1>1, SeqToSet
    <3> HIDE DEF T, V
    <3> QED BY <1>2, <3>1
  <2>3. f \in [1..Len(clean) -> T] /\ \A x \in T : \E i \in 1..Len(clean) : f[i] = x
    <3> DEFINE F == {f[i] : i \in 1..Len(clean)}
    <3>1. F = T
      BY <2>2
    <3>2. f = [i \in 1..Len(clean) |-> f[i]]
      OBVIOUS
    <3> HIDE DEF f, T
    <3> QED BY <3>1, <3>2
  <2> HIDE DEF f, T
  <2> QED BY <2>1, <2>3, FS_Surjection DEF Surjection
<1> HIDE DEF V, T
<1>6. T \subseteq CandForm
  BY <1>2, <1>4
<1> DEFINE found == Wanted(terms)
<1>7. \A key \in K : Fold[V(key).src] = key
  BY <1>4
<1>8. \A a \in T : a.src \in {t.src : t \in found} /\ \E t \in found : Fold[t.src] = Fold[a.src] /\ t.dst = a.dst
  BY <1>1, <1>2, <1>4, <1>7
<1>9. \A a, b \in T : Fold[a.src] = Fold[b.src] => a = b
  <2> HIDE DEF K
  <2> QED BY <1>2, <1>7
<1>10. \A t \in found : \E a \in T : Fold[a.src] = Fold[t.src]
  BY <1>1, <1>2, <1>7
<1> QED BY <1>5, <1>6, <1>8, <1>9, <1>10 DEF IsNormal, T

-----------------------------------------------------------------------------
(* Masking.                                                                *)

Letter == STRING \cup {Mask}
\* an occurrence that is masked from its first letter to its last
IsMasked(line, new, q, src) ==
    q \in 1..Len(line) /\ MatchesAt(line, q, src) /\ \A k \in Span(q, src) : k \in 1..Len(line) /\ new[k] = Mask
Overlap(q, y, p, x) == Span(q, y) \cap Span(p, x) # {}

LEMMA MaskedToIs ==
    ASSUME NEW line \in Seq(Letter), NEW src \in Seq(Letter), NEW up, up = MaskedTo(line, src)
    PROVE  /\ up[0] = 0 /\ \A i \in 0..Len(line) : up[i] \in Nat
           /\ \A i \in 1..Len(line) : up[i] = IF i > up[i - 1] /\ MatchesAt(line, i, src) THEN i + Len(src) - 1 ELSE up[i - 1]
<1> DEFINE n == Len(line)
           next(i, u) == IF i > u /\ MatchesAt(line, i, src) THEN i + Len(src) - 1 ELSE u
           V == [i \in 0..n |-> Nat]
           upto[i \in 0..Len(line)] ==
               IF i = 0 THEN 0 ELSE IF i > upto[i - 1] /\ MatchesAt(line, i, src) THEN i + Len(src) - 1 ELSE upto[i - 1]
<1>0. n \in Nat /\ Len(src) \in Nat
  OBVIOUS
<1>1. \A i \in 1..n : \A u \in Nat : next(i, u) \in Nat
  BY <1>0
<1>2. upto = [i \in 0..Len(line) |-> IF i = 0 THEN 0 ELSE IF i > upto[i - 1] /\ MatchesAt(line, i, src)
                                                         THEN i + Len(src) - 1 ELSE upto[i - 1]]
  <2> DEFINE G == [k \in 1..n |-> [u \in Nat |-> next(k, u)]]
  <2>1. \A k \in 1..n : \A u \in Nat : G[k][u] = next(k, u)
    OBVIOUS
  <2>2. \A k \in 0..n : V[k] = Nat
    OBVIOUS
  <2>3. \A k \in 1..n : k \in 0..n /\ k - 1 \in 0..n
    BY <1>0
  <2>4. PICK f : f[0] = 0 /\ \A k \in 1..n : f[k] \in V[k] /\ f[k] = G[k][f[k - 1]]
    <3> HIDE DEF V, G, next
    <3>1. 0 \in V[0]
      BY <1>0, <2>2
    <3>4. \A k \in 1..n : V[k - 1] = Nat /\ V[k] = Nat
      BY <2>2, <2>3
    <3>5. ASSUME NEW k \in 1..n, NEW v \in V[k - 1] PROVE G[k][v] \in V[k]
      <4>1. v \in Nat /\ V[k] = Nat
        BY <3>4
      <4>2. G[k][v] = next(k, v) /\ next(k, v) \in Nat
        BY <1>1, <2>1, <4>1, ZenonT(40)
      <4> QED BY ONLY <4>1, <4>2
    <3>2. StepsWithin(n, V, 0, G)
      BY <3>1, <3>5 DEF StepsWithin
    <3>3. HasRun(n, V, 0, G)
      BY <1>0, <3>2, Recursion
    <3> QED BY <3>3 DEF HasRun
  <2> DEFINE g == [k \in 0..n |-> f[k]]
  <2>5. \A k \in 0..n : g[k] = IF k = 0 THEN 0 ELSE next(k, g[k - 1])
    <3> TAKE k \in 0..n
    <3>1. CASE k = 0
      BY <2>4, <3>1
    <3>2. CASE k # 0
      <4>1. k \in 1..n /\ k - 1 \in 0..n /\ (k - 1 # 0 => k - 1 \in 1..n)
        BY <1>0, <3>2
      <4>2. f[k - 1] \in Nat
        <5> HIDE DEF V, G
        <5> QED BY <2>2, <2>4, <4>1
      <4>3. f[k] = next(k, f[k - 1])
        <5> HIDE DEF V, G, next
        <5> QED BY <2>1, <2>4, <4>1, <4>2
      <4> HIDE DEF next
      <4> QED BY <3>2, <4>1, <4>3
    <3> QED BY <3>1, <3>2
  <2>6. g = [i \in 0..Len(line) |-> IF i = 0 THEN 0 ELSE IF i > g[i - 1] /\ MatchesAt(line, i, src)
                                                         THEN i + Len(src) - 1 ELSE g[i - 1]]
    <3>1. g = [i \in 0..Len(line) |-> g[i]]
      OBVIOUS
    <3> HIDE DEF g
    <3> QED BY <2>5, <3>1
  <2> QED BY <2>6 DEF upto
<1>3. up = upto
  BY DEF MaskedTo, upto
<1> HIDE DEF upto
<1>4. up[0] = 0 /\ \A i \in 1..n : up[i] = next(i, up[i - 1])
  <2>1. \A i \in 0..n : up[i] = IF i = 0 THEN 0 ELSE next(i, up[i - 1])
    BY <1>2, <1>3
  <2> HIDE DEF next
  <2> QED BY <1>0, <2>1
<1>5. \A i \in 0..n : up[i] \in Nat
  <2> DEFINE T == {i \in 0..n : up[i] \in Nat}
  <2>1. 0 \in T
    BY <1>0, <1>4
  <2>2. ASSUME NEW k \in 1..n, k - 1 \in T PROVE k \in T
    <3> HIDE DEF next
    <3>1. up[k - 1] \in Nat /\ up[k] = next(k, up[k - 1]) /\ k \in 0..n
      BY <1>0, <1>4, <2>2
    <3> QED BY <1>1, <3>1
  <2>3. \A k \in 0..n : k \in T
    <3> HIDE DEF T
    <3> QED BY <1>0, <2>1, <2>2, UpTo
  <2> QED BY <2>3
<1> QED BY <1>4, <1>5

LEMMA MaskFacts ==
    ASSUME NEW line \in Seq(Letter), NEW src \in Seq(Letter), src # <<>>, NEW new, new = Masked(line, src)
    PROVE  /\ new \in Seq(Letter) /\ Len(new) = Len(line)
           /\ \A k \in 1..Len(line) : /\ new[k] \in {line[k], Mask}
                                      /\ new[k] # line[k] => \E q : IsMasked(line, new, q, src) /\ k \in Span(q, src)
           /\ \A p \in 1..Len(line) : MatchesAt(line, p, src) =>
                  \E q : IsMasked(line, new, q, src) /\ Overlap(q, src, p, src)
<1> DEFINE n == Len(line)
           l == Len(src)
           up == MaskedTo(line, src)
           Begun(q) == q \in 1..n /\ q > up[q - 1] /\ MatchesAt(line, q, src)
<1>0. n \in Nat /\ l \in Nat /\ l >= 1 /\ DOMAIN line = 1..n
  OBVIOUS
<1>1. up[0] = 0 /\ \A i \in 0..n : up[i] \in Nat
  BY MaskedToIs
<1>2. \A i \in 1..n : up[i] = IF i > up[i - 1] /\ MatchesAt(line, i, src) THEN i + l - 1 ELSE up[i - 1]
  BY MaskedToIs
<1>3. new = [k \in 1..n |-> IF k <= up[k] THEN Mask ELSE line[k]]
  BY <1>0 DEF Masked
<1>4. Mask \in Letter /\ \A k \in 1..n : line[k] \in Letter
  BY <1>0 DEF Letter
<1>5. new \in Seq(Letter) /\ Len(new) = n
  <2>1. \A k \in 1..n : (IF k <= up[k] THEN Mask ELSE line[k]) \in Letter
    BY <1>4
  <2> HIDE DEF up
  <2> QED BY <1>0, <1>3, <2>1
<1>6. \A k \in 1..n : new[k] = IF k <= up[k] THEN Mask ELSE line[k]
  BY <1>3
<1> HIDE DEF up
<1>7. ASSUME NEW q, Begun(q) PROVE \A k \in Span(q, src) : k \in 1..n /\ up[k] = q + l - 1
  <2>0. q \in 1..n /\ q + l - 1 <= n
    BY <1>7 DEF MatchesAt
  <2> DEFINE T == {k \in 0..n : k \in Span(q, src) => up[k] = q + l - 1}
  <2>1. 0 \in T
    BY <1>0, <2>0 DEF Span
  <2>2. ASSUME NEW k \in 1..n, k - 1 \in T PROVE k \in T
    <3> SUFFICES ASSUME k \in Span(q, src) PROVE up[k] = q + l - 1
      OBVIOUS
    <3>1. CASE k = q
      BY <1>2, <1>7, <3>1
    <3>2. CASE k # q
      <4>1. k - 1 \in Span(q, src) /\ k \in 0..n /\ k - 1 \in 0..n /\ k <= q + l - 1
        BY <1>0, <2>0, <3>2 DEF Span
      <4>2. up[k - 1] = q + l - 1
        BY <2>2, <4>1
      <4> QED BY <1>0, <1>2, <2>0, <4>1, <4>2
    <3> QED BY <3>1, <3>2
  <2>3. \A k \in 0..n : k \in T
    <3> HIDE DEF T
    <3> QED BY <1>0, <2>1, <2>2, UpTo
  <2> QED BY <1>0, <2>0, <2>3 DEF Span
<1>8. \A i \in 0..n : up[i] = 0 \/ \E q \in 1..i : Begun(q) /\ up[i] = q + l - 1
  <2> DEFINE T == {i \in 0..n : up[i] = 0 \/ \E q \in 1..i : Begun(q) /\ up[i] = q + l - 1}
  <2> HIDE DEF Begun
  <2>1. 0 \in T
    BY <1>0, <1>1
  <2>2. ASSUME NEW k \in 1..n, k - 1 \in T PROVE k \in T
    <3>1. CASE k > up[k - 1] /\ MatchesAt(line, k, src)
      <4>1. up[k] = k + l - 1 /\ Begun(k) /\ k \in 1..k
        BY <1>2, <3>1 DEF Begun
      <4> QED BY <4>1
    <3>2. CASE ~(k > up[k - 1] /\ MatchesAt(line, k, src))
      <4>1. up[k] = up[k - 1]
        BY <1>2, <3>2
      <4>2. up[k - 1] = 0 \/ \E q \in 1..(k - 1) : Begun(q) /\ up[k - 1] = q + l - 1
        BY <2>2
      <4>3. \A q \in 1..(k - 1) : q \in 1..k
        OBVIOUS
      <4>4. up[k] = 0 \/ \E q \in 1..k : Begun(q) /\ up[k] = q + l - 1
        BY <4>1, <4>2, <4>3
      <4> QED BY <4>4
    <3> QED BY <3>1, <3>2
  <2>3. \A k \in 0..n : k \in T
    <3> HIDE DEF T
    <3> QED BY <1>0, <2>1, <2>2, UpTo
  <2> QED BY <2>3
<1>9. ASSUME NEW q, Begun(q) PROVE IsMasked(line, new, q, src)
  <2>1. q \in 1..n /\ MatchesAt(line, q, src)
    BY <1>9
  <2>2. \A k \in Span(q, src) : k \in 1..n /\ up[k] = q + l - 1 /\ k <= q + l - 1
    <3> HIDE DEF Begun
    <3> QED BY <1>0, <1>7, <1>9, <2>1 DEF Span
  <2>3. \A k \in Span(q, src) : k \in 1..n /\ new[k] = Mask
    BY <1>6, <2>2
  <2> QED BY <2>1, <2>3 DEF IsMasked
<1>10. ASSUME NEW k \in 1..n, k <= up[k] PROVE \E q : IsMasked(line, new, q, src) /\ k \in Span(q, src)
  <2> HIDE DEF Begun
  <2>1. k \in 0..n /\ up[k] # 0 /\ up[k] \in Nat
    BY <1>1, <1>10
  <2>2. PICK q \in 1..k : Begun(q) /\ up[k] = q + l - 1
    BY <1>8, <2>1
  <2>3. k \in Span(q, src)
    BY <1>0, <1>10, <2>2 DEF Span
  <2> QED BY <1>9, <2>2, <2>3
<1>11. ASSUME NEW p \in 1..n, MatchesAt(line, p, src)
       PROVE  \E q : IsMasked(line, new, q, src) /\ Overlap(q, src, p, src)
  <2>0. p \in Span(p, src) /\ p - 1 \in 0..n
    BY <1>0 DEF Span
  <2>1. CASE p > up[p - 1]
    <3>1. Begun(p)
      BY <1>11, <2>1
    <3> HIDE DEF Begun
    <3> QED BY <1>9, <2>0, <3>1 DEF Overlap
  <2>2. CASE ~(p > up[p - 1])
    <3> HIDE DEF Begun
    <3>1. up[p - 1] \in Nat /\ up[p - 1] >= p /\ up[p - 1] # 0
      BY <1>1, <2>0, <2>2
    <3>2. PICK q \in 1..(p - 1) : Begun(q) /\ up[p - 1] = q + l - 1
      BY <1>8, <2>0, <3>1
    <3>3. p \in Span(q, src)
      BY <1>0, <3>1, <3>2 DEF Span
    <3> QED BY <1>9, <2>0, <3>2, <3>3 DEF Overlap
  <2> QED BY <2>1, <2>2
<1>12. \A k \in 1..n : new[k] \in {line[k], Mask} /\ (new[k] # line[k] => k <= up[k])
  BY <1>6
<1> QED BY <1>5, <1>10, <1>11, <1>12

Longest(a, left) == a \in left /\ \A b \in left : Len(a.src) >= Len(b.src)
AreApart(T) == \A a, b \in T : a.src = b.src => a = b

LEMMA FormOfSrc == \A a \in CandForm : /\ a.src \in Seq(STRING \ {Mask}) /\ a.src \in Seq(Letter) /\ a.src # <<>>
                                       /\ Len(a.src) \in Nat /\ Len(a.src) >= 1 /\ a.votes \in Nat /\ a.src \in ToSet(Srcs)
                                       /\ \A d \in 1..Len(a.src) : a.src[d] # Mask
<1>1. Srcs \in Seq(Seq(STRING \ {Mask}))
  BY GlossaryAssumption
<1>2. ToSet(Srcs) \subseteq Seq(STRING \ {Mask})
  BY <1>1, SeqToSet
<1>3. Seq(STRING \ {Mask}) \subseteq Seq(Letter)
  BY DEF Letter
<1> TAKE a \in CandForm
<1>4. a.src \in ToSet(Srcs) \ {<<>>} /\ a.votes \in Nat
  BY DEF CandForm
<1>5. a.src \in Seq(STRING \ {Mask}) /\ a.src \in Seq(Letter)
  BY <1>2, <1>3, <1>4
<1>6. Len(a.src) \in Nat /\ Len(a.src) >= 1
  BY <1>4, <1>5
<1>7. \A d \in 1..Len(a.src) : a.src[d] \in STRING \ {Mask}
  BY <1>5
<1> QED BY <1>4, <1>5, <1>6, <1>7

\* of finitely many terms one is the first, and it is one of the longest
LEMMA FirstFacts ==
    ASSUME NEW T \in SUBSET CandForm, IsFiniteSet(T), T # {}, AreApart(T)
    PROVE  Longest(FirstOf(T), T)
<1>1. PICK m \in T : \A b \in T : Len(m.src) >= Len(b.src)
  <2> DEFINE N == {Len(a.src) : a \in T}
  <2>1. N \in SUBSET Nat /\ N # {}
    BY FormOfSrc
  <2>2. IsFiniteSet(N)
    <3> DEFINE f == [a \in T |-> Len(a.src)]
    <3>1. f \in Surjection(T, N)
      BY DEF Surjection
    <3> HIDE DEF f, N
    <3> QED BY <3>1, FS_Surjection
  <2>3. PICK n \in N : \A x \in N : x <= n
    <3> HIDE DEF N
    <3> QED BY <2>1, <2>2, FiniteGreatest
  <2>4. PICK m \in T : Len(m.src) = n
    OBVIOUS
  <2>5. \A b \in T : Len(b.src) <= n
    BY <2>3
  <2>6. \A b \in T : Len(b.src) \in Nat
    BY FormOfSrc
  <2> QED BY <2>4, <2>5, <2>6
<1> DEFINE A == {a \in T : Len(a.src) = Len(m.src)}
<1>2. PICK v \in A : \A b \in A : v.votes >= b.votes
  <2> DEFINE N == {a.votes : a \in A}
  <2>1. N \in SUBSET Nat /\ N # {}
    BY FormOfSrc
  <2>2. IsFiniteSet(N)
    <3> DEFINE f == [a \in A |-> a.votes]
    <3>1. f \in Surjection(A, N)
      BY DEF Surjection
    <3>2. IsFiniteSet(A)
      BY FS_Subset
    <3> HIDE DEF f, N, A
    <3> QED BY <3>1, <3>2, FS_Surjection
  <2>3. PICK n \in N : \A x \in N : x <= n
    <3> HIDE DEF N
    <3> QED BY <2>1, <2>2, FiniteGreatest
  <2>4. PICK a \in A : a.votes = n
    OBVIOUS
  <2>5. \A b \in A : b.votes <= n /\ b.votes \in Nat
    BY <2>3, FormOfSrc
  <2> QED BY <2>4, <2>5
<1> DEFINE B == {a \in A : a.votes = v.votes}
           At(a) == PositionOf(a.src, Srcs)
<1>3. \A a \in T : At(a) \in Nat /\ Srcs[At(a)] = a.src
  <2> TAKE a \in T
  <2>1. a.src \in ToSet(Srcs)
    BY FormOfSrc
  <2>2. Srcs = [i \in 1..Len(Srcs) |-> Srcs[i]] /\ Len(Srcs) \in Nat
    BY GlossaryAssumption
  <2> QED BY <2>1, <2>2, PlaceFacts
<1>4. PICK w \in B : \A b \in B : At(w) <= At(b)
  <2> DEFINE N == {At(a) : a \in B}
  <2> HIDE DEF At
  <2>1. N \in SUBSET Nat /\ N # {}
    BY <1>3
  <2>2. PICK n \in N : \A x \in N : n <= x
    <3> HIDE DEF N
    <3> QED BY <2>1, LeastNat
  <2> QED BY <2>2
<1>5. \A b \in T \ {w} : Before(w, b)
  <2> TAKE b \in T \ {w}
  <2>0. /\ Len(w.src) = Len(m.src) /\ w.votes = v.votes /\ w \in T /\ Len(b.src) \in Nat /\ Len(m.src) \in Nat
        /\ b.votes \in Nat /\ v.votes \in Nat /\ Len(b.src) <= Len(m.src)
    BY <1>1, FormOfSrc
  <2>1. CASE Len(b.src) # Len(m.src)
    BY <2>0, <2>1 DEF Before
  <2>2. CASE Len(b.src) = Len(m.src) /\ b.votes # v.votes
    <3>1. b.votes <= v.votes
      BY <1>2, <2>2
    <3> QED BY <2>0, <2>2, <3>1 DEF Before
  <2>3. CASE Len(b.src) = Len(m.src) /\ b.votes = v.votes
    <3>1. At(w) <= At(b)
      <4> HIDE DEF At
      <4> QED BY <1>4, <2>3
    <3>2. b.src # w.src
      BY <2>0 DEF AreApart
    <3>3. At(w) # At(b) /\ At(w) \in Nat /\ At(b) \in Nat
      <4> HIDE DEF At
      <4> QED BY <1>3, <2>0, <3>2
    <3>4. At(w) < At(b)
      <4> HIDE DEF At
      <4> QED BY <3>1, <3>3
    <3> QED BY <2>0, <2>3, <3>4 DEF Before
  <2> QED BY <2>1, <2>2, <2>3
<1>6. FirstOf(T) \in T /\ \A b \in T \ {FirstOf(T)} : Before(FirstOf(T), b)
  <2>1. w \in T
    OBVIOUS
  <2> QED BY <1>5, <2>1 DEF FirstOf
<1>7. \A b \in T : Len(FirstOf(T).src) >= Len(b.src)
  <2> TAKE b \in T
  <2>1. Len(b.src) \in Nat /\ Len(FirstOf(T).src) \in Nat
    BY <1>6, FormOfSrc
  <2>2. CASE b = FirstOf(T)
    BY <2>1, <2>2
  <2>3. CASE b # FirstOf(T)
    <3>1. Before(FirstOf(T), b)
      BY <1>6, <2>3
    <3> QED BY <2>1, <3>1 DEF Before
  <2> QED BY <2>2, <2>3
<1> QED BY <1>6, <1>7 DEF Longest

LEMMA MatchIs ==
    ASSUME NEW line \in Seq(Letter), NEW src \in Seq(Letter), NEW p \in 1..Len(line)
    PROVE  MatchesAt(line, p, src) <=> /\ p + Len(src) - 1 <= Len(line)
                                       /\ \A k \in Span(p, src) : line[k] = src[k - p + 1]
<1> DEFINE l == Len(src)
           s == SubSeq(line, p, p + l - 1)
<1>0. l \in Nat /\ Len(line) \in Nat /\ p \in Nat /\ p >= 1
  OBVIOUS
<1>1. CASE p + l - 1 <= Len(line)
  <2>1. s \in Seq(Letter) /\ Len(s) = l /\ \A d \in 1..l : s[d] = line[p + d - 1]
    BY <1>0, <1>1
  <2>2. s = src <=> \A d \in 1..l : s[d] = src[d]
    <3> HIDE DEF s
    <3> QED BY <2>1
  <2> HIDE DEF s
  <2>3. (\A d \in 1..l : s[d] = src[d]) <=> \A k \in Span(p, src) : line[k] = src[k - p + 1]
    <3>1. ASSUME \A d \in 1..l : s[d] = src[d], NEW k \in Span(p, src) PROVE line[k] = src[k - p + 1]
      <4> DEFINE d == k - p + 1
      <4>1. d \in 1..l /\ p + d - 1 = k
        BY <1>0 DEF Span
      <4>2. s[d] = line[p + d - 1] /\ s[d] = src[d]
        <5> HIDE DEF d
        <5> QED BY <2>1, <3>1, <4>1
      <4> QED BY <4>1, <4>2
    <3>2. ASSUME \A k \in Span(p, src) : line[k] = src[k - p + 1], NEW d \in 1..l PROVE s[d] = src[d]
      <4> DEFINE k == p + d - 1
      <4>1. k \in Span(p, src) /\ k - p + 1 = d
        BY <1>0 DEF Span
      <4>2. line[k] = src[d]
        <5> HIDE DEF k
        <5> QED BY <3>2, <4>1
      <4> QED BY <2>1, <4>2
    <3> QED BY <3>1, <3>2
  <2> QED BY <1>1, <2>2, <2>3 DEF MatchesAt, s
<1>2. CASE ~(p + l - 1 <= Len(line))
  BY <1>2 DEF MatchesAt
<1> QED BY <1>1, <1>2

-----------------------------------------------------------------------------
(* Counting: the lines are masked term by term.                            *)

\* what is masked of a line when the terms of D are done
IsLineOf(text, line, D) ==
    /\ line \in Seq(Letter) /\ Len(line) = Len(text)
    /\ \A k \in 1..Len(text) :
           /\ line[k] \in {text[k], Mask}
           /\ line[k] # text[k] => \E y \in D : \E q : IsMasked(text, line, q, y.src) /\ k \in Span(q, y.src)
    /\ \A x \in D : \A p \in 1..Len(text) : MatchesAt(text, p, x.src) =>
           \E y \in D : \E q : Len(y.src) >= Len(x.src) /\ IsMasked(text, line, q, y.src) /\ Overlap(q, y.src, p, x.src)

\* a term is found in what is left of a line only where the line has it
LEMMA FoundBefore ==
    ASSUME NEW D \in SUBSET CandForm, NEW text \in Seq(Letter), NEW line, IsLineOf(text, line, D), NEW t \in CandForm,
           NEW p \in 1..Len(text)
    PROVE  /\ MatchesAt(line, p, t.src) => MatchesAt(text, p, t.src)
           /\ MatchesAt(text, p, t.src) =>
                  \/ MatchesAt(line, p, t.src)
                  \/ \E y \in D : \E q : IsMasked(text, line, q, y.src) /\ Overlap(q, y.src, p, t.src)
<1> DEFINE src == t.src
<1>1. /\ line \in Seq(Letter) /\ Len(line) = Len(text) /\ Len(text) \in Nat
      /\ \A k \in 1..Len(text) :
             /\ line[k] \in {text[k], Mask}
             /\ line[k] # text[k] => \E y \in D : \E q : IsMasked(text, line, q, y.src) /\ k \in Span(q, y.src)
  BY DEF IsLineOf
<1>2. src \in Seq(Letter) /\ Len(src) \in Nat /\ \A d \in 1..Len(src) : src[d] # Mask
  BY FormOfSrc
<1> HIDE DEF src
<1>3. p + Len(src) - 1 <= Len(text) =>
          \A k \in Span(p, src) : k \in 1..Len(text) /\ k - p + 1 \in 1..Len(src)
  BY <1>1, <1>2 DEF Span
<1>4. MatchesAt(line, p, src) <=> p + Len(src) - 1 <= Len(line) /\ \A k \in Span(p, src) : line[k] = src[k - p + 1]
  BY <1>1, <1>2, MatchIs
<1>5. MatchesAt(text, p, src) <=> p + Len(src) - 1 <= Len(text) /\ \A k \in Span(p, src) : text[k] = src[k - p + 1]
  BY <1>2, MatchIs
<1>6. ASSUME MatchesAt(line, p, src) PROVE MatchesAt(text, p, src)
  <2>1. \A k \in Span(p, src) : text[k] = src[k - p + 1]
    BY <1>1, <1>2, <1>3, <1>4, <1>6
  <2> QED BY <1>1, <1>4, <1>5, <1>6, <2>1
<1>7. ASSUME MatchesAt(text, p, src), ~MatchesAt(line, p, src)
      PROVE  \E y \in D : \E q : IsMasked(text, line, q, y.src) /\ Overlap(q, y.src, p, src)
  <2>1. PICK k \in Span(p, src) : line[k] # src[k - p + 1]
    BY <1>1, <1>4, <1>5, <1>7
  <2>2. k \in 1..Len(text) /\ line[k] # text[k]
    BY <1>3, <1>5, <1>7, <2>1
  <2>3. PICK y \in D : \E q : IsMasked(text, line, q, y.src) /\ k \in Span(q, y.src)
    BY <1>1, <2>2
  <2> QED BY <2>1, <2>3 DEF Overlap
<1> QED BY <1>6, <1>7 DEF src

\* one term more is masked
LEMMA LineMasked ==
    ASSUME NEW D \in SUBSET CandForm, NEW text \in Seq(Letter), NEW line, IsLineOf(text, line, D), NEW t \in CandForm,
           \A x \in D : Len(x.src) >= Len(t.src)
    PROVE  IsLineOf(text, Masked(line, t.src), D \cup {t})
<1> DEFINE src == t.src
           new == Masked(line, src)
           E == D \cup {t}
<1>1. /\ line \in Seq(Letter) /\ Len(line) = Len(text) /\ Len(text) \in Nat
      /\ \A k \in 1..Len(text) :
             /\ line[k] \in {text[k], Mask}
             /\ line[k] # text[k] => \E y \in D : \E q : IsMasked(text, line, q, y.src) /\ k \in Span(q, y.src)
      /\ \A x \in D : \A p \in 1..Len(text) : MatchesAt(text, p, x.src) =>
             \E y \in D : \E q : Len(y.src) >= Len(x.src) /\ IsMasked(text, line, q, y.src) /\ Overlap(q, y.src, p, x.src)
  <2>1. IsLineOf(text, line, D) /\ Len(text) \in Nat
    OBVIOUS
  <2> QED BY <2>1, Zenon DEF IsLineOf
<1>2. src \in Seq(Letter) /\ src # <<>> /\ Len(src) \in Nat
  BY FormOfSrc
<1> HIDE DEF new, src
<1>3. /\ new \in Seq(Letter) /\ Len(new) = Len(line)
      /\ \A k \in 1..Len(line) : /\ new[k] \in {line[k], Mask}
                                 /\ new[k] # line[k] => \E q : IsMasked(line, new, q, src) /\ k \in Span(q, src)
      /\ \A p \in 1..Len(line) : MatchesAt(line, p, src) =>
             \E q : IsMasked(line, new, q, src) /\ Overlap(q, src, p, src)
  BY <1>1, <1>2, MaskFacts DEF new
<1>4. ASSUME NEW q, NEW y, IsMasked(text, line, q, y) PROVE IsMasked(text, new, q, y)
  <2>1. /\ q \in 1..Len(text) /\ MatchesAt(text, q, y) /\ \A k \in Span(q, y) : k \in 1..Len(text) /\ line[k] = Mask
    BY <1>4 DEF IsMasked
  <2> QED BY <1>1, <1>3, <2>1 DEF IsMasked
<1>5. ASSUME NEW q, IsMasked(line, new, q, src) PROVE IsMasked(text, new, q, src)
  <2>1. /\ q \in 1..Len(text) /\ MatchesAt(line, q, src) /\ \A k \in Span(q, src) : k \in 1..Len(text) /\ new[k] = Mask
    BY <1>1, <1>5 DEF IsMasked
  <2>2. MatchesAt(text, q, src)
    BY <2>1, FoundBefore DEF src
  <2> QED BY <2>1, <2>2 DEF IsMasked
<1>6. ASSUME NEW k \in 1..Len(text)
      PROVE  /\ new[k] \in {text[k], Mask}
             /\ new[k] # text[k] => \E y \in E : \E q : IsMasked(text, new, q, y.src) /\ k \in Span(q, y.src)
  <2>1. new[k] \in {text[k], Mask}
    BY <1>1, <1>3
  <2>2. CASE new[k] # line[k]
    <3>1. PICK q : IsMasked(line, new, q, src) /\ k \in Span(q, src)
      BY <1>1, <1>3, <2>2
    <3>2. IsMasked(text, new, q, t.src) /\ k \in Span(q, t.src)
      BY <1>5, <3>1 DEF src
    <3> QED BY <2>1, <3>2
  <2>3. CASE new[k] = line[k] /\ new[k] # text[k]
    <3>1. PICK y \in D : \E q : IsMasked(text, line, q, y.src) /\ k \in Span(q, y.src)
      BY <1>1, <2>3
    <3> QED BY <1>4, <2>1, <3>1
  <2> QED BY <2>1, <2>2, <2>3
<1>7. ASSUME NEW x \in E, NEW p \in 1..Len(text), MatchesAt(text, p, x.src)
      PROVE  \E y \in E : \E q : Len(y.src) >= Len(x.src) /\ IsMasked(text, new, q, y.src) /\ Overlap(q, y.src, p, x.src)
  <2>1. CASE x \in D
    <3>1. PICK y \in D : \E q : Len(y.src) >= Len(x.src) /\ IsMasked(text, line, q, y.src) /\ Overlap(q, y.src, p, x.src)
      BY <1>1, <1>7, <2>1
    <3> QED BY <1>4, <3>1
  <2>2. CASE x = t /\ MatchesAt(line, p, src)
    <3>1. PICK q : IsMasked(line, new, q, src) /\ Overlap(q, src, p, src)
      BY <1>1, <1>3, <2>2
    <3>2. IsMasked(text, new, q, t.src) /\ Overlap(q, t.src, p, t.src) /\ Len(t.src) >= Len(t.src)
      BY <1>2, <1>5, <3>1 DEF src
    <3> QED BY <2>2, <3>2
  <2>3. CASE x = t /\ ~MatchesAt(line, p, src)
    <3>1. PICK y \in D : \E q : IsMasked(text, line, q, y.src) /\ Overlap(q, y.src, p, t.src)
      <4>1. MatchesAt(text, p, t.src) /\ ~MatchesAt(line, p, t.src)
        BY <1>7, <2>3 DEF src
      <4>2. MatchesAt(text, p, t.src) =>
                \/ MatchesAt(line, p, t.src)
                \/ \E y \in D : \E q : IsMasked(text, line, q, y.src) /\ Overlap(q, y.src, p, t.src)
        BY FoundBefore
      <4> QED BY <4>1, <4>2, Zenon
    <3>2. Len(y.src) >= Len(t.src)
      OBVIOUS
    <3> QED BY <1>4, <2>3, <3>1, <3>2
  <2> QED BY <2>1, <2>2, <2>3
<1> QED BY <1>1, <1>3, <1>6, <1>7 DEF IsLineOf, new, src

\* nothing is masked in a line that has none of the terms
LEMMA LineAlone ==
    ASSUME NEW D \in SUBSET CandForm, NEW text \in Seq(Letter), NEW line, IsLineOf(text, line, D),
           \A x \in D : ~HasTerm(text, x.src)
    PROVE  line = text
<1>1. /\ line \in Seq(Letter) /\ Len(line) = Len(text) /\ Len(text) \in Nat
      /\ \A k \in 1..Len(text) :
             line[k] # text[k] => \E y \in D : \E q : IsMasked(text, line, q, y.src) /\ k \in Span(q, y.src)
  <2>1. IsLineOf(text, line, D) /\ Len(text) \in Nat
    OBVIOUS
  <2> QED BY <2>1, Zenon DEF IsLineOf
<1>2. ASSUME NEW k \in 1..Len(text), line[k] # text[k] PROVE FALSE
  <2>1. PICK y \in D : \E q : IsMasked(text, line, q, y.src)
    BY <1>1, <1>2
  <2>2. PICK q : q \in 1..Len(text) /\ MatchesAt(text, q, y.src)
    BY <2>1 DEF IsMasked
  <2>3. q \in DOMAIN text
    BY <2>2
  <2> QED BY <2>2, <2>3 DEF HasTerm
<1> QED BY <1>1, <1>2, SameSeq

\* a place of a term stands in a text, the terms of T around it
Stands(text, j, src, T) ==
    /\ MatchesAt(text, j, src)
    /\ \A x \in T : \A p \in DOMAIN text :
           Len(x.src) > Len(src) /\ MatchesAt(text, p, x.src) /\ Span(j, src) \subseteq Span(p, x.src) =>
               \E y \in T : \E q \in DOMAIN text :
                   /\ Len(y.src) >= Len(x.src) /\ MatchesAt(text, q, y.src)
                   /\ Span(q, y.src) \cap Span(p, x.src) # {} /\ Span(q, y.src) \cap Span(j, src) = {}
LEMMA LineStands ==
    ASSUME NEW T \in SUBSET CandForm, NEW D \in SUBSET T, NEW text \in Seq(Letter), NEW line, IsLineOf(text, line, D),
           NEW t \in T \ D, \A x \in T \ D : Len(t.src) >= Len(x.src), NEW j \in DOMAIN line, MatchesAt(line, j, t.src)
    PROVE  j \in DOMAIN text /\ Stands(text, j, t.src, T)
<1>1. /\ line \in Seq(Letter) /\ Len(line) = Len(text) /\ Len(text) \in Nat
      /\ \A x \in D : \A p \in 1..Len(text) : MatchesAt(text, p, x.src) =>
             \E y \in D : \E q : Len(y.src) >= Len(x.src) /\ IsMasked(text, line, q, y.src) /\ Overlap(q, y.src, p, x.src)
  <2>1. IsLineOf(text, line, D) /\ Len(text) \in Nat
    OBVIOUS
  <2> QED BY <2>1, Zenon DEF IsLineOf
<1>2. DOMAIN text = 1..Len(text) /\ DOMAIN line = 1..Len(text)
  BY <1>1
<1>3. D \in SUBSET CandForm /\ t \in CandForm
  OBVIOUS
<1>4. MatchesAt(text, j, t.src)
  BY <1>2, <1>3, FoundBefore
<1>5. \A k \in Span(j, t.src) : line[k] # Mask
  <2>1. t.src \in Seq(Letter) /\ Len(t.src) \in Nat /\ \A d \in 1..Len(t.src) : t.src[d] # Mask
    BY <1>3, FormOfSrc
  <2>2. j \in 1..Len(line)
    BY <1>1, <1>2
  <2>3. \A k \in Span(j, t.src) : line[k] = t.src[k - j + 1]
    BY <1>1, <2>1, <2>2, MatchIs
  <2>4. \A k \in Span(j, t.src) : k - j + 1 \in 1..Len(t.src)
    BY <1>2, <2>1 DEF Span
  <2> QED BY <2>1, <2>3, <2>4
<1>6. ASSUME NEW x \in T, NEW p \in DOMAIN text, Len(x.src) > Len(t.src), MatchesAt(text, p, x.src)
      PROVE  \E y \in T : \E q \in DOMAIN text :
                   /\ Len(y.src) >= Len(x.src) /\ MatchesAt(text, q, y.src)
                   /\ Span(q, y.src) \cap Span(p, x.src) # {} /\ Span(q, y.src) \cap Span(j, t.src) = {}
  <2>1. x \in D
    <3>1. Len(x.src) \in Nat /\ Len(t.src) \in Nat
      BY <1>3, FormOfSrc
    <3> QED BY <1>6, <3>1
  <2>2. PICK y \in D : \E q : Len(y.src) >= Len(x.src) /\ IsMasked(text, line, q, y.src) /\ Overlap(q, y.src, p, x.src)
    BY <1>1, <1>2, <1>6, <2>1
  <2>3. PICK q : Len(y.src) >= Len(x.src) /\ IsMasked(text, line, q, y.src) /\ Overlap(q, y.src, p, x.src)
    BY <2>2
  <2>4. /\ q \in DOMAIN text /\ MatchesAt(text, q, y.src) /\ \A k \in Span(q, y.src) : line[k] = Mask
    BY <1>2, <2>3 DEF IsMasked
  <2>5. Span(q, y.src) \cap Span(j, t.src) = {}
    BY <1>5, <2>4
  <2>6. y \in T
    OBVIOUS
  <2> QED BY <2>3, <2>4, <2>5, <2>6 DEF Overlap
<1> QED BY <1>2, <1>4, <1>6 DEF Stands

-----------------------------------------------------------------------------
(* The records of a book.                                                  *)

RecordForm(T) == [term : T, frequency : Nat, refs : Seq(Nat)]
WithTerm(texts, src) == {i \in DOMAIN texts : HasTerm(texts[i], src)}
OnlyTerm(texts, src, T) == {i \in WithTerm(texts, src) : \A x \in T : x.src # src => ~HasTerm(texts[i], x.src)}
WhereStands(texts, src, T) == {i \in DOMAIN texts : \E j \in DOMAIN texts[i] : Stands(texts[i], j, src, T)}
IsRecord(r, texts, T) ==
    /\ ToSet(r.refs) \subseteq WithTerm(texts, r.term.src)
    /\ Cardinality(OnlyTerm(texts, r.term.src, T)) <= r.frequency
    /\ r.frequency <= Cardinality(WithTerm(texts, r.term.src))
    /\ r.frequency <= Cardinality(WhereStands(texts, r.term.src, T))
AreLinesOf(texts, lines, D) ==
    /\ lines \in Seq(Seq(Letter)) /\ Len(lines) = Len(texts)
    /\ \A i \in 1..Len(texts) : IsLineOf(texts[i], lines[i], D)

\* places of a list are finitely many, and a part of them is not more
LEMMA PlacesCount ==
    ASSUME NEW n \in Nat, NEW B \in SUBSET (1..n), NEW A \in SUBSET B
    PROVE  IsFiniteSet(B) /\ Cardinality(A) \in Nat /\ Cardinality(B) \in Nat /\ Cardinality(A) <= Cardinality(B)
<1>1. 1 \in Int /\ n \in Int
  OBVIOUS
<1>2. IsFiniteSet(1..n)
  BY <1>1, FS_Interval
<1>3. IsFiniteSet(B)
  BY <1>2, FS_Subset
<1>4. IsFiniteSet(A) /\ Cardinality(A) <= Cardinality(B)
  BY <1>3, FS_Subset
<1> QED BY <1>3, <1>4, FS_CardinalityType

\* the record of the longest term that is left
IsNext(t, T, D, texts, lines) ==
    /\ T \in SUBSET CandForm /\ AreApart(T) /\ D \in SUBSET T
    /\ texts \in Seq(Seq(Letter)) /\ AreLinesOf(texts, lines, D)
    /\ t \in T \ D /\ \A x \in T \ D : Len(t.src) >= Len(x.src)
LEMMA RecordInFacts ==
    ASSUME shelf.refs \in Nat, NEW t, NEW T, NEW D, NEW texts, NEW lines, IsNext(t, T, D, texts, lines),
           NEW r, r = RecordIn(t, lines)
    PROVE  r \in RecordForm(T) /\ IsRecord(r, texts, T) /\ r.term = t
<1> DEFINE n == Len(texts)
           P == {i \in DOMAIN lines : HasTerm(lines[i], t.src)}
           s == LinesWith(lines, t.src)
<1>a. T \in SUBSET CandForm /\ AreApart(T) /\ D \in SUBSET T /\ texts \in Seq(Seq(Letter)) /\ AreLinesOf(texts, lines, D)
  BY DEF IsNext
<1>0. t \in T \ D /\ t \in CandForm /\ \A x \in T \ D : Len(t.src) >= Len(x.src)
  BY <1>a DEF IsNext
<1>1. /\ n \in Nat /\ DOMAIN texts = 1..n /\ DOMAIN lines = 1..n /\ lines \in Seq(Seq(Letter)) /\ Len(lines) = n
      /\ \A i \in 1..n : IsLineOf(texts[i], lines[i], D) /\ texts[i] \in Seq(Letter)
  BY <1>a DEF AreLinesOf
<1>2. P \in SUBSET (1..n) /\ s = InOrder(P, n)
  BY <1>1 DEF LinesWith
<1>3. ASSUME NEW i \in P
      PROVE  i \in WithTerm(texts, t.src) /\ i \in WhereStands(texts, t.src, T)
  <2>1. i \in 1..n /\ IsLineOf(texts[i], lines[i], D) /\ texts[i] \in Seq(Letter) /\ i \in DOMAIN texts
    BY <1>1
  <2>2. PICK j \in DOMAIN lines[i] : MatchesAt(lines[i], j, t.src)
    BY <1>3 DEF HasTerm
  <2>3. j \in DOMAIN texts[i] /\ Stands(texts[i], j, t.src, T)
    <3> DEFINE text == texts[i]
               line == lines[i]
    <3>1. text \in Seq(Letter) /\ IsLineOf(text, line, D) /\ j \in DOMAIN line /\ MatchesAt(line, j, t.src)
      BY <2>1, <2>2
    <3> HIDE DEF text, line
    <3>2. j \in DOMAIN text /\ Stands(text, j, t.src, T)
      BY <1>0, <1>a, <3>1, LineStands
    <3> QED BY <3>2 DEF text
  <2>4. MatchesAt(texts[i], j, t.src)
    BY <2>3 DEF Stands
  <2> QED BY <2>1, <2>3, <2>4 DEF WithTerm, WhereStands, HasTerm
<1>4. ASSUME NEW i \in OnlyTerm(texts, t.src, T) PROVE i \in P
  <2>1. i \in 1..n /\ HasTerm(texts[i], t.src) /\ \A x \in T : x.src # t.src => ~HasTerm(texts[i], x.src)
    BY <1>1 DEF OnlyTerm, WithTerm
  <2>2. \A x \in D : ~HasTerm(texts[i], x.src)
    BY <1>0, <1>a, <2>1 DEF AreApart
  <2>3. texts[i] \in Seq(Letter) /\ IsLineOf(texts[i], lines[i], D) /\ D \in SUBSET CandForm
    BY <1>1, <1>a, <2>1
  <2>4. lines[i] = texts[i]
    BY <2>2, <2>3, LineAlone
  <2> QED BY <1>1, <2>1, <2>4
<1>5. /\ WithTerm(texts, t.src) \in SUBSET (1..n) /\ WhereStands(texts, t.src, T) \in SUBSET (1..n)
      /\ OnlyTerm(texts, t.src, T) \in SUBSET P
      /\ P \in SUBSET WithTerm(texts, t.src) /\ P \in SUBSET WhereStands(texts, t.src, T)
  <2> HIDE DEF P
  <2> QED BY <1>1, <1>3, <1>4 DEF WithTerm, WhereStands
<1> HIDE DEF P
<1>6. s \in Seq(1..n) /\ ToSet(s) = P /\ Len(s) = Cardinality(P)
  <2>1. s \in Seq(1..n) /\ ToSet(s) = P \cap (1..n)
    BY <1>1, <1>2, InOrderFacts
  <2>2. P \cap (1..n) = P
    BY <1>2
  <2>3. Len(s) = Cardinality(P \cap (1..n))
    BY <1>1, <1>2, CountInOrder
  <2> QED BY <2>1, <2>2, <2>3
<1>7. /\ Cardinality(OnlyTerm(texts, t.src, T)) <= Cardinality(P)
      /\ Cardinality(P) <= Cardinality(WithTerm(texts, t.src))
      /\ Cardinality(P) <= Cardinality(WhereStands(texts, t.src, T))
      /\ Cardinality(P) \in Nat
  BY <1>1, <1>2, <1>5, PlacesCount
<1> HIDE DEF s
<1>8. Capped(s) \in Seq(Nat) /\ ToSet(Capped(s)) \subseteq P
  <2> DEFINE m == IF shelf.refs < Len(s) THEN shelf.refs ELSE Len(s)
             c == SubSeq(s, 1, m)
  <2>1. m \in 0..Len(s) /\ Len(s) \in Nat
    BY <1>6
  <2> HIDE DEF m
  <2>2. c \in Seq(1..n) /\ Len(c) = m /\ \A k \in 1..m : c[k] = s[k]
    BY <1>6, <2>1
  <2>3. Capped(s) = c
    BY DEF Capped, m
  <2> HIDE DEF c
  <2>4. ToSet(c) = {c[k] : k \in 1..m}
    BY <2>2, SeqToSet
  <2>5. ToSet(s) = {s[k] : k \in 1..Len(s)}
    BY <1>6, SeqToSet
  <2>6. Seq(1..n) \subseteq Seq(Nat)
    BY <1>1
  <2>7. \A k \in 1..m : k \in 1..Len(s)
    BY <2>1
  <2>8. ToSet(c) \subseteq ToSet(s)
    BY <2>2, <2>4, <2>5, <2>7
  <2> QED BY <1>6, <2>2, <2>3, <2>6, <2>8
<1>9. r = [term |-> t, frequency |-> Len(s), refs |-> Capped(s)]
  BY DEF RecordIn, s
<1>10. r \in RecordForm(T) /\ r.term = t /\ r.frequency = Cardinality(P) /\ ToSet(r.refs) \subseteq P
  BY <1>0, <1>6, <1>7, <1>8, <1>9 DEF RecordForm
<1> QED BY <1>5, <1>7, <1>10 DEF IsRecord

AccForm(T) == [left : SUBSET T, lines : Seq(Seq(Letter)), records : SUBSET RecordForm(T)]
\* what counting has when some of the terms are done: the longest ones
IsCount(acc, T, texts) ==
    /\ acc \in AccForm(T)
    /\ AreLinesOf(texts, acc.lines, T \ acc.left)
    /\ \A x \in T \ acc.left : \A y \in acc.left : Len(x.src) >= Len(y.src)
    /\ \A r \in acc.records : r.term \notin acc.left /\ IsRecord(r, texts, T)
    /\ \A x \in T \ acc.left : \E r \in acc.records : r.term = x
    /\ \A r, q \in acc.records : r.term = q.term => r = q

LEMMA CountStarts ==
    ASSUME NEW T \in SUBSET CandForm, NEW texts \in Seq(Seq(Letter)), NEW acc,
           acc = [left |-> T, lines |-> texts, records |-> {}]
    PROVE  IsCount(acc, T, texts)
<1>1. acc \in AccForm(T) /\ T \ acc.left = {} /\ acc.lines = texts /\ acc.records = {}
  BY DEF AccForm
<1>2. \A i \in 1..Len(texts) : IsLineOf(texts[i], texts[i], {})
  <2> TAKE i \in 1..Len(texts)
  <2>1. texts[i] \in Seq(Letter)
    OBVIOUS
  <2> QED BY <2>1 DEF IsLineOf
<1>3. AreLinesOf(texts, acc.lines, T \ acc.left)
  BY <1>1, <1>2 DEF AreLinesOf
<1> QED BY <1>1, <1>3 DEF IsCount

LEMMA CountGoesOn ==
    ASSUME NEW T \in SUBSET CandForm, IsFiniteSet(T), AreApart(T), NEW texts \in Seq(Seq(Letter)), shelf.refs \in Nat,
           NEW acc, IsCount(acc, T, texts), acc.left # {}
    PROVE  /\ IsCount(CountedIn(acc), T, texts)
           /\ \E t \in acc.left : CountedIn(acc).left = acc.left \ {t}
<1> DEFINE t == FirstOf(acc.left)
           D == T \ acc.left
           r == RecordIn(t, acc.lines)
           new == CountedIn(acc)
<1>1. /\ acc.left \in SUBSET T /\ acc.lines \in Seq(Seq(Letter)) /\ acc.records \in SUBSET RecordForm(T)
      /\ AreLinesOf(texts, acc.lines, D)
      /\ \A x \in D : \A y \in acc.left : Len(x.src) >= Len(y.src)
  BY DEF IsCount, AccForm
<1>2. t \in acc.left /\ \A b \in acc.left : Len(t.src) >= Len(b.src)
  <2>1. IsFiniteSet(acc.left) /\ acc.left \in SUBSET CandForm
    BY <1>1, FS_Subset
  <2>2. AreApart(acc.left)
    BY <1>1 DEF AreApart
  <2> QED BY <2>1, <2>2, FirstFacts DEF Longest
<1> HIDE DEF t
<1>3. t \in T \ D /\ D \in SUBSET T /\ T \ D = acc.left /\ t \in CandForm
  BY <1>1, <1>2
<1>4. r \in RecordForm(T) /\ IsRecord(r, texts, T) /\ r.term = t
  <2>1. \A x \in T \ D : Len(t.src) >= Len(x.src)
    BY <1>2, <1>3
  <2> DEFINE lines == acc.lines
  <2>2. AreLinesOf(texts, lines, D) /\ r = RecordIn(t, lines)
    BY <1>1
  <2>3. t \in T \ D /\ D \in SUBSET T
    BY <1>3
  <2>4. IsNext(t, T, D, texts, lines)
    BY <2>1, <2>2, <2>3 DEF IsNext
  <2> HIDE DEF D, lines, r
  <2> QED BY <2>2, <2>4, RecordInFacts
<1>5. new = [left |-> acc.left \ {t}, lines |-> LinesMasked(acc.lines, t.src), records |-> acc.records \cup {r}]
  BY DEF CountedIn, t
<1> DEFINE lines == LinesMasked(acc.lines, t.src)
<1>6. AreLinesOf(texts, lines, D \cup {t})
  <2>1. /\ Len(acc.lines) = Len(texts) /\ Len(texts) \in Nat /\ DOMAIN acc.lines = 1..Len(texts)
        /\ \A i \in 1..Len(texts) : IsLineOf(texts[i], acc.lines[i], D) /\ texts[i] \in Seq(Letter)
    <3>1. Len(acc.lines) = Len(texts) /\ \A i \in 1..Len(texts) : IsLineOf(texts[i], acc.lines[i], D)
      BY <1>1 DEF AreLinesOf
    <3>2. Len(texts) \in Nat /\ \A i \in 1..Len(texts) : texts[i] \in Seq(Letter)
      OBVIOUS
    <3>3. DOMAIN acc.lines = 1..Len(acc.lines)
      BY <1>1
    <3> QED BY <3>1, <3>2, <3>3
  <2>2. \A x \in D : Len(x.src) >= Len(t.src)
    BY <1>1, <1>2
  <2>3. D \in SUBSET CandForm
    OBVIOUS
  <2>4. lines = [i \in 1..Len(texts) |-> Masked(acc.lines[i], t.src)]
    BY <2>1 DEF LinesMasked
  <2> HIDE DEF D, lines
  <2>5. ASSUME NEW i \in 1..Len(texts) PROVE IsLineOf(texts[i], lines[i], D \cup {t}) /\ lines[i] \in Seq(Letter)
    <3> DEFINE text == texts[i]
               line == acc.lines[i]
    <3>1. text \in Seq(Letter) /\ IsLineOf(text, line, D)
      BY <2>1
    <3>2. lines[i] = Masked(line, t.src)
      BY <2>4
    <3> HIDE DEF text, line
    <3>3. IsLineOf(text, lines[i], D \cup {t})
      BY <1>3, <2>2, <2>3, <3>1, <3>2, LineMasked
    <3>4. lines[i] \in Seq(Letter)
      BY <3>3 DEF IsLineOf
    <3> QED BY <3>3, <3>4 DEF text
  <2>6. lines \in Seq(Seq(Letter)) /\ Len(lines) = Len(texts)
    BY <2>1, <2>4, <2>5
  <2> QED BY <2>5, <2>6 DEF AreLinesOf
<1> HIDE DEF lines, r
<1>7. T \ new.left = D \cup {t} /\ new.left = acc.left \ {t} /\ new.lines = lines /\ new.records = acc.records \cup {r}
  BY <1>3, <1>5 DEF lines
<1>8. new \in AccForm(T)
  <2>1. lines \in Seq(Seq(Letter))
    BY <1>6 DEF AreLinesOf
  <2> QED BY <1>1, <1>4, <1>5, <2>1 DEF AccForm, lines
<1>9. \A x \in T \ new.left : \A y \in new.left : Len(x.src) >= Len(y.src)
  BY <1>1, <1>2, <1>7
<1>10. /\ \A q \in acc.records : q.term \notin acc.left /\ IsRecord(q, texts, T)
       /\ \A x \in D : \E q \in acc.records : q.term = x
       /\ \A q, p \in acc.records : q.term = p.term => q = p
  BY DEF IsCount
<1> HIDE DEF new, D
<1>11. \A q \in new.records : q.term \notin new.left /\ IsRecord(q, texts, T)
  BY <1>4, <1>7, <1>10
<1>12. \A x \in T \ new.left : \E q \in new.records : q.term = x
  BY <1>4, <1>7, <1>10
<1>13. \A q, p \in new.records : q.term = p.term => q = p
  BY <1>2, <1>4, <1>7, <1>10
<1>14. AreLinesOf(texts, new.lines, T \ new.left)
  BY <1>6, <1>7
<1>15. IsCount(new, T, texts)
  BY <1>8, <1>9, <1>11, <1>12, <1>13, <1>14 DEF IsCount
<1> QED BY <1>2, <1>7, <1>15 DEF new

LEMMA CountingFacts ==
    ASSUME NEW T \in SUBSET CandForm, IsFiniteSet(T), AreApart(T), NEW texts \in Seq(Seq(Letter)), shelf.refs \in Nat,
           NEW acc, acc = Counting(T, texts)[Cardinality(T)]
    PROVE  IsCount(acc, T, texts) /\ acc.left = {}
<1> DEFINE n == Cardinality(T)
           a0 == [left |-> T, lines |-> texts, records |-> {}]
           Accs == {a \in AccForm(T) : IsCount(a, T, texts)}
           V == [k \in 0..n |-> {a \in Accs : Cardinality(a.left) = n - k}]
           G == [k \in 1..n |-> [a \in Accs |-> CountedIn(a)]]
           after[k \in 0..Cardinality(T)] ==
               IF k = 0 THEN [left |-> T, lines |-> texts, records |-> {}] ELSE CountedIn(after[k - 1])
<1>0. n \in Nat
  BY FS_CardinalityType
<1>1. a0 \in V[0]
  <2>1. IsCount(a0, T, texts)
    BY CountStarts
  <2>2. a0 \in Accs /\ Cardinality(a0.left) = n - 0
    <3>1. a0 \in Accs /\ a0.left = T
      BY <2>1 DEF IsCount
    <3> HIDE DEF a0, Accs
    <3> QED BY <1>0, <3>1
  <2>3. V[0] = {a \in Accs : Cardinality(a.left) = n - 0}
    <3>1. 0 \in 0..n
      BY <1>0
    <3> HIDE DEF Accs, n
    <3> QED BY <3>1
  <2> HIDE DEF a0, Accs, V
  <2> QED BY <2>2, <2>3
<1>2. ASSUME NEW k \in 1..n, NEW a \in V[k - 1] PROVE G[k][a] \in V[k]
  <2>1. k - 1 \in 0..n /\ k \in 0..n
    BY <1>0
  <2>2. a \in Accs /\ Cardinality(a.left) = n - (k - 1)
    BY <2>1
  <2>3. a.left \in SUBSET T /\ IsFiniteSet(a.left) /\ a.left # {}
    <3>1. a.left \in SUBSET T
      BY <2>2 DEF AccForm
    <3>2. n - (k - 1) # 0
      BY <1>0
    <3> HIDE DEF n
    <3> QED BY <2>2, <3>1, <3>2, FS_Subset, FS_EmptySet
  <2>4. IsCount(CountedIn(a), T, texts) /\ \E t \in a.left : CountedIn(a).left = a.left \ {t}
    BY <2>2, <2>3, CountGoesOn
  <2>5. Cardinality(CountedIn(a).left) = n - k
    <3>1. PICK t \in a.left : CountedIn(a).left = a.left \ {t}
      BY <2>4
    <3>2. Cardinality(a.left \ {t}) = Cardinality(a.left) - 1
      BY <2>3, FS_RemoveElement
    <3>3. (n - (k - 1)) - 1 = n - k
      BY <1>0
    <3> HIDE DEF n
    <3> QED BY <2>2, <3>1, <3>2, <3>3
  <2>6. CountedIn(a) \in Accs
    BY <2>4 DEF IsCount
  <2>7. G[k][a] = CountedIn(a)
    <3> HIDE DEF Accs
    <3> QED BY <2>2
  <2> HIDE DEF G, Accs, n
  <2> QED BY <2>1, <2>5, <2>6, <2>7
<1>3. PICK f : f[0] = a0 /\ \A k \in 1..n : f[k] \in V[k] /\ f[k] = G[k][f[k - 1]]
  <2> HIDE DEF V, G, a0, n
  <2>1. StepsWithin(n, V, a0, G)
    BY <1>1, <1>2 DEF StepsWithin
  <2>2. HasRun(n, V, a0, G)
    BY <1>0, <2>1, Recursion
  <2> QED BY <2>2 DEF HasRun
<1> DEFINE g == [k \in 0..n |-> f[k]]
<1>4. \A k \in 0..n : f[k] \in V[k]
  <2> HIDE DEF V, G, a0, n
  <2>1. \A k \in 0..n : k = 0 \/ k \in 1..n
    BY <1>0
  <2> QED BY <1>1, <1>3, <2>1
<1>5. \A k \in 0..n : f[k] \in Accs /\ Cardinality(f[k].left) = n - k
  <2> HIDE DEF Accs, G, a0, n
  <2> QED BY <1>4
<1>6. \A k \in 0..n : g[k] = IF k = 0 THEN a0 ELSE CountedIn(g[k - 1])
  <2> HIDE DEF Accs, V, a0, n
  <2> TAKE k \in 0..n
  <2>1. CASE k = 0
    BY <1>3, <2>1
  <2>2. CASE k # 0
    <3>1. k \in 1..n /\ k - 1 \in 0..n
      BY <1>0, <2>2
    <3>2. f[k - 1] \in Accs
      BY <1>5, <3>1
    <3> QED BY <1>3, <2>2, <3>1, <3>2
  <2> QED BY <2>1, <2>2
<1>7. g = [k \in 0..Cardinality(T) |-> IF k = 0 THEN [left |-> T, lines |-> texts, records |-> {}] ELSE CountedIn(g[k - 1])]
  <2>1. g = [k \in 0..n |-> g[k]]
    OBVIOUS
  <2> HIDE DEF g
  <2> QED BY <1>6, <2>1
<1>8. after = [k \in 0..Cardinality(T) |-> IF k = 0 THEN [left |-> T, lines |-> texts, records |-> {}]
                                           ELSE CountedIn(after[k - 1])]
  <2> HIDE DEF g
  <2> QED BY <1>7 DEF after
<1>9. Counting(T, texts) = after
  BY DEF Counting, after
<1> HIDE DEF after
<1>10. \A k \in 0..n : after[k] = f[k]
  <2> DEFINE S == {k \in 0..n : after[k] = f[k]}
  <2>0. \A k \in 0..n : after[k] = IF k = 0 THEN a0 ELSE CountedIn(after[k - 1])
    BY <1>8
  <2>a. \A k \in 0..n : f[k] = IF k = 0 THEN a0 ELSE CountedIn(f[k - 1])
    <3> HIDE DEF a0
    <3>1. \A k \in 0..n : k # 0 => k - 1 \in 0..n
      BY <1>0
    <3> HIDE DEF n
    <3> QED BY <1>6, <3>1
  <2> HIDE DEF a0, n
  <2>1. 0 \in S
    <3>1. 0 \in 0..n
      BY <1>0
    <3> QED BY <2>0, <2>a, <3>1
  <2>2. ASSUME NEW k \in 1..n, k - 1 \in S PROVE k \in S
    <3>1. k \in 0..n /\ k # 0
      BY <1>0
    <3> QED BY <2>0, <2>a, <2>2, <3>1
  <2>3. \A k \in 0..n : k \in S
    <3> HIDE DEF S
    <3> QED BY <1>0, <2>1, <2>2, UpTo
  <2> QED BY <2>3
<1>11. acc = f[n] /\ n \in 0..n
  <2>1. n \in 0..n
    BY <1>0
  <2>2. acc = after[n]
    BY <1>9
  <2> HIDE DEF n
  <2> QED BY <1>10, <2>1, <2>2
<1>12. acc \in Accs /\ Cardinality(acc.left) = 0
  <2>1. n - n = 0
    BY <1>0
  <2> HIDE DEF Accs, n
  <2> QED BY <1>5, <1>11, <2>1
<1>13. acc.left \in SUBSET T
  BY <1>12 DEF AccForm
<1>14. acc.left = {}
  BY <1>12, <1>13, FS_Subset, FS_EmptySet
<1> QED BY <1>12, <1>14

AreRecords(R, T, texts) ==
    /\ R \subseteq RecordForm(T)
    /\ \A r \in R : IsRecord(r, texts, T)
    /\ \A r, q \in R : r.term = q.term => r = q
    /\ \A a \in T : Cardinality(OnlyTerm(texts, a.src, T)) >= shelf.min => \E r \in R : r.term = a

LEMMA RecordsFacts ==
    ASSUME NEW T \in SUBSET CandForm, IsFiniteSet(T), AreApart(T), NEW texts \in Seq(Seq(Letter)), shelf.refs \in Nat,
           shelf.min \in Nat
    PROVE  AreRecords(RecordsOf(T, texts), T, texts)
<1> DEFINE acc == Counting(T, texts)[Cardinality(T)]
           R == RecordsOf(T, texts)
<1>1. IsCount(acc, T, texts) /\ acc.left = {}
  BY CountingFacts
<1>2. R = {r \in acc.records : r.frequency >= shelf.min}
  BY DEF RecordsOf
<1> HIDE DEF acc, R
<1>3. /\ acc.records \in SUBSET RecordForm(T)
      /\ \A r \in acc.records : IsRecord(r, texts, T)
      /\ \A x \in T : \E r \in acc.records : r.term = x
      /\ \A r, q \in acc.records : r.term = q.term => r = q
  BY <1>1 DEF IsCount, AccForm
<1>4. ASSUME NEW a \in T, Cardinality(OnlyTerm(texts, a.src, T)) >= shelf.min PROVE \E r \in R : r.term = a
  <2>1. PICK r \in acc.records : r.term = a
    BY <1>3
  <2>2. Cardinality(OnlyTerm(texts, a.src, T)) <= r.frequency /\ r.frequency \in Nat
    BY <1>3, <2>1 DEF IsRecord, RecordForm
  <2>3. Cardinality(OnlyTerm(texts, a.src, T)) \in Nat
    <3>1. Len(texts) \in Nat /\ OnlyTerm(texts, a.src, T) \in SUBSET (1..Len(texts))
      BY DEF OnlyTerm, WithTerm
    <3> QED BY <3>1, PlacesCount
  <2>4. r.frequency >= shelf.min
    BY <1>4, <2>2, <2>3
  <2> QED BY <1>2, <2>1, <2>4
<1> QED BY <1>2, <1>3, <1>4 DEF AreRecords, R

-----------------------------------------------------------------------------
(* The books of the folder.                                                *)

MarkForm == [status : {"PENDING", "COMPLETED", "FAILED"}, terms : Seq(TermForm)]
\* the request is one of the folders
LEMMA FolderForm ==
    ASSUME shelf \in Folders
    PROVE  /\ shelf.books \in Seq(BookForm) /\ shelf.refs \in Nat /\ shelf.min \in Nat /\ shelf.joins \in BOOLEAN
           /\ Len(shelf.books) \in Nat /\ DOMAIN shelf.books = 1..Len(shelf.books) /\ 1 \in DOMAIN shelf.books
           /\ \A b \in DOMAIN shelf.books : /\ shelf.books[b].stem \in STRING
                                            /\ LinesOfBook(b) \in Seq(Seq(Letter))
<1>1. shelf \in [books : Seq(BookForm) \ {<<>>}, joins : BOOLEAN, min : Nat, refs : Nat]
  BY GlossaryAssumption
<1>2. shelf.books \in Seq(BookForm) /\ shelf.books # <<>>
  BY <1>1
<1>3. ASSUME NEW b \in DOMAIN shelf.books PROVE shelf.books[b].stem \in STRING /\ LinesOfBook(b) \in Seq(Seq(Letter))
  <2>1. shelf.books[b] \in BookForm
    BY <1>2
  <2>2. shelf.books[b].chunks \in Seq(Seq(Seq(STRING))) /\ shelf.books[b].stem \in STRING
    BY <2>1 DEF BookForm
  <2>3. FlattenSeq(shelf.books[b].chunks) \in Seq(Seq(STRING))
    BY <2>2, FlattenMembers
  <2>4. Seq(Seq(STRING)) \subseteq Seq(Seq(Letter))
    BY DEF Letter
  <2> QED BY <2>2, <2>3, <2>4 DEF LinesOfBook
<1> QED BY <1>1, <1>2, <1>3

\* the terms of a book
LEMMA TermsForm ==
    ASSUME marks \in Seq(MarkForm), NEW b
    PROVE  TermsOf(b) \in Seq(TermForm) /\ FoundIn(b) = Wanted(TermsOf(b))
<1> DEFINE P == {c \in DOMAIN marks : marks[c].status = "COMPLETED" /\ ChunkList[c].book = b}
           done == Picked(marks, P)
           parts == [i \in DOMAIN done |-> done[i].terms]
<1>1. done \in Seq(MarkForm)
  <2> HIDE DEF P
  <2> QED BY PickedFacts
<1> HIDE DEF done
<1>2. parts \in Seq(Seq(TermForm))
  <2>1. DOMAIN done = 1..Len(done) /\ Len(done) \in Nat /\ \A i \in 1..Len(done) : done[i].terms \in Seq(TermForm)
    <3>1. DOMAIN done = 1..Len(done) /\ Len(done) \in Nat /\ \A i \in 1..Len(done) : done[i] \in MarkForm
      BY <1>1, SeqPlaces
    <3> QED BY <3>1 DEF MarkForm
  <2> QED BY <2>1
<1>3. TermsOf(b) = FlattenSeq(parts)
  BY DEF TermsOf, parts, done
<1> HIDE DEF parts
<1>4. TermsOf(b) \in Seq(TermForm)
  BY <1>2, <1>3, FlattenMembers
<1> QED BY <1>4 DEF FoundIn, Wanted

\* the records of a book are those of the terms that were found in it
LEMMA BookFacts ==
    ASSUME shelf \in Folders, marks \in Seq(MarkForm), NEW b \in DOMAIN shelf.books
    PROVE  \E T \in SUBSET CandForm :
               IsNormal(T, FoundIn(b)) /\ AreApart(T) /\ AreRecords(BookRecords(b), T, LinesOfBook(b))
<1> DEFINE T == Normalized(TermsOf(b))
<1>1. IsNormal(T, FoundIn(b))
  BY TermsForm, NormalizedFacts
<1>2. BookRecords(b) = RecordsOf(T, LinesOfBook(b))
  BY DEF BookRecords
<1> HIDE DEF T
<1>3. T \in SUBSET CandForm /\ IsFiniteSet(T) /\ AreApart(T)
  BY <1>1 DEF IsNormal, AreApart
<1>4. AreRecords(RecordsOf(T, LinesOfBook(b)), T, LinesOfBook(b))
  BY <1>3, FolderForm, RecordsFacts
<1> QED BY <1>1, <1>2, <1>3, <1>4

\* what is shown of a book is true
LEMMA BookIsTrue ==
    ASSUME shelf \in Folders, marks \in Seq(MarkForm), NEW b \in DOMAIN shelf.books, NEW R, R = BookRecords(b)
    PROVE  /\ \A r \in R : IsShownTrue(b, r)
           /\ \A t \in FoundIn(b) :
                  {x.src : x \in SameKey(b, t.src)} = {t.src} /\ Cardinality(AloneIn(b, t.src)) >= shelf.min
                      => \E r \in R : Fold[r.term.src] = Fold[t.src]
           /\ \A r, q \in R : r # q => Fold[r.term.src] # Fold[q.term.src]
<1> DEFINE texts == LinesOfBook(b)
<1>1. PICK T \in SUBSET CandForm : IsNormal(T, FoundIn(b)) /\ AreApart(T) /\ AreRecords(R, T, texts)
  BY BookFacts
<1>2. texts \in Seq(Seq(Letter)) /\ Len(texts) \in Nat /\ DOMAIN texts = 1..Len(texts)
  BY FolderForm
<1>3. /\ R \subseteq RecordForm(T)
      /\ \A r \in R : IsRecord(r, texts, T)
      /\ \A r, q \in R : r.term = q.term => r = q
      /\ \A a \in T : Cardinality(OnlyTerm(texts, a.src, T)) >= shelf.min => \E r \in R : r.term = a
  BY <1>1 DEF AreRecords
<1>4. /\ \A a \in T : a.src \in {t.src : t \in FoundIn(b)} /\ \E t \in FoundIn(b) : Fold[t.src] = Fold[a.src] /\ t.dst = a.dst
      /\ \A a, c \in T : Fold[a.src] = Fold[c.src] => a = c
      /\ \A t \in FoundIn(b) : \E a \in T : Fold[a.src] = Fold[t.src]
  BY <1>1 DEF IsNormal
<1>5. \A src : LinesFor(b, src) = WithTerm(texts, src)
  BY DEF LinesFor, WithTerm
<1>6. ASSUME NEW src
      PROVE  /\ AloneIn(b, src) \subseteq OnlyTerm(texts, src, T) /\ OnlyTerm(texts, src, T) \in SUBSET (1..Len(texts))
             /\ Cardinality(AloneIn(b, src)) <= Cardinality(OnlyTerm(texts, src, T))
             /\ Cardinality(AloneIn(b, src)) \in Nat /\ Cardinality(OnlyTerm(texts, src, T)) \in Nat
  <2>1. AloneIn(b, src) \subseteq OnlyTerm(texts, src, T)
    <3> SUFFICES ASSUME NEW i \in AloneIn(b, src) PROVE i \in OnlyTerm(texts, src, T)
      OBVIOUS
    <3>1. i \in WithTerm(texts, src) /\ \A t \in FoundIn(b) : t.src # src => ~HasTerm(texts[i], t.src)
      BY <1>5 DEF AloneIn
    <3>2. \A x \in T : x.src # src => ~HasTerm(texts[i], x.src)
      BY <1>4, <3>1
    <3> QED BY <3>1, <3>2 DEF OnlyTerm
  <2>2. OnlyTerm(texts, src, T) \in SUBSET (1..Len(texts))
    BY <1>2 DEF OnlyTerm, WithTerm
  <2> HIDE DEF texts
  <2> QED BY <1>2, <2>1, <2>2, PlacesCount
<1> HIDE DEF texts
<1>7. ASSUME NEW r \in R PROVE IsShownTrue(b, r)
  <2>1. r.term \in T /\ r.frequency \in Nat /\ IsRecord(r, texts, T)
    BY <1>3 DEF RecordForm
  <2>2. r.term.src \in {t.src : t \in FoundIn(b)}
    BY <1>4, <2>1
  <2>3. r.term.dst \in {t.dst : t \in SameKey(b, r.term.src)}
    BY <1>4, <2>1 DEF SameKey
  <2>4. ToSet(r.refs) \subseteq LinesFor(b, r.term.src)
    BY <1>5, <2>1 DEF IsRecord
  <2>5. Cardinality(AloneIn(b, r.term.src)) <= r.frequency
    <3>1. Cardinality(OnlyTerm(texts, r.term.src, T)) <= r.frequency
      BY <2>1 DEF IsRecord
    <3>2. /\ Cardinality(AloneIn(b, r.term.src)) <= Cardinality(OnlyTerm(texts, r.term.src, T))
          /\ Cardinality(AloneIn(b, r.term.src)) \in Nat /\ Cardinality(OnlyTerm(texts, r.term.src, T)) \in Nat
      BY <1>6
    <3> QED BY <2>1, <3>1, <3>2
  <2>6. r.frequency <= Cardinality(LinesFor(b, r.term.src))
    BY <1>5, <2>1 DEF IsRecord
  <2> QED BY <2>2, <2>3, <2>4, <2>5, <2>6 DEF IsShownTrue
<1>8. ASSUME NEW t \in FoundIn(b), {x.src : x \in SameKey(b, t.src)} = {t.src}, Cardinality(AloneIn(b, t.src)) >= shelf.min
      PROVE  \E r \in R : Fold[r.term.src] = Fold[t.src]
  <2>1. PICK a \in T : Fold[a.src] = Fold[t.src]
    BY <1>4
  <2>2. PICK x \in FoundIn(b) : x.src = a.src
    BY <1>4
  <2>3. x \in SameKey(b, t.src)
    BY <2>1, <2>2 DEF SameKey
  <2>4. a.src = t.src
    BY <1>8, <2>2, <2>3
  <2>5. Cardinality(OnlyTerm(texts, a.src, T)) >= shelf.min
    <3>1. /\ Cardinality(AloneIn(b, t.src)) <= Cardinality(OnlyTerm(texts, t.src, T))
          /\ Cardinality(AloneIn(b, t.src)) \in Nat /\ Cardinality(OnlyTerm(texts, t.src, T)) \in Nat
      BY <1>6
    <3>2. shelf.min \in Nat
      BY FolderForm
    <3> QED BY <1>8, <2>4, <3>1, <3>2
  <2>6. PICK r \in R : r.term = a
    BY <1>3, <2>5
  <2> QED BY <2>1, <2>6
<1>9. ASSUME NEW r \in R, NEW q \in R, r # q PROVE Fold[r.term.src] # Fold[q.term.src]
  <2>1. r.term \in T /\ q.term \in T /\ r.term # q.term
    BY <1>3, <1>9 DEF RecordForm
  <2> QED BY <1>4, <2>1
<1> QED BY <1>7, <1>8, <1>9

\* and counts for a term only the lines in which it stands
LEMMA BookCountsOnce ==
    ASSUME shelf \in Folders, marks \in Seq(MarkForm), NEW b \in DOMAIN shelf.books, Shown(b) = BookRecords(b),
           NEW r \in BookRecords(b), NEW text, text = LinesOfBook(b)
    PROVE  r.frequency <= Cardinality({i \in DOMAIN text : \E j \in DOMAIN text[i] : StandsAt(b, text[i], j, r)})
<1>1. PICK T \in SUBSET CandForm : IsNormal(T, FoundIn(b)) /\ AreApart(T) /\ AreRecords(BookRecords(b), T, text)
  BY BookFacts
<1>2. text \in Seq(Seq(Letter)) /\ Len(text) \in Nat /\ DOMAIN text = 1..Len(text)
  BY FolderForm
<1>3. /\ r.term \in T /\ r.frequency \in Nat /\ IsRecord(r, text, T)
      /\ \A x \in Shown(b) : x.term \in T
  BY <1>1 DEF AreRecords, RecordForm
<1>4. \A a \in T : \E t \in FoundIn(b) : t.src = a.src
  <2>1. \A a \in T : a.src \in {t.src : t \in FoundIn(b)}
    BY <1>1 DEF IsNormal
  <2> QED BY <2>1
<1> DEFINE A == WhereStands(text, r.term.src, T)
           B == {i \in DOMAIN text : \E j \in DOMAIN text[i] : StandsAt(b, text[i], j, r)}
<1>5. ASSUME NEW line, NEW j \in DOMAIN line, Stands(line, j, r.term.src, T) PROVE StandsAt(b, line, j, r)
  <2>1. MatchesAt(line, j, r.term.src)
    BY <1>5 DEF Stands
  <2>2. ASSUME NEW x \in Shown(b), NEW p \in DOMAIN line, Len(x.term.src) > Len(r.term.src),
               MatchesAt(line, p, x.term.src), Span(j, r.term.src) \subseteq Span(p, x.term.src)
        PROVE  \E y \in FoundIn(b) : \E q \in DOMAIN line :
                   /\ Len(y.src) >= Len(x.term.src) /\ MatchesAt(line, q, y.src)
                   /\ Span(q, y.src) \cap Span(p, x.term.src) # {} /\ Span(q, y.src) \cap Span(j, r.term.src) = {}
    <3>1. x.term \in T
      BY <1>3
    <3>2. PICK y \in T : \E q \in DOMAIN line :
                   /\ Len(y.src) >= Len(x.term.src) /\ MatchesAt(line, q, y.src)
                   /\ Span(q, y.src) \cap Span(p, x.term.src) # {} /\ Span(q, y.src) \cap Span(j, r.term.src) = {}
      BY <1>5, <2>2, <3>1 DEF Stands
    <3>3. PICK t \in FoundIn(b) : t.src = y.src
      BY <1>4
    <3> QED BY <3>2, <3>3
  <2> QED BY <2>1, <2>2 DEF StandsAt
<1>6. A \in SUBSET B /\ B \in SUBSET (1..Len(text))
  BY <1>2, <1>5 DEF WhereStands
<1>7. r.frequency <= Cardinality(A)
  BY <1>3 DEF IsRecord
<1> HIDE DEF A, B
<1>8. Cardinality(A) \in Nat /\ Cardinality(B) \in Nat /\ Cardinality(A) <= Cardinality(B)
  BY <1>2, <1>6, PlacesCount
<1>9. r.frequency <= Cardinality(B)
  BY <1>3, <1>7, <1>8
<1> QED BY <1>9 DEF B

-----------------------------------------------------------------------------
(* The examples of a combined record are dealt out in rounds.              *)

Ref == Nat \X Nat
FromBook(taken, vol) == Cardinality({k \in DOMAIN taken : taken[k][1] = vol})
TextsOf(taken) == {ReferenceText(p) : p \in ToSet(taken)}
UsedIn(taken, list) == \A k \in DOMAIN list : ReferenceText(list[k]) \in TextsOf(taken)
\* the examples of each book
AreLists(lists, books) ==
    /\ lists \in Seq(Seq(Ref)) /\ books \in [1..Len(lists) -> Nat]
    /\ \A i, j \in 1..Len(lists) : books[i] = books[j] => i = j
    /\ \A i \in 1..Len(lists) : \A k \in DOMAIN lists[i] : lists[i][k][1] = books[i]
\* what is taken after the turn of the i-th book in round d
IsDeal(taken, d, i, lists, books, cap) ==
    /\ taken \in Seq(Ref) /\ Len(taken) <= cap
    /\ IsFiniteSet(TextsOf(taken)) /\ Cardinality(TextsOf(taken)) = Len(taken)
    /\ \A j \in 1..Len(lists) :
           /\ FromBook(taken, books[j]) <= IF j <= i THEN d ELSE d - 1
           /\ \/ FromBook(taken, books[j]) >= IF j <= i THEN d ELSE d - 1
              \/ UsedIn(taken, lists[j]) \/ Len(taken) >= cap
    /\ \A j, k \in 1..Len(lists) :
           FromBook(taken, books[j]) + 1 < FromBook(taken, books[k]) => UsedIn(taken, lists[j])

LEMMA FromNat ==
    ASSUME NEW taken \in Seq(Ref), NEW vol
    PROVE  FromBook(taken, vol) \in Nat
<1>1. Len(taken) \in Nat /\ {k \in DOMAIN taken : taken[k][1] = vol} \in SUBSET (1..Len(taken))
  OBVIOUS
<1> QED BY <1>1, PlacesCount DEF FromBook

HasOneMore(new, taken, x) ==
    /\ new \in Seq(Ref) /\ Len(new) = Len(taken) + 1
    /\ TextsOf(taken) \subseteq TextsOf(new)
    /\ IsFiniteSet(TextsOf(new)) /\ Cardinality(TextsOf(new)) = Cardinality(TextsOf(taken)) + 1
    /\ \A vol : FromBook(new, vol) = IF x[1] = vol THEN FromBook(taken, vol) + 1 ELSE FromBook(taken, vol)
LEMMA OneTaken ==
    ASSUME NEW taken \in Seq(Ref), IsFiniteSet(TextsOf(taken)), NEW x \in Ref, ReferenceText(x) \notin TextsOf(taken),
           NEW new, new = Append(taken, x)
    PROVE  HasOneMore(new, taken, x)
<1> DEFINE n == Len(taken)
<1>1. new \in Seq(Ref) /\ Len(new) = n + 1 /\ new[n + 1] = x /\ n \in Nat /\ \A k \in 1..n : new[k] = taken[k]
  OBVIOUS
<1>2. ToSet(new) = ToSet(taken) \cup {x}
  BY AppendToSet
<1>3. TextsOf(new) = TextsOf(taken) \cup {ReferenceText(x)}
  BY <1>2 DEF TextsOf
<1>4. IsFiniteSet(TextsOf(new)) /\ Cardinality(TextsOf(new)) = Cardinality(TextsOf(taken)) + 1
  BY <1>3, FS_AddElement
<1>5. ASSUME NEW vol PROVE FromBook(new, vol) = IF x[1] = vol THEN FromBook(taken, vol) + 1 ELSE FromBook(taken, vol)
  <2> DEFINE A == {k \in DOMAIN taken : taken[k][1] = vol}
             B == {k \in DOMAIN new : new[k][1] = vol}
  <2>1. DOMAIN new = 1..(n + 1) /\ DOMAIN taken = 1..n
    BY <1>1
  <2>2. A \in SUBSET (1..n) /\ n + 1 \notin A
    BY <1>1, <2>1
  <2>3. IsFiniteSet(A)
    BY <1>1, <2>2, PlacesCount
  <2>4. CASE x[1] = vol
    <3>1. B = A \cup {n + 1}
      BY <1>1, <2>1, <2>4
    <3> HIDE DEF A, B
    <3>2. Cardinality(B) = Cardinality(A) + 1
      BY <2>2, <2>3, <3>1, FS_AddElement
    <3> QED BY <2>4, <3>2 DEF FromBook, A, B
  <2>5. CASE x[1] # vol
    <3>1. B = A
      BY <1>1, <2>1, <2>5
    <3> QED BY <2>5, <3>1 DEF FromBook
  <2> QED BY <2>4, <2>5
<1> QED BY <1>1, <1>3, <1>4, <1>5 DEF HasOneMore

\* the turn of one book
LEMMA TurnFacts ==
    ASSUME NEW lists, NEW books, AreLists(lists, books), NEW cap \in Nat, NEW d \in Nat, d >= 1, NEW i \in 1..Len(lists),
           NEW taken, IsDeal(taken, d, i - 1, lists, books, cap)
    PROVE  IsDeal(Turn(taken, lists[i], cap), d, i, lists, books, cap)
<1> DEFINE list == lists[i]
           P == {k \in DOMAIN list : \A c \in ToSet(taken) : ReferenceText(c) # ReferenceText(list[k])}
           free == NewOf(list, taken)
           new == Turn(taken, list, cap)
           From(j) == FromBook(taken, books[j])
<1>1. /\ lists \in Seq(Seq(Ref)) /\ books \in [1..Len(lists) -> Nat] /\ Len(lists) \in Nat
      /\ \A j, k \in 1..Len(lists) : books[j] = books[k] => j = k
      /\ list \in Seq(Ref) /\ \A k \in DOMAIN list : list[k][1] = books[i]
  BY DEF AreLists
<1>2. /\ taken \in Seq(Ref) /\ Len(taken) <= cap /\ Len(taken) \in Nat
      /\ IsFiniteSet(TextsOf(taken)) /\ Cardinality(TextsOf(taken)) = Len(taken)
  BY DEF IsDeal
<1>3. /\ \A j \in 1..Len(lists) :
             /\ From(j) <= IF j <= i - 1 THEN d ELSE d - 1
             /\ \/ From(j) >= IF j <= i - 1 THEN d ELSE d - 1
                \/ UsedIn(taken, lists[j]) \/ Len(taken) >= cap
      /\ \A j, k \in 1..Len(lists) : From(j) + 1 < From(k) => UsedIn(taken, lists[j])
  BY DEF IsDeal
<1>4. \A j \in 1..Len(lists) : From(j) \in Nat
  BY <1>2, FromNat
<1>5. free = Picked(list, P)
  BY DEF NewOf
<1> HIDE DEF list, From, free
<1>6. \A j \in 1..Len(lists) : (j <= i <=> j <= i - 1 \/ j = i) /\ i \in Nat
  BY <1>1
<1>7. CASE Len(taken) >= cap \/ free = <<>>
  <2>1. new = taken
    BY <1>7 DEF Turn, free
  <2>2. Len(taken) >= cap \/ UsedIn(taken, lists[i])
    <3> SUFFICES ASSUME free = <<>> PROVE UsedIn(taken, list)
      BY <1>7 DEF list
    <3> DEFINE at == InOrder(P, Len(list))
    <3>0. DOMAIN list = 1..Len(list)
      BY <1>1
    <3> HIDE DEF P
    <3>1. at \in Seq(1..Len(list)) /\ ToSet(at) = P \cap (1..Len(list)) /\ Len(Picked(list, P)) = Len(at)
      BY <1>1, PickedFacts
    <3>2. Len(at) = 0
      BY <1>5, <3>1
    <3>3. P \cap (1..Len(list)) = {}
      <4> HIDE DEF at
      <4>1. ToSet(at) = {at[k] : k \in 1..0}
        BY <3>1, <3>2, SeqToSet
      <4> QED BY <3>1, <4>1
    <3>4. \A k \in DOMAIN list : \E c \in ToSet(taken) : ReferenceText(c) = ReferenceText(list[k])
      BY <3>0, <3>3 DEF P
    <3> QED BY <3>4 DEF UsedIn, TextsOf
  <2>3. \A j \in 1..Len(lists) :
             /\ From(j) <= IF j <= i THEN d ELSE d - 1
             /\ \/ From(j) >= IF j <= i THEN d ELSE d - 1
                \/ UsedIn(taken, lists[j]) \/ Len(taken) >= cap
    <3> TAKE j \in 1..Len(lists)
    <3>1. CASE j = i
      BY <1>3, <1>4, <1>6, <2>2, <3>1
    <3>2. CASE j # i
      BY <1>3, <1>6, <3>2
    <3> QED BY <3>1, <3>2
  <2>4. IsDeal(taken, d, i, lists, books, cap)
    BY <1>2, <1>3, <2>3 DEF IsDeal, From
  <2> QED BY <2>1, <2>4 DEF list
<1>8. CASE ~(Len(taken) >= cap \/ free = <<>>)
  <2> DEFINE x == Head(free)
  <2>1. new = Append(taken, x)
    BY <1>8 DEF Turn, free
  <2>2. x \in Ref /\ ReferenceText(x) \notin TextsOf(taken) /\ x[1] = books[i]
    <3> DEFINE at == InOrder(P, Len(list))
    <3>0. DOMAIN list = 1..Len(list)
      BY <1>1
    <3>1. /\ free \in Seq(Ref) /\ Len(free) = Len(at) /\ at \in Seq(1..Len(list))
          /\ \A k \in 1..Len(at) : free[k] = list[at[k]] /\ at[k] \in P \cap (1..Len(list))
      <4> HIDE DEF P
      <4> QED BY <1>1, <1>5, PickedFacts
    <3>2. Len(free) \in Nat /\ Len(free) # 0 /\ x = free[1]
      BY <1>8, <3>1
    <3> HIDE DEF at
    <3>3. 1 \in 1..Len(at)
      BY <3>1, <3>2
    <3>4. PICK k \in P : x = list[k]
      BY <3>1, <3>2, <3>3
    <3>5. \A c \in ToSet(taken) : ReferenceText(c) # ReferenceText(x)
      BY <3>4
    <3>6. x \in Ref /\ x[1] = books[i]
      BY <1>1, <3>0, <3>4
    <3> QED BY <3>5, <3>6 DEF TextsOf
  <2> HIDE DEF x, new
  <2>3. /\ new \in Seq(Ref) /\ Len(new) = Len(taken) + 1
        /\ TextsOf(taken) \subseteq TextsOf(new)
        /\ IsFiniteSet(TextsOf(new)) /\ Cardinality(TextsOf(new)) = Cardinality(TextsOf(taken)) + 1
        /\ \A vol : FromBook(new, vol) = IF x[1] = vol THEN FromBook(taken, vol) + 1 ELSE FromBook(taken, vol)
    <3>1. HasOneMore(new, taken, x)
      BY <1>2, <2>1, <2>2, OneTaken
    <3> QED BY <3>1 DEF HasOneMore
  <2>4. \A j \in 1..Len(lists) : FromBook(new, books[j]) = IF j = i THEN From(j) + 1 ELSE From(j)
    BY <1>1, <2>2, <2>3 DEF From
  <2>5. \A j \in 1..Len(lists) : UsedIn(taken, lists[j]) => UsedIn(new, lists[j])
    BY <2>3 DEF UsedIn
  <2>6. \A j \in 1..Len(lists) :
             /\ FromBook(new, books[j]) <= IF j <= i THEN d ELSE d - 1
             /\ \/ FromBook(new, books[j]) >= IF j <= i THEN d ELSE d - 1
                \/ UsedIn(new, lists[j]) \/ Len(new) >= cap
    <3> TAKE j \in 1..Len(lists)
    <3>0. ~(Len(taken) >= cap)
      BY <1>8
    <3>1. CASE j = i
      <4>1. FromBook(new, books[j]) = From(j) + 1 /\ ~(j <= i - 1) /\ j <= i
        BY <1>1, <2>4, <3>1
      <4>2. From(j) <= d - 1 /\ (From(j) >= d - 1 \/ UsedIn(taken, lists[j]))
        BY <1>3, <3>0, <4>1
      <4> QED BY <1>4, <2>5, <4>1, <4>2
    <3>2. CASE j # i
      <4>1. FromBook(new, books[j]) = From(j) /\ (j <= i <=> j <= i - 1)
        BY <1>6, <2>4, <3>2
      <4> QED BY <1>3, <2>5, <3>0, <4>1
    <3> QED BY <3>1, <3>2
  <2>7. ASSUME NEW j \in 1..Len(lists), NEW k \in 1..Len(lists), FromBook(new, books[j]) + 1 < FromBook(new, books[k])
        PROVE  UsedIn(new, lists[j])
    <3>1. CASE k # i
      <4>1. From(j) <= FromBook(new, books[j]) /\ FromBook(new, books[k]) = From(k) /\ FromBook(new, books[j]) \in Nat
        BY <1>4, <2>4, <3>1
      <4>2. From(j) + 1 < From(k)
        BY <1>4, <2>7, <4>1
      <4> QED BY <1>3, <2>5, <4>2
    <3>2. CASE k = i
      <4>1. FromBook(new, books[k]) = From(k) + 1 /\ From(k) <= d - 1
        BY <1>1, <1>3, <2>4, <3>2
      <4>2. From(j) <= FromBook(new, books[j]) /\ FromBook(new, books[j]) \in Nat
        BY <1>4, <2>4
      <4>3. From(j) + 1 < d
        BY <1>4, <2>7, <4>1, <4>2
      <4>4. ~(From(j) >= d) /\ ~(From(j) >= d - 1)
        BY <1>4, <4>3
      <4>5. UsedIn(taken, lists[j])
        BY <1>3, <1>8, <4>4
      <4> QED BY <2>5, <4>5
    <3> QED BY <3>1, <3>2
  <2>8. Len(new) <= cap /\ Cardinality(TextsOf(new)) = Len(new)
    BY <1>2, <1>8, <2>3
  <2>9. IsDeal(new, d, i, lists, books, cap)
    BY <2>3, <2>6, <2>7, <2>8 DEF IsDeal
  <2> QED BY <2>9 DEF new, list
<1> QED BY <1>7, <1>8

\* a round is the turns of all books
LEMMA RoundFacts ==
    ASSUME NEW lists, NEW books, AreLists(lists, books), NEW cap \in Nat, NEW d \in Nat, d >= 1,
           NEW taken, IsDeal(taken, d - 1, Len(lists), lists, books, cap)
    PROVE  IsDeal(Round(taken, lists, cap), d, Len(lists), lists, books, cap)
<1> DEFINE n == Len(lists)
           Good(i) == {t \in Seq(Ref) : IsDeal(t, d, i, lists, books, cap)}
           V == [i \in 0..n |-> Good(i)]
           G == [i \in 1..n |-> [t \in Good(i - 1) |-> Turn(t, lists[i], cap)]]
           after[i \in 0..Len(lists)] == IF i = 0 THEN taken ELSE Turn(after[i - 1], lists[i], cap)
<1>0. n \in Nat
  BY DEF AreLists
<1>1. taken \in Good(0)
  <2>1. /\ taken \in Seq(Ref) /\ Len(taken) <= cap /\ IsFiniteSet(TextsOf(taken)) /\ Cardinality(TextsOf(taken)) = Len(taken)
        /\ \A j \in 1..n : /\ FromBook(taken, books[j]) <= IF j <= n THEN d - 1 ELSE (d - 1) - 1
                           /\ \/ FromBook(taken, books[j]) >= IF j <= n THEN d - 1 ELSE (d - 1) - 1
                              \/ UsedIn(taken, lists[j]) \/ Len(taken) >= cap
        /\ \A j, k \in 1..n : FromBook(taken, books[j]) + 1 < FromBook(taken, books[k]) => UsedIn(taken, lists[j])
    BY DEF IsDeal
  <2>2. \A j \in 1..n : j <= n /\ ~(j <= 0)
    BY <1>0
  <2>3. \A j \in 1..n : /\ FromBook(taken, books[j]) <= IF j <= 0 THEN d ELSE d - 1
                        /\ \/ FromBook(taken, books[j]) >= IF j <= 0 THEN d ELSE d - 1
                           \/ UsedIn(taken, lists[j]) \/ Len(taken) >= cap
    BY <2>1, <2>2
  <2>4. IsDeal(taken, d, 0, lists, books, cap)
    BY <2>1, <2>3 DEF IsDeal
  <2> QED BY <2>1, <2>4
<1>2. \A i \in 1..n : \A t \in Good(i - 1) : Turn(t, lists[i], cap) \in Good(i)
  <2> TAKE i \in 1..n
  <2> TAKE t \in Good(i - 1)
  <2>1. IsDeal(Turn(t, lists[i], cap), d, i, lists, books, cap)
    BY TurnFacts
  <2> QED BY <2>1 DEF IsDeal
<1> HIDE DEF Good
<1>3. PICK f : f[0] = taken /\ \A i \in 1..n : f[i] \in Good(i) /\ f[i] = Turn(f[i - 1], lists[i], cap)
  <2>1. \A i \in 1..n : V[i] = Good(i) /\ V[i - 1] = Good(i - 1) /\ i - 1 \in 0..n /\ i \in 0..n
    BY <1>0
  <2>2. V[0] = Good(0)
    BY <1>0
  <2>3. \A i \in 1..n : \A t \in Good(i - 1) : G[i][t] = Turn(t, lists[i], cap)
    OBVIOUS
  <2> HIDE DEF V, G, n
  <2>4. StepsWithin(n, V, taken, G)
    BY <1>1, <1>2, <2>1, <2>2, <2>3 DEF StepsWithin
  <2>5. PICK f : f[0] = taken /\ \A i \in 1..n : f[i] \in V[i] /\ f[i] = G[i][f[i - 1]]
    BY <1>0, <2>4, Recursion DEF HasRun
  <2>6. \A i \in 1..n : f[i] \in Good(i)
    BY <2>1, <2>5
  <2>7. \A i \in 1..n : f[i - 1] \in Good(i - 1)
    <3> TAKE i \in 1..n
    <3>1. i - 1 = 0 \/ i - 1 \in 1..n
      BY <1>0
    <3> QED BY <1>1, <2>5, <2>6, <3>1
  <2>8. \A i \in 1..n : f[i] = Turn(f[i - 1], lists[i], cap)
    BY <2>3, <2>5, <2>7
  <2> QED BY <2>5, <2>6, <2>8
<1> DEFINE g == [i \in 0..n |-> f[i]]
<1>4. \A i \in 0..n : g[i] = IF i = 0 THEN taken ELSE Turn(g[i - 1], lists[i], cap)
  <2> TAKE i \in 0..n
  <2>1. i # 0 => i \in 1..n /\ i - 1 \in 0..n
    BY <1>0
  <2> HIDE DEF n
  <2> QED BY <1>3, <2>1
<1>5. g = [i \in 0..Len(lists) |-> IF i = 0 THEN taken ELSE Turn(g[i - 1], lists[i], cap)]
  <2>1. g = [i \in 0..n |-> g[i]]
    OBVIOUS
  <2> HIDE DEF g
  <2> QED BY <1>4, <2>1
<1>6. after = [i \in 0..Len(lists) |-> IF i = 0 THEN taken ELSE Turn(after[i - 1], lists[i], cap)]
  <2> HIDE DEF g
  <2> QED BY <1>5 DEF after
<1>7. Round(taken, lists, cap) = after[n]
  BY DEF Round, after
<1> HIDE DEF after, g
<1>8. \A i \in 0..n : after[i] \in Good(i)
  <2> DEFINE S == {i \in 0..n : after[i] \in Good(i)}
  <2>0. \A i \in 0..n : after[i] = IF i = 0 THEN taken ELSE Turn(after[i - 1], lists[i], cap)
    BY <1>6
  <2> HIDE DEF n
  <2>1. 0 \in S
    <3>1. 0 \in 0..n
      BY <1>0
    <3> QED BY <1>1, <2>0, <3>1
  <2>2. ASSUME NEW i \in 1..n, i - 1 \in S PROVE i \in S
    <3>1. i \in 0..n /\ i # 0
      BY <1>0
    <3> QED BY <1>2, <2>0, <2>2, <3>1
  <2>3. \A i \in 0..n : i \in S
    <3> HIDE DEF S
    <3> QED BY <1>0, <2>1, <2>2, UpTo
  <2> QED BY <2>3
<1>9. after[n] \in Good(n)
  <2>1. n \in 0..n
    BY <1>0
  <2> HIDE DEF n
  <2> QED BY <1>8, <2>1
<1> QED BY <1>7, <1>9 DEF Good

\* the deal is as many rounds as there may be examples
LEMMA DealtFacts ==
    ASSUME NEW lists, NEW books, AreLists(lists, books), NEW cap \in Nat
    PROVE  IsDeal(Dealt(lists, cap), cap, Len(lists), lists, books, cap)
<1> DEFINE n == Len(lists)
           Good(d) == {t \in Seq(Ref) : IsDeal(t, d, n, lists, books, cap)}
           V == [d \in 0..cap |-> Good(d)]
           G == [d \in 1..cap |-> [t \in Good(d - 1) |-> Round(t, lists, cap)]]
           after[d \in 0..cap] == IF d = 0 THEN <<>> ELSE Round(after[d - 1], lists, cap)
<1>0. n \in Nat /\ cap \in Nat
  BY DEF AreLists
<1>1. <<>> \in Good(0)
  <2>1. \A vol : FromBook(<<>>, vol) = 0
    <3> TAKE vol
    <3>1. {k \in DOMAIN <<>> : <<>>[k][1] = vol} = {}
      OBVIOUS
    <3> QED BY <3>1, FS_EmptySet DEF FromBook
  <2>2. TextsOf(<<>>) = {}
    <3>1. ToSet(<<>>) = {}
      BY DEF ToSet
    <3> QED BY <3>1 DEF TextsOf
  <2>3. IsFiniteSet(TextsOf(<<>>)) /\ Cardinality(TextsOf(<<>>)) = Len(<<>>) /\ <<>> \in Seq(Ref) /\ Len(<<>>) <= cap
    BY <2>2, FS_EmptySet
  <2>4. \A j \in 1..n : j <= n
    BY <1>0
  <2>5. \A j \in 1..n : /\ FromBook(<<>>, books[j]) <= IF j <= n THEN 0 ELSE 0 - 1
                        /\ FromBook(<<>>, books[j]) >= IF j <= n THEN 0 ELSE 0 - 1
    BY <2>1, <2>4
  <2>6. \A j, k \in 1..n : ~(FromBook(<<>>, books[j]) + 1 < FromBook(<<>>, books[k]))
    BY <2>1
  <2>7. IsDeal(<<>>, 0, n, lists, books, cap)
    BY <2>3, <2>5, <2>6 DEF IsDeal
  <2> QED BY <2>3, <2>7
<1>2. \A d \in 1..cap : \A t \in Good(d - 1) : Round(t, lists, cap) \in Good(d)
  <2> TAKE d \in 1..cap
  <2> TAKE t \in Good(d - 1)
  <2>1. IsDeal(Round(t, lists, cap), d, n, lists, books, cap)
    BY RoundFacts
  <2> QED BY <2>1 DEF IsDeal
<1> HIDE DEF Good, n
<1>3. PICK f : f[0] = <<>> /\ \A d \in 1..cap : f[d] \in Good(d) /\ f[d] = Round(f[d - 1], lists, cap)
  <2>1. \A d \in 1..cap : V[d] = Good(d) /\ V[d - 1] = Good(d - 1) /\ d - 1 \in 0..cap /\ d \in 0..cap
    BY <1>0
  <2>2. V[0] = Good(0)
    BY <1>0
  <2>3. \A d \in 1..cap : \A t \in Good(d - 1) : G[d][t] = Round(t, lists, cap)
    OBVIOUS
  <2> HIDE DEF V, G
  <2>4. StepsWithin(cap, V, <<>>, G)
    BY <1>1, <1>2, <2>1, <2>2, <2>3 DEF StepsWithin
  <2>5. PICK f : f[0] = <<>> /\ \A d \in 1..cap : f[d] \in V[d] /\ f[d] = G[d][f[d - 1]]
    BY <1>0, <2>4, Recursion DEF HasRun
  <2>6. \A d \in 1..cap : f[d] \in Good(d)
    BY <2>1, <2>5
  <2>7. \A d \in 1..cap : f[d - 1] \in Good(d - 1)
    <3> TAKE d \in 1..cap
    <3>1. d - 1 = 0 \/ d - 1 \in 1..cap
      BY <1>0
    <3> QED BY <1>1, <2>5, <2>6, <3>1
  <2>8. \A d \in 1..cap : f[d] = Round(f[d - 1], lists, cap)
    BY <2>3, <2>5, <2>7
  <2> QED BY <2>5, <2>6, <2>8
<1> DEFINE g == [d \in 0..cap |-> f[d]]
<1>4. \A d \in 0..cap : g[d] = IF d = 0 THEN <<>> ELSE Round(g[d - 1], lists, cap)
  <2> TAKE d \in 0..cap
  <2>1. d # 0 => d \in 1..cap /\ d - 1 \in 0..cap
    BY <1>0
  <2> QED BY <1>3, <2>1
<1>5. g = [d \in 0..cap |-> IF d = 0 THEN <<>> ELSE Round(g[d - 1], lists, cap)]
  <2>1. g = [d \in 0..cap |-> g[d]]
    OBVIOUS
  <2> HIDE DEF g
  <2> QED BY <1>4, <2>1
<1>6. after = [d \in 0..cap |-> IF d = 0 THEN <<>> ELSE Round(after[d - 1], lists, cap)]
  <2> HIDE DEF g
  <2> QED BY <1>5 DEF after
<1>7. Dealt(lists, cap) = after[cap]
  BY DEF Dealt, after
<1> HIDE DEF after, g
<1>8. \A d \in 0..cap : after[d] \in Good(d)
  <2> DEFINE S == {d \in 0..cap : after[d] \in Good(d)}
  <2>0. \A d \in 0..cap : after[d] = IF d = 0 THEN <<>> ELSE Round(after[d - 1], lists, cap)
    BY <1>6
  <2>1. 0 \in S
    <3>1. 0 \in 0..cap
      BY <1>0
    <3> QED BY <1>1, <2>0, <3>1
  <2>2. ASSUME NEW d \in 1..cap, d - 1 \in S PROVE d \in S
    <3>1. d \in 0..cap /\ d # 0
      BY <1>0
    <3> QED BY <1>2, <2>0, <2>2, <3>1
  <2>3. \A d \in 0..cap : d \in S
    <3> HIDE DEF S
    <3> QED BY <1>0, <2>1, <2>2, UpTo
  <2> QED BY <2>3
<1>9. cap \in 0..cap
  BY <1>0
<1> QED BY <1>7, <1>8, <1>9 DEF Good, n

\* what is added up is at least each of the parts
LEMMA SumFacts ==
    ASSUME NEW n \in Nat, NEW F \in [1..n -> Nat]
    PROVE  \E s : /\ s = [i \in 0..n |-> IF i = 0 THEN 0 ELSE s[i - 1] + F[i]]
                  /\ s[0] = 0 /\ \A i \in 1..n : s[i] = s[i - 1] + F[i]
<1> DEFINE V == [i \in 0..n |-> Nat]
           G == [i \in 1..n |-> [v \in Nat |-> v + F[i]]]
<1>1. \A i \in 1..n : V[i] = Nat /\ V[i - 1] = Nat /\ i - 1 \in 0..n /\ i \in 0..n /\ \A v \in Nat : G[i][v] = v + F[i]
  OBVIOUS
<1>2. V[0] = Nat
  OBVIOUS
<1> HIDE DEF V, G
<1>3. StepsWithin(n, V, 0, G)
  <2>1. ASSUME NEW i \in 1..n, NEW v \in V[i - 1] PROVE G[i][v] \in V[i]
    <3>1. v \in Nat /\ G[i][v] = v + F[i] /\ V[i] = Nat
      BY <1>1
    <3>2. v + F[i] \in Nat
      BY <3>1
    <3> QED BY <3>1, <3>2
  <2> QED BY <1>2, <2>1 DEF StepsWithin
<1>4. PICK f : f[0] = 0 /\ \A i \in 1..n : f[i] \in V[i] /\ f[i] = G[i][f[i - 1]]
  BY <1>3, Recursion DEF HasRun
<1>5. \A i \in 1..n : f[i - 1] \in Nat
  <2> TAKE i \in 1..n
  <2>1. CASE i - 1 = 0
    BY <1>4, <2>1
  <2>2. CASE i - 1 # 0
    <3>1. i - 1 \in 1..n
      BY <2>2
    <3>2. f[i - 1] \in V[i - 1] /\ V[i - 1] = Nat
      BY <1>1, <1>4, <3>1
    <3> QED BY <3>2
  <2> QED BY <2>1, <2>2
<1>6. \A i \in 1..n : f[i] = f[i - 1] + F[i]
  BY <1>1, <1>4, <1>5
<1> DEFINE s == [i \in 0..n |-> f[i]]
<1>7. \A i \in 0..n : s[i] = IF i = 0 THEN 0 ELSE s[i - 1] + F[i]
  <2> TAKE i \in 0..n
  <2>1. i # 0 => i \in 1..n /\ i - 1 \in 0..n
    OBVIOUS
  <2> QED BY <1>4, <1>6, <2>1
<1>8. s = [i \in 0..n |-> IF i = 0 THEN 0 ELSE s[i - 1] + F[i]]
  <2>1. s = [i \in 0..n |-> s[i]]
    OBVIOUS
  <2> HIDE DEF s
  <2> QED BY <1>7, <2>1
<1>9. s[0] = 0 /\ \A i \in 1..n : s[i] = s[i - 1] + F[i]
  <2>1. 0 \in 0..n /\ \A i \in 1..n : i \in 0..n /\ i # 0
    OBVIOUS
  <2> HIDE DEF s
  <2> QED BY <1>7, <2>1
<1> HIDE DEF s
<1> QED BY <1>8, <1>9
LEMMA SumIsMore ==
    ASSUME NEW n \in Nat, NEW F \in [1..n -> Nat], NEW s, s[0] = 0, \A i \in 1..n : s[i] = s[i - 1] + F[i]
    PROVE  s[n] \in Nat /\ \A i \in 1..n : F[i] <= s[n]
<1> DEFINE S == {k \in 0..n : s[k] \in Nat /\ \A i \in 1..k : F[i] <= s[k]}
<1>1. 0 \in S
  OBVIOUS
<1>2. ASSUME NEW k \in 1..n, k - 1 \in S PROVE k \in S
  <2>1. s[k] = s[k - 1] + F[k] /\ s[k - 1] \in Nat /\ F[k] \in Nat /\ k \in 0..n
    BY <1>2
  <2>2. \A i \in 1..k : i = k \/ i \in 1..(k - 1)
    OBVIOUS
  <2>3. \A i \in 1..(k - 1) : F[i] <= s[k - 1] /\ F[i] \in Nat
    BY <1>2
  <2>4. s[k] \in Nat /\ F[k] <= s[k] /\ s[k - 1] <= s[k]
    BY <2>1
  <2>5. \A i \in 1..k : F[i] <= s[k]
    <3> TAKE i \in 1..k
    <3>1. CASE i = k
      BY <2>4, <3>1
    <3>2. CASE i \in 1..(k - 1)
      BY <2>1, <2>3, <2>4, <3>2
    <3> QED BY <2>2, <3>1, <3>2
  <2> QED BY <2>1, <2>4, <2>5
<1>3. \A k \in 0..n : k \in S
  <2> HIDE DEF S
  <2> QED BY <1>1, <1>2, UpTo
<1>4. n \in 0..n
  OBVIOUS
<1> QED BY <1>3, <1>4

-----------------------------------------------------------------------------
(* The combined glossary.                                                  *)

GroupForm == [book : 1..Len(shelf.books), records : SUBSET RecordForm(CandForm)]
GroupsAreApart ==
    /\ groups \in Seq(GroupForm)
    /\ \A i, j \in DOMAIN groups : groups[i].book = groups[j].book => i = j
    /\ \A i \in DOMAIN groups : \A r, q \in groups[i].records : r.term.src = q.term.src => r = q
\* what is fair about a record
IsFairShare(r) ==
    LET From(b) == Cardinality({k \in DOMAIN r.refs : r.refs[k][1] = b})
        Quoted == {ReferenceText(p) : p \in ToSet(r.refs)}
        UsedUp(g) == \A x \in PartOf(g, r.term.src) : \A n \in ToSet(x.refs) : ReferenceText(<<g.book, n>>) \in Quoted
        Who == {g \in ToSet(groups) : PartOf(g, r.term.src) # {}}
    IN /\ Who # {} /\ Len(r.refs) <= shelf.refs
       /\ \A g \in Who : \A x \in PartOf(g, r.term.src) : x.frequency <= r.frequency
       /\ Cardinality(Quoted) = Len(r.refs)
       /\ \A g, h \in Who : From(g.book) + 1 < From(h.book) => UsedUp(g)

LEMMA CombinedIsFair ==
    ASSUME shelf \in Folders, GroupsAreApart, NEW r \in Combined
    PROVE  IsFairShare(r)
<1>1. PICK src \in UNION {{x.term.src : x \in groups[g].records} : g \in DOMAIN groups} : r = CombinedRecord(src)
  BY DEF Combined
<1> DEFINE P == {g \in DOMAIN groups : \E x \in groups[g].records : x.term.src = src}
           at == InOrder(P, Len(groups))
           parts == Picked(groups, P)
           n == Len(parts)
           OfBook(i) == RecordFor(src, parts[i].records)
           lists == [i \in DOMAIN parts |-> [k \in DOMAIN OfBook(i).refs |-> <<parts[i].book, OfBook(i).refs[k]>>]]
           books == [i \in 1..n |-> parts[i].book]
           F == [i \in 1..n |-> OfBook(i).frequency]
           sum[i \in 0..Len(parts)] == IF i = 0 THEN 0 ELSE sum[i - 1] + OfBook(i).frequency
<1>2. groups \in Seq(GroupForm) /\ DOMAIN groups = 1..Len(groups) /\ Len(groups) \in Nat
  BY DEF GroupsAreApart
<1>3. /\ parts \in Seq(GroupForm) /\ n = Len(at) /\ at \in Seq(1..Len(groups)) /\ Ascends(at)
      /\ \A k \in 1..n : parts[k] = groups[at[k]] /\ at[k] \in P \cap (1..Len(groups))
      /\ ToSet(parts) = {groups[i] : i \in P \cap (1..Len(groups))}
  <2> HIDE DEF P
  <2> QED BY <1>2, PickedFacts
<1>4. r.term.src = src /\ r.frequency = sum[n] /\ r.refs = Dealt(lists, shelf.refs)
  BY <1>1 DEF CombinedRecord, sum
<1> HIDE DEF parts, sum
<1>5. n \in Nat /\ DOMAIN parts = 1..n /\ \A i \in 1..n : parts[i] \in GroupForm
  BY <1>3, SeqPlaces
<1>6. ASSUME NEW i \in 1..n
      PROVE  /\ OfBook(i) \in parts[i].records /\ OfBook(i).term.src = src /\ OfBook(i) \in RecordForm(CandForm)
             /\ PartOf(parts[i], src) = {OfBook(i)} /\ parts[i] \in ToSet(groups)
  <2>1. at[i] \in DOMAIN groups /\ parts[i] = groups[at[i]] /\ \E x \in groups[at[i]].records : x.term.src = src
    <3> HIDE DEF at
    <3> QED BY <1>3
  <2>2. \A x, q \in parts[i].records : x.term.src = q.term.src => x = q
    <3> HIDE DEF at
    <3> QED BY <2>1 DEF GroupsAreApart
  <2>3. OfBook(i) \in parts[i].records /\ OfBook(i).term.src = src
    <3>1. \E x \in parts[i].records : x.term.src = src
      <4> HIDE DEF at
      <4> QED BY <2>1
    <3> QED BY <3>1 DEF RecordFor
  <2>4. OfBook(i) \in RecordForm(CandForm)
    <3>1. parts[i].records \in SUBSET RecordForm(CandForm)
      BY <1>5 DEF GroupForm
    <3> QED BY <2>3, <3>1
  <2>5. parts[i] \in ToSet(groups)
    <3> HIDE DEF at
    <3> QED BY <2>1 DEF ToSet
  <2> HIDE DEF OfBook
  <2> QED BY <2>2, <2>3, <2>4, <2>5 DEF PartOf
<1>7. \A i, j \in 1..n : parts[i].book = parts[j].book => i = j
  <2> TAKE i, j \in 1..n
  <2> HAVE parts[i].book = parts[j].book
  <2> HIDE DEF at
  <2>1. /\ at[i] \in DOMAIN groups /\ at[j] \in DOMAIN groups /\ parts[i] = groups[at[i]] /\ parts[j] = groups[at[j]]
        /\ at[i] \in Nat /\ at[j] \in Nat
    BY <1>2, <1>3
  <2>2. at[i] = at[j]
    BY <2>1 DEF GroupsAreApart
  <2>3. i \in DOMAIN at /\ j \in DOMAIN at /\ i \in Nat /\ j \in Nat
    BY <1>3
  <2>4. ~(i < j) /\ ~(j < i)
    BY <2>1, <2>2, <2>3, <1>3 DEF Ascends
  <2> QED BY <2>3, <2>4
<1>8. \A g : g \in ToSet(groups) /\ PartOf(g, src) # {} => \E i \in 1..n : g = parts[i]
  <2> TAKE g
  <2> HAVE g \in ToSet(groups) /\ PartOf(g, src) # {}
  <2>1. PICK i \in DOMAIN groups : g = groups[i]
    BY DEF ToSet
  <2>2. i \in P \cap (1..Len(groups))
    BY <1>2, <2>1 DEF PartOf
  <2>3. g \in ToSet(parts)
    BY <1>3, <2>1, <2>2
  <2> QED BY <1>5, <2>3 DEF ToSet
<1>9. \E i \in 1..n : TRUE
  <2>1. PICK g \in DOMAIN groups : \E x \in groups[g].records : x.term.src = src
    OBVIOUS
  <2>2. groups[g] \in ToSet(groups) /\ PartOf(groups[g], src) # {}
    BY <2>1 DEF ToSet, PartOf
  <2> QED BY <1>8, <2>2
<1> HIDE DEF P, at
<1>10. \A i \in 1..n : OfBook(i).frequency \in Nat /\ OfBook(i).refs \in Seq(Nat)
  <2> HIDE DEF OfBook
  <2> QED BY <1>6 DEF RecordForm
<1>11. AreLists(lists, books)
  <2>0. n = Len(parts)
    OBVIOUS
  <2> HIDE DEF OfBook, n
  <2>1. /\ DOMAIN lists = 1..n
        /\ \A i \in 1..n : lists[i] = [k \in DOMAIN OfBook(i).refs |-> <<parts[i].book, OfBook(i).refs[k]>>]
    BY <1>5
  <2>a. \A i \in 1..n : parts[i].book \in Nat
    <3>1. Len(shelf.books) \in Nat
      BY FolderForm
    <3> QED BY <1>5, <3>1 DEF GroupForm
  <2>2. ASSUME NEW i \in 1..n PROVE lists[i] \in Seq(Ref) /\ \A k \in DOMAIN lists[i] : lists[i][k][1] = books[i]
    <3> DEFINE refs == OfBook(i).refs
               vol == parts[i].book
    <3>1. refs \in Seq(Nat) /\ vol \in Nat /\ lists[i] = [k \in DOMAIN refs |-> <<vol, refs[k]>>] /\ books[i] = vol
      BY <1>10, <2>1, <2>a
    <3> HIDE DEF refs, vol, lists, books
    <3>2. DOMAIN refs = 1..Len(refs) /\ Len(refs) \in Nat /\ \A k \in 1..Len(refs) : <<vol, refs[k]>> \in Ref
      BY <3>1 DEF Ref
    <3> QED BY <3>1, <3>2
  <2> HIDE DEF lists
  <2>b. lists = [i \in 1..n |-> lists[i]]
    BY <2>1 DEF lists
  <2>3. lists \in Seq(Seq(Ref)) /\ Len(lists) = n
    BY <1>5, <2>0, <2>2, <2>b DEF n
  <2>4. books \in [1..n -> Nat]
    BY <2>a
  <2> HIDE DEF books
  <2>5. \A i, j \in 1..n : books[i] = books[j] => i = j
    BY <1>7 DEF books
  <2> QED BY <2>2, <2>3, <2>4, <2>5 DEF AreLists
<1>12. IsDeal(r.refs, shelf.refs, n, lists, books, shelf.refs)
  <2>1. Len(lists) = n
    BY <1>5
  <2>2. shelf.refs \in Nat
    BY FolderForm
  <2> HIDE DEF lists, books, n
  <2> QED BY <1>4, <1>11, <2>1, <2>2, DealtFacts
<1>13. \A i \in 1..n : OfBook(i).frequency <= r.frequency
  <2> HIDE DEF OfBook
  <2>1. F \in [1..n -> Nat] /\ \A i \in 1..n : F[i] = OfBook(i).frequency
    BY <1>10
  <2>2. PICK s : /\ s = [i \in 0..n |-> IF i = 0 THEN 0 ELSE s[i - 1] + F[i]]
                 /\ s[0] = 0 /\ \A i \in 1..n : s[i] = s[i - 1] + F[i]
    <3> HIDE DEF F, n
    <3> QED BY <1>5, <2>1, SumFacts
  <2>3. s = [i \in 0..Len(parts) |-> IF i = 0 THEN 0 ELSE s[i - 1] + OfBook(i).frequency]
    <3>1. \A i \in 0..n : i # 0 => i \in 1..n
      BY <1>5
    <3> HIDE DEF F
    <3> QED BY <2>1, <2>2, <3>1
  <2>4. sum = [i \in 0..Len(parts) |-> IF i = 0 THEN 0 ELSE sum[i - 1] + OfBook(i).frequency]
    BY <2>3 DEF sum
  <2>5. sum[0] = 0 /\ \A i \in 1..n : sum[i] = sum[i - 1] + F[i]
    <3>1. 0 \in 0..n /\ \A i \in 1..n : i \in 0..n /\ i # 0
      BY <1>5
    <3> HIDE DEF F
    <3> QED BY <2>1, <2>4, <3>1
  <2>6. \A i \in 1..n : F[i] <= sum[n]
    <3> HIDE DEF F, n
    <3> QED BY <1>5, <2>1, <2>5, SumIsMore
  <2> HIDE DEF F
  <2> QED BY <1>4, <2>1, <2>6
<1>14. /\ Len(r.refs) <= shelf.refs /\ Cardinality(TextsOf(r.refs)) = Len(r.refs)
       /\ \A i, j \in 1..n : FromBook(r.refs, books[i]) + 1 < FromBook(r.refs, books[j]) => UsedIn(r.refs, lists[i])
  <2>1. Len(lists) = n
    BY <1>5
  <2> HIDE DEF lists, books, n
  <2> QED BY <1>12, <2>1 DEF IsDeal
<1> DEFINE Who == {g \in ToSet(groups) : PartOf(g, src) # {}}
           UsedUp(g) == \A x \in PartOf(g, src) : \A k \in ToSet(x.refs) : ReferenceText(<<g.book, k>>) \in TextsOf(r.refs)
<1>15. Who # {}
  BY <1>6, <1>9
<1>16. \A g \in Who : \A x \in PartOf(g, src) : x.frequency <= r.frequency
  <2> HIDE DEF OfBook, n
  <2> QED BY <1>6, <1>8, <1>13
<1>17. ASSUME NEW i \in 1..n, UsedIn(r.refs, lists[i]) PROVE UsedUp(parts[i])
  <2> SUFFICES ASSUME NEW k \in ToSet(OfBook(i).refs) PROVE ReferenceText(<<parts[i].book, k>>) \in TextsOf(r.refs)
    <3> HIDE DEF OfBook, n, lists
    <3> QED BY <1>6
  <2>1. PICK m \in DOMAIN OfBook(i).refs : k = OfBook(i).refs[m]
    BY DEF ToSet
  <2>2. lists[i] = [d \in DOMAIN OfBook(i).refs |-> <<parts[i].book, OfBook(i).refs[d]>>]
    <3> HIDE DEF OfBook
    <3> QED BY <1>5
  <2> HIDE DEF OfBook, lists, n
  <2>3. m \in DOMAIN lists[i] /\ lists[i][m] = <<parts[i].book, k>>
    BY <2>1, <2>2
  <2> QED BY <1>17, <2>3 DEF UsedIn
<1>18. ASSUME NEW g \in Who, NEW h \in Who, FromBook(r.refs, g.book) + 1 < FromBook(r.refs, h.book) PROVE UsedUp(g)
  <2> HIDE DEF UsedUp, OfBook, lists
  <2>1. PICK i \in 1..n, j \in 1..n : g = parts[i] /\ h = parts[j]
    BY <1>8
  <2>2. books[i] = g.book /\ books[j] = h.book
    BY <2>1
  <2> HIDE DEF books, n
  <2> QED BY <1>14, <1>17, <1>18, <2>1, <2>2
<1> HIDE DEF lists, books, OfBook, F, n
<1> QED BY <1>4, <1>14, <1>15, <1>16, <1>18 DEF IsFairShare, FromBook, TextsOf

-----------------------------------------------------------------------------
(* The run.                                                                *)

BooksSeen == {b \in DOMAIN shelf.books : b < bookNo}
GlossaryTypes ==
    /\ shelf \in Folders /\ marks \in Seq(MarkForm) /\ bookNo \in Nat
    /\ shelfAt \in {"none", "running", "book", "combined", "finish", "over", "dead"}
    /\ DOMAIN outFiles = Bases /\ \A base \in Bases : DOMAIN outFiles[base] = ToSet(Kinds)
    /\ DOMAIN issueFiles = Bases
\* nothing is said of a book before its turn
RunBegins == shelfAt = "running" => groups = <<>> /\ failedBooks = {} /\ bookNo = 1
IsWriting == shelfAt \in {"book", "combined", "finish", "over"}
GroupsAreBooks ==
    /\ groups \in Seq([book : BooksSeen, records : SUBSET RecordForm(CandForm)])
    /\ \A i, j \in DOMAIN groups : groups[i].book = groups[j].book => i = j
    /\ \A b \in BooksSeen : \A i \in DOMAIN groups : groups[i].book = b => groups[i].records = BookRecords(b)
    /\ failedBooks \cup {g.book : g \in ToSet(groups)} = BooksSeen
    /\ failedBooks \cap {g.book : g \in ToSet(groups)} = {}
    /\ \A b \in failedBooks : BookRecords(b) = {}
    /\ shelfAt = "book" => bookNo \in DOMAIN shelf.books
    /\ shelfAt # "book" => BooksSeen = DOMAIN shelf.books
\* the files of the books that are done are those of this run
FilesAreOfRun ==
    /\ \A g \in ToSet(groups) : \A k \in ToSet(Kinds) :
           /\ outFiles[shelf.books[g.book].stem][k].run = runNo
           /\ outFiles[shelf.books[g.book].stem][k] = outFiles[shelf.books[g.book].stem]["xlsx"]
    /\ \A g \in ToSet(groups) : HasIssues(g.book) => issueFiles[shelf.books[g.book].stem] = runNo
JoinedIsWritten == outFiles[Joined] = [k \in ToSet(Kinds) |-> Bundle(Combined)]
GrandIsTrue == grand = "COMPLETED" => \A c \in DOMAIN marks : marks[c].status = "COMPLETED"
ToldIsThis ==
    told = [run |-> runNo,
            outputs |-> IF shelf.joins THEN (IF groups = <<>> THEN {} ELSE {Joined})
                        ELSE {shelf.books[g.book].stem : g \in ToSet(groups)},
            issues |-> IF shelf.joins THEN {}
                       ELSE {shelf.books[g.book].stem : g \in {x \in ToSet(groups) : HasIssues(x.book)}}]
GlossaryInv ==
    /\ GlossaryTypes /\ RunBegins
    /\ IsWriting => GroupsAreBooks /\ GrandIsTrue
    /\ IsWriting /\ ~shelf.joins => FilesAreOfRun
    /\ shelfAt \in {"finish", "over"} /\ shelf.joins /\ groups # <<>> => JoinedIsWritten
    /\ shelfAt = "over" => ToldIsThis

LEMMA GroupsMembers ==
    ASSUME GroupsAreBooks
    PROVE  /\ DOMAIN groups = 1..Len(groups) /\ Len(groups) \in Nat
           /\ \A g : g \in ToSet(groups) <=> \E i \in DOMAIN groups : g = groups[i]
           /\ \A i \in DOMAIN groups : groups[i].book \in BooksSeen /\ groups[i].records \in SUBSET RecordForm(CandForm)
           /\ \A g \in ToSet(groups) : g.book \in BooksSeen /\ g.records = BookRecords(g.book)
           /\ \A g, h \in ToSet(groups) : g.book = h.book => g = h
<1> DEFINE S == [book : BooksSeen, records : SUBSET RecordForm(CandForm)]
<1>1. groups \in Seq(S)
  BY DEF GroupsAreBooks
<1>2. DOMAIN groups = 1..Len(groups) /\ Len(groups) \in Nat /\ \A i \in 1..Len(groups) : groups[i] \in S
  <2> HIDE DEF S
  <2> QED BY <1>1, SeqPlaces
<1>3. \A g : g \in ToSet(groups) <=> \E i \in DOMAIN groups : g = groups[i]
  BY DEF ToSet
<1> QED BY <1>2, <1>3 DEF GroupsAreBooks

\* the groups are apart, a source is in a group once
LEMMA BooksAreApart ==
    ASSUME GlossaryTypes, GroupsAreBooks
    PROVE  GroupsAreApart
<1>1. shelf \in Folders /\ marks \in Seq(MarkForm)
  BY DEF GlossaryTypes
<1>2. /\ DOMAIN groups = 1..Len(groups) /\ Len(groups) \in Nat
      /\ \A i \in DOMAIN groups : groups[i].book \in BooksSeen /\ groups[i].records \in SUBSET RecordForm(CandForm)
  BY GroupsMembers
<1>3. BooksSeen \subseteq 1..Len(shelf.books)
  BY <1>1, FolderForm DEF BooksSeen
<1>4. groups \in Seq(GroupForm)
  <2>1. groups \in Seq([book : BooksSeen, records : SUBSET RecordForm(CandForm)])
    BY DEF GroupsAreBooks
  <2>2. [book : BooksSeen, records : SUBSET RecordForm(CandForm)] \subseteq GroupForm
    BY <1>3 DEF GroupForm
  <2> DEFINE S == [book : BooksSeen, records : SUBSET RecordForm(CandForm)]
  <2> HIDE DEF S
  <2>3. groups \in Seq(S) /\ S \subseteq GroupForm
    BY <2>1, <2>2 DEF S
  <2> QED BY <2>3
<1>5. ASSUME NEW i \in DOMAIN groups, NEW r \in groups[i].records, NEW q \in groups[i].records, r.term.src = q.term.src
      PROVE  r = q
  <2> DEFINE b == groups[i].book
  <2>1. b \in DOMAIN shelf.books /\ groups[i].records = BookRecords(b)
    BY <1>2 DEF BooksSeen, GroupsAreBooks
  <2> HIDE DEF b
  <2>2. r # q => Fold[r.term.src] # Fold[q.term.src]
    BY <1>1, <1>5, <2>1, BookIsTrue
  <2> QED BY <1>5, <2>2
<1> QED BY <1>4, <1>5 DEF GroupsAreApart, GroupsAreBooks

\* what is shown of a book is what was found in it
LEMMA ShownIs ==
    ASSUME GroupsAreBooks, NEW g \in ToSet(groups)
    PROVE  Shown(g.book) = BookRecords(g.book)
<1>1. \E x \in ToSet(groups) : x.book = g.book
  OBVIOUS
<1>2. \A x \in ToSet(groups) : x.book = g.book => x.records = BookRecords(g.book)
  BY GroupsMembers
<1> DEFINE x == CHOOSE x \in ToSet(groups) : x.book = g.book
<1>3. x \in ToSet(groups) /\ x.book = g.book
  BY <1>1
<1>4. Shown(g.book) = x.records
  BY DEF Shown
<1> HIDE DEF x
<1> QED BY <1>2, <1>3, <1>4

THEOREM ExtractsGiveTerms ==
    ASSUME GlossaryInv
    PROVE  TermsAreKept
<1> SUFFICES ASSUME shelfAt = "over" /\ told.run = runNo PROVE TermsAreKept
  BY DEF TermsAreKept, ToldIsThere, TermsAreTrue, NothingCountsTwice, SharesAreFair
<1>1. /\ GlossaryTypes /\ GroupsAreBooks /\ GrandIsTrue /\ ToldIsThis
      /\ ~shelf.joins => FilesAreOfRun
      /\ shelf.joins /\ groups # <<>> => JoinedIsWritten
  BY DEF GlossaryInv, IsWriting
<1>2. shelf \in Folders /\ marks \in Seq(MarkForm) /\ BooksSeen = DOMAIN shelf.books
  BY <1>1 DEF GlossaryTypes, GroupsAreBooks
<1>3. /\ \A g \in ToSet(groups) : g.book \in DOMAIN shelf.books /\ g.records = BookRecords(g.book)
      /\ failedBooks \cup {g.book : g \in ToSet(groups)} = DOMAIN shelf.books
      /\ failedBooks \cap {g.book : g \in ToSet(groups)} = {}
  BY <1>1, <1>2, GroupsMembers DEF GroupsAreBooks
<1>4. ToldIsThere
  <2>1. ASSUME NEW base \in told.outputs, NEW k \in ToSet(Kinds)
        PROVE  outFiles[base][k].run = runNo /\ outFiles[base][k] = outFiles[base]["xlsx"]
    <3>1. CASE shelf.joins
      <4>1. base = Joined /\ groups # <<>>
        BY <1>1, <2>1, <3>1 DEF ToldIsThis
      <4>2. outFiles[base] = [x \in ToSet(Kinds) |-> Bundle(Combined)]
        BY <1>1, <3>1, <4>1 DEF JoinedIsWritten
      <4>3. "xlsx" \in ToSet(Kinds)
        <5>1. Kinds[1] = "xlsx" /\ 1 \in DOMAIN Kinds
          BY DEF Kinds
        <5> QED BY <5>1 DEF ToSet
      <4>4. outFiles[base][k] = Bundle(Combined) /\ outFiles[base]["xlsx"] = Bundle(Combined)
        BY <4>2, <4>3
      <4> QED BY <4>4 DEF Bundle
    <3>2. CASE ~shelf.joins
      <4>1. PICK g \in ToSet(groups) : base = shelf.books[g.book].stem
        BY <1>1, <2>1, <3>2 DEF ToldIsThis
      <4> QED BY <1>1, <3>2, <4>1 DEF FilesAreOfRun
    <3> QED BY <3>1, <3>2
  <2>2. ASSUME NEW base \in told.issues PROVE issueFiles[base] = runNo
    <3>1. ~shelf.joins
      BY <1>1, <2>2 DEF ToldIsThis
    <3>2. PICK g \in ToSet(groups) : HasIssues(g.book) /\ base = shelf.books[g.book].stem
      BY <1>1, <2>2, <3>1 DEF ToldIsThis
    <3> QED BY <1>1, <3>1, <3>2 DEF FilesAreOfRun
  <2> QED BY <1>3, <2>1, <2>2 DEF ToldIsThere
<1>5. TermsAreTrue
  <2> DEFINE Listed(b) == IF b \in failedBooks THEN {} ELSE Shown(b)
  <2>1. ASSUME NEW b \in DOMAIN shelf.books
        PROVE  /\ \A r \in Listed(b) : IsShownTrue(b, r)
               /\ \A t \in FoundIn(b) :
                      {x.src : x \in SameKey(b, t.src)} = {t.src} /\ Cardinality(AloneIn(b, t.src)) >= shelf.min
                          => \E r \in Listed(b) : Fold[r.term.src] = Fold[t.src]
               /\ \A r, q \in Listed(b) : r # q => Fold[r.term.src] # Fold[q.term.src]
    <3>1. Listed(b) = BookRecords(b)
      <4>1. CASE b \in failedBooks
        BY <1>1, <2>1, <4>1 DEF GroupsAreBooks
      <4>2. CASE b \notin failedBooks
        <5>1. PICK g \in ToSet(groups) : g.book = b
          BY <1>3, <4>2
        <5> QED BY <1>1, <2>1, <4>2, <5>1, ShownIs
      <4> QED BY <4>1, <4>2
    <3> QED BY <1>2, <3>1, BookIsTrue
  <2> QED BY <1>1, <2>1 DEF TermsAreTrue, GrandIsTrue
<1>6. NothingCountsTwice
  <2>1. ASSUME NEW g \in ToSet(groups), NEW r \in g.records, NEW text, text = LinesOfBook(g.book)
        PROVE  r.frequency <= Cardinality({i \in DOMAIN text : \E j \in DOMAIN text[i] : StandsAt(g.book, text[i], j, r)})
    <3> DEFINE b == g.book
    <3>1. b \in DOMAIN shelf.books /\ r \in BookRecords(b) /\ Shown(b) = BookRecords(b) /\ text = LinesOfBook(b)
      BY <1>1, <1>3, <2>1, ShownIs
    <3> HIDE DEF b
    <3>2. r.frequency <= Cardinality({i \in DOMAIN text : \E j \in DOMAIN text[i] : StandsAt(b, text[i], j, r)})
      BY <1>2, <3>1, BookCountsOnce
    <3> QED BY <3>2 DEF b
  <2> QED BY <2>1 DEF NothingCountsTwice
<1>7. SharesAreFair
  <2> SUFFICES ASSUME shelf.joins, Joined \in told.outputs, NEW r \in outFiles[Joined]["xlsx"].records
               PROVE  IsFairShare(r)
    BY DEF SharesAreFair, IsFairShare
  <2>1. groups # <<>>
    BY <1>1 DEF ToldIsThis
  <2>2. outFiles[Joined] = [k \in ToSet(Kinds) |-> Bundle(Combined)]
    BY <1>1, <2>1 DEF JoinedIsWritten
  <2>3. "xlsx" \in ToSet(Kinds)
    <3>1. Kinds[1] = "xlsx" /\ 1 \in DOMAIN Kinds
      BY DEF Kinds
    <3> QED BY <3>1 DEF ToSet
  <2>4. r \in Combined
    <3>1. outFiles[Joined]["xlsx"] = Bundle(Combined)
      BY <2>2, <2>3
    <3> QED BY <3>1 DEF Bundle
  <2>5. GroupsAreApart
    BY <1>1, BooksAreApart
  <2> QED BY <1>2, <2>4, <2>5, CombinedIsFair
<1> QED BY <1>4, <1>5, <1>6, <1>7 DEF TermsAreKept

\* what is said of the books stays while the request and the subtasks do
LEMMA BooksStay ==
    ASSUME shelf' = shelf, marks' = marks, NEW b
    PROVE  LinesOfBook(b)' = LinesOfBook(b) /\ BookRecords(b)' = BookRecords(b) /\ HasIssues(b)' = HasIssues(b)
<1>1. TermsOf(b)' = TermsOf(b)
  BY DEF TermsOf, ChunkList
<1>2. LinesOfBook(b)' = LinesOfBook(b)
  BY DEF LinesOfBook
<1>3. HasIssues(b)' = HasIssues(b)
  BY <1>1 DEF HasIssues
<1>4. BookRecords(b)' = RecordsOf(Normalized(TermsOf(b)), LinesOfBook(b))'
  BY DEF BookRecords
<1>5. RecordsOf(Normalized(TermsOf(b)), LinesOfBook(b))' = RecordsOf(Normalized(TermsOf(b)), LinesOfBook(b))
  BY <1>1, <1>2 DEF RecordsOf, Counting, CountedIn, RecordIn, Capped
<1> QED BY <1>2, <1>3, <1>4, <1>5 DEF BookRecords
LEMMA CombinedStays ==
    ASSUME shelf' = shelf, groups' = groups, runNo' = runNo
    PROVE  Bundle(Combined)' = Bundle(Combined)
<1>1. Combined' = Combined
  BY DEF Combined, CombinedRecord, Dealt, Round, Turn, NewOf, ReferenceText, LinesOfBook
<1> QED BY <1>1 DEF Bundle

LEMMA GlossaryInvInit == GlossaryInit => GlossaryInv
<1> SUFFICES ASSUME GlossaryInit PROVE GlossaryInv
  OBVIOUS
<1>1. <<>> \in Seq(MarkForm)
  OBVIOUS
<1>2. GlossaryTypes
  BY <1>1 DEF GlossaryInit, GlossaryTypes
<1> QED BY <1>2 DEF GlossaryInit, GlossaryInv, RunBegins, IsWriting

\* the request stays, and with it the names of the files
LEMMA TypesStay ==
    ASSUME GlossaryTypes, shelf' = shelf, marks' \in Seq(MarkForm), bookNo' \in Nat,
           shelfAt' \in {"none", "running", "book", "combined", "finish", "over", "dead"},
           DOMAIN outFiles' = Bases, \A base \in Bases : DOMAIN outFiles'[base] = ToSet(Kinds),
           DOMAIN issueFiles' = Bases
    PROVE  GlossaryTypes'
<1>1. Bases' = Bases
  BY DEF Bases
<1>2. shelf \in Folders
  BY DEF GlossaryTypes
<1> QED BY <1>1, <1>2 DEF GlossaryTypes

\* the subtasks are seeded, or what failed is asked again
LEMMA StartKeeps == GlossaryInv /\ (StartGlossary \/ ContinueGlossary) => GlossaryInv'
<1> SUFFICES ASSUME GlossaryInv, StartGlossary \/ ContinueGlossary PROVE GlossaryInv'
  OBVIOUS
<1>1. GlossaryTypes
  BY DEF GlossaryInv
<1>2. marks' \in Seq(MarkForm)
  <2>1. CASE StartGlossary
    <3> DEFINE Chunk == [book : Nat, lines : Seq(Seq(STRING))]
               parts == [b \in DOMAIN shelf.books |->
                            [k \in DOMAIN shelf.books[b].chunks |-> [book |-> b, lines |-> shelf.books[b].chunks[k]]]]
    <3>1. shelf.books \in Seq(BookForm) /\ DOMAIN shelf.books = 1..Len(shelf.books) /\ Len(shelf.books) \in Nat
      BY <1>1, FolderForm DEF GlossaryTypes
    <3>2. ASSUME NEW b \in 1..Len(shelf.books) PROVE parts[b] \in Seq(Chunk)
      <4>1. shelf.books[b].chunks \in Seq(Seq(Seq(STRING)))
        <5>1. shelf.books[b] \in BookForm
          BY <3>1, SeqPlaces
        <5> QED BY <5>1 DEF BookForm
      <4> DEFINE chunks == shelf.books[b].chunks
      <4>2. parts[b] = [k \in DOMAIN chunks |-> [book |-> b, lines |-> chunks[k]]]
        BY <3>1
      <4>3. chunks \in Seq(Seq(Seq(STRING))) /\ b \in Nat
        BY <3>1, <4>1
      <4> HIDE DEF chunks, parts
      <4>4. DOMAIN chunks = 1..Len(chunks) /\ Len(chunks) \in Nat /\ \A k \in 1..Len(chunks) : chunks[k] \in Seq(Seq(STRING))
        BY <4>3, SeqPlaces
      <4>5. \A k \in 1..Len(chunks) : [book |-> b, lines |-> chunks[k]] \in Chunk
        BY <4>3, <4>4
      <4> HIDE DEF Chunk
      <4> QED BY <4>2, <4>4, <4>5
    <3>3. parts \in Seq(Seq(Chunk))
      <4> DEFINE n == Len(shelf.books)
                 S == Seq(Chunk)
      <4>1. parts = [b \in 1..n |-> parts[b]] /\ n \in Nat
        BY <3>1
      <4>2. \A b \in 1..n : parts[b] \in S
        BY <3>2
      <4> HIDE DEF parts, Chunk, n, S
      <4>3. parts \in Seq(S)
        BY <4>1, <4>2
      <4> QED BY <4>3 DEF S
    <3>4. ChunkList = FlattenSeq(parts)
      BY DEF ChunkList
    <3> HIDE DEF parts, Chunk
    <3>5. ChunkList \in Seq(Chunk)
      BY <3>3, <3>4, FlattenMembers
    <3>6. DOMAIN ChunkList = 1..Len(ChunkList) /\ Len(ChunkList) \in Nat
      BY <3>5, SeqPlaces
    <3>7. marks' = [c \in DOMAIN ChunkList |-> [status |-> "PENDING", terms |-> <<>>]]
      BY <2>1 DEF StartGlossary
    <3>8. [status |-> "PENDING", terms |-> <<>>] \in MarkForm
      BY DEF MarkForm
    <3> HIDE DEF MarkForm
    <3> QED BY <3>6, <3>7, <3>8
  <2>2. CASE ContinueGlossary
    <3>1. marks' = [c \in DOMAIN marks |-> IF marks[c].status = "FAILED" THEN [marks[c] EXCEPT !.status = "PENDING"]
                                           ELSE marks[c]]
      BY <2>2 DEF ContinueGlossary
    <3>2. DOMAIN marks = 1..Len(marks) /\ Len(marks) \in Nat /\ \A c \in 1..Len(marks) : marks[c] \in MarkForm
      BY <1>1, SeqPlaces DEF GlossaryTypes
    <3>3. \A c \in 1..Len(marks) : [marks[c] EXCEPT !.status = "PENDING"] \in MarkForm
      BY <3>2 DEF MarkForm
    <3> HIDE DEF MarkForm
    <3>4. \A c \in 1..Len(marks) : (IF marks[c].status = "FAILED" THEN [marks[c] EXCEPT !.status = "PENDING"]
                                    ELSE marks[c]) \in MarkForm
      BY <3>2, <3>3
    <3> QED BY <3>1, <3>2, <3>4
  <2> QED BY <2>1, <2>2
<1>3. shelfAt' = "running" /\ groups' = <<>> /\ failedBooks' = {} /\ bookNo' = 1 /\ shelf' = shelf
      /\ outFiles' = outFiles /\ issueFiles' = issueFiles
  BY DEF StartGlossary, ContinueGlossary, Begins, Untouched
<1>4. GlossaryTypes'
  <2>1. DOMAIN outFiles = Bases /\ (\A base \in Bases : DOMAIN outFiles[base] = ToSet(Kinds)) /\ DOMAIN issueFiles = Bases
    BY <1>1 DEF GlossaryTypes
  <2> QED BY <1>1, <1>2, <1>3, <2>1, TypesStay
<1> QED BY <1>3, <1>4 DEF GlossaryInv, RunBegins, IsWriting

LEMMA ChunkKeeps == ASSUME NEW c \in DOMAIN marks PROVE GlossaryInv /\ ChunkEnds(c) => GlossaryInv'
<1> SUFFICES ASSUME GlossaryInv, ChunkEnds(c) PROVE GlossaryInv'
  OBVIOUS
<1>1. GlossaryTypes
  BY DEF GlossaryInv
<1>2. marks' \in Seq(MarkForm)
  <2>1. DOMAIN marks = 1..Len(marks) /\ Len(marks) \in Nat /\ marks \in Seq(MarkForm)
    BY <1>1 DEF GlossaryTypes
  <2>2. PICK m : m \in MarkForm /\ marks' = [marks EXCEPT ![c] = m]
    <3>1. CASE \E found \in Extracts : marks' = [marks EXCEPT ![c] = [status |-> "COMPLETED", terms |-> found]]
      <4>1. PICK found \in Extracts : marks' = [marks EXCEPT ![c] = [status |-> "COMPLETED", terms |-> found]]
        BY <3>1
      <4>2. [status |-> "COMPLETED", terms |-> found] \in MarkForm
        BY GlossaryAssumption DEF MarkForm
      <4> QED BY <4>1, <4>2
    <3>2. CASE marks' = [marks EXCEPT ![c] = [status |-> "FAILED", terms |-> <<>>]]
      <4>1. [status |-> "FAILED", terms |-> <<>>] \in MarkForm
        BY DEF MarkForm
      <4> QED BY <3>2, <4>1
    <3> QED BY <3>1, <3>2 DEF ChunkEnds
  <2> QED BY <2>1, <2>2
<1>3. shelfAt = "running" /\ UNCHANGED <<shelf, shelfAt, bookNo, groups, failedBooks, outFiles, issueFiles>>
  BY DEF ChunkEnds, Untouched
<1>4. GlossaryTypes'
  <2>1. /\ DOMAIN outFiles = Bases /\ (\A base \in Bases : DOMAIN outFiles[base] = ToSet(Kinds)) /\ DOMAIN issueFiles = Bases
        /\ bookNo \in Nat /\ shelfAt \in {"none", "running", "book", "combined", "finish", "over", "dead"}
    BY <1>1 DEF GlossaryTypes
  <2> QED BY <1>1, <1>2, <1>3, <2>1, TypesStay
<1> QED BY <1>3, <1>4 DEF GlossaryInv, RunBegins, IsWriting

LEMMA EndKeeps == GlossaryInv /\ ExecutorEnds => GlossaryInv'
<1> SUFFICES ASSUME GlossaryInv, ExecutorEnds PROVE GlossaryInv'
  OBVIOUS
<1>1. GlossaryTypes /\ shelfAt = "running" /\ shelfAt' = "book" /\ groups = <<>> /\ failedBooks = {} /\ bookNo = 1
      /\ UNCHANGED <<shelf, marks, bookNo, groups, failedBooks, outFiles, issueFiles, runNo>>
  BY DEF GlossaryInv, RunBegins, ExecutorEnds
<1>2. GlossaryTypes'
  <2>1. /\ DOMAIN outFiles = Bases /\ (\A base \in Bases : DOMAIN outFiles[base] = ToSet(Kinds)) /\ DOMAIN issueFiles = Bases
        /\ bookNo \in Nat /\ marks \in Seq(MarkForm)
    BY <1>1 DEF GlossaryTypes
  <2> QED BY <1>1, <2>1, TypesStay
<1>3. BooksSeen' = {}
  <2>1. DOMAIN shelf.books = 1..Len(shelf.books) /\ Len(shelf.books) \in Nat
    BY <1>1, FolderForm DEF GlossaryTypes
  <2>2. BooksSeen' = {b \in DOMAIN shelf.books : b < 1}
    BY <1>1 DEF BooksSeen
  <2> QED BY <2>1, <2>2
<1>4. groups' = <<>> /\ ToSet(groups') = {} /\ DOMAIN groups' = {}
  BY <1>1 DEF ToSet
<1>5. GroupsAreBooks'
  <2>1. bookNo \in DOMAIN shelf.books
    BY <1>1, FolderForm DEF GlossaryTypes
  <2> QED BY <1>1, <1>3, <1>4, <2>1 DEF GroupsAreBooks
<1>6. GrandIsTrue'
  <2> SUFFICES ASSUME grand' = "COMPLETED", NEW c \in DOMAIN marks PROVE marks[c].status = "COMPLETED"
    BY <1>1 DEF GrandIsTrue
  <2>1. marks[c] \in MarkForm
    BY <1>1, SeqPlaces DEF GlossaryTypes
  <2>2. marks[c].status \in {"PENDING", "COMPLETED", "FAILED"}
    BY <2>1 DEF MarkForm
  <2>3. CASE grand' = IF InStatus("COMPLETED") = DOMAIN marks THEN "COMPLETED" ELSE "STOPPED"
    BY <2>3 DEF InStatus
  <2>4. CASE InStatus("PENDING") = {} /\ grand' = IF InStatus("FAILED") = {} THEN "COMPLETED" ELSE "FAILED"
    BY <2>2, <2>4 DEF InStatus
  <2> QED BY <2>3, <2>4 DEF ExecutorEnds
<1>7. FilesAreOfRun'
  BY <1>4 DEF FilesAreOfRun
<1> QED BY <1>1, <1>2, <1>5, <1>6, <1>7 DEF GlossaryInv, RunBegins, IsWriting

\* all three kinds of files are written
LEMMA KindsPlaces == "xlsx" \in ToSet(Kinds) /\ \A k \in ToSet(Kinds) : PositionOf(k, Kinds) <= 3
<1>1. Kinds = [i \in 1..Len(Kinds) |-> Kinds[i]] /\ Len(Kinds) = 3 /\ Len(Kinds) \in Nat
  BY DEF Kinds
<1>2. "xlsx" \in ToSet(Kinds)
  <2>1. Kinds[1] = "xlsx" /\ 1 \in DOMAIN Kinds
    BY DEF Kinds
  <2> QED BY <2>1 DEF ToSet
<1>3. \A k \in ToSet(Kinds) : PositionOf(k, Kinds) \in 1..3
  BY <1>1, PlaceFacts
<1> QED BY <1>2, <1>3

LEMMA BookWrites ==
    ASSUME GlossaryTypes, NEW b \in DOMAIN shelf.books, NEW records, NEW upto \in Nat,
           Written(shelf.books[b].stem, records, upto)
    PROVE  /\ DOMAIN outFiles' = Bases /\ \A base \in Bases : DOMAIN outFiles'[base] = ToSet(Kinds)
           /\ shelf.books[b].stem \in Bases
           /\ \A base \in Bases : base # shelf.books[b].stem => outFiles'[base] = outFiles[base]
           /\ upto = 3 => \A k \in ToSet(Kinds) : outFiles'[shelf.books[b].stem][k] = Bundle(records)
<1> DEFINE stem == shelf.books[b].stem
           new == [k \in ToSet(Kinds) |-> IF PositionOf(k, Kinds) <= upto THEN Bundle(records) ELSE outFiles[stem][k]]
<1>1. stem \in Bases
  BY DEF Bases
<1>2. DOMAIN outFiles = Bases /\ \A base \in Bases : DOMAIN outFiles[base] = ToSet(Kinds)
  BY DEF GlossaryTypes
<1>3. outFiles' = [outFiles EXCEPT ![stem] = new]
  BY DEF Written
<1> HIDE DEF stem
<1>4. DOMAIN new = ToSet(Kinds) /\ (upto = 3 => \A k \in ToSet(Kinds) : new[k] = Bundle(records))
  BY KindsPlaces
<1> HIDE DEF new
<1>5. DOMAIN outFiles' = Bases /\ outFiles'[stem] = new /\ \A base \in Bases : base # stem => outFiles'[base] = outFiles[base]
  BY <1>1, <1>2, <1>3
<1>6. \A base \in Bases : DOMAIN outFiles'[base] = ToSet(Kinds)
  BY <1>2, <1>4, <1>5
<1> QED BY <1>1, <1>4, <1>5, <1>6 DEF stem

LEMMA WriteBookKeeps == ASSUME NEW b \in DOMAIN shelf.books PROVE GlossaryInv /\ WriteBook(b) => GlossaryInv'
<1> SUFFICES ASSUME GlossaryInv, WriteBook(b) PROVE GlossaryInv'
  OBVIOUS
<1> DEFINE e == [book |-> b, records |-> BookRecords(b)]
           stem == shelf.books[b].stem
<1>1. /\ GlossaryTypes /\ shelfAt = "book" /\ b = bookNo /\ GroupsAreBooks /\ GrandIsTrue
      /\ ~shelf.joins => FilesAreOfRun
  BY DEF GlossaryInv, IsWriting, WriteBook
<1>2. /\ shelf' = shelf /\ marks' = marks /\ grand' = grand /\ runNo' = runNo /\ bookNo' = bookNo + 1
      /\ shelfAt' = IF bookNo < Len(shelf.books) THEN "book" ELSE "combined"
      /\ issueFiles' = IF HasIssues(b) THEN [issueFiles EXCEPT ![stem] = runNo] ELSE issueFiles
  BY DEF WriteBook, NextBook, Untouched
<1>3. /\ BookRecords(b) = {} => failedBooks' = failedBooks \cup {b} /\ groups' = groups /\ outFiles' = outFiles
      /\ BookRecords(b) # {} =>
             /\ groups' = Append(groups, e) /\ failedBooks' = failedBooks
             /\ IF shelf.joins THEN outFiles' = outFiles ELSE Written(stem, BookRecords(b), 3)
  BY DEF WriteBook
<1>4. /\ shelf \in Folders /\ marks \in Seq(MarkForm) /\ bookNo \in Nat
      /\ DOMAIN outFiles = Bases /\ (\A base \in Bases : DOMAIN outFiles[base] = ToSet(Kinds)) /\ DOMAIN issueFiles = Bases
      /\ stem \in Bases
  BY <1>1 DEF GlossaryTypes, Bases
<1>5. DOMAIN shelf.books = 1..Len(shelf.books) /\ Len(shelf.books) \in Nat
  BY <1>4, FolderForm
<1> HIDE DEF e, stem
<1>6. GlossaryTypes'
  <2>1. DOMAIN outFiles' = Bases /\ \A base \in Bases : DOMAIN outFiles'[base] = ToSet(Kinds)
    <3>1. CASE BookRecords(b) = {} \/ shelf.joins
      BY <1>3, <1>4, <3>1
    <3>2. CASE BookRecords(b) # {} /\ ~shelf.joins
      BY <1>1, <1>3, <3>2, BookWrites DEF stem
    <3> QED BY <3>1, <3>2
  <2>2. DOMAIN issueFiles' = Bases
    BY <1>2, <1>4
  <2>3. marks' \in Seq(MarkForm) /\ bookNo' \in Nat /\ shelfAt' \in {"none", "running", "book", "combined", "finish", "over", "dead"}
    BY <1>2, <1>4
  <2> QED BY <1>1, <1>2, <2>1, <2>2, <2>3, TypesStay
<1>7. BooksSeen' = BooksSeen \cup {b} /\ b \notin BooksSeen
  <2>1. BooksSeen' = {x \in DOMAIN shelf.books : x < bookNo + 1}
    BY <1>2 DEF BooksSeen
  <2> QED BY <1>1, <1>4, <1>5, <2>1 DEF BooksSeen
<1>8. /\ shelfAt' = "book" => bookNo' \in DOMAIN shelf.books
      /\ shelfAt' # "book" => BooksSeen' = DOMAIN shelf.books
  <2>1. BooksSeen' = {x \in DOMAIN shelf.books : x < bookNo + 1}
    BY <1>2 DEF BooksSeen
  <2> QED BY <1>2, <1>4, <1>5, <2>1
<1>9. BookRecords(b) \in SUBSET RecordForm(CandForm)
  <2>1. PICK T \in SUBSET CandForm : AreRecords(BookRecords(b), T, LinesOfBook(b))
    BY <1>4, BookFacts
  <2> QED BY <2>1 DEF AreRecords, RecordForm
<1>10. /\ DOMAIN groups = 1..Len(groups) /\ Len(groups) \in Nat
       /\ \A g : g \in ToSet(groups) <=> \E i \in DOMAIN groups : g = groups[i]
       /\ \A i \in DOMAIN groups : groups[i].book \in BooksSeen
       /\ \A g \in ToSet(groups) : g.book \in BooksSeen
       /\ failedBooks \cup {g.book : g \in ToSet(groups)} = BooksSeen
       /\ failedBooks \cap {g.book : g \in ToSet(groups)} = {}
       /\ \A x \in failedBooks : BookRecords(x) = {}
       /\ \A i, j \in DOMAIN groups : groups[i].book = groups[j].book => i = j
       /\ \A x \in BooksSeen : \A i \in DOMAIN groups : groups[i].book = x => groups[i].records = BookRecords(x)
  BY <1>1, GroupsMembers DEF GroupsAreBooks
<1> DEFINE S == [book : BooksSeen, records : SUBSET RecordForm(CandForm)]
           Q == [book : BooksSeen', records : SUBSET RecordForm(CandForm)]
<1>11. groups \in Seq(S) /\ S \subseteq Q /\ e \in Q
  BY <1>1, <1>7, <1>9 DEF GroupsAreBooks, e
<1>12. \A x : BookRecords(x)' = BookRecords(x) /\ HasIssues(x)' = HasIssues(x)
  BY <1>2, BooksStay
<1> HIDE DEF S, Q
<1>13. groups \in Seq(Q)
  BY <1>11
<1>14. /\ groups' \in Seq(Q)
       /\ \A i, j \in DOMAIN groups' : groups'[i].book = groups'[j].book => i = j
       /\ \A x \in BooksSeen' : \A i \in DOMAIN groups' : groups'[i].book = x => groups'[i].records = BookRecords(x)
       /\ ToSet(groups') = ToSet(groups) \cup IF BookRecords(b) = {} THEN {} ELSE {e}
  <2>1. CASE BookRecords(b) = {}
    BY <1>3, <1>7, <1>10, <1>13, <2>1
  <2>2. CASE BookRecords(b) # {}
    <3>1. groups' = Append(groups, e)
      BY <1>3, <2>2
    <3> DEFINE n == Len(groups)
    <3>2. /\ groups' \in Seq(Q) /\ DOMAIN groups' = 1..(n + 1) /\ groups'[n + 1] = e
          /\ \A i \in 1..n : groups'[i] = groups[i]
      BY <1>11, <1>13, <3>1
    <3>3. ToSet(groups') = ToSet(groups) \cup {e}
      BY <1>11, <1>13, <3>1, AppendToSet
    <3>4. e.book = b /\ e.records = BookRecords(b)
      BY DEF e
    <3>5. \A i \in 1..n : groups'[i].book # b /\ groups'[i].book \in BooksSeen
      BY <1>7, <1>10, <3>2
    <3>6. \A i \in 1..(n + 1) : i = n + 1 \/ i \in 1..n
      BY <1>10
    <3>7. \A i, j \in DOMAIN groups' : groups'[i].book = groups'[j].book => i = j
      <4> TAKE i, j \in DOMAIN groups'
      <4>1. CASE i \in 1..n /\ j \in 1..n
        BY <1>10, <3>2, <4>1
      <4>2. CASE i = n + 1 \/ j = n + 1
        BY <3>2, <3>4, <3>5, <3>6, <4>2
      <4> QED BY <3>2, <3>6, <4>1, <4>2
    <3>8. ASSUME NEW x \in BooksSeen', NEW i \in DOMAIN groups', groups'[i].book = x
          PROVE  groups'[i].records = BookRecords(x)
      <4>1. CASE i = n + 1
        BY <3>2, <3>4, <3>8, <4>1
      <4>2. CASE i \in 1..n
        BY <1>10, <3>2, <3>5, <3>8, <4>2
      <4> QED BY <3>2, <3>6, <4>1, <4>2
    <3> QED BY <2>2, <3>2, <3>3, <3>7, <3>8
  <2> QED BY <2>1, <2>2
<1>15. /\ failedBooks' \cup {g.book : g \in ToSet(groups')} = BooksSeen'
       /\ failedBooks' \cap {g.book : g \in ToSet(groups')} = {}
       /\ \A x \in failedBooks' : BookRecords(x) = {}
  <2>1. CASE BookRecords(b) = {}
    BY <1>3, <1>7, <1>10, <2>1
  <2>2. CASE BookRecords(b) # {}
    <3>1. e.book = b
      BY DEF e
    <3>2. {g.book : g \in ToSet(groups')} = {g.book : g \in ToSet(groups)} \cup {b}
      BY <1>14, <2>2, <3>1
    <3> QED BY <1>3, <1>7, <1>10, <2>2, <3>2
  <2> QED BY <2>1, <2>2
<1>16. GroupsAreBooks'
  <2>1. \A x \in BooksSeen' : \A i \in DOMAIN groups' : groups'[i].book = x => groups'[i].records = BookRecords(x)'
    BY <1>12, <1>14
  <2>2. \A x \in failedBooks' : BookRecords(x)' = {}
    BY <1>12, <1>15
  <2> QED BY <1>2, <1>8, <1>14, <1>15, <2>1, <2>2 DEF GroupsAreBooks, Q
<1>17. ASSUME ~shelf.joins PROVE FilesAreOfRun'
  <2>1. FilesAreOfRun
    BY <1>1, <1>17
  <2>2. /\ BookRecords(b) = {} => outFiles' = outFiles
        /\ BookRecords(b) # {} => /\ \A base \in Bases : base # stem => outFiles'[base] = outFiles[base]
                                  /\ \A k \in ToSet(Kinds) : outFiles'[stem][k] = Bundle(BookRecords(b))
    <3>1. CASE BookRecords(b) = {}
      BY <1>3, <3>1
    <3>2. CASE BookRecords(b) # {}
      BY <1>1, <1>3, <1>17, <3>2, BookWrites DEF stem
    <3> QED BY <3>1, <3>2
  <2>3. Bundle(BookRecords(b)).run = runNo
    BY DEF Bundle
  <2>4. \A g \in ToSet(groups) : shelf.books[g.book].stem \in Bases
    BY <1>10 DEF Bases, BooksSeen
  <2>5. ASSUME NEW g \in ToSet(groups'), NEW k \in ToSet(Kinds)
        PROVE  /\ outFiles'[shelf.books[g.book].stem][k].run = runNo
               /\ outFiles'[shelf.books[g.book].stem][k] = outFiles'[shelf.books[g.book].stem]["xlsx"]
    <3> DEFINE base == shelf.books[g.book].stem
    <3>1. CASE BookRecords(b) # {} /\ base = stem
      <4>1. outFiles'[stem][k] = Bundle(BookRecords(b)) /\ outFiles'[stem]["xlsx"] = Bundle(BookRecords(b))
        BY <2>2, <3>1, KindsPlaces
      <4> QED BY <2>3, <3>1, <4>1
    <3>2. CASE BookRecords(b) # {} /\ base # stem
      <4>1. g # e
        BY <3>2 DEF e, stem
      <4>2. g \in ToSet(groups)
        BY <1>14, <2>5, <4>1
      <4>3. outFiles'[base] = outFiles[base]
        BY <2>2, <2>4, <3>2, <4>2
      <4> QED BY <2>1, <4>2, <4>3 DEF FilesAreOfRun
    <3>3. CASE BookRecords(b) = {}
      <4>1. g \in ToSet(groups) /\ outFiles' = outFiles
        BY <1>14, <2>2, <2>5, <3>3
      <4> QED BY <2>1, <4>1 DEF FilesAreOfRun
    <3> QED BY <3>1, <3>2, <3>3
  <2>6. ASSUME NEW g \in ToSet(groups'), HasIssues(g.book) PROVE issueFiles'[shelf.books[g.book].stem] = runNo
    <3>1. CASE g \in ToSet(groups)
      <4>1. issueFiles[shelf.books[g.book].stem] = runNo /\ shelf.books[g.book].stem \in Bases
        BY <2>1, <2>4, <2>6, <3>1 DEF FilesAreOfRun
      <4> QED BY <1>2, <1>4, <4>1
    <3>2. CASE g \notin ToSet(groups)
      <4>1. g = e
        BY <1>14, <2>6, <3>2
      <4>2. g.book = b
        BY <4>1 DEF e
      <4> QED BY <1>2, <1>4, <2>6, <4>2 DEF stem
    <3> QED BY <3>1, <3>2
  <2>7. \A g \in ToSet(groups') : HasIssues(g.book)' = HasIssues(g.book)
    BY <1>12
  <2> QED BY <1>2, <2>5, <2>6, <2>7 DEF FilesAreOfRun
<1>18. GrandIsTrue'
  BY <1>1, <1>2 DEF GrandIsTrue
<1>19. shelfAt' \in {"book", "combined"}
  BY <1>2
<1> QED BY <1>2, <1>6, <1>16, <1>17, <1>18, <1>19 DEF GlossaryInv, RunBegins, IsWriting

\* the groups stay as they are while the books do
LEMMA GroupsStay ==
    ASSUME GroupsAreBooks, shelf' = shelf, marks' = marks, bookNo' = bookNo, groups' = groups, failedBooks' = failedBooks,
           shelfAt # "book", shelfAt' # "book"
    PROVE  GroupsAreBooks'
<1>1. \A x : BookRecords(x)' = BookRecords(x)
  BY BooksStay
<1>2. BooksSeen' = BooksSeen
  BY DEF BooksSeen
<1> QED BY <1>1, <1>2 DEF GroupsAreBooks

LEMMA WriteCombinedKeeps == GlossaryInv /\ WriteCombined => GlossaryInv'
<1> SUFFICES ASSUME GlossaryInv, WriteCombined PROVE GlossaryInv'
  OBVIOUS
<1>1. GlossaryTypes /\ shelfAt = "combined" /\ GroupsAreBooks /\ GrandIsTrue /\ (~shelf.joins => FilesAreOfRun)
  BY DEF GlossaryInv, IsWriting, WriteCombined
<1>2. /\ shelfAt' = "finish" /\ UNCHANGED <<shelf, marks, grand, bookNo, groups, failedBooks, runNo>>
      /\ IF shelf.joins /\ groups # <<>>
         THEN /\ outFiles' = [base \in Bases |-> IF base = Joined THEN [k \in ToSet(Kinds) |-> Bundle(Combined)]
                                                 ELSE [k \in ToSet(Kinds) |-> NotYet]]
              /\ issueFiles' = [base \in Bases |-> IF base = Joined THEN issueFiles[base] ELSE 0]
         ELSE UNCHANGED <<outFiles, issueFiles>>
  BY DEF WriteCombined, Untouched
<1>3. /\ marks \in Seq(MarkForm) /\ bookNo \in Nat
      /\ DOMAIN outFiles = Bases /\ (\A base \in Bases : DOMAIN outFiles[base] = ToSet(Kinds)) /\ DOMAIN issueFiles = Bases
  BY <1>1 DEF GlossaryTypes
<1>4. GlossaryTypes'
  <2>1. DOMAIN outFiles' = Bases /\ (\A base \in Bases : DOMAIN outFiles'[base] = ToSet(Kinds)) /\ DOMAIN issueFiles' = Bases
    <3>1. CASE shelf.joins /\ groups # <<>>
      BY <1>2, <3>1
    <3>2. CASE ~(shelf.joins /\ groups # <<>>)
      BY <1>2, <1>3, <3>2
    <3> QED BY <3>1, <3>2
  <2> QED BY <1>1, <1>2, <1>3, <2>1, TypesStay
<1>5. GroupsAreBooks'
  BY <1>1, <1>2, GroupsStay
<1>6. GrandIsTrue'
  BY <1>1, <1>2 DEF GrandIsTrue
<1>7. ASSUME ~shelf.joins PROVE FilesAreOfRun'
  <2>1. \A x : HasIssues(x)' = HasIssues(x)
    BY <1>2, BooksStay
  <2>2. outFiles' = outFiles /\ issueFiles' = issueFiles
    BY <1>2, <1>7
  <2> QED BY <1>1, <1>2, <1>7, <2>1, <2>2 DEF FilesAreOfRun
<1>8. ASSUME shelf.joins, groups # <<>> PROVE JoinedIsWritten'
  <2>1. Bundle(Combined)' = Bundle(Combined)
    BY <1>2, CombinedStays
  <2>2. Joined \in Bases
    BY DEF Bases
  <2>3. outFiles'[Joined] = [k \in ToSet(Kinds) |-> Bundle(Combined)]
    BY <1>2, <1>8, <2>2
  <2>4. Joined' = Joined
    BY DEF Joined
  <2>5. outFiles'[Joined] = [k \in ToSet(Kinds) |-> Bundle(Combined)']
    BY <2>1, <2>3
  <2> QED BY <2>4, <2>5 DEF JoinedIsWritten, Kinds
<1> QED BY <1>2, <1>4, <1>5, <1>6, <1>7, <1>8 DEF GlossaryInv, RunBegins, IsWriting

LEMMA FinalizeKeeps == GlossaryInv /\ Finalize => GlossaryInv'
<1> SUFFICES ASSUME GlossaryInv, Finalize PROVE GlossaryInv'
  OBVIOUS
<1>1. /\ GlossaryTypes /\ shelfAt = "finish" /\ GroupsAreBooks /\ GrandIsTrue /\ (~shelf.joins => FilesAreOfRun)
      /\ (shelf.joins /\ groups # <<>> => JoinedIsWritten)
  BY DEF GlossaryInv, IsWriting, Finalize
<1>2. shelfAt' = "over" /\ UNCHANGED <<shelf, marks, grand, bookNo, groups, failedBooks, outFiles, issueFiles, runNo>>
  BY DEF Finalize, Untouched
<1>3. GlossaryTypes'
  <2>1. /\ marks \in Seq(MarkForm) /\ bookNo \in Nat
        /\ DOMAIN outFiles = Bases /\ (\A base \in Bases : DOMAIN outFiles[base] = ToSet(Kinds)) /\ DOMAIN issueFiles = Bases
    BY <1>1 DEF GlossaryTypes
  <2> QED BY <1>1, <1>2, <2>1, TypesStay
<1>4. GroupsAreBooks'
  BY <1>1, <1>2, GroupsStay
<1>5. GrandIsTrue'
  BY <1>1, <1>2 DEF GrandIsTrue
<1>6. \A x : HasIssues(x)' = HasIssues(x)
  BY <1>2, BooksStay
<1>7. ~shelf.joins => FilesAreOfRun'
  BY <1>1, <1>2, <1>6 DEF FilesAreOfRun
<1>8. ASSUME shelf.joins, groups # <<>> PROVE JoinedIsWritten'
  <2>1. Bundle(Combined)' = Bundle(Combined)
    BY <1>2, CombinedStays
  <2>2. outFiles'[Joined] = [k \in ToSet(Kinds) |-> Bundle(Combined)']
    BY <1>1, <1>2, <1>8, <2>1 DEF JoinedIsWritten
  <2> QED BY <2>2 DEF JoinedIsWritten, Kinds
<1>9. ToldIsThis'
  <2>1. told' = [run |-> runNo,
                 outputs |-> IF shelf.joins THEN (IF groups = <<>> THEN {} ELSE {Joined})
                             ELSE {shelf.books[g.book].stem : g \in ToSet(groups)},
                 issues |-> IF shelf.joins THEN {}
                            ELSE {shelf.books[g.book].stem : g \in {x \in ToSet(groups) : HasIssues(x.book)}}]
    BY DEF Finalize
  <2>2. {x \in ToSet(groups) : HasIssues(x.book)'} = {x \in ToSet(groups) : HasIssues(x.book)}
    BY <1>6
  <2> QED BY <1>2, <2>1, <2>2 DEF ToldIsThis
<1> QED BY <1>2, <1>3, <1>4, <1>5, <1>7, <1>8, <1>9 DEF GlossaryInv, RunBegins, IsWriting

LEMMA DiesKeeps == GlossaryInv /\ Dies => GlossaryInv'
<1> SUFFICES ASSUME GlossaryInv, Dies PROVE GlossaryInv'
  OBVIOUS
<1>1. GlossaryTypes
  BY DEF GlossaryInv
<1>2. shelfAt' = "dead" /\ UNCHANGED <<shelf, marks, bookNo, issueFiles>>
  BY DEF Dies
<1>3. /\ marks \in Seq(MarkForm) /\ bookNo \in Nat
      /\ DOMAIN outFiles = Bases /\ (\A base \in Bases : DOMAIN outFiles[base] = ToSet(Kinds)) /\ DOMAIN issueFiles = Bases
  BY <1>1 DEF GlossaryTypes
<1>6. shelfAt = "book" => bookNo \in DOMAIN shelf.books
  BY DEF GlossaryInv, IsWriting, GroupsAreBooks
<1>4. DOMAIN outFiles' = Bases /\ \A base \in Bases : DOMAIN outFiles'[base] = ToSet(Kinds)
  <2>1. CASE shelfAt = "book" /\ \E upto \in 0..2 : Written(shelf.books[bookNo].stem, BookRecords(bookNo), upto)
    <3>1. PICK upto \in Nat : Written(shelf.books[bookNo].stem, BookRecords(bookNo), upto)
      BY <2>1
    <3>2. bookNo \in DOMAIN shelf.books
      BY <1>6, <2>1
    <3> QED BY <1>1, <3>1, <3>2, BookWrites
  <2>2. CASE outFiles' = outFiles
    BY <1>3, <2>2
  <2>3. CASE outFiles' = [base \in Bases |-> IF base = Joined THEN outFiles[base] ELSE [k \in ToSet(Kinds) |-> NotYet]]
    BY <1>3, <2>3
  <2> QED BY <2>1, <2>2, <2>3 DEF Dies
<1>5. GlossaryTypes'
  BY <1>1, <1>2, <1>3, <1>4, TypesStay
<1> QED BY <1>2, <1>5 DEF GlossaryInv, RunBegins, IsWriting

LEMMA StutterKeeps == GlossaryInv /\ UNCHANGED glossaryVars => GlossaryInv'
<1> SUFFICES ASSUME GlossaryInv, UNCHANGED glossaryVars PROVE GlossaryInv'
  OBVIOUS
<1>1. UNCHANGED <<shelf, marks, grand, shelfAt, bookNo, groups, failedBooks, outFiles, issueFiles, told, runNo>>
  BY DEF glossaryVars
<1>2. \A x : HasIssues(x)' = HasIssues(x) /\ BookRecords(x)' = BookRecords(x)
  BY <1>1, BooksStay
<1>3. Bundle(Combined)' = Bundle(Combined)
  BY <1>1, CombinedStays
<1>4. GlossaryTypes' /\ RunBegins'
  <2>1. /\ GlossaryTypes /\ marks \in Seq(MarkForm) /\ bookNo \in Nat
        /\ DOMAIN outFiles = Bases /\ (\A base \in Bases : DOMAIN outFiles[base] = ToSet(Kinds)) /\ DOMAIN issueFiles = Bases
        /\ shelfAt \in {"none", "running", "book", "combined", "finish", "over", "dead"}
    BY DEF GlossaryTypes, GlossaryInv
  <2>2. GlossaryTypes'
    BY <1>1, <2>1, TypesStay
  <2> QED BY <1>1, <2>2 DEF GlossaryInv, RunBegins
<1>5. GroupsAreBooks => GroupsAreBooks'
  <2>1. BooksSeen' = BooksSeen
    BY <1>1 DEF BooksSeen
  <2> QED BY <1>1, <1>2, <2>1 DEF GroupsAreBooks
<1>6. (FilesAreOfRun => FilesAreOfRun') /\ (GrandIsTrue => GrandIsTrue')
  BY <1>1, <1>2 DEF FilesAreOfRun, GrandIsTrue
<1>7. JoinedIsWritten => JoinedIsWritten'
  BY <1>1, <1>3 DEF JoinedIsWritten, Kinds
<1>8. ToldIsThis => ToldIsThis'
  <2>1. {x \in ToSet(groups) : HasIssues(x.book)'} = {x \in ToSet(groups) : HasIssues(x.book)}
    BY <1>2
  <2> QED BY <1>1, <2>1 DEF ToldIsThis
<1> QED BY <1>1, <1>4, <1>5, <1>6, <1>7, <1>8 DEF GlossaryInv, IsWriting

\* The glossary run: whatever stops, dies and is continued, the artifacts a run tells of say what the
\* completed chunks of each book have, once and under the right book
THEOREM ExtractsAreKept == GlossarySpec => []TermsAreKept
<1>1. GlossaryInv /\ [GlossaryNext]_glossaryVars => GlossaryInv'
  <2> SUFFICES ASSUME GlossaryInv, [GlossaryNext]_glossaryVars PROVE GlossaryInv'
    OBVIOUS
  <2> QED BY StartKeeps, ChunkKeeps, EndKeeps, WriteBookKeeps, WriteCombinedKeeps, FinalizeKeeps, DiesKeeps, StutterKeeps
          DEF GlossaryNext
<1>2. GlossaryInv => TermsAreKept
  BY ExtractsGiveTerms
<1> QED BY <1>1, <1>2, GlossaryInvInit, PTL DEF GlossarySpec
=============================================================================
