------------------------------- MODULE BookProofs -------------------------------
(***************************************************************************)
(* Proofs about module EpubSession, for every set of names, ids and books, *)
(* every folding of names and every depth of the undo stack.  An operation *)
(* on a view is first given field by field, then shown to keep a view      *)
(* sound; a request keeps the session sound since each of its operations   *)
(* does.  The links an operation moves are followed by a map on links.     *)
(*                                                                         *)
(* Then about OutputFiles, for every set of ways to write a file, with or  *)
(* without hard links, and whatever others put into the folder meanwhile:  *)
(* no file is lost to a tool that was not told to overwrite it.  And about *)
(* TxtChapters and ReplaceRules: the chapters are the text, and the rules  *)
(* act one after the other, for every text and every list of rules.        *)
(***************************************************************************)
EXTENDS EpubSession, OutputFiles, TxtChapters, ReplaceRules, Integers, FiniteSetTheorems, ListLemmas

-----------------------------------------------------------------------------
(* The inductive invariant *)

Archive == [Paths -> Resource \cup {None}]
View == [files : SUBSET Paths, spine : Seq(Paths), linear : SUBSET Paths, toc : SUBSET Links,
         removed : SUBSET Paths, changes : Archive, manifest : SUBSET Paths, itemrefs : SUBSET Paths]
Fields == {"files", "spine", "linear", "toc", "removed", "changes", "manifest", "itemrefs"}
Shaped(b) == b = [x \in Fields |-> b[x]]

\* what a view shows over an archive
ShownIn(b, res) == [p \in Paths |-> IF b.changes[p] # None THEN b.changes[p]
                                  ELSE IF p \in b.removed THEN None ELSE res[p]]
\* r leads somewhere in the resources v
Leads(v, r) == v[r[1]] # None /\ (r[2] = "" \/ r[2] \in v[r[1]].ids)
Linking(v, entries) ==
    /\ \A r \in entries : Leads(v, r)
    /\ \A p \in Has(v) : \A r \in v[p].refs : Leads(v, r)
Distinct(ps) == \A p, q \in ps : Folded[p] = Folded[q] => p = q
\* the lists of a view agree with one another and with the resources v
Listed(b, v) ==
    /\ b.files = Has(v) /\ b.manifest = b.files
    /\ b.linear = ToSet(b.spine) /\ b.linear \subseteq b.files /\ b.itemrefs = b.linear
Sound(b, res) ==
    Listed(b, ShownIn(b, res)) /\ Linking(ShownIn(b, res), b.toc) /\ Distinct(b.files)

Sounds(res) == {b \in View : Sound(b, res)}
ViewsSound(s, res) ==
    /\ res \in Archive /\ s.cur \in Sounds(res) /\ s.checkpoints \subseteq Sounds(res)
    /\ s.undo \in Seq(Sounds(res)) /\ s.redo \in Seq(Sounds(res))
\* the session s is one that can go on, over the files on disk
SessionSound(s, disk) ==
    /\ s.path \in {"source", "other"} /\ s.seen \in Nat \ {0}
    /\ disk[s.path].print = s.seen => ViewsSound(s, disk[s.path].res)
StateFields == {"path", "seen", "cur", "undo", "redo", "checkpoints"}
EpubInv ==
    /\ epubs = [o \in {"source", "other"} |-> epubs[o]] /\ "print" \in DOMAIN epubs["source"]
    /\ loaded \in BOOLEAN /\ owed \in BOOLEAN
    /\ loaded => SessionSound(Packed, epubs)
    /\ stored # NoState => SessionSound(stored, epubs) /\ stored = [x \in StateFields |-> stored[x]]
    /\ loaded /\ stored # NoState => stored.seen <= seen
    /\ StateFileIsCurrent

-----------------------------------------------------------------------------
(* Sequences of the reading order. *)

\* s but for ps, place by place
KeptOf(k, s, ps, n) ==
    /\ k[0] = <<>>
    /\ \A i \in 1..n : k[i] = IF s[i] \in ps THEN k[i - 1] ELSE Append(k[i - 1], s[i])

\* and what is kept of the first i is that, for every i
Reach(s, ps, i) == {s[j] : j \in 1..i} \ ps
Goes(k, s, ps, S, n) ==
    /\ k = [i \in 0..n |-> k[i]] /\ KeptOf(k, s, ps, n)
    /\ \A i \in 0..n : k[i] \in Seq(S) /\ ToSet(k[i]) = Reach(s, ps, i)

LEMMA ConcatToSet ==
    ASSUME NEW S, NEW s \in Seq(S), NEW q \in Seq(S)
    PROVE  s \o q \in Seq(S) /\ ToSet(s \o q) = ToSet(s) \cup ToSet(q)
<1> DEFINE r == s \o q
<1>1. r \in Seq(S) /\ Len(r) = Len(s) + Len(q)
  OBVIOUS
<1>2. \A i \in 1..(Len(s) + Len(q)) : r[i] = IF i <= Len(s) THEN s[i] ELSE q[i - Len(s)]
  OBVIOUS
<1> HIDE DEF r
<1>3. /\ ToSet(r) = {r[i] : i \in 1..(Len(s) + Len(q))} /\ ToSet(s) = {s[i] : i \in 1..Len(s)}
      /\ ToSet(q) = {q[i] : i \in 1..Len(q)}
  BY <1>1, SeqToSet
<1>4. ASSUME NEW i \in 1..(Len(s) + Len(q)) PROVE r[i] \in ToSet(s) \cup ToSet(q)
  <2>1. CASE i <= Len(s)
    <3>1. i \in 1..Len(s) /\ r[i] = s[i]
      BY <1>2, <2>1
    <3> QED BY <1>3, <3>1
  <2>2. CASE ~(i <= Len(s))
    <3>1. i - Len(s) \in 1..Len(q) /\ r[i] = q[i - Len(s)]
      BY <1>2, <2>2
    <3> QED BY <1>3, <3>1
  <2> QED BY <2>1, <2>2
<1>5. ASSUME NEW i \in 1..Len(s) PROVE s[i] \in ToSet(r)
  <2>1. i \in 1..(Len(s) + Len(q)) /\ r[i] = s[i]
    BY <1>2
  <2> QED BY <1>3, <2>1
<1>6. ASSUME NEW i \in 1..Len(q) PROVE q[i] \in ToSet(r)
  <2>1. i + Len(s) \in 1..(Len(s) + Len(q)) /\ r[i + Len(s)] = q[i]
    <3>1. i + Len(s) \in 1..(Len(s) + Len(q)) /\ ~(i + Len(s) <= Len(s)) /\ (i + Len(s)) - Len(s) = i
      OBVIOUS
    <3> QED BY <1>2, <3>1
  <2> QED BY <1>3, <2>1
<1>7. ToSet(r) \subseteq ToSet(s) \cup ToSet(q)
  BY <1>3, <1>4
<1>8. ToSet(s) \subseteq ToSet(r) /\ ToSet(q) \subseteq ToSet(r)
  BY <1>3, <1>5, <1>6
<1> QED BY <1>1, <1>7, <1>8 DEF r

LEMMA PartToSet ==
    ASSUME NEW S, NEW s \in Seq(S), NEW i \in 1..Len(s)
    PROVE  /\ SubSeq(s, 1, i) \in Seq(S) /\ SubSeq(s, i + 1, Len(s)) \in Seq(S)
           /\ ToSet(SubSeq(s, 1, i)) \cup ToSet(SubSeq(s, i + 1, Len(s))) = ToSet(s)
<1> DEFINE a == SubSeq(s, 1, i)
           b == SubSeq(s, i + 1, Len(s))
<1>1. a \in Seq(S) /\ Len(a) = i /\ \A k \in 1..i : a[k] = s[k]
  OBVIOUS
<1>2. b \in Seq(S) /\ Len(b) = Len(s) - i /\ \A k \in 1..(Len(s) - i) : b[k] = s[k + i]
  OBVIOUS
<1> HIDE DEF a, b
<1>3. ToSet(a) = {a[k] : k \in 1..i} /\ ToSet(b) = {b[k] : k \in 1..(Len(s) - i)} /\ ToSet(s) = {s[k] : k \in 1..Len(s)}
  <2>1. ToSet(a) = {a[k] : k \in 1..Len(a)} /\ ToSet(b) = {b[k] : k \in 1..Len(b)}
    BY <1>1, <1>2, SeqToSet
  <2> QED BY <1>1, <1>2, <2>1, SeqToSet
<1>4. \A k \in 1..i : k \in 1..Len(s)
  OBVIOUS
<1>5. \A k \in 1..(Len(s) - i) : k + i \in 1..Len(s)
  OBVIOUS
<1>6. \A k \in 1..Len(s) : k \in 1..i \/ (k - i \in 1..(Len(s) - i) /\ (k - i) + i = k)
  OBVIOUS
<1>7. ToSet(a) \subseteq ToSet(s)
  BY <1>1, <1>3, <1>4
<1>8. ToSet(b) \subseteq ToSet(s)
  BY <1>2, <1>3, <1>5
<1>9. ToSet(s) \subseteq ToSet(a) \cup ToSet(b)
  <2> SUFFICES ASSUME NEW k \in 1..Len(s) PROVE s[k] \in ToSet(a) \cup ToSet(b)
    BY <1>3
  <2>1. CASE k \in 1..i
    BY <1>1, <1>3, <2>1
  <2>2. CASE k - i \in 1..(Len(s) - i) /\ (k - i) + i = k
    <3>1. b[k - i] = s[k]
      BY <1>2, <2>2
    <3> QED BY <1>3, <2>2, <3>1
  <2> QED BY <1>6, <2>1, <2>2
<1> QED BY <1>1, <1>2, <1>7, <1>8, <1>9 DEF a, b

LEMMA InsertToSet ==
    ASSUME NEW S, NEW s \in Seq(S), NEW p \in ToSet(s), NEW q \in S
    PROVE  Insert(s, p, q) \in Seq(S) /\ ToSet(Insert(s, p, q)) = ToSet(s) \cup {q}
<1> DEFINE i == CHOOSE k \in 1..Len(s) : s[k] = p
           a == SubSeq(s, 1, i)
           b == SubSeq(s, i + 1, Len(s))
<1>1. i \in 1..Len(s)
  BY SeqToSet
<1> HIDE DEF i
<1>2. a \in Seq(S) /\ b \in Seq(S) /\ ToSet(a) \cup ToSet(b) = ToSet(s)
  BY <1>1, PartToSet
<1>3. Insert(s, p, q) = a \o <<q>> \o b
  BY DEF Insert, i
<1> HIDE DEF a, b
<1> DEFINE m == <<q>>
           c == a \o m
<1>4. m \in Seq(S) /\ ToSet(m) = {q}
  BY DEF ToSet
<1>5. Insert(s, p, q) = c \o b
  BY <1>3
<1> HIDE DEF m
<1>6. c \in Seq(S) /\ ToSet(c) = ToSet(a) \cup ToSet(m)
  BY <1>2, <1>4, ConcatToSet
<1> HIDE DEF c
<1>7. c \o b \in Seq(S) /\ ToSet(c \o b) = ToSet(c) \cup ToSet(b)
  BY <1>2, <1>6, ConcatToSet
<1> QED BY <1>2, <1>4, <1>5, <1>6, <1>7

LEMMA WithoutToSet ==
    ASSUME NEW S, NEW s \in Seq(S), NEW ps
    PROVE  Without(s, ps) \in Seq(S) /\ ToSet(Without(s, ps)) = ToSet(s) \ ps
<1> DEFINE n == Len(s)
           Eq(k) == k = [i \in 0..n |-> IF i = 0 THEN <<>>
                                         ELSE IF s[i] \in ps THEN k[i - 1] ELSE Append(k[i - 1], s[i])]
           kept == CHOOSE k : Eq(k)
           T == {m \in Nat : m <= n => \E k : Goes(k, s, ps, S, m)}
<1>0. n \in Nat /\ \A i \in 1..n : s[i] \in S
  OBVIOUS
<1>1. 0 \in T
  <2> DEFINE k == [i \in 0..0 |-> <<>>]
  <2>1. k[0] = <<>> /\ <<>> \in Seq(S) /\ ToSet(<<>>) = {}
    BY DEF ToSet
  <2>2. Reach(s, ps, 0) = {}
    BY DEF Reach
  <2>3. k = [i \in 0..0 |-> k[i]] /\ \A i \in 0..0 : i = 0
    OBVIOUS
  <2> HIDE DEF k
  <2>4. Goes(k, s, ps, S, 0)
    <3>1. KeptOf(k, s, ps, 0)
      <4>1. 1..0 = {}
        OBVIOUS
      <4> QED BY <2>1, <4>1 DEF KeptOf
    <3>2. \A i \in 0..0 : k[i] \in Seq(S) /\ ToSet(k[i]) = Reach(s, ps, i)
      BY <2>1, <2>2, <2>3
    <3> QED BY <2>3, <3>1, <3>2 DEF Goes
  <2> QED BY <2>4
<1>2. ASSUME NEW m \in T PROVE m + 1 \in T
  <2> SUFFICES ASSUME m + 1 <= n PROVE \E k : Goes(k, s, ps, S, m + 1)
    OBVIOUS
  <2>0. m \in Nat /\ m <= n
    BY <1>0
  <2>1. PICK k : Goes(k, s, ps, S, m)
    BY <2>0
  <2> DEFINE new == IF s[m + 1] \in ps THEN k[m] ELSE Append(k[m], s[m + 1])
             q == [i \in 0..(m + 1) |-> IF i = m + 1 THEN new ELSE k[i]]
  <2>2. k[m] \in Seq(S) /\ ToSet(k[m]) = Reach(s, ps, m) /\ s[m + 1] \in S /\ m \in 0..m
    BY <1>0, <2>0, <2>1 DEF Goes
  <2>3. Reach(s, ps, m + 1) = IF s[m + 1] \in ps THEN Reach(s, ps, m) ELSE Reach(s, ps, m) \cup {s[m + 1]}
    <3>1. 1..(m + 1) = 1..m \cup {m + 1}
      OBVIOUS
    <3> QED BY <3>1 DEF Reach
  <2>4. new \in Seq(S) /\ ToSet(new) = Reach(s, ps, m + 1)
    <3>1. CASE s[m + 1] \in ps
      BY <2>2, <2>3, <3>1
    <3>2. CASE s[m + 1] \notin ps
      <4> DEFINE o == k[m]
      <4>1. o \in Seq(S)
        BY <2>2
      <4> HIDE DEF o
      <4>2. Append(o, s[m + 1]) \in Seq(S) /\ ToSet(Append(o, s[m + 1])) = ToSet(o) \cup {s[m + 1]}
        BY <2>2, <4>1, AppendToSet
      <4> QED BY <2>2, <2>3, <3>2, <4>2 DEF o
    <3> QED BY <3>1, <3>2
  <2>5. /\ q = [i \in 0..(m + 1) |-> q[i]]
        /\ \A i \in 0..m : i \in 0..(m + 1) /\ i # m + 1 /\ q[i] = k[i]
        /\ q[m + 1] = new
    OBVIOUS
  <2> HIDE DEF q
  <2>6. KeptOf(q, s, ps, m + 1)
    <3>1. q[0] = <<>>
      <4>1. 0 \in 0..m
        OBVIOUS
      <4> QED BY <2>1, <2>5, <4>1 DEF KeptOf, Goes
    <3>2. ASSUME NEW i \in 1..(m + 1) PROVE q[i] = IF s[i] \in ps THEN q[i - 1] ELSE Append(q[i - 1], s[i])
      <4>1. CASE i = m + 1
        <5>1. i - 1 = m /\ q[i - 1] = k[m]
          <6>1. i - 1 = m
            BY <2>0, <4>1
          <6> QED BY <2>2, <2>5, <6>1
        <5> QED BY <2>5, <4>1, <5>1
      <4>2. CASE i # m + 1
        <5>1. i \in 1..m /\ i \in 0..m /\ i - 1 \in 0..m
          BY <2>0, <4>2
        <5>2. q[i] = k[i] /\ q[i - 1] = k[i - 1]
          BY <2>5, <5>1
        <5> QED BY <2>1, <5>1, <5>2 DEF KeptOf, Goes
      <4> QED BY <4>1, <4>2
    <3> QED BY <3>1, <3>2 DEF KeptOf
  <2>7. \A i \in 0..(m + 1) : q[i] \in Seq(S) /\ ToSet(q[i]) = Reach(s, ps, i)
    <3> TAKE i \in 0..(m + 1)
    <3>1. CASE i = m + 1
      BY <2>4, <2>5, <3>1
    <3>2. CASE i # m + 1
      <4>1. i \in 0..m
        BY <2>0, <3>2
      <4> QED BY <2>1, <2>5, <4>1 DEF Goes
    <3> QED BY <3>1, <3>2
  <2>8. Goes(q, s, ps, S, m + 1)
    BY <2>5, <2>6, <2>7 DEF Goes
  <2> QED BY <2>8
<1> HIDE DEF T
<1>3. n \in T
  <2>1. T \in SUBSET Nat
    BY DEF T
  <2> QED BY <1>0, <1>1, <1>2, <2>1, NatInductionBySet
<1>4. PICK k : Goes(k, s, ps, S, n)
  BY <1>0, <1>3 DEF T
<1>5. Eq(k)
  <2>1. \A i \in 0..n : i # 0 => i \in 1..n
    BY <1>0
  <2>2. \A i \in 0..n : k[i] = IF i = 0 THEN <<>> ELSE IF s[i] \in ps THEN k[i - 1] ELSE Append(k[i - 1], s[i])
    BY <1>4, <2>1 DEF KeptOf, Goes
  <2> QED BY <1>4, <2>2 DEF Goes
<1>6. Eq(kept)
  BY <1>5
<1>7. Without(s, ps) = kept[n]
  BY DEF Without
<1> HIDE DEF kept
<1>8. \A i \in 0..n : kept[i] = IF i = 0 THEN <<>> ELSE IF s[i] \in ps THEN kept[i - 1] ELSE Append(kept[i - 1], s[i])
  BY <1>6
<1> DEFINE U == {m \in Nat : m <= n => kept[m] = k[m]}
<1>9. 0 \in U
  BY <1>0, <1>4, <1>8 DEF KeptOf, Goes
<1>10. ASSUME NEW m \in U PROVE m + 1 \in U
  <2> SUFFICES ASSUME m + 1 <= n PROVE kept[m + 1] = k[m + 1]
    OBVIOUS
  <2>1. kept[m] = k[m] /\ m + 1 \in 1..n /\ m + 1 \in 0..n /\ m + 1 # 0 /\ (m + 1) - 1 = m
    BY <1>0
  <2>2. kept[m + 1] = IF s[m + 1] \in ps THEN kept[m] ELSE Append(kept[m], s[m + 1])
    BY <1>8, <2>1
  <2>3. k[m + 1] = IF s[m + 1] \in ps THEN k[m] ELSE Append(k[m], s[m + 1])
    BY <1>4, <2>1 DEF KeptOf, Goes
  <2> QED BY <2>1, <2>2, <2>3
<1> HIDE DEF U
<1>11. n \in U
  <2>1. U \in SUBSET Nat
    BY DEF U
  <2> QED BY <1>0, <1>9, <1>10, <2>1, NatInductionBySet
<1>12. kept[n] \in Seq(S) /\ ToSet(kept[n]) = Reach(s, ps, n)
  BY <1>0, <1>4, <1>11 DEF U, Goes
<1>13. Reach(s, ps, n) = ToSet(s) \ ps
  BY SeqToSet DEF Reach
<1> QED BY <1>7, <1>12, <1>13

\* t in the places of p
Swapped(s, p, t) == [i \in DOMAIN s |-> IF s[i] = p THEN t ELSE s[i]]

LEMMA SwappedToSet ==
    ASSUME NEW S, NEW s \in Seq(S), NEW p, NEW t \in S
    PROVE  /\ Swapped(s, p, t) \in Seq(S)
           /\ ToSet(Swapped(s, p, t)) = IF p \in ToSet(s) THEN (ToSet(s) \ {p}) \cup {t} ELSE ToSet(s)
<1> DEFINE r == Swapped(s, p, t)
<1>1. DOMAIN s = 1..Len(s) /\ Len(s) \in Nat /\ \A i \in 1..Len(s) : s[i] \in S
  OBVIOUS
<1>2. r \in Seq(S) /\ DOMAIN r = 1..Len(s) /\ \A i \in 1..Len(s) : r[i] = IF s[i] = p THEN t ELSE s[i]
  BY <1>1 DEF Swapped
<1> HIDE DEF r
<1>3. ToSet(r) = {r[i] : i \in 1..Len(s)} /\ ToSet(s) = {s[i] : i \in 1..Len(s)}
  BY <1>1, <1>2 DEF ToSet
<1>4. \A i \in 1..Len(s) : r[i] \in (IF p \in ToSet(s) THEN (ToSet(s) \ {p}) \cup {t} ELSE ToSet(s))
  BY <1>2, <1>3
<1>5. \A x \in ToSet(s) : x # p => x \in ToSet(r)
  BY <1>2, <1>3
<1>6. p \in ToSet(s) => t \in ToSet(r)
  BY <1>2, <1>3
<1>7. ToSet(r) = IF p \in ToSet(s) THEN (ToSet(s) \ {p}) \cup {t} ELSE ToSet(s)
  BY <1>3, <1>4, <1>5, <1>6
<1> QED BY <1>2, <1>7 DEF r

-----------------------------------------------------------------------------
(* Views, field by field. *)

LEMMA NoneIsNoResource == None \notin Resource
<1>1. <<"nothing", "">> \notin Links
  BY EpubAssumption DEF Links
<1>2. None.refs = {<<"nothing", "">>}
  BY DEF None
<1> QED BY <1>1, <1>2 DEF Resource

LEMMA ViewFields ==
    ASSUME NEW b \in View
    PROVE  /\ Shaped(b) /\ b.files \subseteq Paths /\ b.spine \in Seq(Paths) /\ b.linear \subseteq Paths
           /\ b.toc \subseteq Links /\ b.removed \subseteq Paths /\ b.changes \in Archive
           /\ b.manifest \subseteq Paths /\ b.itemrefs \subseteq Paths
BY DEF View, Shaped, Fields

LEMMA FieldsView ==
    ASSUME NEW b, Shaped(b), b.files \subseteq Paths, b.spine \in Seq(Paths), b.linear \subseteq Paths,
           b.toc \subseteq Links, b.removed \subseteq Paths, b.changes \in Archive,
           b.manifest \subseteq Paths, b.itemrefs \subseteq Paths
    PROVE  b \in View
BY DEF View, Shaped, Fields

LEMMA PairParts ==
    ASSUME NEW A, NEW B, NEW r \in A \X B
    PROVE  r[1] \in A /\ r[2] \in B /\ r = <<r[1], r[2]>>
OBVIOUS

LEMMA LinkParts ==
    ASSUME NEW r \in Links
    PROVE  r[1] \in Paths /\ r[2] \in Ids \cup {""} /\ r = <<r[1], r[2]>>
<1> DEFINE I == Ids \cup {""}
<1>1. r \in Paths \X I
  BY DEF Links
<1> HIDE DEF I
<1>2. r[1] \in Paths /\ r[2] \in I /\ r = <<r[1], r[2]>>
  BY <1>1, PairParts
<1> QED BY <1>2 DEF I

LEMMA LinkOf ==
    ASSUME NEW p \in Paths, NEW i \in Ids \cup {""}
    PROVE  <<p, i>> \in Links /\ <<p, i>>[1] = p /\ <<p, i>>[2] = i
BY DEF Links

LEMMA ShownIsArchive ==
    ASSUME NEW b, b.changes \in Archive, NEW res \in Archive
    PROVE  /\ ShownIn(b, res) \in Archive
           /\ \A p \in Paths : ShownIn(b, res)[p] = IF b.changes[p] # None THEN b.changes[p]
                                                  ELSE IF p \in b.removed THEN None ELSE res[p]
BY DEF ShownIn, Archive

\* an archive with c at p, and with nothing at the places ps
LEMMA ArchiveWith ==
    ASSUME NEW v \in Archive, NEW p \in Paths, NEW c \in Resource \cup {None}
    PROVE  [v EXCEPT ![p] = c] \in Archive
BY DEF Archive

LEMMA ResourceOf ==
    ASSUME NEW v \in Archive, NEW p \in Has(v)
    PROVE  p \in Paths /\ v[p] \in Resource /\ v[p].ids \subseteq Ids /\ v[p].refs \subseteq Links
BY DEF Archive, Has, Resource

\* a link that leads somewhere has its parts
LEMMA LeadsTo ==
    ASSUME NEW v \in Archive, NEW r \in Links
    PROVE  Leads(v, r) <=> (r[1] \in Has(v) /\ (r[2] = "" \/ r[2] \in v[r[1]].ids))
BY LinkParts DEF Leads, Has

\* every link of w and of its contents comes, by to, from a link of v
Carried(v, entries, w, new, to) ==
    /\ \A r \in Links : Leads(v, r) => Leads(w, to[r])
    /\ \A r \in new : \E s \in entries : r = to[s]
    /\ \A p \in Has(w) : \A r \in w[p].refs : \E q \in Has(v) : \E s \in v[q].refs : r = to[s]

LEMMA LinksCarried ==
    ASSUME NEW v \in Archive, NEW w, NEW entries \in SUBSET Links, NEW new, NEW to,
           Linking(v, entries), Carried(v, entries, w, new, to)
    PROVE  Linking(w, new)
<1>1. ASSUME NEW r \in new PROVE Leads(w, r)
  <2>1. PICK s \in entries : r = to[s]
    BY DEF Carried
  <2> QED BY <2>1 DEF Linking, Carried
<1>2. ASSUME NEW p \in Has(w), NEW r \in w[p].refs PROVE Leads(w, r)
  <2>1. PICK q \in Has(v) : \E s \in v[q].refs : r = to[s]
    BY DEF Carried
  <2>2. PICK s \in v[q].refs : r = to[s]
    BY <2>1
  <2>3. s \in Links
    BY ResourceOf
  <2> QED BY <2>2, <2>3 DEF Linking, Carried
<1> QED BY <1>1, <1>2 DEF Linking

LEMMA GoneForm ==
    ASSUME NEW b, Shaped(b), NEW ps
    PROVE  LET a == Gone(b, ps)
           IN  /\ Shaped(a)
               /\ a.files = b.files \ ps /\ a.manifest = b.manifest \ ps /\ a.removed = b.removed \cup ps
               /\ a.changes = [q \in Paths |-> IF q \in ps THEN None ELSE b.changes[q]]
               /\ a.spine = b.spine /\ a.linear = b.linear /\ a.itemrefs = b.itemrefs /\ a.toc = b.toc
BY DEF Gone, Shaped, Fields

LEMMA DeletedForm ==
    ASSUME NEW b, Shaped(b), NEW ps
    PROVE  LET a == Deleted(b, ps)
           IN  /\ Shaped(a)
               /\ a.files = b.files \ ps /\ a.manifest = b.manifest \ ps /\ a.removed = b.removed \cup ps
               /\ a.changes = [q \in Paths |-> IF q \in ps THEN None ELSE b.changes[q]]
               /\ a.spine = Without(b.spine, ps) /\ a.linear = b.linear \ ps /\ a.itemrefs = b.itemrefs \ ps
               /\ a.toc = {r \in b.toc : r[1] \notin ps}
<1> DEFINE g == Gone(b, ps)
           a == Deleted(b, ps)
<1>1. a = [g EXCEPT !.spine = Without(@, ps), !.linear = @ \ ps, !.itemrefs = @ \ ps,
                    !.toc = {r \in @ : r[1] \notin ps}]
  BY DEF Deleted
<1>2. /\ Shaped(g)
      /\ g.files = b.files \ ps /\ g.manifest = b.manifest \ ps /\ g.removed = b.removed \cup ps
      /\ g.changes = [q \in Paths |-> IF q \in ps THEN None ELSE b.changes[q]]
      /\ g.spine = b.spine /\ g.linear = b.linear /\ g.itemrefs = b.itemrefs /\ g.toc = b.toc
  BY GoneForm
<1> HIDE DEF g, a
<1>3. /\ Shaped(a)
      /\ a.files = g.files /\ a.manifest = g.manifest /\ a.removed = g.removed /\ a.changes = g.changes
      /\ a.spine = Without(g.spine, ps) /\ a.linear = g.linear \ ps /\ a.itemrefs = g.itemrefs \ ps
      /\ a.toc = {r \in g.toc : r[1] \notin ps}
  BY <1>1, <1>2 DEF Shaped, Fields
<1>4. /\ Shaped(a)
      /\ a.files = b.files \ ps /\ a.manifest = b.manifest \ ps /\ a.removed = b.removed \cup ps
      /\ a.changes = [q \in Paths |-> IF q \in ps THEN None ELSE b.changes[q]]
      /\ a.spine = Without(b.spine, ps) /\ a.linear = b.linear \ ps /\ a.itemrefs = b.itemrefs \ ps
      /\ a.toc = {r \in b.toc : r[1] \notin ps}
  BY <1>2, <1>3
<1> QED BY <1>4 DEF a

LEMMA MovedForm ==
    ASSUME NEW b, Shaped(b), NEW to
    PROVE  LET a == Moved(b, to)
           IN  /\ Shaped(a)
               /\ a.changes = [p \in Paths |->
                     IF p \in b.files /\ \E r \in Bytes(b, p).refs : to[r] # r
                     THEN [Bytes(b, p) EXCEPT !.refs = {to[r] : r \in @}] ELSE b.changes[p]]
               /\ a.toc = {to[r] : r \in b.toc} /\ a.files = b.files /\ a.manifest = b.manifest
               /\ a.removed = b.removed /\ a.spine = b.spine /\ a.linear = b.linear /\ a.itemrefs = b.itemrefs
BY DEF Moved, Shaped, Fields

\* where links go when p becomes t, when ids of p move to t, and when q goes into p
AfterRename(p, t) == [r \in Links |-> IF r[1] = p THEN <<t, r[2]>> ELSE r]
AfterSplit(p, t, ids) == [r \in Links |-> IF r[1] = p /\ r[2] \in ids THEN <<t, r[2]>> ELSE r]
AfterMerge(p, q, mp, mq) == [r \in Links |-> CASE r = <<p, "">> -> <<p, mp>>
                                                [] r = <<q, "">> -> <<p, mq>>
                                                [] r[1] = q /\ r[2] # "" -> <<p, r[2]>>
                                                [] OTHER -> r]
TakenOver(p, t, ids, refs) == {IF r[1] = p /\ r[2] \in ids THEN <<t, r[2]>> ELSE r : r \in refs}
Both(c, d, mp, mq) == [ids |-> c.ids \cup d.ids \cup {mp, mq}, refs |-> c.refs \cup d.refs]

\* a is b after p became t, m being b with its links moved
IsRenamed(a, b, m, p, t) ==
    /\ Shaped(a)
    /\ a.changes = [[m.changes EXCEPT ![p] = None] EXCEPT ![t] = Bytes(m, p)]
    /\ a.toc = m.toc /\ a.files = (b.files \ {p}) \cup {t} /\ a.manifest = (b.manifest \ {p}) \cup {t}
    /\ a.spine = Swapped(b.spine, p, t)
    /\ a.linear = (IF p \in b.linear THEN (b.linear \ {p}) \cup {t} ELSE b.linear)
    /\ a.itemrefs = (IF p \in b.itemrefs THEN (b.itemrefs \ {p}) \cup {t} ELSE b.itemrefs)
    /\ a.removed = b.removed \cup {p}

LEMMA RenamedForm ==
    ASSUME NEW b, Shaped(b), NEW p, NEW t
    PROVE  IsRenamed(Renamed(b, p, t), b, Moved(b, AfterRename(p, t)), p, t)
<1> DEFINE m == Moved(b, AfterRename(p, t))
<1>1. Shaped(m) /\ m.files = b.files /\ m.manifest = b.manifest /\ m.removed = b.removed /\ m.spine = b.spine
      /\ m.linear = b.linear /\ m.itemrefs = b.itemrefs
  BY MovedForm
<1> DEFINE c == Bytes(m, p)
           a == Renamed(b, p, t)
<1>2. a = [Put(Put(m, p, None), t, c) EXCEPT
           !.files = (@ \ {p}) \cup {t}, !.manifest = (@ \ {p}) \cup {t},
           !.spine = Swapped(@, p, t),
           !.linear = IF p \in @ THEN (@ \ {p}) \cup {t} ELSE @,
           !.itemrefs = IF p \in @ THEN (@ \ {p}) \cup {t} ELSE @,
           !.removed = @ \cup {p}]
  BY DEF Renamed, AfterRename, Swapped
<1> HIDE DEF m, c, a
<1>3. /\ Shaped(a)
      /\ a.changes = [[m.changes EXCEPT ![p] = None] EXCEPT ![t] = c]
      /\ a.toc = m.toc /\ a.files = (m.files \ {p}) \cup {t} /\ a.manifest = (m.manifest \ {p}) \cup {t}
      /\ a.spine = Swapped(m.spine, p, t)
      /\ a.linear = IF p \in m.linear THEN (m.linear \ {p}) \cup {t} ELSE m.linear
      /\ a.itemrefs = IF p \in m.itemrefs THEN (m.itemrefs \ {p}) \cup {t} ELSE m.itemrefs
      /\ a.removed = m.removed \cup {p}
  BY <1>1, <1>2 DEF Put, Shaped, Fields
<1>4. /\ Shaped(a)
      /\ a.changes = [[m.changes EXCEPT ![p] = None] EXCEPT ![t] = c]
      /\ a.toc = m.toc /\ a.files = (b.files \ {p}) \cup {t} /\ a.manifest = (b.manifest \ {p}) \cup {t}
      /\ a.spine = Swapped(b.spine, p, t)
      /\ a.linear = (IF p \in b.linear THEN (b.linear \ {p}) \cup {t} ELSE b.linear)
      /\ a.itemrefs = (IF p \in b.itemrefs THEN (b.itemrefs \ {p}) \cup {t} ELSE b.itemrefs)
      /\ a.removed = b.removed \cup {p}
  BY <1>1, <1>3
<1> QED BY <1>4 DEF a, c, m, IsRenamed

\* a is b after p gave ids and the links tos to t
IsSplit(a, b, m, p, t, ids, tos) ==
    /\ Shaped(a)
    /\ a.changes = [[m.changes EXCEPT ![p] = [ids |-> Bytes(m, p).ids \ ids, refs |-> Bytes(m, p).refs \ tos]]
                      EXCEPT ![t] = [ids |-> ids, refs |-> tos]]
    /\ a.toc = m.toc /\ a.files = b.files \cup {t} /\ a.manifest = b.manifest \cup {t}
    /\ a.spine = Insert(b.spine, p, t)
    /\ a.linear = b.linear \cup {t} /\ a.itemrefs = b.itemrefs \cup {t} /\ a.removed = b.removed

LEMMA SplitForm ==
    ASSUME NEW b, Shaped(b), NEW p, NEW t, NEW ids, NEW refs
    PROVE  IsSplit(Split(b, p, t, ids, refs), b, Moved(b, AfterSplit(p, t, ids)), p, t, ids, TakenOver(p, t, ids, refs))
<1> DEFINE m == Moved(b, AfterSplit(p, t, ids))
           c == Bytes(m, p)
           to == TakenOver(p, t, ids, refs)
           x == [ids |-> c.ids \ ids, refs |-> c.refs \ to]
           y == [ids |-> ids, refs |-> to]
           d == Put(m, p, x)
           e == Added(d, t, y, TRUE)
           a == Split(b, p, t, ids, refs)
<1>1. Shaped(m) /\ m.files = b.files /\ m.manifest = b.manifest /\ m.removed = b.removed /\ m.spine = b.spine
      /\ m.linear = b.linear /\ m.itemrefs = b.itemrefs
  BY MovedForm
<1>2. a = [e EXCEPT !.spine = Insert(b.spine, p, t)]
  BY DEF Split, AfterSplit, TakenOver
<1> HIDE DEF m, c, to, x, y, a
<1>3. Shaped(d) /\ d.changes = [m.changes EXCEPT ![p] = x] /\ d.files = m.files /\ d.manifest = m.manifest
      /\ d.removed = m.removed /\ d.spine = m.spine /\ d.linear = m.linear /\ d.itemrefs = m.itemrefs
      /\ d.toc = m.toc
  BY <1>1 DEF Put, Shaped, Fields
<1> HIDE DEF d
<1>4. /\ Shaped(e)
      /\ e.files = d.files \cup {t} /\ e.manifest = d.manifest \cup {t}
      /\ e.linear = d.linear \cup {t} /\ e.itemrefs = d.itemrefs \cup {t}
      /\ e.toc = d.toc /\ e.removed = d.removed /\ e.changes = [d.changes EXCEPT ![t] = y]
  BY <1>3 DEF Added, Put, Shaped, Fields
<1> HIDE DEF e
<1>5. /\ Shaped(a)
      /\ a.changes = [[m.changes EXCEPT ![p] = x] EXCEPT ![t] = y]
      /\ a.toc = m.toc /\ a.files = b.files \cup {t} /\ a.manifest = b.manifest \cup {t}
      /\ a.spine = Insert(b.spine, p, t)
      /\ a.linear = b.linear \cup {t} /\ a.itemrefs = b.itemrefs \cup {t} /\ a.removed = b.removed
  <2>1. /\ Shaped(a) /\ a.spine = Insert(b.spine, p, t)
        /\ a.changes = e.changes /\ a.toc = e.toc /\ a.files = e.files /\ a.manifest = e.manifest
        /\ a.linear = e.linear /\ a.itemrefs = e.itemrefs /\ a.removed = e.removed
    BY <1>2, <1>4 DEF Shaped, Fields
  <2> QED BY <2>1, <1>1, <1>3, <1>4
<1> QED BY <1>5 DEF a, x, y, c, to, m, IsSplit

\* a is b after q went into p
IsMerged(a, b, m, p, q, mp, mq) ==
    /\ Shaped(a)
    /\ a.changes = [[k \in Paths |-> IF k \in {q} THEN None ELSE m.changes[k]]
                      EXCEPT ![p] = Both(Bytes(m, p), Bytes(m, q), mp, mq)]
    /\ a.toc = m.toc /\ a.files = b.files \ {q} /\ a.manifest = b.manifest \ {q}
    /\ a.spine = Without(b.spine, {q})
    /\ a.linear = b.linear \ {q} /\ a.itemrefs = b.itemrefs \ {q} /\ a.removed = b.removed \cup {q}

LEMMA MergedForm ==
    ASSUME NEW b, Shaped(b), NEW p, NEW q, NEW mp, NEW mq
    PROVE  IsMerged(Merged(b, p, q, mp, mq), b, Moved(b, AfterMerge(p, q, mp, mq)), p, q, mp, mq)
<1> DEFINE m == Moved(b, AfterMerge(p, q, mp, mq))
           c == Both(Bytes(m, p), Bytes(m, q), mp, mq)
           g == Gone(m, {q})
           d == Put(g, p, c)
           a == Merged(b, p, q, mp, mq)
<1>1. Shaped(m) /\ m.files = b.files /\ m.manifest = b.manifest /\ m.removed = b.removed /\ m.spine = b.spine
      /\ m.linear = b.linear /\ m.itemrefs = b.itemrefs
  BY MovedForm
<1>2. a = [d EXCEPT !.spine = Without(@, {q}), !.linear = @ \ {q}, !.itemrefs = @ \ {q}]
  BY DEF Merged, AfterMerge, Both
<1> HIDE DEF m, c, a
<1>3. /\ Shaped(g)
      /\ g.files = m.files \ {q} /\ g.manifest = m.manifest \ {q} /\ g.removed = m.removed \cup {q}
      /\ g.changes = [k \in Paths |-> IF k \in {q} THEN None ELSE m.changes[k]]
      /\ g.spine = m.spine /\ g.linear = m.linear /\ g.itemrefs = m.itemrefs /\ g.toc = m.toc
  BY <1>1, GoneForm
<1> HIDE DEF g
<1>4. Shaped(d) /\ d.changes = [g.changes EXCEPT ![p] = c] /\ d.files = g.files /\ d.manifest = g.manifest
      /\ d.removed = g.removed /\ d.spine = g.spine /\ d.linear = g.linear /\ d.itemrefs = g.itemrefs
      /\ d.toc = g.toc
  BY <1>3 DEF Put, Shaped, Fields
<1> HIDE DEF d
<1>5. /\ Shaped(a)
      /\ a.changes = [[k \in Paths |-> IF k \in {q} THEN None ELSE m.changes[k]] EXCEPT ![p] = c]
      /\ a.toc = m.toc /\ a.files = b.files \ {q} /\ a.manifest = b.manifest \ {q}
      /\ a.spine = Without(b.spine, {q})
      /\ a.linear = b.linear \ {q} /\ a.itemrefs = b.itemrefs \ {q} /\ a.removed = b.removed \cup {q}
  <2>1. /\ Shaped(a) /\ a.changes = d.changes /\ a.toc = d.toc /\ a.files = d.files /\ a.manifest = d.manifest
        /\ a.spine = Without(d.spine, {q}) /\ a.linear = d.linear \ {q} /\ a.itemrefs = d.itemrefs \ {q}
        /\ a.removed = d.removed
    BY <1>2, <1>4 DEF Shaped, Fields
  <2> QED BY <2>1, <1>1, <1>3, <1>4
<1> QED BY <1>5 DEF a, c, m, IsMerged

-----------------------------------------------------------------------------
(* What is known of a sound view. *)

LEMMA SoundView ==
    ASSUME NEW res \in Archive, NEW b \in Sounds(res)
    PROVE  /\ b \in View /\ Shaped(b) /\ ShownIn(b, res) \in Archive
           /\ b.files = Has(ShownIn(b, res)) /\ b.manifest = b.files
           /\ b.linear = ToSet(b.spine) /\ b.linear \subseteq b.files /\ b.itemrefs = b.linear
           /\ Linking(ShownIn(b, res), b.toc) /\ Distinct(b.files)
           /\ b.files \subseteq Paths /\ b.spine \in Seq(Paths) /\ b.toc \subseteq Links
           /\ b.removed \subseteq Paths /\ b.changes \in Archive
           /\ \A p \in Has(ShownIn(b, res)) : ShownIn(b, res)[p].refs \subseteq Links
<1>1. b \in View /\ Sound(b, res)
  BY DEF Sounds
<1>2. /\ Shaped(b) /\ b.files \subseteq Paths /\ b.spine \in Seq(Paths) /\ b.toc \subseteq Links
      /\ b.removed \subseteq Paths /\ b.changes \in Archive
  BY <1>1, ViewFields
<1>3. ShownIn(b, res) \in Archive
  BY <1>2, ShownIsArchive
<1>4. \A p \in Has(ShownIn(b, res)) : ShownIn(b, res)[p].refs \subseteq Links
  BY <1>3, ResourceOf
<1> QED BY <1>1, <1>2, <1>3, <1>4 DEF Sound, Listed

\* a view is sound when it shows v, and v is what its lists say
LEMMA SoundShows ==
    ASSUME NEW res \in Archive, NEW b, NEW v \in Archive, Shaped(b),
           b.files = Has(v), b.manifest = b.files, b.spine \in Seq(Paths),
           b.linear = ToSet(b.spine), b.linear \subseteq b.files, b.itemrefs = b.linear,
           b.toc \subseteq Links, b.removed \subseteq Paths, b.changes \in Archive,
           \A p \in Paths : ShownIn(b, res)[p] = v[p], Linking(v, b.toc), Distinct(b.files)
    PROVE  b \in Sounds(res)
<1>1. ShownIn(b, res) = v
  BY ShownIsArchive DEF Archive
<1>2. b.files \subseteq Paths
  BY DEF Has
<1>3. b \in View
  BY <1>2, FieldsView
<1> QED BY <1>1, <1>3 DEF Sounds, Sound, Listed

\* the places of a sound view
LEMMA SpineSound ==
    ASSUME NEW res \in Archive, NEW b \in Sounds(res), NEW s \in Seq(Paths), ToSet(s) = ToSet(b.spine)
    PROVE  [b EXCEPT !.spine = s] \in Sounds(res)
<1> DEFINE a == [b EXCEPT !.spine = s]
           v == ShownIn(b, res)
<1>1. /\ Shaped(a) /\ a.files = b.files /\ a.manifest = b.manifest /\ a.spine = s /\ a.linear = b.linear
      /\ a.itemrefs = b.itemrefs /\ a.toc = b.toc /\ a.removed = b.removed /\ a.changes = b.changes
  BY SoundView DEF Shaped, Fields
<1> HIDE DEF a
<1>2. \A p \in Paths : ShownIn(a, res)[p] = v[p]
  BY <1>1, SoundView, ShownIsArchive
<1>3. v \in Archive
  BY SoundView
<1> HIDE DEF v
<1>4. /\ a.files = Has(v) /\ a.manifest = a.files /\ a.spine \in Seq(Paths)
      /\ a.linear = ToSet(a.spine) /\ a.linear \subseteq a.files /\ a.itemrefs = a.linear
      /\ a.toc \subseteq Links /\ a.removed \subseteq Paths /\ a.changes \in Archive
      /\ Linking(v, a.toc) /\ Distinct(a.files)
  BY <1>1, SoundView DEF v
<1>5. a \in Sounds(res)
  BY <1>1, <1>2, <1>3, <1>4, SoundShows
<1> QED BY <1>5 DEF a

LEMMA TocSound ==
    ASSUME NEW res \in Archive, NEW b \in Sounds(res), NEW es \in SUBSET Links,
           \A r \in es : Leads(ShownIn(b, res), r)
    PROVE  [b EXCEPT !.toc = es] \in Sounds(res)
<1> DEFINE a == [b EXCEPT !.toc = es]
           v == ShownIn(b, res)
<1>1. /\ Shaped(a) /\ a.files = b.files /\ a.manifest = b.manifest /\ a.spine = b.spine /\ a.linear = b.linear
      /\ a.itemrefs = b.itemrefs /\ a.toc = es /\ a.removed = b.removed /\ a.changes = b.changes
  BY SoundView DEF Shaped, Fields
<1> HIDE DEF a
<1>2. \A p \in Paths : ShownIn(a, res)[p] = v[p]
  BY <1>1, SoundView, ShownIsArchive
<1>3. v \in Archive /\ Linking(v, es)
  BY SoundView DEF Linking
<1> HIDE DEF v
<1>4. /\ a.files = Has(v) /\ a.manifest = a.files /\ a.spine \in Seq(Paths)
      /\ a.linear = ToSet(a.spine) /\ a.linear \subseteq a.files /\ a.itemrefs = a.linear
      /\ a.toc \subseteq Links /\ a.removed \subseteq Paths /\ a.changes \in Archive
      /\ Distinct(a.files)
  BY <1>1, SoundView DEF v
<1>5. a \in Sounds(res)
  BY <1>1, <1>2, <1>3, <1>4, SoundShows
<1> QED BY <1>5 DEF a

\* resources are written anew: each keeps its ids, and its links lead somewhere
LEMMA RewrittenSound ==
    ASSUME NEW res \in Archive, NEW b \in Sounds(res), NEW f \in Archive,
           \A p \in Paths : \/ f[p] = b.changes[p]
                            \/ /\ p \in b.files /\ f[p] \in Resource
                               /\ ShownIn(b, res)[p].ids \subseteq f[p].ids
                               /\ \A r \in f[p].refs : Leads(ShownIn(b, res), r)
    PROVE  [b EXCEPT !.changes = f] \in Sounds(res)
<1> DEFINE a == [b EXCEPT !.changes = f]
           v == ShownIn(b, res)
           w == ShownIn(a, res)
<1>1. /\ Shaped(a) /\ a.files = b.files /\ a.manifest = b.manifest /\ a.spine = b.spine /\ a.linear = b.linear
      /\ a.itemrefs = b.itemrefs /\ a.toc = b.toc /\ a.removed = b.removed /\ a.changes = f
  BY SoundView DEF Shaped, Fields
<1> HIDE DEF a
<1>2. /\ \A p \in Paths : v[p] = IF b.changes[p] # None THEN b.changes[p] ELSE IF p \in b.removed THEN None ELSE res[p]
      /\ \A p \in Paths : w[p] = IF f[p] # None THEN f[p] ELSE IF p \in b.removed THEN None ELSE res[p]
      /\ v \in Archive /\ w \in Archive
  BY <1>1, SoundView, ShownIsArchive
<1>3. /\ Linking(v, b.toc) /\ b.files = Has(v) /\ b.toc \subseteq Links
      /\ \A p \in Has(v) : v[p].refs \subseteq Links
  BY SoundView
<1> HIDE DEF v, w
<1>4. \A p \in Paths : w[p] = v[p] \/ /\ p \in Has(v) /\ w[p] \in Resource /\ v[p].ids \subseteq w[p].ids
                                      /\ \A r \in w[p].refs : Leads(v, r)
  BY <1>2, <1>3, NoneIsNoResource DEF v
<1>5. Has(w) = Has(v)
  BY <1>4, NoneIsNoResource DEF Has
<1>6. \A r \in Links : Leads(v, r) => Leads(w, r)
  <2> TAKE r \in Links
  <2>1. r[1] \in Paths
    BY LinkParts
  <2>2. v[r[1]].ids \subseteq w[r[1]].ids
    BY <1>4, <2>1
  <2> QED BY <1>2, <1>5, <2>2, LeadsTo
<1>7. Linking(w, b.toc)
  <2>1. \A r \in b.toc : Leads(w, r)
    BY <1>3, <1>6 DEF Linking
  <2>2. ASSUME NEW p \in Has(w), NEW r \in w[p].refs PROVE Leads(w, r)
    <3>1. p \in Paths /\ r \in Links
      BY <1>2, ResourceOf
    <3>2. Leads(v, r)
      BY <1>3, <1>4, <1>5, <3>1 DEF Linking
    <3> QED BY <1>6, <3>1, <3>2
  <2> QED BY <2>1, <2>2 DEF Linking
<1>8. /\ a.files = Has(w) /\ a.manifest = a.files /\ a.spine \in Seq(Paths)
      /\ a.linear = ToSet(a.spine) /\ a.linear \subseteq a.files /\ a.itemrefs = a.linear
      /\ a.toc \subseteq Links /\ a.removed \subseteq Paths /\ a.changes \in Archive
      /\ Linking(w, a.toc) /\ Distinct(a.files)
  BY <1>1, <1>3, <1>5, <1>7, SoundView
<1>9. a \in Sounds(res)
  BY <1>1, <1>2, <1>8, SoundShows DEF w
<1> QED BY <1>9 DEF a

-----------------------------------------------------------------------------
(* The operations keep a view sound. *)

\* a new resource, and a new place in the reading order if it is one to read
\* a is b with c at p
IsAdded(a, b, p, c) ==
    /\ Shaped(a) /\ a.files = b.files \cup {p} /\ a.manifest = b.manifest \cup {p}
    /\ \/ a.spine = b.spine /\ a.linear = b.linear /\ a.itemrefs = b.itemrefs
       \/ a.spine = Append(b.spine, p) /\ a.linear = b.linear \cup {p} /\ a.itemrefs = b.itemrefs \cup {p}
    /\ a.toc = b.toc /\ a.removed = b.removed /\ a.changes = [b.changes EXCEPT ![p] = c]
\* no file has the name p, and the links of c lead into v or into c at p
Fits(b, v, p, c) ==
    /\ p \in Paths /\ p \notin b.files /\ \A q \in b.files : Folded[q] # Folded[p]
    /\ \A r \in c.refs : Leads(v, r) \/ (r[1] = p /\ (r[2] = "" \/ r[2] \in c.ids))

LEMMA AddedFields ==
    ASSUME NEW res \in Archive, NEW b \in Sounds(res), NEW p, NEW c \in Resource,
           NEW a, IsAdded(a, b, p, c), Fits(b, ShownIn(b, res), p, c)
    PROVE  a \in Sounds(res)
<1> DEFINE v == ShownIn(b, res)
           w == [v EXCEPT ![p] = c]
<1>1. /\ Shaped(a) /\ a.files = b.files \cup {p} /\ a.manifest = b.manifest \cup {p}
      /\ \/ a.spine = b.spine /\ a.linear = b.linear /\ a.itemrefs = b.itemrefs
         \/ a.spine = Append(b.spine, p) /\ a.linear = b.linear \cup {p} /\ a.itemrefs = b.itemrefs \cup {p}
      /\ a.toc = b.toc /\ a.removed = b.removed /\ a.changes = [b.changes EXCEPT ![p] = c]
  BY DEF IsAdded
<1>0. /\ p \in Paths /\ p \notin b.files /\ \A q \in b.files : Folded[q] # Folded[p]
      /\ \A r \in c.refs : Leads(v, r) \/ (r[1] = p /\ (r[2] = "" \/ r[2] \in c.ids))
  BY DEF Fits
<1>2. /\ \A k \in Paths : v[k] = IF b.changes[k] # None THEN b.changes[k] ELSE IF k \in b.removed THEN None ELSE res[k]
      /\ v \in Archive /\ b.changes \in Archive
      /\ Linking(v, b.toc) /\ b.files = Has(v) /\ b.toc \subseteq Links
      /\ \A k \in Has(v) : v[k].refs \subseteq Links
  BY SoundView, ShownIsArchive
<1> HIDE DEF v
<1>3. w \in Archive /\ a.changes \in Archive
  <2>1. c \in Resource \cup {None}
    OBVIOUS
  <2>2. w \in Archive
    BY <1>0, <1>2, <2>1, ArchiveWith
  <2>3. a.changes \in Archive
    <3> DEFINE d == b.changes
               e == [d EXCEPT ![p] = c]
    <3>1. d \in Archive
      BY <1>2
    <3> HIDE DEF d
    <3>2. e \in Archive
      BY <1>0, <2>1, <3>1, ArchiveWith
    <3> QED BY <1>1, <3>2 DEF d
  <2> QED BY <2>2, <2>3
<1>4. \A k \in Paths : /\ w[k] = IF k = p THEN c ELSE v[k]
                       /\ a.changes[k] = IF k = p THEN c ELSE b.changes[k]
  BY <1>0, <1>1, <1>2 DEF Archive
<1> HIDE DEF w
<1>5. \A k \in Paths : ShownIn(a, res)[k] = w[k]
  <2>1. \A k \in Paths : ShownIn(a, res)[k] = IF a.changes[k] # None THEN a.changes[k]
                                             ELSE IF k \in a.removed THEN None ELSE res[k]
    BY <1>3, ShownIsArchive
  <2> QED BY <1>1, <1>2, <1>4, <2>1, NoneIsNoResource
<1>6. Has(w) = b.files \cup {p}
  <2>1. c # None
    BY NoneIsNoResource
  <2>2. \A k \in Paths : k \in Has(w) <=> w[k] # None
    BY DEF Has
  <2>3. \A k \in Paths : k \in b.files <=> v[k] # None
    BY <1>2 DEF Has
  <2>4. \A k \in Paths : k \in Has(w) <=> k \in b.files \/ k = p
    BY <1>4, <2>1, <2>2, <2>3
  <2>5. b.files \subseteq Paths /\ Has(w) \subseteq Paths
    BY <1>2 DEF Has
  <2> QED BY <1>0, <2>4, <2>5
<1>7. \A r \in Links : Leads(v, r) => Leads(w, r)
  <2> TAKE r \in Links
  <2> HAVE Leads(v, r)
  <2>1. r[1] \in Has(v) /\ (r[2] = "" \/ r[2] \in v[r[1]].ids)
    BY <1>2, LeadsTo
  <2>2. r[1] # p /\ r[1] \in Paths /\ r[1] \in Has(w)
    BY <1>0, <1>2, <1>6, <2>1, LinkParts
  <2>3. w[r[1]] = v[r[1]]
    BY <1>4, <2>2
  <2> QED BY <1>3, <2>1, <2>2, <2>3, LeadsTo
<1>8. Linking(w, b.toc)
  <2>1. \A r \in b.toc : Leads(w, r)
    BY <1>2, <1>7 DEF Linking
  <2>2. ASSUME NEW k \in Has(w), NEW r \in w[k].refs PROVE Leads(w, r)
    <3>1. k \in Paths /\ r \in Links
      BY <1>3, ResourceOf
    <3>2. CASE k = p
      <4>1. r \in c.refs
        BY <1>4, <3>1, <3>2
      <4>2. CASE Leads(v, r)
        BY <1>7, <3>1, <4>2
      <4>3. CASE r[1] = p /\ (r[2] = "" \/ r[2] \in c.ids)
        <5>1. r[1] \in Has(w) /\ w[r[1]] = c
          BY <1>0, <1>4, <1>6, <4>3
        <5> QED BY <1>3, <3>1, <4>3, <5>1, LeadsTo
      <4> QED BY <1>0, <4>1, <4>2, <4>3
    <3>3. CASE k # p
      <4>1. k \in Has(v) /\ r \in v[k].refs
        BY <1>2, <1>4, <1>6, <3>1, <3>3
      <4> QED BY <1>2, <1>7, <3>1, <4>1 DEF Linking
    <3> QED BY <3>2, <3>3
  <2> QED BY <2>1, <2>2 DEF Linking
<1>9. Distinct(a.files)
  BY <1>0, <1>1, SoundView DEF Distinct
<1>10. a.spine \in Seq(Paths) /\ a.linear = ToSet(a.spine)
  <2>1. b.spine \in Seq(Paths) /\ b.linear = ToSet(b.spine)
    BY SoundView
  <2>2. Append(b.spine, p) \in Seq(Paths) /\ ToSet(Append(b.spine, p)) = ToSet(b.spine) \cup {p}
    <3> DEFINE o == b.spine
    <3>1. o \in Seq(Paths)
      BY <2>1
    <3> HIDE DEF o
    <3>2. Append(o, p) \in Seq(Paths) /\ ToSet(Append(o, p)) = ToSet(o) \cup {p}
      BY <1>0, <3>1, AppendToSet, ZenonT(40)
    <3> QED BY <3>2 DEF o
  <2> QED BY <1>1, <2>1, <2>2
<1>11. /\ a.files = Has(w) /\ a.manifest = a.files
       /\ a.linear \subseteq a.files /\ a.itemrefs = a.linear
       /\ a.toc \subseteq Links /\ a.removed \subseteq Paths /\ Linking(w, a.toc)
  BY <1>0, <1>1, <1>6, <1>8, SoundView
<1> QED BY <1>1, <1>3, <1>5, <1>9, <1>10, <1>11, SoundShows

LEMMA AddedSound ==
    ASSUME NEW res \in Archive, NEW b \in Sounds(res), NEW p, NEW c \in Resource, Fits(b, ShownIn(b, res), p, c)
    PROVE  /\ Added(b, p, c, FALSE) \in Sounds(res) /\ Added(b, p, c, TRUE) \in Sounds(res)
           /\ Added(b, p, c, TRUE).spine = Append(b.spine, p)
<1> DEFINE no  == Added(b, p, c, FALSE)
           yes == Added(b, p, c, TRUE)
<1>0. Shaped(b)
  BY SoundView
<1>1. /\ Shaped(no) /\ no.files = b.files \cup {p} /\ no.manifest = b.manifest \cup {p}
      /\ no.spine = b.spine /\ no.linear = b.linear /\ no.itemrefs = b.itemrefs
      /\ no.toc = b.toc /\ no.removed = b.removed /\ no.changes = [b.changes EXCEPT ![p] = c]
  BY <1>0 DEF Added, Put, Shaped, Fields
<1>2. /\ Shaped(yes) /\ yes.files = b.files \cup {p} /\ yes.manifest = b.manifest \cup {p}
      /\ yes.spine = Append(b.spine, p) /\ yes.linear = b.linear \cup {p} /\ yes.itemrefs = b.itemrefs \cup {p}
      /\ yes.toc = b.toc /\ yes.removed = b.removed /\ yes.changes = [b.changes EXCEPT ![p] = c]
  BY <1>0 DEF Added, Put, Shaped, Fields
<1> HIDE DEF no, yes
<1>3. no \in Sounds(res)
  <2>1. IsAdded(no, b, p, c)
    BY <1>1 DEF IsAdded
  <2> QED BY <2>1, AddedFields
<1>4. yes \in Sounds(res)
  <2>1. IsAdded(yes, b, p, c)
    BY <1>2 DEF IsAdded
  <2> QED BY <2>1, AddedFields
<1> QED BY <1>2, <1>3, <1>4 DEF no, yes

\* nothing that is left leads to what goes
Emptied(w, v, ps) == \A p \in Paths : w[p] = IF p \in ps THEN None ELSE v[p]
Away(rs, ps)      == \A r \in rs : r[1] \notin ps

LEMMA GoneLinks ==
    ASSUME NEW v \in Archive, NEW w \in Archive, NEW ps, NEW entries \in SUBSET Links, NEW new \in SUBSET entries,
           Linking(v, entries), Emptied(w, v, ps), Away(new, ps),
           \A p \in Has(v) \ ps : Away(v[p].refs, ps)
    PROVE  Linking(w, new) /\ Has(w) = Has(v) \ ps
<1>1. Has(w) = Has(v) \ ps
  BY DEF Has, Emptied
<1>2. ASSUME NEW r \in Links, Leads(v, r), r[1] \notin ps PROVE Leads(w, r)
  <2>1. r[1] \in Has(v) /\ (r[2] = "" \/ r[2] \in v[r[1]].ids)
    BY <1>2, LeadsTo
  <2>2. r[1] \in Has(w) /\ w[r[1]] = v[r[1]]
    BY <1>1, <1>2, <2>1, LinkParts DEF Emptied
  <2> QED BY <2>1, <2>2, LeadsTo
<1>3. \A r \in new : Leads(w, r)
  BY <1>2 DEF Linking, Away
<1>4. ASSUME NEW p \in Has(w), NEW r \in w[p].refs PROVE Leads(w, r)
  <2>1. p \in Paths /\ r \in Links
    BY ResourceOf
  <2>2. p \in Has(v) \ ps /\ r \in v[p].refs
    BY <1>1, <2>1 DEF Emptied
  <2>3. Leads(v, r) /\ r[1] \notin ps
    BY <2>2 DEF Linking, Away
  <2> QED BY <1>2, <2>1, <2>3
<1> QED BY <1>1, <1>3, <1>4 DEF Linking

LEMMA DeletedSound ==
    ASSUME NEW res \in Archive, NEW b \in Sounds(res), NEW ps \in SUBSET b.files,
           \A p \in b.files \ ps : \A r \in ShownIn(b, res)[p].refs : r[1] \notin ps
    PROVE  Deleted(b, ps) \in Sounds(res)
<1> DEFINE a == Deleted(b, ps)
           v == ShownIn(b, res)
           w == ShownIn(a, res)
<1>0. Shaped(b)
  BY SoundView
<1>1. /\ Shaped(a)
      /\ a.files = b.files \ ps /\ a.manifest = b.manifest \ ps /\ a.removed = b.removed \cup ps
      /\ a.changes = [q \in Paths |-> IF q \in ps THEN None ELSE b.changes[q]]
      /\ a.spine = Without(b.spine, ps) /\ a.linear = b.linear \ ps /\ a.itemrefs = b.itemrefs \ ps
      /\ a.toc = {r \in b.toc : r[1] \notin ps}
  BY <1>0, DeletedForm
<1> HIDE DEF a
<1>2. /\ \A k \in Paths : v[k] = IF b.changes[k] # None THEN b.changes[k] ELSE IF k \in b.removed THEN None ELSE res[k]
      /\ v \in Archive /\ b.changes \in Archive
      /\ Linking(v, b.toc) /\ b.files = Has(v) /\ b.toc \subseteq Links
  BY SoundView, ShownIsArchive
<1>3. a.changes \in Archive
  BY <1>1, <1>2 DEF Archive
<1>4. /\ w \in Archive
      /\ \A k \in Paths : w[k] = IF a.changes[k] # None THEN a.changes[k]
                                 ELSE IF k \in a.removed THEN None ELSE res[k]
  BY <1>3, ShownIsArchive
<1>5. \A p \in b.files \ ps : \A r \in v[p].refs : r[1] \notin ps
  OBVIOUS
<1> HIDE DEF v, w
<1>6. \A k \in Paths : w[k] = IF k \in ps THEN None ELSE v[k]
  BY <1>1, <1>2, <1>4
<1>7. Linking(w, a.toc) /\ Has(w) = b.files \ ps
  <2>1. a.toc \subseteq b.toc /\ Away(a.toc, ps)
    BY <1>1 DEF Away
  <2>2. \A p \in Has(v) \ ps : Away(v[p].refs, ps)
    BY <1>2, <1>5 DEF Away
  <2>3. Linking(w, a.toc) /\ Has(w) = Has(v) \ ps
    BY <1>2, <1>4, <1>6, <2>1, <2>2, GoneLinks DEF Emptied
  <2> QED BY <1>2, <2>3
<1>8. a.spine \in Seq(Paths) /\ ToSet(a.spine) = b.linear \ ps
  <2>1. b.spine \in Seq(Paths) /\ b.linear = ToSet(b.spine)
    BY SoundView
  <2> QED BY <1>1, <2>1, WithoutToSet
<1>9. /\ a.files = Has(w) /\ a.manifest = a.files
      /\ a.linear = ToSet(a.spine) /\ a.linear \subseteq a.files /\ a.itemrefs = a.linear
      /\ a.toc \subseteq Links /\ a.removed \subseteq Paths
  BY <1>1, <1>7, <1>8, SoundView
<1>10. Distinct(a.files)
  BY <1>1, SoundView DEF Distinct
<1>11. a \in Sounds(res)
  BY <1>1, <1>3, <1>4, <1>7, <1>8, <1>9, <1>10, SoundShows DEF w
<1> QED BY <1>11 DEF a

\* one resource that is not read and that nothing points at
LEMMA GoneSound ==
    ASSUME NEW res \in Archive, NEW b \in Sounds(res), NEW p \in b.files, p \notin ToSet(b.spine),
           \A r \in b.toc : r[1] # p,
           \A q \in b.files \ {p} : \A r \in ShownIn(b, res)[q].refs : r[1] # p
    PROVE  Gone(b, {p}) \in Sounds(res)
<1> DEFINE a == Gone(b, {p})
           v == ShownIn(b, res)
           w == ShownIn(a, res)
<1>0. Shaped(b)
  BY SoundView
<1>1. /\ Shaped(a)
      /\ a.files = b.files \ {p} /\ a.manifest = b.manifest \ {p} /\ a.removed = b.removed \cup {p}
      /\ a.changes = [q \in Paths |-> IF q \in {p} THEN None ELSE b.changes[q]]
      /\ a.spine = b.spine /\ a.linear = b.linear /\ a.itemrefs = b.itemrefs /\ a.toc = b.toc
  BY <1>0, GoneForm
<1> HIDE DEF a
<1>2. /\ \A k \in Paths : v[k] = IF b.changes[k] # None THEN b.changes[k] ELSE IF k \in b.removed THEN None ELSE res[k]
      /\ v \in Archive /\ b.changes \in Archive
      /\ Linking(v, b.toc) /\ b.files = Has(v) /\ b.toc \subseteq Links
  BY SoundView, ShownIsArchive
<1>3. a.changes \in Archive
  BY <1>1, <1>2 DEF Archive
<1>4. /\ w \in Archive
      /\ \A k \in Paths : w[k] = IF a.changes[k] # None THEN a.changes[k]
                                 ELSE IF k \in a.removed THEN None ELSE res[k]
  BY <1>3, ShownIsArchive
<1>5. \A q \in b.files \ {p} : \A r \in v[q].refs : r[1] \notin {p}
  OBVIOUS
<1> HIDE DEF v, w
<1>6. \A k \in Paths : w[k] = IF k \in {p} THEN None ELSE v[k]
  BY <1>1, <1>2, <1>4
<1>7. \A r \in a.toc : r \in b.toc /\ r[1] \notin {p}
  BY <1>1
<1>8. Linking(w, a.toc) /\ Has(w) = b.files \ {p}
  <2> DEFINE ps == {p}
  <2>1. /\ a.toc \subseteq b.toc /\ Away(a.toc, ps) /\ Emptied(w, v, ps)
        /\ \A q \in Has(v) \ ps : Away(v[q].refs, ps)
    BY <1>2, <1>5, <1>6, <1>7 DEF Away, Emptied
  <2> HIDE DEF ps
  <2>2. Linking(w, a.toc) /\ Has(w) = Has(v) \ ps
    BY <1>2, <1>4, <2>1, GoneLinks
  <2> QED BY <1>2, <2>2 DEF ps
<1>9. /\ a.files = Has(w) /\ a.manifest = a.files /\ a.spine \in Seq(Paths)
      /\ a.linear = ToSet(a.spine) /\ a.linear \subseteq a.files /\ a.itemrefs = a.linear
      /\ a.toc \subseteq Links /\ a.removed \subseteq Paths
  BY <1>1, <1>8, SoundView
<1>10. Distinct(a.files)
  BY <1>1, SoundView DEF Distinct
<1>11. a \in Sounds(res)
  BY <1>1, <1>3, <1>4, <1>8, <1>9, <1>10, SoundShows DEF w
<1> QED BY <1>11 DEF a

-----------------------------------------------------------------------------
(* The operations that move links. *)

\* c with its links turned by to
Turned(c, to) == [ids |-> c.ids, refs |-> {to[r] : r \in c.refs}]

\* the archive of the session
OnDisk(res) == res \in Archive /\ epubs[path].res = res

LEMMA BytesShown ==
    ASSUME NEW b, NEW p \in Paths, NEW res, OnDisk(res)
    PROVE  Bytes(b, p) = ShownIn(b, res)[p]
BY DEF Bytes, ShownIn, OnDisk

LEMMA TurnedParts ==
    ASSUME NEW c, NEW to
    PROVE  Turned(c, to).ids = c.ids /\ Turned(c, to).refs = {to[r] : r \in c.refs}
BY DEF Turned

LEMMA TurnedResource ==
    ASSUME NEW c \in Resource, NEW to \in [Links -> Links]
    PROVE  /\ Turned(c, to) \in Resource /\ [c EXCEPT !.refs = {to[r] : r \in @}] = Turned(c, to)
           /\ (\A r \in c.refs : to[r] = r) => Turned(c, to) = c
BY DEF Turned, Resource

\* what _rewrite_resource_links leaves of a sound view
LEMMA MovedShows ==
    ASSUME NEW res \in Archive, OnDisk(res), NEW b \in Sounds(res), NEW to \in [Links -> Links]
    PROVE  /\ Moved(b, to).changes \in Archive
           /\ Moved(b, to).toc \subseteq Links /\ Moved(b, to).toc = {to[r] : r \in b.toc}
           /\ \A p \in Paths : ShownIn(Moved(b, to), res)[p] =
                  IF ShownIn(b, res)[p] = None THEN None ELSE Turned(ShownIn(b, res)[p], to)
<1> DEFINE m == Moved(b, to)
           v == ShownIn(b, res)
<1>0. Shaped(b)
  BY SoundView
<1>1. /\ m.changes = [p \in Paths |->
                     IF p \in b.files /\ \E r \in Bytes(b, p).refs : to[r] # r
                     THEN [Bytes(b, p) EXCEPT !.refs = {to[r] : r \in @}] ELSE b.changes[p]]
      /\ m.toc = {to[r] : r \in b.toc} /\ m.removed = b.removed
  BY <1>0, MovedForm
<1> HIDE DEF m
<1>2. \A p \in Paths : Bytes(b, p) = v[p]
  BY BytesShown
<1>3. /\ \A k \in Paths : v[k] = IF b.changes[k] # None THEN b.changes[k] ELSE IF k \in b.removed THEN None ELSE res[k]
      /\ v \in Archive /\ b.changes \in Archive /\ b.files = Has(v) /\ b.toc \subseteq Links
  BY SoundView, ShownIsArchive
<1> HIDE DEF v
<1>4. \A p \in b.files : p \in Paths /\ v[p] \in Resource /\ v[p] # None
  BY <1>3, ResourceOf, NoneIsNoResource
<1>5. \A p \in b.files : [v[p] EXCEPT !.refs = {to[r] : r \in @}] = Turned(v[p], to)
                         /\ Turned(v[p], to) \in Resource /\ ((\A r \in v[p].refs : to[r] = r) => Turned(v[p], to) = v[p])
  BY <1>4, TurnedResource
<1>6. \A p \in Paths : m.changes[p] = IF p \in b.files /\ \E r \in v[p].refs : to[r] # r
                                       THEN Turned(v[p], to) ELSE b.changes[p]
  BY <1>1, <1>2, <1>5
<1>7. m.changes \in Archive
  <2>1. \A p \in Paths : m.changes[p] \in Resource \cup {None}
    BY <1>3, <1>5, <1>6 DEF Archive
  <2>2. m.changes = [p \in Paths |-> m.changes[p]]
    BY <1>1
  <2> QED BY <2>1, <2>2 DEF Archive
<1>8. ASSUME NEW p \in Paths
      PROVE  ShownIn(m, res)[p] = IF v[p] = None THEN None ELSE Turned(v[p], to)
  <2>1. ShownIn(m, res)[p] = IF m.changes[p] # None THEN m.changes[p] ELSE IF p \in m.removed THEN None ELSE res[p]
    BY <1>7, ShownIsArchive
  <2>2. p \in b.files <=> v[p] # None
    BY <1>3 DEF Has
  <2>3. CASE p \in b.files /\ \E r \in v[p].refs : to[r] # r
    <3>1. m.changes[p] = Turned(v[p], to) /\ Turned(v[p], to) # None
      BY <1>5, <1>6, <2>3, NoneIsNoResource
    <3> QED BY <2>1, <2>2, <2>3, <3>1
  <2>4. CASE ~(p \in b.files /\ \E r \in v[p].refs : to[r] # r)
    <3>1. m.changes[p] = b.changes[p]
      BY <1>6, <2>4
    <3>2. ShownIn(m, res)[p] = v[p]
      BY <1>1, <1>3, <2>1, <3>1
    <3>3. p \in b.files => Turned(v[p], to) = v[p]
      BY <1>5, <2>4
    <3> QED BY <2>2, <3>2, <3>3
  <2> QED BY <2>3, <2>4
<1>9. m.toc \subseteq Links
  BY <1>1, <1>3
<1> QED BY <1>1, <1>7, <1>8, <1>9 DEF m, v

LEMMA RenamedSound ==
    ASSUME NEW res \in Archive, OnDisk(res), NEW b \in Sounds(res), NEW p \in b.files,
           NEW t \in Paths, t \notin b.files, \A q \in b.files : Folded[q] # Folded[t]
    PROVE  Renamed(b, p, t) \in Sounds(res) /\ Renamed(b, p, t).files = (b.files \ {p}) \cup {t}
<1> DEFINE to == AfterRename(p, t)
           m == Moved(b, to)
           a == Renamed(b, p, t)
           v == ShownIn(b, res)
           w == ShownIn(a, res)
<1>0. Shaped(b)
  BY SoundView
<1>1. /\ Shaped(a)
      /\ a.changes = [[m.changes EXCEPT ![p] = None] EXCEPT ![t] = Bytes(m, p)]
      /\ a.toc = m.toc /\ a.files = (b.files \ {p}) \cup {t} /\ a.manifest = (b.manifest \ {p}) \cup {t}
      /\ a.spine = Swapped(b.spine, p, t)
      /\ a.linear = (IF p \in b.linear THEN (b.linear \ {p}) \cup {t} ELSE b.linear)
      /\ a.itemrefs = (IF p \in b.itemrefs THEN (b.itemrefs \ {p}) \cup {t} ELSE b.itemrefs)
      /\ a.removed = b.removed \cup {p}
  <2>1. IsRenamed(a, b, m, p, t)
    BY <1>0, RenamedForm
  <2> HIDE DEF a, m
  <2> QED BY <2>1 DEF IsRenamed
<1> HIDE DEF a
<1>2. /\ \A k \in Paths : v[k] = IF b.changes[k] # None THEN b.changes[k] ELSE IF k \in b.removed THEN None ELSE res[k]
      /\ v \in Archive /\ b.changes \in Archive
      /\ Linking(v, b.toc) /\ b.files = Has(v) /\ b.toc \subseteq Links
      /\ \A k \in Has(v) : v[k].refs \subseteq Links
  BY SoundView, ShownIsArchive
<1>3. \A r \in Links : to[r] = (IF r[1] = p THEN <<t, r[2]>> ELSE r) /\ to[r] \in Links
  BY LinkParts, LinkOf DEF AfterRename
<1>4. to \in [Links -> Links]
  BY <1>3 DEF AfterRename
<1> HIDE DEF to
<1>5. /\ m.changes \in Archive /\ m.toc \subseteq Links /\ m.toc = {to[r] : r \in b.toc}
      /\ \A k \in Paths : ShownIn(m, res)[k] = IF v[k] = None THEN None ELSE Turned(v[k], to)
  BY <1>4, MovedShows
<1>6. m.removed = b.removed
  BY <1>0, MovedForm
<1>7. p \in Paths /\ p # t /\ v[p] # None /\ v[p] \in Resource /\ Turned(v[p], to) \in Resource
  BY <1>2, <1>4, ResourceOf, TurnedResource DEF Has
<1>8. Bytes(m, p) = Turned(v[p], to)
  BY <1>5, <1>7, BytesShown
<1> HIDE DEF m, v
<1>9. /\ a.changes \in Archive
      /\ \A k \in Paths : a.changes[k] = IF k = t THEN Turned(v[p], to) ELSE IF k = p THEN None ELSE m.changes[k]
  <2> DEFINE c == Turned(v[p], to)
             d == m.changes
             e == [d EXCEPT ![p] = None]
             g == [e EXCEPT ![t] = c]
  <2>1. d \in Archive /\ c \in Resource \cup {None}
    BY <1>5, <1>7
  <2> HIDE DEF d, c
  <2>2. e \in Archive /\ \A k \in Paths : e[k] = IF k = p THEN None ELSE d[k]
    BY <1>7, <2>1, ArchiveWith DEF Archive
  <2> HIDE DEF e
  <2>3. g \in Archive /\ \A k \in Paths : g[k] = IF k = t THEN c ELSE e[k]
    BY <2>1, <2>2, ArchiveWith DEF Archive
  <2>4. a.changes = g
    BY <1>1, <1>8 DEF c, d, e
  <2> QED BY <2>2, <2>3, <2>4 DEF c, d
<1>10. /\ w \in Archive
       /\ \A k \in Paths : w[k] = IF a.changes[k] # None THEN a.changes[k] ELSE IF k \in a.removed THEN None ELSE res[k]
       /\ \A k \in Paths : ShownIn(m, res)[k] = IF m.changes[k] # None THEN m.changes[k] ELSE IF k \in m.removed THEN None ELSE res[k]
  BY <1>5, <1>9, ShownIsArchive
<1> HIDE DEF w
<1>11. \A k \in Paths : w[k] = IF k = t THEN Turned(v[p], to)
                                ELSE IF k = p \/ v[k] = None THEN None ELSE Turned(v[k], to)
  BY <1>1, <1>5, <1>6, <1>7, <1>9, <1>10, NoneIsNoResource
<1>12. Has(w) = (b.files \ {p}) \cup {t}
  <2>1. \A k \in Has(v) : Turned(v[k], to) # None
    BY <1>2, <1>4, ResourceOf, TurnedResource, NoneIsNoResource
  <2>2. \A k \in Paths : k \in Has(v) <=> v[k] # None
    BY DEF Has
  <2>3. \A k \in Paths : k \in Has(w) <=> w[k] # None
    BY DEF Has
  <2>4. \A k \in Paths : k \in Has(w) <=> k \in (b.files \ {p}) \cup {t}
    BY <1>2, <1>7, <1>11, <2>1, <2>2, <2>3
  <2>5. Has(w) \subseteq Paths /\ b.files \subseteq Paths
    BY <1>2 DEF Has
  <2> QED BY <2>4, <2>5
<1>13. ASSUME NEW r \in Links, Leads(v, r) PROVE Leads(w, to[r])
  <2>1. r[1] \in Has(v) /\ r[1] \in Paths /\ (r[2] = "" \/ r[2] \in v[r[1]].ids) /\ r[2] \in Ids \cup {""}
    BY <1>2, <1>13, LeadsTo, LinkParts
  <2>2. CASE r[1] = p
    <3>1. to[r] = <<t, r[2]>>
      BY <1>3, <2>2
    <3>2. to[r] \in Links /\ to[r][1] = t /\ to[r][2] = r[2]
      <4> DEFINE i == r[2]
      <4>1. i \in Ids \cup {""}
        BY <2>1
      <4> HIDE DEF i
      <4>2. <<t, i>> \in Links /\ <<t, i>>[1] = t /\ <<t, i>>[2] = i
        BY <4>1, LinkOf
      <4> QED BY <3>1, <4>2 DEF i
    <3>3. t \in Has(w) /\ w[t].ids = v[p].ids
      <4>1. w[t] = Turned(v[p], to)
        BY <1>11
      <4> QED BY <1>12, <4>1, TurnedParts
    <3> QED BY <1>10, <2>1, <2>2, <3>2, <3>3, LeadsTo
  <2>3. CASE r[1] # p
    <3>1. to[r] = r /\ r[1] # t
      BY <1>2, <1>3, <2>1, <2>3
    <3>2. r[1] \in Has(w) /\ w[r[1]].ids = v[r[1]].ids
      <4>1. w[r[1]] = Turned(v[r[1]], to)
        BY <1>11, <2>1, <2>3, <3>1 DEF Has
      <4>2. r[1] \in Has(w)
        BY <1>2, <1>12, <2>1, <2>3
      <4> QED BY <4>1, <4>2, TurnedParts
    <3> QED BY <1>10, <2>1, <3>1, <3>2, LeadsTo
  <2> QED BY <2>2, <2>3
<1>14. Linking(w, a.toc)
  <2>1. \A r \in a.toc : \E s \in b.toc : r = to[s]
    BY <1>1, <1>5
  <2>2. ASSUME NEW k \in Has(w), NEW r \in w[k].refs PROVE \E q \in Has(v) : \E s \in v[q].refs : r = to[s]
    <3>1. k = t \/ (k \in Has(v) /\ k # p)
      BY <1>2, <1>12
    <3>2. CASE k = t
      <4>1. w[k] = Turned(v[p], to)
        BY <1>11, <3>2
      <4>2. r \in {to[s] : s \in v[p].refs}
        BY <4>1, TurnedParts
      <4> QED BY <1>2, <4>2
    <3>3. CASE k # t
      <4>1. w[k] = Turned(v[k], to)
        BY <1>11, <3>1, <3>3 DEF Has
      <4>2. r \in {to[s] : s \in v[k].refs}
        BY <4>1, TurnedParts
      <4> QED BY <3>1, <3>3, <4>2
    <3> QED BY <3>2, <3>3
  <2>3. Carried(v, b.toc, w, a.toc, to)
    BY <1>13, <2>1, <2>2 DEF Carried
  <2> QED BY <1>2, <2>3, LinksCarried
<1>15. a.spine \in Seq(Paths) /\ ToSet(a.spine) = a.linear
  <2>1. b.spine \in Seq(Paths) /\ b.linear = ToSet(b.spine)
    BY SoundView
  <2> DEFINE s == b.spine
  <2>2. s \in Seq(Paths)
    BY <2>1
  <2> HIDE DEF s
  <2>3. /\ Swapped(s, p, t) \in Seq(Paths)
        /\ ToSet(Swapped(s, p, t)) = (IF p \in ToSet(s) THEN (ToSet(s) \ {p}) \cup {t} ELSE ToSet(s))
    BY <2>2, SwappedToSet
  <2> QED BY <1>1, <2>1, <2>3 DEF s
<1>16. /\ a.files = Has(w) /\ a.manifest = a.files
       /\ a.linear \subseteq a.files /\ a.itemrefs = a.linear /\ a.toc \subseteq Links /\ a.removed \subseteq Paths
  BY <1>1, <1>5, <1>7, <1>12, SoundView
<1>17. Distinct(a.files)
  BY <1>1, SoundView DEF Distinct
<1>18. a \in Sounds(res)
  BY <1>1, <1>9, <1>10, <1>14, <1>15, <1>16, <1>17, SoundShows DEF w
<1> QED BY <1>1, <1>18 DEF a

\* a link of p to one of ids goes to t, a link of another kind stays
LEMMA SplitLinks ==
    ASSUME NEW p \in Paths, NEW t \in Paths, NEW ids \in SUBSET Ids
    PROVE  /\ AfterSplit(p, t, ids) \in [Links -> Links]
           /\ \A r \in Links : IF r[1] = p /\ r[2] \in ids
                               THEN /\ AfterSplit(p, t, ids)[r] = <<t, r[2]>>
                                    /\ AfterSplit(p, t, ids)[r][1] = t /\ AfterSplit(p, t, ids)[r][2] = r[2]
                               ELSE AfterSplit(p, t, ids)[r] = r
<1> DEFINE to == AfterSplit(p, t, ids)
<1>1. \A r \in Links : to[r] = IF r[1] = p /\ r[2] \in ids THEN <<t, r[2]>> ELSE r
  BY DEF AfterSplit
<1>2. ASSUME NEW r \in Links PROVE <<t, r[2]>> \in Links /\ <<t, r[2]>>[1] = t /\ <<t, r[2]>>[2] = r[2]
  <2> DEFINE i == r[2]
  <2>1. i \in Ids \cup {""}
    BY LinkParts
  <2> HIDE DEF i
  <2>2. <<t, i>> \in Links /\ <<t, i>>[1] = t /\ <<t, i>>[2] = i
    BY <2>1, LinkOf
  <2> QED BY <2>2 DEF i
<1>3. \A r \in Links : to[r] \in Links
  BY <1>1, <1>2
<1>4. to \in [Links -> Links]
  BY <1>3 DEF AfterSplit
<1> HIDE DEF to
<1>5. ASSUME NEW r \in Links, r[1] = p /\ r[2] \in ids
      PROVE  to[r] = <<t, r[2]>> /\ to[r][1] = t /\ to[r][2] = r[2]
  <2>1. to[r] = <<t, r[2]>>
    BY <1>1, <1>5
  <2> QED BY <1>2, <2>1
<1>6. ASSUME NEW r \in Links, ~(r[1] = p /\ r[2] \in ids) PROVE to[r] = r
  BY <1>1, <1>6
<1> QED BY <1>4, <1>5, <1>6 DEF to

LEMMA SplitSound ==
    ASSUME NEW res \in Archive, OnDisk(res), NEW b \in Sounds(res), NEW p \in ToSet(b.spine),
           NEW t \in Paths, t \notin b.files, \A q \in b.files : Folded[q] # Folded[t],
           NEW ids \in SUBSET ShownIn(b, res)[p].ids, NEW refs \in SUBSET ShownIn(b, res)[p].refs
    PROVE  Split(b, p, t, ids, refs) \in Sounds(res)
<1> DEFINE to == AfterSplit(p, t, ids)
           tos == TakenOver(p, t, ids, refs)
           m == Moved(b, to)
           a == Split(b, p, t, ids, refs)
           v == ShownIn(b, res)
           w == ShownIn(a, res)
           x == [ids |-> v[p].ids \ ids, refs |-> {to[r] : r \in v[p].refs} \ tos]
           y == [ids |-> ids, refs |-> tos]
<1>0. Shaped(b)
  BY SoundView
<1>1. IsSplit(a, b, m, p, t, ids, tos)
  BY <1>0, SplitForm
<1>2. /\ \A k \in Paths : v[k] = IF b.changes[k] # None THEN b.changes[k] ELSE IF k \in b.removed THEN None ELSE res[k]
      /\ v \in Archive /\ b.changes \in Archive
      /\ Linking(v, b.toc) /\ b.files = Has(v) /\ b.toc \subseteq Links
      /\ \A k \in Has(v) : v[k].refs \subseteq Links
      /\ ids \subseteq v[p].ids /\ refs \subseteq v[p].refs /\ p \in b.files
  BY SoundView, ShownIsArchive
<1>3. p \in Paths /\ p # t /\ v[p] \in Resource /\ v[p].ids \subseteq Ids /\ v[p].refs \subseteq Links /\ t \notin Has(v)
  BY <1>2, ResourceOf
<1>4. /\ to \in [Links -> Links]
      /\ \A r \in Links : IF r[1] = p /\ r[2] \in ids
                          THEN to[r] = <<t, r[2]>> /\ to[r][1] = t /\ to[r][2] = r[2]
                          ELSE to[r] = r
  <2>1. ids \in SUBSET Ids
    BY <1>2, <1>3
  <2> QED BY <1>3, <2>1, SplitLinks
<1>5. tos = {to[r] : r \in refs}
  <2>1. \A r \in refs : to[r] = IF r[1] = p /\ r[2] \in ids THEN <<t, r[2]>> ELSE r
    BY <1>2, <1>3, <1>4
  <2>2. \A z : z \in tos <=> \E r \in refs : z = to[r]
    <3> DEFINE go(r) == IF r[1] = p /\ r[2] \in ids THEN <<t, r[2]>> ELSE r
    <3>1. tos = {go(r) : r \in refs}
      BY DEF TakenOver
    <3>2. \A r \in refs : to[r] = go(r)
      BY <2>1
    <3> HIDE DEF go, tos, to
    <3> QED BY <3>1, <3>2
  <2> HIDE DEF to, tos
  <2> QED BY <2>2
<1> HIDE DEF to, tos, a
<1>6. /\ m.changes \in Archive /\ m.toc \subseteq Links /\ m.toc = {to[r] : r \in b.toc}
      /\ \A k \in Paths : ShownIn(m, res)[k] = IF v[k] = None THEN None ELSE Turned(v[k], to)
  BY <1>4, MovedShows
<1>7. m.removed = b.removed
  BY <1>0, MovedForm
<1>8. Bytes(m, p) = Turned(v[p], to)
  BY <1>3, <1>6, BytesShown, NoneIsNoResource
<1>9. x \in Resource /\ y \in Resource /\ tos \subseteq {to[r] : r \in v[p].refs}
  <2>1. tos \subseteq {to[r] : r \in v[p].refs} /\ {to[r] : r \in v[p].refs} \subseteq Links
    BY <1>2, <1>3, <1>4, <1>5
  <2>2. v[p].ids \ ids \subseteq Ids /\ ids \subseteq Ids /\ {to[r] : r \in v[p].refs} \ tos \subseteq Links /\ tos \subseteq Links
    BY <1>2, <1>3, <2>1
  <2> QED BY <2>1, <2>2 DEF Resource
<1>10. /\ Shaped(a)
       /\ a.changes = [[m.changes EXCEPT ![p] = x] EXCEPT ![t] = y]
       /\ a.toc = m.toc /\ a.files = b.files \cup {t} /\ a.manifest = b.manifest \cup {t}
       /\ a.spine = Insert(b.spine, p, t)
       /\ a.linear = b.linear \cup {t} /\ a.itemrefs = b.itemrefs \cup {t} /\ a.removed = b.removed
  <2>1. Bytes(m, p).ids = v[p].ids /\ Bytes(m, p).refs = {to[r] : r \in v[p].refs}
    BY <1>8, TurnedParts
  <2> HIDE DEF m, v
  <2> QED BY <1>1, <2>1 DEF IsSplit
<1>11. /\ x.ids = v[p].ids \ ids /\ x.refs = {to[r] : r \in v[p].refs} \ tos
       /\ y.ids = ids /\ y.refs = tos
  OBVIOUS
<1> HIDE DEF m, v, x, y
<1>12. /\ a.changes \in Archive
       /\ \A k \in Paths : a.changes[k] = IF k = t THEN y ELSE IF k = p THEN x ELSE m.changes[k]
  <2> DEFINE d == m.changes
             e == [d EXCEPT ![p] = x]
             g == [e EXCEPT ![t] = y]
  <2>1. d \in Archive /\ x \in Resource \cup {None} /\ y \in Resource \cup {None}
    BY <1>6, <1>9
  <2> HIDE DEF d
  <2>2. e \in Archive /\ \A k \in Paths : e[k] = IF k = p THEN x ELSE d[k]
    BY <1>3, <2>1, ArchiveWith DEF Archive
  <2> HIDE DEF e
  <2>3. g \in Archive /\ \A k \in Paths : g[k] = IF k = t THEN y ELSE e[k]
    BY <2>1, <2>2, ArchiveWith DEF Archive
  <2>4. a.changes = g
    BY <1>10 DEF d, e
  <2> QED BY <2>2, <2>3, <2>4 DEF d
<1>13. /\ w \in Archive
       /\ \A k \in Paths : w[k] = IF a.changes[k] # None THEN a.changes[k] ELSE IF k \in a.removed THEN None ELSE res[k]
       /\ \A k \in Paths : ShownIn(m, res)[k] = IF m.changes[k] # None THEN m.changes[k] ELSE IF k \in m.removed THEN None ELSE res[k]
  BY <1>6, <1>12, ShownIsArchive
<1> HIDE DEF w
<1>14. \A k \in Paths : w[k] = IF k = t THEN y ELSE IF k = p THEN x
                                ELSE IF v[k] = None THEN None ELSE Turned(v[k], to)
  BY <1>6, <1>7, <1>9, <1>10, <1>12, <1>13, NoneIsNoResource
<1>15. Has(w) = b.files \cup {t}
  <2>1. \A k \in Has(v) : Turned(v[k], to) # None
    BY <1>2, <1>4, ResourceOf, TurnedResource, NoneIsNoResource
  <2>2. \A k \in Paths : k \in Has(v) <=> v[k] # None
    BY DEF Has
  <2>3. \A k \in Paths : k \in Has(w) <=> w[k] # None
    BY DEF Has
  <2>4. x # None /\ y # None
    BY <1>9, NoneIsNoResource
  <2>5. \A k \in Paths : k \in Has(w) <=> k \in b.files \cup {t}
    BY <1>2, <1>14, <2>1, <2>2, <2>3, <2>4
  <2>6. Has(w) \subseteq Paths /\ b.files \subseteq Paths
    BY <1>2 DEF Has
  <2> QED BY <2>5, <2>6
<1>16. ASSUME NEW r \in Links, Leads(v, r) PROVE Leads(w, to[r])
  <2>1. r[1] \in Has(v) /\ r[1] \in Paths /\ (r[2] = "" \/ r[2] \in v[r[1]].ids) /\ r[2] \in Ids \cup {""}
    BY <1>2, <1>16, LeadsTo, LinkParts
  <2>2. CASE r[1] = p /\ r[2] \in ids
    <3>1. to[r] \in Links /\ to[r][1] = t /\ to[r][2] \in ids
      BY <1>4, <2>2
    <3>2. t \in Has(w) /\ w[t].ids = ids
      BY <1>11, <1>14, <1>15
    <3> QED BY <1>13, <3>1, <3>2, LeadsTo
  <2>3. CASE r[1] = p /\ r[2] \notin ids
    <3>1. to[r] = r
      BY <1>4, <2>3
    <3>2. p \in Has(w) /\ w[p].ids = v[p].ids \ ids
      BY <1>2, <1>3, <1>11, <1>14, <1>15
    <3> QED BY <1>13, <2>1, <2>3, <3>1, <3>2, LeadsTo
  <2>4. CASE r[1] # p
    <3>1. to[r] = r /\ r[1] # t
      BY <1>3, <1>4, <2>1, <2>4
    <3>2. w[r[1]] = Turned(v[r[1]], to)
      BY <1>14, <2>1, <2>4, <3>1 DEF Has
    <3>3. r[1] \in Has(w)
      BY <1>2, <1>15, <2>1
    <3>4. w[r[1]].ids = v[r[1]].ids
      BY <3>2, TurnedParts
    <3> QED BY <1>13, <2>1, <3>1, <3>3, <3>4, LeadsTo
  <2> QED BY <2>2, <2>3, <2>4
<1>17. Linking(w, a.toc)
  <2>1. \A r \in a.toc : \E s \in b.toc : r = to[s]
    BY <1>6, <1>10
  <2>2. ASSUME NEW k \in Has(w), NEW r \in w[k].refs PROVE \E q \in Has(v) : \E s \in v[q].refs : r = to[s]
    <3>1. CASE k = t
      <4>1. r \in tos
        BY <1>11, <1>14, <3>1
      <4>2. r \in {to[s] : s \in v[p].refs}
        BY <1>9, <4>1
      <4> QED BY <1>2, <4>2
    <3>2. CASE k = p
      <4>1. r \in {to[s] : s \in v[p].refs}
        BY <1>3, <1>11, <1>14, <3>2
      <4> QED BY <1>2, <4>1
    <3>3. CASE k # t /\ k # p
      <4>0. k \in Has(v) /\ k \in Paths
        BY <1>2, <1>15, <3>3 DEF Has
      <4>1. w[k] = Turned(v[k], to)
        BY <1>14, <3>3, <4>0 DEF Has
      <4>2. r \in {to[s] : s \in v[k].refs}
        BY <4>1, TurnedParts
      <4> QED BY <4>0, <4>2
    <3> QED BY <3>1, <3>2, <3>3
  <2>3. Carried(v, b.toc, w, a.toc, to)
    BY <1>16, <2>1, <2>2 DEF Carried
  <2> QED BY <1>2, <2>3, LinksCarried
<1>18. a.spine \in Seq(Paths) /\ ToSet(a.spine) = a.linear
  <2>1. b.spine \in Seq(Paths) /\ b.linear = ToSet(b.spine)
    BY SoundView
  <2> DEFINE s == b.spine
  <2>2. s \in Seq(Paths) /\ p \in ToSet(s)
    BY <2>1
  <2> HIDE DEF s
  <2>3. Insert(s, p, t) \in Seq(Paths) /\ ToSet(Insert(s, p, t)) = ToSet(s) \cup {t}
    BY <2>2, InsertToSet
  <2> QED BY <1>10, <2>1, <2>3 DEF s
<1>19. /\ a.files = Has(w) /\ a.manifest = a.files
       /\ a.linear \subseteq a.files /\ a.itemrefs = a.linear /\ a.toc \subseteq Links /\ a.removed \subseteq Paths
  BY <1>6, <1>10, <1>15, SoundView
<1>20. Distinct(a.files)
  BY <1>10, SoundView DEF Distinct
<1>21. a \in Sounds(res)
  BY <1>10, <1>12, <1>13, <1>17, <1>18, <1>19, <1>20, SoundShows DEF w
<1> QED BY <1>21 DEF a

\* where a merge of q into p takes r
MergesTo(r, s, p, q, mp, mq) ==
    \/ r[1] = p /\ r[2] = "" /\ s[1] = p /\ s[2] = mp
    \/ r[1] = q /\ r[2] = "" /\ s[1] = p /\ s[2] = mq
    \/ r[1] = q /\ r[2] # "" /\ s[1] = p /\ s[2] = r[2]
    \/ r[1] # q /\ ~(r[1] = p /\ r[2] = "") /\ s = r

LEMMA MergeLinks ==
    ASSUME NEW p \in Paths, NEW q \in Paths, p # q, NEW mp \in Ids, NEW mq \in Ids
    PROVE  /\ AfterMerge(p, q, mp, mq) \in [Links -> Links]
           /\ \A r \in Links : MergesTo(r, AfterMerge(p, q, mp, mq)[r], p, q, mp, mq)
<1> DEFINE to == AfterMerge(p, q, mp, mq)
<1>1. \A r \in Links : to[r] = CASE r = <<p, "">> -> <<p, mp>>
                                   [] r = <<q, "">> -> <<p, mq>>
                                   [] r[1] = q /\ r[2] # "" -> <<p, r[2]>>
                                   [] OTHER -> r
  BY DEF AfterMerge
<1>2. to = [r \in Links |-> to[r]]
  BY DEF AfterMerge
<1> HIDE DEF to
<1>3. /\ <<p, mp>> \in Links /\ <<p, mp>>[1] = p /\ <<p, mp>>[2] = mp
      /\ <<p, mq>> \in Links /\ <<p, mq>>[1] = p /\ <<p, mq>>[2] = mq
      /\ <<p, "">>[1] = p /\ <<p, "">>[2] = "" /\ <<q, "">>[1] = q /\ <<q, "">>[2] = ""
  BY LinkOf
<1>4. ASSUME NEW r \in Links
      PROVE  to[r] \in Links /\ \/ r[1] = p /\ r[2] = "" /\ to[r][1] = p /\ to[r][2] = mp
                                \/ r[1] = q /\ r[2] = "" /\ to[r][1] = p /\ to[r][2] = mq
                                \/ r[1] = q /\ r[2] # "" /\ to[r][1] = p /\ to[r][2] = r[2]
                                \/ r[1] # q /\ ~(r[1] = p /\ r[2] = "") /\ to[r] = r
  <2>1. r = <<r[1], r[2]>> /\ r[2] \in Ids \cup {""}
    BY LinkParts
  <2>2. CASE r = <<p, "">>
    BY <1>1, <1>3, <2>2
  <2>3. CASE r = <<q, "">>
    <3>1. r # <<p, "">>
      BY <1>3, <2>3
    <3>2. to[r] = <<p, mq>>
      BY <1>1, <2>3, <3>1
    <3> QED BY <1>3, <2>3, <3>2
  <2>4. CASE r[1] = q /\ r[2] # ""
    <3>1. r # <<p, "">> /\ r # <<q, "">>
      BY <1>3, <2>4
    <3> DEFINE i == r[2]
    <3>2. to[r] = <<p, i>> /\ i \in Ids \cup {""}
      BY <1>1, <2>1, <2>4, <3>1
    <3> HIDE DEF i
    <3>3. <<p, i>> \in Links /\ <<p, i>>[1] = p /\ <<p, i>>[2] = i
      BY <3>2, LinkOf
    <3> QED BY <2>4, <3>2, <3>3 DEF i
  <2>5. CASE r # <<p, "">> /\ r # <<q, "">> /\ ~(r[1] = q /\ r[2] # "")
    <3>1. to[r] = r
      BY <1>1, <2>5
    <3>2. r[1] # q /\ ~(r[1] = p /\ r[2] = "")
      BY <2>1, <2>5
    <3> QED BY <3>1, <3>2
  <2> QED BY <2>2, <2>3, <2>4, <2>5
<1>5. to \in [Links -> Links]
  BY <1>2, <1>4
<1> QED BY <1>4, <1>5 DEF to, MergesTo

LEMMA MergedSound ==
    ASSUME NEW res \in Archive, OnDisk(res), NEW b \in Sounds(res), NEW p \in b.files,
           NEW q \in b.files, p # q, NEW mp \in Ids, NEW mq \in Ids
    PROVE  Merged(b, p, q, mp, mq) \in Sounds(res)
<1> DEFINE to == AfterMerge(p, q, mp, mq)
           m == Moved(b, to)
           a == Merged(b, p, q, mp, mq)
           v == ShownIn(b, res)
           w == ShownIn(a, res)
           x == Both(Bytes(m, p), Bytes(m, q), mp, mq)
<1>0. Shaped(b)
  BY SoundView
<1>1. IsMerged(a, b, m, p, q, mp, mq)
  BY <1>0, MergedForm
<1>2. /\ \A k \in Paths : v[k] = IF b.changes[k] # None THEN b.changes[k] ELSE IF k \in b.removed THEN None ELSE res[k]
      /\ v \in Archive /\ b.changes \in Archive
      /\ Linking(v, b.toc) /\ b.files = Has(v) /\ b.toc \subseteq Links
      /\ \A k \in Has(v) : v[k].refs \subseteq Links
  BY SoundView, ShownIsArchive
<1>3. /\ p \in Paths /\ v[p] \in Resource /\ v[p].ids \subseteq Ids /\ v[p].refs \subseteq Links
      /\ q \in Paths /\ v[q] \in Resource /\ v[q].ids \subseteq Ids /\ v[q].refs \subseteq Links
  BY <1>2, ResourceOf
<1>4. /\ to \in [Links -> Links]
      /\ \A r \in Links : MergesTo(r, to[r], p, q, mp, mq)
  BY <1>3, MergeLinks
<1> HIDE DEF to, a
<1>5. /\ m.changes \in Archive /\ m.toc \subseteq Links /\ m.toc = {to[r] : r \in b.toc}
      /\ \A k \in Paths : ShownIn(m, res)[k] = IF v[k] = None THEN None ELSE Turned(v[k], to)
  BY <1>4, MovedShows
<1>6. m.removed = b.removed
  BY <1>0, MovedForm
<1>7. Bytes(m, p) = Turned(v[p], to) /\ Bytes(m, q) = Turned(v[q], to)
  BY <1>3, <1>5, BytesShown, NoneIsNoResource
<1>8. /\ x.ids = v[p].ids \cup v[q].ids \cup {mp, mq}
      /\ x.refs = {to[r] : r \in v[p].refs} \cup {to[r] : r \in v[q].refs} /\ x \in Resource
  <2>1. /\ Bytes(m, p).ids = v[p].ids /\ Bytes(m, p).refs = {to[r] : r \in v[p].refs}
        /\ Bytes(m, q).ids = v[q].ids /\ Bytes(m, q).refs = {to[r] : r \in v[q].refs}
    BY <1>7, TurnedParts
  <2>2. /\ {to[r] : r \in v[p].refs} \subseteq Links /\ {to[r] : r \in v[q].refs} \subseteq Links
    BY <1>3, <1>4
  <2>3. x = [ids |-> v[p].ids \cup v[q].ids \cup {mp, mq},
             refs |-> {to[r] : r \in v[p].refs} \cup {to[r] : r \in v[q].refs}]
    BY <2>1 DEF Both
  <2> DEFINE is == v[p].ids \cup v[q].ids \cup {mp, mq}
             rs == {to[r] : r \in v[p].refs} \cup {to[r] : r \in v[q].refs}
  <2>4. is \subseteq Ids /\ rs \subseteq Links
    BY <1>3, <2>2
  <2> HIDE DEF x
  <2>5. x.ids = is /\ x.refs = rs
    BY <2>3
  <2>6. x = [ids |-> is, refs |-> rs]
    BY <2>3
  <2> HIDE DEF is, rs
  <2>7. x \in Resource
    BY <2>4, <2>6 DEF Resource
  <2> QED BY <2>5, <2>7 DEF is, rs
<1>9. /\ Shaped(a)
      /\ a.changes = [[k \in Paths |-> IF k \in {q} THEN None ELSE m.changes[k]] EXCEPT ![p] = x]
      /\ a.toc = m.toc /\ a.files = b.files \ {q} /\ a.manifest = b.manifest \ {q}
      /\ a.spine = Without(b.spine, {q})
      /\ a.linear = b.linear \ {q} /\ a.itemrefs = b.itemrefs \ {q} /\ a.removed = b.removed \cup {q}
  <2> HIDE DEF m, v
  <2> QED BY <1>1 DEF IsMerged
<1> HIDE DEF m, v, x
<1>10. /\ a.changes \in Archive
       /\ \A k \in Paths : a.changes[k] = IF k = p THEN x ELSE IF k = q THEN None ELSE m.changes[k]
  <2> DEFINE d == m.changes
             e == [k \in Paths |-> IF k \in {q} THEN None ELSE d[k]]
             g == [e EXCEPT ![p] = x]
  <2>1. d \in Archive /\ x \in Resource \cup {None}
    BY <1>5, <1>8
  <2> HIDE DEF d
  <2>2. e \in Archive /\ \A k \in Paths : e[k] = IF k = q THEN None ELSE d[k]
    BY <2>1 DEF Archive
  <2>3. a.changes = g
    BY <1>9 DEF d
  <2> HIDE DEF e
  <2>4. g \in Archive /\ \A k \in Paths : g[k] = IF k = p THEN x ELSE e[k]
    BY <1>3, <2>1, <2>2, ArchiveWith DEF Archive
  <2> QED BY <2>2, <2>3, <2>4 DEF d
<1>11. /\ w \in Archive
       /\ \A k \in Paths : w[k] = IF a.changes[k] # None THEN a.changes[k] ELSE IF k \in a.removed THEN None ELSE res[k]
       /\ \A k \in Paths : ShownIn(m, res)[k] = IF m.changes[k] # None THEN m.changes[k] ELSE IF k \in m.removed THEN None ELSE res[k]
  BY <1>5, <1>10, ShownIsArchive
<1> HIDE DEF w
<1>12. \A k \in Paths : w[k] = IF k = p THEN x ELSE IF k = q \/ v[k] = None THEN None ELSE Turned(v[k], to)
  <2> TAKE k \in Paths
  <2>1. /\ w[k] = IF a.changes[k] # None THEN a.changes[k] ELSE IF k \in a.removed THEN None ELSE res[k]
        /\ ShownIn(m, res)[k] = IF m.changes[k] # None THEN m.changes[k] ELSE IF k \in m.removed THEN None ELSE res[k]
        /\ ShownIn(m, res)[k] = IF v[k] = None THEN None ELSE Turned(v[k], to)
        /\ a.changes[k] = IF k = p THEN x ELSE IF k = q THEN None ELSE m.changes[k]
    BY <1>5, <1>10, <1>11
  <2>2. a.removed = m.removed \cup {q} /\ x # None
    BY <1>6, <1>8, <1>9, NoneIsNoResource
  <2> QED BY <2>1, <2>2
<1>13. Has(w) = b.files \ {q}
  <2>1. \A k \in Has(v) : Turned(v[k], to) # None
    <3> TAKE k \in Has(v)
    <3>1. v[k] \in Resource
      BY <1>2, ResourceOf
    <3>2. Turned(v[k], to) \in Resource
      BY <1>4, <3>1, TurnedResource
    <3> QED BY <3>2, NoneIsNoResource
  <2>2. \A k \in Paths : k \in Has(v) <=> v[k] # None
    BY DEF Has
  <2>3. \A k \in Paths : k \in Has(w) <=> w[k] # None
    BY DEF Has
  <2>4. x # None
    BY <1>8, NoneIsNoResource
  <2>5. \A k \in Paths : k \in Has(w) <=> k \in b.files \ {q}
    BY <1>2, <1>12, <2>1, <2>2, <2>3, <2>4
  <2>6. Has(w) \subseteq Paths /\ b.files \subseteq Paths
    BY <1>2 DEF Has
  <2> QED BY <2>5, <2>6
<1>14. ASSUME NEW r \in Links, Leads(v, r) PROVE Leads(w, to[r])
  <2>1. r[1] \in Has(v) /\ r[1] \in Paths /\ (r[2] = "" \/ r[2] \in v[r[1]].ids)
    BY <1>2, <1>14, LeadsTo, LinkParts
  <2>2. to[r] \in Links /\ p \in Has(w) /\ w[p].ids = v[p].ids \cup v[q].ids \cup {mp, mq}
    BY <1>3, <1>4, <1>8, <1>12, <1>13
  <2>3. CASE r[1] = q \/ (r[1] = p /\ r[2] = "")
    <3>1. to[r][1] = p /\ to[r][2] \in v[p].ids \cup v[q].ids \cup {mp, mq}
      <4>1. MergesTo(r, to[r], p, q, mp, mq)
        BY <1>4
      <4>2. CASE r[1] = p /\ r[2] = ""
        BY <4>1, <4>2 DEF MergesTo
      <4>3. CASE r[1] = q /\ r[2] = ""
        BY <4>1, <4>3 DEF MergesTo
      <4>4. CASE r[1] = q /\ r[2] # ""
        <5>1. r[2] \in v[q].ids
          BY <2>1, <4>4
        <5>2. to[r][1] = p /\ to[r][2] = r[2]
          BY <4>1, <4>4 DEF MergesTo
        <5> QED BY <5>1, <5>2
      <4> QED BY <2>3, <4>2, <4>3, <4>4
    <3> QED BY <1>11, <2>2, <3>1, LeadsTo
  <2>4. CASE r[1] # q /\ ~(r[1] = p /\ r[2] = "")
    <3>1. to[r] = r
      BY <1>4, <2>4 DEF MergesTo
    <3>2. r[1] \in Has(w)
      BY <1>2, <1>13, <2>1, <2>4
    <3>3. v[r[1]].ids \subseteq w[r[1]].ids
      <4>1. CASE r[1] = p
        BY <2>2, <4>1
      <4>2. CASE r[1] # p
        <5>1. w[r[1]] = Turned(v[r[1]], to)
          BY <1>12, <2>1, <2>4, <4>2 DEF Has
        <5> QED BY <5>1, TurnedParts
      <4> QED BY <4>1, <4>2
    <3> QED BY <1>11, <2>1, <3>1, <3>2, <3>3, LeadsTo
  <2> QED BY <2>3, <2>4
<1>15. Linking(w, a.toc)
  <2>1. \A r \in a.toc : \E s \in b.toc : r = to[s]
    BY <1>5, <1>9
  <2>2. ASSUME NEW k \in Has(w), NEW r \in w[k].refs PROVE \E o \in Has(v) : \E s \in v[o].refs : r = to[s]
    <3>1. CASE k = p
      <4>1. r \in {to[s] : s \in v[p].refs} \cup {to[s] : s \in v[q].refs}
        BY <1>3, <1>8, <1>12, <3>1
      <4> QED BY <1>2, <4>1
    <3>2. CASE k # p
      <4>0. k \in Has(v) /\ k \in Paths /\ k # q
        BY <1>2, <1>13 DEF Has
      <4>1. w[k] = Turned(v[k], to)
        BY <1>12, <3>2, <4>0 DEF Has
      <4>2. r \in {to[s] : s \in v[k].refs}
        BY <4>1, TurnedParts
      <4> QED BY <4>0, <4>2
    <3> QED BY <3>1, <3>2
  <2>3. Carried(v, b.toc, w, a.toc, to)
    BY <1>14, <2>1, <2>2 DEF Carried
  <2> QED BY <1>2, <2>3, LinksCarried
<1>16. a.spine \in Seq(Paths) /\ ToSet(a.spine) = b.linear \ {q}
  <2>1. b.spine \in Seq(Paths) /\ b.linear = ToSet(b.spine)
    BY SoundView
  <2> DEFINE s == b.spine
             ps == {q}
  <2>2. s \in Seq(Paths)
    BY <2>1
  <2> HIDE DEF s, ps
  <2>3. Without(s, ps) \in Seq(Paths) /\ ToSet(Without(s, ps)) = ToSet(s) \ ps
    BY <2>2, WithoutToSet
  <2> QED BY <1>9, <2>1, <2>3 DEF s, ps
<1>17. /\ a.files = Has(w) /\ a.manifest = a.files /\ a.linear = ToSet(a.spine)
       /\ a.linear \subseteq a.files /\ a.itemrefs = a.linear /\ a.toc \subseteq Links /\ a.removed \subseteq Paths
  BY <1>3, <1>5, <1>9, <1>13, <1>16, SoundView
<1>18. Distinct(a.files)
  BY <1>9, SoundView DEF Distinct
<1>19. a \in Sounds(res)
  BY <1>9, <1>10, <1>11, <1>15, <1>16, <1>17, <1>18, SoundShows DEF w
<1> QED BY <1>19 DEF a

-----------------------------------------------------------------------------
(* What the requests read. *)

LEMMA NamesFree ==
    ASSUME NEW res \in Archive, OnDisk(res), NEW b \in Sounds(res), NEW p \in Paths, NameIsFree(b, p)
    PROVE  p \notin b.files /\ \A q \in b.files : Folded[q] # Folded[p]
<1>1. ASSUME NEW q \in b.files PROVE q \in ResourcePaths(b)
  <2>1. q \in Paths /\ ShownIn(b, res)[q] # None
    BY SoundView DEF Has
  <2>2. b.changes[q] # None \/ (q \notin b.removed /\ res[q] # None)
    BY <2>1, SoundView, ShownIsArchive
  <2> QED BY <2>1, <2>2 DEF ResourcePaths, Has, OnDisk
<1> QED BY <1>1 DEF NameIsFree

LEMMA TargetsLead ==
    ASSUME NEW res \in Archive, OnDisk(res), NEW b \in Sounds(res)
    PROVE  /\ \A r \in Targets(b) : r \in Links /\ Leads(ShownIn(b, res), r)
           /\ \A r \in Links : Leads(ShownIn(b, res), r) => r \in Targets(b)
           /\ \A r \in Linked(b) : r \in Links /\ Leads(ShownIn(b, res), r)
<1> DEFINE v == ShownIn(b, res)
<1>1. /\ v \in Archive /\ b.files = Has(v) /\ Linking(v, b.toc) /\ b.toc \subseteq Links
      /\ \A p \in Has(v) : v[p].refs \subseteq Links
  BY SoundView
<1>2. \A p \in b.files : p \in Paths /\ Bytes(b, p) = v[p] /\ v[p].ids \subseteq Ids
  BY <1>1, BytesShown, ResourceOf
<1> HIDE DEF v
<1>3. ASSUME NEW r \in Targets(b) PROVE r \in Links /\ Leads(v, r)
  <2>1. PICK p \in b.files : r \in {<<p, "">>} \cup {<<p, i>> : i \in Bytes(b, p).ids}
    BY DEF Targets
  <2>2. PICK i \in {""} \cup v[p].ids : r = <<p, i>>
    BY <1>2, <2>1
  <2>3. i \in Ids \cup {""}
    BY <1>2, <2>2
  <2>4. r \in Links /\ r[1] = p /\ r[2] = i
    BY <1>2, <2>2, <2>3, LinkOf
  <2> QED BY <1>1, <2>2, <2>4, LeadsTo
<1>4. ASSUME NEW r \in Links, Leads(v, r) PROVE r \in Targets(b)
  <2>1. r[1] \in b.files /\ (r[2] = "" \/ r[2] \in v[r[1]].ids)
    BY <1>1, <1>4, LeadsTo
  <2>2. r = <<r[1], r[2]>>
    BY LinkParts
  <2>3. r[2] = "" \/ r[2] \in Bytes(b, r[1]).ids
    BY <1>2, <2>1
  <2>4. r \in {<<r[1], "">>} \cup {<<r[1], i>> : i \in Bytes(b, r[1]).ids}
    BY <2>2, <2>3
  <2> QED BY <2>1, <2>4 DEF Targets
<1>5. ASSUME NEW r \in Linked(b) PROVE r \in Links /\ Leads(v, r)
  <2>1. CASE r \in b.toc
    BY <1>1, <2>1 DEF Linking
  <2>2. CASE \E p \in b.files : r \in Bytes(b, p).refs
    <3>1. PICK p \in b.files : r \in Bytes(b, p).refs
      BY <2>2
    <3>2. r \in v[p].refs /\ p \in Has(v)
      BY <1>1, <1>2, <3>1
    <3> QED BY <1>1, <3>2 DEF Linking
  <2> QED BY <2>1, <2>2 DEF Linked
<1> QED BY <1>3, <1>4, <1>5 DEF v

LEMMA PutForm ==
    ASSUME NEW b, Shaped(b), NEW p, NEW c
    PROVE  Put(b, p, c) = [b EXCEPT !.changes = [b.changes EXCEPT ![p] = c]]
BY DEF Put, Shaped, Fields

\* one resource is written anew
LEMMA PutSound ==
    ASSUME NEW res \in Archive, OnDisk(res), NEW b \in Sounds(res), NEW p \in b.files, NEW c \in Resource,
           ShownIn(b, res)[p].ids \subseteq c.ids, \A r \in c.refs : Leads(ShownIn(b, res), r)
    PROVE  Put(b, p, c) \in Sounds(res) /\ ShownIn(Put(b, p, c), res)[p] = c
<1> DEFINE d == b.changes
           f == [d EXCEPT ![p] = c]
           a == Put(b, p, c)
<1>1. Shaped(b) /\ d \in Archive /\ p \in Paths
  BY SoundView
<1>2. a = [b EXCEPT !.changes = f] /\ a.changes = f
  BY <1>1, PutForm DEF Put, Shaped, Fields
<1> HIDE DEF d, a
<1>3. f \in Archive /\ \A k \in Paths : f[k] = IF k = p THEN c ELSE d[k]
  BY <1>1, ArchiveWith DEF Archive
<1> HIDE DEF f
<1>4. [b EXCEPT !.changes = f] \in Sounds(res)
  BY <1>3, RewrittenSound DEF d
<1>5. a \in Sounds(res)
  BY <1>2, <1>4
<1>6. ShownIn(a, res)[p] = c
  <2>1. a.changes \in Archive /\ a.changes[p] = c /\ c # None
    BY <1>1, <1>2, <1>3, NoneIsNoResource
  <2>2. ShownIn(a, res)[p] = IF a.changes[p] # None THEN a.changes[p] ELSE IF p \in a.removed THEN None ELSE res[p]
    BY <1>1, <2>1, ShownIsArchive
  <2> QED BY <2>1, <2>2
<1> QED BY <1>5, <1>6 DEF a

LEMMA OpenedSound ==
    ASSUME NEW e, e.res \in Archive, e.spine \in Seq(Paths), ToSet(e.spine) \subseteq Has(e.res),
           e.toc \subseteq Links, Linking(e.res, e.toc), Distinct(Has(e.res))
    PROVE  Opened(e) \in Sounds(e.res)
<1> DEFINE a == Opened(e)
           res == e.res
<1>1. /\ Shaped(a) /\ a.files = Has(res) /\ a.spine = e.spine /\ a.linear = ToSet(e.spine) /\ a.toc = e.toc
      /\ a.removed = {} /\ a.changes = Free /\ a.manifest = Has(res) /\ a.itemrefs = ToSet(e.spine)
  BY DEF Opened, Shaped, Fields
<1>2. a.changes \in Archive /\ \A p \in Paths : a.changes[p] = None
  BY <1>1 DEF Free, Archive
<1> HIDE DEF a
<1>3. \A p \in Paths : ShownIn(a, res)[p] = res[p]
  BY <1>1, <1>2, ShownIsArchive
<1> HIDE DEF res
<1>4. /\ res \in Archive /\ a.manifest = a.files /\ a.spine \in Seq(Paths) /\ a.linear = ToSet(a.spine)
      /\ a.linear \subseteq a.files /\ a.itemrefs = a.linear /\ a.toc \subseteq Links
      /\ a.removed \subseteq Paths /\ Linking(res, a.toc) /\ Distinct(a.files)
  BY <1>1 DEF res
<1>5. a \in Sounds(res)
  BY <1>1, <1>2, <1>3, <1>4, SoundShows
<1> QED BY <1>5 DEF a, res

-----------------------------------------------------------------------------
(* Requests and the state file. *)

LEMMA Stepping ==
    ASSUME NEW S, NEW s \in Seq(S), NEW x \in S
    PROVE  /\ Append(s, x) \in Seq(S) /\ Keep(s) \in Seq(S) /\ Keep(Append(s, x)) \in Seq(S)
           /\ s # <<>> => Last(s) \in S /\ Front(s) \in Seq(S)
<1>1. UndoDepth \in Nat
  BY EpubAssumption
<1>2. ASSUME NEW r \in Seq(S) PROVE Keep(r) \in Seq(S)
  <2>1. CASE Len(r) > UndoDepth
    <3>1. SubSeq(r, Len(r) - UndoDepth + 1, Len(r)) \in Seq(S)
      BY <1>1, <2>1
    <3> QED BY <2>1, <3>1 DEF Keep
  <2>2. CASE ~(Len(r) > UndoDepth)
    BY <2>2 DEF Keep
  <2> QED BY <2>1, <2>2
<1>3. Append(s, x) \in Seq(S)
  OBVIOUS
<1>4. ASSUME s # <<>> PROVE Last(s) \in S /\ Front(s) \in Seq(S)
  <2>1. Len(s) \in 1..Len(s)
    BY <1>4
  <2>2. SubSeq(s, 1, Len(s) - 1) \in Seq(S)
    BY <1>4
  <2> QED BY <2>1, <2>2 DEF Last, Front
<1> QED BY <1>2, <1>3, <1>4

\* a request that ends with writing the state file
LEMMA RequestKept ==
    ASSUME EpubInv, loaded, Persist, Current => ViewsSound(Written, epubs[path].res)
    PROVE  EpubInv'
<1>1. path' = path /\ seen' = seen /\ loaded' = loaded /\ epubs' = epubs
  BY DEF Persist
<1>2. Packed' = Written /\ Written.path = path /\ Written.seen = seen
  BY <1>1 DEF Packed, Written
<1>3. SessionSound(Packed, epubs) /\ Packed.path = path /\ Packed.seen = seen
  BY DEF EpubInv, Packed
<1>4. SessionSound(Written, epubs)
  BY <1>2, <1>3 DEF SessionSound, Current
<1>5. Written = [x \in StateFields |-> Written[x]]
  BY DEF Written, StateFields
<1>6. \/ stored' = Written /\ owed' = FALSE
      \/ stored' = stored /\ owed' = TRUE
  BY DEF Persist
<1> HIDE DEF Written
<1>7. /\ epubs' = [o \in {"source", "other"} |-> epubs'[o]] /\ "print" \in DOMAIN epubs'["source"]
      /\ loaded' \in BOOLEAN /\ owed' \in BOOLEAN
  BY <1>1, <1>6 DEF EpubInv
<1>8. SessionSound(Packed', epubs')
  BY <1>1, <1>2, <1>4
<1>9. stored' # NoState => SessionSound(stored', epubs') /\ stored' = [x \in StateFields |-> stored'[x]]
  BY <1>1, <1>4, <1>5, <1>6 DEF EpubInv
<1>10. stored' # NoState => stored'.seen <= seen'
  <2>1. seen \in Nat
    BY <1>3 DEF SessionSound
  <2> QED BY <1>1, <1>2, <1>6, <2>1 DEF EpubInv
<1>11. StateFileIsCurrent'
  BY <1>2, <1>6 DEF StateFileIsCurrent
<1> HIDE DEF StateFileIsCurrent
<1> QED BY <1>7, <1>8, <1>9, <1>10, <1>11 DEF EpubInv

\* the views of the session
LEMMA SessionViews ==
    ASSUME EpubInv, Current
    PROVE  /\ epubs[path].res \in Archive /\ OnDisk(epubs[path].res)
           /\ cur \in Sounds(epubs[path].res) /\ checkpoints \subseteq Sounds(epubs[path].res)
           /\ undo \in Seq(Sounds(epubs[path].res)) /\ redo \in Seq(Sounds(epubs[path].res))
<1>1. SessionSound(Packed, epubs) /\ epubs[path].print = seen
  BY DEF EpubInv, Current
<1>2. /\ Packed.path = path /\ Packed.seen = seen /\ Packed.cur = cur /\ Packed.undo = undo
      /\ Packed.redo = redo /\ Packed.checkpoints = checkpoints
  BY DEF Packed
<1> QED BY <1>1, <1>2 DEF SessionSound, ViewsSound, OnDisk

LEMMA EditKept ==
    ASSUME EpubInv, NEW b, Edit(b), Current => b \in Sounds(epubs[path].res)
    PROVE  EpubInv'
<1>1. loaded /\ Persist /\ cur' = b /\ checkpoints' = checkpoints
      /\ \/ undo' = undo /\ redo' = redo
         \/ undo' = Keep(Append(undo, cur)) /\ redo' = <<>>
  BY DEF Edit, Ready
<1>2. ASSUME Current PROVE ViewsSound(Written, epubs[path].res)
  <2> DEFINE S == Sounds(epubs[path].res)
  <2>1. /\ epubs[path].res \in Archive /\ cur \in S /\ checkpoints \subseteq S /\ undo \in Seq(S) /\ redo \in Seq(S)
        /\ b \in S
    BY <1>2, SessionViews
  <2> HIDE DEF S
  <2>2. undo' \in Seq(S) /\ redo' \in Seq(S)
    <3>1. Keep(Append(undo, cur)) \in Seq(S)
      BY <2>1, Stepping
    <3>2. <<>> \in Seq(S)
      OBVIOUS
    <3> QED BY <1>1, <2>1, <3>1, <3>2
  <2>3. /\ Written.cur = cur' /\ Written.undo = undo' /\ Written.redo = redo' /\ Written.checkpoints = checkpoints'
    BY DEF Written
  <2> QED BY <1>1, <2>1, <2>2, <2>3 DEF ViewsSound, S
<1> QED BY <1>1, <1>2, RequestKept

-----------------------------------------------------------------------------
(* The edits, one lemma for each. *)

LEMMA EmptyResource == [ids |-> {}, refs |-> {}] \in Resource
BY DEF Resource

LEMMA WriteKept ==
    ASSUME EpubInv, Write
    PROVE  EpubInv'
<1>1. PICK p \in cur.files : \E rs \in {{}} \cup {{r} : r \in Targets(cur)} :
        Edit(IF Bytes(cur, p).refs = rs THEN cur ELSE Put(cur, p, [Bytes(cur, p) EXCEPT !.refs = rs]))
  BY DEF Write
<1>2. PICK rs \in {{}} \cup {{r} : r \in Targets(cur)} :
        Edit(IF Bytes(cur, p).refs = rs THEN cur ELSE Put(cur, p, [Bytes(cur, p) EXCEPT !.refs = rs]))
  BY <1>1
<1> DEFINE c == [Bytes(cur, p) EXCEPT !.refs = rs]
           b == IF Bytes(cur, p).refs = rs THEN cur ELSE Put(cur, p, c)
<1>3. Edit(b)
  BY <1>2
<1>4. ASSUME Current PROVE b \in Sounds(epubs[path].res)
  <2> DEFINE res == epubs[path].res
             v == ShownIn(cur, res)
  <2>1. res \in Archive /\ OnDisk(res) /\ cur \in Sounds(res)
    BY <1>4, SessionViews
  <2> HIDE DEF res
  <2>2. \A r \in Targets(cur) : r \in Links /\ Leads(v, r)
    BY <2>1, TargetsLead
  <2>3. p \in Has(v) /\ v \in Archive /\ p \in Paths
    BY <2>1, SoundView DEF Has
  <2>4. Bytes(cur, p) = v[p] /\ v[p] \in Resource
    BY <2>1, <2>3, BytesShown, ResourceOf
  <2> HIDE DEF v
  <2>5. rs \subseteq Links /\ \A r \in rs : Leads(v, r)
    BY <2>2
  <2>6. c \in Resource /\ c.ids = v[p].ids /\ c.refs = rs
    BY <2>4, <2>5 DEF Resource
  <2> HIDE DEF c
  <2>7. Put(cur, p, c) \in Sounds(res)
    BY <2>1, <2>5, <2>6, PutSound DEF v
  <2> QED BY <2>1, <2>7 DEF res
<1> HIDE DEF b
<1> QED BY <1>3, <1>4, EditKept

LEMMA ReplaceTextKept ==
    ASSUME EpubInv, ReplaceText
    PROVE  EpubInv'
<1>1. PICK ps \in SUBSET cur.files, r \in Linked(cur), to \in Targets(cur) :
        LET hit == {p \in ps : r \in Bytes(cur, p).refs}
        IN /\ hit = ps /\ ps # {} /\ to # r
           /\ Edit([cur EXCEPT !.changes = [p \in Paths |->
                 IF p \in hit THEN [Bytes(cur, p) EXCEPT !.refs = (@ \ {r}) \cup {to}] ELSE @[p]]])
  BY DEF ReplaceText
<1> DEFINE hit == {p \in ps : r \in Bytes(cur, p).refs}
           old == cur.changes
           f == [p \in Paths |-> IF p \in hit THEN [Bytes(cur, p) EXCEPT !.refs = (@ \ {r}) \cup {to}] ELSE old[p]]
           b == [cur EXCEPT !.changes = [p \in Paths |->
                 IF p \in hit THEN [Bytes(cur, p) EXCEPT !.refs = (@ \ {r}) \cup {to}] ELSE @[p]]]
<1>2. Edit(b)
  BY <1>1
<1>3. ASSUME Current PROVE b \in Sounds(epubs[path].res)
  <2> DEFINE res == epubs[path].res
             v == ShownIn(cur, res)
  <2>1. res \in Archive /\ OnDisk(res) /\ cur \in Sounds(res)
    BY <1>3, SessionViews
  <2> HIDE DEF res
  <2>2. to \in Links /\ Leads(v, to) /\ cur.files = Has(v) /\ v \in Archive /\ cur.changes \in Archive
        /\ Linking(v, cur.toc) /\ Shaped(cur)
    BY <2>1, TargetsLead, SoundView
  <2>3. hit \subseteq cur.files
    OBVIOUS
  <2> HIDE DEF hit, v
  <2>4. ASSUME NEW p \in hit
        PROVE  LET c == [Bytes(cur, p) EXCEPT !.refs = (@ \ {r}) \cup {to}]
               IN  c \in Resource /\ c.ids = v[p].ids /\ \A s \in c.refs : Leads(v, s)
    <3>1. p \in Paths /\ p \in Has(v) /\ v[p] \in Resource /\ v[p].refs \subseteq Links
      BY <2>2, <2>3, ResourceOf
    <3>2. Bytes(cur, p) = v[p]
      BY <2>1, <3>1, BytesShown DEF v
    <3>3. \A s \in v[p].refs : Leads(v, s)
      BY <2>2, <3>1 DEF Linking
    <3> DEFINE c == [v[p] EXCEPT !.refs = (@ \ {r}) \cup {to}]
    <3>4. c.ids = v[p].ids /\ c.refs = (v[p].refs \ {r}) \cup {to} /\ c \in Resource
      BY <2>2, <3>1 DEF Resource
    <3> QED BY <2>2, <3>2, <3>3, <3>4
  <2>5. \A p \in Paths : IF p \in hit THEN f[p] = [Bytes(cur, p) EXCEPT !.refs = (@ \ {r}) \cup {to}]
                         ELSE f[p] = cur.changes[p]
    OBVIOUS
  <2>6. f = [p \in Paths |-> f[p]]
    OBVIOUS
  <2>7. b = [cur EXCEPT !.changes = f]
    BY <2>2 DEF Shaped, Fields
  <2> HIDE DEF f, b
  <2>8. f \in Archive
    <3>1. \A p \in Paths : f[p] \in Resource \cup {None}
      BY <2>2, <2>4, <2>5 DEF Archive
    <3> QED BY <2>6, <3>1 DEF Archive
  <2>9. \A p \in Paths : \/ f[p] = cur.changes[p]
                         \/ /\ p \in cur.files /\ f[p] \in Resource /\ v[p].ids \subseteq f[p].ids
                            /\ \A s \in f[p].refs : Leads(v, s)
    BY <2>3, <2>4, <2>5
  <2>10. [cur EXCEPT !.changes = f] \in Sounds(res)
    BY <2>1, <2>8, <2>9, RewrittenSound DEF v
  <2> QED BY <2>7, <2>10 DEF res
<1> HIDE DEF b
<1> QED BY <1>2, <1>3, EditKept

\* an empty resource fits under any free name
LEMMA EmptyFits ==
    ASSUME NEW res \in Archive, OnDisk(res), NEW b \in Sounds(res), NEW p \in Paths, NameIsFree(b, p)
    PROVE  Fits(b, ShownIn(b, res), p, [ids |-> {}, refs |-> {}])
BY NamesFree DEF Fits

LEMMA AddResourceKept ==
    ASSUME EpubInv, AddResource
    PROVE  EpubInv'
<1>1. PICK p \in Paths : NameIsFree(cur, p) /\ Edit(Added(cur, p, [ids |-> {}, refs |-> {}], FALSE))
  BY DEF AddResource
<1> DEFINE c == [ids |-> {}, refs |-> {}]
           b == Added(cur, p, c, FALSE)
<1>2. ASSUME Current PROVE b \in Sounds(epubs[path].res)
  <2> DEFINE res == epubs[path].res
  <2>1. res \in Archive /\ OnDisk(res) /\ cur \in Sounds(res)
    BY <1>2, SessionViews
  <2> HIDE DEF res
  <2>2. Fits(cur, ShownIn(cur, res), p, c) /\ c \in Resource
    BY <1>1, <2>1, EmptyFits, EmptyResource
  <2> HIDE DEF c
  <2>3. Added(cur, p, c, FALSE) \in Sounds(res)
    BY <2>1, <2>2, AddedSound
  <2> QED BY <2>3 DEF res
<1>3. Edit(b)
  BY <1>1
<1> HIDE DEF b
<1> QED BY <1>2, <1>3, EditKept

\* a new resource that is read, put anywhere in the reading order
LEMMA PlacedSound ==
    ASSUME NEW res \in Archive, NEW b \in Sounds(res), NEW p, NEW c \in Resource,
           Fits(b, ShownIn(b, res), p, c), NEW s \in Seq(Paths), ToSet(s) = ToSet(b.spine) \cup {p}
    PROVE  [Added(b, p, c, TRUE) EXCEPT !.spine = s] \in Sounds(res)
<1> DEFINE a == Added(b, p, c, TRUE)
           o == b.spine
<1>1. a \in Sounds(res) /\ a.spine = Append(o, p)
  BY AddedSound
<1>2. o \in Seq(Paths) /\ p \in Paths
  BY SoundView DEF Fits
<1>3. ToSet(s) = ToSet(o) \cup {p}
  OBVIOUS
<1> HIDE DEF a, o
<1>4. ToSet(a.spine) = ToSet(o) \cup {p}
  BY <1>1, <1>2, AppendToSet
<1>5. [a EXCEPT !.spine = s] \in Sounds(res)
  BY <1>1, <1>3, <1>4, SpineSound
<1> QED BY <1>5 DEF a

LEMMA InsertedSound ==
    ASSUME NEW res \in Archive, NEW b \in Sounds(res), NEW after \in ToSet(b.spine), NEW p, NEW c \in Resource,
           Fits(b, ShownIn(b, res), p, c)
    PROVE  [Added(b, p, c, TRUE) EXCEPT !.spine = Insert(b.spine, after, p)] \in Sounds(res)
<1> DEFINE o == b.spine
           s == Insert(o, after, p)
<1>1. o \in Seq(Paths) /\ p \in Paths /\ after \in ToSet(o)
  BY SoundView DEF Fits
<1>2. s = Insert(b.spine, after, p)
  OBVIOUS
<1> HIDE DEF o
<1>3. s \in Seq(Paths) /\ ToSet(s) = ToSet(o) \cup {p}
  BY <1>1, InsertToSet
<1> HIDE DEF s
<1>4. [Added(b, p, c, TRUE) EXCEPT !.spine = s] \in Sounds(res)
  BY <1>3, PlacedSound DEF o
<1> QED BY <1>2, <1>4

LEMMA CreateChapterKept ==
    ASSUME EpubInv, CreateChapter
    PROVE  EpubInv'
<1>1. PICK p \in Paths, after \in ToSet(cur.spine) : NameIsFree(cur, p)
        /\ Edit([Added(cur, p, [ids |-> {}, refs |-> {}], TRUE) EXCEPT !.spine = Insert(cur.spine, after, p)])
  BY DEF CreateChapter
<1> DEFINE c == [ids |-> {}, refs |-> {}]
           b == [Added(cur, p, c, TRUE) EXCEPT !.spine = Insert(cur.spine, after, p)]
<1>2. ASSUME Current PROVE b \in Sounds(epubs[path].res)
  <2> DEFINE res == epubs[path].res
  <2>1. res \in Archive /\ OnDisk(res) /\ cur \in Sounds(res)
    BY <1>2, SessionViews
  <2> HIDE DEF res
  <2>2. Fits(cur, ShownIn(cur, res), p, c) /\ c \in Resource
    BY <1>1, <2>1, EmptyFits, EmptyResource
  <2> HIDE DEF c
  <2>3. b \in Sounds(res)
    BY <2>1, <2>2, InsertedSound
  <2> QED BY <2>3 DEF res
<1>3. Edit(b)
  BY <1>1
<1> HIDE DEF b
<1> QED BY <1>2, <1>3, EditKept

LEMMA SplitChapterKept ==
    ASSUME EpubInv, SplitChapter
    PROVE  EpubInv'
<1>1. PICK p \in ToSet(cur.spine), t \in Paths :
        /\ NameIsFree(cur, t)
        /\ \E ids \in SUBSET Bytes(cur, p).ids, refs \in SUBSET Bytes(cur, p).refs :
             Edit(Split(cur, p, t, ids, refs))
  BY DEF SplitChapter
<1>2. PICK ids \in SUBSET Bytes(cur, p).ids, refs \in SUBSET Bytes(cur, p).refs : Edit(Split(cur, p, t, ids, refs))
  BY <1>1
<1>3. ASSUME Current PROVE Split(cur, p, t, ids, refs) \in Sounds(epubs[path].res)
  <2> DEFINE res == epubs[path].res
             v == ShownIn(cur, res)
  <2>1. res \in Archive /\ OnDisk(res) /\ cur \in Sounds(res)
    BY <1>3, SessionViews
  <2> HIDE DEF res
  <2>2. t \notin cur.files /\ \A q \in cur.files : Folded[q] # Folded[t]
    BY <1>1, <2>1, NamesFree
  <2>3. p \in Paths
    BY <2>1, SoundView
  <2>4. Bytes(cur, p) = ShownIn(cur, res)[p]
    BY <2>1, <2>3, BytesShown
  <2>5. ids \in SUBSET ShownIn(cur, res)[p].ids /\ refs \in SUBSET ShownIn(cur, res)[p].refs
    BY <2>4
  <2>6. Split(cur, p, t, ids, refs) \in Sounds(res)
    BY <2>1, <2>2, <2>5, SplitSound
  <2> QED BY <2>6 DEF res
<1> QED BY <1>2, <1>3, EditKept

LEMMA MergeResourcesKept ==
    ASSUME EpubInv, MergeResources
    PROVE  EpubInv'
<1>1. PICK p \in ToSet(cur.spine) : \E q \in cur.files \ {p} : \E mp \in Ids, mq \in Ids :
        Edit(Merged(cur, p, q, mp, mq))
  BY DEF MergeResources
<1>2. PICK q \in cur.files \ {p} : \E mp \in Ids, mq \in Ids : Edit(Merged(cur, p, q, mp, mq))
  BY <1>1
<1>3. PICK mp \in Ids, mq \in Ids : Edit(Merged(cur, p, q, mp, mq))
  BY <1>2
<1>4. ASSUME Current PROVE Merged(cur, p, q, mp, mq) \in Sounds(epubs[path].res)
  <2> DEFINE res == epubs[path].res
  <2>1. res \in Archive /\ OnDisk(res) /\ cur \in Sounds(res)
    BY <1>4, SessionViews
  <2> HIDE DEF res
  <2>2. p \in cur.files /\ q \in cur.files /\ p # q
    BY <2>1, SoundView
  <2>3. Merged(cur, p, q, mp, mq) \in Sounds(res)
    BY <2>1, <2>2, MergedSound
  <2> QED BY <2>3 DEF res
<1> QED BY <1>3, <1>4, EditKept

LEMMA RenameKept ==
    ASSUME EpubInv, NEW p \in cur.files, NEW t \in Paths, NameIsFree(cur, t), Edit(Renamed(cur, p, t))
    PROVE  EpubInv'
<1>1. ASSUME Current PROVE Renamed(cur, p, t) \in Sounds(epubs[path].res)
  <2> DEFINE res == epubs[path].res
  <2>1. res \in Archive /\ OnDisk(res) /\ cur \in Sounds(res)
    BY <1>1, SessionViews
  <2> HIDE DEF res
  <2>2. t \notin cur.files /\ \A q \in cur.files : Folded[q] # Folded[t]
    BY <2>1, NamesFree
  <2>3. Renamed(cur, p, t) \in Sounds(res)
    BY <2>1, <2>2, RenamedSound
  <2> QED BY <2>3 DEF res
<1> QED BY <1>1, EditKept

LEMMA DeleteOneKept ==
    ASSUME EpubInv, DeleteOne
    PROVE  EpubInv'
<1>1. PICK p \in cur.files :
        /\ p \notin ToSet(cur.spine)
        /\ \A r \in cur.toc \cup UNION {Bytes(cur, q).refs : q \in cur.files \ {p}} : r[1] # p
        /\ Edit(Gone(cur, {p}))
  BY DEF DeleteOne
<1>2. ASSUME Current PROVE Gone(cur, {p}) \in Sounds(epubs[path].res)
  <2> DEFINE res == epubs[path].res
  <2>1. res \in Archive /\ OnDisk(res) /\ cur \in Sounds(res)
    BY <1>2, SessionViews
  <2> HIDE DEF res
  <2>2. \A q \in cur.files : Bytes(cur, q) = ShownIn(cur, res)[q]
    BY <2>1, SoundView, BytesShown
  <2>3. \A r \in cur.toc : r[1] # p
    BY <1>1
  <2>4. \A q \in cur.files \ {p} : \A r \in ShownIn(cur, res)[q].refs : r[1] # p
    BY <1>1, <2>2
  <2>5. Gone(cur, {p}) \in Sounds(res)
    BY <1>1, <2>1, <2>3, <2>4, GoneSound
  <2> QED BY <2>5 DEF res
<1> QED BY <1>1, <1>2, EditKept

LEMMA DeleteManyKept ==
    ASSUME EpubInv, DeleteMany
    PROVE  EpubInv'
<1>1. PICK ps \in SUBSET cur.files : ps # {} /\ Deletable(ps) /\ Edit(Deleted(cur, ps))
  BY DEF DeleteMany
<1>2. ASSUME Current PROVE Deleted(cur, ps) \in Sounds(epubs[path].res)
  <2> DEFINE res == epubs[path].res
  <2>1. res \in Archive /\ OnDisk(res) /\ cur \in Sounds(res)
    BY <1>2, SessionViews
  <2> HIDE DEF res
  <2>2. \A q \in cur.files : Bytes(cur, q) = ShownIn(cur, res)[q]
    BY <2>1, SoundView, BytesShown
  <2>3. \A q \in cur.files \ ps : \A r \in ShownIn(cur, res)[q].refs : r[1] \notin ps
    BY <1>1, <2>2 DEF Deletable
  <2>4. Deleted(cur, ps) \in Sounds(res)
    BY <2>1, <2>3, DeletedSound
  <2> QED BY <2>4 DEF res
<1> QED BY <1>1, <1>2, EditKept

LEMMA CopyResourceKept ==
    ASSUME EpubInv, CopyResource
    PROVE  EpubInv'
<1>1. PICK p \in cur.files, t \in Paths :
        LET c == [Bytes(cur, p) EXCEPT !.refs = {IF r[1] = p THEN <<t, r[2]>> ELSE r : r \in @}]
        IN /\ NameIsFree(cur, t)
           /\ Edit(IF p \in ToSet(cur.spine)
                   THEN [Added(cur, t, c, TRUE) EXCEPT !.spine = Insert(cur.spine, p, t)]
                   ELSE Added(cur, t, c, FALSE))
  BY DEF CopyResource
<1> DEFINE c == [Bytes(cur, p) EXCEPT !.refs = {IF r[1] = p THEN <<t, r[2]>> ELSE r : r \in @}]
           b == IF p \in ToSet(cur.spine)
                THEN [Added(cur, t, c, TRUE) EXCEPT !.spine = Insert(cur.spine, p, t)]
                ELSE Added(cur, t, c, FALSE)
<1>2. NameIsFree(cur, t) /\ Edit(b)
  BY <1>1
<1>3. ASSUME Current PROVE b \in Sounds(epubs[path].res)
  <2> DEFINE res == epubs[path].res
             v == ShownIn(cur, res)
             go(r) == IF r[1] = p THEN <<t, r[2]>> ELSE r
  <2>1. res \in Archive /\ OnDisk(res) /\ cur \in Sounds(res)
    BY <1>3, SessionViews
  <2> HIDE DEF res
  <2>2. t \notin cur.files /\ \A q \in cur.files : Folded[q] # Folded[t]
    BY <1>2, <2>1, NamesFree
  <2>3. p \in Has(v) /\ v \in Archive /\ p \in Paths /\ Linking(v, cur.toc)
    BY <2>1, SoundView DEF Has
  <2>4. Bytes(cur, p) = v[p] /\ v[p] \in Resource /\ v[p].ids \subseteq Ids /\ v[p].refs \subseteq Links
    BY <2>1, <2>3, BytesShown, ResourceOf
  <2> HIDE DEF v
  <2>5. ASSUME NEW r \in v[p].refs
        PROVE  /\ go(r) \in Links
               /\ Leads(v, go(r)) \/ (go(r)[1] = t /\ (go(r)[2] = "" \/ go(r)[2] \in v[p].ids))
    <3>1. r \in Links /\ Leads(v, r)
      BY <2>3, <2>4 DEF Linking
    <3>2. CASE r[1] = p
      <4> DEFINE i == r[2]
      <4>1. i \in Ids \cup {""} /\ (i = "" \/ i \in v[p].ids)
        BY <2>3, <3>1, <3>2, LinkParts, LeadsTo
      <4>2. go(r) = <<t, i>>
        BY <3>2
      <4> HIDE DEF i, go
      <4>3. <<t, i>> \in Links /\ <<t, i>>[1] = t /\ <<t, i>>[2] = i
        BY <4>1, LinkOf
      <4> QED BY <4>1, <4>2, <4>3
    <3>3. CASE r[1] # p
      BY <3>1, <3>3
    <3> QED BY <3>2, <3>3
  <2>6. c.ids = v[p].ids /\ c.refs = {go(r) : r \in v[p].refs} /\ c = [ids |-> c.ids, refs |-> c.refs]
    <3> DEFINE o == Bytes(cur, p)
               rs == {go(r) : r \in o.refs}
    <3>1. c = [o EXCEPT !.refs = rs]
      OBVIOUS
    <3>2. o = v[p] /\ o \in Resource
      BY <2>4
    <3>3. rs = {go(r) : r \in v[p].refs}
      BY <2>4
    <3> HIDE DEF o, rs, c
    <3>4. c.ids = o.ids /\ c.refs = rs /\ c = [ids |-> c.ids, refs |-> c.refs]
      BY <3>1, <3>2 DEF Resource
    <3> HIDE DEF go
    <3> QED BY <3>2, <3>3, <3>4
  <2> HIDE DEF c, go
  <2>7. c \in Resource
    BY <2>4, <2>5, <2>6 DEF Resource
  <2>8. Fits(cur, v, t, c)
    BY <2>2, <2>5, <2>6 DEF Fits
  <2>9. CASE p \in ToSet(cur.spine)
    <3>1. [Added(cur, t, c, TRUE) EXCEPT !.spine = Insert(cur.spine, p, t)] \in Sounds(res)
      BY <2>1, <2>7, <2>8, <2>9, InsertedSound DEF v
    <3> QED BY <2>9, <3>1 DEF res
  <2>10. CASE p \notin ToSet(cur.spine)
    <3>1. Added(cur, t, c, FALSE) \in Sounds(res)
      BY <2>1, <2>7, <2>8, AddedSound DEF v
    <3> QED BY <2>10, <3>1 DEF res
  <2> QED BY <2>9, <2>10
<1> HIDE DEF b
<1> QED BY <1>2, <1>3, EditKept

LEMMA SetTocKept ==
    ASSUME EpubInv, SetToc
    PROVE  EpubInv'
<1>1. PICK es \in SUBSET Targets(cur) : Edit([cur EXCEPT !.toc = es])
  BY DEF SetToc
<1>2. ASSUME Current PROVE [cur EXCEPT !.toc = es] \in Sounds(epubs[path].res)
  <2> DEFINE res == epubs[path].res
  <2>1. res \in Archive /\ OnDisk(res) /\ cur \in Sounds(res)
    BY <1>2, SessionViews
  <2> HIDE DEF res
  <2>2. es \in SUBSET Links /\ \A r \in es : Leads(ShownIn(cur, res), r)
    BY <2>1, TargetsLead
  <2>3. [cur EXCEPT !.toc = es] \in Sounds(res)
    BY <2>1, <2>2, TocSound
  <2> QED BY <2>3 DEF res
<1> QED BY <1>1, <1>2, EditKept

LEMMA GenerateTocKept ==
    ASSUME EpubInv, GenerateToc
    PROVE  EpubInv'
<1>1. PICK p \in ToSet(cur.spine), i \in Ids :
        Edit([(IF i \in Bytes(cur, p).ids THEN cur
                  ELSE Put(cur, p, [Bytes(cur, p) EXCEPT !.ids = @ \cup {i}])) EXCEPT !.toc = {<<p, i>>}])
  BY DEF GenerateToc
<1> DEFINE c == [Bytes(cur, p) EXCEPT !.ids = @ \cup {i}]
           a == IF i \in Bytes(cur, p).ids THEN cur ELSE Put(cur, p, c)
           b == [a EXCEPT !.toc = {<<p, i>>}]
<1>2. Edit(b)
  BY <1>1
<1>3. ASSUME Current PROVE b \in Sounds(epubs[path].res)
  <2> DEFINE res == epubs[path].res
             v == ShownIn(cur, res)
             es == {<<p, i>>}
  <2>1. res \in Archive /\ OnDisk(res) /\ cur \in Sounds(res)
    BY <1>3, SessionViews
  <2> HIDE DEF res
  <2>2. p \in cur.files /\ p \in Has(v) /\ v \in Archive /\ p \in Paths /\ Linking(v, cur.toc)
    BY <2>1, SoundView DEF Has
  <2>3. Bytes(cur, p) = v[p] /\ v[p] \in Resource /\ v[p].ids \subseteq Ids /\ v[p].refs \subseteq Links
    BY <2>1, <2>2, BytesShown, ResourceOf
  <2>4. \A r \in v[p].refs : Leads(v, r)
    BY <2>2 DEF Linking
  <2> HIDE DEF v
  <2>5. c \in Resource /\ c.ids = v[p].ids \cup {i} /\ c.refs = v[p].refs
    BY <2>3 DEF Resource
  <2> HIDE DEF c
  <2>6. a \in Sounds(res) /\ i \in ShownIn(a, res)[p].ids
    <3>1. CASE i \in Bytes(cur, p).ids
      BY <2>1, <2>3, <3>1 DEF v
    <3>2. CASE i \notin Bytes(cur, p).ids
      <4>1. Put(cur, p, c) \in Sounds(res) /\ ShownIn(Put(cur, p, c), res)[p] = c
        BY <2>1, <2>2, <2>4, <2>5, PutSound DEF v
      <4> QED BY <2>5, <3>2, <4>1
    <3> QED BY <3>1, <3>2
  <2> HIDE DEF a
  <2>7. <<p, i>> \in Links /\ <<p, i>>[1] = p /\ <<p, i>>[2] = i
    BY <2>2, LinkOf
  <2>8. p \in Has(ShownIn(a, res)) /\ ShownIn(a, res) \in Archive
    <3>1. ShownIn(a, res) \in Archive
      BY <2>1, <2>6, SoundView
    <3>2. ShownIn(a, res)[p] # None
      <4>1. None.ids = {}
        BY DEF None
      <4> QED BY <2>6, <4>1
    <3> QED BY <2>2, <3>1, <3>2 DEF Has
  <2>9. es \in SUBSET Links /\ \A r \in es : Leads(ShownIn(a, res), r)
    <3>1. Leads(ShownIn(a, res), <<p, i>>)
      BY <2>6, <2>7, <2>8, LeadsTo
    <3> QED BY <2>7, <3>1
  <2> HIDE DEF es
  <2>10. [a EXCEPT !.toc = es] \in Sounds(res)
    BY <2>1, <2>6, <2>9, TocSound
  <2> QED BY <2>10 DEF es, res
<1> HIDE DEF b
<1> QED BY <1>2, <1>3, EditKept

LEMMA TocPageKept ==
    ASSUME EpubInv, TocPage
    PROVE  EpubInv'
<1>1. PICK p \in Paths : NameIsFree(cur, p) /\ Edit([Added(cur, p, [ids |-> {}, refs |-> cur.toc], TRUE)
                                                         EXCEPT !.spine = <<p>> \o cur.spine])
  BY DEF TocPage
<1> DEFINE c == [ids |-> {}, refs |-> cur.toc]
           b == [Added(cur, p, c, TRUE) EXCEPT !.spine = <<p>> \o cur.spine]
<1>2. Edit(b)
  BY <1>1
<1>3. ASSUME Current PROVE b \in Sounds(epubs[path].res)
  <2> DEFINE res == epubs[path].res
             v == ShownIn(cur, res)
             one == <<p>>
             o == cur.spine
             s == one \o o
  <2>1. res \in Archive /\ OnDisk(res) /\ cur \in Sounds(res)
    BY <1>3, SessionViews
  <2> HIDE DEF res
  <2>2. p \notin cur.files /\ \A q \in cur.files : Folded[q] # Folded[p]
    BY <1>1, <2>1, NamesFree
  <2>3. Linking(v, cur.toc) /\ cur.toc \subseteq Links /\ o \in Seq(Paths)
    BY <2>1, SoundView
  <2>4. c \in Resource /\ c.refs = cur.toc
    BY <2>3 DEF Resource
  <2> HIDE DEF c
  <2>5. Fits(cur, v, p, c)
    BY <2>2, <2>3, <2>4 DEF Fits, Linking
  <2>6. one \in Seq(Paths) /\ ToSet(one) = {p}
    BY DEF ToSet
  <2>7. s = <<p>> \o cur.spine
    OBVIOUS
  <2> HIDE DEF one, o
  <2>8. s \in Seq(Paths) /\ ToSet(s) = ToSet(o) \cup {p}
    BY <2>3, <2>6, ConcatToSet
  <2> HIDE DEF s
  <2>9. [Added(cur, p, c, TRUE) EXCEPT !.spine = s] \in Sounds(res)
    BY <2>1, <2>4, <2>5, <2>8, PlacedSound DEF v, o
  <2> QED BY <2>7, <2>9 DEF res
<1> HIDE DEF b
<1> QED BY <1>2, <1>3, EditKept

-----------------------------------------------------------------------------
(* Steps back, and requests that were refused. *)

LEMMA SeveralRenamesKept ==
    ASSUME EpubInv, RenameMany
    PROVE  EpubInv'
<1>1. PICK p \in cur.files : \E q \in cur.files \ {p} : \E t \in Paths : \E u \in Paths \ {t} :
        /\ NameIsFree(cur, t) /\ NameIsFree(cur, u)
        /\ LET half == Renamed(cur, p, t)
           IN IF NameIsFree(half, u) THEN Edit(Renamed(half, q, u))
              ELSE /\ Ready
                   /\ cur' = RolledBack(cur, half) /\ reply' = "refused"
                   /\ UNCHANGED <<undo, redo, checkpoints, path, seen, loaded, stored, epubs, owed, ahead>>
  BY DEF RenameMany
<1>2. PICK q \in cur.files \ {p} : \E t \in Paths : \E u \in Paths \ {t} :
        /\ NameIsFree(cur, t) /\ NameIsFree(cur, u)
        /\ LET half == Renamed(cur, p, t)
           IN IF NameIsFree(half, u) THEN Edit(Renamed(half, q, u))
              ELSE /\ Ready
                   /\ cur' = RolledBack(cur, half) /\ reply' = "refused"
                   /\ UNCHANGED <<undo, redo, checkpoints, path, seen, loaded, stored, epubs, owed, ahead>>
  BY <1>1
<1>3. PICK t \in Paths : \E u \in Paths \ {t} :
        /\ NameIsFree(cur, t) /\ NameIsFree(cur, u)
        /\ LET half == Renamed(cur, p, t)
           IN IF NameIsFree(half, u) THEN Edit(Renamed(half, q, u))
              ELSE /\ Ready
                   /\ cur' = RolledBack(cur, half) /\ reply' = "refused"
                   /\ UNCHANGED <<undo, redo, checkpoints, path, seen, loaded, stored, epubs, owed, ahead>>
  BY <1>2
<1> DEFINE half == Renamed(cur, p, t)
<1>4. PICK u \in Paths \ {t} :
        /\ NameIsFree(cur, t)
        /\ \/ NameIsFree(half, u) /\ Edit(Renamed(half, q, u))
           \/ /\ Ready
              /\ cur' = RolledBack(cur, half)
              /\ UNCHANGED <<undo, redo, checkpoints, path, seen, loaded, stored, epubs, owed, ahead>>
  BY <1>3
<1>5. CASE NameIsFree(half, u) /\ Edit(Renamed(half, q, u))
  <2>1. ASSUME Current PROVE Renamed(half, q, u) \in Sounds(epubs[path].res)
    <3> DEFINE res == epubs[path].res
    <3>1. res \in Archive /\ OnDisk(res) /\ cur \in Sounds(res)
      BY <2>1, SessionViews
    <3> HIDE DEF res
    <3>2. t \notin cur.files /\ \A k \in cur.files : Folded[k] # Folded[t]
      BY <1>4, <3>1, NamesFree
    <3>3. half \in Sounds(res) /\ half.files = (cur.files \ {p}) \cup {t}
      BY <3>1, <3>2, RenamedSound
    <3> HIDE DEF half
    <3>4. u \notin half.files /\ \A k \in half.files : Folded[k] # Folded[u]
      BY <1>5, <3>1, <3>3, NamesFree
    <3>5. q \in half.files
      BY <3>3
    <3>6. Renamed(half, q, u) \in Sounds(res)
      BY <3>1, <3>3, <3>4, <3>5, RenamedSound
    <3> QED BY <3>6 DEF res
  <2> HIDE DEF half
  <2> QED BY <1>5, <2>1, EditKept
<1>6. CASE /\ Ready /\ cur' = RolledBack(cur, half)
           /\ UNCHANGED <<undo, redo, checkpoints, path, seen, loaded, stored, epubs, owed, ahead>>
  <2>1. /\ cur' = cur /\ undo' = undo /\ redo' = redo /\ checkpoints' = checkpoints /\ path' = path
        /\ seen' = seen /\ loaded' = loaded /\ stored' = stored /\ epubs' = epubs /\ owed' = owed
    BY <1>6 DEF RolledBack
  <2> QED BY <2>1 DEF EpubInv, Packed, StateFileIsCurrent
<1> QED BY <1>4, <1>5, <1>6

LEMMA HistoryKept ==
    ASSUME EpubInv, Back \/ Forth \/ NamedCheckpoint \/ RestoreCheckpoint
    PROVE  EpubInv'
<1>1. loaded /\ Persist
  BY DEF Back, Forth, NamedCheckpoint, RestoreCheckpoint, Ready
<1>2. ASSUME Current PROVE ViewsSound(Written, epubs[path].res)
  <2> DEFINE S == Sounds(epubs[path].res)
  <2>1. /\ epubs[path].res \in Archive /\ cur \in S /\ checkpoints \subseteq S /\ undo \in Seq(S) /\ redo \in Seq(S)
    BY <1>2, SessionViews
  <2>2. /\ Written.cur = cur' /\ Written.undo = undo' /\ Written.redo = redo' /\ Written.checkpoints = checkpoints'
    BY DEF Written
  <2>3. (cur' \in S /\ checkpoints' \subseteq S /\ undo' \in Seq(S) /\ redo' \in Seq(S))
          => ViewsSound(Written, epubs[path].res)
    BY <2>1, <2>2 DEF ViewsSound
  <2> HIDE DEF S
  <2>4. /\ Append(redo, cur) \in Seq(S) /\ Append(undo, cur) \in Seq(S) /\ Keep(Append(undo, cur)) \in Seq(S)
        /\ undo # <<>> => Last(undo) \in S /\ Front(undo) \in Seq(S)
        /\ redo # <<>> => Last(redo) \in S /\ Front(redo) \in Seq(S)
        /\ <<>> \in Seq(S)
    <3>1. <<>> \in Seq(S)
      OBVIOUS
    <3> QED BY <2>1, <3>1, Stepping
  <2>5. CASE Back
    BY <2>1, <2>3, <2>4, <2>5 DEF Back
  <2>6. CASE Forth
    BY <2>1, <2>3, <2>4, <2>6 DEF Forth
  <2>7. CASE NamedCheckpoint
    <3>1. checkpoints' = {cur} /\ cur' = cur /\ undo' = undo /\ redo' = redo
      BY <2>7 DEF NamedCheckpoint
    <3> QED BY <2>1, <2>3, <3>1
  <2>8. CASE RestoreCheckpoint
    <3>1. cur' \in checkpoints /\ undo' = Keep(Append(undo, cur)) /\ redo' = <<>> /\ checkpoints' = checkpoints
      BY <2>8 DEF RestoreCheckpoint
    <3> QED BY <2>1, <2>3, <2>4, <3>1
  <2> QED BY <2>5, <2>6, <2>7, <2>8
<1> QED BY <1>1, <1>2, RequestKept

-----------------------------------------------------------------------------
(* Saves, restarts, and another program. *)

\* save writes what the view shows
LEMMA WrittenIsShown ==
    ASSUME NEW res \in Archive, OnDisk(res), NEW b
    PROVE  WrittenOut(b) = ShownIn(b, res)
BY DEF WrittenOut, ShownIn, OnDisk

LEMMA SaveKept ==
    ASSUME EpubInv, NEW o \in {"source", "other"}, Save(o)
    PROVE  EpubInv'
<1> DEFINE out == [res |-> WrittenOut(cur), spine |-> cur.spine, toc |-> cur.toc, print |-> seen + 1]
           S == Sounds(out.res)
<1>1. /\ loaded /\ epubs[path].print = seen /\ epubs' = [epubs EXCEPT ![o] = out]
      /\ cur' = Opened(out) /\ seen' = seen + 1 /\ path' = o
      /\ undo' = <<>> /\ redo' = <<>> /\ checkpoints' = {} /\ loaded' = loaded
      /\ \/ stored' = Written /\ owed' = FALSE
         \/ owed' = TRUE /\ stored' \in {NoState, stored}
  BY DEF Save, Ready
<1>2. Opened(out) \in S /\ out.res \in Archive
  <2> DEFINE res == epubs[path].res
             v == ShownIn(cur, res)
  <2>1. res \in Archive /\ OnDisk(res) /\ cur \in Sounds(res)
    BY <1>1, SessionViews DEF Current
  <2> HIDE DEF res
  <2>2. out.res = v /\ out.spine = cur.spine /\ out.toc = cur.toc
    BY <2>1, WrittenIsShown
  <2>3. /\ v \in Archive /\ cur.files = Has(v) /\ cur.spine \in Seq(Paths) /\ ToSet(cur.spine) \subseteq Has(v)
        /\ cur.toc \subseteq Links /\ Linking(v, cur.toc) /\ Distinct(Has(v))
    BY <2>1, SoundView
  <2> HIDE DEF out, v
  <2>4. /\ out.res \in Archive /\ out.spine \in Seq(Paths) /\ ToSet(out.spine) \subseteq Has(out.res)
        /\ out.toc \subseteq Links /\ Linking(out.res, out.toc) /\ Distinct(Has(out.res))
    BY <2>2, <2>3
  <2> QED BY <2>4, OpenedSound
<1>3. out.print = seen + 1 /\ "print" \in DOMAIN out
  OBVIOUS
<1> HIDE DEF out
<1>4. /\ epubs = [x \in {"source", "other"} |-> epubs[x]] /\ "print" \in DOMAIN epubs["source"]
      /\ SessionSound(Packed, epubs) /\ Packed.seen = seen
      /\ stored # NoState => SessionSound(stored, epubs) /\ stored = [x \in StateFields |-> stored[x]]
      /\ stored # NoState => stored.seen <= seen
  BY <1>1 DEF EpubInv, Packed
<1>5. seen \in Nat \ {0}
  BY <1>4 DEF SessionSound
<1>6. /\ epubs'[o] = out /\ \A x \in {"source", "other"} : x # o => epubs'[x] = epubs[x]
      /\ epubs' = [x \in {"source", "other"} |-> epubs'[x]]
  BY <1>1, <1>4
<1>7. "print" \in DOMAIN epubs'["source"]
  <2>1. "source" # "other"
    OBVIOUS
  <2>2. CASE o = "source"
    BY <1>3, <1>6, <2>2
  <2>3. CASE o # "source"
    <3>1. epubs'["source"] = epubs["source"]
      BY <1>6, <2>3
    <3> QED BY <1>4, <3>1
  <2> QED BY <2>2, <2>3
<1>8. SessionSound(Written, epubs') /\ Written.seen = seen'
  <2>1. /\ Written.path = o /\ Written.seen = seen + 1 /\ Written.cur = Opened(out)
        /\ Written.undo = <<>> /\ Written.redo = <<>> /\ Written.checkpoints = {}
    BY <1>1 DEF Written
  <2>2. ViewsSound(Written, out.res)
    <3> HIDE DEF S
    <3>1. <<>> \in Seq(S)
      OBVIOUS
    <3> QED BY <1>2, <2>1, <3>1 DEF ViewsSound, S
  <2> QED BY <1>1, <1>5, <1>6, <2>1, <2>2 DEF SessionSound
<1>9. Written = [x \in StateFields |-> Written[x]] /\ Packed' = Written
  BY DEF Written, StateFields, Packed
<1>10. stored' # NoState => SessionSound(stored', epubs') /\ stored' = [x \in StateFields |-> stored'[x]]
                            /\ stored'.seen <= seen'
  <2>1. CASE stored' = Written
    <3> HIDE DEF Written
    <3> QED BY <1>1, <1>5, <1>8, <1>9, <2>1
  <2>2. CASE stored' = stored /\ stored # NoState
    <3>1. SessionSound(stored, epubs) /\ stored.seen <= seen
      BY <1>4, <2>2
    <3>2. stored.path \in {"source", "other"} /\ stored.seen \in Nat \ {0}
          /\ (epubs[stored.path].print = stored.seen => ViewsSound(stored, epubs[stored.path].res))
      BY <3>1 DEF SessionSound
    <3>3. stored.seen # seen + 1 /\ stored.seen <= seen + 1
      BY <1>5, <3>1, <3>2
    <3>4. epubs'[stored.path].print = stored.seen => epubs'[stored.path] = epubs[stored.path]
      BY <1>3, <1>6, <3>2, <3>3
    <3>5. SessionSound(stored, epubs')
      BY <3>2, <3>4 DEF SessionSound
    <3> QED BY <1>1, <1>4, <2>2, <3>3, <3>5
  <2>3. stored' = Written \/ stored' = stored \/ stored' = NoState
    BY <1>1
  <2> HIDE DEF Written
  <2> QED BY <2>1, <2>2, <2>3
<1>11. StateFileIsCurrent'
  BY <1>1, <1>9 DEF StateFileIsCurrent
<1>12. SessionSound(Packed', epubs')
  BY <1>8, <1>9
<1>13. loaded' \in BOOLEAN /\ owed' \in BOOLEAN
  BY <1>1 DEF EpubInv
<1> HIDE DEF StateFileIsCurrent
<1> QED BY <1>6, <1>7, <1>10, <1>11, <1>12, <1>13 DEF EpubInv

LEMMA RestartKept ==
    ASSUME EpubInv, RestartEditor
    PROVE  EpubInv'
<1>1. /\ loaded' = FALSE /\ stored' = stored /\ epubs' = epubs /\ owed' = owed
  BY DEF RestartEditor
<1>2. StateFileIsCurrent'
  BY <1>1 DEF StateFileIsCurrent
<1> HIDE DEF StateFileIsCurrent
<1> QED BY <1>1, <1>2 DEF EpubInv

LEMMA GetKept ==
    ASSUME EpubInv, Get
    PROVE  EpubInv'
<1>1. /\ stored # NoState /\ loaded' = TRUE /\ owed' = FALSE /\ stored' = stored /\ epubs' = epubs
      /\ cur' = stored.cur /\ undo' = stored.undo /\ redo' = stored.redo
      /\ checkpoints' = stored.checkpoints /\ path' = stored.path /\ seen' = stored.seen
  BY DEF Get
<1>2. SessionSound(stored, epubs) /\ stored = [x \in StateFields |-> stored[x]]
  BY <1>1 DEF EpubInv
<1>3. Packed' = stored
  <2>1. Packed' = [x \in StateFields |-> stored[x]]
    BY <1>1 DEF Packed, StateFields
  <2> QED BY <1>2, <2>1
<1>4. StateFileIsCurrent'
  BY <1>1, <1>3 DEF StateFileIsCurrent
<1>5. stored'.seen <= seen'
  <2>1. stored.seen \in Nat
    BY <1>2 DEF SessionSound
  <2> QED BY <1>1, <2>1
<1>6. SessionSound(Packed', epubs')
  BY <1>1, <1>2, <1>3
<1>7. stored' # NoState => SessionSound(stored', epubs') /\ stored' = [x \in StateFields |-> stored'[x]]
  BY <1>1, <1>2
<1>8. /\ epubs' = [o \in {"source", "other"} |-> epubs'[o]] /\ "print" \in DOMAIN epubs'["source"]
      /\ loaded' \in BOOLEAN /\ owed' \in BOOLEAN
  BY <1>1 DEF EpubInv
<1> HIDE DEF StateFileIsCurrent, Packed
<1> QED BY <1>4, <1>5, <1>6, <1>7, <1>8 DEF EpubInv

LEMMA SourceChangesKept ==
    ASSUME EpubInv, SourceChanges
    PROVE  EpubInv'
<1>1. /\ cur' = cur /\ undo' = undo /\ redo' = redo /\ checkpoints' = checkpoints /\ path' = path
      /\ seen' = seen /\ loaded' = loaded /\ stored' = stored /\ owed' = owed
  BY DEF SourceChanges
<1>2. /\ epubs' = [x \in {"source", "other"} |-> epubs'[x]] /\ "print" \in DOMAIN epubs'["source"]
      /\ epubs'["source"].print = 0 /\ epubs'["other"] = epubs["other"]
  <2>1. epubs = [x \in {"source", "other"} |-> epubs[x]] /\ "print" \in DOMAIN epubs["source"]
    BY DEF EpubInv
  <2> DEFINE old == epubs["source"]
             new == [p \in Paths |-> IF old.res[p] = None THEN None ELSE [old.res[p] EXCEPT !.ids = {}]]
             one == [old EXCEPT !.print = 0]
             two == [one EXCEPT !.res = [p \in Paths |-> IF @[p] = None THEN None ELSE [@[p] EXCEPT !.ids = {}]]]
  <2>2. epubs' = [[epubs EXCEPT !["source"].print = 0] EXCEPT
                     !["source"].res = [p \in Paths |-> IF @[p] = None THEN None ELSE [@[p] EXCEPT !.ids = {}]]]
    BY DEF SourceChanges
  <2>3. epubs'["source"] = two /\ epubs'["other"] = epubs["other"]
        /\ epubs' = [x \in {"source", "other"} |-> epubs'[x]]
    BY <2>1, <2>2
  <2>4. "print" \in DOMAIN two /\ two.print = 0
    BY <2>1
  <2> QED BY <2>3, <2>4
<1>3. ASSUME NEW s, SessionSound(s, epubs) PROVE SessionSound(s, epubs')
  <2>1. s.path \in {"source", "other"} /\ s.seen \in Nat \ {0}
    BY <1>3 DEF SessionSound
  <2>2. CASE s.path = "source"
    BY <1>2, <2>1, <2>2 DEF SessionSound
  <2>3. CASE s.path = "other"
    BY <1>2, <1>3, <2>3 DEF SessionSound
  <2> QED BY <2>1, <2>2, <2>3
<1>4. Packed' = Packed
  BY <1>1 DEF Packed
<1>5. StateFileIsCurrent'
  BY <1>1, <1>4 DEF StateFileIsCurrent, EpubInv
<1> HIDE DEF StateFileIsCurrent
<1> QED BY <1>1, <1>2, <1>3, <1>4, <1>5 DEF EpubInv

-----------------------------------------------------------------------------
(* The theorems. *)

LEMMA EpubBegins ==
    ASSUME EpubInit
    PROVE  EpubInv
<1> DEFINE S == Sounds(Book.res)
<1>1. Opened(Book) \in S /\ Book.res \in Archive
  <2>1. Book.res \in Archive /\ Book.spine \in Seq(Has(Book.res)) /\ Book.toc \subseteq Links
    BY EpubAssumption DEF Archive
  <2>2. ToSet(Book.spine) \subseteq Has(Book.res) /\ Book.spine \in Seq(Paths)
    <3>1. ToSet(Book.spine) \subseteq Has(Book.res)
      BY <2>1, SeqToSet
    <3>2. \A i \in 1..Len(Book.spine) : Book.spine[i] \in Paths
      BY <2>1 DEF Has
    <3> QED BY <2>1, <3>1, <3>2
  <2>3. ASSUME NEW r \in Links, r[1] \in Has(Book.res) /\ (r[2] = "" \/ r[2] \in Book.res[r[1]].ids)
        PROVE  Leads(Book.res, r)
    BY <2>1, <2>3, LeadsTo
  <2>4. Linking(Book.res, Book.toc)
    <3>1. \A r \in Book.toc : Leads(Book.res, r)
      BY <2>1, <2>3, EpubAssumption
    <3>2. ASSUME NEW p \in Has(Book.res), NEW r \in Book.res[p].refs PROVE Leads(Book.res, r)
      <4>1. r \in Links
        BY <2>1, ResourceOf
      <4>2. r[1] \in Has(Book.res) /\ (r[2] = "" \/ r[2] \in Book.res[r[1]].ids)
        BY EpubAssumption
      <4> QED BY <2>3, <4>1, <4>2
    <3> QED BY <3>1, <3>2 DEF Linking
  <2>5. Distinct(Has(Book.res))
    BY EpubAssumption DEF Distinct
  <2> QED BY <2>1, <2>2, <2>4, <2>5, OpenedSound
<1>2. /\ epubs = [x \in {"source", "other"} |->
                 IF x = "source" THEN [res |-> Book.res, spine |-> Book.spine, toc |-> Book.toc, print |-> 1]
                 ELSE NoFile]
      /\ path = "source" /\ seen = 1 /\ loaded = TRUE /\ owed = FALSE /\ stored = Packed
      /\ cur = Opened(Book) /\ undo = <<>> /\ redo = <<>> /\ checkpoints = {}
  BY DEF EpubInit
<1>3. epubs["source"].res = Book.res /\ "print" \in DOMAIN epubs["source"]
      /\ epubs = [x \in {"source", "other"} |-> epubs[x]]
  BY <1>2
<1>4. SessionSound(Packed, epubs)
  <2>1. /\ Packed.path = "source" /\ Packed.seen = 1 /\ Packed.cur = Opened(Book) /\ Packed.undo = <<>>
        /\ Packed.redo = <<>> /\ Packed.checkpoints = {}
    BY <1>2 DEF Packed
  <2> HIDE DEF S
  <2>2. <<>> \in Seq(S)
    OBVIOUS
  <2>3. ViewsSound(Packed, Book.res)
    BY <1>1, <2>1, <2>2 DEF ViewsSound, S
  <2> QED BY <1>3, <2>1, <2>3 DEF SessionSound
<1>5. Packed = [x \in StateFields |-> Packed[x]] /\ Packed.seen = seen
  BY DEF Packed, StateFields
<1>6. StateFileIsCurrent
  BY <1>2 DEF StateFileIsCurrent
<1>7. stored # NoState => SessionSound(stored, epubs) /\ stored = [x \in StateFields |-> stored[x]]
  BY <1>2, <1>4, <1>5
<1>8. stored.seen <= seen
  BY <1>2, <1>5
<1>9. loaded \in BOOLEAN /\ owed \in BOOLEAN
  BY <1>2
<1> HIDE DEF Packed, StateFileIsCurrent, S
<1> QED BY <1>3, <1>4, <1>6, <1>7, <1>8, <1>9 DEF EpubInv

LEMMA EpubGoesOn ==
    ASSUME EpubInv, EpubNext
    PROVE  EpubInv'
<1>1. CASE Rename
  <2>1. PICK p \in cur.files, t \in Paths : NameIsFree(cur, t) /\ Edit(Renamed(cur, p, t))
    BY <1>1 DEF Rename
  <2> QED BY <2>1, RenameKept
<1>2. CASE \E o \in {"source", "other"} : Save(o)
  BY <1>2, SaveKept
<1>3. CASE RestartEditor \/ Get \/ SourceChanges
  BY <1>3, RestartKept, GetKept, SourceChangesKept
<1>4. CASE Back \/ Forth \/ NamedCheckpoint \/ RestoreCheckpoint
  BY <1>4, HistoryKept
<1>5. CASE Write \/ ReplaceText \/ AddResource \/ CreateChapter \/ SplitChapter \/ MergeResources
  BY <1>5, WriteKept, ReplaceTextKept, AddResourceKept, CreateChapterKept, SplitChapterKept, MergeResourcesKept
<1>6. CASE DeleteOne \/ DeleteMany \/ CopyResource \/ SetToc \/ GenerateToc \/ TocPage \/ RenameMany
  BY <1>6, DeleteOneKept, DeleteManyKept, CopyResourceKept, SetTocKept, GenerateTocKept, TocPageKept,
     SeveralRenamesKept
<1> QED BY <1>1, <1>2, <1>3, <1>4, <1>5, <1>6 DEF EpubNext

LEMMA EpubAlways == EpubSpec => []EpubInv
<1>1. EpubInit => EpubInv
  BY EpubBegins
<1>2. EpubInv /\ [EpubNext]_epubVars => EpubInv'
  <2> SUFFICES ASSUME EpubInv, [EpubNext]_epubVars PROVE EpubInv'
    OBVIOUS
  <2>1. CASE EpubNext
    BY <2>1, EpubGoesOn
  <2>2. CASE UNCHANGED epubVars
    BY <2>2 DEF epubVars, EpubInv, Packed, StateFileIsCurrent
  <2> QED BY <2>1, <2>2
<1> QED BY <1>1, <1>2, PTL DEF EpubSpec

\* However the book is edited, stepped back, saved and restarted, no link of it
\* leads into nothing, it can be saved, no two names are one under case folding,
\* and its state file is the session.
THEOREM BookStaysSound == EpubSpec => []BookIsSound
<1>1. ASSUME EpubInv PROVE BookIsSound
  <2>1. StateFileIsCurrent
    BY <1>1 DEF EpubInv
  <2> DEFINE res == epubs[path].res
             v == ShownIn(cur, res)
  <2>2. ASSUME Current
        PROVE  Linked(cur) \subseteq Targets(cur) /\ Savable(cur) /\ cur.manifest = cur.files /\ Distinct(cur.files)
    <3>1. res \in Archive /\ OnDisk(res) /\ cur \in Sounds(res)
      BY <1>1, <2>2, SessionViews
    <3>2. \A p \in Has(cur.changes) : (epubs[path].res[p] = None \/ p \in cur.removed) => p \in cur.files
      <4>1. \A p \in Has(cur.changes) : v[p] # None /\ p \in Paths
        BY <3>1, SoundView, ShownIsArchive DEF Has
      <4> QED BY <3>1, <4>1, SoundView DEF Has
    <3> HIDE DEF res
    <3>3. Linked(cur) \subseteq Targets(cur)
      BY <3>1, TargetsLead
    <3>4. /\ ToSet(cur.spine) = cur.linear /\ cur.itemrefs \subseteq cur.manifest
          /\ cur.linear \subseteq cur.manifest /\ cur.manifest = cur.files /\ Distinct(cur.files)
      BY <3>1, SoundView
    <3> QED BY <3>2, <3>3, <3>4 DEF Savable
  <2> QED BY <2>1, <2>2 DEF BookIsSound, LinksResolve, AlwaysSavable, NamesAreDistinct, Distinct
<1> QED BY <1>1, EpubAlways, PTL

\* What a save publishes is what the editor showed, resource by resource, and a
\* request that is refused leaves the session as it was.
THEOREM SavesStayTrue == EpubSpec => SavesAreTrue
<1> DEFINE Shows == \A o \in DOMAIN epubs : epubs'[o] # epubs[o] /\ path' = o /\ seen' # seen =>
                      \A p \in Paths : epubs'[o].res[p] = IF p \in cur.files THEN Bytes(cur, p) ELSE None
           Leaves == reply' = "refused" /\ requests' # requests => <<cur, undo, redo>>' = <<cur, undo, redo>>
<1>1. EpubInv /\ [EpubNext]_epubVars => [Shows]_epubVars
  <2> SUFFICES ASSUME EpubInv, EpubNext PROVE Shows
    OBVIOUS
  <2>1. CASE \E o \in {"source", "other"} : Save(o)
    <3>1. PICK o \in {"source", "other"} : Save(o)
      BY <2>1
    <3> DEFINE out == [res |-> WrittenOut(cur), spine |-> cur.spine, toc |-> cur.toc, print |-> seen + 1]
               res == epubs[path].res
               v == ShownIn(cur, res)
    <3>2. loaded /\ epubs[path].print = seen /\ epubs' = [epubs EXCEPT ![o] = out] /\ path' = o
      BY <3>1 DEF Save, Ready
    <3>3. epubs = [x \in {"source", "other"} |-> epubs[x]]
      BY DEF EpubInv
    <3>4. epubs'[o].res = WrittenOut(cur)
      BY <3>2, <3>3
    <3>5. res \in Archive /\ OnDisk(res) /\ cur \in Sounds(res)
      BY <3>2, SessionViews DEF Current
    <3> HIDE DEF res, out
    <3>6. WrittenOut(cur) = v /\ cur.files = Has(v)
      BY <3>5, WrittenIsShown, SoundView
    <3>7. \A p \in Paths : v[p] = IF p \in cur.files THEN Bytes(cur, p) ELSE None
      BY <3>5, <3>6, BytesShown DEF Has
    <3> QED BY <3>2, <3>4, <3>6, <3>7
  <2>2. CASE ~ \E o \in {"source", "other"} : Save(o)
    <3>1. epubs' = epubs \/ seen' = seen
      BY <2>2, ZenonT(40) DEF EpubNext, Write, ReplaceText, AddResource, CreateChapter, SplitChapter, MergeResources, Rename,
        DeleteOne, DeleteMany, CopyResource, SetToc, GenerateToc, TocPage, RenameMany, Back, Forth, NamedCheckpoint,
        RestoreCheckpoint, RestartEditor, Get, SourceChanges, Edit, Persist
    <3> QED BY <3>1
  <2> QED BY <2>1, <2>2
<1>2. [EpubNext]_epubVars => [Leaves]_epubVars
  <2> SUFFICES ASSUME EpubNext PROVE Leaves
    OBVIOUS
  <2>1. CASE Persist
    BY <2>1 DEF Persist
  <2>2. CASE RenameMany
    <3>1. Persist \/ (cur' = cur /\ undo' = undo /\ redo' = redo)
      BY <2>2 DEF RenameMany, RolledBack, Edit
    <3> QED BY <2>1, <3>1
  <2>3. CASE \E o \in {"source", "other"} : Save(o)
    BY <2>3 DEF Save
  <2>4. CASE RestartEditor \/ Get \/ SourceChanges
    BY <2>4 DEF RestartEditor, Get, SourceChanges
  <2>5. CASE ~RenameMany /\ ~(\E o \in {"source", "other"} : Save(o)) /\ ~(RestartEditor \/ Get \/ SourceChanges)
    <3>1. Persist
      BY <2>5 DEF EpubNext, Write, ReplaceText, AddResource, CreateChapter, SplitChapter, MergeResources, Rename,
        DeleteOne, DeleteMany, CopyResource, SetToc, GenerateToc, TocPage, Back, Forth, NamedCheckpoint,
        RestoreCheckpoint, Edit
    <3> QED BY <2>1, <3>1
  <2> QED BY <2>2, <2>3, <2>4, <2>5
<1>3. EpubSpec => [][Shows]_epubVars
  BY <1>1, EpubAlways, PTL DEF EpubSpec
<1>4. EpubSpec => [][Leaves]_epubVars
  BY <1>2, PTL DEF EpubSpec
<1> QED BY <1>3, <1>4 DEF SavesAreTrue, SavedIsShown, RefusedLeavesNothing

(* ---------------------- Output files of the tools ---------------------- *)

\* what is true of every tool
ToolShape(d) ==
    /\ d.place \in {"source", "named", "unique"} /\ d.writes \in {"temp", "maybe", "goal"}
    /\ d.publishes \in {"replace", "link", "none"} /\ d.refuses \in BOOLEAN /\ d.readsBack \in BOOLEAN
    /\ d.place = "source" => d.writes # "goal" /\ d.publishes = "replace" /\ (way.over \/ d.refuses)
    /\ d.publishes = "link" => d.writes = "temp" /\ ~d.readsBack /\ (d.place = "unique" \/ d.refuses)
    /\ d.publishes = "none" => d.writes = "goal"

Chose == step # "begin"
\* the path was taken and the tool refuses to go on
Refuses == Doing.refuses /\ (goal = "src" \/ goal \in theirs)
Contents == {"none", "source", "theirs", "half", "made"}
Steps == {"begin", "chosen", "writing", "written", "copying", "published", "tidy", "over", "ended"}

FilesTypeOK ==
    /\ way \in Ways /\ hardLinks \in BOOLEAN /\ folder \in [FilePaths -> Contents]
    /\ step \in Steps /\ goal \in {"src", "out", "out1"} /\ beside \in {"tmp", goal} /\ fate \in {"none", "done", "failed"}
    /\ theirs \subseteq {"out"} /\ late \subseteq {"out", "out1"} /\ theirs \cap late = {}
PathChosen ==
    /\ goal = "src" <=> Chose /\ Doing.place = "source"
    /\ goal = "src" \/ Doing.writes = "temp" \/ (goal \in theirs /\ Doing.writes = "maybe") => beside = "tmp"
    /\ Chose /\ beside = "tmp" => Doing.writes # "goal"
    /\ goal \in theirs => Doing.place = "named"
    /\ Refuses /\ Chose => step = "over" /\ fate = "failed" /\ folder["src"] = "source" /\ folder["tmp"] = "none"
                 /\ (goal \in theirs => folder[goal] = "theirs")
    /\ ~Chose => theirs = {} /\ late = {} /\ fate = "none" /\ folder["src"] = "source" /\ folder["tmp"] = "none"
                 /\ beside = "tmp" /\ goal = "out" /\ folder["out"] \in {"none", "theirs"} /\ folder["out1"] = "none"
OthersLeft ==
    /\ folder["src"] # "source" => folder["src"] = "made" /\ goal = "src"
    /\ \A p \in {"out", "out1"} \ {goal} : folder[p] \in {"none", "theirs"} /\ (p \in theirs \cup late => folder[p] = "theirs")
    /\ goal \in theirs => folder[goal] # "none"
    /\ beside # "tmp" => folder["tmp"] = "none"
Stage ==
    /\ step \in {"chosen", "over"} => folder["tmp"] = "none"
    /\ step = "writing" => folder[beside] = "half"
    /\ step = "written" => folder[beside] = "made"
    /\ step = "copying" => LinksOut /\ ~hardLinks /\ beside = "tmp" /\ goal \notin theirs \cup late /\ folder[goal] = "half"
    /\ step \in {"chosen", "writing", "written", "copying", "published"} => fate = "none"
    /\ step = "tidy" => fate = "failed"
    /\ step = "published" \/ (step = "over" /\ fate = "done") => folder[goal] = "made"
    /\ step = "over" => fate \in {"done", "failed"}
GoalHolds ==
    beside = "tmp" /\ Chose =>
        /\ step \in {"chosen", "writing", "written"} => folder[goal] \in {"none", "theirs"} \/ (goal = "src" /\ folder[goal] = "source")
        /\ folder[goal] # "half" \/ (LinksOut /\ ~hardLinks /\ step \in {"copying", "ended"})
        /\ goal \in theirs => folder[goal] \in {"theirs", "made"}
        /\ LinksOut => goal \notin theirs \/ Refuses
        /\ LinksOut /\ goal \in late => folder[goal] = "theirs"
        /\ LinksOut /\ fate = "failed" => folder[goal] \in {"none", "theirs"}
FilesInv == FilesTypeOK /\ PathChosen /\ OthersLeft /\ Stage /\ GoalHolds

LEMMA ShapeOfTools ==
    ASSUME way \in Ways
    PROVE  ToolShape(Doing)
<1>1. way.name \in WayNames /\ way.over \in BOOLEAN
  BY WaysAssumption
<1> USE <1>1 DEF ToolShape, Doing, Tool
<1>a. CASE way.name = "compress" BY <1>a DEF CompressFile
<1>b. CASE way.name = "convert" BY <1>b DEF ConvertFile
<1>c. CASE way.name = "txt_to_epub" BY <1>c DEF TextToBook
<1>d. CASE way.name = "metadata" BY <1>d DEF SetMetadata
<1>e. CASE way.name = "metadata_here" BY <1>e DEF MetadataHere
<1>f. CASE way.name = "repair" BY <1>f DEF RepairFile
<1>g. CASE way.name = "repair_here" BY <1>g DEF RepairHere
<1>h. CASE way.name = "merge" BY <1>h DEF MergeFiles
<1>i. CASE way.name = "merge_text" BY <1>i DEF MergeText
<1>j. CASE way.name = "replace_txt" BY <1>j DEF RewriteText
<1>k. CASE way.name = "replace_epub" BY <1>k DEF ReplaceBook
<1>l. CASE way.name = "book" BY <1>l DEF WriteBook
<1>m. CASE way.name = "text" BY <1>m DEF WriteText
<1> QED BY <1>a, <1>b, <1>c, <1>d, <1>e, <1>f, <1>g, <1>h, <1>i, <1>j, <1>k, <1>l, <1>m DEF WayNames

LEMMA FilesStart ==
    ASSUME FilesInit
    PROVE  FilesInv
<1>1. ToolShape(Doing)
  BY ShapeOfTools DEF FilesInit
<1>2. FilesTypeOK
  BY DEF FilesInit, FilesTypeOK, FilePaths, Contents, Steps
<1>3. PathChosen /\ OthersLeft /\ Stage /\ GoalHolds
  BY <1>1 DEF FilesInit, PathChosen, OthersLeft, Stage, GoalHolds, Chose, Refuses, ToolShape
<1> QED BY <1>2, <1>3 DEF FilesInv

LEMMA PathIsChosen ==
    ASSUME FilesInv, ChoosePath
    PROVE  FilesInv'
<1>1. ToolShape(Doing) /\ Doing' = Doing
  BY ShapeOfTools DEF FilesInv, FilesTypeOK, ChoosePath, Doing
<1> DEFINE d == Doing
<1>2. ToolShape(d) /\ Doing' = d /\ Doing = d
  BY <1>1
<1> HIDE DEF d
<1> USE DEF FilesInv, FilesTypeOK, PathChosen, OthersLeft, Stage, GoalHolds, Chose, Refuses, ToolShape, LinksOut,
            FilePaths, Contents, Steps
<1>3. /\ folder' = folder /\ way' = way /\ hardLinks' = hardLinks /\ late' = late /\ late = {}
      /\ folder["src"] = "source" /\ folder["tmp"] = "none" /\ folder["out"] \in {"none", "theirs"}
      /\ folder["out1"] = "none" /\ theirs' = {p \in FilePaths : folder[p] = "theirs"} /\ goal' = Chosen
  BY DEF ChoosePath
<1>4. theirs' \subseteq {"out"} /\ ("out" \in theirs' <=> folder["out"] = "theirs")
  BY <1>3
<1>5. goal' = IF d.place = "source" THEN "src"
              ELSE IF d.place = "unique" /\ folder["out"] # "none" THEN "out1" ELSE "out"
  BY <1>2, <1>3 DEF Chosen, UniqueOutput
<1>6. /\ beside' = IF d.writes = "goal" \/ (d.writes = "maybe" /\ folder[goal'] = "none") THEN goal' ELSE "tmp"
      /\ IF d.refuses /\ folder[goal'] # "none" THEN step' = "over" /\ fate' = "failed"
         ELSE step' = "chosen" /\ fate' = fate
      /\ fate = "none"
  BY <1>2, <1>3 DEF ChoosePath, Proceeds
<1>7. FilesTypeOK'
  BY <1>3, <1>4, <1>5, <1>6
<1>8. PathChosen'
  BY <1>2, <1>3, <1>4, <1>5, <1>6
<1>9. OthersLeft' /\ Stage'
  BY <1>2, <1>3, <1>4, <1>5, <1>6
<1>10. GoalHolds'
  BY <1>2, <1>3, <1>4, <1>5, <1>6
<1> QED BY <1>7, <1>8, <1>9, <1>10 DEF FilesInv

LEMMA FilesGoOn ==
    ASSUME FilesInv, FilesNext, ~ChoosePath
    PROVE  FilesInv'
<1>1. ToolShape(Doing) /\ Doing' = Doing
  BY ShapeOfTools DEF FilesInv, FilesTypeOK, FilesNext, Doing, OpenOutput, WriteOutput, PublishFile, CopyOver,
     CopyFails,
     WroteInPlace, Fails, TidyUp, EndsHere, OthersPut, Same
<1> DEFINE d == Doing
<1>2. ToolShape(d) /\ Doing' = d /\ Doing = d
  BY <1>1
<1> HIDE DEF d
<1> USE <1>2 DEF FilesInv, FilesTypeOK, PathChosen, OthersLeft, Stage, GoalHolds, Chose, Refuses, ToolShape, LinksOut,
            FilePaths, Contents, Steps, Holds, Same, Proceeds
<1>3. CASE OpenOutput BY <1>3 DEF OpenOutput
<1>4. CASE WriteOutput BY <1>4 DEF WriteOutput
<1>5. CASE PublishFile
  <2>1. FilesTypeOK'
    BY <1>5 DEF PublishFile
  <2>2. PathChosen'
    BY <1>5 DEF PublishFile
  <2>3. OthersLeft'
    BY <1>5 DEF PublishFile
  <2>4. Stage'
    BY <1>5 DEF PublishFile
  <2>5. GoalHolds'
    BY <1>5 DEF PublishFile
  <2> QED BY <2>1, <2>2, <2>3, <2>4, <2>5
<1>6. CASE CopyOver BY <1>6 DEF CopyOver
<1>7. CASE CopyFails BY <1>7 DEF CopyFails
<1>8. CASE WroteInPlace BY <1>8 DEF WroteInPlace
<1>9. CASE Fails
  <2>1. FilesTypeOK'
    BY <1>9 DEF Fails
  <2>2. PathChosen'
    BY <1>9 DEF Fails
  <2>3. OthersLeft'
    BY <1>9 DEF Fails
  <2>4. Stage'
    BY <1>9 DEF Fails
  <2>5. GoalHolds'
    BY <1>9 DEF Fails
  <2> QED BY <2>1, <2>2, <2>3, <2>4, <2>5
<1>10. CASE TidyUp BY <1>10 DEF TidyUp
<1>11. CASE EndsHere BY <1>11 DEF EndsHere
<1>12. CASE \E p \in {"out", "out1"} : OthersPut(p)
  <2>0. PICK p \in {"out", "out1"} : OthersPut(p)
    BY <1>12
  <2>1. FilesTypeOK'
    BY <2>0 DEF OthersPut
  <2>2. PathChosen'
    BY <2>0 DEF OthersPut
  <2>3. OthersLeft'
    BY <2>0 DEF OthersPut
  <2>4. Stage'
    BY <2>0 DEF OthersPut
  <2>5. GoalHolds'
    BY <2>0 DEF OthersPut
  <2> QED BY <2>1, <2>2, <2>3, <2>4, <2>5
<1> QED BY <1>3, <1>4, <1>5, <1>6, <1>7, <1>8, <1>9, <1>10, <1>11, <1>12 DEF FilesNext

LEMMA FilesAreThere ==
    ASSUME FilesInv
    PROVE  FilesSurvive
<1>1. ToolShape(Doing)
  BY ShapeOfTools DEF FilesInv, FilesTypeOK
<1> DEFINE d == Doing
<1>2. ToolShape(d) /\ Doing = d
  BY <1>1
<1> HIDE DEF d
<1> USE <1>2 DEF FilesInv, FilesTypeOK, PathChosen, OthersLeft, Stage, GoalHolds, Chose, Refuses, ToolShape, LinksOut,
            FilePaths, Contents, Steps, Asked
<1>3. SourceStays
  BY DEF SourceStays
<1>4. TheirsStay
  BY DEF TheirsStay
<1>5. WholeOrOld
  BY DEF WholeOrOld
<1> QED BY <1>3, <1>4, <1>5 DEF FilesSurvive

\* Whatever the tool, its options and the file system, however many files others put into the
\* folder and wherever the process fails or ends: no source and no earlier file is lost to a tool
\* that was not told to overwrite it, a published file is whole, and what is told done is there.
THEOREM FilesStayWhole == FilesSpec => []FilesSurvive
<1>1. FilesInit => FilesInv
  BY FilesStart
<1>2. FilesInv /\ [FilesNext]_outputVars => FilesInv'
  <2> SUFFICES ASSUME FilesInv, [FilesNext]_outputVars PROVE FilesInv'
    OBVIOUS
  <2>1. CASE FilesNext
    BY <2>1, PathIsChosen, FilesGoOn
  <2>2. CASE UNCHANGED outputVars
    <3>1. Doing' = Doing
      BY <2>2 DEF outputVars, Doing
    <3> QED BY <2>2, <3>1 DEF outputVars, FilesInv, FilesTypeOK, PathChosen, OthersLeft, Stage, GoalHolds, Chose,
                              Refuses, LinksOut
  <2> QED BY <2>1, <2>2
<1>3. FilesInv => FilesSurvive
  BY FilesAreThere
<1> QED BY <1>1, <1>2, <1>3, PTL DEF FilesSpec

-----------------------------------------------------------------------------
(* Rules of replacement *)

Text == Seq(Symbols)

LEMMA OccursFacts ==
    ASSUME NEW text \in Text, NEW src
    PROVE  Occurs(text, src) \in Nat /\ (Occurs(text, src) = 0 <=> src \notin ToSet(text))
<1> DEFINE at == {i \in DOMAIN text : text[i] = src}
<1>1. IsFiniteSet(at)
  <2>1. DOMAIN text = 1..Len(text) /\ Len(text) \in Nat
    BY DEF Text
  <2>2. IsFiniteSet(1..Len(text)) /\ at \subseteq 1..Len(text)
    BY <2>1, FS_Interval
  <2> QED BY <2>2, FS_Subset
<1>2. Cardinality(at) \in Nat /\ (Cardinality(at) = 0 <=> at = {})
  BY <1>1, FS_CardinalityType, FS_EmptySet
<1>3. at = {} <=> src \notin ToSet(text)
  BY DEF ToSet
<1> QED BY <1>2, <1>3 DEF Occurs

\* a rule gives a text again
LEMMA ReplacedIsText ==
    ASSUME NEW text \in Text, NEW rule \in RuleForms
    PROVE  Replaced(text, rule) \in Text
<1> DEFINE ss == [i \in DOMAIN text |-> IF text[i] = rule.src THEN rule.dst ELSE <<text[i]>>]
<1>1. DOMAIN text = 1..Len(text) /\ Len(text) \in Nat /\ rule.dst \in Seq(Symbols)
  BY DEF Text, RuleForms
<1>2. \A i \in 1..Len(text) : <<text[i]>> \in Seq(Symbols)
  BY <1>1 DEF Text
<1>3. ss \in Seq(Seq(Symbols))
  BY <1>1, <1>2
<1> HIDE DEF ss
<1>4. FlattenSeq(ss) \in Seq(Symbols)
  BY <1>3, FlattenMembers
<1> QED BY <1>4 DEF ss, Replaced, Text

\* ... and leaves one alone that has nothing to replace
LEMMA NothingToReplace ==
    ASSUME NEW text \in Text, NEW rule, rule.src \notin ToSet(text)
    PROVE  Replaced(text, rule) = text
<1>1. \A i \in DOMAIN text : text[i] # rule.src
  BY DEF ToSet
<1>2. [i \in DOMAIN text |-> IF text[i] = rule.src THEN rule.dst ELSE <<text[i]>>] = [i \in DOMAIN text |-> <<text[i]>>]
  BY <1>1
<1>3. FlattenSeq([i \in DOMAIN text |-> <<text[i]>>]) = text
  BY FlattenSingles DEF Text
<1> QED BY <1>2, <1>3 DEF Replaced

LEMMA AfterRulesIs ==
    ASSUME NEW text \in Text, NEW rules \in Seq(RuleForms)
    PROVE  /\ AfterRules(text, rules, 0) = text
           /\ \A k \in 0..Len(rules) : AfterRules(text, rules, k) \in Text
           /\ \A k \in 1..Len(rules) :
                 AfterRules(text, rules, k) = IF rules[k].kind = "bad" THEN AfterRules(text, rules, k - 1)
                                              ELSE Replaced(AfterRules(text, rules, k - 1), rules[k])
<1> DEFINE n == Len(rules)
           V == [k \in 0..n |-> Text]
           G == [k \in 1..n |-> [s \in Text |-> IF rules[k].kind = "bad" THEN s ELSE Replaced(s, rules[k])]]
<1>1. n \in Nat /\ \A k \in 1..n : rules[k] \in RuleForms
  OBVIOUS
<1>2. \A k \in 0..n : V[k] = Text
  OBVIOUS
<1>3. \A k \in 1..n : \A s \in Text : G[k][s] = IF rules[k].kind = "bad" THEN s ELSE Replaced(s, rules[k])
  OBVIOUS
<1> HIDE DEF n, V, G
<1>4. StepsWithin(n, V, text, G)
  <2>1. \A k \in 1..n : k - 1 \in 0..n /\ k \in 0..n
    BY <1>1
  <2>2. \A k \in 1..n : \A s \in Text : G[k][s] \in Text
    BY <1>1, <1>3, ReplacedIsText
  <2>3. text \in V[0]
    BY <1>1, <1>2
  <2> QED BY <1>2, <2>1, <2>2, <2>3 DEF StepsWithin
<1>5. PICK f : f[0] = text /\ \A k \in 1..n : f[k] \in V[k] /\ f[k] = G[k][f[k - 1]]
  <2>1. HasRun(n, V, text, G)
    BY <1>1, <1>4, Recursion
  <2> QED BY <2>1 DEF HasRun
<1>6. \A k \in 0..n : f[k] \in Text
  <2> TAKE k \in 0..n
  <2>1. CASE k = 0
    BY <1>5, <2>1
  <2>2. CASE k # 0
    <3>1. k \in 1..n /\ f[k] \in V[k]
      BY <1>1, <1>5, <2>2
    <3> QED BY <1>2, <3>1
  <2> QED BY <2>1, <2>2
<1>7. \A k \in 1..n : f[k] = IF rules[k].kind = "bad" THEN f[k - 1] ELSE Replaced(f[k - 1], rules[k])
  <2> TAKE k \in 1..n
  <2>1. k - 1 \in 0..n /\ f[k - 1] \in Text
    BY <1>1, <1>6
  <2> QED BY <1>3, <1>5, <2>1
<1> DEFINE after[k \in 0..n] ==
               IF k = 0 THEN text ELSE IF rules[k].kind = "bad" THEN after[k - 1] ELSE Replaced(after[k - 1], rules[k])
           g == [k \in 0..n |-> f[k]]
<1>8. after = [k \in 0..n |-> IF k = 0 THEN text ELSE IF rules[k].kind = "bad" THEN after[k - 1]
                              ELSE Replaced(after[k - 1], rules[k])]
  <2>1. \A k \in 0..n : g[k] = IF k = 0 THEN text ELSE IF rules[k].kind = "bad" THEN g[k - 1] ELSE Replaced(g[k - 1], rules[k])
    <3> TAKE k \in 0..n
    <3>1. CASE k = 0
      BY <1>5, <3>1
    <3>2. CASE k # 0
      <4>1. k \in 1..n /\ k - 1 \in 0..n
        BY <1>1, <3>2
      <4> QED BY <1>7, <3>2, <4>1
    <3> QED BY <3>1, <3>2
  <2>2. g = [k \in 0..n |-> g[k]]
    OBVIOUS
  <2> HIDE DEF g
  <2>3. g = [k \in 0..n |-> IF k = 0 THEN text ELSE IF rules[k].kind = "bad" THEN g[k - 1] ELSE Replaced(g[k - 1], rules[k])]
    BY <2>1, <2>2
  <2> QED BY <2>3 DEF after
<1>9. \A k : AfterRules(text, rules, k) = after[k]
  BY DEF AfterRules, after, n
<1> HIDE DEF after, g
<1> DEFINE T == {k \in 0..n : after[k] = f[k]}
<1>10. 0 \in T
  BY <1>1, <1>5, <1>8
<1>11. ASSUME NEW k \in 1..n, k - 1 \in T PROVE k \in T
  <2>1. k \in 0..n /\ k # 0 /\ after[k - 1] = f[k - 1]
    BY <1>1, <1>11
  <2>2. after[k] = IF rules[k].kind = "bad" THEN after[k - 1] ELSE Replaced(after[k - 1], rules[k])
    BY <1>8, <2>1
  <2> QED BY <1>7, <2>1, <2>2
<1>12. \A k \in 0..n : k \in T
  <2> HIDE DEF T
  <2> QED BY <1>1, <1>10, <1>11, UpTo
<1>13. \A k \in 0..n : AfterRules(text, rules, k) = f[k]
  BY <1>9, <1>12
<1>14. \A k \in 1..n : k - 1 \in 0..n /\ k \in 0..n
  BY <1>1
<1>15. 0 \in 0..n
  BY <1>1
<1> QED BY <1>5, <1>6, <1>7, <1>13, <1>14, <1>15 DEF n

\* rules already applied in a group
Applied(g) == IF g < groupPos THEN rulePos ELSE rulePos - 1
RulesHold ==
    /\ original \in [Slots -> Text] /\ slots \in [Slots -> Text] /\ counts \in [Slots -> Nat]
    /\ ruleList \in Seq(RuleForms)
    /\ joined \in [DOMAIN SlotGroups -> Text \cup {Unjoined}]
    /\ groupPos \in DOMAIN SlotGroups /\ rulePos \in 1..(Len(ruleList) + 1)
    /\ groupPos # 1 => rulePos <= Len(ruleList) /\ ruleList[rulePos].kind # "bad"
    /\ \A g \in DOMAIN SlotGroups : \A s \in ToSet(SlotGroups[g]) : slots[s] = AfterRules(original[s], ruleList, Applied(g))
    /\ \A s \in Slots : counts[s] = 0 => slots[s] = original[s]
    /\ \A g \in DOMAIN SlotGroups : joined[g] = Unjoined \/ joined[g] = JoinOf(g)

LEMMA GroupFacts ==
    ASSUME NEW g \in DOMAIN SlotGroups
    PROVE  /\ SlotGroups[g] \in Seq(Nat) /\ ToSet(SlotGroups[g]) \subseteq Slots
           /\ \A i \in DOMAIN SlotGroups[g] : SlotGroups[g][i] \in ToSet(SlotGroups[g])
           /\ \A h \in DOMAIN SlotGroups : g # h => ToSet(SlotGroups[g]) \cap ToSet(SlotGroups[h]) = {}
<1>1. SlotGroups[g] \in Seq(Nat)
  BY RulesAssumption
<1>2. ToSet(SlotGroups[g]) \subseteq Slots
  BY Zenon DEF Slots
<1>3. \A i \in DOMAIN SlotGroups[g] : SlotGroups[g][i] \in ToSet(SlotGroups[g])
  BY <1>1 DEF ToSet
<1>4. \A h \in DOMAIN SlotGroups : g # h => ToSet(SlotGroups[g]) \cap ToSet(SlotGroups[h]) = {}
  BY RulesAssumption, Zenon
<1> QED BY <1>1, <1>2, <1>3, <1>4

\* the symbols of a group are those of its slots
LEMMA JoinOfFacts ==
    ASSUME NEW g \in DOMAIN SlotGroups, slots \in [Slots -> Text]
    PROVE  JoinOf(g) \in Text /\ \A c : c \in ToSet(JoinOf(g)) <=> \E s \in ToSet(SlotGroups[g]) : c \in ToSet(slots[s])
<1> DEFINE q == SlotGroups[g]
           ss == [i \in DOMAIN q |-> slots[q[i]]]
<1>1. q \in Seq(Nat) /\ \A i \in DOMAIN q : q[i] \in Slots
  BY GroupFacts
<1>2. DOMAIN q = 1..Len(q) /\ Len(q) \in Nat
  BY <1>1
<1>3. \A i \in DOMAIN q : ss[i] = slots[q[i]] /\ ss[i] \in Seq(Symbols)
  BY <1>1 DEF Text
<1>4. ss \in Seq(Seq(Symbols)) /\ Len(ss) = Len(q)
  BY <1>2, <1>3
<1>5. JoinOf(g) = FlattenSeq(ss)
  BY DEF JoinOf
<1>6. \A s : s \in ToSet(SlotGroups[g]) <=> \E i \in 1..Len(q) : s = q[i]
  BY <1>2 DEF ToSet
<1> HIDE DEF ss, q
<1>7. FlattenSeq(ss) \in Seq(Symbols) /\ \A c : c \in ToSet(FlattenSeq(ss)) <=> \E i \in 1..Len(ss) : c \in ToSet(ss[i])
  BY <1>4, FlattenMembers
<1>8. \A c : c \in ToSet(FlattenSeq(ss)) <=> \E i \in 1..Len(q) : c \in ToSet(slots[q[i]])
  BY <1>2, <1>3, <1>4, <1>7
<1> QED BY <1>5, <1>6, <1>7, <1>8 DEF Text

\* groups whose slots stay keep their text
LEMMA JoinOfStays ==
    ASSUME NEW g \in DOMAIN SlotGroups, \A s \in ToSet(SlotGroups[g]) : slots'[s] = slots[s]
    PROVE  JoinOf(g)' = JoinOf(g)
<1>1. [i \in DOMAIN SlotGroups[g] |-> slots'[SlotGroups[g][i]]] = [i \in DOMAIN SlotGroups[g] |-> slots[SlotGroups[g][i]]]
  BY GroupFacts
<1> QED BY <1>1 DEF JoinOf

\* where the loops go
LEMMA NextPlace ==
    ASSUME RulesHold, rulePos <= Len(ruleList), Rule.kind # "bad", NextGroup, UNCHANGED ruleList
    PROVE  /\ groupPos' \in DOMAIN SlotGroups /\ rulePos' \in 1..(Len(ruleList) + 1)
           /\ groupPos' # 1 => rulePos' <= Len(ruleList) /\ ruleList[rulePos'].kind # "bad"
           /\ Applied(groupPos) = rulePos - 1
           /\ \A g \in DOMAIN SlotGroups : Applied(g)' = IF g = groupPos THEN rulePos ELSE Applied(g)
<1>1. /\ groupPos \in DOMAIN SlotGroups /\ rulePos \in 1..(Len(ruleList) + 1) /\ Len(ruleList) \in Nat
      /\ DOMAIN SlotGroups = 1..Len(SlotGroups) /\ Len(SlotGroups) \in Nat
  BY RulesAssumption DEF RulesHold
<1>2. CASE groupPos < Len(SlotGroups)
  <2>1. groupPos' = groupPos + 1 /\ rulePos' = rulePos
    BY <1>2 DEF NextGroup
  <2>2. rulePos' <= Len(ruleList) /\ ruleList[rulePos'].kind # "bad"
    BY <2>1 DEF Rule
  <2>3. groupPos' \in DOMAIN SlotGroups
    BY <1>1, <1>2, <2>1
  <2>4. rulePos' \in 1..(Len(ruleList) + 1)
    BY <1>1, <2>1
  <2>5. \A g \in 1..Len(SlotGroups) : Applied(g)' = IF g = groupPos THEN rulePos ELSE Applied(g)
    BY <1>1, <2>1 DEF Applied
  <2>6. Applied(groupPos) = rulePos - 1
    BY <1>1 DEF Applied
  <2> QED BY <1>1, <2>2, <2>3, <2>4, <2>5, <2>6
<1>3. CASE ~(groupPos < Len(SlotGroups))
  <2>1. groupPos' = 1 /\ rulePos' = rulePos + 1 /\ groupPos = Len(SlotGroups)
    BY <1>1, <1>3 DEF NextGroup
  <2> QED BY <1>1, <2>1 DEF Applied
<1> QED BY <1>2, <1>3

\* a text one rule further
LEMMA OneMoreRule ==
    ASSUME RulesHold, rulePos <= Len(ruleList), NEW s \in Slots
    PROVE  AfterRules(original[s], ruleList, rulePos) =
               IF Rule.kind = "bad" THEN AfterRules(original[s], ruleList, rulePos - 1)
               ELSE Replaced(AfterRules(original[s], ruleList, rulePos - 1), Rule)
<1>1. original[s] \in Text /\ ruleList \in Seq(RuleForms) /\ rulePos \in 1..Len(ruleList)
  BY DEF RulesHold
<1> QED BY <1>1, AfterRulesIs DEF Rule

LEMMA KnownIs ==
    ASSUME RulesHold
    PROVE  Known = JoinOf(groupPos) /\ Known \in Text
<1>1. JoinOf(groupPos) \in Text /\ groupPos \in DOMAIN SlotGroups
  BY JoinOfFacts DEF RulesHold
<1> QED BY <1>1 DEF Known, RulesHold

LEMMA RulesSkip ==
    ASSUME RulesHold, SkipGroup
    PROVE  RulesHold'
<1>1. /\ rulePos <= Len(ruleList) /\ Rule.kind = "literal" /\ Occurs(Known, Rule.src) = 0
      /\ joined' = [joined EXCEPT ![groupPos] = Known] /\ NextGroup
      /\ UNCHANGED <<slots, original, ruleList, counts, badRules>>
  BY DEF SkipGroup
<1>2. Known = JoinOf(groupPos) /\ Known \in Text /\ groupPos \in DOMAIN SlotGroups
  BY KnownIs DEF RulesHold
<1>3. /\ groupPos' \in DOMAIN SlotGroups /\ rulePos' \in 1..(Len(ruleList) + 1)
      /\ groupPos' # 1 => rulePos' <= Len(ruleList) /\ ruleList[rulePos'].kind # "bad"
      /\ Applied(groupPos) = rulePos - 1
      /\ \A g \in DOMAIN SlotGroups : Applied(g)' = IF g = groupPos THEN rulePos ELSE Applied(g)
  BY <1>1, NextPlace
<1>4. \A s \in ToSet(SlotGroups[groupPos]) : Rule.src \notin ToSet(slots[s])
  <2>1. Rule.src \notin ToSet(JoinOf(groupPos))
    BY <1>1, <1>2, OccursFacts
  <2> QED BY <1>2, <2>1, JoinOfFacts DEF RulesHold
<1>5. \A g \in DOMAIN SlotGroups : JoinOf(g)' = JoinOf(g)
  BY <1>1, JoinOfStays
<1>6. ASSUME NEW g \in DOMAIN SlotGroups, NEW s \in ToSet(SlotGroups[g])
      PROVE  slots[s] = AfterRules(original[s], ruleList, Applied(g)')
  <2>0. s \in Slots /\ slots[s] \in Text
    BY GroupFacts DEF RulesHold
  <2>1. CASE g # groupPos
    BY <1>3, <2>1 DEF RulesHold
  <2>2. CASE g = groupPos
    <3>1. slots[s] = AfterRules(original[s], ruleList, rulePos - 1)
      BY <1>3, <2>2 DEF RulesHold
    <3>2. Replaced(slots[s], Rule) = slots[s]
      BY <1>4, <2>0, <2>2, NothingToReplace
    <3>3. AfterRules(original[s], ruleList, rulePos) = Replaced(AfterRules(original[s], ruleList, rulePos - 1), Rule)
      BY <1>1, <2>0, OneMoreRule
    <3> QED BY <1>3, <2>2, <3>1, <3>2, <3>3
  <2> QED BY <2>1, <2>2
<1>7. joined' \in [DOMAIN SlotGroups -> Text \cup {Unjoined}]
  BY <1>1, <1>2 DEF RulesHold
<1>8. \A g \in DOMAIN SlotGroups : joined'[g] = Unjoined \/ joined'[g] = JoinOf(g)'
  BY <1>1, <1>2, <1>5 DEF RulesHold
<1> QED BY <1>1, <1>3, <1>6, <1>7, <1>8 DEF RulesHold

LEMMA RulesApply ==
    ASSUME RulesHold, ApplyRule
    PROVE  RulesHold'
<1> DEFINE members == ToSet(SlotGroups[groupPos])
           hit == {s \in members : Occurs(slots[s], Rule.src) # 0}
<1>1. /\ rulePos <= Len(ruleList) /\ Rule.kind # "bad"
      /\ slots' = [s \in Slots |-> IF s \in hit THEN Replaced(slots[s], Rule) ELSE slots[s]]
      /\ counts' = [s \in Slots |-> IF s \in hit THEN counts[s] + Occurs(slots[s], Rule.src) ELSE counts[s]]
      /\ joined' = [joined EXCEPT ![groupPos] = Kept(hit # {})]
      /\ NextGroup /\ UNCHANGED <<original, ruleList, badRules>>
  BY DEF ApplyRule
<1>2. Known = JoinOf(groupPos) /\ Known \in Text /\ groupPos \in DOMAIN SlotGroups
  BY KnownIs DEF RulesHold
<1>3. /\ groupPos' \in DOMAIN SlotGroups /\ rulePos' \in 1..(Len(ruleList) + 1)
      /\ groupPos' # 1 => rulePos' <= Len(ruleList) /\ ruleList[rulePos'].kind # "bad"
      /\ Applied(groupPos) = rulePos - 1
      /\ \A g \in DOMAIN SlotGroups : Applied(g)' = IF g = groupPos THEN rulePos ELSE Applied(g)
  BY <1>1, NextPlace
<1>4. members \subseteq Slots /\ \A g \in DOMAIN SlotGroups \ {groupPos} : members \cap ToSet(SlotGroups[g]) = {}
  BY <1>2, GroupFacts
<1>5. hit \subseteq members /\ \A s \in members \ hit : Occurs(slots[s], Rule.src) = 0
  OBVIOUS
<1> HIDE DEF hit
<1>6. Rule \in RuleForms
  BY <1>1 DEF Rule, RulesHold
<1>7. slots' \in [Slots -> Text]
  BY <1>1, <1>6, ReplacedIsText DEF RulesHold
<1>8. counts' \in [Slots -> Nat]
  <2>1. \A s \in Slots : counts[s] + Occurs(slots[s], Rule.src) \in Nat
    <3> TAKE s \in Slots
    <3>1. slots[s] \in Text /\ counts[s] \in Nat
      BY DEF RulesHold
    <3>2. Occurs(slots[s], Rule.src) \in Nat
      BY <3>1, OccursFacts
    <3> QED BY <3>1, <3>2
  <2> QED BY <1>1, <2>1 DEF RulesHold
<1>9. \A s \in members : slots'[s] = Replaced(slots[s], Rule)
  <2> TAKE s \in members
  <2>1. s \in Slots /\ slots[s] \in Text
    BY <1>4 DEF RulesHold
  <2>2. s \notin hit => Replaced(slots[s], Rule) = slots[s]
    BY <1>5, <2>1, OccursFacts, NothingToReplace
  <2> QED BY <1>1, <2>1, <2>2
<1>10. \A s \in Slots \ hit : slots'[s] = slots[s]
  BY <1>1
<1>11. ASSUME NEW g \in DOMAIN SlotGroups, NEW s \in ToSet(SlotGroups[g])
       PROVE  slots'[s] = AfterRules(original[s], ruleList, Applied(g)')
  <2>0. s \in Slots
    BY GroupFacts
  <2>1. CASE g # groupPos
    <3>1. s \notin hit
      BY <1>4, <1>5, <2>1
    <3> QED BY <1>3, <1>10, <2>0, <2>1, <3>1 DEF RulesHold
  <2>2. CASE g = groupPos
    <3>1. slots[s] = AfterRules(original[s], ruleList, rulePos - 1)
      BY <1>3, <2>2 DEF RulesHold
    <3>2. slots'[s] = Replaced(slots[s], Rule)
      BY <1>9, <2>2
    <3>3. AfterRules(original[s], ruleList, rulePos) = Replaced(AfterRules(original[s], ruleList, rulePos - 1), Rule)
      BY <1>1, <2>0, OneMoreRule
    <3> QED BY <1>3, <2>2, <3>1, <3>2, <3>3
  <2> QED BY <2>1, <2>2
<1>12. \A s \in Slots : counts'[s] = 0 => slots'[s] = original[s]
  <2> SUFFICES ASSUME NEW s \in Slots, counts'[s] = 0 PROVE slots'[s] = original[s]
    OBVIOUS
  <2>1. s \notin hit
    <3> SUFFICES ASSUME s \in hit PROVE FALSE
      OBVIOUS
    <3>1. slots[s] \in Text /\ counts[s] \in Nat /\ counts[s] + Occurs(slots[s], Rule.src) = 0
      BY <1>1 DEF RulesHold
    <3>2. Occurs(slots[s], Rule.src) \in Nat /\ Occurs(slots[s], Rule.src) # 0
      BY <3>1, OccursFacts DEF hit
    <3> QED BY <3>1, <3>2
  <2> QED BY <1>1, <1>10, <2>1 DEF RulesHold
<1>13. \A g \in DOMAIN SlotGroups \ {groupPos} : JoinOf(g)' = JoinOf(g)
  <2> TAKE g \in DOMAIN SlotGroups \ {groupPos}
  <2>1. \A s \in ToSet(SlotGroups[g]) : s \in Slots /\ s \notin hit
    BY <1>4, <1>5, GroupFacts
  <2> QED BY <1>10, <2>1, JoinOfStays
<1>14. ASSUME hit = {}, NEW g \in DOMAIN SlotGroups PROVE JoinOf(g)' = JoinOf(g)
  <2>1. \A s \in ToSet(SlotGroups[g]) : s \in Slots /\ s \notin hit
    BY <1>14, GroupFacts
  <2> QED BY <1>10, <2>1, JoinOfStays
<1>15. /\ Kept(hit # {}) \in Text \cup {Unjoined}
       /\ Kept(hit # {}) = Unjoined \/ (hit = {} /\ Kept(hit # {}) = JoinOf(groupPos))
  <2>1. CASE hit # {}
    BY <2>1 DEF Kept
  <2>2. CASE hit = {}
    BY <1>2, <2>2 DEF Kept, RulesHold
  <2> QED BY <2>1, <2>2
<1>16. joined' \in [DOMAIN SlotGroups -> Text \cup {Unjoined}]
  BY <1>1, <1>2, <1>15 DEF RulesHold
<1>17. \A g \in DOMAIN SlotGroups : joined'[g] = Unjoined \/ joined'[g] = JoinOf(g)'
  <2> TAKE g \in DOMAIN SlotGroups
  <2>1. CASE g = groupPos
    BY <1>1, <1>2, <1>14, <1>15, <2>1 DEF RulesHold
  <2>2. CASE g # groupPos
    BY <1>1, <1>13, <2>2 DEF RulesHold
  <2> QED BY <2>1, <2>2
<1> QED BY <1>1, <1>3, <1>7, <1>8, <1>11, <1>12, <1>16, <1>17 DEF RulesHold

LEMMA RulesBad ==
    ASSUME RulesHold, BadRule
    PROVE  RulesHold'
<1>1. /\ rulePos <= Len(ruleList) /\ Rule.kind = "bad" /\ rulePos' = rulePos + 1 /\ groupPos' = 1
      /\ UNCHANGED <<slots, original, ruleList, joined, counts>>
  BY DEF BadRule
<1>2. /\ groupPos = 1 /\ rulePos \in 1..Len(ruleList) /\ Len(ruleList) \in Nat
      /\ DOMAIN SlotGroups = 1..Len(SlotGroups) /\ Len(SlotGroups) \in Nat
  BY <1>1, RulesAssumption DEF RulesHold, Rule
<1>3. \A g \in DOMAIN SlotGroups : Applied(g) = rulePos - 1 /\ Applied(g)' = rulePos
  BY <1>1, <1>2 DEF Applied
<1>4. \A g \in DOMAIN SlotGroups : \A s \in ToSet(SlotGroups[g]) : slots[s] = AfterRules(original[s], ruleList, rulePos)
  <2> TAKE g \in DOMAIN SlotGroups
  <2> TAKE s \in ToSet(SlotGroups[g])
  <2>1. s \in Slots
    BY GroupFacts
  <2> QED BY <1>1, <1>3, <2>1, OneMoreRule DEF RulesHold
<1>5. \A g \in DOMAIN SlotGroups : JoinOf(g)' = JoinOf(g)
  BY <1>1, JoinOfStays
<1>6. rulePos' \in 1..(Len(ruleList) + 1) /\ groupPos' \in DOMAIN SlotGroups
  BY <1>1, <1>2 DEF RulesHold
<1> QED BY <1>1, <1>3, <1>4, <1>5, <1>6 DEF RulesHold

LEMMA RulesStart ==
    ASSUME RulesInit, SlotGroups # <<>>
    PROVE  RulesHold
<1>1. /\ original \in [Slots -> SlotTexts] /\ slots = original /\ ruleList \in RuleLists
      /\ joined = [g \in DOMAIN SlotGroups |-> Unjoined]
      /\ rulePos = 1 /\ groupPos = 1 /\ counts = [s \in Slots |-> 0]
  BY DEF RulesInit
<1>2. original \in [Slots -> Text] /\ ruleList \in Seq(RuleForms)
  BY <1>1, RulesAssumption DEF Text
<1>3. 1 \in DOMAIN SlotGroups /\ DOMAIN SlotGroups = 1..Len(SlotGroups) /\ Len(SlotGroups) \in Nat
  BY RulesAssumption
<1>4. rulePos \in 1..(Len(ruleList) + 1)
  BY <1>1, <1>2
<1>5. \A g \in DOMAIN SlotGroups : Applied(g) = 0
  BY <1>1, <1>3 DEF Applied
<1>6. \A g \in DOMAIN SlotGroups : \A s \in ToSet(SlotGroups[g]) : slots[s] = AfterRules(original[s], ruleList, Applied(g))
  <2> TAKE g \in DOMAIN SlotGroups
  <2> TAKE s \in ToSet(SlotGroups[g])
  <2>1. s \in Slots /\ original[s] \in Text
    BY <1>2, GroupFacts
  <2> QED BY <1>1, <1>2, <1>5, <2>1, AfterRulesIs
<1>7. joined \in [DOMAIN SlotGroups -> Text \cup {Unjoined}] /\ counts \in [Slots -> Nat]
  BY <1>1
<1> QED BY <1>1, <1>2, <1>3, <1>4, <1>6, <1>7 DEF RulesHold

\* Every slot ends as if each rule had been applied to the whole of it, in order
\* (_apply_rules_to_slots), however the slots are grouped and whatever groups are left out
THEOREM RulesActInOrder == RulesSpec => []RulesChain
<1>1. CASE SlotGroups = <<>>
  <2>1. Slots = {}
    BY <1>1 DEF Slots
  <2>2. RulesChain
    BY <2>1 DEF RulesChain
  <2>3. []RulesChain
    BY <2>2, PTL
  <2> QED BY <2>3
<1>2. CASE SlotGroups # <<>>
  <2>1. RulesInit => RulesHold
    BY <1>2, RulesStart
  <2>2. RulesHold /\ [RulesNext]_ruleVars => RulesHold'
    <3>1. RulesHold /\ RulesNext => RulesHold'
      BY RulesSkip, RulesApply, RulesBad DEF RulesNext
    <3>2. RulesHold /\ UNCHANGED ruleVars => RulesHold'
      BY DEF RulesHold, ruleVars, Applied, JoinOf
    <3> QED BY <3>1, <3>2
  <2>3. RulesHold => RulesChain
    <3> SUFFICES ASSUME RulesHold, rulePos > Len(ruleList), NEW s \in Slots
                 PROVE  WrittenSlot(s) = AfterRules(original[s], ruleList, Len(ruleList))
      BY DEF RulesChain
    <3>1. PICK g \in DOMAIN SlotGroups : s \in ToSet(SlotGroups[g])
      BY DEF Slots
    <3>2. groupPos = 1 /\ rulePos = Len(ruleList) + 1 /\ Len(ruleList) \in Nat /\ g \in 1..Len(SlotGroups)
      BY <3>1, RulesAssumption DEF RulesHold
    <3>3. Applied(g) = Len(ruleList)
      BY <3>2 DEF Applied
    <3>4. slots[s] = AfterRules(original[s], ruleList, Len(ruleList))
      BY <3>1, <3>3 DEF RulesHold
    <3>5. counts[s] \in Nat
      BY DEF RulesHold
    <3> QED BY <3>4, <3>5 DEF WrittenSlot, RulesHold
  <2> QED BY <2>1, <2>2, <2>3, PTL DEF RulesSpec
<1> QED BY <1>1, <1>2

-----------------------------------------------------------------------------
(* Chapters of a text *)

EntryForm == [line : Nat \ {0}, level : 1..3, on : BOOLEAN]
ByLine(seq) == \A i, j \in DOMAIN seq : i < j => seq[i].line < seq[j].line
OnText(seq) == \A k \in DOMAIN seq : seq[k].line \in WithText

LEMMA TextFacts ==
    ASSUME txt \in Texts
    PROVE  Len(txt) \in Nat /\ DOMAIN txt = 1..Len(txt) /\ WithText \subseteq 1..Len(txt)
<1>1. txt \in Seq(ToSet(txt))
  BY TextsAssumption
<1> HIDE DEF ToSet
<1>2. Len(txt) \in Nat /\ DOMAIN txt = 1..Len(txt)
  BY <1>1
<1> QED BY <1>2 DEF WithText

\* a list fits if its lines rise and have text
LEMMA FitsIs ==
    ASSUME txt \in Texts, NEW seq, seq = toc, toc \in Seq(EntryForm)
    PROVE  TocFits <=> ByLine(seq) /\ OnText(seq)
<1>1. Len(txt) \in Nat /\ DOMAIN txt = 1..Len(txt)
  BY TextFacts
<1>a. DOMAIN toc = 1..Len(toc) /\ Len(toc) \in Nat /\ \A k \in 1..Len(toc) : toc[k] \in EntryForm
  OBVIOUS
<1>2. DOMAIN toc = 1..Len(toc) /\ Len(toc) \in Nat /\ \A k \in 1..Len(toc) : toc[k].line \in Nat \ {0}
  BY <1>a DEF EntryForm
<1>3. (\A k \in DOMAIN toc : toc[k].line <= Len(txt) /\ ~Blank(toc[k].line)) <=> OnText(toc)
  BY <1>1, <1>2 DEF OnText, WithText
<1>4. (\A k \in 1..Len(toc) - 1 : toc[k].line < toc[k + 1].line) <=> ByLine(toc)
  <2> DEFINE f == [k \in 1..Len(toc) |-> toc[k].line]
  <2>1. \A k \in 1..Len(toc) : f[k] = toc[k].line /\ f[k] \in Nat
    BY <1>2
  <2>2. \A k \in 1..(Len(toc) - 1) : k \in 1..Len(toc) /\ k + 1 \in 1..Len(toc) /\ k < k + 1
    BY <1>2
  <2> HIDE DEF f
  <2>3. ASSUME \A k \in 1..Len(toc) - 1 : toc[k].line < toc[k + 1].line PROVE ByLine(toc)
    <3>1. \A k \in 1..Len(toc) : f[k] \in Nat
      BY <2>1
    <3>2. \A k \in 1..(Len(toc) - 1) : f[k] < f[k + 1]
      BY <2>1, <2>2, <2>3
    <3>3. \A i, j \in 1..Len(toc) : i < j => f[i] < f[j]
      BY <1>2, <3>1, <3>2, StepsAscend
    <3> QED BY <1>2, <2>1, <3>3 DEF ByLine
  <2>4. ASSUME ByLine(toc) PROVE \A k \in 1..Len(toc) - 1 : toc[k].line < toc[k + 1].line
    BY <1>2, <2>2, <2>4 DEF ByLine
  <2> QED BY <2>3, <2>4
<1> QED BY <1>3, <1>4 DEF TocFits

LEMMA PickedByLine ==
    ASSUME NEW list \in Seq(EntryForm), NEW places
    PROVE  /\ Picked(list, places) \in Seq(EntryForm) /\ ToSet(Picked(list, places)) = {list[i] : i \in places \cap DOMAIN list}
           /\ ByLine(list) => ByLine(Picked(list, places))
<1> DEFINE at == InOrder(places, Len(list))
           r == Picked(list, places)
<1>1. at = InOrder(places, Len(list)) /\ r = Picked(list, places) /\ DOMAIN list = 1..Len(list)
  OBVIOUS
<1> HIDE DEF at, r
<1>2. /\ at \in Seq(1..Len(list)) /\ Ascends(at) /\ ToSet(at) = places \cap (1..Len(list))
      /\ r \in Seq(EntryForm) /\ Len(r) = Len(at)
      /\ \A k \in 1..Len(at) : r[k] = list[at[k]] /\ at[k] \in places \cap (1..Len(list))
      /\ ToSet(r) = {list[i] : i \in places \cap (1..Len(list))}
  BY <1>1, PickedFacts
<1>3. DOMAIN r = 1..Len(at) /\ DOMAIN at = 1..Len(at)
  BY <1>2
<1>4. ByLine(list) => ByLine(r)
  <2> SUFFICES ASSUME ByLine(list), NEW i \in 1..Len(at), NEW j \in 1..Len(at), i < j PROVE r[i].line < r[j].line
    BY <1>3 DEF ByLine
  <2>1. at[i] < at[j] /\ at[i] \in DOMAIN list /\ at[j] \in DOMAIN list
    BY <1>1, <1>2, <1>3 DEF Ascends
  <2> QED BY <1>2, <2>1 DEF ByLine
<1> QED BY <1>1, <1>2, <1>4

LEMMA ConcatByLine ==
    ASSUME NEW a \in Seq(EntryForm), NEW b \in Seq(EntryForm), ByLine(a), ByLine(b),
           \A x \in ToSet(a), y \in ToSet(b) : x.line < y.line
    PROVE  ByLine(a \o b)
<1> DEFINE r == a \o b
<1>1. /\ DOMAIN r = 1..(Len(a) + Len(b)) /\ Len(a) \in Nat /\ Len(b) \in Nat
      /\ DOMAIN a = 1..Len(a) /\ DOMAIN b = 1..Len(b)
  OBVIOUS
<1>2. \A i \in DOMAIN r : IF i <= Len(a) THEN r[i] = a[i] /\ i \in DOMAIN a
                          ELSE r[i] = b[i - Len(a)] /\ i - Len(a) \in DOMAIN b
  BY <1>1
<1> HIDE DEF r
<1>3. ASSUME NEW i \in DOMAIN r, NEW j \in DOMAIN r, i < j PROVE r[i].line < r[j].line
  <2>1. CASE j <= Len(a)
    BY <1>1, <1>2, <1>3, <2>1 DEF ByLine
  <2>2. CASE i <= Len(a) /\ ~(j <= Len(a))
    <3>1. r[i] \in ToSet(a) /\ r[j] \in ToSet(b)
      BY <1>2, <2>2 DEF ToSet
    <3> QED BY <3>1
  <2>3. CASE ~(i <= Len(a))
    <3>1. ~(j <= Len(a)) /\ i - Len(a) < j - Len(a)
      BY <1>1, <1>3, <2>3
    <3>2. r[i] = b[i - Len(a)] /\ r[j] = b[j - Len(a)] /\ i - Len(a) \in DOMAIN b /\ j - Len(a) \in DOMAIN b
      BY <1>2, <2>3, <3>1
    <3> QED BY <3>1, <3>2 DEF ByLine
  <2> QED BY <1>1, <2>1, <2>2, <2>3
<1> QED BY <1>3 DEF ByLine, r

TocHolds ==
    /\ txt \in Texts /\ toc \in Seq(EntryForm)
    /\ ~rewritten => TocFits
    /\ outcome = "converted" => TocFits /\ chapters = BuildChapters

\* what the chapters are made from
LEMMA SameText ==
    ASSUME UNCHANGED <<txt, toc>>
    PROVE  TocFits' = TocFits /\ BuildChapters' = BuildChapters
BY DEF TocFits, BuildChapters, OneChapter, BeforeFirst, Cut, Chapter, WithText, Blank

\* a list whose lines rise and have text fits
LEMMA NowFits ==
    ASSUME txt \in Texts, UNCHANGED txt, toc' \in Seq(EntryForm), ByLine(toc'), OnText(toc')
    PROVE  TocFits'
<1>1. Len(txt) \in Nat /\ DOMAIN txt = 1..Len(txt)
  BY TextFacts
<1> DEFINE seq == toc'
<1>2. seq \in Seq(EntryForm) /\ ByLine(seq) /\ \A k \in DOMAIN seq : seq[k].line \in WithText
  BY DEF OnText, WithText, Blank
<1>3. DOMAIN seq = 1..Len(seq) /\ Len(seq) \in Nat
  BY <1>2
<1>4. \A k \in DOMAIN seq : seq[k].line <= Len(txt) /\ ~Blank(seq[k].line)
  BY <1>1, <1>2 DEF WithText
<1>5. \A k \in 1..Len(seq) - 1 : seq[k].line < seq[k + 1].line
  BY <1>2, <1>3 DEF ByLine
<1> QED BY <1>4, <1>5 DEF TocFits, Blank

LEMMA TocScan ==
    ASSUME TocHolds, NEW rules, ScanToc(rules)
    PROVE  TocHolds'
<1> DEFINE S == {n \in DOMAIN txt : LevelOf(n, rules) # 0}
           found == InOrder(S, Len(txt))
<1>1. /\ outcome = "none" /\ UNCHANGED <<txt, rewritten, chapters, outcome>>
      /\ toc' = [k \in DOMAIN found |-> Entry(found[k], LevelOf(found[k], rules))]
  BY DEF ScanToc
<1>2. txt \in Texts /\ Len(txt) \in Nat /\ DOMAIN txt = 1..Len(txt)
  BY TextFacts DEF TocHolds
<1>3. \A n \in S : n \in WithText /\ LevelOf(n, rules) \in 1..2
  BY DEF LevelOf, WithText, Blank
<1>4. S \subseteq 1..Len(txt)
  BY <1>2
<1> HIDE DEF S
<1>5. found \in Seq(1..Len(txt)) /\ Ascends(found) /\ ToSet(found) = S
  <2>1. S \cap (1..Len(txt)) = S /\ found = InOrder(S, Len(txt))
    BY <1>4
  <2> HIDE DEF found
  <2> QED BY <1>2, <2>1, InOrderFacts
<1> HIDE DEF found
<1>6. DOMAIN found = 1..Len(found) /\ Len(found) \in Nat /\ \A k \in DOMAIN found : found[k] \in S /\ found[k] \in Nat \ {0}
  BY <1>5 DEF ToSet
<1>7. \A k \in DOMAIN found : toc'[k].line = found[k] /\ toc'[k] \in EntryForm
  BY <1>1, <1>3, <1>6 DEF Entry, EntryForm
<1>8. DOMAIN toc' = 1..Len(found)
  BY <1>1, <1>6
<1>9. toc' \in Seq(EntryForm)
  BY <1>1, <1>6, <1>7
<1>10. ByLine(toc')
  BY <1>5, <1>6, <1>7, <1>8 DEF ByLine, Ascends
<1>11. OnText(toc')
  BY <1>3, <1>6, <1>7, <1>8 DEF OnText
<1>12. TocFits'
  BY <1>1, <1>2, <1>9, <1>10, <1>11, NowFits
<1> QED BY <1>1, <1>2, <1>9, <1>12 DEF TocHolds

\* the line found is a line of text that the list does not have
LEMMA LocatedFacts ==
    ASSUME TocHolds, NEW query, Located(query) # <<>>
    PROVE  Located(query)[1] \in WithText /\ ~InToc(Located(query)[1]) /\ Located(query)[1] \in Nat \ {0}
<1> DEFINE unused == {n \in WithText : ~InToc(n)}
           exact  == {n \in unused : txt[n].word = query}
           within == {n \in unused : <<query, txt[n].word>> \in Within}
           s == InOrder(exact, Len(txt))
           t == InOrder(within, Len(txt))
<1>1. Len(txt) \in Nat /\ DOMAIN txt = 1..Len(txt) /\ WithText \subseteq 1..Len(txt)
  BY TextFacts DEF TocHolds
<1>2. exact \subseteq unused /\ within \subseteq unused /\ Located(query) = s \o t
  BY DEF Located
<1> HIDE DEF exact, within
<1>3. s \in Seq(1..Len(txt)) /\ ToSet(s) \subseteq exact /\ t \in Seq(1..Len(txt)) /\ ToSet(t) \subseteq within
  BY <1>1, InOrderFacts
<1> HIDE DEF s, t
<1>4. s \o t \in Seq(1..Len(txt)) /\ ToSet(s \o t) \subseteq unused
  BY <1>2, <1>3, ConcatMembers
<1> DEFINE r == s \o t
<1> HIDE DEF r
<1>5. r \in Seq(1..Len(txt)) /\ ToSet(r) \subseteq unused /\ r # <<>> /\ r = Located(query)
  BY <1>2, <1>4 DEF r
<1>6. 1 \in DOMAIN r
  BY <1>5
<1>7. r[1] \in unused
  BY <1>5, <1>6 DEF ToSet
<1> QED BY <1>1, <1>5, <1>7

LEMMA TocLocate ==
    ASSUME TocHolds, NEW query, NEW level \in 1..2, LocateEntry(query, level)
    PROVE  TocHolds'
<1> DEFINE new == Entry(Located(query)[1], level)
           below == {k \in DOMAIN toc : toc[k].line < new.line}
           over == {k \in DOMAIN toc : toc[k].line > new.line}
           a == Picked(toc, below)
           b == Picked(toc, over)
<1>1. /\ outcome = "none" /\ UNCHANGED <<txt, rewritten, chapters, outcome>> /\ Located(query) # <<>>
      /\ toc' = a \o <<new>> \o b
  BY DEF LocateEntry
<1>2. new \in EntryForm /\ new.line \in WithText
  BY <1>1, LocatedFacts DEF Entry, EntryForm
<1>3. toc \in Seq(EntryForm) /\ below \subseteq DOMAIN toc /\ over \subseteq DOMAIN toc /\ txt \in Texts
  BY DEF TocHolds
<1>4. /\ \A k \in below : toc[k].line < new.line
      /\ \A k \in over : toc[k].line > new.line
  OBVIOUS
<1> HIDE DEF below, over, new
<1>5. a \in Seq(EntryForm) /\ ToSet(a) = {toc[i] : i \in below \cap DOMAIN toc} /\ (ByLine(toc) => ByLine(a))
  BY <1>3, PickedByLine
<1>6. b \in Seq(EntryForm) /\ ToSet(b) = {toc[i] : i \in over \cap DOMAIN toc} /\ (ByLine(toc) => ByLine(b))
  BY <1>3, PickedByLine
<1> HIDE DEF a, b
<1>7. <<new>> \in Seq(EntryForm) /\ ToSet(<<new>>) = {new} /\ ByLine(<<new>>)
  <2>1. <<new>> \in Seq(EntryForm)
    BY <1>2
  <2> QED BY <2>1 DEF ToSet, ByLine
<1> DEFINE one == <<new>>
           c == a \o one
<1>8. one \in Seq(EntryForm) /\ ToSet(one) = {new} /\ ByLine(one) /\ toc' = c \o b
  BY <1>1, <1>7
<1> HIDE DEF one
<1>9. c \in Seq(EntryForm) /\ ToSet(c) = ToSet(a) \cup {new}
  BY <1>5, <1>8, ConcatMembers
<1>10. ByLine(toc) => ByLine(c)
  <2> HAVE ByLine(toc)
  <2>1. \A x \in ToSet(a), y \in ToSet(one) : x.line < y.line
    BY <1>4, <1>5, <1>8
  <2> QED BY <1>5, <1>8, <2>1, ConcatByLine
<1> HIDE DEF c
<1>11. c \o b \in Seq(EntryForm) /\ ToSet(c \o b) = ToSet(c) \cup ToSet(b)
  BY <1>6, <1>9, ConcatMembers
<1>12. ByLine(toc) => ByLine(c \o b)
  <2> HAVE ByLine(toc)
  <2>1. \A x \in ToSet(a) \cup {new}, y \in ToSet(b) : x.line < y.line
    <3>0. new.line \in Nat /\ \A i \in DOMAIN toc : toc[i].line \in Nat
      <4>1. \A i \in DOMAIN toc : toc[i] \in EntryForm
        BY <1>3
      <4> QED BY <1>2, <4>1 DEF EntryForm
    <3>1. \A y \in ToSet(b) : new.line < y.line /\ y.line \in Nat
      <4> TAKE y \in ToSet(b)
      <4>1. PICK i \in over : y = toc[i] /\ i \in DOMAIN toc
        BY <1>6
      <4> QED BY <1>4, <3>0, <4>1
    <3>2. \A x \in ToSet(a) : x.line < new.line /\ x.line \in Nat /\ new.line \in Nat
      <4> TAKE x \in ToSet(a)
      <4>1. PICK i \in below : x = toc[i] /\ i \in DOMAIN toc
        BY <1>5
      <4> QED BY <1>4, <3>0, <4>1
    <3> QED BY <3>1, <3>2
  <2> QED BY <1>6, <1>9, <1>10, <2>1, ConcatByLine
<1>13. TocFits => TocFits'
  <2> HAVE TocFits
  <2>1. ByLine(toc) /\ OnText(toc)
    BY <1>3, FitsIs
  <2>2. OnText(toc')
    <3>1. \A x \in ToSet(toc') : x.line \in WithText
      BY <1>2, <1>5, <1>6, <1>8, <1>9, <1>11, <2>1 DEF OnText
    <3> QED BY <3>1 DEF OnText, ToSet
  <2> QED BY <1>1, <1>3, <1>8, <1>11, <1>12, <2>1, <2>2, NowFits
<1> QED BY <1>1, <1>3, <1>8, <1>11, <1>13 DEF TocHolds

LEMMA TocEdit ==
    ASSUME TocHolds, NEW k \in DOMAIN toc, EditEntry(k)
    PROVE  TocHolds'
<1>1. outcome = "none" /\ UNCHANGED <<txt, rewritten, chapters, outcome>>
  BY DEF EditEntry
<1>2. toc \in Seq(EntryForm) /\ txt \in Texts /\ DOMAIN toc = 1..Len(toc) /\ Len(toc) \in Nat
  BY DEF TocHolds
<1>3. /\ toc' \in Seq(EntryForm)
      /\ TocFits => ByLine(toc') /\ OnText(toc')
  <2>0. TocFits => ByLine(toc) /\ OnText(toc)
    BY <1>2, FitsIs
  <2>1. ASSUME NEW e \in EntryForm, e.line = toc[k].line, toc' = [toc EXCEPT ![k] = e]
        PROVE  toc' \in Seq(EntryForm) /\ (TocFits => ByLine(toc') /\ OnText(toc'))
    <3>1. toc' \in Seq(EntryForm) /\ DOMAIN toc' = DOMAIN toc
      BY <1>2, <2>1
    <3>2. \A i \in DOMAIN toc : toc'[i].line = toc[i].line
      BY <1>2, <2>1
    <3> QED BY <2>0, <3>1, <3>2 DEF ByLine, OnText
  <2>2. CASE toc' = [toc EXCEPT ![k].on = ~@]
    <3> DEFINE e == [toc[k] EXCEPT !.on = ~@]
    <3>1. toc[k] \in EntryForm
      BY <1>2
    <3>2. e \in EntryForm /\ e.line = toc[k].line
      BY <3>1 DEF EntryForm
    <3>3. toc' = [toc EXCEPT ![k] = e]
      BY <2>2
    <3> HIDE DEF e
    <3> QED BY <2>1, <3>2, <3>3
  <2>3. CASE \E l \in 1..3 : toc' = [toc EXCEPT ![k].level = l]
    <3>0. PICK l \in 1..3 : toc' = [toc EXCEPT ![k].level = l]
      BY <2>3
    <3> DEFINE e == [toc[k] EXCEPT !.level = l]
    <3>1. toc[k] \in EntryForm
      BY <1>2
    <3>2. e \in EntryForm /\ e.line = toc[k].line
      BY <3>1 DEF EntryForm
    <3>3. toc' = [toc EXCEPT ![k] = e]
      BY <3>0
    <3> HIDE DEF e
    <3> QED BY <2>1, <3>2, <3>3
  <2>4. CASE toc' = RemoveAt(toc, k)
    <3> DEFINE r == RemoveAt(toc, k)
    <3>1. r = RemoveAt(toc, k) /\ k \in 1..Len(toc)
      BY <1>2
    <3> HIDE DEF r
    <3>2. r \in Seq(EntryForm) /\ Len(r) = Len(toc) - 1 /\ \A i \in 1..Len(r) : r[i] = IF i < k THEN toc[i] ELSE toc[i + 1]
      BY <1>2, <3>1, OneLess, ZenonT(40)
    <3>3. DOMAIN r = 1..(Len(toc) - 1)
      BY <3>2
    <3> DEFINE at(i) == IF i < k THEN i ELSE i + 1
    <3>4. \A i \in DOMAIN r : at(i) \in DOMAIN toc /\ r[i] = toc[at(i)]
      BY <1>2, <3>2, <3>3
    <3>5. \A i, j \in DOMAIN r : i < j => at(i) < at(j)
      BY <3>1, <3>3
    <3> HIDE DEF at
    <3>6. TocFits => ByLine(r) /\ OnText(r)
      BY <2>0, <3>4, <3>5 DEF ByLine, OnText
    <3> QED BY <2>4, <3>1, <3>2, <3>6
  <2> QED BY <2>2, <2>3, <2>4 DEF EditEntry
<1>4. TocFits => TocFits'
  BY <1>1, <1>2, <1>3, NowFits
<1> QED BY <1>1, <1>2, <1>3, <1>4 DEF TocHolds

LEMMA TocKept ==
    ASSUME TocHolds, TxtNext
    PROVE  TocHolds'
<1>1. CASE TextChanges
  BY <1>1 DEF TocHolds, TextChanges
<1>2. CASE ConvertText
  <2>1. UNCHANGED <<txt, rewritten, toc>> /\ TocFits' = TocFits /\ BuildChapters' = BuildChapters
    BY <1>2, SameText DEF ConvertText
  <2>2. outcome' = "converted" => TocFits /\ chapters' = BuildChapters
    BY <1>2 DEF ConvertText
  <2> QED BY <2>1, <2>2 DEF TocHolds
<1> QED BY <1>1, <1>2, TocScan, TocLocate, TocEdit DEF TxtNext

LEMMA TocStart ==
    ASSUME TxtInit
    PROVE  TocHolds
<1>1. txt \in Texts /\ toc = <<>> /\ outcome = "none" /\ rewritten = FALSE
  BY DEF TxtInit
<1>2. toc \in Seq(EntryForm) /\ ByLine(toc) /\ OnText(toc)
  BY <1>1 DEF ByLine, OnText
<1>3. TocFits
  BY <1>1, <1>2, FitsIs
<1> QED BY <1>1, <1>2, <1>3 DEF TocHolds

-----------------------------------------------------------------------------
(* The text in the chapters *)

\* a chapter of a stretch of lines, with the first of text as its heading or none
Stretch(c, head, first, last) ==
    /\ first \in Nat \ {0} /\ last \in 0..Len(txt)
    /\ head = 0 \/ (head \in WithText \cap (first..last) /\ \A n \in WithText \cap (first..last) : head <= n)
    /\ c.head = head /\ c.body = InOrder((first..last) \ {head}, last)
\* ... holds the lines of text of its stretch
LEMMA HeldIs ==
    ASSUME txt \in Texts, NEW c, NEW head, NEW first, NEW last, Stretch(c, head, first, last),
           NEW whole, whole = WithText \cap (first..last)
    PROVE  Held(c) = InOrder(whole, Len(txt)) /\ Held(c) \in Seq(1..Len(txt))
<1> DEFINE places == (first..last) \ {head}
           body == InOrder(places, last)
           rest == (WithText \cap (first..last)) \ {head}
<1>1. Len(txt) \in Nat /\ DOMAIN txt = 1..Len(txt) /\ WithText \subseteq 1..Len(txt)
  BY TextFacts
<1>a. /\ first \in Nat \ {0} /\ last \in Nat /\ last \in 0..Len(txt)
      /\ head = 0 \/ (head \in WithText \cap (first..last) /\ \A n \in WithText \cap (first..last) : head <= n)
  BY <1>1 DEF Stretch
<1>2. c.head = head /\ c.body = body
  BY DEF Stretch
<1>3. Picked(body, {i \in DOMAIN body : ~Blank(body[i])}) = InOrder(rest, Len(txt))
  <2>1. body \in Seq(1..last)
    BY <1>1, <1>a, InOrderFacts
  <2>2. \A i \in DOMAIN body : body[i] \in DOMAIN txt
    <3> HIDE DEF body
    <3>1. \A i \in DOMAIN body : body[i] \in 1..last
      BY <1>a, <2>1
    <3> QED BY <1>1, <1>a, <3>1
  <2>3. \A i \in DOMAIN body : ~Blank(body[i]) <=> body[i] \in WithText
    BY <2>2 DEF WithText
  <2>4. {i \in DOMAIN body : ~Blank(body[i])} = {i \in DOMAIN body : body[i] \in WithText}
    BY <2>3
  <2>5. Picked(body, {i \in DOMAIN body : body[i] \in WithText}) = InOrder(places \cap WithText, last)
    <3> DEFINE P == {i \in DOMAIN body : body[i] \in WithText}
    <3>1. body = InOrder(places, last) /\ P = {i \in DOMAIN body : body[i] \in WithText}
          /\ P \in SUBSET DOMAIN body /\ \A i \in DOMAIN body : i \in P <=> body[i] \in WithText
      OBVIOUS
    <3> HIDE DEF body, places, P
    <3> DEFINE K == WithText
    <3>3. last \in Nat /\ body = InOrder(places, last) /\ P \in SUBSET DOMAIN body /\ \A i \in DOMAIN body : i \in P <=> body[i] \in K
      BY <1>1, <1>a, <3>1
    <3> HIDE DEF K
    <3>4. Picked(body, P) = InOrder(places \cap K, last)
      BY ONLY <3>3, PickedInOrder
    <3>2. Picked(body, P) = InOrder(places \cap WithText, last)
      BY <3>4 DEF K
    <3> QED BY <3>1, <3>2
  <2>6. (places \cap WithText) \cap (1..last) = rest \cap (1..Len(txt))
    BY <1>1, <1>a
  <2>7. InOrder(places \cap WithText, last) = InOrder(rest, Len(txt))
    <3> HIDE DEF places, rest
    <3> QED BY <1>1, <1>a, <2>6, OrderWithin
  <2> QED BY <2>4, <2>5, <2>7
<1>4. Held(c) = (IF head = 0 THEN <<>> ELSE <<head>>) \o InOrder(rest, Len(txt))
  BY <1>2, <1>3 DEF Held
<1>5. InOrder(rest, Len(txt)) \in Seq(1..Len(txt))
  BY <1>1, InOrderFacts
<1>6. ASSUME head = 0 PROVE Held(c) = InOrder(whole, Len(txt))
  <2>1. rest = whole
    BY <1>1, <1>a, <1>6
  <2>2. Held(c) = <<>> \o InOrder(rest, Len(txt))
    BY <1>4, <1>6
  <2>3. Held(c) = InOrder(rest, Len(txt))
    <3> HIDE DEF rest
    <3> QED BY <1>5, <2>2, ConcatEmptySeq
  <2> QED BY <2>1, <2>3
<1>7. ASSUME head # 0 PROVE Held(c) = InOrder(whole, Len(txt))
  <2>1. head \in whole /\ \A n \in whole : head <= n
    BY <1>a, <1>7
  <2>2. Held(c) = <<head>> \o InOrder(rest, Len(txt))
    BY <1>4, <1>7
  <2>3. head \in 1..Len(txt) /\ \A n \in rest : head < n
    BY <1>1, <1>a, <2>1
  <2>4. InOrder({head}, Len(txt)) = <<head>>
    BY <1>1, <2>3, OneInOrder
  <2>5. {head} \cup rest = whole
    BY <2>1
  <2>6. InOrder({head} \cup rest, Len(txt)) = InOrder({head}, Len(txt)) \o InOrder(rest, Len(txt))
    <3>1. \A i \in {head} \cap (1..Len(txt)), j \in rest \cap (1..Len(txt)) : i < j
      BY <2>3
    <3> HIDE DEF rest
    <3> QED BY <1>1, <3>1, OrderOfParts
  <2> QED BY <2>2, <2>4, <2>5, <2>6
<1>8. InOrder(whole, Len(txt)) \in Seq(1..Len(txt))
  BY <1>1, InOrderFacts
<1> QED BY <1>6, <1>7, <1>8

HeldIn(cs) == [k \in DOMAIN cs |-> Held(cs[k])]
LinesIn(cs) == FlattenSeq(HeldIn(cs))

LEMMA OneChapterHolds ==
    ASSUME txt \in Texts
    PROVE  LinesIn(OneChapter) = InOrder(WithText, Len(txt))
<1> DEFINE lines == InOrder(WithText, Len(txt))
           head == IF lines = <<>> THEN 0 ELSE lines[1]
           c == Chapter(head, 1, 1, Len(txt), TRUE, TRUE)
           n == Len(txt)
<1>1. n \in Nat /\ DOMAIN txt = 1..n /\ WithText \subseteq 1..n
  BY TextFacts
<1>2. WithText \cap (1..n) = WithText
  BY <1>1
<1>3. head = 0 \/ (head \in WithText \cap (1..n) /\ \A k \in WithText \cap (1..n) : head <= k)
  <2>1. CASE WithText = {}
    <3>1. lines = <<>>
      BY <1>1, <2>1, NoneInOrder
    <3> QED BY <3>1
  <2>2. CASE WithText # {}
    <3>1. lines # <<>> /\ lines[1] \in WithText \cap (1..n) /\ \A k \in WithText \cap (1..n) : lines[1] <= k
      BY <1>1, <1>2, <2>2, FirstInOrder
    <3> QED BY <3>1
  <2> QED BY <2>1, <2>2
<1>4. Held(c) = InOrder(WithText \cap (1..n), n) /\ Held(c) \in Seq(1..n)
  <2> DEFINE whole == WithText \cap (1..n)
  <2>1. Stretch(c, head, 1, Len(txt)) /\ whole = WithText \cap (1..Len(txt))
    BY <1>1, <1>3 DEF Chapter, Stretch
  <2> HIDE DEF head, c, whole
  <2>3. Held(c) = InOrder(whole, Len(txt)) /\ Held(c) \in Seq(1..Len(txt))
    BY <2>1, HeldIs
  <2> QED BY <2>3 DEF whole
<1>5. OneChapter = <<c>>
  BY DEF OneChapter
<1>6. HeldIn(OneChapter) = <<Held(c)>>
  <2> HIDE DEF c
  <2>1. DOMAIN <<c>> = {1} /\ <<c>>[1] = c
    OBVIOUS
  <2> QED BY <1>5, <2>1 DEF HeldIn
<1>7. Held(c) \in Seq(1..n)
  BY <1>4
<1>8. FlattenSeq(<<Held(c)>>) = Held(c)
  <2> HIDE DEF c
  <2> QED BY <1>7, FlattenOne
<1> QED BY <1>2, <1>4, <1>6, <1>8 DEF LinesIn

\* the chapters of the list hold the text from its first heading on
LEMMA CutHolds ==
    ASSUME txt \in Texts, toc \in Seq(EntryForm), toc # <<>>, TocFits, NEW n, n = Len(txt)
    PROVE  /\ HeldIn(Cut) \in Seq(Seq(1..n))
           /\ LinesIn(Cut) = InOrder(WithText \cap (toc[1].line..n), n)
<1> DEFINE m == Len(toc)
           End(k) == IF k < m THEN toc[k + 1].line - 1 ELSE n
           ss == HeldIn(Cut)
           f == [k \in 0..m |-> IF k = 0 THEN <<>> ELSE InOrder(WithText \cap (toc[1].line..End(k)), n)]
<1>1. n \in Nat /\ WithText \subseteq 1..n
  BY TextFacts
<1>2. m \in Nat /\ m >= 1 /\ DOMAIN toc = 1..m
  OBVIOUS
<1>3. \A k \in 1..m : toc[k].line \in WithText /\ toc[k].line \in 1..n
  <2>1. OnText(toc)
    BY FitsIs
  <2> QED BY <1>1, <1>2, <2>1 DEF OnText
<1>4. \A i, j \in 1..m : i < j => toc[i].line < toc[j].line
  <2>1. ByLine(toc)
    BY FitsIs
  <2> QED BY <1>2, <2>1 DEF ByLine
<1>5. \A k \in 1..m : End(k) \in 0..n /\ toc[k].line <= End(k)
  <2> TAKE k \in 1..m
  <2>1. CASE k < m
    <3>1. k + 1 \in 1..m /\ k < k + 1
      BY <1>2, <2>1
    <3>2. toc[k].line \in 1..n /\ toc[k + 1].line \in 1..n /\ toc[k].line < toc[k + 1].line
      BY <1>3, <1>4, <3>1
    <3> QED BY <1>1, <2>1, <3>2
  <2>2. CASE ~(k < m)
    BY <1>1, <1>3, <2>2
  <2> QED BY <2>1, <2>2
<1>6. Cut = [k \in 1..m |-> Chapter(toc[k].line, toc[k].level, toc[k].line, End(k), toc[k].on, TRUE)]
  BY <1>2 DEF Cut
<1> HIDE DEF End
<1>7. \A k \in 1..m : Held(Cut[k]) = InOrder(WithText \cap (toc[k].line..End(k)), n) /\ Held(Cut[k]) \in Seq(1..n)
  <2> TAKE k \in 1..m
  <2>1. Cut[k] = Chapter(toc[k].line, toc[k].level, toc[k].line, End(k), toc[k].on, TRUE)
    BY <1>6
  <2> DEFINE h == toc[k].line
             c == Cut[k]
             e == End(k)
             whole == WithText \cap (h..e)
  <2>2. h \in Nat \ {0} /\ End(k) \in 0..Len(txt)
    BY <1>3, <1>5
  <2>3. h \in WithText \cap (h..End(k)) /\ \A j \in WithText \cap (h..End(k)) : h <= j
    BY <1>3, <1>5, <2>2
  <2>5. Stretch(c, h, h, e) /\ whole = WithText \cap (h..e)
    BY <2>1, <2>2, <2>3 DEF Chapter, Stretch
  <2> HIDE DEF h, c, e, whole
  <2>4. Held(c) = InOrder(whole, Len(txt)) /\ Held(c) \in Seq(1..Len(txt))
    BY <2>5, HeldIs
  <2> QED BY <2>4 DEF h, c, e, whole
<1>8. \A k \in 1..m : ss[k] = Held(Cut[k]) /\ Held(Cut[k]) \in Seq(1..n)
  <2>1. DOMAIN Cut = 1..m
    BY <1>6
  <2>2. \A k \in 1..m : Held(Cut[k]) \in Seq(1..n)
    BY <1>7
  <2> QED BY <2>1, <2>2 DEF HeldIn
<1>9. ss \in Seq(Seq(1..n)) /\ Len(ss) = m
  <2>1. ss = [k \in 1..m |-> ss[k]]
    BY <1>6 DEF HeldIn
  <2> HIDE DEF ss
  <2>2. \A k \in 1..m : ss[k] \in Seq(1..n)
    BY <1>8
  <2> QED BY <1>2, <2>1, <2>2
<1>10. f[0] = <<>> /\ \A k \in 1..m : f[k] = InOrder(WithText \cap (toc[1].line..End(k)), n)
  BY <1>2
<1> HIDE DEF ss, f
<1>11. ASSUME NEW k \in 1..m PROVE f[k] = f[k - 1] \o ss[k]
  <2>1. CASE k = 1
    <3>0. 1 \in 1..m /\ k - 1 = 0
      BY <1>2, <2>1
    <3>a. f[1] = InOrder(WithText \cap (toc[1].line..End(1)), n)
      BY <1>10, <3>0
    <3>b. ss[1] = Held(Cut[1]) /\ Held(Cut[1]) \in Seq(1..n)
      BY <1>8, <3>0
    <3>c. Held(Cut[1]) = InOrder(WithText \cap (toc[1].line..End(1)), n)
      BY <1>7, <3>0
    <3>1. f[1] = ss[1] /\ ss[1] \in Seq(1..n) /\ k - 1 = 0
      BY <3>0, <3>a, <3>b, <3>c
    <3>2. <<>> \o ss[1] = ss[1]
      BY <3>1, ConcatEmptySeq
    <3> QED BY <1>10, <2>1, <3>1, <3>2
  <2>2. CASE k # 1
    <3>1. k - 1 \in 1..m /\ (k - 1) + 1 = k /\ k - 1 < m /\ 1 \in 1..m /\ 1 < k
      BY <1>2, <2>2
    <3>2. End(k - 1) = toc[k].line - 1
      BY <3>1 DEF End
    <3> DEFINE a == WithText \cap (toc[1].line..End(k - 1))
               b == WithText \cap (toc[k].line..End(k))
    <3>3. toc[1].line \in 1..n /\ toc[k].line \in 1..n /\ toc[1].line < toc[k].line /\ End(k) \in 0..n /\ toc[k].line <= End(k)
      BY <1>3, <1>4, <1>5, <3>1
    <3>4. a \cup b = WithText \cap (toc[1].line..End(k))
      BY <1>1, <3>2, <3>3
    <3>5. \A i \in a \cap (1..n), j \in b \cap (1..n) : i < j
      BY <3>2, <3>3
    <3>6. f[k] = InOrder(a \cup b, n) /\ f[k - 1] = InOrder(a, n) /\ ss[k] = InOrder(b, n)
      BY <1>7, <1>8, <1>10, <3>1, <3>4
    <3> HIDE DEF a, b
    <3>7. InOrder(a \cup b, n) = InOrder(a, n) \o InOrder(b, n)
      BY <1>1, <3>5, OrderOfParts
    <3> QED BY <3>6, <3>7
  <2> QED BY <2>1, <2>2
<1>12. FlattenSeq(ss) = f[m]
  BY <1>9, <1>10, <1>11, FlattenIs DEF JoinsUp
<1>13. End(m) = n
  BY <1>2 DEF End
<1>14. f[m] = InOrder(WithText \cap (toc[1].line..n), n)
  BY <1>2, <1>10, <1>13
<1> QED BY <1>9, <1>12, <1>14 DEF LinesIn, ss

LEMMA BeforeFirstHolds ==
    ASSUME txt \in Texts, NEW t \in 1..Len(txt), t = toc[1].line, NEW n, n = Len(txt)
    PROVE  /\ HeldIn(BeforeFirst) \in Seq(Seq(1..n))
           /\ LinesIn(BeforeFirst) = InOrder(WithText \cap (1..(t - 1)), n)
<1> DEFINE c == Chapter(0, 1, 1, t - 1, FALSE, FALSE)
           body == InOrder((1..(t - 1)) \ {0}, t - 1)
<1>1. n \in Nat /\ DOMAIN txt = 1..n /\ WithText \subseteq 1..n /\ t - 1 \in Nat /\ t - 1 \in 0..Len(txt)
  BY TextFacts
<1>2. Held(c) = InOrder(WithText \cap (1..(t - 1)), n) /\ Held(c) \in Seq(1..n)
  <2> DEFINE whole == WithText \cap (1..(t - 1))
             e == t - 1
  <2>1. Stretch(c, 0, 1, e) /\ whole = WithText \cap (1..e)
    BY <1>1 DEF Chapter, Stretch
  <2> HIDE DEF c, whole, e
  <2>2. Held(c) = InOrder(whole, Len(txt)) /\ Held(c) \in Seq(1..Len(txt))
    BY <2>1, HeldIs
  <2> QED BY <2>2 DEF whole
<1>3. c.body = body
  BY DEF Chapter
<1>4. ToSet(body) = 1..(t - 1)
  <2> DEFINE places == (1..(t - 1)) \ {0}
             k == t - 1
  <2>0. body = InOrder(places, k) /\ k \in Nat /\ places \cap (1..k) = 1..(t - 1)
    BY <1>1
  <2> HIDE DEF body, places, k
  <2>1. ToSet(body) = places \cap (1..k)
    BY <2>0, InOrderFacts
  <2> QED BY <2>0, <2>1
<1>5. BeforeFirst = IF \E k \in ToSet(body) : ~Blank(k) THEN <<c>> ELSE <<>>
  BY <1>3 DEF BeforeFirst
<1> HIDE DEF c, body
<1>6. CASE \E k \in ToSet(body) : ~Blank(k)
  <2>1. DOMAIN <<c>> = {1} /\ <<c>>[1] = c
    OBVIOUS
  <2>2. HeldIn(BeforeFirst) = <<Held(c)>>
    BY <1>5, <1>6, <2>1 DEF HeldIn
  <2>3. FlattenSeq(<<Held(c)>>) = Held(c) /\ <<Held(c)>> \in Seq(Seq(1..n))
    BY <1>2, FlattenOne
  <2> QED BY <1>2, <2>2, <2>3 DEF LinesIn
<1>7. CASE ~\E k \in ToSet(body) : ~Blank(k)
  <2>1. HeldIn(BeforeFirst) = <<>>
    <3>1. DOMAIN <<>> = {}
      OBVIOUS
    <3>2. BeforeFirst = <<>>
      BY <1>5, <1>7
    <3> QED BY <3>1, <3>2 DEF HeldIn
  <2>2. WithText \cap (1..(t - 1)) = {}
    BY <1>4, <1>7 DEF WithText
  <2>3. InOrder(WithText \cap (1..(t - 1)), n) = <<>>
    BY <1>1, <2>2, NoneInOrder
  <2> QED BY <2>1, <2>3, FlattenEmpty DEF LinesIn
<1> QED BY <1>6, <1>7

LEMMA HeldOfBoth ==
    ASSUME NEW S, NEW a \in Seq(S), NEW b \in Seq(S)
    PROVE  HeldIn(a \o b) = HeldIn(a) \o HeldIn(b)
<1> DEFINE r == a \o b
           p == HeldIn(a)
           q == HeldIn(b)
<1>1. /\ DOMAIN r = 1..(Len(a) + Len(b)) /\ Len(a) \in Nat /\ Len(b) \in Nat
      /\ DOMAIN a = 1..Len(a) /\ DOMAIN b = 1..Len(b)
      /\ \A i \in 1..(Len(a) + Len(b)) : r[i] = IF i <= Len(a) THEN a[i] ELSE b[i - Len(a)]
  OBVIOUS
<1>2. p = [i \in 1..Len(a) |-> Held(a[i])] /\ q = [i \in 1..Len(b) |-> Held(b[i])]
  BY <1>1 DEF HeldIn
<1> DEFINE H == {Held(a[i]) : i \in 1..Len(a)} \cup {Held(b[i]) : i \in 1..Len(b)}
<1>3. p \in Seq(H) /\ q \in Seq(H) /\ Len(p) = Len(a) /\ Len(q) = Len(b)
  BY <1>1, <1>2
<1>4. HeldIn(r) = [i \in 1..(Len(a) + Len(b)) |-> Held(r[i])]
  BY <1>1 DEF HeldIn
<1>5. \A i \in 1..Len(a) : p[i] = Held(a[i])
  BY <1>2
<1>6. \A i \in 1..Len(b) : q[i] = Held(b[i])
  BY <1>2
<1> HIDE DEF p, q, r, H
<1>7. p \o q = [i \in 1..(Len(a) + Len(b)) |-> IF i <= Len(a) THEN p[i] ELSE q[i - Len(a)]]
  <2> DEFINE u == p \o q
  <2>1. u \in Seq(H) /\ Len(u) = Len(a) + Len(b) /\ \A i \in 1..(Len(a) + Len(b)) : u[i] = IF i <= Len(a) THEN p[i] ELSE q[i - Len(a)]
    <3>1. p \o q \in Seq(H) /\ Len(p \o q) = Len(p) + Len(q)
          /\ \A i \in 1..Len(p) + Len(q) : (p \o q)[i] = IF i <= Len(p) THEN p[i] ELSE q[i - Len(p)]
      BY <1>3, ConcatProperties
    <3> QED BY <1>3, <3>1
  <2> HIDE DEF u
  <2>2. u = [i \in 1..(Len(a) + Len(b)) |-> IF i <= Len(a) THEN p[i] ELSE q[i - Len(a)]]
    <3>1. DOMAIN u = 1..(Len(a) + Len(b)) /\ u = [i \in DOMAIN u |-> u[i]]
      BY <2>1
    <3> QED BY <2>1, <3>1
  <2> QED BY <2>2 DEF u
<1>8. \A i \in 1..(Len(a) + Len(b)) : Held(r[i]) = IF i <= Len(a) THEN p[i] ELSE q[i - Len(a)]
  <2> TAKE i \in 1..(Len(a) + Len(b))
  <2>1. CASE i <= Len(a)
    BY <1>1, <1>5, <2>1
  <2>2. CASE ~(i <= Len(a))
    <3>1. i - Len(a) \in 1..Len(b)
      BY <1>1, <2>2
    <3> QED BY <1>1, <1>6, <2>2, <3>1
  <2> QED BY <2>1, <2>2
<1> QED BY <1>4, <1>7, <1>8 DEF p, q, r

LEMMA PartsAreLists ==
    ASSUME toc \in Seq(EntryForm)
    PROVE  \E S : BeforeFirst \in Seq(S) /\ Cut \in Seq(S) /\ \A c \in S : c.level \in Nat
<1> DEFINE c == Chapter(0, 1, 1, toc[1].line - 1, FALSE, FALSE)
           S == {c} \cup {Cut[k] : k \in 1..Len(toc)}
<1>1. BeforeFirst \in {<<>>, <<c>>}
  BY DEF BeforeFirst
<1>2. DOMAIN Cut = 1..Len(toc) /\ Cut = [k \in 1..Len(toc) |-> Cut[k]] /\ Len(toc) \in Nat
  BY DEF Cut
<1>3. c.level \in Nat
  BY DEF Chapter
<1>4. \A k \in 1..Len(toc) : Cut[k].level \in Nat
  <2> TAKE k \in 1..Len(toc)
  <2>1. toc[k] \in EntryForm /\ k \in DOMAIN toc
    OBVIOUS
  <2>2. toc[k].level \in Nat
    BY <2>1 DEF EntryForm
  <2>3. Cut[k].level = toc[k].level
    BY <2>1 DEF Cut, Chapter
  <2> QED BY <2>2, <2>3
<1> HIDE DEF c
<1>5. BeforeFirst \in Seq(S)
  <2>1. c \in S
    OBVIOUS
  <2> HIDE DEF S
  <2>2. <<>> \in Seq(S) /\ <<c>> \in Seq(S)
    BY <2>1
  <2> QED BY <1>1, <2>2
<1>6. (\A k \in 1..Len(toc) : Cut[k] \in S) /\ \A x \in S : x.level \in Nat
  BY <1>3, <1>4
<1> HIDE DEF S
<1>7. Cut \in Seq(S)
  BY <1>2, <1>6
<1> QED BY <1>5, <1>6, <1>7

LEMMA KeptText ==
    ASSUME txt \in Texts, toc \in Seq(EntryForm), TocFits
    PROVE  LinesIn(BuildChapters) = InOrder(WithText, Len(txt))
<1> DEFINE n == Len(txt)
<1>1. CASE toc = <<>>
  BY <1>1, OneChapterHolds DEF BuildChapters
<1>2. CASE toc # <<>>
  <2>1. n \in Nat /\ WithText \subseteq 1..n
    BY TextFacts
  <2> DEFINE t == toc[1].line
  <2>2. t \in 1..n
    <3>1. OnText(toc) /\ 1 \in DOMAIN toc
      BY <1>2, FitsIs
    <3> QED BY <2>1, <3>1 DEF OnText
  <2>3. HeldIn(BeforeFirst) \in Seq(Seq(1..n)) /\ LinesIn(BeforeFirst) = InOrder(WithText \cap (1..(t - 1)), n)
    BY <2>2, BeforeFirstHolds
  <2>4. HeldIn(Cut) \in Seq(Seq(1..n)) /\ LinesIn(Cut) = InOrder(WithText \cap (t..n), n)
    BY <1>2, CutHolds
  <2>5. BuildChapters = BeforeFirst \o Cut
    BY <1>2 DEF BuildChapters
  <2>6. HeldIn(BuildChapters) = HeldIn(BeforeFirst) \o HeldIn(Cut)
    <3>1. \E S : BeforeFirst \in Seq(S) /\ Cut \in Seq(S)
      BY PartsAreLists
    <3> QED BY <2>5, <3>1, HeldOfBoth
  <2> DEFINE p == HeldIn(BeforeFirst)
             q == HeldIn(Cut)
             N == 1..n
  <2>7. p \in Seq(Seq(N)) /\ q \in Seq(Seq(N))
    BY <2>3, <2>4
  <2> HIDE DEF p, q, N
  <2>8. FlattenSeq(p \o q) = FlattenSeq(p) \o FlattenSeq(q)
    BY <2>7, FlattenConcat
  <2>9. InOrder(WithText, n) = InOrder(WithText \cap (1..(t - 1)), n) \o InOrder(WithText \cap (t..n), n)
    <3> DEFINE a == WithText \cap (1..(t - 1))
               b == WithText \cap (t..n)
    <3>1. a \cup b = WithText
      <4>1. \A k \in WithText : k \in 1..(t - 1) \/ k \in t..n
        <5> HIDE DEF t
        <5> QED BY <2>1, <2>2
      <4> QED BY <4>1
    <3>2. \A i \in a \cap (1..n), j \in b \cap (1..n) : i < j
      BY <2>2
    <3> HIDE DEF a, b
    <3>3. InOrder(a \cup b, n) = InOrder(a, n) \o InOrder(b, n)
      BY <2>1, <3>2, OrderOfParts
    <3> QED BY <3>1, <3>3 DEF a, b
  <2> QED BY <2>3, <2>4, <2>6, <2>8, <2>9 DEF LinesIn, p, q
<1> QED BY <1>1, <1>2

-----------------------------------------------------------------------------
(* The contents *)

Leveled(cs) == \E S : cs \in Seq(S) /\ \A c \in S : c.level \in Nat
LEMMA ChaptersLeveled ==
    ASSUME toc \in Seq(EntryForm)
    PROVE  Leveled(BuildChapters)
<1>1. CASE toc = <<>>
  <2> DEFINE c == OneChapter[1]
             S == {c}
  <2>1. OneChapter = <<c>> /\ c.level = 1
    BY DEF OneChapter, Chapter
  <2> HIDE DEF c
  <2>2. <<c>> \in Seq(S) /\ \A x \in S : x.level \in Nat
    BY <2>1
  <2> HIDE DEF S
  <2> QED BY <1>1, <2>1, <2>2 DEF BuildChapters, Leveled
<1>2. CASE toc # <<>>
  <2>1. PICK S : BeforeFirst \in Seq(S) /\ Cut \in Seq(S) /\ \A c \in S : c.level \in Nat
    BY PartsAreLists
  <2>2. BeforeFirst \o Cut \in Seq(S)
    BY <2>1, ConcatProperties
  <2> QED BY <1>2, <2>1, <2>2 DEF BuildChapters, Leveled
<1> QED BY <1>1, <1>2

Level(k) == chapters[k].level
\* the first i chapters shown that no later one of them closes
StillOpen(i) == {Shown[j] : j \in {j \in 1..i : \A m \in (j + 1)..i : Level(Shown[j]) < Level(Shown[m])}}
Under(i) == [m \in 1..i |-> <<Shown[m], Nearest(Shown[m])>>]
TreeStates(i) == {s \in [open : Seq(Nat), under : Seq(Nat \X Nat)] :
                     Ascends(s.open) /\ ToSet(s.open) = StillOpen(i) /\ s.under = Under(i)}

LEMMA ShownFacts ==
    ASSUME Leveled(chapters)
    PROVE  /\ Shown \in Seq(Nat) /\ Ascends(Shown) /\ Len(Shown) \in Nat /\ DOMAIN Shown = 1..Len(Shown)
           /\ \A i \in 1..Len(Shown) : Level(Shown[i]) \in Nat /\ Shown[i] \in Nat
<1>1. PICK S : chapters \in Seq(S) /\ \A c \in S : c.level \in Nat
  BY DEF Leveled
<1> DEFINE n == Len(chapters)
           P == {k \in DOMAIN chapters : chapters[k].on}
<1>2. n \in Nat /\ DOMAIN chapters = 1..n /\ Shown = InOrder(P, n)
  BY <1>1 DEF Shown
<1> HIDE DEF P
<1>3. InOrder(P, n) \in Seq(1..n) /\ Ascends(InOrder(P, n))
  BY <1>2, InOrderFacts
<1>4. Shown \in Seq(1..n) /\ Ascends(Shown)
  BY <1>2, <1>3
<1>5. \A k \in 1..n : Level(k) \in Nat
  BY <1>1, <1>2 DEF Level
<1>6. \A i \in 1..Len(Shown) : Shown[i] \in 1..n
  <2> DEFINE sh == Shown
             N == 1..n
  <2>1. sh \in Seq(N)
    BY <1>4
  <2> HIDE DEF sh, N
  <2>2. \A i \in 1..Len(sh) : sh[i] \in N
    BY <2>1
  <2> QED BY <2>2 DEF sh, N
<1>7. Len(Shown) \in Nat /\ DOMAIN Shown = 1..Len(Shown) /\ Shown \in Seq(Nat)
  BY <1>4
<1> HIDE DEF n
<1> QED BY <1>2, <1>4, <1>5, <1>6, <1>7

\* the chapter above one is the greatest before it of a lower level
LEMMA NearestIs ==
    ASSUME NEW k, NEW m \in Nat, m \in Above(k), \A o \in Above(k) : o <= m, Above(k) \subseteq Nat
    PROVE  Nearest(k) = m
<1> DEFINE c == CHOOSE j \in Above(k) : \A o \in Above(k) : o <= j
<1>1. c \in Above(k) /\ \A o \in Above(k) : o <= c
  OBVIOUS
<1>2. c = m
  BY <1>1
<1> QED BY <1>2 DEF Nearest

\* one more chapter is placed
LEMMA PlaceIs ==
    ASSUME Leveled(chapters), NEW i \in 1..Len(Shown), NEW s \in TreeStates(i - 1)
    PROVE  Place(s, Shown[i]) \in TreeStates(i)
<1> DEFINE k == Shown[i]
           keep == {x \in DOMAIN s.open : Level(s.open[x]) < Level(k)}
           open == Picked(s.open, keep)
           par == IF open = <<>> THEN 0 ELSE Last(open)
<1>1. /\ Shown \in Seq(Nat) /\ Ascends(Shown) /\ Len(Shown) \in Nat /\ DOMAIN Shown = 1..Len(Shown)
      /\ \A j \in 1..Len(Shown) : Level(Shown[j]) \in Nat /\ Shown[j] \in Nat
  BY ShownFacts
<1>2. s.open \in Seq(Nat) /\ s.under \in Seq(Nat \X Nat) /\ Ascends(s.open) /\ ToSet(s.open) = StillOpen(i - 1) /\ s.under = Under(i - 1)
  BY DEF TreeStates
<1>3. Place(s, k) = [open |-> Append(open, k), under |-> Append(s.under, <<k, par>>)]
  BY DEF Place, Level
<1>4. \A j \in 1..Len(Shown) : j < i <=> Shown[j] < k
  <2> TAKE j \in 1..Len(Shown)
  <2>1. j < i => Shown[j] < k
    BY <1>1 DEF Ascends
  <2>2. i < j => k < Shown[j]
    BY <1>1 DEF Ascends
  <2> QED BY <1>1, <2>1, <2>2
<1>5. open \in Seq(Nat) /\ Ascends(open) /\ ToSet(open) = {j \in StillOpen(i - 1) : Level(j) < Level(k)}
  <2> DEFINE list == s.open
  <2>1. list \in Seq(Nat) /\ Ascends(list) /\ keep \subseteq DOMAIN list /\ DOMAIN list = 1..Len(list)
    BY <1>2
  <2>2. {list[x] : x \in keep \cap (1..Len(list))} = {j \in ToSet(list) : Level(j) < Level(k)}
    BY <2>1 DEF ToSet
  <2>3. open = Picked(list, keep)
    OBVIOUS
  <2>4. ToSet(list) = StillOpen(i - 1)
    BY <1>2
  <2> HIDE DEF list, keep, open
  <2>5. open \in Seq(Nat) /\ Ascends(open) /\ ToSet(open) = {list[x] : x \in keep \cap (1..Len(list))}
    BY <2>1, <2>3, PickedFacts, PickedAscends
  <2> QED BY <2>2, <2>4, <2>5
<1>6. k \in Nat /\ \A j \in StillOpen(i - 1) : j \in ToSet(Shown) /\ j < k /\ j \in Nat
  <2>1. k \in Nat
    BY <1>1
  <2> SUFFICES ASSUME NEW j \in StillOpen(i - 1) PROVE j \in ToSet(Shown) /\ j < k /\ j \in Nat
    BY <2>1
  <2>2. PICK m \in 1..(i - 1) : j = Shown[m]
    BY DEF StillOpen
  <2>3. m \in 1..Len(Shown) /\ m < i
    BY <1>1
  <2> QED BY <1>1, <1>4, <2>1, <2>2, <2>3 DEF ToSet
<1>7. \A j \in ToSet(open) : j \in Above(k)
  BY <1>5, <1>6 DEF Above, Level
<1>8. Above(k) \subseteq Nat /\ \A j \in Above(k) : j < k
  BY <1>1 DEF Above, ToSet
<1> HIDE DEF keep, open
<1>9. par = Nearest(k) /\ par \in Nat
  <2>1. CASE Above(k) = {}
    <3>1. open = <<>>
      <4>1. ToSet(open) = {}
        BY <1>7, <2>1
      <4> QED BY <1>5, <4>1 DEF ToSet
    <3> QED BY <2>1, <3>1 DEF Nearest
  <2>2. CASE Above(k) # {}
    <3>1. PICK m \in Above(k) : \A x \in Above(k) : x <= m
      <4> DEFINE T == Above(k)
      <4>1. k \in Nat /\ T \in SUBSET Nat /\ T # {} /\ \A x \in T : x < k
        BY <1>6, <1>8, <2>2
      <4> HIDE DEF T, k
      <4>2. \E m \in T : \A x \in T : x <= m
        BY <4>1, GreatestNat
      <4> QED BY <4>2 DEF T
    <3>2. PICK j \in 1..Len(Shown) : m = Shown[j] /\ j < i /\ Level(m) < Level(k)
      BY <1>1, <1>4, <3>1 DEF Above, ToSet, Level
    <3>3. \A x \in (j + 1)..(i - 1) : Level(Shown[j]) < Level(Shown[x])
      <4> SUFFICES ASSUME NEW x \in (j + 1)..(i - 1), ~(Level(Shown[j]) < Level(Shown[x])) PROVE FALSE
        OBVIOUS
      <4>1. x \in 1..Len(Shown) /\ j < x /\ x < i
        BY <1>1
      <4>2. Shown[x] < k /\ Shown[j] < Shown[x] /\ Shown[x] \in ToSet(Shown)
        BY <1>1, <1>4, <4>1 DEF Ascends, ToSet
      <4>3. Level(Shown[x]) < Level(k)
        <5>1. Level(Shown[x]) \in Nat /\ Level(Shown[j]) \in Nat /\ Level(k) \in Nat
          BY <1>1, <4>1
        <5> QED BY <3>2, <5>1
      <4>4. Shown[x] \in Above(k)
        BY <4>2, <4>3 DEF Above, Level
      <4>5. Shown[x] <= m
        BY <3>1, <4>4
      <4> QED BY <1>1, <3>2, <4>1, <4>2, <4>5
    <3>4. m \in ToSet(open)
      <4>1. j \in 1..(i - 1)
        BY <3>2
      <4>2. m \in StillOpen(i - 1)
        BY <3>2, <3>3, <4>1 DEF StillOpen
      <4> QED BY <1>5, <3>2, <4>2
    <3>5. open # <<>>
      BY <3>4 DEF ToSet
    <3>6. Last(open) \in ToSet(open) /\ \A x \in ToSet(open) : x <= Last(open)
      BY <1>5, <3>5, LastAscends
    <3>7. Last(open) = m
      <4>1. Last(open) <= m /\ m <= Last(open) /\ m \in Nat /\ Last(open) \in Nat
        BY <1>7, <1>8, <3>1, <3>4, <3>6
      <4> QED BY <4>1
    <3>8. Nearest(k) = m
      BY <1>8, <3>1, NearestIs
    <3> QED BY <1>8, <3>1, <3>5, <3>7, <3>8
  <2> QED BY <2>1, <2>2
<1>10. Append(open, k) \in Seq(Nat) /\ Ascends(Append(open, k)) /\ ToSet(Append(open, k)) = ToSet(open) \cup {k}
  <2>1. \A x \in ToSet(open) : x < k
    BY <1>7, <1>8
  <2> HIDE DEF k
  <2> QED BY <1>5, <1>6, <2>1, AppendAscends, AppendToSet
<1>11. ToSet(open) \cup {k} = StillOpen(i)
  <2>1. ASSUME NEW x \in StillOpen(i) PROVE x \in ToSet(open) \cup {k}
    <3>1. PICK j \in 1..i : x = Shown[j] /\ \A m \in (j + 1)..i : Level(Shown[j]) < Level(Shown[m])
      BY <2>1 DEF StillOpen
    <3>2. CASE j = i
      BY <3>1, <3>2
    <3>3. CASE j # i
      <4>1. j \in 1..(i - 1) /\ i \in (j + 1)..i /\ \A m \in (j + 1)..(i - 1) : m \in (j + 1)..i
        BY <3>3
      <4>2. x \in StillOpen(i - 1) /\ Level(x) < Level(k)
        BY <3>1, <4>1 DEF StillOpen
      <4> QED BY <1>5, <4>2
    <3> QED BY <3>2, <3>3
  <2>2. k \in StillOpen(i)
    <3>1. i \in 1..i /\ \A m \in (i + 1)..i : FALSE
      OBVIOUS
    <3> QED BY <3>1 DEF StillOpen
  <2>3. ASSUME NEW x \in ToSet(open) PROVE x \in StillOpen(i)
    <3>1. x \in StillOpen(i - 1) /\ Level(x) < Level(k)
      BY <1>5, <2>3
    <3>2. PICK j \in 1..(i - 1) : x = Shown[j] /\ \A m \in (j + 1)..(i - 1) : Level(Shown[j]) < Level(Shown[m])
      BY <3>1 DEF StillOpen
    <3>3. j \in 1..i /\ \A m \in (j + 1)..i : m \in (j + 1)..(i - 1) \/ m = i
      OBVIOUS
    <3>4. \A m \in (j + 1)..i : Level(Shown[j]) < Level(Shown[m])
      BY <3>1, <3>2, <3>3
    <3> QED BY <3>2, <3>3, <3>4 DEF StillOpen
  <2> QED BY <2>1, <2>2, <2>3
<1>12. Append(s.under, <<k, par>>) = Under(i) /\ Append(s.under, <<k, par>>) \in Seq(Nat \X Nat)
  <2> DEFINE u == s.under
             p == <<k, par>>
  <2>1. u \in Seq(Nat \X Nat) /\ p \in Nat \X Nat /\ p = <<Shown[i], Nearest(Shown[i])>>
    BY <1>2, <1>6, <1>9
  <2>2. u = [m \in 1..(i - 1) |-> <<Shown[m], Nearest(Shown[m])>>]
    BY <1>2 DEF Under
  <2>3. Len(u) = i - 1 /\ \A m \in 1..(i - 1) : u[m] = <<Shown[m], Nearest(Shown[m])>>
    BY <2>2
  <2> HIDE DEF u, p
  <2>4. Append(u, p) \in Seq(Nat \X Nat)
    BY <2>1
  <2>5. Append(u, p) = [m \in 1..i |-> IF m = i THEN p ELSE u[m]]
    BY <2>1, <2>3
  <2>6. [m \in 1..i |-> IF m = i THEN p ELSE u[m]] = [m \in 1..i |-> <<Shown[m], Nearest(Shown[m])>>]
    <3>1. \A m \in 1..i : m # i => m \in 1..(i - 1)
      OBVIOUS
    <3> QED BY <2>1, <2>3, <3>1
  <2> QED BY <2>4, <2>5, <2>6 DEF Under, u, p
<1> HIDE DEF par, k
<1>13. Place(s, k) \in TreeStates(i)
  <2> DEFINE q == Place(s, k)
             o == Append(open, k)
             u == Append(s.under, <<k, par>>)
  <2>1. q = [open |-> o, under |-> u] /\ o \in Seq(Nat) /\ u \in Seq(Nat \X Nat) /\ Ascends(o) /\ ToSet(o) = StillOpen(i) /\ u = Under(i)
    BY <1>3, <1>10, <1>11, <1>12
  <2> HIDE DEF q, o, u
  <2> QED BY <2>1 DEF TreeStates, q
<1> QED BY <1>13 DEF k

LEMMA NavTreeIs ==
    ASSUME Leveled(chapters)
    PROVE  NavTree = [i \in DOMAIN Shown |-> <<Shown[i], Nearest(Shown[i])>>]
<1> DEFINE n == Len(Shown)
           b == [open |-> <<>>, under |-> <<>>]
           V == [k \in 0..n |-> TreeStates(k)]
           G == [k \in 1..n |-> [s \in TreeStates(k - 1) |-> Place(s, Shown[k])]]
<1>1. n \in Nat /\ DOMAIN Shown = 1..n
  BY ShownFacts
<1>2. \A k \in 0..n : V[k] = TreeStates(k)
  OBVIOUS
<1>3. \A k \in 1..n : \A s \in TreeStates(k - 1) : G[k][s] = Place(s, Shown[k])
  OBVIOUS
<1>4. b \in TreeStates(0)
  <2>1. 1..0 = {} /\ <<>> \in Seq(Nat) /\ <<>> \in Seq(Nat \X Nat) /\ ToSet(<<>>) = {} /\ Ascends(<<>>)
    BY DEF ToSet, Ascends
  <2>2. StillOpen(0) = {}
    BY <2>1 DEF StillOpen
  <2>3. Under(0) = <<>>
    BY <2>1 DEF Under
  <2> QED BY <2>1, <2>2, <2>3 DEF TreeStates
<1> HIDE DEF n, b, V, G
<1>5. StepsWithin(n, V, b, G)
  <2>1. \A k \in 1..n : k - 1 \in 0..n /\ k \in 0..n
    BY <1>1
  <2>2. \A k \in 1..n : \A s \in TreeStates(k - 1) : Place(s, Shown[k]) \in TreeStates(k)
    BY PlaceIs DEF n
  <2>3. b \in V[0]
    BY <1>1, <1>2, <1>4
  <2> QED BY <1>2, <1>3, <2>1, <2>2, <2>3 DEF StepsWithin
<1>6. PICK f : f[0] = b /\ \A k \in 1..n : f[k] \in V[k] /\ f[k] = G[k][f[k - 1]]
  <2>1. HasRun(n, V, b, G)
    BY <1>1, <1>5, Recursion
  <2> QED BY <2>1 DEF HasRun
<1>7. \A k \in 0..n : f[k] \in TreeStates(k)
  <2> TAKE k \in 0..n
  <2>1. CASE k = 0
    BY <1>4, <1>6, <2>1
  <2>2. CASE k # 0
    <3>1. k \in 1..n
      BY <1>1, <2>2
    <3> QED BY <1>2, <1>6, <3>1
  <2> QED BY <2>1, <2>2
<1>8. \A k \in 1..n : f[k] = Place(f[k - 1], Shown[k])
  <2> TAKE k \in 1..n
  <2>1. f[k - 1] \in TreeStates(k - 1)
    <3>1. k - 1 \in 0..n
      BY <1>1
    <3> QED BY <1>7, <3>1
  <2> QED BY <1>3, <1>6, <2>1
<1> DEFINE state[i \in 0..n] == IF i = 0 THEN b ELSE Place(state[i - 1], Shown[i])
           g == [k \in 0..n |-> f[k]]
<1>9. state = [i \in 0..n |-> IF i = 0 THEN b ELSE Place(state[i - 1], Shown[i])]
  <2>1. \A i \in 0..n : g[i] = IF i = 0 THEN b ELSE Place(g[i - 1], Shown[i])
    <3> TAKE i \in 0..n
    <3>1. CASE i = 0
      BY <1>6, <3>1
    <3>2. CASE i # 0
      <4>1. i \in 1..n /\ i - 1 \in 0..n
        BY <1>1, <3>2
      <4> QED BY <1>8, <3>2, <4>1
    <3> QED BY <3>1, <3>2
  <2>2. g = [i \in 0..n |-> g[i]]
    OBVIOUS
  <2> HIDE DEF g
  <2>3. g = [i \in 0..n |-> IF i = 0 THEN b ELSE Place(g[i - 1], Shown[i])]
    BY <2>1, <2>2
  <2> QED BY <2>3 DEF state
<1>10. \A k : NavState(k) = state[k]
  BY DEF NavState, state, n, b
<1> HIDE DEF state, g
<1> DEFINE T == {k \in 0..n : state[k] = f[k]}
<1>11. 0 \in T
  BY <1>1, <1>6, <1>9
<1>12. ASSUME NEW k \in 1..n, k - 1 \in T PROVE k \in T
  <2>1. k \in 0..n /\ k # 0 /\ state[k - 1] = f[k - 1]
    BY <1>1, <1>12
  <2>2. state[k] = Place(state[k - 1], Shown[k])
    BY <1>9, <2>1
  <2> QED BY <1>8, <2>1, <2>2
<1>13. \A k \in 0..n : k \in T
  <2> HIDE DEF T
  <2> QED BY <1>1, <1>11, <1>12, UpTo
<1>14. n \in 0..n
  BY <1>1
<1>15. NavState(n) = f[n] /\ f[n] \in TreeStates(n)
  BY <1>7, <1>10, <1>13, <1>14
<1>16. NavTree = Under(n)
  BY <1>15 DEF NavTree, TreeStates, n
<1> QED BY <1>1, <1>16 DEF Under

\* Whatever the texts, the edits of the list and the moment the file is rewritten: the chapters
\* hold every line of text once and in order, each stands in the contents under the nearest one
\* before it of a lower level, and a list made for the text as it is is accepted
THEOREM ChaptersAreTheText == TxtSpec => []ChaptersHoldTheText
<1>1. TocHolds /\ [TxtNext]_txtVars => TocHolds'
  <2>1. TocHolds /\ UNCHANGED txtVars => TocHolds'
    <3> SUFFICES ASSUME TocHolds, UNCHANGED txtVars PROVE TocHolds'
      OBVIOUS
    <3>1. UNCHANGED <<txt, toc>> /\ UNCHANGED <<rewritten, outcome, chapters>>
      BY DEF txtVars
    <3>2. TocFits' = TocFits /\ BuildChapters' = BuildChapters
      BY <3>1, SameText
    <3> QED BY <3>1, <3>2 DEF TocHolds
  <2> QED BY <2>1, TocKept
<1>2. TocHolds => ChaptersHoldTheText
  <2> SUFFICES ASSUME TocHolds PROVE ChaptersHoldTheText
    OBVIOUS
  <2>1. TextIsKept
    BY KeptText DEF TocHolds, TextIsKept, LinesIn, HeldIn
  <2>2. TreeIsTrue
    <3>1. outcome = "converted" => Leveled(chapters)
      BY ChaptersLeveled DEF TocHolds
    <3> QED BY <3>1, NavTreeIs DEF TreeIsTrue
  <2>3. ListFits
    BY DEF TocHolds, ListFits
  <2> QED BY <2>1, <2>2, <2>3 DEF ChaptersHoldTheText
<1> QED BY <1>1, <1>2, TocStart, PTL DEF TxtSpec
=============================================================================
