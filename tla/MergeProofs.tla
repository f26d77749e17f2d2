----------------------------- MODULE MergeProofs -----------------------------
(***************************************************************************)
(* Proofs about module EpubMerge, for every list of books, whatever is in  *)
(* them and whichever of their files are missing or broken, and then about *)
(* BookFiles.  MergeInv says of the merged book what is true at every step *)
(* of the walk: what is declared is stored under a name of its own, what   *)
(* is mapped and what is copied agree with the source, links follow the    *)
(* map, a cover is shown once, the contents lead to pages.  A step only    *)
(* makes the book grow (Grows), which keeps most of it (BookKept); one     *)
(* lemma per action shows the rest.                                        *)
(***************************************************************************)
EXTENDS BookFiles, BookProofs

-----------------------------------------------------------------------------
(* A merge of books: the inductive invariant *)

Dirs     == {"Images", "Styles", "Text", "Resources", ""}
NameForm == STRING \cup {"book", "nav", ""}
Href     == Dirs \X Nat \X NameForm \X Nat
Kinds    == {"img", "css", "html", "res", "nav"}
DirOf    == [img |-> "Images", css |-> "Styles", html |-> "Text", res |-> "Resources", nav |-> ""]
EntryIds == Kinds \X Nat \X Nat
Declared == [id : EntryIds, kind : Kinds, href : Href, cover : BOOLEAN]
MappedDoc    == [doc : DocForm, href : Href]
CopiedDoc     == [href : Href, page : STRING]
TitleForm == STRING \cup {"book"}
\* the rows of a table of contents that lead to some of the names
Leaf(G)   == [title : TitleForm, href : G, kids : {<<>>}]
Branch(G) == [title : TitleForm, href : G, kids : Seq(Leaf(G))]
Trunk(G)  == [title : TitleForm, href : G, kids : Seq(Branch(G))]
Nested    == [of : Nat, navRows : Seq(Trunk(Href))]
MergeStages == {"start", "open", "images", "css", "map", "copy", "nav", "others", "end", "check", "over"}
Walking  == {"images", "css", "map", "copy", "nav", "others", "end"}
WalkerFields == {"nth", "stage", "walk", "map", "docs", "pending", "copied"}
MadeFields   == {"files", "manifest", "spine", "nav", "images", "sheets", "shown", "cover"}
DataOf(h) == made.files[h].data

WalkerTypes ==
    /\ mergeJob \in MergeJobs
    /\ walker = [x \in WalkerFields |-> walker[x]]
    /\ walker.nth \in Nat /\ walker.stage \in MergeStages /\ walker.walk \in Nat \ {0}
    /\ walker.pending \in Seq(MappedDoc) /\ walker.copied \in Seq(CopiedDoc)
    /\ fates \in Seq({"merged", "skipped"})
    /\ ending = [x \in {"status", "output", "temp"} |-> ending[x]]
MadeTypes ==
    /\ made = [x \in MadeFields |-> made[x]]
    /\ DOMAIN made.files \subseteq Href /\ IsFiniteSet(DOMAIN made.files) /\ NoHref \notin DOMAIN made.files
    /\ made.manifest \in Seq(Declared) /\ made.spine \in Seq(EntryIds)
    /\ made.nav \in Seq(Nested) /\ made.cover \in Nat
\* where the walk is
Position ==
    /\ IF walker.nth = 0 THEN walker.stage \in {"start", "over"} /\ fates = <<>>
       ELSE walker.stage # "start" /\ Len(fates) = walker.nth - 1
    /\ walker.stage \in Walking => walker.nth \in DOMAIN mergeJob.books
    /\ walker.stage = "open" => walker = OpensNext(walker.nth)
    /\ InSource => walker.walk <= Len(Walked) + 1
    /\ walker.stage \notin {"map", "copy", "nav", "others", "end"} => walker.pending = <<>> /\ walker.docs = Empty
    /\ walker.stage \notin {"copy", "nav", "others", "end"} => walker.copied = <<>>
    /\ walker.stage = "copy" => Len(walker.copied) = walker.walk - 1
    /\ walker.stage \in {"nav", "others", "end"} => Len(walker.copied) = Len(walker.pending)
    /\ walker.stage = "nav" => walker.walk = 1
\* what the package declares is in the files, under ids of its own
PackageTrue ==
    /\ \A h \in DOMAIN made.files :
           /\ made.files[h].kind \in Kinds /\ h[1] = DirOf[made.files[h].kind]
           /\ h[1] = "Text" => DataOf(h)[1] = h[2]
    /\ \A k \in DOMAIN made.manifest : LET m == made.manifest[k] IN
           /\ m.id[1] = m.kind /\ m.href \in DOMAIN made.files /\ m.href[1] = DirOf[m.kind]
           /\ IF m.kind = "html" THEN m.id[2] = m.href[2] /\ \E s \in DOMAIN made.spine : made.spine[s] = m.id
              ELSE m.id[3] = k - 1
    /\ \A s \in DOMAIN made.spine :
           /\ made.spine[s][1] = "html" /\ made.spine[s][3] = s - 1 /\ made.spine[s][2] \in 1..walker.nth
           /\ \E k \in DOMAIN made.manifest : made.manifest[k].id = made.spine[s]
    /\ \A a, b \in DOMAIN made.spine : a < b => made.spine[a][2] <= made.spine[b][2]
    /\ \A a, b \in DOMAIN made.manifest : a # b =>
           /\ made.manifest[a].id # made.manifest[b].id
           /\ made.manifest[a].kind \in {"img", "html"} => made.manifest[a].href # made.manifest[b].href
\* what is known of pictures and style sheets is stored, and the cover is one
PicturesTrue ==
    /\ \A d \in DOMAIN made.images :
           /\ made.images[d] \in DOMAIN made.files /\ made.images[d][1] = "Images" /\ DataOf(made.images[d]) = d
           /\ \E k \in DOMAIN made.manifest : made.manifest[k].href = made.images[d]
    /\ \A t \in DOMAIN made.sheets : made.sheets[t] \in DOMAIN made.files
    /\ {k \in DOMAIN made.manifest : made.manifest[k].cover} = {made.cover} \ {0}

PagesOf(places) == [k \in DOMAIN places |-> <<walker.nth, places[k].doc.loc>>]
ReadTo(i, n) == LET docs == mergeJob.books[i].docs
                IN Picked([k \in DOMAIN docs |-> <<i, docs[k].loc>>], {k \in 1..n : docs[k].entry = "there"})
\* the documents that are mapped
DocsMapped ==
    /\ \A k \in DOMAIN walker.pending : LET p == walker.pending[k] IN
           /\ p.doc \in ToSet(Source.docs) /\ p.doc.loc \in DOMAIN walker.docs
           /\ p.href[1] = "Text" /\ p.href[2] = walker.nth
           /\ k \notin DOMAIN walker.copied => p.href \notin DOMAIN made.files
    /\ \A j, k \in DOMAIN walker.pending : walker.pending[j].href = walker.pending[k].href => j = k
    /\ \A loc \in DOMAIN walker.docs : \E k \in DOMAIN walker.pending :
           walker.pending[k].href = walker.docs[loc] /\ walker.pending[k].doc.loc = loc
MappedTo(n) == NoCovers(PagesOf(walker.pending)) = NoCovers(ReadTo(walker.nth, n))
PendingTrue ==
    /\ DocsMapped
    /\ walker.stage = "map" => MappedTo(walker.walk - 1)
    /\ walker.stage \in {"copy", "nav", "others", "end"} => MappedTo(Len(Source.docs))
\* the documents that are written
CopiedTrue ==
    /\ \A k \in DOMAIN walker.copied : LET p == walker.pending[k] IN
           /\ k \in DOMAIN walker.pending /\ walker.copied[k] = [href |-> p.href, page |-> p.doc.page]
           /\ p.href \in DOMAIN made.files /\ DataOf(p.href) = <<walker.nth, p.doc.loc>>
    /\ \A h \in DOMAIN made.files : h[1] = "Text" =>
           /\ h[2] <= walker.nth
           /\ h[2] = walker.nth => \E k \in DOMAIN walker.copied : walker.pending[k].href = h
    /\ Chapters(walker.nth) = SubSeq(PagesOf(walker.pending), 1, Len(walker.copied))
\* the names that links of this source are given
SeenImages == IF walker.stage = "images" THEN walker.walk - 1 ELSE Len(Source.images)
LinksKnown ==
    /\ \A loc \in DOMAIN walker.map :
           /\ walker.map[loc] # NoHref
           /\ loc \in DOMAIN walker.docs \/ walker.map[loc] \in DOMAIN made.files
    /\ \A loc \in DOMAIN walker.docs : loc \in DOMAIN walker.map /\ walker.map[loc] = walker.docs[loc]
ImageKnown(x) == x.entry = "there" =>
    /\ x.loc \in DOMAIN walker.map /\ walker.map[x.loc] \in DOMAIN made.files
    /\ DataOf(walker.map[x.loc]) = x.data /\ walker.map[x.loc][1] = "Images"
CoverKnown(x) == x.entry = "there" /\ x.loc = Source.cover => made.cover # 0
LinksCopied ==
    \A k \in DOMAIN walker.copied : \A l \in made.files[walker.pending[k].href].links : l[2] = Link(l[1])
MapTrue ==
    /\ walker.stage \in {"images", "css", "map", "copy"} =>
           LinksKnown /\ \A k \in 1..SeenImages : ImageKnown(Source.images[k])
    /\ walker.stage = "copy" => LinksCopied
    /\ walker.stage \in Walking => \A k \in 1..SeenImages : CoverKnown(Source.images[k])
LinksOf(i) ==
    \A h \in DOMAIN made.files : h[1] = "Text" /\ h[2] = i =>
        \A l \in made.files[h].links :
            /\ l[2] # NoHref => l[2] \in DOMAIN made.files
            /\ <<i, l[1]>> \in ToSet(Chapters(i)) => IsChapter(l[2]) /\ DataOf(l[2]) = <<i, l[1]>>
            /\ \A x \in ImagesOf(i) : x.loc = l[1] =>
                   l[2] \in DOMAIN made.files /\ l[2][1] = "Images" /\ DataOf(l[2]) = x.data
\* a page that shows the picture x as a cover
ShowsCover(h, x) ==
    /\ h[1] = "Text" /\ DataOf(h) \in CoverPages
    /\ \E d \in ToSet(mergeJob.books[DataOf(h)[1]].docs) : d.loc = DataOf(h)[2] /\ <<d.image, x>> \in made.files[h].links
ShownOnce ==
    \A h \in DOMAIN made.files : \A l \in made.files[h].links : ShowsCover(h, l[2]) /\ l[2] # NoHref =>
        l[2] \in made.shown /\ \A g \in DOMAIN made.files : ShowsCover(g, l[2]) => g = h
\* ... or will, once it is written
WillShow(k) == IF k \in DOMAIN walker.copied THEN NoHref ELSE ShownCover(walker.pending[k].doc)
ShownNext ==
    \A k \in DOMAIN walker.pending : WillShow(k) # NoHref =>
        /\ WillShow(k) \in made.shown /\ \A h \in DOMAIN made.files : ~ShowsCover(h, WillShow(k))
        /\ \A j \in DOMAIN walker.pending : WillShow(j) = WillShow(k) => j = k
CoversOnce == mergeJob.smart => ShownOnce /\ (walker.stage \in {"map", "copy"} => ShownNext)
Contained(i) == \E n \in ToSet(made.nav) : n.of = i /\ n.navRows # <<>>
RowsLead ==
    /\ \A n \in ToSet(made.nav) : \A r \in ToSet(n.navRows) :
           /\ IsPageOf(r.href, n.of)
           /\ \A k \in ToSet(r.kids) :
                  IsPageOf(k.href, n.of) /\ \A g \in ToSet(k.kids) : IsPageOf(g.href, n.of)
    /\ \A a, b \in DOMAIN made.nav : a < b => made.nav[a].of < made.nav[b].of
NavTrue ==
    /\ RowsLead
    /\ \A n \in ToSet(made.nav) : n.of <= walker.nth /\ (n.of = walker.nth => walker.stage \in {"others", "end"})
    /\ walker.stage \in {"others", "end"} /\ walker.copied # <<>> => Contained(walker.nth)
SourceDone(i) ==
    /\ NoCovers(Chapters(i)) = NoCovers(Readable(i)) \/ (fates[i] = "skipped" /\ Chapters(i) = <<>>)
    /\ LinksOf(i)
    /\ \A x \in ImagesOf(i) : fates[i] = "merged" /\ x.loc = mergeJob.books[i].cover => made.cover # 0
    /\ fates[i] = "merged" /\ Chapters(i) # <<>> => Contained(i)
SourcesTrue ==
    /\ \A i \in DOMAIN fates : SourceDone(i)
    /\ walker.stage \in {"nav", "others", "end"} => LinksOf(walker.nth)
EndingTrue ==
    /\ walker.stage \notin {"start", "over"} => mergeJob.format = "epub" /\ mergeJob.target = 0
    /\ ending.status \in {"none", "failed", "merged"} /\ (ending.status = "none" <=> walker.stage # "over")
    /\ ending.temp = (walker.stage = "check") /\ (walker.stage # "over" => ending.output = "old")
    /\ ending.status = "failed" /\ mergeJob.format = "epub" => ending.output = "old"
    /\ ending.status = "merged" => mergeJob.target = 0 /\ (mergeJob.format = "epub" => IsValid)
MergeInv ==
    /\ WalkerTypes /\ MadeTypes /\ Position /\ PackageTrue /\ PicturesTrue /\ PendingTrue /\ CopiedTrue
    /\ MapTrue /\ CoversOnce /\ NavTrue /\ SourcesTrue /\ EndingTrue

-----------------------------------------------------------------------------
(* What the steps are made of *)

\* one more at the end of a list, picked or left
LEMMA PickedAtEnd ==
    ASSUME NEW S, NEW s \in Seq(S), NEW x \in S, NEW P
    PROVE  Picked(Append(s, x), P) = IF Len(s) + 1 \in P THEN Append(Picked(s, P), x) ELSE Picked(s, P)
<1>1. Append(s, x) = s \o <<x>> /\ <<x>> \in Seq(S) /\ Len(<<x>>) = 1 /\ Len(s) \in Nat
  OBVIOUS
<1>2. Picked(s \o <<x>>, P) = Picked(s, P) \o Picked(<<x>>, Behind(P, Len(s), 1))
  BY <1>1, PickedJoins
<1>3. Picked(s, P) \in Seq(S)
  BY PickedFacts
<1>4. CASE Len(s) + 1 \in P
  <2>1. Behind(P, Len(s), 1) \cap (1..1) = DOMAIN <<x>> \cap (1..1)
    BY <1>1, <1>4 DEF Behind
  <2>2. Picked(<<x>>, Behind(P, Len(s), 1)) = Picked(<<x>>, DOMAIN <<x>>)
    BY <2>1, <1>1, OrderWithin DEF Picked
  <2>3. Picked(<<x>>, DOMAIN <<x>>) = <<x>>
    BY <1>1, AllPicked
  <2>4. Picked(s, P) \o <<x>> = Append(Picked(s, P), x)
    BY <1>3
  <2> QED BY <1>1, <1>2, <1>4, <2>2, <2>3, <2>4
<1>5. CASE Len(s) + 1 \notin P
  <2>1. Behind(P, Len(s), 1) \cap (1..1) = {}
    BY <1>1, <1>5 DEF Behind
  <2>2. Picked(<<x>>, Behind(P, Len(s), 1)) = <<>>
    BY <2>1, <1>1, NoneInOrder DEF Picked
  <2> QED BY <1>1, <1>2, <1>3, <1>5, <2>2
<1> QED BY <1>4, <1>5

\* ... by what it is
LEMMA FilterAtEnd ==
    ASSUME NEW S, NEW s \in Seq(S), NEW x \in S, NEW C
    PROVE  LET t == Append(s, x) IN
           Picked(t, {k \in DOMAIN t : t[k] \notin C}) =
           IF x \in C THEN Picked(s, {k \in DOMAIN s : s[k] \notin C})
           ELSE Append(Picked(s, {k \in DOMAIN s : s[k] \notin C}), x)
<1> DEFINE t == Append(s, x)
           T == {k \in DOMAIN t : t[k] \notin C}
           R == {k \in DOMAIN s : s[k] \notin C}
<1>1. DOMAIN t = 1..(Len(s) + 1) /\ Len(s) \in Nat /\ DOMAIN s = 1..Len(s) /\ t[Len(s) + 1] = x
      /\ \A k \in 1..Len(s) : t[k] = s[k]
  OBVIOUS
<1>2. T \cap (1..Len(s)) = R \cap (1..Len(s)) /\ (Len(s) + 1 \in T <=> x \notin C)
  BY <1>1
<1>3. Picked(s, T) = Picked(s, R)
  BY <1>1, <1>2, OrderWithin DEF Picked
<1>4. Picked(t, T) = IF Len(s) + 1 \in T THEN Append(Picked(s, T), x) ELSE Picked(s, T)
  <2> HIDE DEF T, R
  <2> QED BY PickedAtEnd
<1> QED BY <1>2, <1>3, <1>4

\* one more place behind those picked
LEMMA PickedNextPlace ==
    ASSUME NEW S, NEW s \in Seq(S), NEW n \in 1..Len(s), NEW P, NEW R, R \cap (1..Len(s)) \subseteq 1..(n - 1),
           P = R \cup {n}
    PROVE  Picked(s, P) = Append(Picked(s, R), s[n])
<1>0. Len(s) \in Nat
  OBVIOUS
<1>1. \A i \in R \cap (1..Len(s)), j \in {n} \cap (1..Len(s)) : i < j
  BY <1>0
<1>2. InOrder(P, Len(s)) = InOrder(R, Len(s)) \o <<n>>
  <2>1. InOrder(R \cup {n}, Len(s)) = InOrder(R, Len(s)) \o InOrder({n}, Len(s))
    BY <1>0, <1>1, OrderOfParts
  <2>2. InOrder({n}, Len(s)) = <<n>>
    BY <1>0, OneInOrder
  <2> QED BY <2>1, <2>2
<1> DEFINE at == InOrder(R, Len(s))
<1>3. at \in Seq(1..Len(s))
  BY <1>0, InOrderFacts
<1>4. Picked(s, P) = [k \in 1..Len(at \o <<n>>) |-> s[(at \o <<n>>)[k]]]
      /\ Picked(s, R) = [k \in 1..Len(at) |-> s[at[k]]]
  BY <1>2 DEF Picked
<1> HIDE DEF at
<1>5. Picked(s, R) \in Seq(S) /\ Len(Picked(s, R)) = Len(at) /\ s[n] \in S
  BY <1>3, <1>4
<1>6. Picked(s, P) \in Seq(S) /\ Len(Picked(s, P)) = Len(at) + 1
      /\ \A k \in 1..(Len(at) + 1) : Picked(s, P)[k] = IF k = Len(at) + 1 THEN s[n] ELSE s[at[k]]
  <2>1. at \o <<n>> \in Seq(1..Len(s)) /\ Len(at \o <<n>>) = Len(at) + 1 /\ Len(at) \in Nat
        /\ \A k \in 1..(Len(at) + 1) : (at \o <<n>>)[k] = IF k = Len(at) + 1 THEN n ELSE at[k]
    BY <1>3
  <2>2. \A k \in 1..(Len(at) + 1) : (at \o <<n>>)[k] \in 1..Len(s)
    BY <2>1
  <2> DEFINE new == at \o <<n>>
  <2>3. Picked(s, P) = [k \in 1..Len(new) |-> s[new[k]]]
    BY <1>4
  <2>4. Len(new) = Len(at) + 1 /\ \A k \in 1..(Len(at) + 1) : new[k] = (IF k = Len(at) + 1 THEN n ELSE at[k]) /\ s[new[k]] \in S
    BY <2>1, <2>2
  <2> HIDE DEF new
  <2> DEFINE m == Len(at) + 1
  <2>5. m \in Nat /\ Len(new) = m /\ \A k \in 1..m : new[k] = (IF k = m THEN n ELSE at[k]) /\ s[new[k]] \in S
    BY <2>1, <2>4
  <2> HIDE DEF m
  <2>6. Picked(s, P) \in Seq(S) /\ Len(Picked(s, P)) = m
        /\ \A k \in 1..m : Picked(s, P)[k] = IF k = m THEN s[n] ELSE s[at[k]]
    <3>1. Picked(s, P) = [k \in 1..m |-> s[new[k]]]
      BY <2>3, <2>5
    <3>2. Picked(s, P) \in [1..m -> S]
      BY <3>1, <2>5
    <3>3. ASSUME NEW k \in 1..m PROVE Picked(s, P)[k] = IF k = m THEN s[n] ELSE s[at[k]]
      BY <3>1, <2>5
    <3>4. \A f \in [1..m -> S] : f \in Seq(S) /\ Len(f) = m
      BY <2>5
    <3>5. Picked(s, P) \in Seq(S) /\ Len(Picked(s, P)) = m
      BY <3>2, <3>4, Zenon
    <3> QED BY <3>3, <3>5, Zenon
  <2> QED BY <2>6 DEF m
<1>7. Append(Picked(s, R), s[n]) \in Seq(S) /\ Len(Append(Picked(s, R), s[n])) = Len(at) + 1
      /\ \A k \in 1..(Len(at) + 1) : Append(Picked(s, R), s[n])[k] = IF k = Len(at) + 1 THEN s[n] ELSE s[at[k]]
  BY <1>3, <1>4, <1>5
<1> QED BY <1>6, <1>7, SameSeq

\* which kinds of file are where
LEMMA DirsApart ==
    /\ \A kind \in Kinds : DirOf[kind] \in Dirs
    /\ \A kind \in Kinds : DirOf[kind] = "Text" <=> kind = "html"
    /\ \A kind \in Kinds : DirOf[kind] = "Images" <=> kind = "img"
<1>1. DirOf["img"] = "Images" /\ DirOf["css"] = "Styles" /\ DirOf["html"] = "Text" /\ DirOf["res"] = "Resources" /\ DirOf["nav"] = ""
  BY DEF DirOf
<1> QED BY <1>1 DEF Kinds, Dirs

\* one of the numbers up to how many names are taken is free
LEMMA FreeNumber ==
    ASSUME NEW T, IsFiniteSet(T), NEW a, NEW b, NEW c
    PROVE  LET free == {n \in 0..Cardinality(T) : <<a, b, c, n>> \notin T}
           IN \E n \in free : \A k \in free : n <= k
<1> DEFINE size == Cardinality(T)
           free == {n \in 0..size : <<a, b, c, n>> \notin T}
<1>1. size \in Nat
  BY FS_CardinalityType
<1>2. free # {}
  <2> SUFFICES ASSUME free = {} PROVE FALSE
    OBVIOUS
  <2> DEFINE f == [n \in 0..size |-> <<a, b, c, n>>]
  <2>1. f \in [0..size -> T]
    OBVIOUS
  <2>2. IsFiniteSet(0..size) /\ Cardinality(0..size) = size + 1
    BY <1>1, FS_Interval
  <2>3. Cardinality(T) < Cardinality(0..size)
    BY <1>1, <2>2
  <2> HIDE DEF f, size
  <2> DEFINE R == 0..size
  <2>4. IsFiniteSet(R) /\ Cardinality(T) < Cardinality(R) /\ f \in [R -> T]
    BY <2>1, <2>2, <2>3
  <2> HIDE DEF R
  <2>5. \E x, y \in R : x # y /\ f[x] = f[y]
    BY <2>4, FS_PigeonHole
  <2> QED BY <2>5 DEF f, R
<1>3. free \in SUBSET Nat
  BY <1>1
<1> HIDE DEF free
<1>4. \E n \in free : \A k \in free : n <= k
  BY <1>2, <1>3, LeastNat
<1> QED BY <1>4 DEF free

LEMMA NewName ==
    ASSUME WalkerTypes, MadeTypes, NEW dir \in Dirs, NEW nth \in Nat, NEW name \in NameForm
    PROVE  LET href == UniqueHref(dir, nth, name) IN
           /\ href \in Href /\ href[1] = dir /\ href[2] = nth
           /\ href \notin DOMAIN made.files /\ \A p \in ToSet(walker.pending) : p.href # href
<1>1. IsFiniteSet(Taken)
  <2>1. walker.pending \in Seq(MappedDoc) /\ DOMAIN walker.pending = 1..Len(walker.pending) /\ Len(walker.pending) \in Nat
    BY DEF WalkerTypes
  <2>2. IsFiniteSet(1..Len(walker.pending))
    BY <2>1, FS_Interval
  <2>3. IsFiniteSet({walker.pending[k].href : k \in 1..Len(walker.pending)})
    <3> DEFINE n == Len(walker.pending)
               hrefs == {walker.pending[k].href : k \in 1..n}
               f == [k \in 1..n |-> walker.pending[k].href]
    <3>1. f \in Surjection(1..n, hrefs)
      BY DEF Surjection
    <3> HIDE DEF f, hrefs
    <3>2. IsFiniteSet(hrefs)
      BY <2>2, <3>1, FS_Surjection
    <3> QED BY <3>2 DEF hrefs
  <2>4. {p.href : p \in ToSet(walker.pending)} = {walker.pending[k].href : k \in 1..Len(walker.pending)}
    BY <2>1 DEF ToSet
  <2> QED BY <2>3, <2>4, FS_Union DEF Taken, MadeTypes
<1> DEFINE free == {n \in 0..Cardinality(Taken) : <<dir, nth, name, n>> \notin Taken}
           n0 == CHOOSE n \in free : \A k \in free : n <= k
<1>2. \E n \in free : \A k \in free : n <= k
  BY <1>1, FreeNumber
<1>3. n0 \in free
  BY <1>2
<1>4. n0 \in Nat /\ <<dir, nth, name, n0>> \notin Taken
  BY <1>3, <1>1, FS_CardinalityType
<1>5. UniqueHref(dir, nth, name) = <<dir, nth, name, n0>>
  BY DEF UniqueHref
<1> HIDE DEF n0
<1> QED BY <1>4, <1>5 DEF Href, Taken

\* the entry of an id is one
LEMMA HrefOfEntry ==
    ASSUME NEW list \in Seq(Declared), NEW k \in DOMAIN list,
           \A a, b \in DOMAIN list : a # b => list[a].id # list[b].id
    PROVE  (CHOOSE m \in ToSet(list) : m.id = list[k].id).href = list[k].href
<1>1. \A m \in ToSet(list) : m.id = list[k].id => m = list[k]
  BY DEF ToSet
<1>2. list[k] \in ToSet(list)
  BY DEF ToSet
<1> QED BY <1>1, <1>2

LEMMA EntryOfId ==
    ASSUME MadeTypes, PackageTrue, NEW k \in DOMAIN made.manifest, NEW id, id = made.manifest[k].id
    PROVE  HrefOf(id) = made.manifest[k].href
<1>1. made.manifest \in Seq(Declared)
      /\ \A a, b \in DOMAIN made.manifest : a # b => made.manifest[a].id # made.manifest[b].id
  BY DEF MadeTypes, PackageTrue
<1>2. (CHOOSE m \in ToSet(made.manifest) : m.id = made.manifest[k].id).href = made.manifest[k].href
  BY <1>1, HrefOfEntry
<1> QED BY <1>2 DEF HrefOf

PageIds(i) == {k \in DOMAIN made.spine : made.spine[k][2] = i}
PageList == [k \in DOMAIN made.spine |-> DataOf(HrefOf(made.spine[k]))]

\* What a step may do to the merged book: more files, more entries and more contents;
\* pictures and chapters stay what they are
Grows ==
    /\ mergeJob' = mergeJob
    /\ \A h \in DOMAIN made.files :
           /\ h \in DOMAIN made'.files
           /\ h[1] \in {"Images", "Text"} => made'.files[h] = made.files[h]
    /\ \A k \in DOMAIN made.manifest :
           /\ k \in DOMAIN made'.manifest /\ made'.manifest[k].id = made.manifest[k].id
           /\ made'.manifest[k].kind = made.manifest[k].kind /\ made'.manifest[k].href = made.manifest[k].href
    /\ made.cover # 0 => made'.cover # 0
    /\ ToSet(made.nav) \subseteq ToSet(made'.nav)
\* ... of which the source i has no part
NothingOf(i) ==
    /\ \A h \in DOMAIN made'.files : h[1] = "Text" /\ h[2] = i => h \in DOMAIN made.files
    /\ \/ made'.spine = made.spine
       \/ \E e \in EntryIds : e[2] # i /\ made'.spine = Append(made.spine, e)

LEMMA ChapterIs ==
    ASSUME PackageTrue, NEW h
    PROVE  IsChapter(h) <=> h \in DOMAIN made.files /\ h[1] = "Text"
BY DirsApart DEF PackageTrue, IsChapter

\* the pages of the book keep their names and their text
LEMMA PagesStay ==
    ASSUME MadeTypes, PackageTrue, MadeTypes', PackageTrue', Grows,
           NEW k \in DOMAIN made.spine, k \in DOMAIN made'.spine, made'.spine[k] = made.spine[k]
    PROVE  /\ HrefOf(made.spine[k])' = HrefOf(made.spine[k])
           /\ HrefOf(made.spine[k]) \in DOMAIN made.files /\ HrefOf(made.spine[k])[1] = "Text"
           /\ (PageList')[k] = PageList[k]
<1>1. PICK j \in DOMAIN made.manifest : made.manifest[j].id = made.spine[k]
  BY DEF PackageTrue
<1>2. j \in DOMAIN made'.manifest /\ made'.manifest[j].id = made.spine[k] /\ made'.manifest[j].href = made.manifest[j].href
  BY <1>1 DEF Grows
<1>3. HrefOf(made.spine[k]) = made.manifest[j].href
  BY <1>1, EntryOfId
<1>4. HrefOf(made.spine[k])' = made'.manifest[j].href
  <2>1. made'.manifest \in Seq(Declared)
        /\ \A a, b \in DOMAIN made'.manifest : a # b => made'.manifest[a].id # made'.manifest[b].id
    BY DEF MadeTypes, PackageTrue
  <2>2. (CHOOSE m \in ToSet(made'.manifest) : m.id = made'.manifest[j].id).href = made'.manifest[j].href
    BY <1>2, <2>1, HrefOfEntry
  <2>3. HrefOf(made.spine[k])' = (CHOOSE m \in ToSet(made'.manifest) : m.id = made'.spine[k]).href
    BY DEF HrefOf
  <2> QED BY <1>2, <2>2, <2>3
<1>5. made.manifest[j].kind = "html"
  BY <1>1 DEF PackageTrue
<1>6. made.manifest[j].href \in DOMAIN made.files /\ made.manifest[j].href[1] = "Text"
  BY <1>5, DirsApart DEF PackageTrue, Kinds
<1>7. made'.files[made.manifest[j].href] = made.files[made.manifest[j].href]
  BY <1>6 DEF Grows
<1> QED BY <1>2, <1>3, <1>4, <1>6, <1>7 DEF PageList, DataOf

LEMMA PageListIs ==
    ASSUME MadeTypes
    PROVE  /\ DOMAIN made.spine = 1..Len(made.spine) /\ Len(made.spine) \in Nat
           /\ PageList = [k \in 1..Len(made.spine) |-> PageList[k]]
           /\ \A i : Chapters(i) = Picked(PageList, PageIds(i))
BY DEF MadeTypes, PageList, PageIds, Chapters, DataOf

LEMMA ChaptersSame ==
    ASSUME MadeTypes, PackageTrue, MadeTypes', PackageTrue', Grows, made'.spine = made.spine, NEW i
    PROVE  Chapters(i)' = Chapters(i)
<1>1. \A k \in DOMAIN made.spine : (PageList')[k] = PageList[k]
  BY PagesStay
<1>2. PageList' = PageList
  BY <1>1 DEF PageList
<1>3. PageIds(i)' = PageIds(i)
  BY DEF PageIds
<1>4. Chapters(i) = Picked(PageList, PageIds(i))
  BY PageListIs
<1>5. Chapters(i)' = Picked(PageList', PageIds(i)')
  BY DEF Chapters, PageList, PageIds, DataOf
<1> QED BY <1>2, <1>3, <1>4, <1>5

LEMMA ChaptersGrow ==
    ASSUME MadeTypes, PackageTrue, MadeTypes', PackageTrue', Grows, NEW e \in EntryIds,
           made'.spine = Append(made.spine, e), NEW i
    PROVE  Chapters(i)' = IF e[2] = i THEN Append(Chapters(i), DataOf(HrefOf(e))') ELSE Chapters(i)
<1>0. PICK n : n = Len(made.spine)
  OBVIOUS
<1> DEFINE p == PageList
           x == (DataOf(HrefOf(e)))'
           S == {p[k] : k \in 1..n} \cup {x}
           q == PageList'
<1>1. n \in Nat /\ made.spine \in Seq(EntryIds) /\ p = [k \in 1..n |-> p[k]] /\ DOMAIN made.spine = 1..n
  BY <1>0, PageListIs DEF MadeTypes
<1>2. DOMAIN made'.spine = 1..(n + 1) /\ made'.spine[n + 1] = e /\ \A k \in 1..n : made'.spine[k] = made.spine[k]
  BY <1>0, <1>1
<1>3. ASSUME NEW k \in 1..n PROVE q[k] = p[k]
  <2>1. k \in DOMAIN made.spine /\ k \in DOMAIN made'.spine /\ made'.spine[k] = made.spine[k]
    BY <1>1, <1>2
  <2> QED BY <2>1, PagesStay
<1>4. q = [k \in 1..(n + 1) |-> IF k = n + 1 THEN x ELSE p[k]]
  <2>1. q = [k \in 1..(n + 1) |-> (DataOf(HrefOf(made.spine[k])))']
    BY <1>2 DEF PageList
  <2>2. ASSUME NEW k, k = n + 1 PROVE (DataOf(HrefOf(made.spine[k])))' = x
    <3>1. made'.spine[k] = e
      BY <1>2, <2>2
    <3> QED BY <3>1 DEF DataOf, HrefOf
  <2>3. ASSUME NEW k \in 1..(n + 1) PROVE (DataOf(HrefOf(made.spine[k])))' = IF k = n + 1 THEN x ELSE p[k]
    <3>1. q[k] = (DataOf(HrefOf(made.spine[k])))'
      BY <2>1
    <3> HIDE DEF q, p, x
    <3>2. CASE k = n + 1
      BY <3>2, <2>2
    <3>3. CASE k \in 1..n
      BY <3>1, <3>3, <1>3, <1>1
    <3> QED BY <3>2, <3>3, <1>1
  <2> HIDE DEF q, p, x
  <2> QED BY <2>1, <2>3
<1>5. Chapters(i) = Picked(p, PageIds(i))
  BY PageListIs
<1>6. Chapters(i)' = Picked(q, PageIds(i)')
  BY DEF Chapters, PageList, PageIds, DataOf
<1>7. PageIds(i)' \cap (1..n) = PageIds(i) \cap (1..n) /\ (n + 1 \in PageIds(i)' <=> e[2] = i)
  BY <1>1, <1>2 DEF PageIds
<1> DEFINE P == PageIds(i)'
           R == PageIds(i)
<1> HIDE DEF p, x, q, P, R
<1>8. p \in Seq(S) /\ x \in S /\ Len(p) = n
  BY <1>1
<1>9. q = Append(p, x)
  BY <1>1, <1>4, <1>8
<1>10. Picked(q, P) = IF n + 1 \in P THEN Append(Picked(p, P), x) ELSE Picked(p, P)
  <2> HIDE DEF S
  <2>1. Picked(Append(p, x), P) = IF Len(p) + 1 \in P THEN Append(Picked(p, P), x) ELSE Picked(p, P)
    BY <1>8, PickedAtEnd
  <2> QED BY <2>1, <1>8, <1>9
<1>11. Picked(p, P) = Picked(p, R)
  <2>1. P \cap (1..n) = R \cap (1..n)
    BY <1>7 DEF P, R
  <2> QED BY <2>1, <1>1, <1>8, OrderWithin DEF Picked
<1> QED BY <1>5, <1>6, <1>7, <1>10, <1>11 DEF P, R, x, p, q

LEMMA SourceKept ==
    ASSUME MadeTypes, PackageTrue, MadeTypes', PackageTrue', Grows, NEW i, NothingOf(i)
    PROVE  /\ Chapters(i)' = Chapters(i) /\ NoCovers(Chapters(i))' = NoCovers(Chapters(i))
           /\ NoCovers(Readable(i))' = NoCovers(Readable(i)) /\ ImagesOf(i)' = ImagesOf(i)
           /\ LinksOf(i) => LinksOf(i)'
           /\ Contained(i) => Contained(i)'
<1>1. Chapters(i)' = Chapters(i)
  <2>1. CASE made'.spine = made.spine
    BY <2>1, ChaptersSame
  <2>2. CASE \E e \in EntryIds : e[2] # i /\ made'.spine = Append(made.spine, e)
    <3>1. PICK e \in EntryIds : e[2] # i /\ made'.spine = Append(made.spine, e)
      BY <2>2
    <3>2. Chapters(i)' = IF e[2] = i THEN Append(Chapters(i), DataOf(HrefOf(e))') ELSE Chapters(i)
      BY <3>1, ChaptersGrow
    <3> QED BY <3>1, <3>2
  <2> QED BY <2>1, <2>2 DEF NothingOf
<1>2. CoverPages' = CoverPages
  BY DEF CoverPages, Grows
<1>3. NoCovers(Chapters(i))' = NoCovers(Chapters(i)) /\ NoCovers(Readable(i))' = NoCovers(Readable(i))
      /\ ImagesOf(i)' = ImagesOf(i)
  <2>1. Readable(i)' = Readable(i)
    BY DEF Readable, Grows
  <2>2. ImagesOf(i)' = ImagesOf(i)
    BY DEF ImagesOf, Grows
  <2> QED BY <1>1, <1>2, <2>1, <2>2 DEF NoCovers
<1>4. ASSUME LinksOf(i) PROVE LinksOf(i)'
  <2> SUFFICES ASSUME NEW h \in DOMAIN made'.files, h[1] = "Text", h[2] = i, NEW l \in made'.files[h].links
               PROVE  /\ l[2] # NoHref => l[2] \in DOMAIN made'.files
                      /\ <<i, l[1]>> \in ToSet(Chapters(i)') => IsChapter(l[2])' /\ DataOf(l[2])' = <<i, l[1]>>
                      /\ \A x \in ImagesOf(i)' : x.loc = l[1] =>
                             l[2] \in DOMAIN made'.files /\ l[2][1] = "Images" /\ DataOf(l[2])' = x.data
    BY DEF LinksOf
  <2>1. h \in DOMAIN made.files /\ made'.files[h] = made.files[h]
    BY DEF NothingOf, Grows
  <2>2. /\ l[2] # NoHref => l[2] \in DOMAIN made.files
        /\ <<i, l[1]>> \in ToSet(Chapters(i)) => IsChapter(l[2]) /\ DataOf(l[2]) = <<i, l[1]>>
        /\ \A x \in ImagesOf(i) : x.loc = l[1] =>
               l[2] \in DOMAIN made.files /\ l[2][1] = "Images" /\ DataOf(l[2]) = x.data
    BY <1>4, <2>1 DEF LinksOf
  <2>3. l[2] \in DOMAIN made.files /\ l[2][1] \in {"Images", "Text"} =>
            l[2] \in DOMAIN made'.files /\ made'.files[l[2]] = made.files[l[2]]
    BY DEF Grows
  <2>4. IsChapter(l[2]) => IsChapter(l[2])' /\ DataOf(l[2])' = DataOf(l[2])
    BY <2>3, ChapterIs DEF IsChapter, DataOf
  <2>5. l[2] \in DOMAIN made.files => l[2] \in DOMAIN made'.files
    BY DEF Grows
  <2> QED BY <1>1, <1>3, <2>2, <2>3, <2>4, <2>5 DEF DataOf
<1>5. ASSUME Contained(i) PROVE Contained(i)'
  BY <1>5 DEF Contained, Grows
<1> QED BY <1>1, <1>3, <1>4, <1>5

\* what a page is and shows
LEMMA PageKept ==
    ASSUME PackageTrue, Grows, NEW h \in DOMAIN made.files, h[1] = "Text"
    PROVE  /\ IsChapter(h)' /\ made'.files[h] = made.files[h] /\ \A i : IsPageOf(h, i) => IsPageOf(h, i)'
           /\ \A x : ShowsCover(h, x)' <=> ShowsCover(h, x)
<1>1. h \in DOMAIN made'.files /\ made'.files[h] = made.files[h] /\ mergeJob' = mergeJob
  BY DEF Grows
<1>2. IsChapter(h)
  BY ChapterIs
<1> QED BY <1>1, <1>2 DEF IsChapter, IsPageOf, ShowsCover, CoverPages, DataOf

\* what a step that writes no page leaves of the book
NoPage == \A h \in DOMAIN made'.files : h[1] = "Text" => h \in DOMAIN made.files
LEMMA BookKept ==
    ASSUME MergeInv, Grows, MadeTypes', PackageTrue', NoPage, made'.spine = made.spine,
           made.shown \subseteq made'.shown
    PROVE  /\ \A i \in DOMAIN fates : i \in DOMAIN fates' /\ fates'[i] = fates[i] => SourceDone(i)'
           /\ \A i : Chapters(i)' = Chapters(i) /\ (LinksOf(i) => LinksOf(i)') /\ (Contained(i) => Contained(i)')
           /\ \A i : NoCovers(Chapters(i))' = NoCovers(Chapters(i)) /\ NoCovers(Readable(i))' = NoCovers(Readable(i))
                     /\ ImagesOf(i)' = ImagesOf(i)
           /\ made'.nav = made.nav => RowsLead'
           /\ mergeJob.smart => ShownOnce'
<1> USE DEF MergeInv
<1>1. \A i : NothingOf(i)
  BY DEF NothingOf, NoPage
<1>2. \A i : /\ Chapters(i)' = Chapters(i) /\ NoCovers(Chapters(i))' = NoCovers(Chapters(i))
             /\ NoCovers(Readable(i))' = NoCovers(Readable(i)) /\ ImagesOf(i)' = ImagesOf(i)
             /\ (LinksOf(i) => LinksOf(i)') /\ (Contained(i) => Contained(i)')
  BY <1>1, SourceKept
<1>3. ASSUME NEW i \in DOMAIN fates, i \in DOMAIN fates', fates'[i] = fates[i] PROVE SourceDone(i)'
  <2>1. SourceDone(i)
    BY DEF SourcesTrue
  <2>2. mergeJob' = mergeJob /\ (made.cover # 0 => made'.cover # 0)
    BY DEF Grows
  <2> QED BY <2>1, <2>2, <1>2, <1>3 DEF SourceDone
<1>4. ASSUME made'.nav = made.nav PROVE RowsLead'
  <2>1. \A h, i : IsPageOf(h, i) => IsPageOf(h, i)'
    BY PageKept, ChapterIs DEF IsPageOf
  <2> QED BY <1>4, <2>1 DEF NavTrue, RowsLead
<1>5. ASSUME mergeJob.smart PROVE ShownOnce'
  <2>1. ShownOnce
    BY <1>5 DEF CoversOnce
  <2>2. ASSUME NEW h \in DOMAIN made'.files, NEW x, ShowsCover(h, x)'
        PROVE  h \in DOMAIN made.files /\ ShowsCover(h, x) /\ made'.files[h] = made.files[h]
    <3>1. h[1] = "Text"
      BY <2>2 DEF ShowsCover
    <3>2. h \in DOMAIN made.files
      BY <3>1 DEF NoPage
    <3> QED BY <3>1, <3>2, <2>2, PageKept
  <2> SUFFICES ASSUME NEW h \in DOMAIN made'.files, NEW l \in made'.files[h].links, ShowsCover(h, l[2])', l[2] # NoHref
               PROVE  l[2] \in made'.shown /\ \A g \in DOMAIN made'.files : ShowsCover(g, l[2])' => g = h
    BY DEF ShownOnce
  <2>3. h \in DOMAIN made.files /\ ShowsCover(h, l[2]) /\ l \in made.files[h].links
    BY <2>2
  <2>4. l[2] \in made.shown /\ \A g \in DOMAIN made.files : ShowsCover(g, l[2]) => g = h
    BY <2>1, <2>3 DEF ShownOnce
  <2> QED BY <2>2, <2>4
<1> QED BY <1>2, <1>3, <1>4, <1>5

\* ... and of what is known of the source that is walked
SameSource ==
    /\ walker'.nth = walker.nth /\ walker'.docs = walker.docs
    /\ walker'.pending = walker.pending /\ walker'.copied = walker.copied
LEMMA SourceWalked ==
    ASSUME MergeInv, Grows, MadeTypes', PackageTrue', NoPage, made'.spine = made.spine, SameSource
    PROVE  /\ DocsMapped' /\ CopiedTrue' /\ Source' = Source
           /\ \A n : MappedTo(n) => MappedTo(n)'
           /\ \A x : CoverKnown(x) => CoverKnown(x)'
           /\ walker'.map = walker.map => /\ \A x : ImageKnown(x) => ImageKnown(x)'
                                          /\ LinksKnown => LinksKnown'
                                          /\ LinksCopied => LinksCopied'
                                          /\ \A k : WillShow(k)' = WillShow(k)
<1> USE DEF MergeInv
<1>0. Source' = Source /\ mergeJob' = mergeJob
  BY DEF Source, SameSource, Grows
<1>1. \A h : h[1] = "Text" => (h \in DOMAIN made'.files <=> h \in DOMAIN made.files)
  BY DEF NoPage, Grows
<1>2. DocsMapped'
  BY <1>0, <1>1 DEF DocsMapped, PendingTrue, SameSource
<1>3. CopiedTrue'
  <2>1. Chapters(walker.nth)' = Chapters(walker.nth)
    <3>1. \A i : NothingOf(i)
      BY DEF NothingOf, NoPage
    <3>2. ASSUME NEW i, i = walker.nth PROVE Chapters(i)' = Chapters(i)
      BY <3>1, SourceKept
    <3>3. Chapters(walker.nth)' = Chapters(walker.nth) <=> \A i : i = walker.nth => Chapters(i)' = Chapters(i)
      BY DEF SameSource, Chapters, HrefOf
    <3> QED BY <3>2, <3>3
  <2>2. PagesOf(walker.pending)' = PagesOf(walker.pending)
    BY DEF PagesOf, SameSource
  <2>3. ASSUME NEW k \in DOMAIN walker.copied
        PROVE  LET p == walker.pending[k] IN
               /\ k \in DOMAIN walker.pending /\ walker.copied[k] = [href |-> p.href, page |-> p.doc.page]
               /\ p.href \in DOMAIN made'.files /\ DataOf(p.href)' = <<walker.nth, p.doc.loc>>
    <3>1. LET p == walker.pending[k] IN
          /\ k \in DOMAIN walker.pending /\ walker.copied[k] = [href |-> p.href, page |-> p.doc.page]
          /\ p.href \in DOMAIN made.files /\ DataOf(p.href) = <<walker.nth, p.doc.loc>>
      BY DEF CopiedTrue
    <3>2. walker.pending[k].href[1] = "Text"
      BY <3>1 DEF PendingTrue, DocsMapped
    <3>3. made'.files[walker.pending[k].href] = made.files[walker.pending[k].href] /\ walker.pending[k].href \in DOMAIN made'.files
      BY <3>1, <3>2 DEF Grows
    <3>4. walker'.pending = walker.pending
      BY DEF SameSource
    <3> QED BY <3>1, <3>3, <3>4 DEF DataOf
  <2>4. \A h \in DOMAIN made'.files : h[1] = "Text" =>
            /\ h[2] <= walker.nth
            /\ h[2] = walker.nth => \E k \in DOMAIN walker.copied : walker.pending[k].href = h
    BY <1>1 DEF CopiedTrue
  <2> QED BY <2>1, <2>2, <2>3, <2>4 DEF CopiedTrue, SameSource, DataOf
<1>4. \A n : MappedTo(n) => MappedTo(n)'
  <2>1. CoverPages' = CoverPages /\ walker'.nth = walker.nth /\ walker'.pending = walker.pending
    BY <1>0 DEF CoverPages, SameSource
  <2> SUFFICES ASSUME NEW n PROVE MappedTo(n) => MappedTo(n)'
    OBVIOUS
  <2>2. PagesOf(walker.pending)' = PagesOf(walker.pending)
    BY <2>1 DEF PagesOf
  <2>3. ReadTo(walker.nth, n)' = ReadTo(walker.nth, n)
    BY <2>1, <1>0 DEF ReadTo
  <2> QED BY <2>1, <2>2, <2>3 DEF MappedTo, NoCovers
<1>5. \A x : CoverKnown(x) => CoverKnown(x)'
  BY <1>0 DEF CoverKnown, Grows
<1>6. ASSUME walker'.map = walker.map
      PROVE  /\ \A x : ImageKnown(x) => ImageKnown(x)'
             /\ LinksKnown => LinksKnown'
             /\ LinksCopied => LinksCopied'
             /\ \A k : WillShow(k)' = WillShow(k)
  <2>1. \A h \in DOMAIN made.files : h \in DOMAIN made'.files /\ (h[1] = "Images" => made'.files[h] = made.files[h])
    BY DEF Grows
  <2>2. \A x : ImageKnown(x) => ImageKnown(x)'
    BY <1>6, <2>1 DEF ImageKnown, DataOf
  <2>3. LinksKnown => LinksKnown'
    BY <1>6, <2>1 DEF LinksKnown, SameSource
  <2>4. \A loc : Link(loc)' = Link(loc)
    BY <1>6 DEF Link
  <2>5. LinksCopied => LinksCopied'
    <3>1. \A k \in DOMAIN walker.copied : made'.files[walker.pending[k].href] = made.files[walker.pending[k].href]
      BY DEF CopiedTrue, PendingTrue, DocsMapped, Grows
    <3> QED BY <2>4, <3>1 DEF LinksCopied, SameSource
  <2>6. \A k : WillShow(k)' = WillShow(k)
    BY <1>0, <1>6, <2>4 DEF WillShow, ShownCover, SameSource, Link
  <2> QED BY <2>2, <2>3, <2>5, <2>6
<1> QED BY <1>0, <1>2, <1>3, <1>4, <1>5, <1>6

\* the books that are merged
LEMMA SourceForm ==
    ASSUME WalkerTypes, walker.nth \in DOMAIN mergeJob.books
    PROVE  /\ Source \in BookForm /\ PathsAreTrue(Source) /\ mergeJob.books[walker.nth] = Source
           /\ Source.images \in Seq(ImageForm) /\ Source.css \in Seq(SheetForm) /\ Source.docs \in Seq(DocForm)
           /\ Source.others \in Seq(OtherForm) /\ Source.contents \in Seq(PointForm)
           /\ Source.ncx \in NcxForm /\ Source.cover \in Locs
<1>1. mergeJob.books \in Seq(BookForm) /\ \A book \in ToSet(mergeJob.books) : PathsAreTrue(book)
  BY MergeAssumption DEF WalkerTypes
<1>2. mergeJob.books[walker.nth] \in BookForm /\ mergeJob.books[walker.nth] \in ToSet(mergeJob.books)
  BY <1>1 DEF ToSet
<1>3. Source \in BookForm /\ PathsAreTrue(Source)
  BY <1>1, <1>2 DEF Source
<1> QED BY <1>3 DEF Source, BookForm

\* what is walked, by the stage
LEMMA WalkedIs ==
    /\ walker.stage = "images" => Walked = Source.images
    /\ walker.stage = "css" => Walked = Source.css
    /\ walker.stage = "map" => Walked = Source.docs
    /\ walker.stage = "copy" => Walked = walker.pending
    /\ walker.stage = "others" => Walked = Source.others
BY DEF Walked

LEMMA WalkedForm ==
    ASSUME WalkerTypes, walker.nth \in DOMAIN mergeJob.books
    PROVE  Len(Walked) \in Nat /\ DOMAIN Walked = 1..Len(Walked)
<1>1. CASE walker.stage \in {"images", "css", "map", "copy", "others"}
  BY <1>1, WalkedIs, SourceForm DEF WalkerTypes
<1>2. CASE walker.stage \notin {"images", "css", "map", "copy", "others"}
  <2>1. Walked = <<>>
    BY <1>2 DEF Walked
  <2> QED BY <2>1
<1> QED BY <1>1, <1>2

InSourceStages == {"images", "css", "map", "copy", "others"}
LEMMA AfterIs ==
    /\ DOMAIN After = InSourceStages
    /\ After["images"] = "css" /\ After["css"] = "map" /\ After["map"] = "copy" /\ After["copy"] = "nav"
    /\ After["others"] = "end"
BY DEF After, InSourceStages

LEMMA SameBook ==
    ASSUME MergeInv, mergeJob' = mergeJob, made' = made, walker'.nth \in Nat, walker.nth <= walker'.nth
    PROVE  Grows /\ NoPage /\ MadeTypes' /\ PackageTrue' /\ PicturesTrue' /\ (IsValid' <=> IsValid)
<1>1. Grows /\ NoPage
  BY DEF Grows, NoPage
<1>2. MadeTypes'
  BY DEF MergeInv, MadeTypes
<1>3. PackageTrue'
  <2>0. PackageTrue /\ walker.nth \in Nat
    BY DEF MergeInv, WalkerTypes
  <2>1. \A s \in DOMAIN made.spine : made.spine[s][2] \in 1..walker'.nth
    BY <2>0 DEF PackageTrue
  <2> QED BY <2>0, <2>1 DEF PackageTrue, DataOf
<1>4. PicturesTrue'
  BY DEF MergeInv, PicturesTrue, DataOf
<1>5. IsValid' <=> IsValid
  BY DEF IsValid
<1> QED BY <1>1, <1>2, <1>3, <1>4, <1>5

\* a step of the walk alone
WalkIs(w) == w = [x \in WalkerFields |-> w[x]] /\ w.stage \in MergeStages /\ w.walk \in Nat \ {0}
Strolls ==
    /\ UNCHANGED <<mergeJob, made, fates, ending>> /\ SameSource /\ walker'.map = walker.map
    /\ WalkIs(walker') /\ walker.stage \notin {"start", "check", "over"}
    /\ walker'.stage \in Walking /\ walker.nth \in DOMAIN mergeJob.books
LEMMA Strolling ==
    ASSUME MergeInv, Strolls
    PROVE  /\ WalkerTypes' /\ MadeTypes' /\ PackageTrue' /\ PicturesTrue' /\ DocsMapped' /\ CopiedTrue' /\ EndingTrue'
           /\ \A i \in DOMAIN fates' : SourceDone(i)'
           /\ RowsLead' /\ (mergeJob'.smart => ShownOnce')
           /\ Source' = Source /\ \A i : (Contained(i) => Contained(i)') /\ (LinksOf(i) => LinksOf(i)')
           /\ \A n : MappedTo(n) => MappedTo(n)'
           /\ \A x : (CoverKnown(x) => CoverKnown(x)') /\ (ImageKnown(x) => ImageKnown(x)')
           /\ (LinksKnown => LinksKnown') /\ (LinksCopied => LinksCopied') /\ (ShownNext => ShownNext')
<1>0. walker.nth \in Nat /\ walker'.nth = walker.nth /\ mergeJob' = mergeJob /\ made' = made /\ fates' = fates
  BY DEF MergeInv, WalkerTypes, Strolls, SameSource
<1>1. Grows /\ NoPage /\ MadeTypes' /\ PackageTrue' /\ PicturesTrue' /\ (IsValid' <=> IsValid)
  BY <1>0, SameBook
<1>2. /\ \A i \in DOMAIN fates' : SourceDone(i)'
      /\ RowsLead' /\ (mergeJob'.smart => ShownOnce')
      /\ \A i : (LinksOf(i) => LinksOf(i)') /\ (Contained(i) => Contained(i)')
  BY <1>0, <1>1, BookKept
<1>3. WalkerTypes'
  BY DEF MergeInv, WalkerTypes, Strolls, SameSource, WalkIs
<1>4. EndingTrue'
  BY <1>0, <1>1 DEF MergeInv, EndingTrue, Strolls, Walking
<1>5. /\ DocsMapped' /\ CopiedTrue' /\ Source' = Source
      /\ \A n : MappedTo(n) => MappedTo(n)'
      /\ \A x : CoverKnown(x) => CoverKnown(x)'
      /\ \A x : ImageKnown(x) => ImageKnown(x)'
      /\ LinksKnown => LinksKnown'
      /\ LinksCopied => LinksCopied'
      /\ \A k : WillShow(k)' = WillShow(k)
  BY <1>0, <1>1, SourceWalked DEF Strolls
<1>6. ShownNext => ShownNext'
  <2>1. \A h, x : ShowsCover(h, x)' <=> ShowsCover(h, x)
    BY <1>0 DEF ShowsCover, DataOf, CoverPages
  <2>2. walker'.pending = walker.pending
    BY DEF Strolls, SameSource
  <2> HIDE DEF Strolls
  <2> QED BY <1>0, <1>5, <2>1, <2>2 DEF ShownNext
<1> QED BY <1>1, <1>2, <1>3, <1>4, <1>5, <1>6

-----------------------------------------------------------------------------
(* The walk: from a source to the next *)

LEMMA NoChapters ==
    ASSUME MadeTypes, NEW i, \A s \in DOMAIN made.spine : made.spine[s][2] # i
    PROVE  Chapters(i) = <<>>
<1>1. PageIds(i) = {}
  BY DEF PageIds
<1>2. Chapters(i) = Picked(PageList, {})
  BY <1>1, PageListIs
<1>3. Len(PageList) \in Nat
  BY PageListIs
<1>4. InOrder({}, Len(PageList)) = <<>>
  BY <1>3, NoneInOrder
<1>5. Picked(PageList, {}) = [k \in 1..0 |-> PageList[<<>>[k]]]
  BY <1>4 DEF Picked
<1> QED BY <1>2, <1>5

LEMMA NextOpens ==
    ASSUME MergeInv, NEW n \in Nat \ {0}, walker.nth < n, walker' = OpensNext(n), UNCHANGED <<mergeJob, made, ending>>,
           walker.stage \notin {"check", "over"}, mergeJob.format = "epub", mergeJob.target = 0,
           fates' \in Seq({"merged", "skipped"}), Len(fates') = n - 1, \A i \in DOMAIN fates' : SourceDone(i)'
    PROVE  MergeInv'
<1>0. walker.nth \in Nat
  BY DEF MergeInv, WalkerTypes
<1>1. /\ walker'.nth = n /\ walker'.stage = "open" /\ walker'.walk = 1 /\ walker'.pending = <<>>
      /\ walker'.copied = <<>> /\ walker'.docs = Empty /\ walker'.map = Empty
      /\ walker' = [x \in WalkerFields |-> walker'[x]]
  BY DEF OpensNext, WalkerFields
<1>2. Grows /\ NoPage /\ MadeTypes' /\ PackageTrue' /\ PicturesTrue' /\ (IsValid' <=> IsValid)
  <2>1. walker'.nth \in Nat /\ walker.nth <= walker'.nth /\ made' = made /\ mergeJob' = mergeJob
    BY <1>0, <1>1
  <2> QED BY <2>1, SameBook
<1>3. RowsLead' /\ (mergeJob'.smart => ShownOnce')
  <2>1. \A h, x : ShowsCover(h, x)' <=> ShowsCover(h, x)
    BY DEF ShowsCover, DataOf, CoverPages
  <2>2. mergeJob.smart => ShownOnce'
    BY <2>1 DEF MergeInv, CoversOnce, ShownOnce
  <2>3. RowsLead'
    BY DEF MergeInv, NavTrue, RowsLead, IsPageOf, IsChapter
  <2> QED BY <2>2, <2>3
<1>4. WalkerTypes'
  BY <1>1 DEF MergeInv, WalkerTypes, MergeStages
<1>5. Position'
  <2>1. DOMAIN Empty = {} /\ InSource' = FALSE
    BY <1>1, AfterIs DEF InSource, InSourceStages, Empty
  <2> QED BY <1>1, <2>1 DEF Position, Walking, OpensNext
<1>6. DocsMapped' /\ PendingTrue'
  <2>1. DocsMapped'
    BY <1>1 DEF DocsMapped, Empty
  <2> QED BY <2>1, <1>1 DEF PendingTrue
<1>7. CopiedTrue'
  <2>1. \A h \in DOMAIN made.files : h[1] = "Text" => h[2] <= walker.nth /\ h[2] \in Nat
    BY DEF MergeInv, CopiedTrue, MadeTypes, Href
  <2>2. \A s \in DOMAIN made.spine : made.spine[s][2] \in 1..walker.nth
    BY DEF MergeInv, PackageTrue
  <2>3. Chapters(n) = <<>>
    <3>1. \A s \in DOMAIN made.spine : made.spine[s][2] # n
      BY <1>0, <2>2
    <3> QED BY <3>1, NoChapters DEF MergeInv
  <2>4. Chapters(walker.nth)' = Chapters(n)
    BY <1>1 DEF Chapters, HrefOf
  <2>5. SubSeq(PagesOf(walker.pending)', 1, Len(walker'.copied)) = <<>>
    <3>1. PagesOf(walker.pending)' = <<>>
      BY <1>1 DEF PagesOf
    <3> QED BY <3>1, <1>1
  <2> QED BY <1>0, <1>1, <2>1, <2>3, <2>4, <2>5 DEF CopiedTrue
<1>8. MapTrue' /\ CoversOnce'
  BY <1>1, <1>3 DEF MapTrue, Walking, CoversOnce
<1>9. NavTrue'
  <2>1. \A m \in ToSet(made.nav) : m.of <= walker.nth /\ m.of \in Nat
    <3>1. made.nav \in Seq(Nested)
      BY DEF MergeInv, MadeTypes
    <3>2. ToSet(made.nav) \subseteq Nested
      BY <3>1, SeqToSet
    <3>3. \A m \in Nested : m.of \in Nat
      BY DEF Nested
    <3> QED BY <3>2, <3>3 DEF MergeInv, NavTrue
  <2> QED BY <1>0, <1>1, <1>3, <2>1 DEF NavTrue
<1>10. SourcesTrue'
  BY <1>1 DEF SourcesTrue
<1>11. EndingTrue'
  BY <1>1, <1>2 DEF MergeInv, EndingTrue
<1> QED BY <1>2, <1>4, <1>5, <1>6, <1>7, <1>8, <1>9, <1>10, <1>11 DEF MergeInv

LEMMA BeginKept == MergeInv /\ BeginMerge /\ walker'.stage = "open" => MergeInv'
<1> SUFFICES ASSUME MergeInv, BeginMerge, walker'.stage = "open" PROVE MergeInv'
  OBVIOUS
<1>1. walker.nth = 0 /\ fates = <<>>
  BY DEF MergeInv, Position, BeginMerge
<1>2. walker' = OpensNext(1) /\ ending' = ending /\ mergeJob.target = 0
  BY DEF BeginMerge, MergeInv, WalkerTypes, WalkerFields
<1>3. fates' \in Seq({"merged", "skipped"}) /\ Len(fates') = 1 - 1 /\ \A i \in DOMAIN fates' : SourceDone(i)'
  BY <1>1 DEF BeginMerge
<1> QED BY <1>1, <1>2, <1>3, NextOpens DEF BeginMerge

\* a source that is left
LEMMA SourceLeft ==
    ASSUME MergeInv, walker.stage \in Walking \cup {"open"}, walker.nth \in DOMAIN mergeJob.books,
           NEW f \in {"merged", "skipped"}, fates' = Append(fates, f), walker' = OpensNext(walker.nth + 1),
           UNCHANGED <<mergeJob, made, ending>>, f = "merged" => walker.stage = "end", walker.stage # "copy"
    PROVE  MergeInv'
<1> DEFINE i0 == walker.nth
<1>0. PICK i : i = walker.nth
  OBVIOUS
<1>1. i \in Nat \ {0} /\ Len(fates) = i - 1 /\ i \in DOMAIN fates' /\ fates'[i] = f /\ DOMAIN fates' = 1..i
      /\ DOMAIN fates = 1..(i - 1) /\ (\A j \in DOMAIN fates : fates'[j] = fates[j])
  BY <1>0 DEF MergeInv, Position, WalkerTypes, Walking
<1>2. Grows /\ NoPage /\ MadeTypes' /\ PackageTrue'
  <2>1. walker'.nth \in Nat /\ walker.nth <= walker'.nth /\ made' = made /\ mergeJob' = mergeJob
    BY <1>0, <1>1 DEF OpensNext
  <2> QED BY <2>1, SameBook
<1>3. /\ \A j \in DOMAIN fates : SourceDone(j)'
      /\ \A j : Chapters(j)' = Chapters(j) /\ (LinksOf(j) => LinksOf(j)') /\ (Contained(j) => Contained(j)')
      /\ \A j : NoCovers(Chapters(j))' = NoCovers(Chapters(j)) /\ NoCovers(Readable(j))' = NoCovers(Readable(j))
                     /\ ImagesOf(j)' = ImagesOf(j)
  <2>1. \A j \in DOMAIN fates : j \in DOMAIN fates' /\ fates'[j] = fates[j]
    BY <1>1
  <2> QED BY <1>2, <2>1, BookKept
<1>4. ASSUME walker.stage \in {"open", "images", "css", "map"} PROVE SourceDone(i)'
  <2>1. f = "skipped" /\ walker.copied = <<>>
    BY <1>4 DEF MergeInv, Position
  <2>2. Chapters(i) = <<>>
    <3>1. Chapters(i) = SubSeq(PagesOf(walker.pending), 1, 0)
      BY <2>1, <1>0 DEF MergeInv, CopiedTrue
    <3> QED BY <3>1
  <2>3. LinksOf(i)
    BY <2>1, <1>0 DEF MergeInv, CopiedTrue, LinksOf
  <2> QED BY <2>1, <2>2, <2>3, <1>1, <1>3 DEF SourceDone
<1>5. ASSUME walker.stage \in {"nav", "others", "end"} PROVE SourceDone(i)'
  <2>1. Len(walker.copied) = Len(walker.pending) /\ MappedTo(Len(Source.docs)) /\ LinksOf(i)
    BY <1>0, <1>5 DEF MergeInv, Position, PendingTrue, SourcesTrue
  <2>2. Chapters(i) = PagesOf(walker.pending)
    <3> DEFINE p == PagesOf(walker.pending)
               S == {p[k] : k \in DOMAIN walker.pending}
    <3>1. walker.pending \in Seq(MappedDoc) /\ DOMAIN walker.pending = 1..Len(walker.pending) /\ Len(walker.pending) \in Nat
      BY DEF MergeInv, WalkerTypes
    <3>2. p \in Seq(S) /\ Len(p) = Len(walker.copied)
      <4>0. PICK m \in Nat : m = Len(walker.pending) /\ m = Len(walker.copied)
        BY <2>1, <3>1
      <4>1. p = [k \in 1..m |-> p[k]] /\ \A k \in 1..m : p[k] \in S
        BY <3>1, <4>0 DEF PagesOf
      <4> HIDE DEF p, S
      <4> QED BY <4>0, <4>1
    <3>3. Chapters(i) = SubSeq(p, 1, Len(walker.copied))
      BY <1>0 DEF MergeInv, CopiedTrue
    <3> HIDE DEF p, S
    <3>4. SubSeq(p, 1, Len(p)) = p
      BY <3>2
    <3> QED BY <3>2, <3>3, <3>4 DEF p
  <2>3. NoCovers(Chapters(i)) = NoCovers(Readable(i))
    <3>1. Readable(i) = ReadTo(i, Len(Source.docs))
      <4>1. mergeJob.books[i] = Source /\ DOMAIN Source.docs = 1..Len(Source.docs)
        BY <1>0, SourceForm DEF MergeInv
      <4> QED BY <4>1 DEF Readable, ReadTo
    <3> QED BY <2>1, <2>2, <3>1, <1>0 DEF MappedTo
  <2>4. ASSUME f = "merged", NEW x \in ImagesOf(i), x.loc = mergeJob.books[i].cover PROVE made.cover # 0
    <3>1. walker.stage = "end" /\ mergeJob.books[i] = Source /\ Source.images \in Seq(ImageForm)
      BY <2>4, <1>0, SourceForm DEF MergeInv
    <3>2. PICK k \in 1..Len(Source.images) : x = Source.images[k]
      BY <3>1 DEF ImagesOf, ToSet
    <3>3. SeenImages = Len(Source.images)
      BY <3>1 DEF SeenImages
    <3>4. CoverKnown(x)
      BY <3>1, <3>2, <3>3 DEF MergeInv, MapTrue, Walking
    <3> QED BY <2>4, <3>1, <3>4 DEF CoverKnown, ImagesOf
  <2>5. f = "merged" /\ Chapters(i) # <<>> => Contained(i)
    <3>1. Chapters(i) = SubSeq(PagesOf(walker.pending), 1, Len(walker.copied))
      BY <1>0 DEF MergeInv, CopiedTrue
    <3>2. walker.copied = <<>> => Chapters(i) = <<>>
      BY <3>1
    <3> QED BY <3>2, <1>0 DEF MergeInv, NavTrue
  <2>6. mergeJob' = mergeJob /\ made' = made
    OBVIOUS
  <2> QED BY <2>1, <2>3, <2>4, <2>5, <2>6, <1>1, <1>3 DEF SourceDone
<1>6. \A j \in DOMAIN fates' : SourceDone(j)'
  <2>1. \A j \in DOMAIN fates' : j = i \/ j \in DOMAIN fates
    BY <1>1
  <2> QED BY <1>3, <1>4, <1>5, <2>1 DEF Walking
<1>7. mergeJob.format = "epub" /\ mergeJob.target = 0
  BY DEF MergeInv, EndingTrue, Walking
<1>8. fates' \in Seq({"merged", "skipped"}) /\ Len(fates') = (i + 1) - 1 /\ i + 1 \in Nat \ {0} /\ i < i + 1
  BY <1>1 DEF MergeInv, WalkerTypes
<1> QED BY <1>0, <1>6, <1>7, <1>8, NextOpens DEF Walking

\* what is left to show of a step of the walk alone
LEMMA StrollKept ==
    ASSUME MergeInv, Strolls, Position',
           walker'.stage = "map" => MappedTo(walker'.walk - 1),
           walker'.stage \in {"copy", "nav", "others", "end"} => MappedTo(Len(Source.docs)),
           walker'.stage \in {"images", "css", "map", "copy"} =>
               LinksKnown /\ \A k \in 1..SeenImages' : ImageKnown(Source.images[k]),
           walker'.stage = "copy" => LinksCopied,
           \A k \in 1..SeenImages' : CoverKnown(Source.images[k]),
           mergeJob.smart /\ walker'.stage \in {"map", "copy"} => ShownNext,
           walker'.stage \in {"others", "end"} =>
               walker.stage = walker'.stage \/ (walker.stage = "others" /\ walker'.stage = "end"),
           walker'.stage \notin {"others", "end"} => walker.stage \notin {"others", "end"},
           walker'.stage \in {"nav", "others", "end"} => LinksOf(walker.nth)
    PROVE  MergeInv'
<1>1. /\ WalkerTypes' /\ MadeTypes' /\ PackageTrue' /\ PicturesTrue' /\ DocsMapped' /\ CopiedTrue' /\ EndingTrue'
      /\ \A i \in DOMAIN fates' : SourceDone(i)'
      /\ RowsLead' /\ (mergeJob'.smart => ShownOnce')
      /\ Source' = Source /\ \A i : (Contained(i) => Contained(i)') /\ (LinksOf(i) => LinksOf(i)')
      /\ \A n : MappedTo(n) => MappedTo(n)'
      /\ \A x : (CoverKnown(x) => CoverKnown(x)') /\ (ImageKnown(x) => ImageKnown(x)')
      /\ (LinksKnown => LinksKnown') /\ (LinksCopied => LinksCopied') /\ (ShownNext => ShownNext')
  BY Strolling
<1>2. mergeJob' = mergeJob /\ made' = made /\ walker'.nth = walker.nth /\ walker'.copied = walker.copied
  BY DEF Strolls, SameSource
<1>3. PendingTrue'
  <2>1. \A n : n = walker'.walk - 1 => (MappedTo(n)' <=> MappedTo(walker.walk - 1)')
    BY DEF MappedTo, ReadTo
  <2>2. \A n : n = Len(Source.docs) => (MappedTo(n)' <=> MappedTo(Len(Source.docs))')
    BY <1>1 DEF MappedTo, ReadTo
  <2> QED BY <1>1, <2>1, <2>2 DEF PendingTrue
<1>4. MapTrue'
  BY <1>1 DEF MapTrue
<1>5. CoversOnce'
  BY <1>1, <1>2 DEF CoversOnce
<1>6. NavTrue'
  <2>1. Contained(walker.nth) => Contained(walker.nth)'
    BY <1>2 DEF Contained
  <2>2. /\ \A n \in ToSet(made.nav) : n.of <= walker.nth /\ (n.of = walker.nth => walker.stage \in {"others", "end"})
        /\ walker.stage \in {"others", "end"} /\ walker.copied # <<>> => Contained(walker.nth)
    BY DEF MergeInv, NavTrue
  <2> QED BY <1>1, <1>2, <2>1, <2>2 DEF NavTrue
<1>7. SourcesTrue'
  <2>1. LinksOf(walker.nth) => LinksOf(walker.nth)'
    <3>1. \A i : i = walker.nth => (LinksOf(i)' <=> LinksOf(walker.nth)') /\ (LinksOf(i) <=> LinksOf(walker.nth))
      BY <1>2 DEF LinksOf, Chapters, HrefOf, ImagesOf
    <3> QED BY <1>1, <3>1
  <2> QED BY <1>1, <2>1 DEF SourcesTrue
<1> QED BY <1>1, <1>3, <1>4, <1>5, <1>6, <1>7 DEF MergeInv

LEMMA OpenKept == MergeInv /\ OpenSource => MergeInv'
<1> SUFFICES ASSUME MergeInv, OpenSource PROVE MergeInv'
  OBVIOUS
<1>1. walker = OpensNext(walker.nth) /\ walker.nth \in Nat \ {0} /\ walker.nth \in DOMAIN mergeJob.books
  <2>1. mergeJob.books \in Seq(BookForm)
    BY MergeAssumption DEF MergeInv, WalkerTypes
  <2> QED BY <2>1 DEF OpenSource, MergeInv, Position, WalkerTypes
<1>2. CASE SkipsSource
  <2>1. fates' = Append(fates, "skipped") /\ walker' = OpensNext(walker.nth + 1) /\ UNCHANGED <<mergeJob, made, ending>>
    BY <1>2 DEF SkipsSource
  <2> QED BY <1>1, <2>1, SourceLeft DEF OpenSource
<1>3. CASE walker' = [walker EXCEPT !.stage = "images"] /\ UNCHANGED <<mergeJob, made, fates, ending>>
  <2>1. /\ walker'.nth = walker.nth /\ walker'.stage = "images" /\ walker'.walk = 1 /\ walker'.pending = <<>>
        /\ walker'.copied = <<>> /\ walker'.docs = Empty /\ walker'.map = Empty
        /\ walker' = [x \in WalkerFields |-> walker'[x]]
    BY <1>1, <1>3 DEF OpensNext, WalkerFields
  <2>2. walker.pending = <<>> /\ walker.copied = <<>> /\ walker.docs = Empty /\ walker.map = Empty
    BY <1>1 DEF OpensNext
  <2>3. Strolls
    BY <1>1, <1>3, <2>1, <2>2 DEF Strolls, SameSource, WalkIs, MergeStages, Walking, OpenSource
  <2>4. Position'
    <3>1. Source' = Source /\ Walked' = Source.images
      BY <1>3, <2>1 DEF Source, Walked
    <3>2. Len(Source.images) \in Nat
      BY <1>1, SourceForm DEF MergeInv
    <3>3. Len(fates) = walker.nth - 1
      BY <1>1 DEF MergeInv, Position
    <3> QED BY <1>1, <1>3, <2>1, <3>1, <3>2, <3>3 DEF Position, Walking
  <2>5. SeenImages' = 0
    BY <2>1 DEF SeenImages
  <2>6. LinksKnown
    BY <2>2 DEF LinksKnown, Empty
  <2> QED BY <2>1, <2>3, <2>4, <2>5, <2>6, StrollKept DEF OpenSource
<1> QED BY <1>2, <1>3 DEF OpenSource

\* an entry that is passed over
StepsOver == walker' = Stepped(walker) /\ UNCHANGED <<mergeJob, made, fates, ending>>
LEMMA SteppedIs ==
    ASSUME MergeInv, HasItem
    PROVE  /\ LET w == Stepped(walker) IN
              /\ w.nth = walker.nth /\ w.stage = walker.stage /\ w.walk = walker.walk + 1 /\ w.map = walker.map
              /\ w.docs = walker.docs /\ w.pending = walker.pending /\ w.copied = walker.copied
              /\ w = [x \in WalkerFields |-> w[x]] /\ w.walk \in Nat \ {0}
           /\ walker.stage \in InSourceStages /\ walker.stage \in Walking /\ walker.nth \in DOMAIN mergeJob.books
           /\ walker.walk \in 1..Len(Walked) /\ Len(Walked) \in Nat /\ DOMAIN Walked = 1..Len(Walked)
           /\ walker.stage \in MergeStages /\ Item = Walked[walker.walk]
<1>1. walker.stage \in InSourceStages /\ walker.stage \in Walking /\ walker.stage \in MergeStages
  BY AfterIs DEF HasItem, InSource, InSourceStages, Walking, MergeStages
<1>2. walker.nth \in DOMAIN mergeJob.books
  BY <1>1 DEF MergeInv, Position
<1>3. walker = [x \in WalkerFields |-> walker[x]] /\ walker.walk \in Nat \ {0}
  BY DEF MergeInv, WalkerTypes
<1>4. LET w == Stepped(walker) IN
      /\ w.nth = walker.nth /\ w.stage = walker.stage /\ w.walk = walker.walk + 1 /\ w.map = walker.map
      /\ w.docs = walker.docs /\ w.pending = walker.pending /\ w.copied = walker.copied
      /\ w = [x \in WalkerFields |-> w[x]] /\ w.walk \in Nat \ {0}
  BY <1>3 DEF Stepped, WalkerFields
<1>5. Len(Walked) \in Nat /\ DOMAIN Walked = 1..Len(Walked)
  BY <1>2, WalkedForm DEF MergeInv
<1> QED BY <1>1, <1>2, <1>3, <1>4, <1>5 DEF HasItem, Item

LEMMA SteppedOn ==
    ASSUME MergeInv, HasItem, StepsOver, walker.stage \in {"images", "css", "map", "others"},
           walker.stage = "images" => Item.entry # "there",
           walker.stage = "map" => MappedTo(walker.walk)
    PROVE  MergeInv'
<1>1. /\ walker'.nth = walker.nth /\ walker'.stage = walker.stage /\ walker'.walk = walker.walk + 1
      /\ walker'.map = walker.map /\ walker'.docs = walker.docs /\ walker'.pending = walker.pending
      /\ walker'.copied = walker.copied /\ walker' = [x \in WalkerFields |-> walker'[x]] /\ walker'.walk \in Nat \ {0}
      /\ walker.stage \in Walking /\ walker.stage \in MergeStages /\ walker.nth \in DOMAIN mergeJob.books
      /\ walker.walk \in 1..Len(Walked) /\ Len(Walked) \in Nat /\ Item = Walked[walker.walk]
      /\ mergeJob' = mergeJob /\ fates' = fates
  BY SteppedIs DEF StepsOver
<1>2. Strolls
  BY <1>1 DEF Strolls, SameSource, WalkIs, StepsOver
<1>3. Source' = Source /\ Walked' = Walked
  BY <1>1 DEF Source, Walked
<1>4. Position'
  <2>1. InSource' = InSource
    BY <1>1 DEF InSource
  <2> QED BY <1>1, <1>3, <2>1 DEF MergeInv, Position
<1>5. \A k \in 1..SeenImages' : k \in 1..SeenImages \/ (walker.stage = "images" /\ k = walker.walk)
  <2>1. CASE walker.stage = "images"
    BY <2>1, <1>1 DEF SeenImages
  <2>2. CASE walker.stage # "images"
    BY <2>2, <1>1, <1>3 DEF SeenImages
  <2> QED BY <2>1, <2>2
<1>6. \A k \in 1..SeenImages' :
          /\ walker.stage \in {"images", "css", "map"} => ImageKnown(Source.images[k])
          /\ CoverKnown(Source.images[k])
  <2> SUFFICES ASSUME NEW k \in 1..SeenImages'
               PROVE  /\ walker.stage \in {"images", "css", "map"} => ImageKnown(Source.images[k])
                      /\ CoverKnown(Source.images[k])
    OBVIOUS
  <2>1. CASE k \in 1..SeenImages
    BY <2>1, <1>1 DEF MergeInv, MapTrue
  <2>2. CASE walker.stage = "images" /\ k = walker.walk
    <3>1. Source.images[k].entry # "there"
      BY <2>2, <1>1, WalkedIs
    <3> QED BY <3>1 DEF ImageKnown, CoverKnown
  <2> QED BY <2>1, <2>2, <1>5
<1>7. walker'.stage = "map" => MappedTo(walker'.walk - 1)
  <2>1. walker'.walk - 1 = walker.walk
    BY <1>1
  <2> QED BY <2>1, <1>1
<1>8. walker.stage = "others" => MappedTo(Len(Source.docs)) /\ LinksOf(walker.nth)
  BY DEF MergeInv, PendingTrue, SourcesTrue
<1>9. walker.stage \in {"images", "css", "map"} => LinksKnown
  BY DEF MergeInv, MapTrue
<1>10. mergeJob.smart /\ walker.stage = "map" => ShownNext
  BY DEF MergeInv, CoversOnce
<1> QED BY <1>1, <1>2, <1>4, <1>6, <1>7, <1>8, <1>9, <1>10, StrollKept

LEMMA ReadOver ==
    ASSUME MergeInv, HasItem, walker.stage = "map", Item.entry # "there"
    PROVE  MappedTo(walker.walk)
<1> DEFINE n == walker.walk
<1>1. walker.walk \in 1..Len(Source.docs) /\ Item = Source.docs[walker.walk] /\ walker.nth \in DOMAIN mergeJob.books
  BY SteppedIs, WalkedIs
<1>2. MappedTo(walker.walk - 1)
  BY DEF MergeInv, PendingTrue
<1>3. mergeJob.books[walker.nth] = Source
  BY <1>1, SourceForm DEF MergeInv
<1>4. {k \in 1..walker.walk : Source.docs[k].entry = "there"} = {k \in 1..(walker.walk - 1) : Source.docs[k].entry = "there"}
  BY <1>1
<1>5. ReadTo(walker.nth, walker.walk) = ReadTo(walker.nth, walker.walk - 1)
  BY <1>3, <1>4 DEF ReadTo
<1> QED BY <1>2, <1>5 DEF MappedTo

LEMMA MissingKept == MergeInv /\ MissingEntry => MergeInv'
<1> SUFFICES ASSUME MergeInv, MissingEntry PROVE MergeInv'
  OBVIOUS
<1>1. HasItem /\ StepsOver /\ Item.entry # "there"
  BY DEF MissingEntry, StepsOver
<1>2. walker.stage \in {"images", "css", "map", "others"}
  BY <1>1, SteppedIs DEF MissingEntry, InSourceStages
<1> QED BY <1>1, <1>2, ReadOver, SteppedOn

LEMMA BrokenKept == MergeInv /\ BrokenEntry => MergeInv'
<1> SUFFICES ASSUME MergeInv, BrokenEntry PROVE MergeInv'
  OBVIOUS
<1>1. walker.stage \in Walking /\ walker.nth \in DOMAIN mergeJob.books /\ walker.stage # "copy"
  BY SteppedIs DEF BrokenEntry
<1> QED BY <1>1, SourceLeft DEF BrokenEntry, SkipsSource

LEMMA SourceOverKept == MergeInv /\ SourceOver => MergeInv'
<1> SUFFICES ASSUME MergeInv, SourceOver PROVE MergeInv'
  OBVIOUS
<1>1. walker.stage \in Walking /\ walker.nth \in DOMAIN mergeJob.books /\ walker.stage # "copy"
  BY DEF SourceOver, MergeInv, Position, Walking
<1> QED BY <1>1, SourceLeft DEF SourceOver

\* once all documents are written, the links of their source lead where they should
LEMMA LinksLeadOn ==
    ASSUME MergeInv, walker.stage = "copy", walker.walk > Len(walker.pending)
    PROVE  LinksOf(walker.nth)
<1> DEFINE pend == walker.pending
<1>0. PICK i : i = walker.nth
  OBVIOUS
<1>1. pend \in Seq(MappedDoc) /\ DOMAIN pend = 1..Len(pend) /\ Len(pend) \in Nat
  BY DEF MergeInv, WalkerTypes
<1>2. Len(walker.copied) = Len(pend) /\ DOMAIN walker.copied = DOMAIN pend
  <2>1. InSource /\ Walked = pend
    BY AfterIs, WalkedIs DEF InSource, InSourceStages
  <2>2. walker.walk <= Len(pend) + 1 /\ Len(walker.copied) = walker.walk - 1 /\ walker.walk \in Nat
    BY <2>1 DEF MergeInv, Position, WalkerTypes
  <2>3. DOMAIN walker.copied = 1..Len(walker.copied)
    BY DEF MergeInv, WalkerTypes
  <2> QED BY <1>1, <2>2, <2>3
<1>3. LinksKnown /\ LinksCopied /\ \A k \in 1..Len(Source.images) : ImageKnown(Source.images[k])
  BY DEF MergeInv, MapTrue, SeenImages
<1>4. DocsMapped /\ CopiedTrue
  BY DEF MergeInv, PendingTrue
<1>5. \A k \in DOMAIN pend : pend[k].href \in DOMAIN made.files /\ DataOf(pend[k].href) = <<i, pend[k].doc.loc>>
                             /\ pend[k].href[1] = "Text"
  BY <1>0, <1>2, <1>4 DEF CopiedTrue, DocsMapped
<1>6. \A loc \in DOMAIN walker.docs : walker.docs[loc] \in DOMAIN made.files /\ walker.docs[loc][1] = "Text"
                                      /\ DataOf(walker.docs[loc]) = <<i, loc>>
  BY <1>4, <1>5 DEF DocsMapped
<1>7. ASSUME NEW loc, <<i, loc>> \in ToSet(Chapters(i)) PROVE loc \in DOMAIN walker.docs
  <2>1. Chapters(i) = SubSeq(PagesOf(pend), 1, Len(pend))
    BY <1>0, <1>2, <1>4 DEF CopiedTrue
  <2>2. PICK m \in Nat : m = Len(pend)
    BY <1>1
  <2>3. SubSeq(PagesOf(pend), 1, m) = [k \in 1..m |-> PagesOf(pend)[k]]
    BY <2>2
  <2>4. PICK k \in 1..m : <<i, loc>> = PagesOf(pend)[k]
    BY <1>7, <2>1, <2>2, <2>3 DEF ToSet
  <2>5. <<i, loc>> = <<i, pend[k].doc.loc>>
    BY <2>4, <2>2, <1>0, <1>1 DEF PagesOf
  <2> QED BY <2>5, <2>2, <1>1, <1>4 DEF DocsMapped
<1> SUFFICES ASSUME NEW h \in DOMAIN made.files, h[1] = "Text", h[2] = i, NEW l \in made.files[h].links
             PROVE  /\ l[2] # NoHref => l[2] \in DOMAIN made.files
                    /\ <<i, l[1]>> \in ToSet(Chapters(i)) => IsChapter(l[2]) /\ DataOf(l[2]) = <<i, l[1]>>
                    /\ \A x \in ImagesOf(i) : x.loc = l[1] =>
                           l[2] \in DOMAIN made.files /\ l[2][1] = "Images" /\ DataOf(l[2]) = x.data
  BY <1>0 DEF LinksOf
<1>8. l[2] = Link(l[1])
  BY <1>0, <1>2, <1>3, <1>4 DEF CopiedTrue, LinksCopied
<1>9. l[2] # NoHref => l[2] \in DOMAIN made.files
  BY <1>8, <1>3, <1>6 DEF Link, LinksKnown
<1>10. <<i, l[1]>> \in ToSet(Chapters(i)) => IsChapter(l[2]) /\ DataOf(l[2]) = <<i, l[1]>>
  BY <1>3, <1>6, <1>7, <1>8, ChapterIs DEF LinksKnown, Link, MergeInv
<1>11. ASSUME NEW x \in ImagesOf(i), x.loc = l[1]
       PROVE  l[2] \in DOMAIN made.files /\ l[2][1] = "Images" /\ DataOf(l[2]) = x.data
  <2>1. mergeJob.books[i] = Source /\ Source.images \in Seq(ImageForm)
    <3>1. walker.nth \in DOMAIN mergeJob.books
      BY DEF MergeInv, Position, Walking
    <3> QED BY <1>0, <3>1, SourceForm DEF MergeInv
  <2>2. PICK k \in 1..Len(Source.images) : x = Source.images[k]
    BY <2>1 DEF ImagesOf, ToSet
  <2>3. ImageKnown(x) /\ x.entry = "there"
    BY <2>2, <1>3 DEF ImagesOf
  <2> QED BY <2>3, <1>8, <1>11 DEF ImageKnown, Link
<1> QED BY <1>9, <1>10, <1>11

LEMMA StageOverKept == MergeInv /\ StageOver => MergeInv'
<1> SUFFICES ASSUME MergeInv, StageOver PROVE MergeInv'
  OBVIOUS
<1>1. walker.stage \in InSourceStages /\ walker.stage \in Walking /\ walker.nth \in DOMAIN mergeJob.books
  BY AfterIs DEF StageOver, InSource, InSourceStages, Walking, MergeInv, Position
<1>2. walker = [x \in WalkerFields |-> walker[x]] /\ walker.walk \in Nat \ {0} /\ walker.nth \in Nat
  BY DEF MergeInv, WalkerTypes
<1>3. /\ walker'.nth = walker.nth /\ walker'.stage = After[walker.stage] /\ walker'.walk = 1
      /\ walker'.map = walker.map /\ walker'.docs = walker.docs /\ walker'.pending = walker.pending
      /\ walker'.copied = walker.copied /\ walker' = [x \in WalkerFields |-> walker'[x]]
      /\ mergeJob' = mergeJob /\ fates' = fates
  BY <1>2 DEF StageOver, WalkerFields
<1>4. walker'.stage \in {"css", "map", "copy", "nav", "end"}
  BY <1>1, <1>3, AfterIs DEF InSourceStages
<1>5. Strolls
  BY <1>1, <1>3, <1>4 DEF Strolls, SameSource, WalkIs, StageOver, Walking, MergeStages
<1>6. walker.walk = Len(Walked) + 1 /\ Len(Walked) \in Nat
  <2>1. Len(Walked) \in Nat
    BY <1>1, WalkedForm DEF MergeInv
  <2> QED BY <1>2, <2>1 DEF StageOver, MergeInv, Position
<1>7. Source' = Source
  BY <1>3 DEF Source
<1>8. Position'
  <2>1. \A s : walker'.stage = s /\ s \in {"css", "map", "copy"} => Len(Walked') \in Nat
    BY <1>7, <1>1, <1>3, SourceForm DEF Walked, MergeInv, WalkerTypes
  <2>2. InSource' => walker'.walk <= Len(Walked') + 1
    <3>1. InSource' => walker'.stage \in {"css", "map", "copy"}
      BY <1>4, AfterIs DEF InSource, InSourceStages
    <3> QED BY <2>1, <3>1, <1>3
  <2>3. walker.stage = "copy" => Len(walker.copied) = Len(walker.pending)
    BY <1>6, WalkedIs DEF MergeInv, Position
  <2>4. walker.stage = "map" => Len(walker.copied) = 0
    BY DEF MergeInv, Position
  <2>5. Position
    BY DEF MergeInv
  <2>6. walker'.stage \in Walking
    BY <1>4 DEF Walking
  <2>7. walker.nth # 0
    BY <1>1 DEF MergeInv, Position, Walking
  <2>8. \/ walker.stage = "images" /\ walker'.stage = "css"
        \/ walker.stage = "css" /\ walker'.stage = "map"
        \/ walker.stage = "map" /\ walker'.stage = "copy"
        \/ walker.stage = "copy" /\ walker'.stage = "nav"
        \/ walker.stage = "others" /\ walker'.stage = "end"
    BY <1>1, <1>3, AfterIs DEF InSourceStages
  <2> QED BY <1>1, <1>3, <2>2, <2>3, <2>4, <2>5, <2>6, <2>7, <2>8 DEF Position
<1>9. SeenImages' = Len(Source.images) /\ \A k \in 1..Len(Source.images) : k \in 1..SeenImages
  BY <1>4, <1>6, <1>7, WalkedIs DEF SeenImages
<1>10. walker.stage \in {"images", "css", "map"} =>
           LinksKnown /\ \A k \in 1..SeenImages' : ImageKnown(Source.images[k])
  BY <1>9 DEF MergeInv, MapTrue
<1>11. \A k \in 1..SeenImages' : CoverKnown(Source.images[k])
  BY <1>1, <1>9 DEF MergeInv, MapTrue
<1>12. \/ walker.stage = "images" /\ walker'.stage = "css"
       \/ walker.stage = "css" /\ walker'.stage = "map"
       \/ walker.stage = "map" /\ walker'.stage = "copy"
       \/ walker.stage = "copy" /\ walker'.stage = "nav"
       \/ walker.stage = "others" /\ walker'.stage = "end"
  BY <1>1, <1>3, AfterIs DEF InSourceStages
<1>13. walker.stage = "css" => MappedTo(walker'.walk - 1) /\ ShownNext
  <2> SUFFICES ASSUME walker.stage = "css" PROVE MappedTo(0) /\ ShownNext
    BY <1>3
  <2>1. walker.pending = <<>>
    BY DEF MergeInv, Position
  <2>2. ShownNext
    BY <2>1 DEF ShownNext
  <2>3. PagesOf(walker.pending) = <<>>
    BY <2>1 DEF PagesOf
  <2>4. \A list : Len(list) \in Nat => Picked(list, {}) = <<>>
    <3>1. \A list : Len(list) \in Nat => InOrder({}, Len(list)) = <<>>
      BY NoneInOrder
    <3>2. \A list : InOrder({}, Len(list)) = <<>> => Picked(list, {}) = <<>>
      BY DEF Picked
    <3> QED BY <3>1, <3>2
  <2>5. ReadTo(walker.nth, 0) = <<>>
    <3>1. mergeJob.books[walker.nth].docs = Source.docs /\ Source.docs \in Seq(DocForm)
      BY <1>1, SourceForm DEF MergeInv
    <3> DEFINE list == [k \in DOMAIN Source.docs |-> <<walker.nth, Source.docs[k].loc>>]
    <3>2. Len(list) \in Nat
      BY <3>1
    <3>3. {k \in 1..0 : Source.docs[k].entry = "there"} = {}
      OBVIOUS
    <3> HIDE DEF list
    <3>4. Picked(list, {k \in 1..0 : Source.docs[k].entry = "there"}) = <<>>
      BY <3>2, <3>3, <2>4
    <3> QED BY <3>1, <3>4 DEF ReadTo, list
  <2> QED BY <2>2, <2>3, <2>5 DEF MappedTo
<1>14. walker.stage = "map" => MappedTo(Len(Source.docs)) /\ (mergeJob.smart => ShownNext) /\ LinksCopied
  <2> SUFFICES ASSUME walker.stage = "map" PROVE MappedTo(Len(Source.docs)) /\ (mergeJob.smart => ShownNext) /\ LinksCopied
    OBVIOUS
  <2>1. walker.walk - 1 = Len(Source.docs) /\ MappedTo(walker.walk - 1)
    BY <1>6, WalkedIs DEF MergeInv, PendingTrue
  <2>2. walker.copied = <<>>
    BY DEF MergeInv, Position
  <2> QED BY <2>1, <2>2 DEF MergeInv, CoversOnce, LinksCopied
<1>15. walker.stage \in {"copy", "others"} => MappedTo(Len(Source.docs)) /\ LinksOf(walker.nth)
  <2>1. walker.stage = "copy" => LinksOf(walker.nth)
    BY LinksLeadOn, WalkedIs DEF StageOver
  <2> QED BY <2>1 DEF MergeInv, PendingTrue, SourcesTrue
<1> QED BY <1>5, <1>8, <1>10, <1>11, <1>12, <1>13, <1>14, <1>15, StrollKept

-----------------------------------------------------------------------------
(* The documents of a source are mapped *)

LEMMA DocParts == \A d \in DocForm : d.loc \in Locs /\ d.page \in STRING /\ d.entry \in EntryForms
BY DEF DocForm

LEMMA NoCoversAtEnd ==
    ASSUME NEW S, NEW s \in Seq(S), NEW x \in S
    PROVE  NoCovers(Append(s, x)) = IF x \in CoverPages THEN NoCovers(s) ELSE Append(NoCovers(s), x)
<1> DEFINE C == CoverPages
<1> HIDE DEF C
<1>1. LET t == Append(s, x) IN
      Picked(t, {k \in DOMAIN t : t[k] \notin C}) =
      IF x \in C THEN Picked(s, {k \in DOMAIN s : s[k] \notin C})
      ELSE Append(Picked(s, {k \in DOMAIN s : s[k] \notin C}), x)
  BY FilterAtEnd
<1>2. \A t : NoCovers(t) = Picked(t, {k \in DOMAIN t : t[k] \notin C})
  BY DEF NoCovers, C
<1> QED BY <1>1, <1>2 DEF C

LEMMA ReadNext ==
    ASSUME MergeInv, HasItem, walker.stage = "map", Item.entry = "there"
    PROVE  /\ ReadTo(walker.nth, walker.walk - 1) \in Seq(Nat \X Locs) /\ <<walker.nth, Item.loc>> \in Nat \X Locs
           /\ ReadTo(walker.nth, walker.walk) = Append(ReadTo(walker.nth, walker.walk - 1), <<walker.nth, Item.loc>>)
<1>1. walker.walk \in 1..Len(Source.docs) /\ Item = Source.docs[walker.walk] /\ walker.nth \in DOMAIN mergeJob.books
      /\ walker.nth \in Nat
  BY SteppedIs, WalkedIs DEF MergeInv, WalkerTypes
<1>2. mergeJob.books[walker.nth].docs = Source.docs /\ Source.docs \in Seq(DocForm)
  BY <1>1, SourceForm DEF MergeInv
<1>3. PICK n : n = walker.walk
  OBVIOUS
<1>4. PICK i : i = walker.nth
  OBVIOUS
<1>5. PICK docs : docs = Source.docs
  OBVIOUS
<1>6. docs \in Seq(DocForm) /\ n \in 1..Len(docs) /\ Len(docs) \in Nat /\ DOMAIN docs = 1..Len(docs) /\ i \in Nat
  BY <1>1, <1>2, <1>3, <1>4, <1>5
<1> DEFINE list == [k \in DOMAIN docs |-> <<i, docs[k].loc>>]
           P == {k \in 1..n : docs[k].entry = "there"}
           R == {k \in 1..(n - 1) : docs[k].entry = "there"}
<1>7. list \in Seq(Nat \X Locs) /\ Len(list) = Len(docs) /\ list[n] = <<i, docs[n].loc>>
  <2>1. \A k \in DOMAIN docs : docs[k].loc \in Locs
    BY <1>6, DocParts
  <2> QED BY <1>6, <2>1
<1>8. R \cap (1..Len(list)) \subseteq 1..(n - 1) /\ P = R \cup {n}
  BY <1>1, <1>3, <1>5, <1>6
<1>9. ReadTo(i, n) = Picked(list, P) /\ ReadTo(i, n - 1) = Picked(list, R)
  BY <1>2, <1>4, <1>5 DEF ReadTo
<1> HIDE DEF list, P, R
<1>10. Picked(list, P) = Append(Picked(list, R), list[n])
  BY <1>6, <1>7, <1>8, PickedNextPlace
<1>11. Picked(list, R) \in Seq(Nat \X Locs) /\ list[n] \in Nat \X Locs
  BY <1>6, <1>7, PickedFacts
<1> QED BY <1>1, <1>3, <1>4, <1>5, <1>7, <1>9, <1>10, <1>11

\* a cover page that is not taken over
LEMMA CoverPassed ==
    ASSUME MergeInv, HasItem, walker.stage = "map", Item.entry = "there", Item.page = "cover"
    PROVE  MappedTo(walker.walk)
<1>1. MappedTo(walker.walk - 1)
  BY DEF MergeInv, PendingTrue
<1>2. <<walker.nth, Item.loc>> \in CoverPages
  <2>1. walker.walk \in 1..Len(Source.docs) /\ Item = Source.docs[walker.walk] /\ walker.nth \in DOMAIN mergeJob.books
    BY SteppedIs, WalkedIs
  <2>2. mergeJob.books[walker.nth].docs = Source.docs /\ Source.docs \in Seq(DocForm)
    BY <2>1, SourceForm DEF MergeInv
  <2>3. Item \in {x \in ToSet(mergeJob.books[walker.nth].docs) : x.page = "cover"}
    BY <2>1, <2>2 DEF ToSet
  <2> QED BY <2>1, <2>3 DEF CoverPages
<1>3. NoCovers(ReadTo(walker.nth, walker.walk)) = NoCovers(ReadTo(walker.nth, walker.walk - 1))
  BY <1>2, ReadNext, NoCoversAtEnd
<1> QED BY <1>1, <1>3 DEF MappedTo

\* what a document is mapped to
Maps(href) ==
    /\ walker' = [Stepped(Knows(walker, Item.loc, href)) EXCEPT
                      !.docs = WithKey(@, Item.loc, href),
                      !.pending = Append(@, [doc |-> Item, href |-> href])]
    /\ made' = [made EXCEPT !.shown = IF ShownCover(Item) = NoHref THEN @ ELSE @ \cup {ShownCover(Item)}]
    /\ UNCHANGED <<mergeJob, fates, ending>>
LEMMA MapKept ==
    ASSUME MergeInv, HasItem, walker.stage = "map", Item.entry = "there", NEW href \in Href, Maps(href),
           href[1] = "Text", href[2] = walker.nth, href \notin DOMAIN made.files,
           \A p \in ToSet(walker.pending) : p.href # href,
           ShownCover(Item) = NoHref \/ ShownCover(Item) \notin made.shown
    PROVE  MergeInv'
<1>0. PICK n : n = Len(walker.pending)
  OBVIOUS
<1> DEFINE pend == walker.pending
           new == [doc |-> Item, href |-> href]
<1>1. /\ walker.walk \in 1..Len(Source.docs) /\ Item = Source.docs[walker.walk] /\ Item \in DocForm
      /\ walker.nth \in DOMAIN mergeJob.books /\ walker.nth \in Nat \ {0} /\ Item \in ToSet(Source.docs)
      /\ Source.docs \in Seq(DocForm) /\ PathsAreTrue(Source) /\ Source.images \in Seq(ImageForm)
      /\ mergeJob.books[walker.nth] = Source /\ walker.copied = <<>> /\ Len(fates) = walker.nth - 1
  <2>1. walker.walk \in 1..Len(Source.docs) /\ Item = Source.docs[walker.walk] /\ walker.nth \in DOMAIN mergeJob.books
    BY SteppedIs, WalkedIs
  <2>2. Source.docs \in Seq(DocForm) /\ PathsAreTrue(Source) /\ mergeJob.books[walker.nth] = Source
        /\ Source.images \in Seq(ImageForm)
    BY <2>1, SourceForm DEF MergeInv
  <2>3. walker.nth \in Nat \ {0} /\ Len(fates) = walker.nth - 1 /\ walker.copied = <<>>
    BY DEF MergeInv, WalkerTypes, Position
  <2> QED BY <2>1, <2>2, <2>3 DEF ToSet
<1>2. pend \in Seq(MappedDoc) /\ DOMAIN pend = 1..n /\ n \in Nat /\ new \in MappedDoc
  BY <1>0, <1>1 DEF MergeInv, WalkerTypes, MappedDoc
<1>3. walker = [x \in WalkerFields |-> walker[x]] /\ walker.walk \in Nat \ {0}
  BY DEF MergeInv, WalkerTypes
<1>4. /\ walker'.nth = walker.nth /\ walker'.stage = "map" /\ walker'.walk = walker.walk + 1
      /\ walker'.map = WithKey(walker.map, Item.loc, href) /\ walker'.docs = WithKey(walker.docs, Item.loc, href)
      /\ walker'.pending = Append(pend, new) /\ walker'.copied = <<>>
      /\ walker' = [x \in WalkerFields |-> walker'[x]]
      /\ mergeJob' = mergeJob /\ fates' = fates /\ ending' = ending
  BY <1>1, <1>3 DEF Maps, Stepped, Knows, WalkerFields
<1>5. /\ made'.files = made.files /\ made'.manifest = made.manifest /\ made'.spine = made.spine
      /\ made'.nav = made.nav /\ made'.images = made.images /\ made'.sheets = made.sheets /\ made'.cover = made.cover
      /\ made'.shown = (IF ShownCover(Item) = NoHref THEN made.shown ELSE made.shown \cup {ShownCover(Item)})
      /\ made' = [x \in MadeFields |-> made'[x]]
  <2>1. made = [x \in MadeFields |-> made[x]]
    BY DEF MergeInv, MadeTypes
  <2> QED BY <2>1 DEF Maps, MadeFields
<1> HIDE DEF pend, new
<1>6. Grows /\ NoPage /\ MadeTypes' /\ PackageTrue' /\ PicturesTrue' /\ made.shown \subseteq made'.shown
  <2>1. Grows /\ NoPage
    BY <1>4, <1>5 DEF Grows, NoPage
  <2>2. MadeTypes'
    BY <1>5 DEF MergeInv, MadeTypes
  <2>3. PackageTrue'
    BY <1>4, <1>5 DEF MergeInv, PackageTrue, DataOf
  <2>4. PicturesTrue'
    BY <1>5 DEF MergeInv, PicturesTrue, DataOf
  <2> QED BY <2>1, <2>2, <2>3, <2>4, <1>5
<1>7. /\ \A i \in DOMAIN fates : i \in DOMAIN fates' /\ fates'[i] = fates[i] => SourceDone(i)'
      /\ \A i : Chapters(i)' = Chapters(i)
      /\ RowsLead'
      /\ mergeJob.smart => ShownOnce'
  BY <1>5, <1>6, BookKept
<1>8. /\ DOMAIN walker'.pending = 1..(n + 1) /\ walker'.pending[n + 1] = new /\ walker'.pending \in Seq(MappedDoc)
      /\ \A k \in 1..n : walker'.pending[k] = pend[k]
  BY <1>2, <1>4
<1>9. /\ DOMAIN walker'.docs = DOMAIN walker.docs \cup {Item.loc} /\ walker'.docs[Item.loc] = href
      /\ \A l \in DOMAIN walker.docs : l # Item.loc => walker'.docs[l] = walker.docs[l]
      /\ DOMAIN walker'.map = DOMAIN walker.map \cup {Item.loc} /\ walker'.map[Item.loc] = href
      /\ \A l \in DOMAIN walker.map : l # Item.loc => walker'.map[l] = walker.map[l]
  <2>1. PICK l : l = Item.loc
    OBVIOUS
  <2>2. walker'.map = WithKey(walker.map, l, href) /\ walker'.docs = WithKey(walker.docs, l, href)
    BY <1>4, <2>1
  <2>3. /\ DOMAIN walker'.docs = DOMAIN walker.docs \cup {l} /\ walker'.docs[l] = href
        /\ \A x \in DOMAIN walker.docs : x # l => walker'.docs[x] = walker.docs[x]
    BY <2>2 DEF WithKey
  <2>4. /\ DOMAIN walker'.map = DOMAIN walker.map \cup {l} /\ walker'.map[l] = href
        /\ \A x \in DOMAIN walker.map : x # l => walker'.map[x] = walker.map[x]
    BY <2>2 DEF WithKey
  <2> QED BY <2>1, <2>3, <2>4
<1>10. new.doc = Item /\ new.href = href
  BY DEF new
<1>11. Source' = Source
  BY <1>4 DEF Source
<1>12. WalkerTypes'
  <2>1. walker'.nth \in Nat /\ walker'.stage \in MergeStages /\ walker'.walk \in Nat \ {0}
    BY <1>1, <1>3, <1>4 DEF MergeStages
  <2>2. walker'.pending \in Seq(MappedDoc) /\ walker'.copied \in Seq(CopiedDoc)
    BY <1>4, <1>8
  <2>3. WalkerTypes
    BY DEF MergeInv
  <2> QED BY <1>4, <2>1, <2>2, <2>3 DEF WalkerTypes
<1>13. Position'
  <2>1. Walked' = Source.docs
    BY <1>4, <1>11 DEF Walked
  <2> QED BY <1>1, <1>4, <2>1 DEF MergeInv, Position, Walking
<1>14. DocsMapped'
  <2>0. DocsMapped /\ walker.copied = <<>>
    BY <1>1 DEF MergeInv, PendingTrue
  <2>1. ASSUME NEW k \in DOMAIN walker'.pending
        PROVE  LET p == walker'.pending[k] IN
               /\ p.doc \in ToSet(Source.docs) /\ p.doc.loc \in DOMAIN walker'.docs
               /\ p.href[1] = "Text" /\ p.href[2] = walker.nth
               /\ p.href \notin DOMAIN made.files
    <3>1. CASE k = n + 1
      BY <3>1, <1>1, <1>8, <1>9, <1>10
    <3>2. CASE k \in 1..n
      <4>1. LET p == pend[k] IN
            /\ p.doc \in ToSet(Source.docs) /\ p.doc.loc \in DOMAIN walker.docs
            /\ p.href[1] = "Text" /\ p.href[2] = walker.nth /\ p.href \notin DOMAIN made.files
        BY <3>2, <1>2, <2>0 DEF DocsMapped, pend
      <4> QED BY <4>1, <3>2, <1>8, <1>9
    <3> QED BY <3>1, <3>2, <1>2, <1>8
  <2>2. ASSUME NEW j \in DOMAIN walker'.pending, NEW k \in DOMAIN walker'.pending,
               walker'.pending[j].href = walker'.pending[k].href
        PROVE  j = k
    <3>1. \A m \in 1..n : pend[m].href # href
      BY <1>2 DEF ToSet, pend
    <3>2. \A a, b \in 1..n : pend[a].href = pend[b].href => a = b
      BY <2>0, <1>2 DEF DocsMapped, pend
    <3> QED BY <2>2, <3>1, <3>2, <1>2, <1>8, <1>10
  <2>3. ASSUME NEW loc \in DOMAIN walker'.docs
        PROVE  \E k \in DOMAIN walker'.pending :
                   walker'.pending[k].href = walker'.docs[loc] /\ walker'.pending[k].doc.loc = loc
    <3>1. CASE loc = Item.loc
      BY <3>1, <1>2, <1>8, <1>9, <1>10
    <3>2. CASE loc # Item.loc
      <4>1. PICK k \in 1..n : pend[k].href = walker.docs[loc] /\ pend[k].doc.loc = loc
        BY <3>2, <2>0, <1>2, <1>9 DEF DocsMapped, pend
      <4> QED BY <4>1, <3>2, <1>2, <1>8, <1>9
    <3> QED BY <3>1, <3>2
  <2> QED BY <2>1, <2>2, <2>3, <1>4, <1>5, <1>11 DEF DocsMapped
<1>15. PendingTrue'
  <2>1. walker'.walk - 1 = walker.walk
    BY <1>3, <1>4
  <2>2. MappedTo(walker.walk - 1)
    BY DEF MergeInv, PendingTrue
  <2> DEFINE x == <<walker.nth, Item.loc>>
             old == PagesOf(pend)
             read == ReadTo(walker.nth, walker.walk - 1)
  <2>3. old \in Seq(Nat \X Locs) /\ x \in Nat \X Locs /\ Len(old) = n
    <3>1. \A k \in 1..n : pend[k].doc.loc \in Locs
      <4>1. \A p \in MappedDoc : p.doc \in DocForm
        BY DEF MappedDoc
      <4> QED BY <1>2, <4>1, DocParts
    <3>2. Item.loc \in Locs
      BY <1>1, DocParts
    <3>3. old = [k \in 1..n |-> <<walker.nth, pend[k].doc.loc>>]
      BY <1>2 DEF PagesOf
    <3> QED BY <1>1, <1>2, <3>1, <3>2, <3>3
  <2>4. (PagesOf(walker.pending))' = Append(old, x)
    <3>1. (PagesOf(walker.pending))' = [k \in 1..(n + 1) |-> <<walker.nth, walker'.pending[k].doc.loc>>]
      BY <1>4, <1>8 DEF PagesOf
    <3>2. old = [k \in 1..n |-> <<walker.nth, pend[k].doc.loc>>]
      BY <1>2 DEF PagesOf
    <3> QED BY <3>1, <3>2, <2>3, <1>2, <1>8, <1>10
  <2>5. (ReadTo(walker.nth, walker.walk - 1))' = Append(read, x) /\ read \in Seq(Nat \X Locs)
    <3>1. ReadTo(walker.nth, walker.walk) = Append(read, x) /\ read \in Seq(Nat \X Locs)
      BY ReadNext
    <3>2. (ReadTo(walker.nth, walker.walk - 1))' = ReadTo(walker.nth, walker.walk)
      BY <1>4, <2>1 DEF ReadTo
    <3> QED BY <3>1, <3>2
  <2>6. CoverPages' = CoverPages
    BY <1>4 DEF CoverPages
  <2>7. NoCovers(old) = NoCovers(read)
    BY <2>2 DEF MappedTo, pend
  <2> HIDE DEF old, x, read
  <2>8. NoCovers(Append(old, x)) = NoCovers(Append(read, x))
    <3>1. NoCovers(Append(old, x)) = IF x \in CoverPages THEN NoCovers(old) ELSE Append(NoCovers(old), x)
      BY <2>3, NoCoversAtEnd
    <3>2. NoCovers(Append(read, x)) = IF x \in CoverPages THEN NoCovers(read) ELSE Append(NoCovers(read), x)
      BY <2>3, <2>5, NoCoversAtEnd
    <3> QED BY <3>1, <3>2, <2>7
  <2>9. \A s : NoCovers(s)' = NoCovers(s)
    BY <2>6 DEF NoCovers
  <2>10. MappedTo(walker.walk - 1)'
    BY <2>4, <2>5, <2>6, <2>8 DEF MappedTo, NoCovers
  <2> QED BY <1>4, <1>14, <2>10 DEF PendingTrue
<1>16. CopiedTrue'
  <2>1. Chapters(walker.nth)' = Chapters(walker.nth)
    <3>1. ASSUME NEW i, i = walker.nth PROVE Chapters(walker.nth)' = Chapters(i)'
      BY <1>4, <3>1 DEF Chapters, HrefOf
    <3> QED BY <3>1, <1>7
  <2>2. Chapters(walker.nth) = <<>>
    <3>1. Chapters(walker.nth) = SubSeq(PagesOf(walker.pending), 1, 0)
      BY <1>1 DEF MergeInv, CopiedTrue
    <3> QED BY <3>1
  <2>3. SubSeq((PagesOf(walker.pending))', 1, Len(walker'.copied)) = <<>>
    BY <1>4
  <2> QED BY <2>1, <2>2, <2>3, <1>1, <1>4, <1>5 DEF MergeInv, CopiedTrue
<1>17. \A x \in ToSet(Source.images) : x.loc # Item.loc
  BY <1>1 DEF PathsAreTrue
<1>18. MapTrue'
  <2>1. LinksKnown /\ \A k \in 1..Len(Source.images) : ImageKnown(Source.images[k]) /\ CoverKnown(Source.images[k])
    BY DEF MergeInv, MapTrue, SeenImages, Walking
  <2>2. LinksKnown'
    <3>1. href # NoHref
      <4>1. NoHref[1] = ""
        BY DEF NoHref
      <4> QED BY <4>1
    <3> QED BY <2>1, <3>1, <1>5, <1>9 DEF LinksKnown
  <2>3. ASSUME NEW k \in 1..Len(Source.images) PROVE ImageKnown(Source.images[k])' /\ CoverKnown(Source.images[k])'
    <3>1. Source.images[k] \in ToSet(Source.images)
      BY <1>1 DEF ToSet
    <3>2. Source.images[k].loc # Item.loc
      BY <3>1, <1>17
    <3>3. \A x : x.loc # Item.loc /\ ImageKnown(x) => ImageKnown(x)'
      BY <1>5, <1>9 DEF ImageKnown, DataOf
    <3>4. \A x : CoverKnown(x) => CoverKnown(x)'
      BY <1>5, <1>11 DEF CoverKnown
    <3>5. \A x : x = Source.images[k] => x = Source'.images[k]
      BY <1>11
    <3> QED BY <2>1, <3>2, <3>3, <3>4, <1>11 DEF ImageKnown, CoverKnown
  <2>4. SeenImages' = Len(Source.images)
    BY <1>4, <1>11 DEF SeenImages
  <2> QED BY <2>2, <2>3, <2>4, <1>4 DEF MapTrue
<1>19. CoversOnce'
  <2> SUFFICES ASSUME mergeJob.smart PROVE ShownOnce' /\ ShownNext'
    BY <1>4 DEF CoversOnce
  <2>1. ShownOnce /\ ShownNext /\ ShownOnce'
    BY <1>7 DEF MergeInv, CoversOnce
  <2>2. \A h, x : ShowsCover(h, x)' <=> ShowsCover(h, x)
    BY <1>4, <1>5 DEF ShowsCover, DataOf, CoverPages
  <2>3. \A loc : loc # Item.loc => Link(loc)' = Link(loc)
    BY <1>9 DEF Link
  <2>4. \A d, e \in ToSet(Source.docs) : d.image # e.loc
    BY <1>1 DEF PathsAreTrue
  <2>5. \A d \in ToSet(Source.docs) : ShownCover(d)' = ShownCover(d)
    BY <1>1, <1>4, <2>3, <2>4 DEF ShownCover
  <2>6. \A k \in 1..n : WillShow(k)' = WillShow(k)
    <3> SUFFICES ASSUME NEW k \in 1..n PROVE WillShow(k)' = WillShow(k)
      OBVIOUS
    <3>1. pend[k].doc \in ToSet(Source.docs) /\ walker'.pending[k] = pend[k]
      BY <1>2, <1>8 DEF MergeInv, PendingTrue, DocsMapped, pend
    <3>2. WillShow(k) = ShownCover(pend[k].doc)
      BY <1>1 DEF WillShow, pend
    <3>3. PICK d : d = pend[k].doc
      OBVIOUS
    <3>4. WillShow(k)' = ShownCover(d)'
      BY <1>4, <3>1, <3>3 DEF WillShow, ShownCover, Link
    <3> QED BY <3>1, <3>2, <3>3, <3>4, <2>5
  <2>7. \A k : k = n + 1 => WillShow(k)' = ShownCover(Item)
    <3>1. PICK d : d = Item
      OBVIOUS
    <3>2. walker'.pending[n + 1].doc = d
      BY <1>8, <1>10, <3>1
    <3>3. ShownCover(d)' = ShownCover(d) /\ ShownCover(d) = ShownCover(Item)
      BY <3>1, <1>1, <2>5
    <3>4. ASSUME NEW k, k = n + 1 PROVE WillShow(k)' = ShownCover(d)'
      <4>1. walker'.pending[k].doc = d /\ k \notin DOMAIN walker'.copied
        <5>1. DOMAIN walker'.copied = {}
          BY <1>4
        <5>2. walker'.pending[k] = walker'.pending[n + 1]
          BY <3>4
        <5> QED BY <3>2, <5>1, <5>2
      <4> QED BY <4>1 DEF WillShow, ShownCover, Link
    <3> QED BY <3>3, <3>4
  <2>8. ASSUME NEW h \in DOMAIN made.files, NEW x, x # NoHref, ShowsCover(h, x) PROVE x \in made.shown
    <3>1. \E l \in made.files[h].links : l[2] = x
      BY <2>8 DEF ShowsCover
    <3> QED BY <2>1, <2>8, <3>1 DEF ShownOnce
  <2>9. \A k \in 1..n : WillShow(k) # NoHref =>
            /\ WillShow(k) \in made.shown /\ \A h \in DOMAIN made.files : ~ShowsCover(h, WillShow(k))
            /\ \A j \in 1..n : WillShow(j) = WillShow(k) => j = k
    BY <2>1, <1>2 DEF ShownNext, pend
  <2>10. ASSUME NEW k \in 1..(n + 1), WillShow(k)' # NoHref
         PROVE  /\ WillShow(k)' \in made'.shown /\ \A h \in DOMAIN made.files : ~ShowsCover(h, WillShow(k)')
                /\ \A j \in 1..(n + 1) : WillShow(j)' = WillShow(k)' => j = k
    <3>1. PICK x : x = WillShow(k)'
      OBVIOUS
    <3>2. CASE k \in 1..n
      <4>1. x = WillShow(k) /\ x \in made.shown
        BY <3>1, <3>2, <2>6, <2>9, <2>10
      <4>2. \A j \in 1..(n + 1) : j \in 1..n \/ j = n + 1
        BY <1>2
      <4>3. WillShow(n + 1)' # x
        BY <2>7, <4>1, <2>10, <3>1
      <4> QED BY <4>1, <4>2, <4>3, <3>1, <3>2, <2>6, <2>9, <2>10, <1>6
    <3>3. CASE k = n + 1
      <4>1. x = ShownCover(Item) /\ x \notin made.shown /\ x \in made'.shown
        BY <3>1, <3>3, <2>7, <2>10, <1>5
      <4>2. \A j \in 1..n : WillShow(j)' # x
        BY <4>1, <3>1, <2>6, <2>9, <2>10
      <4>3. \A j \in 1..(n + 1) : j \in 1..n \/ j = n + 1
        BY <1>2
      <4> QED BY <4>1, <4>2, <4>3, <3>1, <3>3, <2>8, <2>10
    <3> QED BY <3>2, <3>3, <1>2
  <2>11. ShownNext'
    <3>1. DOMAIN made'.files = DOMAIN made.files
      BY <1>5
    <3>2. \A k, h : ShowsCover(h, WillShow(k))' <=> ShowsCover(h, WillShow(k)')
      BY <1>4, <1>5 DEF ShowsCover, DataOf, CoverPages
    <3> QED BY <2>10, <3>1, <3>2, <1>8 DEF ShownNext
  <2> QED BY <2>1, <2>11
<1>20. NavTrue'
  <2>1. \A m \in ToSet(made.nav) : m.of <= walker.nth /\ m.of # walker.nth
    BY DEF MergeInv, NavTrue
  <2> QED BY <2>1, <1>4, <1>5, <1>7 DEF NavTrue
<1>21. SourcesTrue'
  BY <1>4, <1>7 DEF SourcesTrue
<1>22. EndingTrue'
  BY <1>4 DEF MergeInv, EndingTrue
<1> QED BY <1>6, <1>12, <1>13, <1>15, <1>16, <1>18, <1>19, <1>20, <1>21, <1>22 DEF MergeInv

\* which of the two ways a document goes
LEMMA MapDocumentKept == MergeInv /\ MapDocument => MergeInv'
<1> SUFFICES ASSUME MergeInv, MapDocument PROVE MergeInv'
  OBVIOUS
<1>1. HasItem /\ walker.stage = "map" /\ Item.entry = "there"
  BY DEF MapDocument, Stored
<1>2. CASE ShownCover(Item) # NoHref /\ ShownCover(Item) \in made.shown
  <2>1. StepsOver
    BY <1>2 DEF MapDocument, StepsOver
  <2>2. Item.page = "cover"
    BY <1>2 DEF ShownCover
  <2> QED BY <1>1, <2>1, <2>2, CoverPassed, SteppedOn
<1>3. CASE ~(ShownCover(Item) # NoHref /\ ShownCover(Item) \in made.shown)
  <2>1. Maps(UniqueHref("Text", walker.nth, OutputName(Item)))
    BY <1>3 DEF MapDocument, Maps
  <2>2. walker.nth \in Nat /\ "Text" \in Dirs /\ OutputName(Item) \in NameForm
    <3>1. walker.walk \in 1..Len(Source.docs) /\ Item = Source.docs[walker.walk] /\ walker.nth \in DOMAIN mergeJob.books
      BY <1>1, SteppedIs, WalkedIs
    <3>2. Item \in DocForm
      BY <3>1, SourceForm DEF MergeInv
    <3>3. Item.loc \in Locs
      BY <3>2, DocParts
    <3>4. Item.loc[2] \in STRING
      BY <3>3 DEF Locs
    <3> QED BY <3>4 DEF MergeInv, WalkerTypes, Dirs, OutputName, NameForm
  <2>3. LET href == UniqueHref("Text", walker.nth, OutputName(Item)) IN
        /\ href \in Href /\ href[1] = "Text" /\ href[2] = walker.nth
        /\ href \notin DOMAIN made.files /\ \A p \in ToSet(walker.pending) : p.href # href
    BY <2>2, NewName DEF MergeInv
  <2> QED BY <1>1, <1>3, <2>1, <2>3, MapKept
<1> QED BY <1>2, <1>3

-----------------------------------------------------------------------------
(* Pictures, style sheets and what else is in a book *)

\* one more file that is no page, declared at the end
StoresOne(kind, href) ==
    /\ mergeJob' = mergeJob /\ made' = [x \in MadeFields |-> made'[x]]
    /\ DOMAIN made'.files = DOMAIN made.files \cup {href} /\ made'.files[href].kind = kind
    /\ \A h \in DOMAIN made.files : h # href => made'.files[h] = made.files[h]
    /\ made'.manifest \in Seq(Declared) /\ Len(made'.manifest) = Len(made.manifest) + 1
    /\ \A k \in DOMAIN made.manifest : /\ made'.manifest[k].id = made.manifest[k].id
                                       /\ made'.manifest[k].kind = made.manifest[k].kind
                                       /\ made'.manifest[k].href = made.manifest[k].href
    /\ LET m == made'.manifest[Len(made.manifest) + 1]
       IN m.id = <<kind, walker.nth, Len(made.manifest)>> /\ m.kind = kind /\ m.href = href
    /\ made'.spine = made.spine /\ made'.nav = made.nav
    /\ made'.cover \in Nat /\ (made.cover # 0 => made'.cover # 0)
LEMMA OneStored ==
    ASSUME MergeInv, NEW kind \in Kinds \ {"html"}, NEW href \in Href, StoresOne(kind, href), href # NoHref,
           href[1] = DirOf[kind], kind = "img" => href \notin DOMAIN made.files,
           walker'.nth = walker.nth
    PROVE  Grows /\ NoPage /\ MadeTypes' /\ PackageTrue'
<1>0. PICK n : n = Len(made.manifest)
  OBVIOUS
<1>1. n \in Nat /\ DOMAIN made.manifest = 1..n /\ DOMAIN made'.manifest = 1..(n + 1) /\ made.manifest \in Seq(Declared)
      /\ walker.nth \in Nat /\ href[1] # "Text" /\ (href[1] = "Images" <=> kind = "img")
  BY <1>0, DirsApart DEF MergeInv, MadeTypes, WalkerTypes, StoresOne
<1>2. /\ \A k \in 1..n : /\ made'.manifest[k].id = made.manifest[k].id
                         /\ made'.manifest[k].kind = made.manifest[k].kind
                         /\ made'.manifest[k].href = made.manifest[k].href
      /\ made'.manifest[n + 1].id = <<kind, walker.nth, n>> /\ made'.manifest[n + 1].kind = kind
      /\ made'.manifest[n + 1].href = href
  BY <1>0, <1>1 DEF StoresOne
<1>3. Grows
  BY <1>1, <1>2 DEF Grows, StoresOne
<1>4. NoPage
  BY <1>1 DEF NoPage, StoresOne
<1>5. MadeTypes'
  <2>1. IsFiniteSet(DOMAIN made.files \cup {href})
    BY FS_AddElement DEF MergeInv, MadeTypes
  <2> QED BY <2>1 DEF MergeInv, MadeTypes, StoresOne
<1>6. PackageTrue'
  <2>0. PackageTrue
    BY DEF MergeInv
  <2>1. ASSUME NEW h \in DOMAIN made'.files
        PROVE  /\ made'.files[h].kind \in Kinds /\ h[1] = DirOf[made'.files[h].kind]
               /\ h[1] = "Text" => made'.files[h].data[1] = h[2]
    BY <2>0, <1>1 DEF PackageTrue, StoresOne, DataOf
  <2>2. ASSUME NEW k \in DOMAIN made'.manifest
        PROVE  LET m == made'.manifest[k] IN
               /\ m.id[1] = m.kind /\ m.href \in DOMAIN made'.files /\ m.href[1] = DirOf[m.kind]
               /\ IF m.kind = "html" THEN m.id[2] = m.href[2] /\ \E s \in DOMAIN made'.spine : made'.spine[s] = m.id
                  ELSE m.id[3] = k - 1
    <3>1. CASE k = n + 1
      <4>1. made'.manifest[k].id = <<kind, walker.nth, n>> /\ made'.manifest[k].kind = kind /\ made'.manifest[k].href = href
        BY <3>1, <1>2
      <4> QED BY <4>1, <3>1, <1>1 DEF StoresOne
    <3>2. CASE k \in 1..n
      <4>1. LET m == made.manifest[k] IN
            /\ m.id[1] = m.kind /\ m.href \in DOMAIN made.files /\ m.href[1] = DirOf[m.kind]
            /\ IF m.kind = "html" THEN m.id[2] = m.href[2] /\ \E s \in DOMAIN made.spine : made.spine[s] = m.id
               ELSE m.id[3] = k - 1
        BY <3>2, <2>0, <1>1 DEF PackageTrue
      <4>2. made'.spine = made.spine /\ DOMAIN made.files \subseteq DOMAIN made'.files
        BY DEF StoresOne
      <4> QED BY <3>2, <4>1, <4>2, <1>2
    <3> QED BY <3>1, <3>2, <1>1
  <2>3. ASSUME NEW s \in DOMAIN made'.spine
        PROVE  /\ made'.spine[s][1] = "html" /\ made'.spine[s][3] = s - 1 /\ made'.spine[s][2] \in 1..walker'.nth
               /\ \E k \in DOMAIN made'.manifest : made'.manifest[k].id = made'.spine[s]
    <3>1. s \in DOMAIN made.spine /\ made'.spine = made.spine
      BY DEF StoresOne
    <3>2. PICK k \in 1..n : made.manifest[k].id = made.spine[s]
      BY <3>1, <2>0, <1>1 DEF PackageTrue
    <3>3. k \in DOMAIN made'.manifest /\ made'.manifest[k].id = made'.spine[s]
      BY <3>1, <3>2, <1>1, <1>2
    <3> QED BY <3>1, <3>3, <2>0 DEF PackageTrue
  <2>4. \A a, b \in DOMAIN made'.spine : a < b => made'.spine[a][2] <= made'.spine[b][2]
    BY <2>0 DEF PackageTrue, StoresOne
  <2>5. ASSUME NEW a \in 1..n
        PROVE  /\ made'.manifest[a].id # made'.manifest[n + 1].id
               /\ made'.manifest[a].kind \in {"img", "html"} \/ kind \in {"img", "html"} =>
                      made'.manifest[a].href # made'.manifest[n + 1].href
    <3>1. /\ made.manifest[a].id[1] = made.manifest[a].kind /\ made.manifest[a].href \in DOMAIN made.files
          /\ made.manifest[a].kind # "html" => made.manifest[a].id[3] = a - 1
          /\ made.manifest[a].href[1] = DirOf[made.manifest[a].kind] /\ made.manifest[a].kind \in Kinds
      <4>1. \A m \in Declared : m.kind \in Kinds
        BY DEF Declared
      <4>2. made.manifest[a] \in Declared /\ a \in DOMAIN made.manifest
        BY <1>1
      <4>3. made.manifest[a].kind \in Kinds
        BY <4>1, <4>2
      <4> QED BY <2>0, <4>2, <4>3 DEF PackageTrue
    <3>2. made.manifest[a].id # <<kind, walker.nth, n>>
      <4>1. CASE made.manifest[a].kind = "html"
        <5>1. <<kind, walker.nth, n>>[1] = kind
          OBVIOUS
        <5> QED BY <3>1, <4>1, <5>1
      <4>2. CASE made.manifest[a].kind # "html"
        <5>1. <<kind, walker.nth, n>>[3] = n /\ a - 1 # n
          BY <1>1
        <5> QED BY <3>1, <4>2, <5>1
      <4> QED BY <4>1, <4>2
    <3>3. made.manifest[a].kind \in {"img", "html"} \/ kind \in {"img", "html"} => made.manifest[a].href # href
      BY <3>1, <1>1, DirsApart
    <3> QED BY <3>2, <3>3, <1>2
  <2>6. ASSUME NEW a \in DOMAIN made'.manifest, NEW b \in DOMAIN made'.manifest, a # b
        PROVE  /\ made'.manifest[a].id # made'.manifest[b].id
               /\ made'.manifest[a].kind \in {"img", "html"} => made'.manifest[a].href # made'.manifest[b].href
    <3>1. CASE a \in 1..n /\ b \in 1..n
      <4>1. /\ made.manifest[a].id # made.manifest[b].id
            /\ made.manifest[a].kind \in {"img", "html"} => made.manifest[a].href # made.manifest[b].href
        BY <2>0, <2>6, <3>1, <1>1 DEF PackageTrue
      <4> QED BY <3>1, <4>1, <1>2
    <3>2. CASE a \in 1..n /\ b = n + 1
      BY <3>2, <2>5
    <3>3. CASE a = n + 1 /\ b \in 1..n
      BY <3>3, <2>5, <1>2
    <3> QED BY <3>1, <3>2, <3>3, <2>6, <1>1
  <2> QED BY <2>1, <2>2, <2>3, <2>4, <2>6 DEF PackageTrue, DataOf
<1> QED BY <1>3, <1>4, <1>5, <1>6

\* what is known under a name that is not a page's
Stores(href) ==
    /\ walker' = Stepped(Knows(walker, Item.loc, href)) /\ UNCHANGED <<mergeJob, fates, ending>>
    /\ made'.spine = made.spine /\ made'.nav = made.nav /\ made'.shown = made.shown
    /\ href \in DOMAIN made'.files
LEMMA StoredKept ==
    ASSUME MergeInv, HasItem, walker.stage \in {"images", "css", "others"}, Item.entry = "there",
           NEW href, Stores(href), Grows, NoPage, MadeTypes', PackageTrue', PicturesTrue',
           walker.stage = "images" =>
               /\ href[1] = "Images" /\ made'.files[href].data = Item.data
               /\ Item.loc = Source.cover => made'.cover # 0
    PROVE  MergeInv'
<1>1. /\ walker.stage \in Walking /\ walker.stage \in MergeStages /\ walker.nth \in DOMAIN mergeJob.books
      /\ walker.walk \in 1..Len(Walked) /\ Len(Walked) \in Nat /\ Item = Walked[walker.walk]
  BY SteppedIs
<1>2. walker = [x \in WalkerFields |-> walker[x]] /\ walker.walk \in Nat \ {0} /\ walker.nth \in Nat
  BY DEF MergeInv, WalkerTypes
<1>3. /\ walker'.nth = walker.nth /\ walker'.stage = walker.stage /\ walker'.walk = walker.walk + 1
      /\ walker'.map = WithKey(walker.map, Item.loc, href) /\ walker'.docs = walker.docs
      /\ walker'.pending = walker.pending /\ walker'.copied = walker.copied
      /\ walker' = [x \in WalkerFields |-> walker'[x]]
      /\ mergeJob' = mergeJob /\ fates' = fates /\ ending' = ending
  BY <1>2 DEF Stores, Stepped, Knows, WalkerFields
<1>4. DOMAIN walker'.map = DOMAIN walker.map \cup {Item.loc} /\ walker'.map[Item.loc] = href
      /\ \A loc \in DOMAIN walker.map : loc # Item.loc => walker'.map[loc] = walker.map[loc]
  BY <1>3 DEF WithKey
<1>5. /\ DocsMapped' /\ CopiedTrue' /\ Source' = Source
      /\ \A n : MappedTo(n) => MappedTo(n)'
      /\ \A x : CoverKnown(x) => CoverKnown(x)'
  <2>1. SameSource
    BY <1>3 DEF SameSource
  <2> QED BY <2>1, SourceWalked DEF Stores
<1>6. /\ \A i \in DOMAIN fates' : SourceDone(i)'
      /\ \A i : (LinksOf(i) => LinksOf(i)') /\ (Contained(i) => Contained(i)')
      /\ RowsLead' /\ (mergeJob'.smart => ShownOnce')
  BY <1>3, BookKept DEF Stores
<1>7. Walked' = Walked
  BY <1>1, <1>3, <1>5, WalkedIs DEF Walked
<1>8. WalkerTypes'
  BY <1>1, <1>2, <1>3 DEF MergeInv, WalkerTypes
<1>9. Position'
  <2>1. InSource' = InSource
    BY <1>3 DEF InSource
  <2> QED BY <1>1, <1>2, <1>3, <1>7, <2>1 DEF MergeInv, Position
<1>10. PendingTrue'
  <2>1. \A n : n = Len(Source.docs) => (MappedTo(n)' <=> MappedTo(Len(Source.docs))')
    BY <1>5 DEF MappedTo, ReadTo
  <2> QED BY <1>3, <1>5, <2>1 DEF MergeInv, PendingTrue
<1>11. /\ Source.images \in Seq(ImageForm) /\ PathsAreTrue(Source)
       /\ walker.stage = "images" => Item = Source.images[walker.walk] /\ walker.walk \in 1..Len(Source.images)
       /\ walker.stage = "css" => Item \in ToSet(Source.css)
       /\ Len(Source.images) \in Nat
  <2>1. Source.images \in Seq(ImageForm) /\ PathsAreTrue(Source) /\ Source.css \in Seq(SheetForm)
    BY <1>1, SourceForm DEF MergeInv
  <2> QED BY <2>1, <1>1, WalkedIs DEF ToSet
<1>12. MapTrue'
  <2>1. \A k \in 1..SeenImages' : k \in 1..SeenImages \/ (walker.stage = "images" /\ k = walker.walk)
    <3>1. CASE walker.stage = "images"
      BY <3>1, <1>3, <1>2 DEF SeenImages
    <3>2. CASE walker.stage # "images"
      BY <3>2, <1>3, <1>5 DEF SeenImages
    <3> QED BY <3>1, <3>2
  <2>2. \A k \in 1..SeenImages' : k \in 1..Len(Source.images)
    <3>1. CASE walker.stage = "images"
      BY <3>1, <1>2, <1>3, <1>11 DEF SeenImages
    <3>2. CASE walker.stage # "images"
      BY <3>2, <1>3, <1>5 DEF SeenImages
    <3> QED BY <3>1, <3>2
  <2>3. ASSUME NEW k \in 1..SeenImages' PROVE CoverKnown(Source.images[k])'
    <3>0. \A x : CoverKnown(x)' <=> (x.entry = "there" /\ x.loc = Source.cover => made'.cover # 0)
      BY <1>5 DEF CoverKnown
    <3>1. CASE k \in 1..SeenImages
      <4>1. CoverKnown(Source.images[k])
        BY <1>1, <3>1 DEF MergeInv, MapTrue
      <4>2. PICK x : x = Source.images[k]
        OBVIOUS
      <4>3. CoverKnown(x)'
        BY <4>1, <4>2, <1>5
      <4> QED BY <4>2, <4>3, <1>5 DEF CoverKnown
    <3>2. CASE walker.stage = "images" /\ k = walker.walk
      BY <3>2, <1>5, <1>11 DEF CoverKnown
    <3> QED BY <2>1, <3>1, <3>2
  <2>4. ASSUME walker.stage \in {"images", "css"} PROVE LinksKnown'
    <3>1. walker.docs = Empty /\ LinksKnown
      BY <2>4 DEF MergeInv, Position, MapTrue
    <3>2. href # NoHref
      BY DEF Stores, MadeTypes
    <3>3. DOMAIN walker.docs = {}
      BY <3>1 DEF Empty
    <3> QED BY <3>1, <3>2, <3>3, <1>3, <1>4 DEF LinksKnown, Stores, Grows
  <2>5. ASSUME walker.stage \in {"images", "css"}, NEW k \in 1..SeenImages' PROVE ImageKnown(Source.images[k])'
    <3>1. PICK x : x = Source.images[k]
      OBVIOUS
    <3>2. x \in ToSet(Source.images)
      BY <2>2, <3>1, <1>11 DEF ToSet
    <3>3. ImageKnown(x)' <=>
              (x.entry = "there" =>
                  /\ x.loc \in DOMAIN walker'.map /\ walker'.map[x.loc] \in DOMAIN made'.files
                  /\ made'.files[walker'.map[x.loc]].data = x.data /\ walker'.map[x.loc][1] = "Images")
      BY DEF ImageKnown, DataOf
    <3>4. CASE x.loc = Item.loc
      <4>1. walker.stage = "images"
        BY <3>2, <3>4, <1>11, <2>5 DEF PathsAreTrue
      <4>2. Item \in ToSet(Source.images)
        BY <4>1, <1>11 DEF ToSet
      <4>3. x.data = Item.data
        BY <3>2, <3>4, <4>2, <1>11 DEF PathsAreTrue
      <4> QED BY <3>3, <3>4, <4>1, <4>3, <1>4, <1>5, <3>1 DEF Stores, ImageKnown, DataOf
    <3>5. CASE x.loc # Item.loc
      <4>1. k \in 1..SeenImages
        BY <2>1, <3>1, <3>5, <1>11
      <4>2. ImageKnown(x)
        BY <4>1, <3>1, <2>5 DEF MergeInv, MapTrue
      <4>3. \A h \in DOMAIN made.files : h[1] = "Images" => h \in DOMAIN made'.files /\ made'.files[h] = made.files[h]
        BY DEF Grows
      <4> QED BY <4>2, <4>3, <3>1, <3>3, <3>5, <1>4, <1>5 DEF ImageKnown, DataOf
    <3> QED BY <3>4, <3>5
  <2>6. walker'.stage \in {"images", "css", "others"}
    BY <1>3
  <2> QED BY <2>3, <2>4, <2>5, <2>6, <1>3 DEF MapTrue
<1>13. CoversOnce'
  BY <1>3, <1>6 DEF CoversOnce
<1>14. NavTrue'
  <2>1. /\ \A n \in ToSet(made.nav) : n.of <= walker.nth /\ (n.of = walker.nth => walker.stage \in {"others", "end"})
        /\ walker.stage \in {"others", "end"} /\ walker.copied # <<>> => Contained(walker.nth)
    BY DEF MergeInv, NavTrue
  <2>2. Contained(walker.nth) => Contained(walker.nth)'
    BY <1>3 DEF Contained, Stores
  <2> QED BY <1>3, <1>6, <2>1, <2>2 DEF NavTrue, Stores
<1>15. SourcesTrue'
  <2>1. LinksOf(walker.nth) => LinksOf(walker.nth)'
    <3>1. PICK i : i = walker.nth
      OBVIOUS
    <3>2. LinksOf(i)' => LinksOf(walker.nth)'
      BY <1>3, <3>1 DEF LinksOf, Chapters, HrefOf, ImagesOf
    <3> QED BY <1>6, <3>1, <3>2
  <2> QED BY <1>3, <1>6, <2>1 DEF MergeInv, SourcesTrue
<1>16. EndingTrue'
  BY <1>1, <1>3 DEF MergeInv, EndingTrue, Walking
<1> QED BY <1>5, <1>8, <1>9, <1>10, <1>12, <1>13, <1>14, <1>15, <1>16 DEF MergeInv

\* the pictures, and the cover, where a file of another kind is stored
LEMMA PicturesStay ==
    ASSUME MergeInv, Grows, NEW kind, NEW href, StoresOne(kind, href),
           made'.images = made.images, made'.cover = made.cover,
           \A t \in DOMAIN made'.sheets : (t \in DOMAIN made.sheets /\ made'.sheets[t] = made.sheets[t]) \/ made'.sheets[t] = href,
           ~made'.manifest[Len(made.manifest) + 1].cover,
           \A k \in DOMAIN made.manifest : made'.manifest[k].cover = made.manifest[k].cover
    PROVE  PicturesTrue'
<1>1. PicturesTrue
  BY DEF MergeInv
<1>2. ASSUME NEW d \in DOMAIN made'.images
      PROVE  /\ made'.images[d] \in DOMAIN made'.files /\ made'.images[d][1] = "Images"
             /\ made'.files[made'.images[d]].data = d
             /\ \E k \in DOMAIN made'.manifest : made'.manifest[k].href = made'.images[d]
  <2>1. /\ made.images[d] \in DOMAIN made.files /\ made.images[d][1] = "Images"
        /\ made.files[made.images[d]].data = d
        /\ \E k \in DOMAIN made.manifest : made.manifest[k].href = made.images[d]
    BY <1>1 DEF PicturesTrue, DataOf
  <2> QED BY <2>1 DEF Grows
<1>3. \A t \in DOMAIN made'.sheets : made'.sheets[t] \in DOMAIN made'.files
  BY <1>1 DEF PicturesTrue, Grows, StoresOne
<1>4. {k \in DOMAIN made'.manifest : made'.manifest[k].cover} = {k \in DOMAIN made.manifest : made.manifest[k].cover}
  <2>1. PICK n : n = Len(made.manifest)
    OBVIOUS
  <2>2. DOMAIN made.manifest = 1..n /\ DOMAIN made'.manifest = 1..(n + 1) /\ n \in Nat
    BY <2>1 DEF MergeInv, MadeTypes, StoresOne
  <2>3. \A k \in 1..(n + 1) : k \in 1..n \/ k = n + 1
    BY <2>2
  <2> QED BY <2>1, <2>2, <2>3
<1> QED BY <1>1, <1>2, <1>3, <1>4 DEF PicturesTrue, DataOf

\* a style sheet, or what else there is
LEMMA OneStoredKept ==
    ASSUME MergeInv, HasItem, NEW kind \in {"css", "res"}, NEW href \in Href, Stores(href), StoresOne(kind, href),
           Item.entry = "there", href[1] = DirOf[kind], walker.stage = IF kind = "css" THEN "css" ELSE "others",
           made'.images = made.images, made'.cover = made.cover,
           \A t \in DOMAIN made'.sheets : (t \in DOMAIN made.sheets /\ made'.sheets[t] = made.sheets[t]) \/ made'.sheets[t] = href,
           ~made'.manifest[Len(made.manifest) + 1].cover,
           \A k \in DOMAIN made.manifest : made'.manifest[k].cover = made.manifest[k].cover
    PROVE  MergeInv'
<1>1. kind \in Kinds \ {"html"} /\ kind # "img"
  BY DEF Kinds
<1>2. href # NoHref /\ href[1] # "Images"
  <2>1. DirOf["css"] = "Styles" /\ DirOf["res"] = "Resources" /\ NoHref[1] = ""
    BY DEF DirOf, NoHref
  <2> QED BY <2>1
<1>3. walker'.nth = walker.nth
  BY DEF Stores, Stepped, Knows, MergeInv, WalkerTypes, WalkerFields
<1>4. Grows /\ NoPage /\ MadeTypes' /\ PackageTrue'
  BY <1>1, <1>2, <1>3, OneStored
<1>5. PicturesTrue'
  BY <1>4, PicturesStay
<1> QED BY <1>4, <1>5, StoredKept

\* what is declared at the end of the package
EndsWith(new, book, kind, href) ==
    /\ new = [x \in MadeFields |-> new[x]]
    /\ new.files = book.files /\ new.spine = book.spine /\ new.nav = book.nav /\ new.images = book.images
    /\ new.sheets = book.sheets /\ new.shown = book.shown /\ new.cover = book.cover
    /\ new.manifest \in Seq(Declared) /\ Len(new.manifest) = Len(made.manifest) + 1
    /\ \A k \in DOMAIN made.manifest : new.manifest[k] = made.manifest[k]
    /\ new.manifest[Len(made.manifest) + 1] =
           [id |-> <<kind, walker.nth, Len(made.manifest)>>, kind |-> kind, href |-> href, cover |-> FALSE]
LEMMA DeclaredIs ==
    ASSUME MergeInv, NEW book, book = [x \in MadeFields |-> book[x]], book.manifest = made.manifest,
           NEW kind \in Kinds, NEW href \in Href, NEW new, new = Declares(book, kind, href)
    PROVE  EndsWith(new, book, kind, href)
<1>1. PICK m : m = [id |-> <<kind, walker.nth, Len(made.manifest)>>, kind |-> kind, href |-> href, cover |-> FALSE]
  OBVIOUS
<1>2. made.manifest \in Seq(Declared) /\ m \in Declared
  <2>1. made.manifest \in Seq(Declared) /\ walker.nth \in Nat
    BY DEF MergeInv, MadeTypes, WalkerTypes
  <2>2. Len(made.manifest) \in Nat
    BY <2>1
  <2>3. <<kind, walker.nth, Len(made.manifest)>> \in EntryIds
    BY <2>1, <2>2 DEF EntryIds
  <2> QED BY <1>1, <2>1, <2>3 DEF Declared
<1>3. new = [book EXCEPT !.manifest = Append(made.manifest, m)]
  BY <1>1 DEF Declares
<1>4. /\ new = [x \in MadeFields |-> new[x]]
      /\ new.files = book.files /\ new.spine = book.spine /\ new.nav = book.nav /\ new.images = book.images
      /\ new.sheets = book.sheets /\ new.shown = book.shown /\ new.cover = book.cover
      /\ new.manifest = Append(made.manifest, m)
  BY <1>3 DEF MadeFields
<1>5. LET list == Append(made.manifest, m) IN
      /\ list \in Seq(Declared) /\ Len(list) = Len(made.manifest) + 1
      /\ \A k \in DOMAIN made.manifest : list[k] = made.manifest[k]
      /\ list[Len(made.manifest) + 1] = m
  BY <1>2
<1> QED BY <1>1, <1>4, <1>5 DEF EndsWith

\* a file that is written and declared
LEMMA WrittenIs ==
    ASSUME MergeInv, NEW book, book = [x \in MadeFields |-> book[x]], book.manifest = made.manifest,
           book.files = made.files, book.spine = made.spine, book.nav = made.nav, book.cover = made.cover,
           NEW kind \in Kinds, NEW href \in Href, NEW data, NEW links, NEW parses, mergeJob' = mergeJob,
           made' = Declares(StoresFile(book, href, kind, data, links, parses), kind, href)
    PROVE  /\ StoresOne(kind, href) /\ made'.files[href].data = data
           /\ made'.images = book.images /\ made'.sheets = book.sheets /\ made'.shown = book.shown
           /\ made'.cover = made.cover /\ ~made'.manifest[Len(made.manifest) + 1].cover
           /\ \A k \in DOMAIN made.manifest : made'.manifest[k] = made.manifest[k]
<1>1. PICK b : b = StoresFile(book, href, kind, data, links, parses)
  OBVIOUS
<1>2. /\ b = [x \in MadeFields |-> b[x]] /\ b.manifest = made.manifest /\ b.spine = made.spine /\ b.nav = made.nav
      /\ b.images = book.images /\ b.sheets = book.sheets /\ b.shown = book.shown /\ b.cover = made.cover
      /\ b.files = WithKey(made.files, href, [kind |-> kind, data |-> data, links |-> links, parses |-> parses])
  BY <1>1 DEF StoresFile, MadeFields
<1>3. DOMAIN b.files = DOMAIN made.files \cup {href} /\ b.files[href].kind = kind /\ b.files[href].data = data
      /\ \A h \in DOMAIN made.files : h # href => b.files[h] = made.files[h]
  BY <1>2 DEF WithKey
<1>4. made' = Declares(b, kind, href)
  BY <1>1
<1>5. /\ made' = [x \in MadeFields |-> made'[x]]
      /\ made'.files = b.files /\ made'.spine = b.spine /\ made'.nav = b.nav /\ made'.images = b.images
      /\ made'.sheets = b.sheets /\ made'.shown = b.shown /\ made'.cover = b.cover
      /\ made'.manifest \in Seq(Declared) /\ Len(made'.manifest) = Len(made.manifest) + 1
      /\ \A k \in DOMAIN made.manifest : made'.manifest[k] = made.manifest[k]
      /\ made'.manifest[Len(made.manifest) + 1] =
             [id |-> <<kind, walker.nth, Len(made.manifest)>>, kind |-> kind, href |-> href, cover |-> FALSE]
  <2>1. b = [x \in MadeFields |-> b[x]] /\ b.manifest = made.manifest
    BY <1>2
  <2>2. EndsWith(made', b, kind, href)
    BY <1>4, <2>1, DeclaredIs
  <2> QED BY <2>2 DEF EndsWith
<1>6. made.cover \in Nat
  BY DEF MergeInv, MadeTypes
<1>7. PICK m : m = made'.manifest[Len(made.manifest) + 1]
  OBVIOUS
<1>8. m.id = <<kind, walker.nth, Len(made.manifest)>> /\ m.kind = kind /\ m.href = href /\ m.cover = FALSE
  BY <1>5, <1>7
<1>9. StoresOne(kind, href)
  <2>1. /\ DOMAIN made'.files = DOMAIN made.files \cup {href} /\ made'.files[href].kind = kind
        /\ \A h \in DOMAIN made.files : h # href => made'.files[h] = made.files[h]
        /\ made'.spine = made.spine /\ made'.nav = made.nav /\ made'.cover = made.cover
    <3>1. made'.files = b.files /\ made'.spine = b.spine /\ made'.nav = b.nav /\ made'.cover = b.cover
      BY ONLY <1>5
    <3>2. b.spine = made.spine /\ b.nav = made.nav /\ b.cover = made.cover
      BY ONLY <1>2
    <3> QED BY ONLY <1>3, <3>1, <3>2
  <2>2. \A k \in DOMAIN made.manifest : /\ made'.manifest[k].id = made.manifest[k].id
                                       /\ made'.manifest[k].kind = made.manifest[k].kind
                                       /\ made'.manifest[k].href = made.manifest[k].href
    BY <1>5
  <2> QED BY <1>5, <1>6, <1>7, <1>8, <2>1, <2>2 DEF StoresOne
<1> QED BY <1>2, <1>3, <1>5, <1>7, <1>8, <1>9

LEMMA ItemParts ==
    ASSUME MergeInv, HasItem
    PROVE  /\ walker.stage = "images" => Item \in ImageForm /\ Item \in ToSet(Source.images)
           /\ walker.stage = "css" => Item \in SheetForm
           /\ walker.stage = "others" => Item \in OtherForm
           /\ walker.stage \in {"images", "css", "others"} => Item.loc[2] \in NameForm /\ walker.nth \in Nat
<1>1. walker.nth \in DOMAIN mergeJob.books /\ walker.walk \in 1..Len(Walked) /\ Item = Walked[walker.walk]
      /\ walker.nth \in Nat
  BY SteppedIs DEF MergeInv, WalkerTypes
<1>2. /\ walker.stage = "images" => Item \in ImageForm /\ Item \in ToSet(Source.images)
      /\ walker.stage = "css" => Item \in SheetForm
      /\ walker.stage = "others" => Item \in OtherForm
  BY <1>1, WalkedIs, SourceForm DEF MergeInv, ToSet
<1>3. \A x : x \in ImageForm \/ x \in SheetForm \/ x \in OtherForm => x.loc \in Locs
  BY DEF ImageForm, SheetForm, OtherForm
<1>4. walker.stage \in {"images", "css", "others"} => Item.loc \in Locs
  BY <1>2, <1>3
<1>5. \A loc \in Locs : loc[2] \in NameForm
  BY DEF Locs, NameForm
<1> QED BY <1>1, <1>2, <1>4, <1>5

LEMMA OtherKept == MergeInv /\ StoreOther => MergeInv'
<1> SUFFICES ASSUME MergeInv, StoreOther PROVE MergeInv'
  OBVIOUS
<1>1. HasItem /\ walker.stage = "others" /\ Item.entry = "there"
  BY DEF StoreOther, Stored
<1>2. CASE Item.font
  <2>1. StepsOver
    BY <1>2 DEF StoreOther, StepsOver
  <2> QED BY <1>1, <2>1, SteppedOn
<1>3. CASE ~Item.font
  <2>1. PICK href : href = <<"Resources", walker.nth, Item.loc[2], 0>>
    OBVIOUS
  <2>2. href \in Href /\ href[1] = DirOf["res"] /\ "res" \in Kinds
    BY <1>1, <2>1, ItemParts DEF Href, Dirs, DirOf, Kinds
  <2>3. /\ made' = Declares(StoresFile(made, href, "res", <<walker.nth, Item.loc>>, {}, TRUE), "res", href)
        /\ walker' = Stepped(Knows(walker, Item.loc, href)) /\ UNCHANGED <<mergeJob, fates, ending>>
    BY <1>3, <2>1 DEF StoreOther
  <2>4. made = [x \in MadeFields |-> made[x]]
    BY DEF MergeInv, MadeTypes
  <2>5. /\ StoresOne("res", href)
        /\ made'.images = made.images /\ made'.sheets = made.sheets /\ made'.shown = made.shown
        /\ made'.cover = made.cover /\ ~made'.manifest[Len(made.manifest) + 1].cover
        /\ \A k \in DOMAIN made.manifest : made'.manifest[k] = made.manifest[k]
    BY <2>2, <2>3, <2>4, WrittenIs
  <2>6. Stores(href)
    BY <2>3, <2>5 DEF Stores, StoresOne
  <2> QED BY <1>1, <2>2, <2>5, <2>6, OneStoredKept
<1> QED BY <1>2, <1>3

LEMMA CssKept == MergeInv /\ StoreCss => MergeInv'
<1> SUFFICES ASSUME MergeInv, StoreCss PROVE MergeInv'
  OBVIOUS
<1>1. HasItem /\ walker.stage = "css" /\ Item.entry = "there"
  BY DEF StoreCss, Stored
<1>2. PICK text : text = <<Item.data, Rewritten(Item.uses)>>
  OBVIOUS
<1>3. CASE text \in DOMAIN made.sheets
  <2>1. PICK href : href = made.sheets[text]
    OBVIOUS
  <2>2. made' = made /\ walker' = Stepped(Knows(walker, Item.loc, href)) /\ UNCHANGED <<mergeJob, fates, ending>>
    BY <1>2, <1>3, <2>1 DEF StoreCss
  <2>3. href \in DOMAIN made.files
    BY <1>3, <2>1 DEF MergeInv, PicturesTrue
  <2>4. walker'.nth = walker.nth /\ walker.nth \in Nat
    BY <2>2 DEF Stepped, Knows, MergeInv, WalkerTypes, WalkerFields
  <2>5. Grows /\ NoPage /\ MadeTypes' /\ PackageTrue' /\ PicturesTrue'
    BY <2>2, <2>4, SameBook
  <2>6. Stores(href)
    BY <2>2, <2>3 DEF Stores
  <2> QED BY <1>1, <2>5, <2>6, StoredKept
<1>4. CASE text \notin DOMAIN made.sheets
  <2>1. PICK href : href = <<"Styles", walker.nth, Item.loc[2], 0>>
    OBVIOUS
  <2>2. href \in Href /\ href[1] = DirOf["css"] /\ "css" \in Kinds
    BY <1>1, <2>1, ItemParts DEF Href, Dirs, DirOf, Kinds
  <2>3. PICK book : book = [made EXCEPT !.sheets = WithKey(@, text, href)]
    OBVIOUS
  <2>4. /\ made' = Declares(StoresFile(book, href, "css", Item.data, Rewritten(Item.uses), TRUE), "css", href)
        /\ walker' = Stepped(Knows(walker, Item.loc, href)) /\ UNCHANGED <<mergeJob, fates, ending>>
    BY <1>2, <1>4, <2>1, <2>3 DEF StoreCss
  <2>5. /\ book = [x \in MadeFields |-> book[x]] /\ book.manifest = made.manifest
        /\ book.files = made.files /\ book.spine = made.spine /\ book.nav = made.nav /\ book.cover = made.cover
        /\ book.images = made.images /\ book.shown = made.shown /\ book.sheets = WithKey(made.sheets, text, href)
    BY <2>3 DEF MergeInv, MadeTypes, MadeFields
  <2>6. /\ StoresOne("css", href)
        /\ made'.images = made.images /\ made'.sheets = book.sheets /\ made'.shown = made.shown
        /\ made'.cover = made.cover /\ ~made'.manifest[Len(made.manifest) + 1].cover
        /\ \A k \in DOMAIN made.manifest : made'.manifest[k] = made.manifest[k]
    <3>1. /\ StoresOne("css", href)
          /\ made'.images = book.images /\ made'.sheets = book.sheets /\ made'.shown = book.shown
          /\ made'.cover = made.cover /\ ~made'.manifest[Len(made.manifest) + 1].cover
          /\ \A k \in DOMAIN made.manifest : made'.manifest[k] = made.manifest[k]
      BY <2>2, <2>4, <2>5, WrittenIs
    <3> QED BY <3>1, <2>5
  <2>7. \A t \in DOMAIN made'.sheets : (t \in DOMAIN made.sheets /\ made'.sheets[t] = made.sheets[t]) \/ made'.sheets[t] = href
    BY <2>5, <2>6 DEF WithKey
  <2>8. Stores(href)
    BY <2>4, <2>6 DEF Stores, StoresOne
  <2> QED BY <1>1, <2>2, <2>6, <2>7, <2>8, OneStoredKept
<1> QED BY <1>3, <1>4

\* the flag of a cover
Flagged(new, book, i) ==
    /\ new = [x \in MadeFields |-> new[x]]
    /\ new.files = book.files /\ new.spine = book.spine /\ new.nav = book.nav /\ new.images = book.images
    /\ new.sheets = book.sheets /\ new.shown = book.shown
    /\ new.manifest \in Seq(Declared) /\ Len(new.manifest) = Len(book.manifest) /\ new.cover \in Nat
    /\ \A k \in DOMAIN book.manifest : /\ new.manifest[k].id = book.manifest[k].id
                                       /\ new.manifest[k].kind = book.manifest[k].kind
                                       /\ new.manifest[k].href = book.manifest[k].href
    /\ IF i = 0 THEN new.cover = book.cover /\ \A k \in DOMAIN book.manifest : new.manifest[k].cover = book.manifest[k].cover
       ELSE new.cover = i /\ \A k \in DOMAIN book.manifest : new.manifest[k].cover = (book.manifest[k].cover \/ k = i)
LEMMA CoversIs ==
    ASSUME NEW book, book = [x \in MadeFields |-> book[x]], book.manifest \in Seq(Declared),
           NEW i \in DOMAIN book.manifest
    PROVE  Flagged(Covers(book, i), book, i)
<1>1. PICK list : list = book.manifest
  OBVIOUS
<1>2. PICK m : m = [list[i] EXCEPT !.cover = TRUE]
  OBVIOUS
<1>3. PICK new : new = Covers(book, i)
  OBVIOUS
<1>4. list \in Seq(Declared) /\ i \in DOMAIN list /\ i \in Nat \ {0} /\ list[i] \in Declared
  BY <1>1
<1>5. m \in Declared /\ m.id = list[i].id /\ m.kind = list[i].kind /\ m.href = list[i].href /\ m.cover = TRUE
  BY <1>2, <1>4 DEF Declared
<1>6. PICK flagged : flagged = [list EXCEPT ![i] = m]
  OBVIOUS
<1>7. flagged \in Seq(Declared) /\ Len(flagged) = Len(list) /\ \A k \in DOMAIN list : flagged[k] = IF k = i THEN m ELSE list[k]
  BY <1>4, <1>5, <1>6
<1>8. /\ new = [x \in MadeFields |-> new[x]]
      /\ new.files = book.files /\ new.spine = book.spine /\ new.nav = book.nav /\ new.images = book.images
      /\ new.sheets = book.sheets /\ new.shown = book.shown
      /\ new.manifest = flagged /\ new.cover = i
  BY <1>1, <1>2, <1>3, <1>6 DEF Covers, MadeFields
<1>9. \A k \in DOMAIN list : /\ flagged[k].id = list[k].id /\ flagged[k].kind = list[k].kind
                             /\ flagged[k].href = list[k].href
                             /\ flagged[k].cover = (list[k].cover \/ k = i)
  <2>1. \A d \in Declared : d.cover \in BOOLEAN
    BY DEF Declared
  <2>2. \A k \in DOMAIN list : list[k] \in Declared
    BY <1>4
  <2> QED BY <1>5, <1>7, <2>1, <2>2
<1> QED BY <1>1, <1>3, <1>4, <1>7, <1>8, <1>9 DEF Flagged

LEMMA NotFlagged ==
    ASSUME NEW book, book = [x \in MadeFields |-> book[x]], book.manifest \in Seq(Declared), book.cover \in Nat
    PROVE  Flagged(book, book, 0)
BY DEF Flagged

\* a picture that is stored already, which may become the cover
LEMMA PictureKnown ==
    ASSUME MergeInv, mergeJob' = mergeJob, walker'.nth = walker.nth, NEW i, Flagged(made', made, i),
           i = 0 \/ (made.cover = 0 /\ i \in DOMAIN made.manifest)
    PROVE  Grows /\ NoPage /\ MadeTypes' /\ PackageTrue' /\ PicturesTrue'
<1>1. /\ made' = [x \in MadeFields |-> made'[x]]
      /\ made'.files = made.files /\ made'.spine = made.spine /\ made'.nav = made.nav /\ made'.images = made.images
      /\ made'.sheets = made.sheets /\ made'.shown = made.shown
      /\ made'.manifest \in Seq(Declared) /\ Len(made'.manifest) = Len(made.manifest) /\ made'.cover \in Nat
      /\ \A k \in DOMAIN made.manifest : /\ made'.manifest[k].id = made.manifest[k].id
                                         /\ made'.manifest[k].kind = made.manifest[k].kind
                                         /\ made'.manifest[k].href = made.manifest[k].href
  BY DEF Flagged
<1>2. DOMAIN made'.manifest = DOMAIN made.manifest /\ made.manifest \in Seq(Declared)
  BY <1>1 DEF MergeInv, MadeTypes
<1>3. i # 0 => i \in DOMAIN made.manifest /\ made'.cover = i /\ i \in Nat
  BY <1>2 DEF Flagged
<1>4. Grows /\ NoPage
  <2>1. made.cover # 0 => made'.cover # 0
    BY <1>3 DEF Flagged
  <2> QED BY <1>1, <1>2, <2>1 DEF Grows, NoPage
<1>5. MadeTypes'
  BY <1>1 DEF MergeInv, MadeTypes
<1>6. PackageTrue'
  <2>0. PackageTrue
    BY DEF MergeInv
  <2>1. ASSUME NEW k \in DOMAIN made'.manifest
        PROVE  LET m == made'.manifest[k] IN
               /\ m.id[1] = m.kind /\ m.href \in DOMAIN made'.files /\ m.href[1] = DirOf[m.kind]
               /\ IF m.kind = "html" THEN m.id[2] = m.href[2] /\ \E s \in DOMAIN made'.spine : made'.spine[s] = m.id
                  ELSE m.id[3] = k - 1
    <3>1. LET m == made.manifest[k] IN
          /\ m.id[1] = m.kind /\ m.href \in DOMAIN made.files /\ m.href[1] = DirOf[m.kind]
          /\ IF m.kind = "html" THEN m.id[2] = m.href[2] /\ \E s \in DOMAIN made.spine : made.spine[s] = m.id
             ELSE m.id[3] = k - 1
      BY <1>2, <2>0 DEF PackageTrue
    <3> QED BY <3>1, <1>1, <1>2
  <2>2. \A a, b \in DOMAIN made'.manifest : a # b =>
           /\ made'.manifest[a].id # made'.manifest[b].id
           /\ made'.manifest[a].kind \in {"img", "html"} => made'.manifest[a].href # made'.manifest[b].href
    <3>1. \A a, b \in DOMAIN made.manifest : a # b =>
           /\ made.manifest[a].id # made.manifest[b].id
           /\ made.manifest[a].kind \in {"img", "html"} => made.manifest[a].href # made.manifest[b].href
      BY <2>0 DEF PackageTrue
    <3> QED BY <3>1, <1>1, <1>2
  <2>3. \A s \in DOMAIN made.spine : \E k \in DOMAIN made'.manifest : made'.manifest[k].id = made.spine[s]
    BY <2>0, <1>1, <1>2 DEF PackageTrue
  <2> QED BY <2>0, <2>1, <2>2, <2>3, <1>1 DEF PackageTrue, DataOf
<1>7. PicturesTrue'
  <2>0. PicturesTrue
    BY DEF MergeInv
  <2>1. {k \in DOMAIN made'.manifest : made'.manifest[k].cover} = {made'.cover} \ {0}
    <3>1. CASE i = 0
      BY <3>1, <2>0, <1>2 DEF Flagged, PicturesTrue
    <3>2. CASE i # 0
      <4>1. made.cover = 0 /\ i \in DOMAIN made.manifest /\ made'.cover = i
        BY <3>2, <1>3
      <4>2. \A k \in DOMAIN made.manifest : ~made.manifest[k].cover
        BY <4>1, <2>0 DEF PicturesTrue
      <4>3. \A k \in DOMAIN made.manifest : made'.manifest[k].cover = (made.manifest[k].cover \/ k = i)
        BY <3>2 DEF Flagged
      <4> QED BY <4>1, <4>2, <4>3, <1>2, <3>2
    <3> QED BY <3>1, <3>2
  <2>2. \A d \in DOMAIN made.images : \E k \in DOMAIN made'.manifest : made'.manifest[k].href = made.images[d]
    BY <2>0, <1>1, <1>2 DEF PicturesTrue
  <2> QED BY <2>0, <2>1, <2>2, <1>1 DEF PicturesTrue, DataOf
<1> QED BY <1>4, <1>5, <1>6, <1>7

\* a picture that is new, which may become the cover
LEMMA PictureNew ==
    ASSUME MergeInv, mergeJob' = mergeJob, walker'.nth = walker.nth, NEW href \in Href, href[1] = "Images",
           href \notin DOMAIN made.files, NEW data, NEW b, b = [x \in MadeFields |-> b[x]],
           b.manifest = made.manifest, b.spine = made.spine, b.nav = made.nav, b.sheets = made.sheets,
           b.shown = made.shown, b.cover = made.cover, b.images = WithKey(made.images, data, href),
           b.files = WithKey(made.files, href, [kind |-> "img", data |-> data, links |-> {}, parses |-> TRUE]),
           NEW full, full = Declares(b, "img", href), NEW i, Flagged(made', full, i),
           i = 0 \/ (made.cover = 0 /\ i \in DOMAIN full.manifest)
    PROVE  Grows /\ NoPage /\ MadeTypes' /\ PackageTrue' /\ PicturesTrue' /\ made'.files[href].data = data
           /\ made'.shown = made.shown
<1>0. PICK n : n = Len(made.manifest)
  OBVIOUS
<1>1. "img" \in Kinds \ {"html"} /\ DirOf["img"] = "Images" /\ href # NoHref
  <2>1. NoHref[1] = ""
    BY DEF NoHref
  <2> QED BY <2>1 DEF Kinds, DirOf
<1>2. EndsWith(full, b, "img", href)
  BY <1>1, DeclaredIs
<1>3. /\ full.files = b.files /\ full.spine = made.spine /\ full.nav = made.nav /\ full.images = b.images
      /\ full.sheets = made.sheets /\ full.shown = made.shown /\ full.cover = made.cover
      /\ full.manifest \in Seq(Declared) /\ Len(full.manifest) = n + 1
      /\ \A k \in DOMAIN made.manifest : full.manifest[k] = made.manifest[k]
      /\ full.manifest[n + 1] = [id |-> <<"img", walker.nth, n>>, kind |-> "img", href |-> href, cover |-> FALSE]
  BY <1>0, <1>2 DEF EndsWith
<1>4. DOMAIN full.manifest = 1..(n + 1) /\ DOMAIN made.manifest = 1..n /\ n \in Nat
  BY <1>0, <1>3 DEF MergeInv, MadeTypes
<1>5. /\ made' = [x \in MadeFields |-> made'[x]]
      /\ made'.files = b.files /\ made'.spine = made.spine /\ made'.nav = made.nav /\ made'.images = b.images
      /\ made'.sheets = made.sheets /\ made'.shown = made.shown
      /\ made'.manifest \in Seq(Declared) /\ Len(made'.manifest) = n + 1 /\ made'.cover \in Nat
      /\ \A k \in 1..(n + 1) : /\ made'.manifest[k].id = full.manifest[k].id
                               /\ made'.manifest[k].kind = full.manifest[k].kind
                               /\ made'.manifest[k].href = full.manifest[k].href
  BY <1>3, <1>4 DEF Flagged
<1>6. /\ \A k \in 1..n : /\ made'.manifest[k].id = made.manifest[k].id
                         /\ made'.manifest[k].kind = made.manifest[k].kind
                         /\ made'.manifest[k].href = made.manifest[k].href
      /\ made'.manifest[n + 1].id = <<"img", walker.nth, n>> /\ made'.manifest[n + 1].kind = "img"
      /\ made'.manifest[n + 1].href = href
  <2>1. full.manifest[n + 1].id = <<"img", walker.nth, n>> /\ full.manifest[n + 1].kind = "img"
        /\ full.manifest[n + 1].href = href
    BY <1>3
  <2>2. n + 1 \in 1..(n + 1) /\ \A k \in 1..n : k \in 1..(n + 1) /\ full.manifest[k] = made.manifest[k]
    BY <1>3, <1>4
  <2>3. \A k \in 1..(n + 1) : /\ made'.manifest[k].id = full.manifest[k].id
                              /\ made'.manifest[k].kind = full.manifest[k].kind
                              /\ made'.manifest[k].href = full.manifest[k].href
    BY <1>5
  <2>4. \A k \in 1..n : /\ made'.manifest[k].id = made.manifest[k].id
                        /\ made'.manifest[k].kind = made.manifest[k].kind
                        /\ made'.manifest[k].href = made.manifest[k].href
    BY <2>2, <2>3
  <2>5. made'.manifest[n + 1].id = full.manifest[n + 1].id /\ made'.manifest[n + 1].kind = full.manifest[n + 1].kind
        /\ made'.manifest[n + 1].href = full.manifest[n + 1].href
    BY <2>2, <2>3
  <2> QED BY <2>1, <2>4, <2>5
<1>7. i # 0 => made'.cover = i /\ i \in 1..(n + 1)
  BY <1>4 DEF Flagged
<1>8. DOMAIN b.files = DOMAIN made.files \cup {href} /\ b.files[href].kind = "img" /\ b.files[href].data = data
      /\ \A h \in DOMAIN made.files : h # href => b.files[h] = made.files[h]
  BY DEF WithKey
<1>9. StoresOne("img", href)
  <2>1. made.cover # 0 => made'.cover # 0
    BY <1>3, <1>7 DEF Flagged
  <2>2. \A k \in DOMAIN made.manifest : /\ made'.manifest[k].id = made.manifest[k].id
                                       /\ made'.manifest[k].kind = made.manifest[k].kind
                                       /\ made'.manifest[k].href = made.manifest[k].href
    BY <1>4, <1>6
  <2>3. LET m == made'.manifest[Len(made.manifest) + 1]
        IN m.id = <<"img", walker.nth, Len(made.manifest)>> /\ m.kind = "img" /\ m.href = href
    BY <1>0, <1>6
  <2>4. made'.manifest \in Seq(Declared) /\ Len(made'.manifest) = Len(made.manifest) + 1
    BY <1>0, <1>5
  <2> QED BY <1>5, <1>8, <2>1, <2>2, <2>3, <2>4 DEF StoresOne
<1>10. Grows /\ NoPage /\ MadeTypes' /\ PackageTrue'
  BY <1>1, <1>9, OneStored
<1>11. PicturesTrue'
  <2>0. PicturesTrue
    BY DEF MergeInv
  <2>1. ASSUME NEW d \in DOMAIN made'.images
        PROVE  /\ made'.images[d] \in DOMAIN made'.files /\ made'.images[d][1] = "Images"
               /\ made'.files[made'.images[d]].data = d
               /\ \E k \in DOMAIN made'.manifest : made'.manifest[k].href = made'.images[d]
    <3>1. DOMAIN made'.images = DOMAIN made.images \cup {data} /\ made'.images[data] = href
          /\ \A e \in DOMAIN made.images : e # data => made'.images[e] = made.images[e]
      BY <1>5 DEF WithKey
    <3>2. CASE d = data
      <4>1. n + 1 \in DOMAIN made'.manifest
        BY <1>4, <1>5
      <4> QED BY <3>1, <3>2, <4>1, <1>5, <1>6, <1>8
    <3>3. CASE d # data
      <4>1. d \in DOMAIN made.images /\ made'.images[d] = made.images[d]
        BY <3>1, <3>3
      <4>2. /\ made.images[d] \in DOMAIN made.files /\ made.images[d][1] = "Images"
            /\ made.files[made.images[d]].data = d
            /\ \E k \in DOMAIN made.manifest : made.manifest[k].href = made.images[d]
        BY <4>1, <2>0 DEF PicturesTrue, DataOf
      <4> QED BY <4>1, <4>2, <1>10 DEF Grows
    <3> QED BY <3>2, <3>3
  <2>2. \A t \in DOMAIN made'.sheets : made'.sheets[t] \in DOMAIN made'.files
    BY <2>0, <1>5, <1>8 DEF PicturesTrue
  <2>3. {k \in DOMAIN made'.manifest : made'.manifest[k].cover} = {made'.cover} \ {0}
    <3>1. \A k \in 1..n : full.manifest[k].cover = made.manifest[k].cover
      BY <1>3, <1>4
    <3>2. full.manifest[n + 1].cover = FALSE
      BY <1>3
    <3>3. {k \in 1..n : made.manifest[k].cover} = {made.cover} \ {0}
      BY <2>0, <1>4 DEF PicturesTrue
    <3>4. \A k \in 1..(n + 1) : k \in 1..n \/ k = n + 1
      BY <1>4
    <3>5. {k \in 1..(n + 1) : full.manifest[k].cover} = {made.cover} \ {0}
      BY <3>1, <3>2, <3>3, <3>4, <1>4
    <3>6. DOMAIN made'.manifest = 1..(n + 1)
      BY <1>4, <1>5
    <3>7. CASE i = 0
      BY <3>5, <3>6, <3>7, <1>3, <1>4 DEF Flagged
    <3>8. CASE i # 0
      <4>1. \A k \in 1..(n + 1) : made'.manifest[k].cover = (full.manifest[k].cover \/ k = i)
        BY <3>8, <1>4 DEF Flagged
      <4>2. \A k \in 1..(n + 1) : ~full.manifest[k].cover
        BY <3>5, <3>8
      <4> QED BY <4>1, <4>2, <1>7, <3>6, <3>8
    <3> QED BY <3>7, <3>8
  <2> QED BY <2>1, <2>2, <2>3 DEF PicturesTrue, DataOf
<1> QED BY <1>5, <1>8, <1>10, <1>11

LEMMA ImageKept == MergeInv /\ StoreImage => MergeInv'
<1> SUFFICES ASSUME MergeInv, StoreImage PROVE MergeInv'
  OBVIOUS
<1>1. HasItem /\ walker.stage = "images" /\ Item.entry = "there" /\ UNCHANGED <<mergeJob, fates, ending>>
  BY DEF StoreImage, Stored
<1>2. Item \in ToSet(Source.images) /\ Item.loc[2] \in NameForm /\ walker.nth \in Nat
      /\ walker.nth \in DOMAIN mergeJob.books
  BY <1>1, ItemParts, SteppedIs
<1>3. Item.loc = Source.cover /\ made.cover = 0 => IsPrimary(Item)
  <2>1. PathsAreTrue(Source)
    BY <1>2, SourceForm DEF MergeInv
  <2>2. Item.loc # NoPath
    BY <1>2, <2>1 DEF PathsAreTrue, NoPath
  <2> QED BY <2>2 DEF IsPrimary
<1>4. made = [x \in MadeFields |-> made[x]] /\ made.manifest \in Seq(Declared) /\ made.cover \in Nat
  BY DEF MergeInv, MadeTypes
<1>5. IsPrimary(Item) => made.cover = 0
  BY DEF IsPrimary
<1>6. CASE Item.data \in DOMAIN made.images
  <2>1. PICK href : href = made.images[Item.data]
    OBVIOUS
  <2>2. PICK i : i = CHOOSE k \in DOMAIN made.manifest : made.manifest[k].href = href
    OBVIOUS
  <2>3. /\ made' = IF IsPrimary(Item) THEN Covers(made, i) ELSE made
        /\ walker' = Stepped(Knows(walker, Item.loc, href))
    BY <1>6, <2>1, <2>2 DEF StoreImage
  <2>4. href \in DOMAIN made.files /\ href[1] = "Images" /\ made.files[href].data = Item.data
        /\ \E k \in DOMAIN made.manifest : made.manifest[k].href = href
    BY <1>6, <2>1 DEF MergeInv, PicturesTrue, DataOf
  <2>5. i \in DOMAIN made.manifest
    BY <2>2, <2>4
  <2>6. PICK j : j = IF IsPrimary(Item) THEN i ELSE 0
    OBVIOUS
  <2>7. Flagged(made', made, j) /\ (j = 0 \/ (made.cover = 0 /\ j \in DOMAIN made.manifest))
    BY <1>4, <1>5, <2>3, <2>5, <2>6, CoversIs, NotFlagged
  <2>8. walker'.nth = walker.nth
    BY <2>3 DEF Stepped, Knows, MergeInv, WalkerTypes, WalkerFields
  <2>9. Grows /\ NoPage /\ MadeTypes' /\ PackageTrue' /\ PicturesTrue'
    BY <1>1, <2>7, <2>8, PictureKnown
  <2>10. made'.files = made.files /\ made'.spine = made.spine /\ made'.nav = made.nav /\ made'.shown = made.shown
    BY <2>7 DEF Flagged
  <2>11. Stores(href)
    BY <1>1, <2>3, <2>4, <2>10 DEF Stores
  <2>12. Item.loc = Source.cover => made'.cover # 0
    <3>1. i # 0
      BY <2>5, <1>4
    <3> QED BY <1>3, <2>3, <2>6, <2>7, <2>9, <3>1 DEF Flagged, Grows
  <2> QED BY <1>1, <2>4, <2>9, <2>10, <2>11, <2>12, StoredKept
<1>7. CASE Item.data \notin DOMAIN made.images
  <2>1. PICK href : href = UniqueHref("Images", 0, Item.loc[2])
    OBVIOUS
  <2>2. href \in Href /\ href[1] = "Images" /\ href \notin DOMAIN made.files
    <3>1. WalkerTypes /\ MadeTypes /\ "Images" \in Dirs /\ 0 \in Nat
      BY DEF MergeInv, Dirs
    <3>2. LET name == UniqueHref("Images", 0, Item.loc[2]) IN
          name \in Href /\ name[1] = "Images" /\ name[2] = 0
          /\ name \notin DOMAIN made.files /\ \A p \in ToSet(walker.pending) : p.href # name
      BY <1>2, <3>1, NewName
    <3> QED BY <2>1, <3>2
  <2>3. PICK b : b = StoresFile([made EXCEPT !.images = WithKey(@, Item.data, href)], href, "img", Item.data, {}, TRUE)
    OBVIOUS
  <2>4. PICK full : full = Declares(b, "img", href)
    OBVIOUS
  <2>5. PICK i : i = CHOOSE k \in DOMAIN full.manifest : full.manifest[k].href = href
    OBVIOUS
  <2>6. /\ made' = IF IsPrimary(Item) THEN Covers(full, i) ELSE full
        /\ walker' = Stepped(Knows(walker, Item.loc, href))
    BY <1>7, <2>1, <2>3, <2>4, <2>5 DEF StoreImage
  <2>7. /\ b = [x \in MadeFields |-> b[x]] /\ b.manifest = made.manifest /\ b.spine = made.spine /\ b.nav = made.nav
        /\ b.sheets = made.sheets /\ b.shown = made.shown /\ b.cover = made.cover
        /\ b.images = WithKey(made.images, Item.data, href)
        /\ b.files = WithKey(made.files, href, [kind |-> "img", data |-> Item.data, links |-> {}, parses |-> TRUE])
    BY <2>3, <1>4 DEF StoresFile, MadeFields
  <2>8. EndsWith(full, b, "img", href)
    <3>1. "img" \in Kinds
      BY DEF Kinds
    <3> QED BY <2>2, <2>4, <2>7, <3>1, DeclaredIs
  <2>9. /\ full = [x \in MadeFields |-> full[x]] /\ full.manifest \in Seq(Declared) /\ full.cover = made.cover
        /\ Len(full.manifest) = Len(made.manifest) + 1 /\ full.manifest[Len(made.manifest) + 1].href = href
    BY <2>7, <2>8 DEF EndsWith
  <2>10. i \in DOMAIN full.manifest /\ i # 0
    <3>1. Len(made.manifest) + 1 \in DOMAIN full.manifest /\ 0 \notin DOMAIN full.manifest
      BY <2>9, <1>4
    <3> QED BY <2>5, <2>9, <3>1
  <2>11. PICK j : j = IF IsPrimary(Item) THEN i ELSE 0
    OBVIOUS
  <2>12. Flagged(made', full, j) /\ (j = 0 \/ (made.cover = 0 /\ j \in DOMAIN full.manifest))
    BY <1>4, <1>5, <2>6, <2>9, <2>10, <2>11, CoversIs, NotFlagged
  <2>13. walker'.nth = walker.nth
    BY <2>6 DEF Stepped, Knows, MergeInv, WalkerTypes, WalkerFields
  <2>14. Grows /\ NoPage /\ MadeTypes' /\ PackageTrue' /\ PicturesTrue' /\ made'.files[href].data = Item.data
         /\ made'.shown = made.shown
    BY <1>1, <2>2, <2>4, <2>7, <2>12, <2>13, PictureNew
  <2>15. made'.spine = made.spine /\ made'.nav = made.nav /\ href \in DOMAIN made'.files
    BY <2>7, <2>8, <2>12 DEF EndsWith, Flagged, WithKey
  <2>16. Stores(href)
    BY <1>1, <2>6, <2>14, <2>15 DEF Stores
  <2>17. Item.loc = Source.cover => made'.cover # 0
    BY <1>3, <2>10, <2>11, <2>12, <2>14 DEF Flagged, Grows
  <2> QED BY <1>1, <2>2, <2>14, <2>16, <2>17, StoredKept
<1> QED BY <1>6, <1>7

-----------------------------------------------------------------------------
(* The end of a merge *)

Halts(stage) ==
    /\ walker' = [walker EXCEPT !.stage = stage] /\ mergeJob' = mergeJob /\ fates' = fates
    /\ made'.spine = made.spine /\ made'.nav = made.nav /\ made'.shown = made.shown
LEMMA HaltKept ==
    ASSUME MergeInv, walker.stage \in {"start", "open", "check"}, NEW stage \in {"check", "over"}, Halts(stage),
           walker.nth = 0 => stage = "over", Grows, NoPage, MadeTypes', PackageTrue', PicturesTrue', EndingTrue',
           ending' = [x \in {"status", "output", "temp"} |-> ending'[x]]
    PROVE  MergeInv'
<1>1. walker = [x \in WalkerFields |-> walker[x]]
  BY DEF MergeInv, WalkerTypes
<1>2. /\ walker'.nth = walker.nth /\ walker'.stage = stage /\ walker'.walk = walker.walk
      /\ walker'.map = walker.map /\ walker'.docs = walker.docs
      /\ walker'.pending = walker.pending /\ walker'.copied = walker.copied
      /\ walker' = [x \in WalkerFields |-> walker'[x]]
      /\ mergeJob' = mergeJob /\ fates' = fates
  BY <1>1 DEF Halts, WalkerFields
<1>3. DocsMapped' /\ CopiedTrue'
  <2>1. SameSource
    BY <1>2 DEF SameSource
  <2> QED BY <2>1, SourceWalked DEF Halts
<1>4. /\ \A i \in DOMAIN fates' : SourceDone(i)'
      /\ RowsLead' /\ (mergeJob'.smart => ShownOnce')
  BY <1>2, BookKept DEF Halts
<1>5. WalkerTypes'
  BY <1>2 DEF MergeInv, WalkerTypes, MergeStages
<1>6. Position'
  <2>1. ~InSource'
    BY <1>2, AfterIs DEF InSource, InSourceStages
  <2> QED BY <1>2, <2>1 DEF MergeInv, Position, Walking
<1>7. PendingTrue' /\ MapTrue' /\ CoversOnce' /\ SourcesTrue'
  BY <1>2, <1>3, <1>4 DEF PendingTrue, MapTrue, Walking, CoversOnce, SourcesTrue
<1>8. NavTrue'
  <2>1. \A n \in ToSet(made.nav) : n.of <= walker.nth /\ (n.of = walker.nth => walker.stage \in {"others", "end"})
    BY DEF MergeInv, NavTrue
  <2> QED BY <1>2, <1>4, <2>1 DEF NavTrue, Halts
<1> QED BY <1>3, <1>5, <1>6, <1>7, <1>8 DEF MergeInv

\* ... with nothing changed but the result
LEMMA EndKept ==
    ASSUME MergeInv, walker.stage \in {"start", "open", "check"}, walker' = [walker EXCEPT !.stage = "over"],
           UNCHANGED <<mergeJob, made, fates>>, EndingTrue',
           ending' = [x \in {"status", "output", "temp"} |-> ending'[x]]
    PROVE  MergeInv'
<1>1. walker'.nth = walker.nth /\ walker.nth \in Nat
  BY DEF MergeInv, WalkerTypes, WalkerFields
<1>2. Grows /\ NoPage /\ MadeTypes' /\ PackageTrue' /\ PicturesTrue'
  BY <1>1, SameBook
<1>3. Halts("over")
  BY DEF Halts
<1> QED BY <1>2, <1>3, HaltKept

LEMMA EndsIs ==
    ASSUME MergeInv, NEW status, NEW output, NEW temp, Ends(status, output, temp)
    PROVE  /\ ending'.status = status /\ ending'.output = output /\ ending'.temp = temp
           /\ ending' = [x \in {"status", "output", "temp"} |-> ending'[x]]
           /\ walker' = [walker EXCEPT !.stage = IF status = "none" THEN "check" ELSE "over"]
           /\ walker'.stage = (IF status = "none" THEN "check" ELSE "over") /\ walker'.nth = walker.nth
           /\ mergeJob' = mergeJob /\ fates' = fates
BY DEF Ends, MergeInv, WalkerTypes, WalkerFields

LEMMA FailedKept ==
    ASSUME MergeInv, walker.stage \in {"start", "open", "check"}, Ends("failed", "old", FALSE), UNCHANGED made
    PROVE  MergeInv'
<1>0. ending'.status = "failed" /\ ending'.output = "old" /\ ending'.temp = FALSE /\ walker'.stage = "over"
  BY EndsIs
<1>1. EndingTrue'
  BY <1>0 DEF EndingTrue
<1> QED BY <1>1, EndsIs, EndKept

LEMMA RefusedKept == MergeInv /\ BeginMerge /\ walker'.stage # "open" => MergeInv'
<1> SUFFICES ASSUME MergeInv, BeginMerge, walker'.stage # "open" PROVE MergeInv'
  OBVIOUS
<1>1. walker.stage = "start" /\ UNCHANGED <<mergeJob, made, fates>>
      /\ ending' = [ending EXCEPT !.status = "failed"] /\ walker' = [walker EXCEPT !.stage = "over"]
  <2>1. OpensNext(1).stage = "open"
    BY DEF OpensNext
  <2> QED BY <2>1 DEF BeginMerge
<1>2. ending'.status = "failed" /\ ending'.output = ending.output /\ ending'.temp = ending.temp
      /\ ending' = [x \in {"status", "output", "temp"} |-> ending'[x]] /\ walker'.stage = "over"
  BY <1>1 DEF MergeInv, WalkerTypes, WalkerFields
<1>3. EndingTrue'
  BY <1>1, <1>2 DEF MergeInv, EndingTrue
<1> QED BY <1>1, <1>2, <1>3, EndKept

LEMMA TextsKept == MergeInv /\ MergeTexts => MergeInv'
<1> SUFFICES ASSUME MergeInv, MergeTexts PROVE MergeInv'
  OBVIOUS
<1>1. walker.stage = "start" /\ UNCHANGED made /\ mergeJob.format = "txt"
  BY DEF MergeTexts
<1>2. CASE Ends("failed", "old", FALSE)
  BY <1>1, <1>2, FailedKept
<1>3. CASE mergeJob.target = 0 /\ (Ends("merged", "new", FALSE) \/ Ends("failed", "torn", FALSE))
  <2>1. PICK status \in {"merged", "failed"}, output \in {"new", "torn"} : Ends(status, output, FALSE)
    BY <1>3
  <2>2. EndingTrue'
    BY <1>1, <1>3, <2>1, EndsIs DEF EndingTrue
  <2> QED BY <1>1, <2>1, <2>2, EndsIs, EndKept
<1> QED BY <1>2, <1>3 DEF MergeTexts

LEMMA PublishKept == MergeInv /\ Publish => MergeInv'
<1> SUFFICES ASSUME MergeInv, Publish PROVE MergeInv'
  OBVIOUS
<1>1. walker.stage = "check" /\ UNCHANGED made
  BY DEF Publish
<1>2. CASE Ends("failed", "old", FALSE)
  BY <1>1, <1>2, FailedKept
<1>3. CASE IsValid /\ Ends("merged", "new", FALSE)
  <2>1. IsValid'
    BY <1>1, <1>3 DEF IsValid
  <2>2. ending'.status = "merged" /\ ending'.output = "new" /\ ending'.temp = FALSE /\ walker'.stage = "over"
        /\ mergeJob' = mergeJob
    <3>1. PICK status : status = "merged" /\ Ends(status, "new", FALSE)
      BY <1>3
    <3>2. ending'.status = status /\ ending'.output = "new" /\ ending'.temp = FALSE
      BY <3>1, EndsIs
    <3>3. walker'.stage = (IF status = "none" THEN "check" ELSE "over") /\ mergeJob' = mergeJob
      BY <3>1, EndsIs
    <3> QED BY <3>1, <3>2, <3>3
  <2>3. EndingTrue'
    BY <1>1, <2>1, <2>2 DEF MergeInv, EndingTrue
  <2> QED BY <1>1, <1>3, <2>3, EndsIs, EndKept
<1> QED BY <1>2, <1>3 DEF Publish

LEMMA PackageKept == MergeInv /\ WritePackage => MergeInv'
<1> SUFFICES ASSUME MergeInv, WritePackage PROVE MergeInv'
  OBVIOUS
<1>1. walker.stage = "open"
  BY DEF WritePackage
<1>2. CASE made.spine = <<>>
  BY <1>1, <1>2, FailedKept DEF WritePackage
<1>3. CASE made.spine # <<>>
  <2>1. /\ made' = Declares(StoresFile(made, NavHref, "nav", <<0, NoPath>>, {}, TRUE), "nav", NavHref)
        /\ Ends("none", "old", TRUE) \/ Ends("failed", "old", FALSE)
    BY <1>3 DEF WritePackage
  <2>2. PICK status \in {"none", "failed"}, temp \in BOOLEAN : Ends(status, "old", temp) /\ temp = (status = "none")
    BY <2>1
  <2>3. PICK stage \in {"check", "over"} : stage = IF status = "none" THEN "check" ELSE "over"
    OBVIOUS
  <2>4. NavHref \in Href /\ NavHref[1] = DirOf["nav"] /\ "nav" \in Kinds \ {"html"} /\ NavHref # NoHref
    <3>1. NavHref[3] = "nav" /\ NoHref[3] = ""
      BY DEF NavHref, NoHref
    <3> QED BY <3>1 DEF NavHref, Href, Dirs, NameForm, DirOf, Kinds
  <2>5. made = [x \in MadeFields |-> made[x]]
    BY DEF MergeInv, MadeTypes
  <2>6. /\ StoresOne("nav", NavHref)
        /\ made'.images = made.images /\ made'.sheets = made.sheets /\ made'.shown = made.shown
        /\ made'.cover = made.cover /\ ~made'.manifest[Len(made.manifest) + 1].cover
        /\ \A k \in DOMAIN made.manifest : made'.manifest[k] = made.manifest[k]
    <3>1. mergeJob' = mergeJob
      BY <2>2, EndsIs
    <3> QED BY <2>1, <2>4, <2>5, <3>1, WrittenIs
  <2>7. Grows /\ NoPage /\ MadeTypes' /\ PackageTrue'
    BY <2>2, <2>4, <2>6, EndsIs, OneStored
  <2>8. PicturesTrue'
    BY <2>6, <2>7, PicturesStay
  <2>9. Halts(stage)
    BY <2>2, <2>3, <2>6, EndsIs DEF Halts, StoresOne
  <2>10. EndingTrue'
    BY <1>1, <2>2, EndsIs DEF MergeInv, EndingTrue
  <2>11. walker.nth # 0
    BY <1>1 DEF MergeInv, Position
  <2> QED BY <1>1, <2>2, <2>7, <2>8, <2>9, <2>10, <2>11, EndsIs, HaltKept
<1> QED BY <1>2, <1>3

-----------------------------------------------------------------------------
(* The documents of a source are written *)

\* the place of a document, what is written of it and under which id
Copies(w, doc, href, links, id) ==
    /\ w = walker.walk /\ w \in 1..Len(walker.pending) /\ walker.stage = "copy" /\ Len(walker.copied) = w - 1
    /\ doc = walker.pending[w].doc /\ href = walker.pending[w].href
    /\ links = Rewritten(doc.links \cup ({doc.image} \ {NoPath}))
    /\ id = <<"html", walker.nth, Len(made.spine)>> /\ id \in EntryIds
    /\ href \in Href /\ href[1] = "Text" /\ href[2] = walker.nth /\ href \notin DOMAIN made.files
    /\ doc \in ToSet(Source.docs) /\ mergeJob.books[walker.nth] = Source /\ PathsAreTrue(Source)
    /\ walker.nth \in DOMAIN mergeJob.books /\ walker.nth \in Nat \ {0}
    /\ mergeJob' = mergeJob /\ fates' = fates /\ ending' = ending
    /\ made' = [x \in MadeFields |-> made'[x]]
    /\ DOMAIN made'.files = DOMAIN made.files \cup {href}
    /\ made'.files[href].kind = "html" /\ made'.files[href].data = <<walker.nth, doc.loc>> /\ made'.files[href].links = links
    /\ \A h \in DOMAIN made.files : made'.files[h] = made.files[h]
    /\ made'.manifest = Append(made.manifest, [id |-> id, kind |-> "html", href |-> href, cover |-> FALSE])
    /\ made'.spine = Append(made.spine, id)
    /\ made'.nav = made.nav /\ made'.images = made.images /\ made'.sheets = made.sheets
    /\ made'.shown = made.shown /\ made'.cover = made.cover
    /\ walker' = [x \in WalkerFields |-> walker'[x]]
    /\ walker'.nth = walker.nth /\ walker'.stage = "copy" /\ walker'.walk = w + 1 /\ walker'.map = walker.map
    /\ walker'.docs = walker.docs /\ walker'.pending = walker.pending
    /\ walker'.copied = Append(walker.copied, [href |-> href, page |-> doc.page])
LEMMA CopyIs ==
    ASSUME MergeInv, CopyDocument
    PROVE  \E w, doc, href, links, id : Copies(w, doc, href, links, id)
<1>1. HasItem /\ walker.stage = "copy" /\ UNCHANGED <<mergeJob, fates, ending>>
  BY DEF CopyDocument
<1>2. /\ walker.walk \in 1..Len(walker.pending) /\ Item = walker.pending[walker.walk]
      /\ walker.nth \in DOMAIN mergeJob.books
  BY <1>1, SteppedIs, WalkedIs
<1>3. mergeJob.books[walker.nth] = Source /\ PathsAreTrue(Source)
  BY <1>2, SourceForm DEF MergeInv
<1>4. walker.nth \in Nat \ {0} /\ Len(walker.copied) = walker.walk - 1 /\ walker.walk \in Nat \ {0}
      /\ DOMAIN walker.copied = 1..(walker.walk - 1) /\ walker.pending \in Seq(MappedDoc)
  BY <1>1 DEF MergeInv, Position, WalkerTypes
<1>5. PICK w : w = walker.walk
  OBVIOUS
<1>6. PICK doc : doc = walker.pending[w].doc
  OBVIOUS
<1>7. PICK href : href = walker.pending[w].href
  OBVIOUS
<1>8. PICK links : links = Rewritten(doc.links \cup ({doc.image} \ {NoPath}))
  OBVIOUS
<1>9. PICK id : id = <<"html", walker.nth, Len(made.spine)>>
  OBVIOUS
<1>10. id \in EntryIds
  <2>1. Len(made.spine) \in Nat
    BY DEF MergeInv, MadeTypes
  <2> QED BY <1>4, <1>9, <2>1 DEF EntryIds, Kinds
<1>11. w \in DOMAIN walker.pending /\ w \notin DOMAIN walker.copied
  BY <1>2, <1>4, <1>5
<1>12. doc \in ToSet(Source.docs) /\ href[1] = "Text" /\ href[2] = walker.nth /\ href \notin DOMAIN made.files
  BY <1>6, <1>7, <1>11 DEF MergeInv, PendingTrue, DocsMapped
<1>13. href \in Href
  <2>1. walker.pending[w] \in MappedDoc
    BY <1>4, <1>11
  <2> QED BY <1>7, <2>1 DEF MappedDoc
<1>14. PICK book : book = StoresFile(made, href, "html", <<walker.nth, doc.loc>>, links, doc.parses)
  OBVIOUS
<1>15. /\ made' = [book EXCEPT
                      !.manifest = Append(@, [id |-> id, kind |-> "html", href |-> href, cover |-> FALSE]),
                      !.spine = Append(@, id)]
       /\ walker' = [Stepped(walker) EXCEPT !.copied = Append(@, [href |-> href, page |-> doc.page])]
  BY <1>2, <1>5, <1>6, <1>7, <1>8, <1>9, <1>14 DEF CopyDocument
<1>16. /\ book = [x \in MadeFields |-> book[x]] /\ book.manifest = made.manifest /\ book.spine = made.spine
       /\ book.nav = made.nav /\ book.images = made.images /\ book.sheets = made.sheets
       /\ book.shown = made.shown /\ book.cover = made.cover
       /\ book.files = WithKey(made.files, href, [kind |-> "html", data |-> <<walker.nth, doc.loc>>,
                                                  links |-> links, parses |-> doc.parses])
  BY <1>14 DEF StoresFile, MergeInv, MadeTypes, MadeFields
<1>17. /\ DOMAIN book.files = DOMAIN made.files \cup {href}
       /\ book.files[href].kind = "html" /\ book.files[href].data = <<walker.nth, doc.loc>> /\ book.files[href].links = links
       /\ \A h \in DOMAIN made.files : book.files[h] = made.files[h]
  BY <1>12, <1>16 DEF WithKey
<1>18. /\ made' = [x \in MadeFields |-> made'[x]]
       /\ made'.files = book.files
       /\ made'.manifest = Append(made.manifest, [id |-> id, kind |-> "html", href |-> href, cover |-> FALSE])
       /\ made'.spine = Append(made.spine, id)
       /\ made'.nav = made.nav /\ made'.images = made.images /\ made'.sheets = made.sheets
       /\ made'.shown = made.shown /\ made'.cover = made.cover
  BY <1>15, <1>16 DEF MadeFields
<1>19. /\ walker' = [x \in WalkerFields |-> walker'[x]]
       /\ walker'.nth = walker.nth /\ walker'.stage = "copy" /\ walker'.walk = w + 1 /\ walker'.map = walker.map
       /\ walker'.docs = walker.docs /\ walker'.pending = walker.pending
       /\ walker'.copied = Append(walker.copied, [href |-> href, page |-> doc.page])
  BY <1>1, <1>5, <1>15 DEF Stepped, MergeInv, WalkerTypes, WalkerFields
<1>20. Copies(w, doc, href, links, id)
  BY ZenonT(40), <1>1, <1>2, <1>3, <1>4, <1>5, <1>6, <1>7, <1>8, <1>9, <1>10, <1>12, <1>13, <1>17, <1>18, <1>19 DEF Copies
<1> QED BY <1>20

\* the package with one more document
LEMMA CopyPackage ==
    ASSUME MergeInv, NEW w, NEW doc, NEW href, NEW links, NEW id, Copies(w, doc, href, links, id)
    PROVE  Grows /\ MadeTypes' /\ PackageTrue' /\ PicturesTrue' /\ \A i : i # walker.nth => NothingOf(i)
<1>20. /\ href \in Href /\ href[1] = "Text" /\ href[2] = walker.nth /\ href \notin DOMAIN made.files
       /\ DOMAIN made'.files = DOMAIN made.files \cup {href} /\ mergeJob' = mergeJob
       /\ made'.files[href].kind = "html" /\ made'.files[href].data[1] = walker.nth
       /\ \A h \in DOMAIN made.files : made'.files[h] = made.files[h]
       /\ made' = [x \in MadeFields |-> made'[x]] /\ made'.nav = made.nav
       /\ made'.images = made.images /\ made'.sheets = made.sheets /\ made'.cover = made.cover
  <2>1. /\ href \in Href /\ href[1] = "Text" /\ href[2] = walker.nth /\ href \notin DOMAIN made.files
        /\ DOMAIN made'.files = DOMAIN made.files \cup {href} /\ mergeJob' = mergeJob
        /\ made'.files[href].kind = "html" /\ made'.files[href].data = <<walker.nth, doc.loc>>
        /\ \A h \in DOMAIN made.files : made'.files[h] = made.files[h]
        /\ made' = [x \in MadeFields |-> made'[x]] /\ made'.nav = made.nav
        /\ made'.images = made.images /\ made'.sheets = made.sheets /\ made'.cover = made.cover
    BY Zenon DEF Copies
  <2> QED BY <2>1
<1>0. PICK n : n = Len(made.manifest)
  OBVIOUS
<1>1. PICK s : s = Len(made.spine)
  OBVIOUS
<1>2. /\ made.manifest \in Seq(Declared) /\ n \in Nat /\ DOMAIN made.manifest = 1..n
      /\ made.spine \in Seq(EntryIds) /\ s \in Nat /\ DOMAIN made.spine = 1..s
  BY <1>0, <1>1 DEF MergeInv, MadeTypes
<1>3. PICK m : m = [id |-> id, kind |-> "html", href |-> href, cover |-> FALSE]
  OBVIOUS
<1>4. m \in Declared /\ m.id = id /\ m.kind = "html" /\ m.href = href /\ m.cover = FALSE
      /\ id[1] = "html" /\ id[2] = walker.nth /\ id[3] = s
  BY <1>1, <1>3 DEF Copies, Declared, Kinds
<1>5. /\ made'.manifest \in Seq(Declared) /\ DOMAIN made'.manifest = 1..(n + 1) /\ made'.manifest[n + 1] = m
      /\ \A k \in 1..n : made'.manifest[k] = made.manifest[k]
  <2>1. made'.manifest = Append(made.manifest, m)
    BY <1>3 DEF Copies
  <2> QED BY <1>0, <1>2, <1>4, <2>1
<1>6. /\ made'.spine \in Seq(EntryIds) /\ DOMAIN made'.spine = 1..(s + 1) /\ made'.spine[s + 1] = id
      /\ \A k \in 1..s : made'.spine[k] = made.spine[k]
  <2>1. made'.spine = Append(made.spine, id) /\ id \in EntryIds
    BY DEF Copies
  <2> QED BY <1>1, <1>2, <2>1
<1>7. Grows
  BY <1>20, <1>2, <1>5 DEF Grows
<1>8. \A i : i # walker.nth => NothingOf(i)
  BY <1>4 DEF NothingOf, Copies
<1>9. MadeTypes'
  <2>1. IsFiniteSet(DOMAIN made.files \cup {href})
    BY FS_AddElement DEF MergeInv, MadeTypes
  <2>2. href # NoHref
    <3>1. NoHref[1] = ""
      BY DEF NoHref
    <3> QED BY <3>1, <1>20
  <2> QED BY <2>1, <2>2, <1>20, <1>5, <1>6 DEF MergeInv, MadeTypes
<1>10. PackageTrue'
  <2>0. PackageTrue
    BY DEF MergeInv
  <2>1. ASSUME NEW h \in DOMAIN made'.files
        PROVE  /\ made'.files[h].kind \in Kinds /\ h[1] = DirOf[made'.files[h].kind]
               /\ h[1] = "Text" => made'.files[h].data[1] = h[2]
    <3>1. CASE h = href
      <4>1. made'.files[h].kind = "html" /\ made'.files[h].data[1] = walker.nth
        BY <3>1, <1>20
      <4> QED BY <3>1, <4>1, <1>20, DirsApart DEF Kinds
    <3>2. CASE h # href
      BY <3>2, <2>0, <1>20 DEF PackageTrue, DataOf
    <3> QED BY <3>1, <3>2
  <2>2. ASSUME NEW k \in DOMAIN made'.manifest
        PROVE  LET e == made'.manifest[k] IN
               /\ e.id[1] = e.kind /\ e.href \in DOMAIN made'.files /\ e.href[1] = DirOf[e.kind]
               /\ IF e.kind = "html" THEN e.id[2] = e.href[2] /\ \E t \in DOMAIN made'.spine : made'.spine[t] = e.id
                  ELSE e.id[3] = k - 1
    <3>1. CASE k = n + 1
      <4>1. made'.manifest[k] = m /\ href \in DOMAIN made'.files /\ href[1] = "Text" /\ href[2] = walker.nth
        BY <3>1, <1>5, <1>20
      <4>2. DirOf["html"] = "Text"
        BY DEF DirOf
      <4>3. s + 1 \in DOMAIN made'.spine
        BY <1>2, <1>6
      <4> QED BY <4>1, <4>2, <4>3, <1>4, <1>6
    <3>2. CASE k \in 1..n
      <4>1. LET e == made.manifest[k] IN
            /\ e.id[1] = e.kind /\ e.href \in DOMAIN made.files /\ e.href[1] = DirOf[e.kind]
            /\ IF e.kind = "html" THEN e.id[2] = e.href[2] /\ \E t \in DOMAIN made.spine : made.spine[t] = e.id
               ELSE e.id[3] = k - 1
        BY <3>2, <2>0, <1>2 DEF PackageTrue
      <4>2. DOMAIN made.files \subseteq DOMAIN made'.files
        BY <1>20
      <4>3. \A t \in DOMAIN made.spine : t \in DOMAIN made'.spine /\ made'.spine[t] = made.spine[t]
        BY <1>2, <1>6
      <4> QED BY <3>2, <4>1, <4>2, <4>3, <1>5
    <3> QED BY <3>1, <3>2, <1>2, <1>5
  <2>3. ASSUME NEW t \in DOMAIN made'.spine
        PROVE  /\ made'.spine[t][1] = "html" /\ made'.spine[t][3] = t - 1 /\ made'.spine[t][2] \in 1..walker'.nth
               /\ \E k \in DOMAIN made'.manifest : made'.manifest[k].id = made'.spine[t]
    <3>0. walker'.nth = walker.nth /\ walker.nth \in Nat \ {0}
      BY DEF Copies
    <3>1. CASE t = s + 1
      <4>1. n + 1 \in DOMAIN made'.manifest
        BY <1>2, <1>5
      <4>2. made'.spine[t] = id /\ t - 1 = s
        BY <3>1, <1>2, <1>6
      <4> QED BY <3>0, <4>1, <4>2, <1>4, <1>5
    <3>2. CASE t \in 1..s
      <4>1. /\ made.spine[t][1] = "html" /\ made.spine[t][3] = t - 1 /\ made.spine[t][2] \in 1..walker.nth
            /\ \E k \in DOMAIN made.manifest : made.manifest[k].id = made.spine[t]
        BY <3>2, <2>0, <1>2 DEF PackageTrue
      <4>2. \A k \in DOMAIN made.manifest : k \in DOMAIN made'.manifest /\ made'.manifest[k] = made.manifest[k]
        BY <1>2, <1>5
      <4> QED BY <3>0, <3>2, <4>1, <4>2, <1>6
    <3> QED BY <3>1, <3>2, <1>2, <1>6
  <2>4. ASSUME NEW a \in DOMAIN made'.spine, NEW b \in DOMAIN made'.spine, a < b
        PROVE  made'.spine[a][2] <= made'.spine[b][2]
    <3>1. a \in 1..s
      BY <2>4, <1>2, <1>6
    <3>2. CASE b \in 1..s
      BY <2>0, <2>4, <3>1, <3>2, <1>2, <1>6 DEF PackageTrue
    <3>3. CASE b = s + 1
      <4>1. made.spine[a][2] \in 1..walker.nth
        BY <2>0, <3>1, <1>2 DEF PackageTrue
      <4>2. walker.nth \in Nat
        BY DEF Copies
      <4> QED BY <3>1, <3>3, <4>1, <4>2, <1>4, <1>6
    <3> QED BY <3>2, <3>3, <1>2, <1>6
  <2>5. ASSUME NEW a \in 1..n
        PROVE  made.manifest[a].id # id /\ made.manifest[a].href # href
    <3>1. /\ made.manifest[a].id[1] = made.manifest[a].kind /\ made.manifest[a].href \in DOMAIN made.files
          /\ made.manifest[a].kind = "html" => \E t \in DOMAIN made.spine : made.spine[t] = made.manifest[a].id
      BY <2>0, <1>2 DEF PackageTrue
    <3>2. \A t \in DOMAIN made.spine : made.spine[t][3] = t - 1 /\ t - 1 # s
      BY <2>0, <1>2 DEF PackageTrue
    <3>3. made.manifest[a].href # href
      BY <3>1, <1>20
    <3> QED BY <3>1, <3>2, <3>3, <1>4
  <2>6. ASSUME NEW a \in DOMAIN made'.manifest, NEW b \in DOMAIN made'.manifest, a # b
        PROVE  /\ made'.manifest[a].id # made'.manifest[b].id
               /\ made'.manifest[a].kind \in {"img", "html"} => made'.manifest[a].href # made'.manifest[b].href
    <3>1. CASE a \in 1..n /\ b \in 1..n
      <4>1. a \in DOMAIN made.manifest /\ b \in DOMAIN made.manifest
        BY <3>1, <1>2
      <4>2. /\ made.manifest[a].id # made.manifest[b].id
            /\ made.manifest[a].kind \in {"img", "html"} => made.manifest[a].href # made.manifest[b].href
        BY <2>0, <2>6, <4>1 DEF PackageTrue
      <4>3. made'.manifest[a] = made.manifest[a] /\ made'.manifest[b] = made.manifest[b]
        BY <3>1, <1>5
      <4> QED BY <4>2, <4>3
    <3>2. CASE a \in 1..n /\ b = n + 1
      BY <3>2, <2>5, <1>4, <1>5
    <3>3. CASE a = n + 1 /\ b \in 1..n
      BY <3>3, <2>5, <1>4, <1>5
    <3> QED BY <3>1, <3>2, <3>3, <2>6, <1>2, <1>5
  <2> QED BY <2>1, <2>2, <2>3, <2>4, <2>6 DEF PackageTrue, DataOf
<1>11. PicturesTrue'
  <2>0. PicturesTrue
    BY DEF MergeInv
  <2>1. ASSUME NEW d \in DOMAIN made.images
        PROVE  /\ made.images[d] \in DOMAIN made'.files /\ made.images[d][1] = "Images"
               /\ made'.files[made.images[d]].data = d
               /\ \E k \in DOMAIN made'.manifest : made'.manifest[k].href = made.images[d]
    <3>1. /\ made.images[d] \in DOMAIN made.files /\ made.images[d][1] = "Images"
          /\ made.files[made.images[d]].data = d
          /\ \E k \in DOMAIN made.manifest : made.manifest[k].href = made.images[d]
      BY <2>0 DEF PicturesTrue, DataOf
    <3> QED BY <3>1, <1>7 DEF Grows
  <2>2. {k \in 1..(n + 1) : made'.manifest[k].cover} = {k \in 1..n : made.manifest[k].cover}
    <3>1. \A k \in 1..(n + 1) : k \in 1..n \/ k = n + 1
      BY <1>2
    <3>2. ~made'.manifest[n + 1].cover /\ \A k \in 1..n : k \in 1..(n + 1)
      BY <1>2, <1>4, <1>5
    <3> QED BY <3>1, <3>2, <1>5
  <2>3. {k \in DOMAIN made'.manifest : made'.manifest[k].cover} = {made'.cover} \ {0}
    BY <2>0, <2>2, <1>20, <1>2, <1>5 DEF PicturesTrue
  <2>4. \A t \in DOMAIN made'.sheets : made'.sheets[t] \in DOMAIN made'.files
    BY <2>0, <1>20 DEF PicturesTrue
  <2> QED BY <2>1, <2>3, <2>4, <1>20 DEF PicturesTrue, DataOf
<1> QED BY <1>7, <1>8, <1>9, <1>10, <1>11

\* the chapters are one more
LEMMA CopiedChapter ==
    ASSUME MergeInv, NEW w, NEW doc, NEW href, NEW links, NEW id, Copies(w, doc, href, links, id),
           Grows, MadeTypes', PackageTrue'
    PROVE  Chapters(walker.nth)' = Append(Chapters(walker.nth), <<walker.nth, doc.loc>>)
<1>1. PICK i : i = walker.nth
  OBVIOUS
<1>2. id \in EntryIds /\ id[2] = i /\ made'.spine = Append(made.spine, id)
  <2>1. id \in EntryIds /\ id = <<"html", walker.nth, Len(made.spine)>> /\ made'.spine = Append(made.spine, id)
    BY Zenon DEF Copies
  <2> QED BY <1>1, <2>1
<1>3. Chapters(i)' = Append(Chapters(i), DataOf(HrefOf(id))')
  <2>1. Chapters(i)' = IF id[2] = i THEN Append(Chapters(i), DataOf(HrefOf(id))') ELSE Chapters(i)
    BY <1>2, ChaptersGrow DEF MergeInv
  <2> QED BY <1>2, <2>1
<1>4. HrefOf(id)' = href
  <2>1. PICK n : n = Len(made.manifest) + 1
    OBVIOUS
  <2>2. made'.manifest = Append(made.manifest, [id |-> id, kind |-> "html", href |-> href, cover |-> FALSE])
    BY Zenon DEF Copies
  <2>3. made.manifest \in Seq(Declared)
    BY DEF MergeInv, MadeTypes
  <2>4. n \in DOMAIN made'.manifest /\ made'.manifest[n].id = id /\ made'.manifest[n].href = href
    <3>1. PICK m : m = [id |-> id, kind |-> "html", href |-> href, cover |-> FALSE]
      OBVIOUS
    <3>2. made'.manifest[n] = m /\ n \in DOMAIN made'.manifest
      BY <2>1, <2>2, <2>3, <3>1
    <3> QED BY <3>1, <3>2
  <2>5. made'.manifest \in Seq(Declared)
        /\ \A a, b \in DOMAIN made'.manifest : a # b => made'.manifest[a].id # made'.manifest[b].id
    BY DEF MadeTypes, PackageTrue
  <2>6. (CHOOSE m \in ToSet(made'.manifest) : m.id = made'.manifest[n].id).href = made'.manifest[n].href
    BY <2>4, <2>5, HrefOfEntry
  <2>7. HrefOf(id)' = (CHOOSE m \in ToSet(made'.manifest) : m.id = id).href
    BY DEF HrefOf
  <2> QED BY <2>4, <2>6, <2>7
<1>5. DataOf(HrefOf(id))' = <<i, doc.loc>>
  <2>1. made'.files[href].data = <<walker.nth, doc.loc>>
    BY Zenon DEF Copies
  <2>2. DataOf(HrefOf(id))' = made'.files[href].data
    BY <1>4 DEF DataOf
  <2> QED BY <1>1, <2>1, <2>2
<1>6. Chapters(walker.nth)' = Chapters(i)'
  <2>1. walker'.nth = i
    BY <1>1, Zenon DEF Copies
  <2> QED BY <2>1 DEF Chapters, HrefOf
<1> QED BY <1>1, <1>3, <1>5, <1>6

\* one more of a list that is taken from the front
LEMMA FrontGrows ==
    ASSUME NEW S, NEW s \in Seq(S), NEW n \in 1..Len(s)
    PROVE  SubSeq(s, 1, n) = Append(SubSeq(s, 1, n - 1), s[n])
<1>1. SubSeq(s, 1, n) \in Seq(S) /\ Len(SubSeq(s, 1, n)) = n /\ \A k \in 1..n : SubSeq(s, 1, n)[k] = s[k]
  OBVIOUS
<1>2. SubSeq(s, 1, n - 1) \in Seq(S) /\ Len(SubSeq(s, 1, n - 1)) = n - 1 /\ \A k \in 1..(n - 1) : SubSeq(s, 1, n - 1)[k] = s[k]
  OBVIOUS
<1>3. PICK front : front = SubSeq(s, 1, n - 1)
  OBVIOUS
<1>4. Append(front, s[n]) \in Seq(S) /\ Len(Append(front, s[n])) = n
      /\ \A k \in 1..n : Append(front, s[n])[k] = s[k]
  BY <1>2, <1>3
<1> QED BY <1>1, <1>3, <1>4, SameSeq

LEMMA CopyWalked ==
    ASSUME MergeInv, NEW w, NEW doc, NEW href, NEW links, NEW id, Copies(w, doc, href, links, id),
           Grows, MadeTypes', PackageTrue'
    PROVE  WalkerTypes' /\ Position' /\ PendingTrue' /\ CopiedTrue'
<1>p. /\ w = walker.walk /\ w \in 1..Len(walker.pending) /\ walker.stage = "copy" /\ Len(walker.copied) = w - 1
      /\ doc = walker.pending[w].doc /\ href = walker.pending[w].href
      /\ href[1] = "Text" /\ href[2] = walker.nth /\ href \notin DOMAIN made.files
      /\ walker.nth \in DOMAIN mergeJob.books /\ walker.nth \in Nat \ {0}
  BY Zenon DEF Copies
<1>f. /\ DOMAIN made'.files = DOMAIN made.files \cup {href}
      /\ made'.files[href].data = <<walker.nth, doc.loc>>
      /\ \A h \in DOMAIN made.files : made'.files[h] = made.files[h]
      /\ mergeJob' = mergeJob /\ fates' = fates /\ ending' = ending
  BY Zenon DEF Copies
<1>w. /\ walker'.nth = walker.nth /\ walker'.stage = "copy" /\ walker'.walk = w + 1 /\ walker'.map = walker.map
      /\ walker'.docs = walker.docs /\ walker'.pending = walker.pending
  BY Zenon DEF Copies
<1>r. walker' = [x \in WalkerFields |-> walker'[x]]
  BY Zenon DEF Copies
<1>c. walker'.copied = Append(walker.copied, [href |-> href, page |-> doc.page])
  BY Zenon DEF Copies
<1>1. walker.copied \in Seq(CopiedDoc) /\ walker.pending \in Seq(MappedDoc) /\ Len(walker.pending) \in Nat
      /\ DOMAIN walker.pending = 1..Len(walker.pending) /\ DOMAIN walker.copied = 1..(w - 1)
  <2>1. walker.copied \in Seq(CopiedDoc) /\ walker.pending \in Seq(MappedDoc)
    BY DEF MergeInv, WalkerTypes
  <2> QED BY <2>1, <1>p
<1>2. PICK c : c = [href |-> href, page |-> doc.page]
  OBVIOUS
<1>3. c \in CopiedDoc
  <2>1. walker.pending[w] \in MappedDoc
    BY <1>p, <1>1
  <2>2. href \in Href /\ doc \in DocForm
    BY <1>p, <2>1 DEF MappedDoc
  <2>3. doc.page \in STRING
    BY <2>2, DocParts
  <2> QED BY <1>2, <2>2, <2>3 DEF CopiedDoc
<1>4. /\ walker'.copied \in Seq(CopiedDoc) /\ Len(walker'.copied) = w /\ DOMAIN walker'.copied = 1..w
      /\ walker'.copied[w] = c /\ \A k \in 1..(w - 1) : walker'.copied[k] = walker.copied[k]
  BY <1>c, <1>p, <1>1, <1>2, <1>3
<1>5. Source' = Source
  BY <1>f, <1>w DEF Source
<1>6. WalkerTypes'
  <2>1. w + 1 \in Nat \ {0} /\ "copy" \in MergeStages
    BY <1>p DEF MergeStages
  <2>2. walker'.nth \in Nat /\ walker'.stage \in MergeStages /\ walker'.walk \in Nat \ {0}
        /\ walker'.pending \in Seq(MappedDoc) /\ walker'.copied \in Seq(CopiedDoc)
    BY <2>1, <1>p, <1>w, <1>1, <1>4
  <2> QED BY <2>2, <1>f, <1>r DEF MergeInv, WalkerTypes
<1>7. Position'
  <2>1. Walked' = walker.pending
    BY <1>w DEF Walked
  <2>2. Len(fates) = walker.nth - 1
    BY <1>p DEF MergeInv, Position
  <2>n. walker'.nth # 0 /\ Len(fates') = walker'.nth - 1 /\ walker'.nth \in DOMAIN mergeJob'.books
    BY <1>p, <1>f, <1>w, <2>2
  <2>c. walker'.walk <= Len(walker.pending) + 1 /\ Len(walker'.copied) = walker'.walk - 1
    <3>1. w \in 1..Len(walker.pending) /\ walker'.walk = w + 1
      BY <1>p, <1>w
    <3> QED BY <1>1, <1>4, <3>1
  <2>3. /\ walker'.nth # 0 /\ Len(fates') = walker'.nth - 1 /\ walker'.nth \in DOMAIN mergeJob'.books
        /\ walker'.walk <= Len(walker.pending) + 1 /\ Len(walker'.copied) = walker'.walk - 1
    BY ONLY <2>n, <2>c
  <2>4. (InSource => walker.walk <= Len(Walked) + 1)'
    BY ONLY <2>1, <2>3
  <2>5. PICK s : s = walker'.stage
    OBVIOUS
  <2>6. s # "start" /\ s # "open" /\ s # "nav" /\ s \notin {"nav", "others", "end"}
        /\ s \in {"map", "copy", "nav", "others", "end"} /\ s \in {"copy", "nav", "others", "end"}
    BY <1>w, <2>5
  <2> QED BY ONLY <2>3, <2>4, <2>5, <2>6, Zenon DEF Position
<1>8. DocsMapped'
  <2>0. DocsMapped
    BY DEF MergeInv, PendingTrue
  <2>1. ASSUME NEW k \in DOMAIN walker.pending
        PROVE  LET p == walker.pending[k] IN
               /\ p.doc \in ToSet(Source.docs) /\ p.doc.loc \in DOMAIN walker.docs
               /\ p.href[1] = "Text" /\ p.href[2] = walker.nth
               /\ k \notin 1..w => p.href \notin DOMAIN made'.files
    <3>1. LET p == walker.pending[k] IN
          /\ p.doc \in ToSet(Source.docs) /\ p.doc.loc \in DOMAIN walker.docs
          /\ p.href[1] = "Text" /\ p.href[2] = walker.nth
          /\ k \notin 1..(w - 1) => p.href \notin DOMAIN made.files
      BY <2>0, <1>1 DEF DocsMapped
    <3>2. k # w => walker.pending[k].href # href
      BY <2>0, <1>p, <1>1 DEF DocsMapped
    <3>3. k \notin 1..w => k \notin 1..(w - 1) /\ k # w
      BY <1>p
    <3> QED BY <3>1, <3>2, <3>3, <1>f
  <2> QED BY <2>0, <2>1, <1>w, <1>4, <1>5 DEF DocsMapped
<1>9. PendingTrue'
  <2>1. MappedTo(Len(Source.docs))
    BY <1>p DEF MergeInv, PendingTrue
  <2>2. MappedTo(Len(Source.docs))'
    <3>1. CoverPages' = CoverPages
      BY <1>f DEF CoverPages
    <3>2. PagesOf(walker.pending)' = PagesOf(walker.pending)
      BY <1>w DEF PagesOf
    <3>3. ReadTo(walker.nth, Len(Source.docs))' = ReadTo(walker.nth, Len(Source.docs))
      BY <1>w, <1>f, <1>5 DEF ReadTo
    <3> QED BY <2>1, <3>1, <3>2, <3>3 DEF MappedTo, NoCovers
  <2> QED BY <1>w, <1>8, <2>2 DEF PendingTrue
<1>10. CopiedTrue'
  <2>0. CopiedTrue
    BY DEF MergeInv
  <2>1. ASSUME NEW k \in DOMAIN walker'.copied
        PROVE  LET p == walker.pending[k] IN
               /\ k \in DOMAIN walker.pending /\ walker'.copied[k] = [href |-> p.href, page |-> p.doc.page]
               /\ p.href \in DOMAIN made'.files /\ made'.files[p.href].data = <<walker.nth, p.doc.loc>>
    <3>1. CASE k = w
      <4>1. walker'.copied[w] = [href |-> walker.pending[w].href, page |-> walker.pending[w].doc.page]
        BY <1>p, <1>2, <1>4
      <4>2. w \in DOMAIN walker.pending /\ walker.pending[w].href \in DOMAIN made'.files
            /\ made'.files[walker.pending[w].href].data = <<walker.nth, walker.pending[w].doc.loc>>
        BY <1>p, <1>f, <1>1
      <4> QED BY ONLY <3>1, <4>1, <4>2
    <3>2. CASE k \in 1..(w - 1)
      <4>1. LET p == walker.pending[k] IN
            /\ k \in DOMAIN walker.pending /\ walker.copied[k] = [href |-> p.href, page |-> p.doc.page]
            /\ p.href \in DOMAIN made.files /\ made.files[p.href].data = <<walker.nth, p.doc.loc>>
        BY <2>0, <3>2, <1>1 DEF CopiedTrue, DataOf
      <4> QED BY <3>2, <4>1, <1>f, <1>4
    <3>3. k = w \/ k \in 1..(w - 1)
      BY <1>p, <1>4
    <3> QED BY <3>1, <3>2, <3>3
  <2>2. ASSUME NEW h \in DOMAIN made'.files, h[1] = "Text"
        PROVE  /\ h[2] <= walker.nth
               /\ h[2] = walker.nth => \E k \in 1..w : walker.pending[k].href = h
    <3>1. CASE h = href
      <4>1. w \in 1..w
        BY <1>p
      <4> QED BY <3>1, <1>p, <4>1
    <3>2. CASE h # href
      <4>1. h \in DOMAIN made.files
        BY <3>2, <1>f
      <4>2. h[2] <= walker.nth /\ (h[2] = walker.nth => \E k \in 1..(w - 1) : walker.pending[k].href = h)
        BY <2>0, <2>2, <4>1, <1>1 DEF CopiedTrue
      <4>3. \A k \in 1..(w - 1) : k \in 1..w
        BY <1>p
      <4> QED BY <4>2, <4>3
    <3> QED BY <3>1, <3>2
  <2>3. Chapters(walker.nth)' = SubSeq(PagesOf(walker.pending), 1, w)
    <3>1. Chapters(walker.nth)' = Append(Chapters(walker.nth), <<walker.nth, doc.loc>>)
      BY CopiedChapter
    <3>2. Chapters(walker.nth) = SubSeq(PagesOf(walker.pending), 1, w - 1)
      BY <2>0, <1>p DEF CopiedTrue
    <3>3. PICK pages : pages = PagesOf(walker.pending)
      OBVIOUS
    <3>4. PICK n \in Nat : n = Len(walker.pending)
      BY <1>1
    <3>5. pages = [k \in 1..n |-> <<walker.nth, walker.pending[k].doc.loc>>]
      BY <3>3, <3>4, <1>1 DEF PagesOf
    <3>6. PICK S : S = {pages[k] : k \in 1..n}
      OBVIOUS
    <3>7. pages \in Seq(S) /\ Len(pages) = n /\ w \in 1..Len(pages) /\ pages[w] = <<walker.nth, doc.loc>>
      <4>1. \A k \in 1..n : pages[k] \in S
        BY <3>6
      <4>2. pages = [k \in 1..n |-> pages[k]]
        BY <3>5
      <4>3. pages \in Seq(S) /\ Len(pages) = n
        BY <3>4, <4>1, <4>2
      <4> QED BY <4>3, <3>4, <3>5, <1>p
    <3>8. SubSeq(pages, 1, w) = Append(SubSeq(pages, 1, w - 1), pages[w])
      BY <3>7, FrontGrows
    <3> QED BY <3>1, <3>2, <3>3, <3>7, <3>8
  <2>4. PagesOf(walker.pending)' = PagesOf(walker.pending)
    BY <1>w DEF PagesOf
  <2>5. \A k \in DOMAIN walker'.copied : LET p == walker'.pending[k] IN
            /\ k \in DOMAIN walker'.pending /\ walker'.copied[k] = [href |-> p.href, page |-> p.doc.page]
            /\ p.href \in DOMAIN made'.files /\ made'.files[p.href].data = <<walker'.nth, p.doc.loc>>
    BY <2>1, <1>w
  <2>6. \A h \in DOMAIN made'.files : h[1] = "Text" =>
            /\ h[2] <= walker'.nth
            /\ h[2] = walker'.nth => \E k \in DOMAIN walker'.copied : walker'.pending[k].href = h
    BY <2>2, <1>w, <1>4
  <2>7. Chapters(walker.nth)' = SubSeq(PagesOf(walker.pending)', 1, Len(walker'.copied))
    BY <2>3, <2>4, <1>4
  <2> QED BY <2>5, <2>6, <2>7 DEF CopiedTrue, DataOf
<1> QED BY <1>6, <1>7, <1>9, <1>10

LEMMA CopyLinks ==
    ASSUME MergeInv, NEW w, NEW doc, NEW href, NEW links, NEW id, Copies(w, doc, href, links, id),
           Grows, MadeTypes', PackageTrue'
    PROVE  MapTrue' /\ NavTrue' /\ SourcesTrue' /\ EndingTrue'
<1>p. /\ w = walker.walk /\ w \in 1..Len(walker.pending) /\ walker.stage = "copy" /\ Len(walker.copied) = w - 1
      /\ href = walker.pending[w].href /\ href \notin DOMAIN made.files
      /\ links = Rewritten(doc.links \cup ({doc.image} \ {NoPath}))
      /\ walker.nth \in Nat \ {0}
  BY Zenon DEF Copies
<1>f. /\ made'.files[href].links = links
      /\ DOMAIN made'.files = DOMAIN made.files \cup {href}
      /\ \A h \in DOMAIN made.files : made'.files[h] = made.files[h]
      /\ mergeJob' = mergeJob /\ fates' = fates /\ ending' = ending
      /\ made'.nav = made.nav /\ made'.cover = made.cover
  BY Zenon DEF Copies
<1>w. /\ walker'.nth = walker.nth /\ walker'.stage = "copy" /\ walker'.map = walker.map
      /\ walker'.docs = walker.docs /\ walker'.pending = walker.pending
  BY Zenon DEF Copies
<1>c. walker'.copied = Append(walker.copied, [href |-> href, page |-> doc.page])
  BY Zenon DEF Copies
<1>1. DOMAIN walker'.copied = 1..w /\ DOMAIN walker.copied = 1..(w - 1)
  <2>1. walker.copied \in Seq(CopiedDoc)
    BY DEF MergeInv, WalkerTypes
  <2>2. PICK c : c = [href |-> href, page |-> doc.page]
    OBVIOUS
  <2>3. walker'.copied = Append(walker.copied, c)
    BY <1>c, <2>2
  <2> QED BY <1>p, <2>1, <2>3
<1>2. Source' = Source
  BY <1>f, <1>w DEF Source
<1>3. /\ LinksKnown /\ LinksCopied
      /\ \A k \in 1..SeenImages : ImageKnown(Source.images[k]) /\ CoverKnown(Source.images[k])
  BY <1>p DEF MergeInv, MapTrue, Walking
<1>4. MapTrue'
  <2>1. SeenImages' = SeenImages
    BY <1>p, <1>w, <1>2 DEF SeenImages
  <2>2. LinksKnown'
    BY <1>3, <1>f, <1>w DEF LinksKnown
  <2>3. ASSUME NEW k \in 1..SeenImages' PROVE ImageKnown(Source.images[k])' /\ CoverKnown(Source.images[k])'
    <3>1. PICK x : x = Source.images[k]
      OBVIOUS
    <3>2. ImageKnown(x) /\ CoverKnown(x)
      BY <1>3, <2>1, <3>1
    <3>3. x = Source'.images[k]
      BY <3>1, <1>2
    <3>4. ImageKnown(x)'
      BY <3>2, <1>f, <1>w DEF ImageKnown, DataOf
    <3>5. CoverKnown(x)'
      BY <3>2, <1>f, <1>2 DEF CoverKnown
    <3> QED BY <3>3, <3>4, <3>5 DEF ImageKnown, CoverKnown
  <2>4. LinksCopied'
    <3>1. \A loc : Link(loc)' = Link(loc)
      BY <1>w DEF Link
    <3>2. \A l \in links : l[2] = Link(l[1])
      BY <1>p DEF Rewritten
    <3>3. ASSUME NEW k \in 1..w, NEW l \in made'.files[walker.pending[k].href].links PROVE l[2] = Link(l[1])
      <4>1. CASE k = w
        BY <4>1, <3>2, <3>3, <1>p, <1>f
      <4>2. CASE k \in 1..(w - 1)
        <5>1. walker.pending[k].href \in DOMAIN made.files
          BY <4>2, <1>1 DEF MergeInv, CopiedTrue
        <5>2. l \in made.files[walker.pending[k].href].links
          BY <5>1, <3>3, <1>f
        <5> QED BY <4>2, <5>2, <1>1, <1>3 DEF LinksCopied
      <4> QED BY <4>1, <4>2, <1>p
    <3>4. \A k \in DOMAIN walker'.copied : \A l \in made'.files[walker'.pending[k].href].links : l[2] = Link(l[1])
      BY <3>3, <1>1, <1>w
    <3> QED BY <3>1, <3>4 DEF LinksCopied
  <2> QED BY <1>w, <2>2, <2>3, <2>4 DEF MapTrue
<1>5. NavTrue'
  <2>1. RowsLead /\ \A n \in ToSet(made.nav) : n.of <= walker.nth /\ n.of # walker.nth
    BY <1>p DEF MergeInv, NavTrue
  <2>2. \A h, i : IsPageOf(h, i) => IsPageOf(h, i)'
    BY PageKept, ChapterIs DEF IsPageOf, MergeInv
  <2>3. RowsLead'
    BY <2>1, <2>2, <1>f DEF RowsLead
  <2> QED BY <2>1, <2>3, <1>f, <1>w DEF NavTrue
<1>6. SourcesTrue'
  <2>1. ASSUME NEW i \in DOMAIN fates PROVE SourceDone(i)'
    <3>1. i # walker.nth
      <4>1. Len(fates) = walker.nth - 1 /\ fates \in Seq({"merged", "skipped"})
        BY <1>p DEF MergeInv, Position, WalkerTypes
      <4> QED BY <4>1, <1>p
    <3>2. NothingOf(i)
      <4>1. PackageTrue /\ MadeTypes
        BY DEF MergeInv
      <4> QED BY <3>1, CopyPackage
    <3>3. /\ Chapters(i)' = Chapters(i) /\ NoCovers(Chapters(i))' = NoCovers(Chapters(i))
          /\ NoCovers(Readable(i))' = NoCovers(Readable(i)) /\ ImagesOf(i)' = ImagesOf(i)
          /\ LinksOf(i) => LinksOf(i)'
          /\ Contained(i) => Contained(i)'
      BY <3>2, SourceKept DEF MergeInv
    <3>4. SourceDone(i)
      BY DEF MergeInv, SourcesTrue
    <3> QED BY <3>3, <3>4, <1>f DEF SourceDone
  <2> QED BY <2>1, <1>f, <1>w DEF SourcesTrue
<1>7. EndingTrue'
  BY <1>p, <1>f, <1>w DEF MergeInv, EndingTrue
<1> QED BY <1>4, <1>5, <1>6, <1>7

LEMMA CopyCovers ==
    ASSUME MergeInv, NEW w, NEW doc, NEW href, NEW links, NEW id, Copies(w, doc, href, links, id),
           Grows
    PROVE  CoversOnce'
<1>p. /\ w = walker.walk /\ w \in 1..Len(walker.pending) /\ walker.stage = "copy" /\ Len(walker.copied) = w - 1
      /\ doc = walker.pending[w].doc
      /\ href = walker.pending[w].href /\ href \notin DOMAIN made.files /\ href[1] = "Text"
      /\ links = Rewritten(doc.links \cup ({doc.image} \ {NoPath}))
      /\ doc \in ToSet(Source.docs) /\ mergeJob.books[walker.nth] = Source /\ PathsAreTrue(Source)
  BY Zenon DEF Copies
<1>f. /\ made'.files[href].links = links /\ made'.files[href].data = <<walker.nth, doc.loc>>
      /\ DOMAIN made'.files = DOMAIN made.files \cup {href}
      /\ \A h \in DOMAIN made.files : made'.files[h] = made.files[h]
      /\ mergeJob' = mergeJob /\ made'.shown = made.shown
  BY Zenon DEF Copies
<1>w. /\ walker'.nth = walker.nth /\ walker'.stage = "copy" /\ walker'.map = walker.map
      /\ walker'.pending = walker.pending
  BY Zenon DEF Copies
<1>c. walker'.copied = Append(walker.copied, [href |-> href, page |-> doc.page])
  BY Zenon DEF Copies
<1>1. /\ DOMAIN walker'.copied = 1..w /\ DOMAIN walker.copied = 1..(w - 1)
      /\ walker.pending \in Seq(MappedDoc) /\ DOMAIN walker.pending = 1..Len(walker.pending) /\ Len(walker.pending) \in Nat
  <2>1. walker.copied \in Seq(CopiedDoc) /\ walker.pending \in Seq(MappedDoc)
    BY DEF MergeInv, WalkerTypes
  <2>2. PICK c : c = [href |-> href, page |-> doc.page]
    OBVIOUS
  <2>3. walker'.copied = Append(walker.copied, c)
    BY <1>c, <2>2
  <2> QED BY <1>p, <2>1, <2>3
<1> SUFFICES ASSUME mergeJob.smart PROVE ShownOnce' /\ ShownNext'
  BY <1>f DEF CoversOnce
<1>2. ShownOnce /\ ShownNext
  BY <1>p DEF MergeInv, CoversOnce
<1>3. \A loc : Link(loc)' = Link(loc)
  BY <1>w DEF Link
<1>4. ASSUME NEW h \in DOMAIN made.files, NEW x PROVE ShowsCover(h, x)' <=> ShowsCover(h, x)
  <2>1. CASE h[1] = "Text"
    BY <2>1, PageKept DEF MergeInv
  <2>2. CASE h[1] # "Text"
    BY <2>2 DEF ShowsCover
  <2> QED BY <2>1, <2>2
<1>5. ASSUME NEW x, ShowsCover(href, x)' PROVE x = WillShow(w)
  <2>1. CoverPages' = CoverPages
    BY <1>f DEF CoverPages
  <2>2. <<walker.nth, doc.loc>> \in CoverPages
        /\ \E d \in ToSet(mergeJob.books[walker.nth].docs) : d.loc = doc.loc /\ <<d.image, x>> \in links
    <3>1. PICK p : p = <<walker.nth, doc.loc>>
      OBVIOUS
    <3>2. DataOf(href)' = p /\ p[1] = walker.nth /\ p[2] = doc.loc
      BY <3>1, <1>f DEF DataOf
    <3>3. DataOf(href)' \in CoverPages'
          /\ \E d \in ToSet(mergeJob'.books[(DataOf(href)')[1]].docs) :
                 d.loc = (DataOf(href)')[2] /\ <<d.image, x>> \in made'.files[href].links
      BY <1>5 DEF ShowsCover
    <3>4. p \in CoverPages
          /\ \E d \in ToSet(mergeJob.books[p[1]].docs) : d.loc = p[2] /\ <<d.image, x>> \in links
      BY <3>2, <3>3, <2>1, <1>f
    <3> QED BY <3>1, <3>2, <3>4
  <2>3. \A d \in ToSet(Source.docs) : d.loc = doc.loc => d = doc
    BY <1>p DEF PathsAreTrue
  <2>4. <<doc.image, x>> \in links
    BY <2>2, <2>3, <1>p
  <2>5. x = Link(doc.image)
    BY <2>4, <1>p DEF Rewritten
  <2>6. doc.page = "cover"
    <3>1. PICK i \in DOMAIN mergeJob.books :
              <<walker.nth, doc.loc>> \in {<<i, d.loc>> : d \in {y \in ToSet(mergeJob.books[i].docs) : y.page = "cover"}}
      BY <2>2 DEF CoverPages
    <3>2. PICK d \in ToSet(mergeJob.books[i].docs) : d.page = "cover" /\ <<walker.nth, doc.loc>> = <<i, d.loc>>
      BY <3>1
    <3>3. i = walker.nth /\ d.loc = doc.loc
      BY <3>2
    <3> QED BY <3>2, <3>3, <2>3, <1>p
  <2>7. w \notin DOMAIN walker.copied
    BY <1>1, <1>p
  <2> QED BY <2>5, <2>6, <2>7, <1>p DEF WillShow, ShownCover
<1>6. \A k \in 1..Len(walker.pending) : WillShow(k) # NoHref =>
          /\ WillShow(k) \in made.shown /\ \A h \in DOMAIN made.files : ~ShowsCover(h, WillShow(k))
          /\ \A j \in 1..Len(walker.pending) : WillShow(j) = WillShow(k) => j = k
  BY <1>1, <1>2 DEF ShownNext
<1>7. ShownOnce'
  <2> SUFFICES ASSUME NEW h \in DOMAIN made'.files, NEW l \in made'.files[h].links, ShowsCover(h, l[2])', l[2] # NoHref
               PROVE  l[2] \in made.shown /\ \A g \in DOMAIN made'.files : ShowsCover(g, l[2])' => g = h
    BY <1>f DEF ShownOnce
  <2>1. PICK x : x = l[2]
    OBVIOUS
  <2>2. \A g : ShowsCover(g, l[2])' <=> ShowsCover(g, x)'
    BY <2>1 DEF ShowsCover, DataOf, CoverPages
  <2>3. CASE h = href
    <3>1. x = WillShow(w)
      BY <2>2, <2>3, <1>5
    <3>2. x \in made.shown /\ \A g \in DOMAIN made.files : ~ShowsCover(g, x)
      BY <3>1, <2>1, <1>6, <1>p
    <3> QED BY <3>2, <2>1, <2>2, <2>3, <1>4, <1>f
  <2>4. CASE h # href
    <3>1. h \in DOMAIN made.files /\ ShowsCover(h, x) /\ l \in made.files[h].links
      BY <2>2, <2>4, <1>4, <1>f
    <3>2. x \in made.shown /\ \A g \in DOMAIN made.files : ShowsCover(g, x) => g = h
      BY <3>1, <2>1, <1>2 DEF ShownOnce
    <3>3. ~ShowsCover(href, x)'
      BY <3>1, <2>1, <1>5, <1>6, <1>p
    <3> QED BY <3>2, <3>3, <2>1, <2>2, <1>4, <1>f
  <2> QED BY <2>3, <2>4
<1>8. \A k \in 1..Len(walker.pending) : WillShow(k)' = IF k = w THEN NoHref ELSE WillShow(k)
  <2> SUFFICES ASSUME NEW k \in 1..Len(walker.pending) PROVE WillShow(k)' = IF k = w THEN NoHref ELSE WillShow(k)
    OBVIOUS
  <2>1. k \in DOMAIN walker'.copied <=> k \in DOMAIN walker.copied \/ k = w
    BY <1>1, <1>p
  <2>2. PICK d : d = walker.pending[k].doc
    OBVIOUS
  <2>3. ShownCover(d)' = ShownCover(d)
    BY <1>3, <1>f DEF ShownCover
  <2>4. WillShow(k)' = IF k \in DOMAIN walker'.copied THEN NoHref ELSE ShownCover(d)'
    BY <2>2, <1>w DEF WillShow, ShownCover, Link
  <2> QED BY <2>1, <2>2, <2>3, <2>4 DEF WillShow
<1>9. ShownNext'
  <2>1. ASSUME NEW k \in 1..Len(walker.pending), WillShow(k)' # NoHref
        PROVE  /\ WillShow(k)' \in made.shown /\ \A h \in DOMAIN made'.files : ~ShowsCover(h, WillShow(k))'
               /\ \A j \in 1..Len(walker.pending) : WillShow(j)' = WillShow(k)' => j = k
    <3>1. PICK x : x = WillShow(k)'
      OBVIOUS
    <3>2. k # w /\ x = WillShow(k) /\ x # NoHref
      BY <2>1, <3>1, <1>8
    <3>3. x \in made.shown /\ (\A h \in DOMAIN made.files : ~ShowsCover(h, x)) /\ x # WillShow(w)
          /\ \A j \in 1..Len(walker.pending) : WillShow(j) = x => j = k
      BY <3>2, <1>6, <1>p
    <3>4. \A j \in 1..Len(walker.pending) : WillShow(j)' = x => j = k
      BY <3>2, <3>3, <1>8
    <3>5. \A h \in DOMAIN made'.files : ~ShowsCover(h, x)'
      BY <3>3, <1>4, <1>5, <1>f
    <3>6. \A h : ShowsCover(h, WillShow(k))' <=> ShowsCover(h, x)'
      BY <3>1 DEF ShowsCover, DataOf, CoverPages
    <3> QED BY <3>1, <3>3, <3>4, <3>5, <3>6
  <2> QED BY <2>1, <1>1, <1>w, <1>f DEF ShownNext
<1> QED BY <1>7, <1>9

LEMMA CopyKept == MergeInv /\ CopyDocument => MergeInv'
<1> SUFFICES ASSUME MergeInv, CopyDocument PROVE MergeInv'
  OBVIOUS
<1>1. PICK w, doc, href, links, id : Copies(w, doc, href, links, id)
  BY CopyIs
<1>2. Grows /\ MadeTypes' /\ PackageTrue' /\ PicturesTrue'
  BY <1>1, CopyPackage
<1>3. WalkerTypes' /\ Position' /\ PendingTrue' /\ CopiedTrue'
  BY <1>1, <1>2, CopyWalked
<1>4. MapTrue' /\ NavTrue' /\ SourcesTrue' /\ EndingTrue'
  BY <1>1, <1>2, CopyLinks
<1>5. CoversOnce'
  BY <1>1, <1>2, CopyCovers
<1> QED BY <1>2, <1>3, <1>4, <1>5 DEF MergeInv

-----------------------------------------------------------------------------
(* The table of contents *)

\* the names of the documents that are written
CopiedNames == {walker.copied[k].href : k \in DOMAIN walker.copied}

\* what is picked is of the kind of those that may be
LEMMA PickedWithin ==
    ASSUME NEW S, NEW T, NEW list \in Seq(T), NEW P, \A k \in P \cap (1..Len(list)) : list[k] \in S
    PROVE  Picked(list, P) \in Seq(S)
<1>1. PICK at : at = InOrder(P, Len(list))
  OBVIOUS
<1>2. at \in Seq(1..Len(list)) /\ Picked(list, P) \in Seq(T) /\ Len(Picked(list, P)) = Len(at)
      /\ \A k \in 1..Len(at) : Picked(list, P)[k] = list[at[k]] /\ at[k] \in P \cap (1..Len(list))
  BY <1>1, PickedFacts
<1>3. PICK r : r = Picked(list, P)
  OBVIOUS
<1>4. r \in Seq(T) /\ \A k \in 1..Len(r) : r[k] \in S
  BY <1>2, <1>3
<1> QED BY <1>3, <1>4

LEMMA PointParts ==
    /\ \A e \in KidForm : e.title \in TitleForm
    /\ \A e \in PointForm : e.title \in TitleForm /\ e.kids \in Seq(KidForm)
BY DEF KidForm, PointForm, TitleForm

LEMMA RowForms ==
    ASSUME NEW G
    PROVE  /\ \A title \in TitleForm, href \in G : [title |-> title, href |-> href, kids |-> <<>>] \in Leaf(G)
           /\ \A title \in TitleForm, href \in G, kids \in Seq(Leaf(G)) :
                  [title |-> title, href |-> href, kids |-> kids] \in Branch(G)
           /\ \A title \in TitleForm, href \in G, kids \in Seq(Branch(G)) :
                  [title |-> title, href |-> href, kids |-> kids] \in Trunk(G)
           /\ \A r \in Leaf(G) : r.href \in G /\ r.title \in TitleForm /\ r = [title |-> r.title, href |-> r.href, kids |-> <<>>]
           /\ \A r \in Branch(G) : r.href \in G /\ r.title \in TitleForm /\ r.kids \in Seq(Leaf(G))
                                   /\ r = [title |-> r.title, href |-> r.href, kids |-> r.kids]
           /\ \A r \in Trunk(G) : r.href \in G /\ r.title \in TitleForm /\ r.kids \in Seq(Branch(G))
                                   /\ r = [title |-> r.title, href |-> r.href, kids |-> r.kids]
<1>1. \A r \in Leaf(G) : r.href \in G /\ r.title \in TitleForm /\ r.kids = <<>>
                         /\ r = [title |-> r.title, href |-> r.href, kids |-> r.kids]
  BY DEF Leaf
<1>2. \A r \in Branch(G) : r.href \in G /\ r.title \in TitleForm /\ r.kids \in Seq(Leaf(G))
                           /\ r = [title |-> r.title, href |-> r.href, kids |-> r.kids]
  BY DEF Branch
<1>3. \A r \in Trunk(G) : r.href \in G /\ r.title \in TitleForm /\ r.kids \in Seq(Branch(G))
                          /\ r = [title |-> r.title, href |-> r.href, kids |-> r.kids]
  BY DEF Trunk
<1>4. \A title \in TitleForm, href \in G : [title |-> title, href |-> href, kids |-> <<>>] \in Leaf(G)
  BY DEF Leaf
<1>5. \A title \in TitleForm, href \in G, kids \in Seq(Leaf(G)) :
          [title |-> title, href |-> href, kids |-> kids] \in Branch(G)
  BY DEF Branch
<1>6. \A title \in TitleForm, href \in G, kids \in Seq(Branch(G)) :
          [title |-> title, href |-> href, kids |-> kids] \in Trunk(G)
  BY DEF Trunk
<1> QED BY <1>1, <1>2, <1>3, <1>4, <1>5, <1>6

LEMMA SeqWithin == ASSUME NEW S, NEW T, S \subseteq T, NEW s \in Seq(S) PROVE s \in Seq(T)
OBVIOUS

\* a row that has no rows of its own is a row that may have some
LEMMA RowsNest ==
    ASSUME NEW G
    PROVE  Leaf(G) \subseteq Branch(G) /\ Branch(G) \subseteq Trunk(G)
<1>1. ASSUME NEW r \in Leaf(G) PROVE r \in Branch(G)
  <2>1. r.href \in G /\ r.title \in TitleForm /\ r = [title |-> r.title, href |-> r.href, kids |-> <<>>]
    BY RowForms
  <2>2. <<>> \in Seq(Leaf(G))
    OBVIOUS
  <2>3. [title |-> r.title, href |-> r.href, kids |-> <<>>] \in Branch(G)
    BY <2>1, <2>2, RowForms
  <2> QED BY <2>1, <2>3
<1>2. ASSUME NEW r \in Branch(G) PROVE r \in Trunk(G)
  <2>1. r.href \in G /\ r.title \in TitleForm /\ r.kids \in Seq(Leaf(G)) /\ r = [title |-> r.title, href |-> r.href, kids |-> r.kids]
    BY RowForms
  <2>2. r.kids \in Seq(Branch(G))
    BY <1>1, <2>1, SeqWithin
  <2>3. [title |-> r.title, href |-> r.href, kids |-> r.kids] \in Trunk(G)
    BY <2>1, <2>2, RowForms
  <2> QED BY <2>1, <2>3
<1> QED BY <1>1, <1>2

LEMMA RowsWiden ==
    ASSUME NEW G, NEW H, G \subseteq H
    PROVE  Trunk(G) \subseteq Trunk(H)
<1>1. Leaf(G) \subseteq Leaf(H)
  BY DEF Leaf
<1>2. Branch(G) \subseteq Branch(H)
  <2> SUFFICES ASSUME NEW r \in Branch(G) PROVE r \in Branch(H)
    OBVIOUS
  <2>1. r.href \in G /\ r.title \in TitleForm /\ r.kids \in Seq(Leaf(G)) /\ r = [title |-> r.title, href |-> r.href, kids |-> r.kids]
    BY RowForms
  <2>2. r.kids \in Seq(Leaf(H))
    BY <1>1, <2>1, SeqWithin
  <2>3. [title |-> r.title, href |-> r.href, kids |-> r.kids] \in Branch(H)
    BY <2>1, <2>2, RowForms
  <2> QED BY <2>1, <2>3
<1> SUFFICES ASSUME NEW r \in Trunk(G) PROVE r \in Trunk(H)
  OBVIOUS
<1>3. r.href \in G /\ r.title \in TitleForm /\ r.kids \in Seq(Branch(G)) /\ r = [title |-> r.title, href |-> r.href, kids |-> r.kids]
  BY RowForms
<1>4. r.kids \in Seq(Branch(H))
  BY <1>2, <1>3, SeqWithin
<1>5. [title |-> r.title, href |-> r.href, kids |-> r.kids] \in Trunk(H)
  BY <1>3, <1>4, RowForms
<1> QED BY <1>3, <1>5

LEMMA CopiedIs ==
    ASSUME MergeInv, NEW k \in DOMAIN walker.copied
    PROVE  LET p == walker.pending[k] IN
           /\ k \in DOMAIN walker.pending /\ walker.copied[k].href = p.href /\ walker.copied[k].page = p.doc.page
           /\ p.href \in DOMAIN made.files /\ DataOf(p.href) = <<walker.nth, p.doc.loc>> /\ p.href[1] = "Text"
<1>1. PICK p : p = walker.pending[k]
  OBVIOUS
<1>2. CopiedTrue /\ DocsMapped
  BY DEF MergeInv, PendingTrue
<1>3. /\ k \in DOMAIN walker.pending /\ walker.copied[k] = [href |-> p.href, page |-> p.doc.page]
      /\ p.href \in DOMAIN made.files /\ DataOf(p.href) = <<walker.nth, p.doc.loc>>
  BY <1>1, <1>2 DEF CopiedTrue
<1>4. p.href[1] = "Text"
  BY <1>1, <1>2, <1>3 DEF DocsMapped
<1>5. PICK c : c = walker.copied[k]
  OBVIOUS
<1>6. c.href = p.href /\ c.page = p.doc.page
  BY <1>3, <1>5
<1> QED BY <1>1, <1>3, <1>4, <1>5, <1>6

LEMMA TargetIs ==
    ASSUME MergeInv, walker.stage = "nav", NEW loc
    PROVE  Target(loc) \in CopiedNames \cup {NoHref}
<1>1. Len(walker.copied) = Len(walker.pending) /\ walker.copied \in Seq(CopiedDoc) /\ walker.pending \in Seq(MappedDoc)
  BY DEF MergeInv, Position, WalkerTypes
<1>2. CASE loc \in DOMAIN walker.docs
  <2>1. PICK k \in DOMAIN walker.pending : walker.pending[k].href = walker.docs[loc]
    BY <1>2 DEF MergeInv, PendingTrue, DocsMapped
  <2>2. k \in DOMAIN walker.copied
    BY <1>1
  <2>3. walker.copied[k].href = walker.pending[k].href
    BY <2>2, CopiedIs
  <2> QED BY <1>2, <2>1, <2>2, <2>3 DEF Target, CopiedNames
<1>3. CASE loc \notin DOMAIN walker.docs
  BY <1>3 DEF Target
<1> QED BY <1>2, <1>3

LEMMA NamesLead ==
    ASSUME MergeInv, walker.stage = "nav", NEW h \in CopiedNames
    PROVE  h \in Href /\ h # NoHref /\ IsPageOf(h, walker.nth)
<1>1. PICK k \in DOMAIN walker.copied : h = walker.copied[k].href
  BY DEF CopiedNames
<1>2. k \in DOMAIN walker.pending /\ h = walker.pending[k].href /\ h \in DOMAIN made.files
      /\ DataOf(h) = <<walker.nth, walker.pending[k].doc.loc>>
  BY <1>1, CopiedIs
<1>3. h[1] = "Text"
  BY <1>1, CopiedIs
<1>4. h \in Href /\ h # NoHref
  BY <1>2 DEF MergeInv, MadeTypes
<1>5. IsChapter(h)
  BY <1>2, <1>3, ChapterIs DEF MergeInv
<1> QED BY <1>2, <1>4, <1>5 DEF IsPageOf, DataOf

\* the rows that lead somewhere, where the rest leads nowhere
LEMMA LeadingWithin ==
    ASSUME NEW S, NEW n \in Nat, NEW list, list = [k \in 1..n |-> list[k]],
           \A k \in 1..n : list[k].href # NoHref => list[k] \in S
    PROVE  Leading(list) \in Seq(S)
<1>1. list \in Seq({list[k] : k \in 1..n}) /\ Len(list) = n /\ DOMAIN list = 1..n
  OBVIOUS
<1>2. PICK P : P = {k \in DOMAIN list : list[k].href # NoHref}
  OBVIOUS
<1>3. \A k \in P \cap (1..Len(list)) : list[k] \in S
  BY <1>1, <1>2
<1>4. Picked(list, P) \in Seq(S)
  BY <1>1, <1>3, PickedWithin
<1> QED BY <1>2, <1>4 DEF Leading

LEMMA KidsWithin ==
    ASSUME MergeInv, walker.stage = "nav", NEW e \in PointForm
    PROVE  Kids(e) \in Seq(Leaf(CopiedNames))
<1>1. e.kids \in Seq(KidForm)
  BY PointParts
<1>2. PICK n \in Nat : n = Len(e.kids) /\ DOMAIN e.kids = 1..n /\ \A k \in 1..n : e.kids[k] \in KidForm
  BY <1>1
<1>3. PICK list : list = [k \in 1..n |-> [title |-> e.kids[k].title, href |-> Target(e.kids[k].loc), kids |-> <<>>]]
  OBVIOUS
<1>4. ASSUME NEW k \in 1..n, list[k].href # NoHref PROVE list[k] \in Leaf(CopiedNames)
  <2>1. PICK title, href : title = e.kids[k].title /\ href = Target(e.kids[k].loc)
    OBVIOUS
  <2>2. list[k] = [title |-> title, href |-> href, kids |-> <<>>]
    BY <1>3, <2>1
  <2>3. title \in TitleForm /\ href \in CopiedNames \cup {NoHref}
    BY <1>2, <2>1, PointParts, TargetIs
  <2>4. href \in CopiedNames
    BY <1>4, <2>2, <2>3
  <2> QED BY <2>2, <2>3, <2>4, RowForms
<1>5. Leading(list) \in Seq(Leaf(CopiedNames))
  <2>1. list = [k \in 1..n |-> list[k]]
    BY <1>3
  <2> QED BY <1>4, <2>1, LeadingWithin
<1> QED BY <1>2, <1>3, <1>5 DEF Kids

LEMMA RowWithin ==
    ASSUME MergeInv, walker.stage = "nav", NEW e \in PointForm, Row(e).href # NoHref
    PROVE  Row(e) \in Branch(CopiedNames)
<1>1. PICK kids : kids = Kids(e)
  OBVIOUS
<1>2. kids \in Seq(Leaf(CopiedNames)) /\ e.title \in TitleForm
  BY <1>1, KidsWithin, PointParts
<1>3. PICK target : target = Target(e.loc)
  OBVIOUS
<1>4. PICK href : href = IF target = NoHref /\ kids # <<>> THEN kids[1].href ELSE target
  OBVIOUS
<1>5. Row(e) = [title |-> e.title, kids |-> kids, href |-> href]
  BY <1>1, <1>3, <1>4 DEF Row
<1>6. href \in CopiedNames \cup {NoHref}
  <2>1. target \in CopiedNames \cup {NoHref}
    BY <1>3, TargetIs
  <2>2. kids # <<>> => kids[1] \in Leaf(CopiedNames)
    BY <1>2
  <2> QED BY <1>4, <2>1, <2>2, RowForms
<1>7. href \in CopiedNames
  BY <1>5, <1>6
<1>8. Row(e) = [title |-> e.title, href |-> href, kids |-> kids]
  BY <1>5
<1> QED BY <1>2, <1>7, <1>8, RowForms

LEMMA RowsWithin ==
    ASSUME MergeInv, walker.stage = "nav", NEW contents \in Seq(PointForm)
    PROVE  Rows(contents) \in Seq(Branch(CopiedNames))
<1>1. PICK n \in Nat : n = Len(contents) /\ DOMAIN contents = 1..n /\ \A k \in 1..n : contents[k] \in PointForm
  OBVIOUS
<1>2. PICK list : list = [k \in 1..n |-> Row(contents[k])]
  OBVIOUS
<1>3. ASSUME NEW k \in 1..n, list[k].href # NoHref PROVE list[k] \in Branch(CopiedNames)
  BY <1>1, <1>2, <1>3, RowWithin
<1>4. list = [k \in 1..n |-> list[k]]
  BY <1>2
<1>5. Leading(list) \in Seq(Branch(CopiedNames))
  BY <1>3, <1>4, LeadingWithin
<1> QED BY <1>1, <1>2, <1>5 DEF Rows

LEMMA NcxParts == \A x \in NcxForm : x.navRows \in Seq(PointForm)
BY DEF NcxForm

LEMMA OriginalWithin ==
    ASSUME MergeInv, walker.stage = "nav"
    PROVE  OriginalRows \in Seq(Branch(CopiedNames))
<1>1. walker.nth \in DOMAIN mergeJob.books /\ WalkerTypes
  BY DEF MergeInv, Position, Walking
<1>2. Source.ncx.navRows \in Seq(PointForm) /\ Source.contents \in Seq(PointForm)
  BY <1>1, SourceForm, NcxParts
<1>3. PICK a, b : a = Rows(Source.ncx.navRows) /\ b = Rows(Source.contents)
  OBVIOUS
<1>4. a \in Seq(Branch(CopiedNames)) /\ b \in Seq(Branch(CopiedNames))
  BY <1>2, <1>3, RowsWithin
<1> QED BY <1>3, <1>4 DEF OriginalRows

LEMMA RowChanged ==
    ASSUME NEW r, r = [title |-> r.title, href |-> r.href, kids |-> r.kids]
    PROVE  /\ \A ks : [r EXCEPT !.kids = ks] = [title |-> r.title, href |-> r.href, kids |-> ks]
           /\ \A h, ks : [r EXCEPT !.href = h, !.kids = ks] = [title |-> r.title, href |-> h, kids |-> ks]
<1>1. DOMAIN r = {"title", "href", "kids"}
  OBVIOUS
<1>2. ASSUME NEW ks PROVE [r EXCEPT !.kids = ks] = [title |-> r.title, href |-> r.href, kids |-> ks]
  <2>1. PICK x : x = [r EXCEPT !.kids = ks]
    OBVIOUS
  <2>2. x = [f \in {"title", "href", "kids"} |-> x[f]] /\ x.title = r.title /\ x.href = r.href /\ x.kids = ks
    BY <1>1, <2>1
  <2>3. x = [title |-> r.title, href |-> r.href, kids |-> ks]
    BY <2>2
  <2> QED BY <2>1, <2>3
<1>3. ASSUME NEW h, NEW ks
      PROVE  [r EXCEPT !.href = h, !.kids = ks] = [title |-> r.title, href |-> h, kids |-> ks]
  <2>1. PICK x : x = [r EXCEPT !.href = h, !.kids = ks]
    OBVIOUS
  <2>2. x = [f \in {"title", "href", "kids"} |-> x[f]] /\ x.title = r.title /\ x.href = h /\ x.kids = ks
    BY <1>1, <2>1
  <2>3. x = [title |-> r.title, href |-> h, kids |-> ks]
    BY <2>2
  <2> QED BY <2>1, <2>3
<1> QED BY Zenon, <1>2, <1>3

LEMMA CleanWithin ==
    ASSUME NEW r \in Branch(CopiedNames)
    PROVE  CleanRow(r) \in Seq(Branch(CopiedNames))
<1> DEFINE L == Leaf(CopiedNames)
           B == Branch(CopiedNames)
<1>0. L \subseteq B
  BY RowsNest
<1>1. r.href \in CopiedNames /\ r.title \in TitleForm /\ r.kids \in Seq(L)
      /\ r = [title |-> r.title, href |-> r.href, kids |-> r.kids]
  BY RowForms
<1>2. PICK kids : kids = Picked(r.kids, {k \in DOMAIN r.kids : r.kids[k].title \notin {"cover", "generic"}})
  OBVIOUS
<1>3. kids \in Seq(L)
  BY <1>1, <1>2, PickedFacts
<1>4. PICK plain : plain = Picked(kids, {k \in DOMAIN kids : PageOf(kids[k].href) # "cover"})
  OBVIOUS
<1>5. plain \in Seq(L)
  BY <1>3, <1>4, PickedFacts
<1>6. kids \in Seq(B)
  BY <1>0, <1>3, SeqWithin
<1> HIDE DEF L, B
<1>7. ASSUME NEW href \in CopiedNames, NEW ks \in Seq(L)
      PROVE  <<[title |-> r.title, href |-> href, kids |-> ks]>> \in Seq(B)
  <2>1. PICK x : x = [title |-> r.title, href |-> href, kids |-> ks]
    OBVIOUS
  <2>2. x \in B
    BY <1>1, <2>1, RowForms DEF L, B
  <2> QED BY <2>1, <2>2
<1>8. <<>> \in Seq(L)
  OBVIOUS
<1>9. /\ \A ks : [r EXCEPT !.kids = ks] = [title |-> r.title, href |-> r.href, kids |-> ks]
      /\ \A h, ks : [r EXCEPT !.href = h, !.kids = ks] = [title |-> r.title, href |-> h, kids |-> ks]
  BY Zenon, <1>1, RowChanged
<1>10. Len(plain) = 1 => plain[1].href \in CopiedNames
  <2>1. Len(plain) = 1 => plain[1] \in L
    BY <1>5
  <2> QED BY <2>1, RowForms DEF L
<1>11. CleanRow(r) = IF r.title \in {"cover", "generic"} THEN kids
                     ELSE IF Len(kids) = 1 /\ kids[1].href = r.href /\ kids[1].title = r.title
                     THEN <<[r EXCEPT !.kids = <<>>]>>
                     ELSE IF PageOf(r.href) = "cover" /\ Len(plain) = 1 /\ plain[1].title = r.title
                     THEN <<[r EXCEPT !.href = plain[1].href, !.kids = <<>>]>>
                     ELSE <<[r EXCEPT !.kids = kids]>>
  BY <1>2, <1>4 DEF CleanRow
<1>12. /\ <<[r EXCEPT !.kids = <<>>]>> \in Seq(B) /\ <<[r EXCEPT !.kids = kids]>> \in Seq(B)
       /\ Len(plain) = 1 => <<[r EXCEPT !.href = plain[1].href, !.kids = <<>>]>> \in Seq(B)
  <2>1. ASSUME NEW ks \in Seq(L) PROVE <<[r EXCEPT !.kids = ks]>> \in Seq(B)
    <3>1. PICK h : h = r.href
      OBVIOUS
    <3>2. <<[title |-> r.title, href |-> h, kids |-> ks]>> \in Seq(B)
      BY <1>1, <1>7, <3>1
    <3>3. [r EXCEPT !.kids = ks] = [title |-> r.title, href |-> h, kids |-> ks]
      BY <1>9, <3>1
    <3> QED BY Zenon, <3>2, <3>3
  <2>2. ASSUME NEW h \in CopiedNames PROVE <<[r EXCEPT !.href = h, !.kids = <<>>]>> \in Seq(B)
    <3>1. <<[title |-> r.title, href |-> h, kids |-> <<>>]>> \in Seq(B)
      BY <1>7, <1>8
    <3>2. [r EXCEPT !.href = h, !.kids = <<>>] = [title |-> r.title, href |-> h, kids |-> <<>>]
      BY Zenon, <1>9
    <3> QED BY Zenon, <3>1, <3>2
  <2> QED BY Zenon, <1>3, <1>8, <1>10, <2>1, <2>2
<1> QED BY <1>6, <1>11, <1>12 DEF B

LEMMA CleanRowsWithin ==
    ASSUME NEW rows \in Seq(Branch(CopiedNames))
    PROVE  CleanRows(rows) \in Seq(Branch(CopiedNames))
<1>1. PICK n \in Nat : n = Len(rows) /\ DOMAIN rows = 1..n /\ \A k \in 1..n : rows[k] \in Branch(CopiedNames)
  OBVIOUS
<1>2. PICK ss : ss = [i \in DOMAIN rows |-> CleanRow(rows[i])]
  OBVIOUS
<1>3. \A k \in 1..n : ss[k] \in Seq(Branch(CopiedNames))
  BY <1>1, <1>2, CleanWithin
<1>4. ss = [k \in 1..n |-> ss[k]]
  BY <1>1, <1>2
<1>5. ss \in Seq(Seq(Branch(CopiedNames)))
  <2>1. PICK T : T = Seq(Branch(CopiedNames))
    OBVIOUS
  <2>2. ss \in Seq(T)
    BY <1>3, <1>4, <2>1
  <2> QED BY <2>1, <2>2
<1>6. FlattenSeq(ss) \in Seq(Branch(CopiedNames))
  BY <1>5, FlattenMembers
<1> QED BY <1>2, <1>6 DEF CleanRows

LEMMA NavRowWithin ==
    ASSUME NEW G, NEW href \in G, NEW kids \in Seq(Branch(G))
    PROVE  NavRow(href, kids) \in Trunk(G)
<1>1. "book" \in TitleForm
  BY DEF TitleForm
<1> QED BY <1>1, RowForms DEF NavRow

LEMMA FallbackWithin ==
    ASSUME walker.copied \in Seq(CopiedDoc), walker.copied # <<>>
    PROVE  /\ FirstContent \in CopiedNames /\ FallbackRows # <<>>
           /\ FallbackRows \in Seq(Trunk(CopiedNames))
<1> DEFINE S == {walker.copied[k] : k \in DOMAIN walker.copied}
<1>1. walker.copied \in Seq(S) /\ \A c \in S : c.href \in CopiedNames
  BY DEF CopiedNames
<1>2. walker.copied[1] \in S
  OBVIOUS
<1> HIDE DEF S
<1>3. Content \in Seq(S)
  BY <1>1, PickedFacts DEF Content
<1>4. PICK list : list = Content
  OBVIOUS
<1>5. FirstContent \in CopiedNames
  <2>1. list # <<>> => list[1] \in S
    BY <1>3, <1>4
  <2> QED BY <1>1, <1>2, <1>4, <2>1 DEF FirstContent
<1>6. PICK t : t = Trunk(CopiedNames)
  OBVIOUS
<1>7. \A h \in CopiedNames : NavRow(h, <<>>) \in t
  <2>1. <<>> \in Seq(Branch(CopiedNames))
    OBVIOUS
  <2> QED BY <1>6, <2>1, NavRowWithin
<1>8. CASE Len(list) <= 1
  <2>1. FallbackRows = <<NavRow(FirstContent, <<>>)>>
    BY <1>4, <1>8 DEF FallbackRows
  <2> QED BY <1>5, <1>6, <1>7, <2>1
<1>9. CASE ~(Len(list) <= 1)
  <2>1. PICK n \in Nat : n = Len(list) /\ DOMAIN list = 1..n /\ n > 1 /\ \A k \in 1..n : list[k] \in S
    BY <1>3, <1>4, <1>9
  <2>2. FallbackRows = [i \in 1..n |-> NavRow(list[i].href, <<>>)]
    BY <1>4, <1>9, <2>1 DEF FallbackRows
  <2>3. \A i \in 1..n : NavRow(list[i].href, <<>>) \in t
    BY <1>1, <1>7, <2>1
  <2>4. FallbackRows \in Seq(t) /\ Len(FallbackRows) = n
    BY <2>2, <2>3
  <2> QED BY <1>5, <1>6, <2>1, <2>4
<1> QED BY <1>8, <1>9

\* the rows of a book lead to its documents that are written
LEMMA BookRowsWithin ==
    ASSUME MergeInv, walker.stage = "nav", walker.copied # <<>>
    PROVE  BookRows \in Seq(Trunk(CopiedNames)) /\ BookRows # <<>>
<1>0. walker.copied \in Seq(CopiedDoc)
  BY DEF MergeInv, WalkerTypes
<1>1. FirstContent \in CopiedNames /\ FallbackRows # <<>> /\ FallbackRows \in Seq(Trunk(CopiedNames))
  BY <1>0, FallbackWithin
<1>2. PICK clean : clean = CleanRows(OriginalRows)
  OBVIOUS
<1>3. clean \in Seq(Branch(CopiedNames))
  BY <1>2, OriginalWithin, CleanRowsWithin
<1>4. clean \in Seq(Trunk(CopiedNames))
  BY <1>3, RowsNest, SeqWithin
<1>5. PICK kids : kids = IF Len(OriginalRows) = 1 /\ OriginalRows[1].kids = <<>> THEN <<>> ELSE clean
  OBVIOUS
<1>6. kids \in Seq(Branch(CopiedNames))
  BY <1>3, <1>5
<1>7. NavRow(FirstContent, kids) \in Trunk(CopiedNames)
  BY <1>1, <1>6, NavRowWithin
<1>8. BookRows = IF Len(mergeJob.books) = 1 THEN (IF Len(clean) <= 1 THEN FallbackRows ELSE clean)
                 ELSE <<NavRow(FirstContent, kids)>>
  BY <1>2, <1>5 DEF BookRows
<1>9. ~(Len(clean) <= 1) => clean # <<>>
  OBVIOUS
<1>10. PICK one : one = <<NavRow(FirstContent, kids)>>
  OBVIOUS
<1>11. one \in Seq(Trunk(CopiedNames)) /\ one # <<>>
  BY <1>7, <1>10
<1> QED BY <1>1, <1>4, <1>8, <1>9, <1>10, <1>11

\* the contents are there, and the walk goes on
LEMMA NavBuilt ==
    ASSUME MergeInv, walker.stage = "nav", walker' = [walker EXCEPT !.stage = "others"],
           UNCHANGED <<mergeJob, fates, ending>>, NEW list \in Seq(Nested), made' = [made EXCEPT !.nav = list],
           ToSet(made.nav) \subseteq ToSet(list), NavTrue'
    PROVE  MergeInv'
<1>0. walker.nth \in Nat /\ walker.nth \in DOMAIN mergeJob.books /\ walker.walk = 1
      /\ walker = [x \in WalkerFields |-> walker[x]] /\ made = [x \in MadeFields |-> made[x]]
  BY DEF MergeInv, WalkerTypes, Position, Walking, MadeTypes
<1>1. /\ walker'.nth = walker.nth /\ walker'.stage = "others" /\ walker'.walk = 1
      /\ walker'.map = walker.map /\ walker'.docs = walker.docs
      /\ walker'.pending = walker.pending /\ walker'.copied = walker.copied
      /\ walker' = [x \in WalkerFields |-> walker'[x]]
      /\ mergeJob' = mergeJob /\ fates' = fates /\ ending' = ending
  BY <1>0 DEF WalkerFields
<1>2. /\ made' = [x \in MadeFields |-> made'[x]] /\ made'.nav = list
      /\ made'.files = made.files /\ made'.manifest = made.manifest /\ made'.spine = made.spine
      /\ made'.images = made.images /\ made'.sheets = made.sheets /\ made'.shown = made.shown
      /\ made'.cover = made.cover
  BY <1>0 DEF MadeFields
<1>3. Grows /\ NoPage
  BY <1>1, <1>2 DEF Grows, NoPage
<1>4. MadeTypes'
  BY <1>2 DEF MergeInv, MadeTypes
<1>5. PackageTrue'
  <2>1. PackageTrue
    BY DEF MergeInv
  <2> QED BY <2>1, <1>1, <1>2 DEF PackageTrue, DataOf
<1>6. PicturesTrue'
  <2>1. PicturesTrue
    BY DEF MergeInv
  <2> QED BY <2>1, <1>2 DEF PicturesTrue, DataOf
<1>7. /\ DocsMapped' /\ CopiedTrue' /\ Source' = Source
      /\ \A n : MappedTo(n) => MappedTo(n)'
      /\ \A x : CoverKnown(x) => CoverKnown(x)'
  <2>1. SameSource
    BY <1>1 DEF SameSource
  <2> QED BY <1>2, <1>3, <1>4, <1>5, <2>1, SourceWalked
<1>8. /\ \A i \in DOMAIN fates' : SourceDone(i)'
      /\ \A i : LinksOf(i) => LinksOf(i)'
      /\ mergeJob'.smart => ShownOnce'
  <2>1. made.shown \subseteq made'.shown
    BY <1>2
  <2> QED BY <1>1, <1>2, <1>3, <1>4, <1>5, <2>1, BookKept
<1>9. WalkerTypes'
  BY <1>0, <1>1 DEF MergeInv, WalkerTypes, MergeStages
<1>10. Position'
  <2>1. Walked' = Source.others
    BY <1>1, <1>7 DEF Walked
  <2>2. Len(Source.others) \in Nat
    BY <1>0, SourceForm DEF MergeInv
  <2>3. /\ walker.nth # 0 /\ Len(fates) = walker.nth - 1 /\ Len(walker.copied) = Len(walker.pending)
    <3>1. walker.nth # 0
      BY DEF MergeInv, Position
    <3> QED BY <3>1 DEF MergeInv, Position
  <2>4. walker'.walk <= Len(Walked') + 1
    BY <1>1, <2>1, <2>2
  <2>5. walker'.stage \in Walking /\ walker'.stage \notin {"start", "open", "copy", "nav"}
    BY <1>1 DEF Walking
  <2>6. walker'.nth \in DOMAIN mergeJob'.books /\ walker'.nth # 0 /\ Len(fates') = walker'.nth - 1
    BY <1>0, <1>1, <2>3
  <2>7. Len(walker'.copied) = Len(walker'.pending)
    BY <1>1, <2>3
  <2> QED BY <1>1, <2>4, <2>5, <2>6, <2>7 DEF Position
<1>11. PendingTrue'
  <2>1. \A n : n = Len(Source.docs) => (MappedTo(n)' <=> MappedTo(Len(Source.docs))')
    BY <1>7 DEF MappedTo, ReadTo
  <2> QED BY <1>1, <1>7, <2>1 DEF MergeInv, PendingTrue
<1>12. MapTrue'
  <2>1. SeenImages = Len(Source.images) /\ SeenImages' = Len(Source.images)
    BY <1>1, <1>7 DEF SeenImages
  <2>2. \A k \in 1..SeenImages' : CoverKnown(Source.images[k])
    BY <2>1 DEF MergeInv, MapTrue, Walking
  <2>3. ASSUME NEW k \in 1..SeenImages' PROVE CoverKnown(Source.images[k])'
    <3>1. PICK x : x = Source.images[k]
      OBVIOUS
    <3>2. CoverKnown(x)'
      BY <2>2, <3>1, <1>7
    <3> QED BY <3>1, <3>2, <1>7 DEF CoverKnown
  <2> QED BY <1>1, <2>3 DEF MapTrue
<1>13. CoversOnce'
  BY <1>1, <1>8 DEF CoversOnce
<1>14. SourcesTrue'
  <2>1. LinksOf(walker.nth)
    BY DEF MergeInv, SourcesTrue
  <2>2. PICK i : i = walker.nth
    OBVIOUS
  <2>3. LinksOf(i)'
    BY <1>8, <2>1, <2>2
  <2>4. LinksOf(walker.nth)'
    <3>1. \A j : j = walker.nth => (LinksOf(j)' <=> LinksOf(walker.nth)')
      BY <1>1 DEF LinksOf, Chapters, HrefOf, ImagesOf
    <3> QED BY <2>2, <2>3, <3>1
  <2> QED BY <1>1, <1>8, <2>4 DEF SourcesTrue
<1>15. EndingTrue'
  <2>1. IsValid' <=> IsValid
    BY <1>2 DEF IsValid
  <2> QED BY <1>1, <2>1 DEF MergeInv, EndingTrue
<1> QED BY <1>4, <1>5, <1>6, <1>7, <1>9, <1>10, <1>11, <1>12, <1>13, <1>14, <1>15 DEF MergeInv

\* a row that leads to the names of this source leads to its pages
LEMMA TrunkLeads ==
    ASSUME MergeInv, walker.stage = "nav", NEW r \in Trunk(CopiedNames)
    PROVE  /\ IsPageOf(r.href, walker.nth)
           /\ \A k \in ToSet(r.kids) :
                  IsPageOf(k.href, walker.nth) /\ \A g \in ToSet(k.kids) : IsPageOf(g.href, walker.nth)
<1>1. r.href \in CopiedNames /\ r.kids \in Seq(Branch(CopiedNames))
  BY RowForms
<1>2. ASSUME NEW k \in ToSet(r.kids) PROVE k.href \in CopiedNames /\ k.kids \in Seq(Leaf(CopiedNames))
  <2>1. k \in Branch(CopiedNames)
    BY <1>1, SeqToSet
  <2> QED BY <2>1, RowForms
<1>3. ASSUME NEW k \in ToSet(r.kids), NEW g \in ToSet(k.kids) PROVE g.href \in CopiedNames
  <2>1. g \in Leaf(CopiedNames)
    BY <1>2, SeqToSet
  <2> QED BY <2>1, RowForms
<1> QED BY <1>1, <1>2, <1>3, NamesLead

LEMMA NavKept == MergeInv /\ BuildNav => MergeInv'
<1> SUFFICES ASSUME MergeInv, BuildNav PROVE MergeInv'
  OBVIOUS
<1>1. walker.stage = "nav" /\ walker.nth \in DOMAIN mergeJob.books /\ walker.nth \in Nat /\ NavTrue
      /\ made.nav \in Seq(Nested) /\ made = [x \in MadeFields |-> made[x]]
      /\ walker = [x \in WalkerFields |-> walker[x]]
  BY DEF BuildNav, MergeInv, WalkerTypes, MadeTypes, Position, Walking
<1>2. CASE walker.copied # <<>> /\ Source.ncx.entry = "broken"
  <2>1. fates' = Append(fates, "skipped") /\ walker' = OpensNext(walker.nth + 1) /\ UNCHANGED <<mergeJob, made, ending>>
    BY <1>2 DEF BuildNav, SkipsSource
  <2>2. walker.stage \in Walking \cup {"open"} /\ walker.stage # "end" /\ walker.stage # "copy"
    BY <1>1 DEF Walking
  <2> QED BY <1>1, <2>1, <2>2, SourceLeft
<1>3. CASE ~(walker.copied # <<>> /\ Source.ncx.entry = "broken")
  <2>1. PICK rows : rows = BookRows
    OBVIOUS
  <2>2. PICK entry : entry = [of |-> walker.nth, navRows |-> rows]
    OBVIOUS
  <2>3. PICK list : list = IF walker.copied = <<>> THEN made.nav ELSE Append(made.nav, entry)
    OBVIOUS
  <2>4. /\ made' = [made EXCEPT !.nav = list] /\ walker' = [walker EXCEPT !.stage = "others"]
        /\ UNCHANGED <<mergeJob, fates, ending>>
    BY <1>3, <2>1, <2>2, <2>3 DEF BuildNav
  <2>5. /\ made'.nav = list /\ made'.files = made.files /\ walker'.nth = walker.nth
        /\ walker'.stage = "others" /\ walker'.copied = walker.copied
    BY <1>1, <2>4 DEF MadeFields, WalkerFields
  <2>6. \A h, i : IsPageOf(h, i)' <=> IsPageOf(h, i)
    BY <2>5 DEF IsPageOf, IsChapter
  <2>7. RowsLead /\ (\A n \in ToSet(made.nav) : n.of <= walker.nth /\ n.of # walker.nth)
    BY <1>1 DEF NavTrue
  <2>8. CASE walker.copied = <<>>
    <3>1. RowsLead'
      BY <2>3, <2>5, <2>6, <2>7, <2>8 DEF RowsLead
    <3>2. NavTrue'
      BY <2>3, <2>5, <2>7, <2>8, <3>1 DEF NavTrue
    <3>3. list = made.nav
      BY <2>3, <2>8
    <3> QED BY <1>1, <2>4, <3>2, <3>3, NavBuilt
  <2>9. CASE walker.copied # <<>>
    <3>1. rows \in Seq(Trunk(CopiedNames)) /\ rows # <<>>
      BY <1>1, <2>1, <2>9, BookRowsWithin
    <3>2. entry \in Nested
      <4>1. CopiedNames \subseteq Href
        BY <1>1, NamesLead
      <4>2. rows \in Seq(Trunk(Href))
        BY <3>1, <4>1, RowsWiden, SeqWithin
      <4> QED BY <1>1, <2>2, <4>2 DEF Nested
    <3>3. list = Append(made.nav, entry)
      BY <2>3, <2>9
    <3>4. list \in Seq(Nested) /\ ToSet(list) = ToSet(made.nav) \cup {entry}
      BY <1>1, <3>2, <3>3, AppendToSet
    <3>5. entry.of = walker.nth /\ entry.navRows = rows
      BY <2>2
    <3>6. ASSUME NEW r \in ToSet(entry.navRows)
          PROVE  /\ IsPageOf(r.href, entry.of)
                 /\ \A k \in ToSet(r.kids) :
                        IsPageOf(k.href, entry.of) /\ \A g \in ToSet(k.kids) : IsPageOf(g.href, entry.of)
      <4>1. r \in Trunk(CopiedNames)
        BY <3>1, <3>5, SeqToSet
      <4> QED BY <1>1, <3>5, <4>1, TrunkLeads
    <3>7. \A n \in ToSet(list) : \A r \in ToSet(n.navRows) :
              /\ IsPageOf(r.href, n.of)
              /\ \A k \in ToSet(r.kids) :
                     IsPageOf(k.href, n.of) /\ \A g \in ToSet(k.kids) : IsPageOf(g.href, n.of)
      BY <2>7, <3>4, <3>6 DEF RowsLead
    <3>8. \A a, b \in DOMAIN list : a < b => list[a].of < list[b].of
      <4>1. PICK m \in Nat : m = Len(made.nav) /\ DOMAIN made.nav = 1..m
        BY <1>1
      <4>2. DOMAIN list = 1..(m + 1) /\ list[m + 1] = entry /\ \A k \in 1..m : list[k] = made.nav[k]
        BY <1>1, <3>3, <4>1
      <4>3. \A k \in 1..m : made.nav[k] \in ToSet(made.nav) /\ made.nav[k].of \in Nat
        <5>1. \A x \in Nested : x.of \in Nat
          BY DEF Nested
        <5> QED BY <1>1, <4>1, <5>1, SMTT(30) DEF ToSet
      <4>4. ASSUME NEW k \in 1..m PROVE made.nav[k].of < walker.nth
        <5>1. PICK n : n = made.nav[k]
          OBVIOUS
        <5>2. n \in ToSet(made.nav) /\ n.of \in Nat /\ n.of <= walker.nth /\ n.of # walker.nth
          BY <2>7, <4>3, <5>1
        <5> QED BY <1>1, <5>1, <5>2
      <4>5. \A a, b \in 1..m : a < b => made.nav[a].of < made.nav[b].of
        BY <2>7, <4>1 DEF RowsLead
      <4> QED BY <3>5, <4>1, <4>2, <4>4, <4>5
    <3>9. RowsLead'
      BY <2>5, <2>6, <3>7, <3>8 DEF RowsLead
    <3>10. Contained(walker.nth)'
      BY <2>5, <3>1, <3>4, <3>5 DEF Contained
    <3>11. NavTrue'
      <4>1. \A n \in ToSet(list) : n.of <= walker.nth
        <5>1. ASSUME NEW n \in ToSet(list) PROVE n.of <= walker.nth
          <6>1. CASE n \in ToSet(made.nav)
            BY <2>7, <6>1
          <6>2. CASE n = entry
            BY <1>1, <3>5, <6>2
          <6> QED BY <3>4, <6>1, <6>2
        <5> QED BY <5>1
      <4> QED BY <2>5, <3>9, <3>10, <4>1 DEF NavTrue
    <3> QED BY <1>1, <2>4, <3>4, <3>11, NavBuilt
  <2> QED BY <2>8, <2>9
<1> QED BY <1>2, <1>3

-----------------------------------------------------------------------------
(* A merge of books is sound *)

LEMMA MergeStarts == MergeInit => MergeInv
<1> SUFFICES ASSUME MergeInit PROVE MergeInv
  OBVIOUS
<1>1. /\ walker.nth = 0 /\ walker.stage = "start" /\ walker.walk = 1 /\ walker.map = Empty /\ walker.docs = Empty
      /\ walker.pending = <<>> /\ walker.copied = <<>> /\ walker = [x \in WalkerFields |-> walker[x]]
  BY DEF MergeInit, WalkerFields
<1>2. /\ made.files = Empty /\ made.manifest = <<>> /\ made.spine = <<>> /\ made.nav = <<>> /\ made.images = Empty
      /\ made.sheets = Empty /\ made.shown = {} /\ made.cover = 0 /\ made = [x \in MadeFields |-> made[x]]
  BY DEF MergeInit, MadeFields
<1>3. /\ fates = <<>> /\ ending.status = "none" /\ ending.output = "old" /\ ending.temp = FALSE
      /\ ending = [x \in {"status", "output", "temp"} |-> ending[x]] /\ mergeJob \in MergeJobs
  BY DEF MergeInit
<1>4. DOMAIN Empty = {} /\ ToSet(<<>>) = {}
  BY DEF Empty, ToSet
<1>5. WalkerTypes
  BY <1>1, <1>3 DEF WalkerTypes, MergeStages
<1>6. MadeTypes
  BY <1>2, <1>4, FS_EmptySet DEF MadeTypes
<1>7. Position
  <2>1. ~InSource
    BY <1>1, AfterIs DEF InSource, InSourceStages
  <2> QED BY <1>1, <1>3, <2>1 DEF Position, Walking
<1>8. PackageTrue
  BY <1>2, <1>4 DEF PackageTrue
<1>9. PicturesTrue
  BY <1>2, <1>4 DEF PicturesTrue
<1>10. PendingTrue
  BY <1>1, <1>4 DEF PendingTrue, DocsMapped
<1>11. CopiedTrue
  <2>1. Chapters(0) = <<>>
    BY <1>2, <1>6, NoChapters
  <2>2. PagesOf(walker.pending) = <<>>
    BY <1>1 DEF PagesOf
  <2>3. SubSeq(<<>>, 1, 0) = <<>>
    OBVIOUS
  <2>4. Len(walker.copied) = 0 /\ DOMAIN walker.copied = {}
    BY <1>1
  <2>5. Chapters(walker.nth) = SubSeq(PagesOf(walker.pending), 1, Len(walker.copied))
    BY <1>1, <2>1, <2>2, <2>3, <2>4
  <2> QED BY <1>2, <1>4, <2>4, <2>5 DEF CopiedTrue
<1>12. MapTrue
  BY <1>1 DEF MapTrue, Walking
<1>13. CoversOnce
  BY <1>1, <1>2, <1>4 DEF CoversOnce, ShownOnce
<1>14. NavTrue
  BY <1>1, <1>2, <1>4 DEF NavTrue, RowsLead
<1>15. SourcesTrue
  BY <1>1, <1>3 DEF SourcesTrue
<1>16. EndingTrue
  BY <1>1, <1>3 DEF EndingTrue
<1> QED BY <1>5, <1>6, <1>7, <1>8, <1>9, <1>10, <1>11, <1>12, <1>13, <1>14, <1>15, <1>16 DEF MergeInv

LEMMA MergeStutters == MergeInv /\ UNCHANGED mergeVars => MergeInv'
<1> SUFFICES ASSUME MergeInv, UNCHANGED mergeVars PROVE MergeInv'
  OBVIOUS
<1>1. mergeJob' = mergeJob /\ walker' = walker /\ made' = made /\ fates' = fates /\ ending' = ending
  BY DEF mergeVars
<1>2. WalkerTypes'
  BY <1>1 DEF MergeInv, WalkerTypes
<1>3. Position'
  BY <1>1 DEF MergeInv, Position, InSource, Walked, Source
<1>4. Grows /\ NoPage /\ MadeTypes' /\ PackageTrue' /\ PicturesTrue' /\ (IsValid' <=> IsValid)
  <2>1. walker'.nth \in Nat /\ walker.nth <= walker'.nth
    BY <1>1 DEF MergeInv, WalkerTypes
  <2> QED BY <1>1, <2>1, SameBook
<1>5. /\ DocsMapped' /\ CopiedTrue' /\ Source' = Source
      /\ \A n : MappedTo(n) => MappedTo(n)'
      /\ \A k : WillShow(k)' = WillShow(k)
  <2>1. SameSource /\ walker'.map = walker.map /\ made'.spine = made.spine
    BY <1>1 DEF SameSource
  <2> QED BY <1>4, <2>1, SourceWalked
<1>6. /\ \A i \in DOMAIN fates' : SourceDone(i)'
      /\ \A i : LinksOf(i) => LinksOf(i)'
      /\ mergeJob'.smart => ShownOnce'
  <2>1. made'.spine = made.spine /\ made.shown \subseteq made'.shown
    BY <1>1
  <2> QED BY <1>1, <1>4, <2>1, BookKept
<1>7. PendingTrue'
  <2>1. \A n : n = walker.walk - 1 => (MappedTo(n)' <=> MappedTo(walker.walk - 1)')
    BY <1>1 DEF MappedTo, ReadTo
  <2>2. \A n : n = Len(Source.docs) => (MappedTo(n)' <=> MappedTo(Len(Source.docs))')
    BY <1>5 DEF MappedTo, ReadTo
  <2> QED BY <1>1, <1>5, <2>1, <2>2 DEF MergeInv, PendingTrue
<1>8. MapTrue'
  BY <1>1 DEF MergeInv, MapTrue, LinksKnown, SeenImages, ImageKnown, Source, DataOf, LinksCopied, Link, CoverKnown
<1>9. CoversOnce'
  <2>1. \A h, x : ShowsCover(h, x)' <=> ShowsCover(h, x)
    BY <1>1 DEF ShowsCover, DataOf, CoverPages
  <2>2. ShownNext => ShownNext'
    BY <1>1, <1>5, <2>1 DEF ShownNext
  <2> QED BY <1>1, <1>6, <2>2 DEF MergeInv, CoversOnce
<1>10. NavTrue'
  BY <1>1 DEF MergeInv, NavTrue, RowsLead, Contained, IsPageOf, IsChapter
<1>11. SourcesTrue'
  <2>1. \A i : i = walker.nth => (LinksOf(i)' <=> LinksOf(walker.nth)') /\ (LinksOf(i) <=> LinksOf(walker.nth))
    BY <1>1 DEF LinksOf, Chapters, HrefOf, ImagesOf
  <2>2. LinksOf(walker.nth) => LinksOf(walker.nth)'
    BY <1>6, <2>1
  <2> QED BY <1>1, <1>6, <2>2 DEF MergeInv, SourcesTrue
<1>12. EndingTrue'
  BY <1>1, <1>4 DEF MergeInv, EndingTrue
<1> QED BY <1>2, <1>3, <1>4, <1>5, <1>7, <1>8, <1>9, <1>10, <1>11, <1>12 DEF MergeInv

LEMMA MergeStays == MergeInv /\ [MergeNext]_mergeVars => MergeInv'
<1> SUFFICES ASSUME MergeInv, [MergeNext]_mergeVars PROVE MergeInv'
  OBVIOUS
<1>1. CASE BeginMerge
  BY <1>1, BeginKept, RefusedKept
<1>2. CASE MergeTexts
  BY <1>2, TextsKept
<1>3. CASE OpenSource
  BY <1>3, OpenKept
<1>4. CASE BrokenEntry
  BY <1>4, BrokenKept
<1>5. CASE MissingEntry
  BY <1>5, MissingKept
<1>6. CASE StageOver
  BY <1>6, StageOverKept
<1>7. CASE SourceOver
  BY <1>7, SourceOverKept
<1>8. CASE StoreImage
  BY <1>8, ImageKept
<1>9. CASE StoreCss
  BY <1>9, CssKept
<1>10. CASE MapDocument
  BY <1>10, MapDocumentKept
<1>11. CASE CopyDocument
  BY <1>11, CopyKept
<1>12. CASE StoreOther
  BY <1>12, OtherKept
<1>13. CASE BuildNav
  BY <1>13, NavKept
<1>14. CASE WritePackage
  BY <1>14, PackageKept
<1>15. CASE Publish
  BY <1>15, PublishKept
<1>16. CASE UNCHANGED mergeVars
  BY <1>16, MergeStutters
<1> QED BY <1>1, <1>2, <1>3, <1>4, <1>5, <1>6, <1>7, <1>8, <1>9, <1>10, <1>11, <1>12, <1>13, <1>14, <1>15, <1>16
        DEF MergeNext

LEMMA MergeIsTrue == MergeInv => MergeIsSound
<1> SUFFICES ASSUME MergeInv PROVE MergeIsSound
  OBVIOUS
<1>1. /\ PackageTrue /\ PicturesTrue /\ NavTrue /\ MadeTypes
      /\ \A i \in DOMAIN fates : SourceDone(i)
  BY DEF MergeInv, SourcesTrue
<1>2. ChaptersAreWhole
  <2>1. \A a, b \in DOMAIN made.spine : a < b => made.spine[a][2] <= made.spine[b][2]
    BY <1>1 DEF PackageTrue
  <2> QED BY <1>1, <2>1 DEF ChaptersAreWhole, SourceDone
<1>3. \A h : IsChapter(h) <=> h \in DOMAIN made.files /\ h[1] = "Text"
  BY <1>1, ChapterIs
<1>4. \A h : IsChapter(h) => made.files[h].data[1] = h[2]
  BY <1>1, <1>3 DEF PackageTrue, DataOf
<1>5. LinksLead
  <2> SUFFICES ASSUME NEW i \in DOMAIN fates, NEW h \in DOMAIN made.files, IsChapter(h), made.files[h].data[1] = i,
                      NEW l \in made.files[h].links
               PROVE  /\ l[2] # NoHref => l[2] \in DOMAIN made.files
                      /\ <<i, l[1]>> \in ToSet(Chapters(i)) => IsChapter(l[2]) /\ made.files[l[2]].data = <<i, l[1]>>
                      /\ \A x \in ImagesOf(i) : x.loc = l[1] =>
                             l[2] \in DOMAIN made.files /\ made.files[l[2]].data = x.data
    BY DEF LinksLead
  <2>1. h[1] = "Text" /\ h[2] = i /\ LinksOf(i)
    BY <1>1, <1>3, <1>4 DEF SourceDone
  <2>2. /\ l[2] # NoHref => l[2] \in DOMAIN made.files
        /\ <<i, l[1]>> \in ToSet(Chapters(i)) => IsChapter(l[2]) /\ DataOf(l[2]) = <<i, l[1]>>
        /\ \A x \in ImagesOf(i) : x.loc = l[1] =>
               l[2] \in DOMAIN made.files /\ l[2][1] = "Images" /\ DataOf(l[2]) = x.data
    BY <2>1 DEF LinksOf
  <2> QED BY <2>2 DEF DataOf
<1>6. CoversAreSingle
  <2>1. {k \in DOMAIN made.manifest : made.manifest[k].cover} = {made.cover} \ {0}
    BY <1>1 DEF PicturesTrue
  <2>2. \A i \in DOMAIN fates : \A x \in ImagesOf(i) :
            fates[i] = "merged" /\ x.loc = mergeJob.books[i].cover => made.cover # 0
    BY <1>1 DEF SourceDone
  <2>3. ASSUME mergeJob.smart, NEW x \in {m.href : m \in ToSet(made.manifest)}
        PROVE  Cardinality({h \in DOMAIN made.files :
                   /\ IsChapter(h) /\ made.files[h].data \in CoverPages
                   /\ \E d \in ToSet(mergeJob.books[made.files[h].data[1]].docs) :
                        d.loc = made.files[h].data[2] /\ <<d.image, x>> \in made.files[h].links}) <= 1
    <3>1. PICK pages : pages = {h \in DOMAIN made.files :
                   /\ IsChapter(h) /\ made.files[h].data \in CoverPages
                   /\ \E d \in ToSet(mergeJob.books[made.files[h].data[1]].docs) :
                        d.loc = made.files[h].data[2] /\ <<d.image, x>> \in made.files[h].links}
      OBVIOUS
    <3>2. x # NoHref
      <4>1. PICK k \in DOMAIN made.manifest : x = made.manifest[k].href
        BY <2>3 DEF ToSet
      <4>2. x \in DOMAIN made.files
        BY <1>1, <4>1 DEF PackageTrue
      <4> QED BY <1>1, <4>2 DEF MadeTypes
    <3>3. ASSUME NEW h \in pages
          PROVE  ShowsCover(h, x) /\ h \in DOMAIN made.files /\ \E l \in made.files[h].links : l[2] = x
      <4>1. PICK d \in ToSet(mergeJob.books[made.files[h].data[1]].docs) :
                d.loc = made.files[h].data[2] /\ <<d.image, x>> \in made.files[h].links
        BY <3>1
      <4>2. <<d.image, x>>[2] = x
        OBVIOUS
      <4>3. h \in DOMAIN made.files /\ h[1] = "Text" /\ made.files[h].data \in CoverPages
        BY <1>3, <3>1
      <4> QED BY <4>1, <4>2, <4>3 DEF ShowsCover, DataOf
    <3>4. \A g, h \in pages : g = h
      <4>1. ShownOnce
        BY <2>3 DEF MergeInv, CoversOnce
      <4> SUFFICES ASSUME NEW g \in pages, NEW h \in pages PROVE g = h
        OBVIOUS
      <4>2. PICK l \in made.files[h].links : l[2] = x
        BY <3>3
      <4>3. h \in DOMAIN made.files /\ ShowsCover(h, l[2]) /\ l[2] # NoHref
        BY <3>2, <3>3, <4>2
      <4>4. \A f \in DOMAIN made.files : ShowsCover(f, l[2]) => f = h
        BY <4>1, <4>3 DEF ShownOnce
      <4> QED BY <3>3, <4>2, <4>4
    <3>5. Cardinality(pages) <= 1
      <4>1. CASE pages = {}
        <5>1. Cardinality({}) = 0
          BY FS_EmptySet
        <5> QED BY <4>1, <5>1
      <4>2. CASE pages # {}
        <5>1. PICK h : h \in pages
          BY <4>2
        <5>2. pages = {h}
          BY <3>4, <5>1
        <5>3. Cardinality({h}) = 1
          BY FS_Singleton
        <5> QED BY <5>2, <5>3
      <4> QED BY <4>1, <4>2
    <3> QED BY <3>1, <3>5
  <2> QED BY <2>1, <2>2, <2>3 DEF CoversAreSingle
<1>7. NavLeads
  <2>1. RowsLead
    BY <1>1 DEF NavTrue
  <2>2. \A i \in DOMAIN fates : fates[i] = "merged" /\ Chapters(i) # <<>> =>
            \E n \in ToSet(made.nav) : n.of = i /\ n.navRows # <<>>
    BY <1>1 DEF SourceDone, Contained
  <2> QED BY <2>1, <2>2 DEF NavLeads, RowsLead
<1>8. OutputIsSafe
  <2>1. \A a, b \in DOMAIN made.manifest : a # b =>
           /\ made.manifest[a].id # made.manifest[b].id
           /\ made.manifest[a].kind \in {"img", "html"} => made.manifest[a].href # made.manifest[b].href
    BY <1>1 DEF PackageTrue
  <2>2. EndingTrue
    BY DEF MergeInv
  <2>3. ending.status # "none" => ~ending.temp
    BY <2>2 DEF EndingTrue
  <2> QED BY <2>1, <2>2, <2>3 DEF OutputIsSafe, EndingTrue
<1> QED BY <1>2, <1>5, <1>6, <1>7, <1>8 DEF MergeIsSound

\* Every merge of books, whatever the books hold and whichever of their files are missing or
\* broken: every chapter of a book told merged is in the output, in the order of the books;
\* links, covers and contents lead where they led; a merge that fails leaves what was there
THEOREM MergedBooksAreSound == MergeSpec => []MergeIsSound
<1>1. MergeInit => MergeInv
  BY MergeStarts
<1>2. MergeInv /\ [MergeNext]_mergeVars => MergeInv'
  BY MergeStays
<1>3. MergeInv => MergeIsSound
  BY MergeIsTrue
<1> QED BY <1>1, <1>2, <1>3, PTL DEF MergeSpec

\* What tools leave in files, for every text, list of books, rules and ways to write: a merge of
\* books, the chapters of a text, a replacement and the publication of a result each keep what
\* they promise, also where a file, a rule or the disk fails.
THEOREM FilesStayTrue == MergeSpec /\ TxtSpec /\ RulesSpec /\ FilesSpec => []FilesAreTrue
<1>1. MergeIsSound /\ ChaptersHoldTheText /\ RulesChain /\ FilesSurvive => FilesAreTrue
  BY DEF FilesAreTrue
<1> QED BY <1>1, MergedBooksAreSound, ChaptersAreTheText, RulesActInOrder, FilesStayWhole, PTL
=============================================================================
