------------------------------ MODULE EpubSession ---------------------------
(***************************************************************************)
(* transoria/tools/epub_content.py with bridge/handlers/epub_content.py:   *)
(* one editing session of an EPUB.  A resource is what its links and the   *)
(* ids other resources may point at; a link is <<path, id>>, id "" for the *)
(* whole resource.  Every request runs under the handler's lock, so each   *)
(* is one action; what can come between them is a failing write of the     *)
(* session's state file, a restart, and another program saving the EPUB.   *)
(***************************************************************************)
EXTENDS Naturals, Sequences, FiniteSets, SequencesExt

CONSTANTS
    Paths,      \* resource paths, those of the book and names it may get
    Folded,     \* Paths -> the name under NFC and case folding
    Ids,        \* ids a document may have
    Book,       \* the EPUB at the start: [res, spine, toc]
    UndoDepth,  \* undo steps kept (30)
    Courses     \* bounds of a behaviour: [requests, faults], how many changing requests
                \* are made and which of "persist", "restart", "source" happen

VARIABLES
    cur,       \* what _snapshot() holds: the session's view of the book
    undo, redo, checkpoints,  \* undo_stack, redo_stack, checkpoints
    path, seen,\* session.path, session.fingerprint
    loaded,    \* the session is in ContentSessionStore.sessions
    stored,    \* the state file of the session
    epubs,      \* EPUB files by name
    reply,     \* how the last request ended
    owed,      \* ghost: the last write of the state file failed
    requests, ahead  \* bounds: requests left, faults that may still happen
epubVars == <<cur, undo, redo, checkpoints, path, seen, loaded, stored, epubs, reply, owed, requests, ahead>>

Links   == Paths \X (Ids \cup {""})
Resource == [ids : SUBSET Ids, refs : SUBSET Links]
None    == [ids |-> {}, refs |-> {<<"nothing", "">>}]   \* no bytes
NoState == [path |-> "no state file"]
NoFile  == [print |-> "no file"]
Free    == [p \in Paths |-> None]
Has(f)  == {p \in Paths : f[p] # None}

\* the book that is opened has no link into nothing and no two names for one file
ASSUME EpubAssumption ==
    /\ "nothing" \notin Paths /\ "" \notin Ids /\ UndoDepth \in Nat
    /\ Book.res \in [Paths -> Resource \cup {None}]
    /\ Book.spine \in Seq(Has(Book.res)) /\ Book.toc \subseteq Links
    /\ \A r \in Book.toc \cup UNION {Book.res[p].refs : p \in Has(Book.res)} :
          r[1] \in Has(Book.res) /\ (r[2] = "" \/ r[2] \in Book.res[r[1]].ids)
    /\ \A p \in Has(Book.res) : \A q \in Has(Book.res) \ {p} : Folded[p] # Folded[q]

\* ContentSession.open: the view of an EPUB nobody has edited
Opened(epub) ==
    [files |-> Has(epub.res), spine |-> epub.spine, linear |-> ToSet(epub.spine),
     toc |-> epub.toc, removed |-> {}, changes |-> Free,
     manifest |-> Has(epub.res), itemrefs |-> ToSet(epub.spine)]
Packed == [path |-> path, seen |-> seen, cur |-> cur, undo |-> undo, redo |-> redo, checkpoints |-> checkpoints]

EpubInit ==
    /\ epubs = [o \in {"source", "other"} |->
                 IF o = "source" THEN [res |-> Book.res, spine |-> Book.spine, toc |-> Book.toc, print |-> 1]
                 ELSE NoFile]
    /\ cur = Opened(Book) /\ undo = <<>> /\ redo = <<>> /\ checkpoints = {}
    /\ path = "source" /\ seen = 1 /\ loaded = TRUE
    /\ stored = Packed
    /\ reply = "ok" /\ owed = FALSE /\ \E c \in Courses : requests = c.requests /\ ahead = c.faults

-----------------------------------------------------------------------------
(* Reading a view *)

\* _bytes: the draft, or the archive as it is now on epubs
Bytes(b, p) ==
    IF b.changes[p] # None THEN b.changes[p]
    ELSE IF p \in b.removed THEN None ELSE epubs[path].res[p]
ResourcePaths(b) == (Has(epubs[path].res) \ b.removed) \cup Has(b.changes)
Targets(b) == UNION {{<<p, "">>} \cup {<<p, i>> : i \in Bytes(b, p).ids} : p \in b.files}
Linked(b)  == b.toc \cup UNION {Bytes(b, p).refs : p \in b.files}

\* mutant: names are compared as they are written
NameIsFreeAsWritten(b, p) == p \notin ResourcePaths(b)
\* _check_new_path
NameIsFree(b, p) == \A q \in ResourcePaths(b) : Folded[q] # Folded[p]

Put(b, p, c)   == [b EXCEPT !.changes[p] = c]
Insert(s, p, q) == \* q after p
    LET i == CHOOSE k \in 1..Len(s) : s[k] = p IN SubSeq(s, 1, i) \o <<q>> \o SubSeq(s, i + 1, Len(s))
Without(s, ps) == \* s but for the members of ps
    LET kept[i \in 0..Len(s)] == IF i = 0 THEN <<>>
                                 ELSE IF s[i] \in ps THEN kept[i - 1] ELSE Append(kept[i - 1], s[i])
    IN  kept[Len(s)]

\* _rewrite_resource_links over every resource, the package and the contents
Moved(b, to) ==
    [b EXCEPT !.changes = [p \in Paths |->
                 IF p \in b.files /\ \E r \in Bytes(b, p).refs : to[r] # r
                 THEN [Bytes(b, p) EXCEPT !.refs = {to[r] : r \in @}] ELSE b.changes[p]],
              !.toc = {to[r] : r \in @}]

-----------------------------------------------------------------------------
(* What each operation does to a view *)

\* add_resource
Added(b, p, c, reading) ==
    [Put(b, p, c) EXCEPT
        !.files = @ \cup {p}, !.manifest = @ \cup {p},
        !.spine = IF reading THEN Append(@, p) ELSE @,
        !.linear = IF reading THEN @ \cup {p} ELSE @,
        !.itemrefs = IF reading THEN @ \cup {p} ELSE @]

\* mutant: the links of the other resources stay
RenamedAlone(b, p, t) ==
    [Put(Put(b, p, None), t, Bytes(b, p)) EXCEPT
        !.files = (@ \ {p}) \cup {t}, !.manifest = (@ \ {p}) \cup {t},
        !.spine = [i \in DOMAIN @ |-> IF @[i] = p THEN t ELSE @[i]],
        !.linear = IF p \in @ THEN (@ \ {p}) \cup {t} ELSE @,
        !.itemrefs = IF p \in @ THEN (@ \ {p}) \cup {t} ELSE @,
        !.removed = @ \cup {p}]
\* rename_resource
Renamed(b, p, t) ==
    LET m == Moved(b, [r \in Links |-> IF r[1] = p THEN <<t, r[2]>> ELSE r])
    IN [Put(Put(m, p, None), t, Bytes(m, p)) EXCEPT
        !.files = (@ \ {p}) \cup {t}, !.manifest = (@ \ {p}) \cup {t},
        !.spine = [i \in DOMAIN @ |-> IF @[i] = p THEN t ELSE @[i]],
        !.linear = IF p \in @ THEN (@ \ {p}) \cup {t} ELSE @,
        !.itemrefs = IF p \in @ THEN (@ \ {p}) \cup {t} ELSE @,
        !.removed = @ \cup {p}]

Gone(b, ps) == [b EXCEPT !.files = @ \ ps, !.manifest = @ \ ps, !.removed = @ \cup ps,
                         !.changes = [q \in Paths |-> IF q \in ps THEN None ELSE @[q]]]

\* mutant: the reading order of the package keeps the deleted chapters
DeletedFromViewOnly(b, ps) ==
    [Gone(b, ps) EXCEPT !.spine = Without(@, ps), !.linear = @ \ ps,
                        !.toc = {r \in @ : r[1] \notin ps}]
\* delete_resources: also out of the package, the reading order and the contents
Deleted(b, ps) ==
    [Gone(b, ps) EXCEPT !.spine = Without(@, ps), !.linear = @ \ ps, !.itemrefs = @ \ ps,
                        !.toc = {r \in @ : r[1] \notin ps}]

\* split_chapter: ids and links of the second half go to t
Split(b, p, t, ids, refs) ==
    LET m == Moved(b, [r \in Links |-> IF r[1] = p /\ r[2] \in ids THEN <<t, r[2]>> ELSE r])
        c == Bytes(m, p)
        to == {IF r[1] = p /\ r[2] \in ids THEN <<t, r[2]>> ELSE r : r \in refs}
    IN [Added(Put(m, p, [ids |-> c.ids \ ids, refs |-> c.refs \ to]), t,
              [ids |-> ids, refs |-> to], TRUE)
          EXCEPT !.spine = Insert(b.spine, p, t)]

\* merge_resources: q goes into p; links to either whole become links to sections
Merged(b, p, q, mp, mq) ==
    LET m == Moved(b, [r \in Links |->
                            CASE r = <<p, "">> -> <<p, mp>>
                                   [] r = <<q, "">> -> <<p, mq>>
                                   [] r[1] = q /\ r[2] # "" -> <<p, r[2]>>
                                   [] OTHER -> r])
    IN [Put(Gone(m, {q}), p, [ids |-> Bytes(m, p).ids \cup Bytes(m, q).ids \cup {mp, mq},
                              refs |-> Bytes(m, p).refs \cup Bytes(m, q).refs])
          EXCEPT !.spine = Without(@, {q}), !.linear = @ \ {q}, !.itemrefs = @ \ {q}]

-----------------------------------------------------------------------------
(* Requests *)

Keep(s)   == IF Len(s) > UndoDepth THEN SubSeq(s, Len(s) - UndoDepth + 1, Len(s)) ELSE s
Ready     == loaded /\ requests > 0 /\ requests' = requests - 1
Written   == [path |-> path', seen |-> seen', cur |-> cur', undo |-> undo', redo |-> redo', checkpoints |-> checkpoints']
\* store.persist: the state file is replaced, or the write fails and the request with it
Persist ==
    /\ UNCHANGED <<path, seen, loaded, epubs>>
    /\ \/ stored' = Written /\ owed' = FALSE /\ reply' = "ok" /\ UNCHANGED ahead
       \/ /\ "persist" \in ahead /\ ahead' = ahead \ {"persist"}
          /\ owed' = TRUE /\ reply' = "not stored" /\ UNCHANGED stored

\* _record and the operation, or transaction(): one step back, nothing to redo
Edit(b) ==
    /\ Ready
    /\ cur' = b
    /\ IF b = cur THEN UNCHANGED <<undo, redo>>
       ELSE undo' = Keep(Append(undo, cur)) /\ redo' = <<>>
    /\ UNCHANGED checkpoints
    /\ Persist

\* write, write_many, replace_resource: the links may become any that resolve
Write ==
    \E p \in cur.files : \E rs \in {{}} \cup {{r} : r \in Targets(cur)} :
        Edit(IF Bytes(cur, p).refs = rs THEN cur ELSE Put(cur, p, [Bytes(cur, p) EXCEPT !.refs = rs]))
\* replace, replace_match, the tools: one link becomes another in several resources
ReplaceText ==
    \E ps \in SUBSET cur.files, r \in Linked(cur), to \in Targets(cur) :
        LET hit == {p \in ps : r \in Bytes(cur, p).refs}
        IN /\ hit = ps /\ ps # {} /\ to # r
           /\ Edit([cur EXCEPT !.changes = [p \in Paths |->
                 IF p \in hit THEN [Bytes(cur, p) EXCEPT !.refs = (@ \ {r}) \cup {to}] ELSE @[p]]])
AddResource ==
    \E p \in Paths : NameIsFree(cur, p) /\ Edit(Added(cur, p, [ids |-> {}, refs |-> {}], FALSE))
CreateChapter ==
    \E p \in Paths, after \in ToSet(cur.spine) : NameIsFree(cur, p)
        /\ Edit([Added(cur, p, [ids |-> {}, refs |-> {}], TRUE) EXCEPT !.spine = Insert(cur.spine, after, p)])
SplitChapter ==
    \E p \in ToSet(cur.spine), t \in Paths :
        /\ NameIsFree(cur, t)
        /\ \E ids \in SUBSET Bytes(cur, p).ids, refs \in SUBSET Bytes(cur, p).refs :
             Edit(Split(cur, p, t, ids, refs))
MergeResources ==
    \E p \in ToSet(cur.spine) : \E q \in cur.files \ {p} :
        LET ids == Bytes(cur, p).ids \cup Bytes(cur, q).ids
        IN /\ Bytes(cur, p).ids \cap Bytes(cur, q).ids = {}
           /\ \E mp \in Ids \ ids : \E mq \in Ids \ (ids \cup {mp}) :
                /\ mp = CHOOSE i \in Ids \ ids : TRUE
                /\ mq = CHOOSE i \in Ids \ (ids \cup {mp}) : TRUE
                /\ Edit(Merged(cur, p, q, mp, mq))
Rename ==
    \E p \in cur.files, t \in Paths : NameIsFree(cur, t) /\ Edit(Renamed(cur, p, t))
DeleteOne ==    \* refused while anything points at it
    \E p \in cur.files :
        /\ p \notin ToSet(cur.spine)
        /\ \A r \in cur.toc \cup UNION {Bytes(cur, q).refs : q \in cur.files \ {p}} : r[1] # p
        /\ Edit(Gone(cur, {p}))

\* delete_resources: no resource that stays may point at one that goes
Deletable(ps) ==
    /\ \A r \in UNION {Bytes(cur, f).refs : f \in cur.files \ ps} : r[1] \notin ps
    /\ cur.spine # <<>> => ~(ToSet(cur.spine) \subseteq ps)
DeleteMany == \E ps \in SUBSET cur.files : ps # {} /\ Deletable(ps) /\ Edit(Deleted(cur, ps))
CopyResource == \* copy_resources: a link to itself follows the copy
    \E p \in cur.files, t \in Paths :
        LET c == [Bytes(cur, p) EXCEPT !.refs = {IF r[1] = p THEN <<t, r[2]>> ELSE r : r \in @}]
        IN /\ NameIsFree(cur, t)
           /\ Edit(IF p \in ToSet(cur.spine)
                   THEN [Added(cur, t, c, TRUE) EXCEPT !.spine = Insert(cur.spine, p, t)]
                   ELSE Added(cur, t, c, FALSE))
SetToc == \E es \in SUBSET Targets(cur) : Cardinality(es) <= 1 /\ Edit([cur EXCEPT !.toc = es])
GenerateToc ==  \* generate_toc: a heading without an id of its own gets one
    \E p \in ToSet(cur.spine), i \in Ids :
        /\ i \notin Bytes(cur, p).ids => i = CHOOSE k \in Ids \ Bytes(cur, p).ids : TRUE
        /\ Edit([(IF i \in Bytes(cur, p).ids THEN cur
                  ELSE Put(cur, p, [Bytes(cur, p) EXCEPT !.ids = @ \cup {i}])) EXCEPT !.toc = {<<p, i>>}])
TocPage ==
    \E p \in Paths : /\ NameIsFree(cur, p) /\ cur.toc # {}
                     /\ Edit([Added(cur, p, [ids |-> {}, refs |-> cur.toc], TRUE)
                                 EXCEPT !.spine = <<p>> \o cur.spine])

\* mutant: the first rename stays when the second is refused
RolledBackHalfway(before, half) == half
\* transaction(): an exception puts everything back
RolledBack(before, half) == before

\* rename_resources: the names were free when the request came, and may clash
\* with one another
RenameMany ==
    \E p \in cur.files : \E q \in cur.files \ {p} : \E t \in Paths : \E u \in Paths \ {t} :
        /\ NameIsFree(cur, t) /\ NameIsFree(cur, u)
        /\ LET half == Renamed(cur, p, t)
           IN IF NameIsFree(half, u) THEN Edit(Renamed(half, q, u))
              ELSE /\ Ready
                   /\ cur' = RolledBack(cur, half) /\ reply' = "refused"
                   /\ UNCHANGED <<undo, redo, checkpoints, path, seen, loaded, stored, epubs, owed, ahead>>

\* mutant: a step back is not written to the state file
BackUnstored ==
    /\ undo # <<>> /\ Ready
    /\ redo' = Append(redo, cur) /\ cur' = Last(undo) /\ undo' = Front(undo)
    /\ reply' = "ok" /\ UNCHANGED <<checkpoints, path, seen, loaded, stored, epubs, owed, ahead>>
\* history
Back ==
    /\ undo # <<>> /\ Ready
    /\ redo' = Append(redo, cur) /\ cur' = Last(undo) /\ undo' = Front(undo)
    /\ UNCHANGED checkpoints /\ Persist
Forth ==
    /\ redo # <<>> /\ Ready
    /\ undo' = Append(undo, cur) /\ cur' = Last(redo) /\ redo' = Front(redo)
    /\ UNCHANGED checkpoints /\ Persist
NamedCheckpoint ==
    /\ Ready /\ checkpoints = {} /\ checkpoints' = {cur}
    /\ UNCHANGED <<cur, undo, redo>> /\ Persist
RestoreCheckpoint ==
    /\ Ready /\ \E b \in checkpoints : cur' = b
    /\ undo' = Keep(Append(undo, cur)) /\ redo' = <<>>
    /\ UNCHANGED checkpoints /\ Persist

-----------------------------------------------------------------------------
(* Saving *)

\* mutant: a resource renamed onto a name that was freed is skipped as removed
WrittenOutSkipping(b) ==
    [p \in Paths |-> IF p \in b.removed THEN None ELSE Bytes(b, p)]
\* the two loops of save over the source archive and over what is left of changes
WrittenOut(b) ==
    [p \in Paths |->
       IF epubs[path].res[p] # None /\ p \notin b.removed
       THEN IF b.changes[p] # None THEN b.changes[p] ELSE epubs[path].res[p]
       ELSE b.changes[p]]

\* the checks of save on the reading order and on changes outside the manifest
Savable(b) ==
    /\ ToSet(b.spine) = b.linear /\ b.itemrefs \subseteq b.manifest
    /\ b.linear \subseteq b.manifest
    /\ \A p \in Has(b.changes) : (epubs[path].res[p] = None \/ p \in b.removed) => p \in b.files

\* save: refused when the source has changed; a state file that cannot be
\* written is discarded, if that works
Save(o) ==
    /\ Ready /\ epubs[path].print = seen /\ Savable(cur)
    /\ LET out == [res |-> WrittenOut(cur), spine |-> cur.spine, toc |-> cur.toc, print |-> seen + 1]
       IN /\ epubs' = [epubs EXCEPT ![o] = out]
          /\ cur' = Opened(out) /\ seen' = out.print /\ path' = o
    /\ undo' = <<>> /\ redo' = <<>> /\ checkpoints' = {}
    /\ \/ stored' = Written /\ owed' = FALSE /\ UNCHANGED ahead
       \/ /\ "persist" \in ahead /\ ahead' = ahead \ {"persist"}
          /\ owed' = TRUE /\ stored' \in {NoState, stored}
    /\ reply' = "ok" /\ UNCHANGED loaded

\* the application restarts; the next request of the session reads its state file
RestartEditor ==
    /\ "restart" \in ahead /\ ahead' = ahead \ {"restart"} /\ loaded /\ loaded' = FALSE
    /\ UNCHANGED <<cur, undo, redo, checkpoints, path, seen, stored, epubs, reply, owed, requests>>
\* ContentSessionStore.get
Get ==
    /\ ~loaded /\ stored # NoState
    /\ epubs[stored.path].print = stored.seen
    /\ loaded' = TRUE /\ cur' = stored.cur /\ undo' = stored.undo /\ redo' = stored.redo
    /\ checkpoints' = stored.checkpoints /\ path' = stored.path /\ seen' = stored.seen
    /\ owed' = FALSE /\ UNCHANGED <<stored, epubs, reply, requests, ahead>>
\* another program saves the EPUB: a chapter loses its ids
SourceChanges ==
    /\ "source" \in ahead /\ ahead' = ahead \ {"source"}
    /\ epubs' = [epubs EXCEPT !["source"].print = 0,
                 !["source"].res = [p \in Paths |-> IF @[p] = None THEN None ELSE [@[p] EXCEPT !.ids = {}]]]
    /\ UNCHANGED <<cur, undo, redo, checkpoints, path, seen, loaded, stored, reply, owed, requests>>

EpubNext ==
    \/ Write \/ ReplaceText \/ AddResource \/ CreateChapter \/ SplitChapter \/ MergeResources \/ Rename
    \/ DeleteOne \/ DeleteMany \/ CopyResource \/ SetToc \/ GenerateToc \/ TocPage
    \/ RenameMany \/ Back \/ Forth \/ NamedCheckpoint \/ RestoreCheckpoint
    \/ \E o \in {"source", "other"} : Save(o)
    \/ RestartEditor \/ Get \/ SourceChanges
EpubSpec == EpubInit /\ [][EpubNext]_epubVars
-----------------------------------------------------------------------------
(* Properties *)

Current == loaded /\ epubs[path].print = seen

\* Every link of the book and of its contents points at a resource of the
\* manifest and at an id it has: no sequence of renames, splits, merges, copies,
\* deletions and steps back leaves one dangling.
LinksResolve == Current => Linked(cur) \subseteq Targets(cur)

\* The reading order, its flags, the package and the drafts agree whatever was
\* done, so that save never finds "Reading order no longer matches the package".
AlwaysSavable == Current => Savable(cur) /\ cur.manifest = cur.files

\* What is published is what the editor showed: the same resources with the
\* same bytes, also where a path was freed and used again.
SavedIsShown ==
    [][\A o \in DOMAIN epubs : epubs'[o] # epubs[o] /\ path' = o /\ seen' # seen =>
         \A p \in Paths : epubs'[o].res[p] = IF p \in cur.files THEN Bytes(cur, p) ELSE None]_epubVars

\* A request that was refused left no trace, also when its first half had been done.
RefusedLeavesNothing ==
    [][reply' = "refused" /\ requests' # requests => <<cur, undo, redo>>' = <<cur, undo, redo>>]_epubVars

\* After a restart the session is the one of the last request, unless the
\* editor was told that its state could not be written.
StateFileIsCurrent == loaded /\ ~owed => stored = Packed

\* No two resources have names a case-insensitive epubs takes for one.
NamesAreDistinct ==
    \A p \in cur.files : \A q \in cur.files \ {p} : Current => Folded[p] # Folded[q]

\* However it was edited, the book is one that can be saved and read, and its
\* state file is the session.
BookIsSound == LinksResolve /\ AlwaysSavable /\ NamesAreDistinct /\ StateFileIsCurrent

\* Saves publish what is shown, and refused requests change nothing.
SavesAreTrue == SavedIsShown /\ RefusedLeavesNothing
=============================================================================
