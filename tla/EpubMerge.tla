----------------------------- MODULE EpubMerge ------------------------------
(***************************************************************************)
(* transoria/tools/epub_merger.py: several books are made into one.  The   *)
(* sources are walked one after the other; of each the images, the style   *)
(* sheets, the documents of the spine, the table of contents and what else *)
(* there is are copied under names of their own, and what cannot be read   *)
(* skips the rest of its book.  A path of a source is <<folder, name>>, a  *)
(* name in the merged book <<folder, source, name, number>>.               *)
(***************************************************************************)
EXTENDS Naturals, Sequences, SequencesExt, FiniteSets, TLC, Lists

CONSTANT MergeJobs  \* [books, format, smart, target]: the selected books, the options, and
                    \* the place of the book that the output would overwrite (0 for none)

\* what is in a book; text in the files is what tells them apart
Locs       == STRING \X STRING
EntryForms == {"there", "missing", "broken"}
ImageForm  == [loc : Locs, data : STRING, coverName : BOOLEAN, entry : EntryForms]
SheetForm  == [loc : Locs, data : STRING, uses : SUBSET Locs, entry : EntryForms]
DocForm    == [loc : Locs, page : STRING, image : Locs, links : SUBSET Locs, entry : EntryForms, parses : BOOLEAN]
OtherForm  == [loc : Locs, font : BOOLEAN, entry : EntryForms]
KidForm    == [title : STRING, loc : Locs, kids : {<<>>}]
PointForm  == [title : STRING, loc : Locs, kids : Seq(KidForm)]
NcxForm    == [entry : EntryForms, navRows : Seq(PointForm)]
BookForm   == [opens : BOOLEAN, cover : Locs, images : Seq(ImageForm), css : Seq(SheetForm), docs : Seq(DocForm),
               ncx : NcxForm, contents : Seq(PointForm), others : Seq(OtherForm)]
\* a path of a book is one thing, which an image or a document shows it to be
PathsAreTrue(book) ==
    /\ \A x, y \in ToSet(book.images) : x.loc = y.loc => x.data = y.data
    /\ \A d, e \in ToSet(book.docs) : d.loc = e.loc => d = e
    /\ \A x \in ToSet(book.images) :
           /\ x.loc # <<"", "">> /\ \A d \in ToSet(book.docs) : d.loc # x.loc
           /\ \A c \in ToSet(book.css) : c.loc # x.loc
    /\ \A d, e \in ToSet(book.docs) : d.image # e.loc
ASSUME MergeAssumption ==
    \A job \in MergeJobs :
        /\ job \in [books : Seq(BookForm), format : {"epub", "txt"}, smart : BOOLEAN, target : Nat]
        /\ \A book \in ToSet(job.books) : PathsAreTrue(book)

VARIABLES
    mergeJob, \* the request
    walker,  \* the source being walked: [nth, stage, walk, map, docs, pending, copied]
    made,    \* _EpubMerger: [files, manifest, spine, nav, images, sheets, shown, cover]
    fates,   \* status of each source in processed_files
    ending   \* [status, output, temp]: the result, what the output path holds, the temporary file
mergeVars == <<mergeJob, walker, made, fates, ending>>

NoPath  == <<"", "">>
NoHref  == <<"", 0, "", 0>>
NavHref == <<"", 0, "nav", 0>>
Empty   == [x \in {} |-> NoHref]
Source  == mergeJob.books[walker.nth]
Walked  == CASE walker.stage = "images" -> Source.images [] walker.stage = "css" -> Source.css
             [] walker.stage = "map" -> Source.docs      [] walker.stage = "copy" -> walker.pending
             [] walker.stage = "others" -> Source.others [] OTHER -> <<>>
Item    == Walked[walker.walk]
After   == [images |-> "css", css |-> "map", map |-> "copy", copy |-> "nav", others |-> "end"]
InSource == walker.stage \in DOMAIN After
HasItem == InSource /\ walker.walk <= Len(Walked)
Stored(item) == walker.stage = "copy" \/ item.entry = "there"
Link(loc)   == IF loc \in DOMAIN walker.map THEN walker.map[loc] ELSE NoHref

MergeInit ==
    /\ mergeJob \in MergeJobs
    /\ walker = [nth |-> 0, stage |-> "start", walk |-> 1, map |-> Empty, docs |-> Empty,
                  pending |-> <<>>, copied |-> <<>>]
    /\ made = [files |-> Empty, manifest |-> <<>>, spine |-> <<>>, nav |-> <<>>,
               images |-> Empty, sheets |-> Empty, shown |-> {}, cover |-> 0]
    /\ fates = <<>> /\ ending = [status |-> "none", output |-> "old", temp |-> FALSE]

-----------------------------------------------------------------------------
(* The walk through one source *)

\* mutant: names given to documents that are not written yet are not taken
TakenWhenWritten == DOMAIN made.files
Taken == DOMAIN made.files \cup {p.href : p \in ToSet(walker.pending)}
\* _unique_href
UniqueHref(dir, nth, name) ==
    LET free == {n \in 0..Cardinality(Taken) : <<dir, nth, name, n>> \notin Taken}
    IN <<dir, nth, name, CHOOSE n \in free : \A k \in free : n <= k>>

\* a map with one more key, or another value for it
WithKey(f, key, value) == [x \in DOMAIN f \cup {key} |-> IF x = key THEN value ELSE f[x]]
Stepped(src)     == [src EXCEPT !.walk = @ + 1]
Knows(src, loc, href) == [src EXCEPT !.map = WithKey(@, loc, href)]
Declares(book, kind, href) ==
    [book EXCEPT !.manifest = Append(@, [id |-> <<kind, walker.nth, Len(@)>>, kind |-> kind,
                                         href |-> href, cover |-> FALSE])]
StoresFile(book, href, kind, data, links, parses) ==
    [book EXCEPT !.files = WithKey(@, href, [kind |-> kind, data |-> data, links |-> links,
                                     parses |-> parses])]
OpensNext(nth) == [nth |-> nth, stage |-> "open", walk |-> 1, map |-> Empty, docs |-> Empty,
                  pending |-> <<>>, copied |-> <<>>]

\* merge_epub_files: an output that is one of the inputs is refused
BeginMerge ==
    /\ walker.stage = "start" /\ mergeJob.format = "epub"
    /\ IF mergeJob.books = <<>> \/ mergeJob.target # 0
       THEN ending' = [ending EXCEPT !.status = "failed"] /\ walker' = [walker EXCEPT !.stage = "over"]
       ELSE walker' = OpensNext(1) /\ UNCHANGED ending
    /\ UNCHANGED <<mergeJob, made, fates>>

\* what is raised in a source skips the rest of it; what it has written stays
SkipsSource ==
    /\ fates' = Append(fates, "skipped") /\ walker' = OpensNext(walker.nth + 1)
    /\ UNCHANGED <<mergeJob, made, ending>>
OpenSource ==
    /\ walker.stage = "open" /\ walker.nth <= Len(mergeJob.books)
    /\ IF Source.opens
       THEN walker' = [walker EXCEPT !.stage = "images"] /\ UNCHANGED <<mergeJob, made, fates, ending>>
       ELSE SkipsSource
BrokenEntry == HasItem /\ walker.stage # "copy" /\ Item.entry = "broken" /\ SkipsSource
MissingEntry ==
    /\ HasItem /\ walker.stage # "copy" /\ Item.entry = "missing"
    /\ walker' = Stepped(walker) /\ UNCHANGED <<mergeJob, made, fates, ending>>
StageOver ==
    /\ InSource /\ walker.walk > Len(Walked)
    /\ walker' = [walker EXCEPT !.stage = After[@], !.walk = 1]
    /\ UNCHANGED <<mergeJob, made, fates, ending>>
SourceOver ==
    /\ walker.stage = "end" /\ fates' = Append(fates, "merged")
    /\ walker' = OpensNext(walker.nth + 1) /\ UNCHANGED <<mergeJob, made, ending>>

\* the declared cover of the first book that has one, or the first image named as one
IsPrimary(item) ==
    /\ made.cover = 0
    /\ IF Source.cover # NoPath THEN item.loc = Source.cover ELSE item.coverName
Covers(book, i) == [book EXCEPT !.manifest[i].cover = TRUE, !.cover = i]
\* _store_image: a picture that another book has is not written again
StoreImage ==
    /\ HasItem /\ walker.stage = "images" /\ Stored(Item)
    /\ LET same == Item.data \in DOMAIN made.images
           href  == IF same THEN made.images[Item.data] ELSE UniqueHref("Images", 0, Item.loc[2])
           book  == IF same THEN made
                    ELSE Declares(StoresFile([made EXCEPT !.images = WithKey(@, Item.data, href)],
                                         href, "img", Item.data, {}, TRUE), "img", href)
           place == CHOOSE i \in DOMAIN book.manifest : book.manifest[i].href = href
       IN /\ made' = IF IsPrimary(Item) THEN Covers(book, place) ELSE book
          /\ walker' = Stepped(Knows(walker, Item.loc, href))
    /\ UNCHANGED <<mergeJob, fates, ending>>

Rewritten(paths) == {<<p, Link(p)>> : p \in paths}
\* _process_css, _store_css: the name is that of the file, whatever its folder
StoreCss ==
    /\ HasItem /\ walker.stage = "css" /\ Stored(Item)
    /\ LET text  == <<Item.data, Rewritten(Item.uses)>>
           same == text \in DOMAIN made.sheets
           href  == IF same THEN made.sheets[text] ELSE <<"Styles", walker.nth, Item.loc[2], 0>>
       IN /\ made' = IF same THEN made
                     ELSE Declares(StoresFile([made EXCEPT !.sheets = WithKey(@, text, href)], href, "css",
                                          Item.data, Rewritten(Item.uses), TRUE), "css", href)
          /\ walker' = Stepped(Knows(walker, Item.loc, href))
    /\ UNCHANGED <<mergeJob, fates, ending>>

\* _should_skip_duplicate_cover_page: a cover page that shows an image shown before
ShownCover(doc) == IF mergeJob.smart /\ doc.page = "cover" THEN Link(doc.image) ELSE NoHref
\* _html_output_name
OutputName(doc) == IF doc.page = "generic" THEN "book" ELSE doc.loc[2]
MapDocument ==
    /\ HasItem /\ walker.stage = "map" /\ Stored(Item)
    /\ LET cover == ShownCover(Item)
           href  == UniqueHref("Text", walker.nth, OutputName(Item))
       IN IF cover # NoHref /\ cover \in made.shown
          THEN walker' = Stepped(walker) /\ UNCHANGED made
          ELSE /\ made' = [made EXCEPT !.shown = IF cover = NoHref THEN @ ELSE @ \cup {cover}]
               /\ walker' = [Stepped(Knows(walker, Item.loc, href)) EXCEPT
                                 !.docs = WithKey(@, Item.loc, href),
                                 !.pending = Append(@, [doc |-> Item, href |-> href])]
    /\ UNCHANGED <<mergeJob, fates, ending>>

\* documents are written once all of them are mapped: a link may lead forward
CopyDocument ==
    /\ HasItem /\ walker.stage = "copy"
    /\ LET doc   == Item.doc
           links == Rewritten(doc.links \cup ({doc.image} \ {NoPath}))
           book  == StoresFile(made, Item.href, "html", <<walker.nth, doc.loc>>, links, doc.parses)
           id    == <<"html", walker.nth, Len(made.spine)>>
       IN made' = [book EXCEPT
                      !.manifest = Append(@, [id |-> id, kind |-> "html", href |-> Item.href, cover |-> FALSE]),
                      !.spine = Append(@, id)]
    /\ walker' = [Stepped(walker) EXCEPT
                      !.copied = Append(@, [href |-> Item.href, page |-> Item.doc.page])]
    /\ UNCHANGED <<mergeJob, fates, ending>>

\* fonts are left out; a resource is mapped when the documents are written already
StoreOther ==
    /\ HasItem /\ walker.stage = "others" /\ Stored(Item)
    /\ LET href == <<"Resources", walker.nth, Item.loc[2], 0>>
       IN IF Item.font THEN walker' = Stepped(walker) /\ UNCHANGED made
          ELSE /\ made' = Declares(StoresFile(made, href, "res", <<walker.nth, Item.loc>>, {}, TRUE), "res", href)
               /\ walker' = Stepped(Knows(walker, Item.loc, href))
    /\ UNCHANGED <<mergeJob, fates, ending>>

-----------------------------------------------------------------------------
(* The table of contents.  A row is [title, href, kids], and so are its kids. *)

Target(loc) == IF loc \in DOMAIN walker.docs THEN walker.docs[loc] ELSE NoHref
\* _parse_ncx_navpoint, _parse_epub3_nav_li: what leads nowhere is left out
Leading(rows) == Picked(rows, {k \in DOMAIN rows : rows[k].href # NoHref})
Kids(e) == Leading([k \in DOMAIN e.kids |->
                       [title |-> e.kids[k].title, href |-> Target(e.kids[k].loc), kids |-> <<>>]])
Row(e)  == [title |-> e.title, kids |-> Kids(e),
            href |-> IF Target(e.loc) = NoHref /\ Kids(e) # <<>> THEN Kids(e)[1].href ELSE Target(e.loc)]
Rows(contents) == Leading([k \in DOMAIN contents |-> Row(contents[k])])
\* _extract_original_nav_entries: the NCX, and the EPUB 3 list when it says nothing
OriginalRows == IF Rows(Source.ncx.navRows) # <<>> THEN Rows(Source.ncx.navRows) ELSE Rows(Source.contents)
PageOf(href) == (CHOOSE c \in ToSet(walker.copied) : c.href = href).page
\* _clean_nav_entries
CleanRow(r) ==
    LET kids  == Picked(r.kids, {k \in DOMAIN r.kids : r.kids[k].title \notin {"cover", "generic"}})
        plain == Picked(kids, {k \in DOMAIN kids : PageOf(kids[k].href) # "cover"})
    IN IF r.title \in {"cover", "generic"} THEN kids
       ELSE IF Len(kids) = 1 /\ kids[1].href = r.href /\ kids[1].title = r.title
       THEN <<[r EXCEPT !.kids = <<>>]>>
       ELSE IF PageOf(r.href) = "cover" /\ Len(plain) = 1 /\ plain[1].title = r.title
       THEN <<[r EXCEPT !.href = plain[1].href, !.kids = <<>>]>>
       ELSE <<[r EXCEPT !.kids = kids]>>
CleanRows(navRows) == FlattenSeq([i \in DOMAIN navRows |-> CleanRow(navRows[i])])
Content == Picked(walker.copied, {k \in DOMAIN walker.copied : walker.copied[k].page # "cover"})
FirstContent == IF Content # <<>> THEN Content[1].href ELSE walker.copied[1].href
NavRow(href, kids) == [title |-> "book", href |-> href, kids |-> kids]
\* _fallback_nav_children
FallbackRows ==
    IF Len(Content) <= 1 THEN <<NavRow(FirstContent, <<>>)>>
    ELSE [i \in DOMAIN Content |-> NavRow(Content[i].href, <<>>)]
\* _build_book_nav_entries: the rows of a single book, or one row for each of several
BookRows ==
    LET clean == CleanRows(OriginalRows)
        alone == Len(OriginalRows) = 1 /\ OriginalRows[1].kids = <<>>
    IN IF Len(mergeJob.books) = 1 THEN (IF Len(clean) <= 1 THEN FallbackRows ELSE clean)
       ELSE <<NavRow(FirstContent, IF alone THEN <<>> ELSE clean)>>
BuildNav ==
    /\ walker.stage = "nav"
    /\ IF walker.copied # <<>> /\ Source.ncx.entry = "broken" THEN SkipsSource
       ELSE /\ made' = [made EXCEPT !.nav = IF walker.copied = <<>> THEN @
                                            ELSE Append(@, [of |-> walker.nth, navRows |-> BookRows])]
            /\ walker' = [walker EXCEPT !.stage = "others"]
            /\ UNCHANGED <<mergeJob, fates, ending>>

-----------------------------------------------------------------------------
(* The package, and its publication *)

Ends(status, output, temp) ==
    /\ ending' = [status |-> status, output |-> output, temp |-> temp]
    /\ walker' = [walker EXCEPT !.stage = IF status = "none" THEN "check" ELSE "over"]
    /\ UNCHANGED <<mergeJob, fates>>

\* _add_package_files, _write_epub to a temporary file; the disk may fail
WritePackage ==
    /\ walker.stage = "open" /\ walker.nth > Len(mergeJob.books)
    /\ IF made.spine = <<>> THEN Ends("failed", "old", FALSE) /\ UNCHANGED made
       ELSE /\ made' = Declares(StoresFile(made, NavHref, "nav", <<0, NoPath>>, {}, TRUE), "nav", NavHref)
            /\ Ends("none", "old", TRUE) \/ Ends("failed", "old", FALSE)

\* _validate_epub: a document that is no XML fails the whole book
IsValid ==
    /\ \A m \in ToSet(made.manifest) : m.href \in DOMAIN made.files /\ made.files[m.href].parses
    /\ \A m \in ToSet(made.manifest) : m.kind = "html" => m.id \in ToSet(made.spine)
    /\ \A s \in ToSet(made.spine) : \E m \in ToSet(made.manifest) : m.id = s /\ m.kind = "html"
\* the check, the replacement, and the removal of what is left of the temporary file
Publish ==
    /\ walker.stage = "check"
    /\ \/ IsValid /\ Ends("merged", "new", FALSE)
       \/ Ends("failed", "old", FALSE)
    /\ UNCHANGED made

\* _merge_text_files: all sources are read before the output is opened, which is written in place
MergeTexts ==
    /\ walker.stage = "start" /\ mergeJob.format = "txt"
    /\ \/ Ends("failed", "old", FALSE)
       \/ /\ mergeJob.target = 0 /\ mergeJob.books # <<>> /\ \A b \in ToSet(mergeJob.books) : b.opens
          /\ Ends("merged", "new", FALSE) \/ Ends("failed", "torn", FALSE)
    /\ UNCHANGED made

MergeNext ==
    \/ BeginMerge \/ MergeTexts \/ OpenSource \/ BrokenEntry \/ MissingEntry \/ StageOver \/ SourceOver
    \/ StoreImage \/ StoreCss \/ MapDocument \/ CopyDocument \/ StoreOther \/ BuildNav
    \/ WritePackage \/ Publish

MergeSpec == MergeInit /\ [][MergeNext]_mergeVars

-----------------------------------------------------------------------------
(* Properties *)

HrefOf(id)    == (CHOOSE m \in ToSet(made.manifest) : m.id = id).href
Chapters(i)   == Picked([k \in DOMAIN made.spine |-> made.files[HrefOf(made.spine[k])].data],
                        {k \in DOMAIN made.spine : made.spine[k][2] = i})
Readable(i)   == LET docs == mergeJob.books[i].docs
                 IN Picked([k \in DOMAIN docs |-> <<i, docs[k].loc>>], {k \in DOMAIN docs : docs[k].entry = "there"})
CoverPages    == UNION {{<<i, d.loc>> : d \in {x \in ToSet(mergeJob.books[i].docs) : x.page = "cover"}} :
                            i \in DOMAIN mergeJob.books}
NoCovers(seq) == Picked(seq, {k \in DOMAIN seq : seq[k] \notin CoverPages})
ImagesOf(i)   == {x \in ToSet(mergeJob.books[i].images) : x.entry = "there"}
IsChapter(href) == href \in DOMAIN made.files /\ made.files[href].kind = "html"
IsPageOf(href, i) == IsChapter(href) /\ made.files[href].data[1] = i

\* a merged source has all its chapters, a skipped one all or none, and books keep their order
ChaptersAreWhole ==
    /\ \A i \in DOMAIN fates :
           \/ NoCovers(Chapters(i)) = NoCovers(Readable(i))
           \/ fates[i] = "skipped" /\ Chapters(i) = <<>>
    /\ \A a, b \in DOMAIN made.spine : a < b => made.spine[a][2] <= made.spine[b][2]
\* a link to a chapter or an image that was taken over leads to that very one
LinksLead ==
    \A i \in DOMAIN fates : \A href \in DOMAIN made.files :
        IsChapter(href) /\ made.files[href].data[1] = i =>
            \A l \in made.files[href].links :
                /\ l[2] # NoHref => l[2] \in DOMAIN made.files
                /\ <<i, l[1]>> \in ToSet(Chapters(i)) =>
                       IsChapter(l[2]) /\ made.files[l[2]].data = <<i, l[1]>>
                /\ \A x \in ImagesOf(i) : x.loc = l[1] =>
                       l[2] \in DOMAIN made.files /\ made.files[l[2]].data = x.data
\* one cover for the book, and each cover picture on one page
CoversAreSingle ==
    /\ {k \in DOMAIN made.manifest : made.manifest[k].cover} = {made.cover} \ {0}
    /\ \A i \in DOMAIN fates : \A x \in ImagesOf(i) :
           fates[i] = "merged" /\ x.loc = mergeJob.books[i].cover => made.cover # 0
    /\ mergeJob.smart => \A x \in {m.href : m \in ToSet(made.manifest)} :
           Cardinality({h \in DOMAIN made.files : /\ IsChapter(h) /\ made.files[h].data \in CoverPages
                                                  /\ \E d \in ToSet(mergeJob.books[made.files[h].data[1]].docs) :
                                                       d.loc = made.files[h].data[2] /\ <<d.image, x>> \in made.files[h].links}) <= 1
\* the contents lead to chapters of the book they are of, and leave no merged book out
NavLeads ==
    /\ \A n \in ToSet(made.nav) : \A r \in ToSet(n.navRows) :
           /\ IsPageOf(r.href, n.of)
           /\ \A k \in ToSet(r.kids) :
                  IsPageOf(k.href, n.of) /\ \A g \in ToSet(k.kids) : IsPageOf(g.href, n.of)
    /\ \A a, b \in DOMAIN made.nav : a < b => made.nav[a].of < made.nav[b].of
    /\ \A i \in DOMAIN fates : fates[i] = "merged" /\ Chapters(i) # <<>> =>
           \E n \in ToSet(made.nav) : n.of = i /\ n.navRows # <<>>
\* names are not given twice, a merge that fails leaves the output that was there
OutputIsSafe ==
    /\ \A a, b \in DOMAIN made.manifest : a # b =>
           /\ made.manifest[a].id # made.manifest[b].id
           /\ made.manifest[a].kind \in {"img", "html"} => made.manifest[a].href # made.manifest[b].href
    /\ ending.status = "failed" /\ mergeJob.format = "epub" => ending.output = "old"
    /\ ending.status # "none" => ~ending.temp
    /\ ending.status = "merged" => mergeJob.target = 0 /\ (mergeJob.format = "epub" => IsValid)

\* The merged book is sound: every chapter of every source told merged is in it, in order;
\* links, covers and contents lead where they led in the source; a failure changes nothing
MergeIsSound == ChaptersAreWhole /\ LinksLead /\ CoversAreSingle /\ NavLeads /\ OutputIsSafe
=============================================================================
