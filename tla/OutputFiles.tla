---------------------------- MODULE OutputFiles -----------------------------
(***************************************************************************)
(* How the tools of transoria/tools and the writers of transoria/formats   *)
(* bring a file to its place: they choose a path, write there or to a      *)
(* temporary file beside it, check, publish and tidy up, while any step    *)
(* may fail, the process may end and others put files into the folder.     *)
(***************************************************************************)
EXTENDS Naturals, FiniteSets

CONSTANTS
    Ways,       \* [name, over]: which tool, and whether it was told to overwrite
    OthersMax   \* bound: files that others put into the folder meanwhile

\* the tools that bring a file to its place
WayNames ==
    {"compress", "convert", "txt_to_epub", "metadata", "metadata_here", "repair", "repair_here", "merge",
     "merge_text", "replace_txt", "replace_epub", "book", "text"}
ASSUME WaysAssumption == Ways \subseteq [name : WayNames, over : BOOLEAN]

VARIABLES
    way,      \* the tool of this behaviour
    hardLinks, \* the file system has hard links
    folder,   \* content of a path: none, source, theirs, half, made
    step,     \* where the tool is
    goal,     \* the path it has chosen
    beside,   \* the path it writes to
    fate,     \* what it returned: none, done, failed
    theirs,   \* ghost: paths at which others had a file when the tool chose its path
    late,     \* ghost: paths at which others put one later
    others    \* bound
outputVars == <<way, hardLinks, folder, step, goal, beside, fate, theirs, late, others>>

FilePaths == {"src", "out", "out1", "tmp"}

-----------------------------------------------------------------------------
(* What the tools do: the path they take, whether one that exists is refused, *)
(* where they write, how they publish, what may still fail after that.         *)

Tool(place, refuses, writes, publishes, readsBack) ==
    [place |-> place, refuses |-> refuses, writes |-> writes, publishes |-> publishes, readsBack |-> readsBack]
CompressFile(over) == IF over THEN Tool("source", FALSE, "temp", "replace", FALSE)
                              ELSE Tool("unique", FALSE, "temp", "link", FALSE)
ConvertFile(over)  == Tool("unique", FALSE, "goal", "none", FALSE)
TextToBook(over)   == Tool("named", ~over, "temp", IF over THEN "replace" ELSE "link", FALSE)
SetMetadata(over)  == Tool("named", ~over, "temp", "replace", TRUE)
MetadataHere(over) == Tool("source", ~over, "temp", "replace", TRUE)
\* temporary only where something is in the way
RepairFile(over)   == Tool(IF over THEN "named" ELSE "unique", FALSE, "maybe", "replace", FALSE)
RepairHere(over)   == Tool("source", ~over, "maybe", "replace", FALSE)
MergeFiles(over)   == Tool("named", FALSE, "temp", "replace", TRUE)
MergeText(over)    == Tool("named", FALSE, "goal", "none", FALSE)
RewriteText(over)  == IF over THEN Tool("source", FALSE, "temp", "replace", FALSE)
                              ELSE Tool("named", FALSE, "goal", "none", FALSE)
ReplaceBook(over)  == Tool(IF over THEN "source" ELSE "named", FALSE, "temp", "replace", FALSE)
WriteBook(over)    == Tool("named", FALSE, "temp", "replace", FALSE)
WriteText(over)    == Tool("named", FALSE, "goal", "none", FALSE)
Doing == CASE way.name = "compress" -> CompressFile(way.over) [] way.name = "convert" -> ConvertFile(way.over)
           [] way.name = "txt_to_epub" -> TextToBook(way.over) [] way.name = "metadata" -> SetMetadata(way.over)
           [] way.name = "metadata_here" -> MetadataHere(way.over) [] way.name = "repair" -> RepairFile(way.over)
           [] way.name = "repair_here" -> RepairHere(way.over) [] way.name = "merge" -> MergeFiles(way.over)
           [] way.name = "merge_text" -> MergeText(way.over) [] way.name = "replace_txt" -> RewriteText(way.over)
           [] way.name = "replace_epub" -> ReplaceBook(way.over) [] way.name = "book" -> WriteBook(way.over)
           [] way.name = "text" -> WriteText(way.over)

FilesInit ==
    /\ way \in Ways /\ hardLinks \in BOOLEAN
    /\ folder \in {[src |-> "source", out |-> o, out1 |-> "none", tmp |-> "none"] : o \in {"none", "theirs"}}
    /\ step = "begin" /\ goal = "out" /\ beside = "tmp" /\ fate = "none"
    /\ theirs = {} /\ late = {} /\ others = 0

-----------------------------------------------------------------------------

Holds(place, what) == folder' = [folder EXCEPT ![place] = what]
Same              == UNCHANGED <<way, hardLinks, goal, beside, theirs, late, others>>
Proceeds(to)          == step' = to

\* _unique_output
UniqueOutput == CHOOSE p \in {"out", "out1"} : folder[p] = "none" /\ (p = "out1" => folder["out"] # "none")
Chosen == IF Doing.place = "source" THEN "src" ELSE IF Doing.place = "unique" THEN UniqueOutput ELSE "out"
\* the checks before anything is written
ChoosePath ==
    /\ step = "begin" /\ goal' = Chosen
    /\ beside' = IF Doing.writes = "goal" \/ (Doing.writes = "maybe" /\ folder[Chosen] = "none") THEN Chosen ELSE "tmp"
    /\ theirs' = {p \in FilePaths : folder[p] = "theirs"}
    /\ IF Doing.refuses /\ folder[Chosen] # "none" THEN Proceeds("over") /\ fate' = "failed"
       ELSE Proceeds("chosen") /\ UNCHANGED fate
    /\ UNCHANGED <<way, hardLinks, folder, late, others>>
OpenOutput  == step = "chosen" /\ Proceeds("writing") /\ Holds(beside, "half") /\ Same /\ UNCHANGED fate
WriteOutput == step = "writing" /\ Proceeds("written") /\ Holds(beside, "made") /\ Same /\ UNCHANGED fate

\* publish_file, os.replace: a link refuses a path that exists; without links it is
\* opened exclusively and copied
PublishFile ==
    /\ step = "written" /\ beside = "tmp"
    /\ CASE Doing.publishes = "replace" ->
              folder' = [folder EXCEPT ![goal] = "made", !["tmp"] = "none"] /\ Proceeds("published") /\ UNCHANGED fate
         [] folder[goal] # "none" -> Proceeds("tidy") /\ fate' = "failed" /\ UNCHANGED folder
         [] OTHER -> /\ Holds(goal, IF hardLinks THEN "made" ELSE "half")
                     /\ Proceeds(IF hardLinks THEN "published" ELSE "copying") /\ UNCHANGED fate
    /\ Same
CopyOver   == step = "copying" /\ Proceeds("published") /\ Holds(goal, "made") /\ Same /\ UNCHANGED fate
CopyFails  == step = "copying" /\ Proceeds("tidy") /\ Holds(goal, "none") /\ fate' = "failed" /\ Same
WroteInPlace == step = "written" /\ beside # "tmp" /\ Proceeds("published") /\ Same /\ UNCHANGED <<folder, fate>>

\* an exception before the publication; the metadata are read again after it
Fails ==
    /\ step \in {"chosen", "writing", "written"} \/ (step = "published" /\ Doing.readsBack)
    /\ Proceeds("tidy") /\ fate' = "failed" /\ Same /\ UNCHANGED folder
\* finally: the temporary file goes; a repair removes what it has written, others leave it
TidyUp ==
    /\ step \in {"published", "tidy"} /\ Proceeds("over")
    /\ folder' = IF beside = "tmp" THEN [folder EXCEPT !["tmp"] = "none"]
               ELSE IF fate = "failed" /\ Doing.writes = "maybe" THEN [folder EXCEPT ![beside] = "none"]
               ELSE folder
    /\ fate' = IF fate = "failed" THEN fate ELSE "done"
    /\ Same
\* the process ends
EndsHere == step \notin {"begin", "over", "ended"} /\ Proceeds("ended") /\ Same /\ UNCHANGED <<folder, fate>>
\* somebody else puts a file into the folder
OthersPut(p) ==
    /\ others < OthersMax /\ step \notin {"begin", "over", "ended"} /\ folder[p] = "none"
    /\ Holds(p, "theirs") /\ others' = others + 1
    /\ late' = late \cup {p}
    /\ UNCHANGED <<way, hardLinks, step, goal, beside, fate, theirs>>

FilesNext ==
    \/ ChoosePath \/ OpenOutput \/ WriteOutput \/ PublishFile \/ CopyOver \/ CopyFails \/ WroteInPlace
    \/ Fails \/ TidyUp \/ EndsHere \/ \E p \in {"out", "out1"} : OthersPut(p)

FilesSpec == FilesInit /\ [][FilesNext]_outputVars

-----------------------------------------------------------------------------
(* Properties *)

LinksOut  == Doing.publishes = "link"
Asked  == way.over \/ (Doing.place = "named" /\ ~Doing.refuses)
\* the book a tool reads is there, whole, whenever the tool fails or the process ends
SourceStays == folder["src"] = "source" \/ (folder["src"] = "made" /\ Doing.place = "source" /\ way.over)
\* what was there when the tool chose its path stays, unless that path may be overwritten;
\* a tool that links leaves what came later, too
TheirsStay ==
    /\ \A p \in theirs : folder[p] # "theirs" => p = goal /\ Asked
    /\ LinksOut => \A p \in late : folder[p] = "theirs"
\* a path written beside holds what was there or the whole new file, also after a failure
WholeOrOld ==
    /\ beside = "tmp" /\ (hardLinks \/ ~LinksOut) => folder[goal] # "half"
    /\ beside = "tmp" /\ goal \in theirs => folder[goal] \in {"theirs", "made"}
    /\ step = "over" => folder["tmp"] = "none" /\ (fate = "done" => folder[goal] = "made")
    /\ step = "over" /\ fate = "failed" /\ LinksOut => folder[goal] \in {"none", "theirs"}

\* Nobody loses a file to a tool that was not told to overwrite it: sources and earlier
\* files stay whole, a published file is whole, and what is told done is there
FilesSurvive == SourceStays /\ TheirsStay /\ WholeOrOld
=============================================================================
