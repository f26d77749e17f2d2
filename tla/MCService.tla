----------------------------- MODULE MCService -----------------------------
(***************************************************************************)
(* Services of the bridge that work on files of their own, each on a small *)
(* instance: the re-translation jobs of a cached task, an editing session  *)
(* of an EPUB, the single-pass tools, and what a tool does with one file:  *)
(* merging books, cutting a text into chapters, replacing, publishing; the *)
(* libraries of the user; and the request log of a task.  A behaviour      *)
(* plays one scene.                                                        *)
(***************************************************************************)
EXTENDS RetranslateJobs, EpubSession, ToolTasks, BookFiles, Stores, RequestLog

VARIABLE scene

bookVars == <<mergeVars, outputVars, txtVars, ruleVars>>
vars     == <<scene, retransVars, epubVars, toolVars, bookVars, storeVars, logVars>>

MCSegsOf == [j1 |-> {"s1"}, j2 |-> {"s2"}, j3 |-> {"s1", "s2"}]
JobCast(jobs, limit, changes, ends, purged) ==
    [jobs |-> jobs, slots |-> limit, edits |-> changes, restarts |-> ends, purges |-> purged]
\* two requests for two slots, two that a restart interrupts, one and a batch
\* that share a segment while the user edits, each of them with edits and a purge
MCCasts == {JobCast({"j1", "j2"}, 2, 0, 0, TRUE), JobCast({"j1", "j2"}, 1, 0, 1, TRUE),
            JobCast({"j1", "j3"}, 2, 1, 0, FALSE),
            JobCast({"j1"}, 1, 2, 0, TRUE), JobCast({"j3"}, 1, 1, 0, TRUE)}
MCEditedCasts == {JobCast({"j1", "j3"}, 2, 1, 0, FALSE)}

MCPaths  == {"a", "b", "c", "C"}
MCFolded == [p \in MCPaths |-> IF p = "C" THEN "c" ELSE p]
MCBook   == [res |-> [p \in MCPaths |->
                        CASE p = "a" -> [ids |-> {"x"}, refs |-> {}]
                          [] p = "b" -> [ids |-> {}, refs |-> {<<"a", "x">>}]
                          [] OTHER -> None],
             spine |-> <<"a", "b">>, toc |-> {<<"a", "x">>, <<"b", "">>}]
MCCourses == {[requests |-> 3, faults |-> {}],
              [requests |-> 2, faults |-> {"restart", "persist"}],
              [requests |-> 2, faults |-> {"source"}]}

ToolCast(kind, files, starts, eager, faults) ==
    [kind |-> kind, files |-> files, starts |-> starts, eager |-> eager, faults |-> faults]
MCToolIds   == <<"k1", "k2">>
MCToolCasts ==
    {ToolCast("replacement", <<"f1", "f2">>, 1, TRUE, {"restart"}),
     ToolCast("replacement", <<"f1">>, 1, FALSE, {}),
     ToolCast("replacement", <<>>, 2, FALSE, {}),
     ToolCast("epub_compress", <<"f1", "f2">>, 1, FALSE, {"restart"}),
     ToolCast("epub_compress", <<"f1">>, 2, FALSE, {"raise"}),
     ToolCast("epub_convert", <<"f1">>, 1, FALSE, {"seed"}),
     ToolCast("txt_to_epub", <<"f1">>, 1, FALSE, {"restart"}),
     ToolCast("epub_merge", <<"f1">>, 2, FALSE, {"join"})}

\* sources of a merge: a plain book, one with an entry that is missing or broken, one that names
\* a document twice, one with a document that is no XML, one that does not open or has no document
Image(loc, data, named, entry) == [loc |-> loc, data |-> data, coverName |-> named, entry |-> entry]
Sheet(loc, data, entry) == [loc |-> loc, data |-> data, uses |-> {<<"i", "c">>}, entry |-> entry]
Doc(loc, page, image, links, entry) ==
    [loc |-> loc, page |-> page, image |-> image, links |-> links, entry |-> entry, parses |-> TRUE]
Other(loc, font, entry)     == [loc |-> loc, font |-> font, entry |-> entry]
NavPoint(title, loc, below) == [title |-> title, loc |-> loc, kids |-> below]
Plain ==
    [opens |-> TRUE, cover |-> <<"i", "c">>,
     images |-> <<Image(<<"i", "c">>, "pic", TRUE, "there"), Image(<<"j", "c">>, "map", FALSE, "there")>>,
     css |-> <<Sheet(<<"s", "m">>, "style", "there")>>,
     docs |-> <<Doc(<<"t", "cover">>, "cover", <<"i", "c">>, {}, "there"),
                Doc(<<"t", "one">>, "own", <<"j", "c">>, {<<"t", "two">>, <<"s", "m">>}, "there"),
                Doc(<<"t", "two">>, "generic", NoPath, {<<"t", "one">>}, "there")>>,
     ncx |-> [entry |-> "there",
              navRows |-> <<NavPoint("cover", <<"t", "cover">>, <<>>), NavPoint("A", <<"t", "one">>, <<>>),
                         NavPoint("B", <<"t", "two">>, <<>>)>>],
     contents |-> <<>>,
     others |-> <<Other(<<"f", "font">>, TRUE, "there"), Other(<<"r", "sound">>, FALSE, "there")>>]
Frail(e) ==
    [opens |-> TRUE, cover |-> NoPath,
     images |-> <<Image(<<"x", "cover">>, "pic", TRUE, e[1]), Image(<<"y", "c">>, "other", FALSE, "there")>>,
     css |-> <<Sheet(<<"s", "m">>, "style", e[2]), Sheet(<<"u", "m">>, "second", "there")>>,
     docs |-> <<Doc(<<"t", "cover">>, "cover", <<"x", "cover">>, {<<"t", "a">>}, "there"),
                Doc(<<"t", "a">>, "own", <<"y", "c">>, {<<"u", "a">>}, e[3]),
                Doc(<<"u", "a">>, "own", <<"x", "cover">>, {<<"t", "a">>, <<"t", "cover">>}, "there")>>,
     ncx |-> [entry |-> e[4], navRows |-> <<>>],
     contents |-> <<NavPoint("A", <<"t", "cover">>, <<NavPoint("A", <<"t", "a">>, <<>>)>>),
                    NavPoint("B", <<"gone", "gone">>, <<NavPoint("generic", <<"u", "a">>, <<>>)>>)>>,
     others |-> <<Other(<<"r", "sound">>, FALSE, e[5])>>]
Entries   == {"there", "missing", "broken"}
Frails    == {Frail(e) : e \in [1..5 -> Entries]}
Sturdy    == Frail(<<"there", "there", "there", "missing", "there">>)
Twice     == [Sturdy EXCEPT !.docs = Append(@, @[2])]
Malformed == [Plain EXCEPT !.docs[3].parses = FALSE]
Shut      == [Plain EXCEPT !.opens = FALSE]
Bare      == [Plain EXCEPT !.docs = <<>>]
Modest    == [Sturdy EXCEPT !.images = <<Image(<<"x", "d">>, "map", FALSE, "there")>>]
Later     == [Plain EXCEPT !.cover = <<"j", "c">>]
MergeOf(books, format, smart, target) ==
    [books |-> books, format |-> format, smart |-> smart, target |-> target]
MCMergeJobs ==
    {MergeOf(<<Plain, b>>, "epub", TRUE, 0) : b \in Frails}
    \cup {MergeOf(<<a, b>>, "epub", FALSE, 0) : a \in {Plain, Sturdy}, b \in {Twice, Malformed, Shut, Bare, Modest, Later}}
    \cup {MergeOf(<<a, b>>, "epub", TRUE, 0) : a \in {Twice, Bare, Modest}, b \in {Plain, Sturdy, Twice, Later}}
    \cup {MergeOf(<<b>>, "epub", TRUE, 0) : b \in {Plain, Sturdy, Twice, Bare}}
    \cup {MergeOf(<<Plain, Plain>>, "epub", TRUE, 2), MergeOf(<<>>, "epub", TRUE, 0)}
    \cup {MergeOf(<<Plain, b>>, "txt", TRUE, n) : b \in {Plain, Shut}, n \in {0, 1}}

MCWays == [name : {"compress", "convert", "txt_to_epub", "metadata", "metadata_here", "repair", "repair_here",
                   "merge", "merge_text", "replace_txt", "replace_epub", "book", "text"}, over : BOOLEAN]

Line(kind, word) == [kind |-> kind, word |-> word]
MCTexts  == {<<Line("text", "x"), Line("h1", "y"), Line("blank", ""), Line("text", "xy"), Line("h2", "x")>>,
             <<Line("h1", "y"), Line("h2", "x"), Line("h2", "y"), Line("text", "x")>>,
             <<Line("blank", ""), Line("text", "x")>>, <<Line("blank", "")>>}
MCWithin == {<<"x", "xy">>, <<"y", "xy">>}

RuleOf(kind, src, dst) == [kind |-> kind, src |-> src, dst |-> dst]
MCSlotTexts  == {<<>>, <<"b", "a">>, <<"c">>}
MCRules      == {RuleOf("literal", "a", <<"b">>), RuleOf("literal", "b", <<"c", "a">>),
                 RuleOf("regex", "b", <<"c">>), RuleOf("bad", "a", <<>>)}
MCRuleLists  == UNION {[1..n -> MCRules] : n \in 0..3}
MCSlotGroups == <<<<1, 2>>, <<3>>>>

BodyOf(first, other, lang, routed) ==
    [model |-> first, second |-> other, prompt |-> "p1", lang |-> lang, enabled |-> TRUE, advanced |-> routed]
MCBodies == {BodyOf("m1", "m2", "ko", TRUE), BodyOf("m2", "none", "ja", FALSE),
             [BodyOf("m1", "none", "ko", TRUE) EXCEPT !.enabled = FALSE]}
StoreCast(calls, creates, breaks) == [calls |-> calls, creates |-> creates, breaks |-> breaks]
MCStoreCasts ==
    {StoreCast({"create", "delete", "keys"}, 3, 1), StoreCast({"delete", "select", "start"}, 1, 1),
     StoreCast({"delete", "presets", "start"}, 1, 0), StoreCast({"presets", "settings", "start"}, 1, 1),
     StoreCast({"prompts", "select", "start"}, 2, 1), StoreCast({"update", "presets"}, 1, 0)}

MCLineSize == [s \in {"running", "completed", "failed", "cancelled"} |-> IF s = "running" THEN 1 ELSE 2]
MCLogCasts ==
    {[jobs |-> {}, events |-> 5, faults |-> {}], [jobs |-> {"j1"}, events |-> 3, faults |-> {}],
     [jobs |-> {}, events |-> 2, faults |-> {"append", "restart"}],
     [jobs |-> {}, events |-> 4, faults |-> {"restart"}]}

Scenes == {"retranslate", "epub", "tools", "merge", "files", "chapters", "rules", "stores", "log"}

Init ==
    /\ scene \in Scenes
    /\ RetransInit /\ (scene # "retranslate" => cast = CHOOSE c \in Casts : TRUE)
    /\ EpubInit /\ (scene # "epub" => requests = 3)
    /\ ToolsInit /\ (scene # "tools" => tool = CHOOSE c \in ToolCasts : TRUE)
    /\ MergeInit /\ (scene # "merge" => mergeJob = MergeOf(<<>>, "epub", TRUE, 0))
    /\ FilesInit /\ (scene # "files" => way = [name |-> "text", over |-> TRUE] /\ hardLinks /\ folder["out"] = "none")
    /\ TxtInit /\ (scene # "chapters" => txt = <<Line("blank", "")>>)
    /\ RulesInit /\ (scene # "rules" => ruleList = <<>> /\ original = [s \in Slots |-> <<>>])
    /\ StoresInit /\ (scene # "stores" => desk = StoreCast({"update", "presets"}, 1, 0))
    /\ LogInit /\ (scene # "log" => logCast.events = 5)

Next ==
    /\ UNCHANGED scene
    /\ IF scene = "retranslate" THEN RetransNext ELSE UNCHANGED retransVars
    /\ IF scene = "epub" THEN EpubNext ELSE UNCHANGED epubVars
    /\ IF scene = "tools" THEN ToolsNext ELSE UNCHANGED toolVars
    /\ IF scene = "merge" THEN MergeNext ELSE UNCHANGED mergeVars
    /\ IF scene = "files" THEN FilesNext ELSE UNCHANGED outputVars
    /\ IF scene = "chapters" THEN TxtNext ELSE UNCHANGED txtVars
    /\ IF scene = "rules" THEN RulesNext ELSE UNCHANGED ruleVars
    /\ IF scene = "stores" THEN StoresNext ELSE UNCHANGED storeVars
    /\ IF scene = "log" THEN LogNext ELSE UNCHANGED logVars

Spec == Init /\ [][Next]_vars /\ RetransFair
=============================================================================
