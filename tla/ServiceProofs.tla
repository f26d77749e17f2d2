---------------------------- MODULE ServiceProofs ----------------------------
(***************************************************************************)
(* Proofs about services of the bridge: the re-translation jobs of module  *)
(* RetranslateJobs, for every set of requests, segments, slots and bounds; *)
(* the libraries of module Stores, for every set of profiles, prompts,     *)
(* presets and bodies, and without bounds on creations and faults; and the *)
(* tasks of the single-pass tools of module ToolTasks, for every tool, any *)
(* files, any number of starts and any of its faults.                      *)
(***************************************************************************)
EXTENDS RetranslateJobs, Stores, ToolTasks, FiniteSetTheorems, SequenceTheorems, ListLemmas

(* ---------------------- Re-translation jobs ---------------------- *)

-----------------------------------------------------------------------------
(* The inductive invariant *)

Statuses == Terminal \cup {"absent", "pending", "running"}
Records  == [status : Statuses, runner : {"none", "answer"}, quality : {"none", "decided"},
             done : SUBSET Segs]
Apart    == {"begin", "call", "answered", "own review", "review", "commit", "patch"}
Group    == {"gather", "follow", "asking", "decided"}
Texts    == [Segs -> Jobs \cup {"old", "edit"}]

JobTypes ==
    /\ job \in [Jobs -> Records] /\ disk \in [Jobs -> Records]
    /\ known \subseteq Jobs /\ marks \subseteq Jobs
    /\ wrote \in [Jobs -> SUBSET Segs]
TextTypes ==
    /\ text \in Texts /\ read \in Texts /\ cast \in Casts
    /\ edit # NoEdit => edit.read \in Texts /\ edit.seg \in Segs
    /\ locked \in Jobs \cup {NoJob}
ThreadTypes == thread \in [Jobs -> {"none", "slot"} \cup Apart \cup Group]
GroupTypes ==
    /\ queue \in Seq(Jobs) /\ batch \in Seq(Jobs) /\ leads \in Jobs \cup {NoJob}
    /\ verdict \in [Jobs -> {"none", "cancelled", "error", "accept", "keep"}]

\* who is counted
Holders == {j \in Jobs : thread[j] \notin {"none", "slot"}}
SlotsCounted == busy = Cardinality(Holders) /\ busy <= cast.slots

\* what waits for a decision: undecided items of threads in the group, each in one place
ItemsWait ==
    \A k \in ToSet(queue) \cup ToSet(batch) :
        verdict[k] = "none" /\ thread[k] \in {"gather", "asking", "follow"}
Once(q) == \A a, b \in DOMAIN q : q[a] = q[b] => a = b
ItemsOnce ==
    /\ Once(queue)
    /\ ToSet(queue) \cap ToSet(batch) = {}
\* one thread leads, and it alone has a batch out
OneLeads ==
    /\ \A j \in Jobs : thread[j] \in {"gather", "asking"} <=> leads = j
    /\ batch # <<>> => leads \in Jobs /\ thread[leads] = "asking"
\* a leader leaves the group with its own item decided
LeaderIsJudged ==
    /\ leads = NoJob => queue = <<>>
    /\ \A j \in Jobs :
         /\ thread[j] = "gather" => queue # <<>> /\ (verdict[j] = "none" => queue[1] = j)
         /\ thread[j] = "asking" => (verdict[j] = "none" => j \in ToSet(batch))
         /\ thread[j] = "decided" => verdict[j] # "none"

\* a request with a thread is not forgotten
ThreadsAreKnown == \A j \in Jobs : thread[j] # "none" => j \in known

GroupInv == GroupTypes /\ ItemsWait /\ ItemsOnce /\ OneLeads /\ LeaderIsJudged
JobsInv  == JobTypes /\ LiveHasThread /\ DoneWasWritten
CoreInv  == JobsInv /\ ThreadTypes /\ ThreadsAreKnown /\ SlotsCounted
IInv     == CoreInv /\ TextTypes /\ GroupInv

-----------------------------------------------------------------------------
(* Slots *)

LEMMA HoldersAreFinite == IsFiniteSet(Holders) /\ Cardinality(Holders) \in Nat
<1>1. Holders \subseteq Jobs
  BY DEF Holders
<1> QED BY <1>1, JobsAssumption, FS_Subset, FS_CardinalityType

\* no thread takes or returns a slot
LEMMA SlotsStay ==
    ASSUME ThreadTypes, SlotsCounted, UNCHANGED <<busy, cast>>, NEW j \in Jobs, NEW x,
           thread' = [thread EXCEPT ![j] = x],
           x \in {"none", "slot"} <=> thread[j] \in {"none", "slot"}
    PROVE  SlotsCounted'
<1>1. Holders' = Holders
  BY DEF Holders, ThreadTypes
<1> QED BY <1>1 DEF SlotsCounted

LEMMA SlotsUntouched ==
    ASSUME SlotsCounted, UNCHANGED <<busy, cast, thread>>
    PROVE  SlotsCounted'
BY DEF SlotsCounted, Holders

LEMMA SlotTaken ==
    ASSUME ThreadTypes, SlotsCounted, UNCHANGED cast, cast \in Casts, NEW j \in Jobs,
           thread[j] = "slot", busy < cast.slots, busy' = busy + 1,
           thread' = [thread EXCEPT ![j] = "begin"]
    PROVE  SlotsCounted'
<1>1. Holders' = Holders \cup {j} /\ j \notin Holders
  BY DEF Holders, ThreadTypes
<1>2. Cardinality(Holders') = Cardinality(Holders) + 1
  BY <1>1, HoldersAreFinite, FS_AddElement
<1>3. cast.slots \in Nat
  BY JobsAssumption
<1> QED BY <1>2, <1>3, HoldersAreFinite DEF SlotsCounted

LEMMA SlotReturned ==
    ASSUME ThreadTypes, SlotsCounted, UNCHANGED cast, cast \in Casts, NEW j \in Jobs,
           thread[j] \notin {"none", "slot"}, busy' = busy - 1,
           thread' = [thread EXCEPT ![j] = "none"]
    PROVE  SlotsCounted'
<1>1. Holders' = Holders \ {j} /\ j \in Holders
  BY DEF Holders, ThreadTypes
<1>2. Cardinality(Holders') = Cardinality(Holders) - 1
  BY <1>1, HoldersAreFinite, FS_RemoveElement
<1>3. cast.slots \in Nat
  BY JobsAssumption
<1> QED BY <1>2, <1>3, HoldersAreFinite DEF SlotsCounted

-----------------------------------------------------------------------------
(* Requests *)

\* one request gets a record that is true, and a thread if it is live
LEMMA JobChanged ==
    ASSUME JobsInv, ThreadTypes, ThreadsAreKnown, NEW j \in Jobs, NEW r \in Records,
           NEW x \in {"none", "slot"} \cup Apart \cup Group,
           job' = [job EXCEPT ![j] = r], disk' = [disk EXCEPT ![j] = r],
           known' = known \cup {j}, marks' \subseteq Jobs,
           wrote' \in [Jobs -> SUBSET Segs], \A k \in Jobs : wrote[k] \subseteq wrote'[k],
           r.done \subseteq wrote'[j],
           thread' = [thread EXCEPT ![j] = x],
           r.status \in {"pending", "running"} => x # "none"
    PROVE  JobsInv' /\ ThreadTypes' /\ ThreadsAreKnown'
<1>1. JobTypes'
  BY DEF JobsInv, JobTypes
<1>2. ThreadTypes' /\ ThreadsAreKnown'
  BY DEF ThreadTypes, ThreadsAreKnown
<1>3. LiveHasThread'
  BY DEF JobsInv, JobTypes, LiveHasThread, Live, ThreadTypes
<1>4. DoneWasWritten'
  BY DEF JobsInv, JobTypes, DoneWasWritten
<1> QED BY <1>1, <1>2, <1>3, <1>4 DEF JobsInv

\* only the place of a thread changes, and it does not end
LEMMA ThreadMoves ==
    ASSUME JobsInv, ThreadTypes, ThreadsAreKnown, NEW j \in Jobs,
           NEW x \in {"slot"} \cup Apart \cup Group, thread[j] # "none",
           UNCHANGED <<job, disk, known, marks, wrote>>,
           thread' = [thread EXCEPT ![j] = x]
    PROVE  JobsInv' /\ ThreadTypes' /\ ThreadsAreKnown'
<1>1. JobTypes' /\ DoneWasWritten'
  BY DEF JobsInv, JobTypes, DoneWasWritten
<1>2. ThreadTypes' /\ ThreadsAreKnown'
  BY DEF ThreadTypes, ThreadsAreKnown
<1>3. LiveHasThread'
  BY DEF JobsInv, JobTypes, LiveHasThread, Live, ThreadTypes, Apart, Group
<1> QED BY <1>1, <1>2, <1>3 DEF JobsInv

LEMMA CoreUntouched ==
    ASSUME CoreInv, UNCHANGED <<job, disk, known, thread, busy, cast, wrote>>, marks' \subseteq Jobs
    PROVE  CoreInv'
<1>1. SlotsCounted'
  BY SlotsUntouched DEF CoreInv
<1> QED BY <1>1 DEF CoreInv, JobsInv, JobTypes, LiveHasThread, Live, DoneWasWritten,
                    ThreadTypes, ThreadsAreKnown

LEMMA RecordsOfJobs ==
    ASSUME JobTypes, NEW j \in Jobs
    PROVE  /\ job[j] \in Records /\ disk[j] \in Records
           /\ \A st \in Statuses, done \in SUBSET Segs :
                  [job[j] EXCEPT !.status = st, !.done = done] \in Records
           /\ \A st \in Statuses, q \in {"none", "decided"} :
                  [job[j] EXCEPT !.quality = q, !.status = st] \in Records
           /\ Fresh \in Records /\ Absent \in Records
<1>1. job[j] \in Records /\ disk[j] \in Records
  BY DEF JobTypes
<1>2. \A st \in Statuses, done \in SUBSET Segs : [job[j] EXCEPT !.status = st, !.done = done] \in Records
  BY <1>1 DEF Records
<1>3. \A st \in Statuses, q \in {"none", "decided"} : [job[j] EXCEPT !.quality = q, !.status = st] \in Records
  BY <1>1 DEF Records
<1>4. Absent \in Records /\ Fresh \in Records
  BY DEF Records, Fresh, Absent, Statuses
<1> QED BY <1>1, <1>2, <1>3, <1>4

LEMMA EndStep ==
    ASSUME CoreInv, NEW j \in Jobs, NEW st \in Terminal, NEW done \in SUBSET Segs,
           thread[j] \notin {"none", "slot"}, End(j, st, done), cast \in Casts, UNCHANGED cast,
           wrote' \in [Jobs -> SUBSET Segs], \A k \in Jobs : wrote[k] \subseteq wrote'[k],
           done \subseteq wrote'[j]
    PROVE  CoreInv'
<1> DEFINE r == [job[j] EXCEPT !.status = st, !.done = done]
<1>1. JobTypes /\ job \in [Jobs -> Records]
  BY DEF CoreInv, JobsInv, JobTypes
<1>2. r \in Records
  BY <1>1, RecordsOfJobs DEF Statuses
<1>3. job' = [job EXCEPT ![j] = r] /\ disk' = [disk EXCEPT ![j] = r]
  BY <1>1 DEF End, Records
<1>4. r.done = done /\ r.status = st
  BY <1>1 DEF Records
<1>5. known' = known \cup {j} /\ marks' \subseteq Jobs /\ thread' = [thread EXCEPT ![j] = "none"]
      /\ busy' = busy - 1
  BY DEF End, Release, CoreInv, JobsInv, JobTypes
<1>6. st \notin {"pending", "running"}
  BY DEF Terminal
<1> HIDE DEF r
<1>7. JobsInv' /\ ThreadTypes' /\ ThreadsAreKnown'
  BY <1>2, <1>3, <1>4, <1>5, <1>6, JobChanged DEF CoreInv
<1>8. SlotsCounted'
  BY <1>5, SlotReturned DEF CoreInv
<1> QED BY <1>7, <1>8 DEF CoreInv

\* a thread goes on
LEMMA GoesStep ==
    ASSUME CoreInv, NEW j \in Jobs, NEW x \in Apart \cup Group, thread[j] \in Apart \cup Group,
           At(j, x), UNCHANGED <<job, disk, known, marks, busy, wrote, cast>>
    PROVE  CoreInv'
<1>1. thread[j] \notin {"none", "slot"} /\ x \notin {"none", "slot"}
  BY DEF Apart, Group
<1>2. JobsInv' /\ ThreadTypes' /\ ThreadsAreKnown'
  BY <1>1, ThreadMoves DEF CoreInv, At
<1>3. SlotsCounted'
  BY <1>1, SlotsStay DEF CoreInv, At
<1> QED BY <1>2, <1>3 DEF CoreInv

\* a thread goes on and saves its request, with the segments it had
LEMMA SavesStep ==
    ASSUME CoreInv, NEW j \in Jobs, NEW x \in Apart \cup Group, thread[j] \in Apart \cup Group,
           NEW r \in Records, r.done = job[j].done,
           job' = [job EXCEPT ![j] = r], disk' = [disk EXCEPT ![j] = r],
           At(j, x), UNCHANGED <<known, marks, busy, wrote, cast>>
    PROVE  CoreInv'
<1>1. thread[j] \notin {"none", "slot"} /\ x \notin {"none", "slot"}
  BY DEF Apart, Group
<1>2. known' = known \cup {j} /\ marks' \subseteq Jobs
  BY <1>1 DEF CoreInv, ThreadsAreKnown, JobsInv, JobTypes
<1>3. r.done \subseteq wrote[j] /\ wrote \in [Jobs -> SUBSET Segs]
  BY DEF CoreInv, JobsInv, JobTypes, DoneWasWritten
<1>4. JobsInv' /\ ThreadTypes' /\ ThreadsAreKnown'
  BY <1>1, <1>2, <1>3, JobChanged DEF CoreInv, At
<1>5. SlotsCounted'
  BY <1>1, SlotsStay DEF CoreInv, At
<1> QED BY <1>4, <1>5 DEF CoreInv

-----------------------------------------------------------------------------
(* The group and the texts *)

LEMMA GroupStays ==
    ASSUME GroupInv, UNCHANGED <<thread, groupVars>>
    PROVE  GroupInv'
BY DEF GroupInv, GroupTypes, ItemsWait, ItemsOnce, OneLeads, LeaderIsJudged, groupVars

\* a thread that is not in the group goes on outside of it
LEMMA GroupUntouched ==
    ASSUME GroupInv, ThreadTypes, NEW j \in Jobs, NEW x, thread[j] \notin Group, x \notin Group,
           At(j, x), UNCHANGED groupVars
    PROVE  GroupInv'
<1>1. /\ thread'[j] = x /\ \A k \in Jobs \ {j} : thread'[k] = thread[k]
      /\ queue' = queue /\ batch' = batch /\ leads' = leads /\ verdict' = verdict
  BY DEF At, ThreadTypes, groupVars
<1>2. /\ thread[j] \notin {"gather", "asking", "follow", "decided"}
      /\ x \notin {"gather", "asking", "follow", "decided"}
  BY DEF Group
<1>3. ToSet(queue) \cup ToSet(batch) \subseteq Jobs
  BY DEF GroupInv, GroupTypes, ToSet
<1>4. GroupTypes' /\ ItemsOnce'
  BY <1>1 DEF GroupInv, GroupTypes, ItemsOnce
<1>5. ItemsWait'
  <2> SUFFICES ASSUME NEW k \in ToSet(queue) \cup ToSet(batch)
               PROVE  verdict[k] = "none" /\ thread'[k] \in {"gather", "asking", "follow"}
    BY <1>1 DEF ItemsWait
  <2>1. verdict[k] = "none" /\ thread[k] \in {"gather", "asking", "follow"}
    BY DEF GroupInv, ItemsWait
  <2>2. k # j /\ k \in Jobs
    BY <2>1, <1>2, <1>3
  <2> QED BY <2>1, <2>2, <1>1
<1>6. OneLeads'
  <2>1. \A k \in Jobs : thread'[k] \in {"gather", "asking"} <=> thread[k] \in {"gather", "asking"}
    BY <1>1, <1>2
  <2>2. leads \in Jobs => (thread[leads] = "asking" => leads # j)
    BY <1>2
  <2> QED BY <2>1, <2>2, <1>1 DEF GroupInv, OneLeads
<1>7. LeaderIsJudged'
  <2>1. \A k \in Jobs : \A y \in {"gather", "asking", "decided"} : thread'[k] = y <=> thread[k] = y
    BY <1>1, <1>2
  <2> QED BY <2>1, <1>1 DEF GroupInv, LeaderIsJudged
<1> QED BY <1>4, <1>5, <1>6, <1>7 DEF GroupInv

LEMMA TextsStay ==
    ASSUME TextTypes, UNCHANGED fileVars
    PROVE  TextTypes'
BY DEF TextTypes, fileVars

\* what most steps of a thread leave to show
LEMMA StepAlone ==
    ASSUME IInv, NEW j \in Jobs, NEW x, thread[j] \notin Group, x \notin Group, At(j, x),
           UNCHANGED groupVars, UNCHANGED fileVars, CoreInv'
    PROVE  IInv'
<1>1. GroupInv'
  BY GroupUntouched DEF IInv, CoreInv
<1>2. TextTypes'
  BY TextsStay DEF IInv
<1> QED BY <1>1, <1>2 DEF IInv

\* a thread outside of the group ends
LEMMA EndsAlone ==
    ASSUME IInv, NEW j \in Jobs, NEW st \in Terminal, thread[j] \in Apart, End(j, st, {}),
           UNCHANGED groupVars, UNCHANGED fileVars
    PROVE  IInv'
<1>1. thread[j] \notin {"none", "slot"} /\ thread[j] \notin Group /\ "none" \notin Group
  BY DEF Apart, Group
<1>2. cast \in Casts /\ UNCHANGED <<cast, wrote>> /\ wrote \in [Jobs -> SUBSET Segs]
  BY DEF IInv, TextTypes, fileVars, CoreInv, JobsInv, JobTypes
<1>3. CoreInv'
  BY <1>1, <1>2, EndStep DEF IInv
<1>4. At(j, "none")
  BY DEF End, At
<1> QED BY <1>1, <1>3, <1>4, StepAlone

LEMMA GoesAlone ==
    ASSUME IInv, NEW j \in Jobs, NEW x \in Apart, thread[j] \in Apart, Goes(j, x),
           UNCHANGED groupVars, UNCHANGED fileVars
    PROVE  IInv'
<1>1. thread[j] \notin Group /\ x \notin Group
  BY DEF Apart, Group
<1>2. CoreInv'
  BY GoesStep DEF IInv, Goes, fileVars
<1>3. At(j, x)
  BY DEF Goes
<1> QED BY <1>1, <1>2, <1>3, StepAlone

LEMMA SavesAlone ==
    ASSUME IInv, NEW j \in Jobs, NEW x \in Apart, thread[j] \in Apart, At(j, x),
           NEW r \in Records, r.done = job[j].done,
           job' = [job EXCEPT ![j] = r], disk' = [disk EXCEPT ![j] = r],
           UNCHANGED <<known, marks, busy>>, UNCHANGED groupVars, UNCHANGED fileVars
    PROVE  IInv'
<1>1. thread[j] \notin Group /\ x \notin Group
  BY DEF Apart, Group
<1>2. CoreInv'
  BY SavesStep DEF IInv, fileVars
<1> QED BY <1>1, <1>2, StepAlone

-----------------------------------------------------------------------------
(* Requests are made, taken up again and forgotten *)

LEMMA StartStep == ASSUME IInv, NEW j \in Jobs, StartJob(j) PROVE IInv'
<1>1. thread[j] = "none" /\ j \notin known /\ cast \in Casts
  BY DEF StartJob, IInv, CoreInv, ThreadsAreKnown, TextTypes
<1>2. Fresh \in Records /\ Fresh.done = {} /\ Fresh.status = "pending"
  <2>1. JobTypes
    BY DEF IInv, CoreInv, JobsInv
  <2>2. Fresh \in Records
    BY <2>1, RecordsOfJobs
  <2> QED BY <2>2 DEF Fresh, Absent
<1>3. /\ job' = [job EXCEPT ![j] = Fresh] /\ disk' = [disk EXCEPT ![j] = Fresh]
      /\ known' = known \cup {j} /\ At(j, "slot") /\ UNCHANGED <<marks, busy, wrote, cast>>
      /\ UNCHANGED groupVars /\ UNCHANGED fileVars
  BY DEF StartJob, fileVars, At
<1>4. JobsInv' /\ ThreadTypes' /\ ThreadsAreKnown'
  BY <1>2, <1>3, JobChanged DEF IInv, CoreInv, JobsInv, JobTypes, At
<1>5. SlotsCounted'
  BY <1>1, <1>3, SlotsStay DEF IInv, CoreInv, At
<1>6. CoreInv'
  BY <1>4, <1>5 DEF CoreInv
<1>7. thread[j] \notin Group /\ "slot" \notin Group
  BY <1>1 DEF Group
<1> QED BY <1>3, <1>6, <1>7, StepAlone

LEMMA ResumedIsRecord ==
    ASSUME IInv, NEW j \in Jobs
    PROVE  Resumed(j) \in Records /\ Resumed(j).done \subseteq wrote[j]
<1>1. Loaded(j) \in Records /\ Loaded(j).done \subseteq wrote[j]
  BY DEF IInv, CoreInv, JobsInv, JobTypes, DoneWasWritten, Loaded
<1>2. Fresh = [status |-> "pending", runner |-> "none", quality |-> "none", done |-> {}]
  BY DEF Fresh, Absent
<1> QED BY <1>1, <1>2 DEF Resumed, Records, Statuses

LEMMA ResumeStep == ASSUME IInv, NEW j \in Jobs, ResumeJob(j) PROVE IInv'
<1>1. thread[j] = "none" /\ cast \in Casts
  BY DEF ResumeJob, IInv, TextTypes
<1>3. /\ job' = [job EXCEPT ![j] = Resumed(j)] /\ disk' = [disk EXCEPT ![j] = Resumed(j)]
      /\ known' = known \cup {j} /\ At(j, "slot") /\ UNCHANGED <<marks, busy, wrote, cast>>
      /\ UNCHANGED groupVars /\ UNCHANGED fileVars
  BY DEF ResumeJob, fileVars, At
<1>4. JobsInv' /\ ThreadTypes' /\ ThreadsAreKnown'
  BY <1>3, ResumedIsRecord, JobChanged DEF IInv, CoreInv, JobsInv, JobTypes, At
<1>5. SlotsCounted'
  BY <1>1, <1>3, SlotsStay DEF IInv, CoreInv, At
<1>6. CoreInv'
  BY <1>4, <1>5 DEF CoreInv
<1>7. thread[j] \notin Group /\ "slot" \notin Group
  BY <1>1 DEF Group
<1> QED BY <1>3, <1>6, <1>7, StepAlone

\* steps that leave threads and slots alone
LEMMA ExpireStep == ASSUME IInv, NEW j \in Jobs, Expire(j) PROVE IInv'
<1>1. /\ known' = known \ {j} /\ thread[j] = "none"
      /\ UNCHANGED <<job, disk, thread, busy, marks, wrote, cast>>
      /\ UNCHANGED groupVars /\ UNCHANGED fileVars
  BY DEF Expire, fileVars
<1>2. SlotsCounted'
  BY <1>1, SlotsUntouched DEF IInv, CoreInv
<1>3. JobsInv' /\ ThreadTypes' /\ ThreadsAreKnown'
  BY <1>1 DEF IInv, CoreInv, JobsInv, JobTypes, LiveHasThread, Live, DoneWasWritten,
              ThreadTypes, ThreadsAreKnown
<1> QED BY <1>1, <1>2, <1>3, GroupStays, TextsStay DEF IInv, CoreInv

LEMMA CancelStep == ASSUME IInv, CancelAll PROVE IInv'
<1>1. /\ marks' \subseteq Jobs
      /\ UNCHANGED <<job, disk, known, thread, busy, wrote, cast>>
      /\ UNCHANGED groupVars /\ UNCHANGED fileVars
  BY DEF CancelAll, fileVars, IInv, CoreInv, JobsInv, JobTypes
<1> QED BY <1>1, CoreUntouched, GroupStays, TextsStay DEF IInv

LEMMA EditLoadsStep == ASSUME IInv, NEW s \in Segs, EditLoads(s) PROVE IInv'
<1>1. /\ marks' \subseteq Jobs
      /\ UNCHANGED <<job, disk, known, thread, busy, wrote, cast>> /\ UNCHANGED groupVars
  BY DEF EditLoads, jobVars, IInv, CoreInv, JobsInv, JobTypes
<1>2. TextTypes'
  BY DEF EditLoads, IInv, TextTypes
<1> QED BY <1>1, <1>2, CoreUntouched, GroupStays DEF IInv

LEMMA EditSavesStep == ASSUME IInv, EditSaves PROVE IInv'
<1>1. /\ marks' \subseteq Jobs
      /\ UNCHANGED <<job, disk, known, thread, busy, wrote, cast>> /\ UNCHANGED groupVars
  BY DEF EditSaves, jobVars, IInv, CoreInv, JobsInv, JobTypes
<1>2. edit.read \in Texts /\ edit.seg \in Segs
  BY DEF EditSaves, IInv, TextTypes
<1>3. text' \in Texts
  BY <1>2 DEF EditSaves, IInv, TextTypes, Texts
<1>4. TextTypes'
  BY <1>3 DEF EditSaves, IInv, TextTypes
<1> QED BY <1>1, <1>4, CoreUntouched, GroupStays DEF IInv

LEMMA OldIsText == Old \in Texts
BY DEF Old, Texts

LEMMA PurgeStep == ASSUME IInv, PurgeTask PROVE IInv'
<1>1. /\ disk' = [k \in Jobs |-> Absent] /\ text' = Old
      /\ UNCHANGED <<job, known, marks, thread, busy, wrote, cast>>
      /\ UNCHANGED <<read, edit, locked>> /\ UNCHANGED groupVars
  BY DEF PurgeTask
<1>2. Absent \in Records /\ Absent.done = {}
  BY DEF Absent, Records, Statuses
<1>3. SlotsCounted'
  BY <1>1, SlotsUntouched DEF IInv, CoreInv
<1>4. JobsInv' /\ ThreadTypes' /\ ThreadsAreKnown'
  BY <1>1, <1>2 DEF IInv, CoreInv, JobsInv, JobTypes, LiveHasThread, Live, DoneWasWritten,
              ThreadTypes, ThreadsAreKnown
<1>5. TextTypes'
  BY <1>1, OldIsText DEF IInv, TextTypes
<1> QED BY <1>1, <1>3, <1>4, <1>5, GroupStays DEF IInv, CoreInv

\* a state without threads and with an empty group
LEMMA Quiet ==
    ASSUME JobsInv', TextTypes', thread' = [j \in Jobs |-> "none"], busy' = 0,
           queue' = <<>>, batch' = <<>>, leads' = NoJob, verdict' = [j \in Jobs |-> "none"]
    PROVE  IInv'
<1>1. Holders' = {}
  BY DEF Holders
<1>2. SlotsCounted'
  BY <1>1, FS_EmptySet, JobsAssumption DEF SlotsCounted, TextTypes
<1>3. ThreadTypes' /\ ThreadsAreKnown'
  BY DEF ThreadTypes, ThreadsAreKnown
<1>4. ToSet(queue') = {} /\ ToSet(batch') = {}
  BY DEF ToSet
<1>5. GroupTypes' /\ ItemsWait' /\ ItemsOnce'
  BY <1>4 DEF GroupTypes, ItemsWait, ItemsOnce, Once
<1>6. OneLeads' /\ LeaderIsJudged'
  BY JobsAssumption DEF OneLeads, LeaderIsJudged
<1> QED BY <1>2, <1>3, <1>5, <1>6 DEF IInv, CoreInv, GroupInv

LEMMA RestartStep == ASSUME IInv, RestartService PROVE IInv'
<1>1. Absent \in Records /\ Absent.done = {}
  BY DEF Absent, Records, Statuses
<1>2. JobsInv'
  BY <1>1 DEF RestartService, IInv, CoreInv, JobsInv, JobTypes, LiveHasThread, Live, DoneWasWritten
<1>3. TextTypes'
  BY OldIsText DEF RestartService, IInv, TextTypes
<1> QED BY <1>2, <1>3, Quiet DEF RestartService

-----------------------------------------------------------------------------
(* The thread of a request *)

LEMMA TakeSlotStep == ASSUME IInv, NEW j \in Jobs, TakeSlot(j) PROVE IInv'
<1>1. /\ thread[j] = "slot" /\ cast \in Casts /\ UNCHANGED groupVars /\ UNCHANGED fileVars
      /\ UNCHANGED <<wrote, cast>>
  BY DEF TakeSlot, fileVars, IInv, TextTypes
<1>2. thread[j] \notin Group /\ "none" \notin Group /\ "begin" \notin Group
  BY <1>1 DEF Group
<1>3. CASE j \in marks
  <2> DEFINE r == [job[j] EXCEPT !.status = "cancelled"]
  <2>1. job \in [Jobs -> Records]
    BY DEF IInv, CoreInv, JobsInv, JobTypes
  <2>2. r \in Records /\ r.done = job[j].done /\ r.status = "cancelled"
    BY <2>1 DEF Records, Statuses, Terminal
  <2>3. /\ job' = [job EXCEPT ![j] = r] /\ disk' = [disk EXCEPT ![j] = r]
        /\ known' = known \cup {j} /\ marks' \subseteq Jobs /\ At(j, "none") /\ UNCHANGED busy
    BY <1>3, <2>1 DEF TakeSlot, At, Records, IInv, CoreInv, JobsInv, JobTypes
  <2>4. r.done \subseteq wrote[j] /\ wrote \in [Jobs -> SUBSET Segs]
    BY <2>2 DEF IInv, CoreInv, JobsInv, JobTypes, DoneWasWritten
  <2> HIDE DEF r
  <2>5. JobsInv' /\ ThreadTypes' /\ ThreadsAreKnown'
    BY <1>1, <2>2, <2>3, <2>4, JobChanged DEF IInv, CoreInv, At
  <2>6. SlotsCounted'
    BY <1>1, <2>3, SlotsStay DEF IInv, CoreInv, At
  <2>7. CoreInv'
    BY <2>5, <2>6 DEF CoreInv
  <2> QED BY <1>1, <1>2, <2>3, <2>7, StepAlone
<1>4. CASE j \notin marks
  <2>1. /\ busy < cast.slots /\ busy' = busy + 1 /\ At(j, "begin")
        /\ UNCHANGED <<job, disk, known, marks>>
    BY <1>4 DEF TakeSlot, SlotFree
  <2>2. JobsInv' /\ ThreadTypes' /\ ThreadsAreKnown'
    BY <1>1, <2>1, ThreadMoves DEF IInv, CoreInv, At, Apart
  <2>3. SlotsCounted'
    BY <1>1, <2>1, SlotTaken DEF IInv, CoreInv, At
  <2>4. CoreInv'
    BY <2>2, <2>3 DEF CoreInv
  <2> QED BY <1>1, <1>2, <2>1, <2>4, StepAlone
<1> QED BY <1>3, <1>4

LEMMA BeginStep == ASSUME IInv, NEW j \in Jobs, Begin(j) PROVE IInv'
<1>1. thread[j] \in Apart /\ UNCHANGED groupVars /\ UNCHANGED fileVars
  BY DEF Begin, Apart
<1>2. CASE \E st \in Terminal : End(j, st, {})
  BY <1>1, <1>2, EndsAlone
<1>3. CASE /\ kept /\ Changed(j, text) # SegsOf[j]
  <2> DEFINE r == [job[j] EXCEPT !.status = "running",
                        !.quality = IF job[j].runner = "none" THEN "none" ELSE @]
             x == IF job[j].runner = "none" THEN "call" ELSE "answered"
  <2>1. job \in [Jobs -> Records]
    BY DEF IInv, CoreInv, JobsInv, JobTypes
  <2>2. r \in Records /\ r.done = job[j].done /\ x \in Apart
    BY <2>1 DEF Records, Statuses, Apart
  <2>3. /\ job' = [job EXCEPT ![j] = r] /\ disk' = [disk EXCEPT ![j] = r]
        /\ At(j, x) /\ UNCHANGED <<known, marks, busy>>
    BY <1>3, <2>1 DEF Begin, Records
  <2> HIDE DEF r, x
  <2> QED BY <1>1, <2>2, <2>3, SavesAlone
<1> QED BY <1>2, <1>3 DEF Begin, Terminal

LEMMA RunnerEndsStep == ASSUME IInv, NEW j \in Jobs, RunnerEnds(j) PROVE IInv'
<1>1. thread[j] \in Apart /\ UNCHANGED groupVars /\ UNCHANGED fileVars
  BY DEF RunnerEnds, Apart
<1>2. CASE \E st \in Terminal : End(j, st, {})
  BY <1>1, <1>2, EndsAlone
<1>3. CASE /\ job' = [job EXCEPT ![j].runner = "answer"]
           /\ disk' = [disk EXCEPT ![j] = job'[j]]
           /\ At(j, "answered") /\ UNCHANGED <<known, marks, busy>>
  <2> DEFINE r == [job[j] EXCEPT !.runner = "answer"]
  <2>1. job \in [Jobs -> Records]
    BY DEF IInv, CoreInv, JobsInv, JobTypes
  <2>2. r \in Records /\ r.done = job[j].done /\ "answered" \in Apart
    BY <2>1 DEF Records, Apart
  <2>3. job' = [job EXCEPT ![j] = r] /\ disk' = [disk EXCEPT ![j] = r]
    BY <1>3, <2>1 DEF Records
  <2> HIDE DEF r
  <2> QED BY <1>1, <1>3, <2>2, <2>3, SavesAlone
<1> QED BY <1>2, <1>3 DEF RunnerEnds, Terminal

LEMMA AnsweredStep == ASSUME IInv, NEW j \in Jobs, Answered(j) PROVE IInv'
<1>1. thread[j] \in Apart /\ UNCHANGED groupVars /\ UNCHANGED fileVars
  BY DEF Answered, Apart
<1>2. CASE \E st \in Terminal : End(j, st, {})
  BY <1>1, <1>2, EndsAlone
<1>3. CASE \E x \in Apart : Goes(j, x)
  BY <1>1, <1>3, GoesAlone
<1> QED BY <1>2, <1>3 DEF Answered, Terminal, Apart

LEMMA OwnReviewEndsStep == ASSUME IInv, NEW j \in Jobs, OwnReviewEnds(j) PROVE IInv'
<1>1. thread[j] \in Apart /\ UNCHANGED groupVars /\ UNCHANGED fileVars
  BY DEF OwnReviewEnds, Apart
<1>2. CASE \E st \in Terminal : End(j, st, {})
  BY <1>1, <1>2, EndsAlone
<1>3. CASE \E x \in Apart : Goes(j, x)
  BY <1>1, <1>3, GoesAlone
<1>4. CASE /\ job' = [job EXCEPT ![j].quality = "decided"]
           /\ disk' = [disk EXCEPT ![j] = job'[j]]
           /\ At(j, "commit") /\ UNCHANGED <<known, marks, busy>>
  <2> DEFINE r == [job[j] EXCEPT !.quality = "decided"]
  <2>1. job \in [Jobs -> Records]
    BY DEF IInv, CoreInv, JobsInv, JobTypes
  <2>2. r \in Records /\ r.done = job[j].done /\ "commit" \in Apart
    BY <2>1 DEF Records, Apart
  <2>3. job' = [job EXCEPT ![j] = r] /\ disk' = [disk EXCEPT ![j] = r]
    BY <1>4, <2>1 DEF Records
  <2> HIDE DEF r
  <2> QED BY <1>1, <1>4, <2>2, <2>3, SavesAlone
<1> QED BY <1>2, <1>3, <1>4 DEF OwnReviewEnds, Terminal, Apart

LEMMA LockStep == ASSUME IInv, NEW j \in Jobs, Lock(j) PROVE IInv'
<1>1. thread[j] \in Apart /\ UNCHANGED groupVars
  BY DEF Lock, Apart
<1>2. CASE ~kept
  <2>1. UNCHANGED fileVars
    BY <1>2 DEF Lock, fileVars
  <2>2. \E st \in Terminal : End(j, st, {})
    BY <1>2 DEF Lock, Terminal
  <2> QED BY <1>1, <2>1, <2>2, EndsAlone
<1>3. CASE kept
  <2>1. /\ locked' = j /\ read' = text /\ Goes(j, "patch")
        /\ UNCHANGED <<cast, text, edit, wrote>>
    BY <1>3 DEF Lock
  <2>2. thread[j] \notin Group /\ "patch" \notin Group /\ "patch" \in Apart
    BY <1>1 DEF Apart, Group
  <2>3. CoreInv'
    BY <1>1, <2>1, <2>2, GoesStep DEF IInv, Goes
  <2>4. GroupInv'
    BY <1>1, <2>1, <2>2, GroupUntouched DEF IInv, CoreInv, Goes
  <2>5. TextTypes'
    BY <2>1 DEF IInv, TextTypes
  <2> QED BY <2>3, <2>4, <2>5 DEF IInv
<1> QED BY <1>2, <1>3

\* the write: whatever is reported done has been written
LEMMA PatchStep == ASSUME IInv, NEW j \in Jobs, Patch(j) PROVE IInv'
<1>1. /\ thread[j] = "patch" /\ UNCHANGED groupVars /\ locked' = NoJob /\ read' = Old
      /\ UNCHANGED <<cast, edit>>
  BY DEF Patch
<1>2. /\ thread[j] \notin Group /\ "none" \notin Group /\ thread[j] \notin {"none", "slot"}
      /\ cast \in Casts /\ text \in Texts /\ read \in Texts /\ wrote \in [Jobs -> SUBSET Segs]
  BY <1>1 DEF Group, IInv, TextTypes, CoreInv, JobsInv, JobTypes
<1>3. Acceptable(j) \subseteq Segs
  BY DEF Acceptable, Segs
<1>4. \E st \in Terminal, done \in SUBSET Segs :
        /\ End(j, st, done) /\ done \subseteq wrote'[j] /\ text' \in Texts
        /\ wrote' \in [Jobs -> SUBSET Segs] /\ \A k \in Jobs : wrote[k] \subseteq wrote'[k]
  <2>1. CASE Single(j) /\ Acceptable(j) = {}
    <3>1. End(j, "stale", {}) /\ UNCHANGED <<text, wrote>>
      BY <2>1 DEF Patch
    <3> QED BY <3>1, <1>2 DEF Terminal
  <2>2. CASE ~(Single(j) /\ Acceptable(j) = {})
    <3>1. PICK picked \in SUBSET Segs, works \in BOOLEAN :
            /\ IF works
               THEN /\ text' = IF picked = {} THEN text
                               ELSE [s \in Segs |-> IF s \in picked THEN j ELSE read[s]]
                    /\ wrote' = [wrote EXCEPT ![j] = @ \cup picked]
               ELSE UNCHANGED <<text, wrote>>
            /\ End(j, IF Single(j) /\ ~works THEN "failed" ELSE "completed",
                   Reported(j, picked, works))
      BY <2>2, <1>3 DEF Patch
    <3>2. Reported(j, picked, works) = IF works THEN picked ELSE {}
      BY DEF Reported
    <3>3. CASE works
      <4>1. text' \in Texts
        BY <3>1, <3>3, <1>2 DEF Texts
      <4>2. wrote' \in [Jobs -> SUBSET Segs] /\ picked \subseteq wrote'[j]
            /\ \A k \in Jobs : wrote[k] \subseteq wrote'[k]
        BY <3>1, <3>3, <1>2
      <4>3. End(j, "completed", picked)
        BY <3>1, <3>2, <3>3
      <4> QED BY <4>1, <4>2, <4>3 DEF Terminal
    <3>4. CASE ~works
      <4>1. End(j, IF Single(j) THEN "failed" ELSE "completed", {}) /\ UNCHANGED <<text, wrote>>
        BY <3>1, <3>2, <3>4
      <4> QED BY <4>1, <1>2 DEF Terminal
    <3> QED BY <3>3, <3>4
  <2> QED BY <2>1, <2>2
<1>5. CoreInv' /\ At(j, "none")
  BY <1>1, <1>2, <1>4, EndStep DEF IInv, End, At
<1>6. GroupInv'
  BY <1>1, <1>2, <1>5, GroupUntouched DEF IInv, CoreInv
<1>7. TextTypes'
  BY <1>1, <1>4, OldIsText DEF IInv, TextTypes
<1> QED BY <1>5, <1>6, <1>7 DEF IInv

-----------------------------------------------------------------------------
(* The group: sequences of items *)

LEMMA ItemQueued ==
    ASSUME NEW q \in Seq(Jobs), NEW j \in Jobs, j \notin ToSet(q), Once(q)
    PROVE  /\ Append(q, j) \in Seq(Jobs) /\ Append(q, j) # <<>>
           /\ ToSet(Append(q, j)) = ToSet(q) \cup {j}
           /\ Once(Append(q, j))
           /\ q # <<>> => Append(q, j)[1] = q[1]
           /\ q = <<>> => Append(q, j)[1] = j
<1> DEFINE r == Append(q, j)
<1>1. /\ r \in Seq(Jobs) /\ Len(q) \in Nat /\ Len(r) = Len(q) + 1 /\ r[Len(q) + 1] = j
      /\ \A i \in 1..Len(q) : r[i] = q[i]
      /\ DOMAIN q = 1..Len(q) /\ DOMAIN r = 1..(Len(q) + 1)
  OBVIOUS
<1>2. r # <<>> /\ (q # <<>> => r[1] = q[1]) /\ (q = <<>> => r[1] = j)
  <2>1. q # <<>> => 1 \in 1..Len(q)
    OBVIOUS
  <2> QED BY <1>1, <2>1
<1> HIDE DEF r
<1>3. \A i \in 1..Len(q) : q[i] # j
  BY <1>1 DEF ToSet
<1>4. 1..(Len(q) + 1) = 1..Len(q) \cup {Len(q) + 1}
  BY <1>1
<1>5. ToSet(r) = ToSet(q) \cup {j}
  BY <1>1, <1>4 DEF ToSet
<1>6. Once(r)
  BY <1>1, <1>3, <1>4 DEF Once
<1> QED BY <1>1, <1>2, <1>5, <1>6 DEF r

Taken(q, n) == SubSeq(q, 1, n)
Left(q, n)  == SubSeq(q, n + 1, Len(q))

LEMMA ItemsTaken ==
    ASSUME NEW q \in Seq(Jobs), NEW n \in 1..Len(q), Once(q)
    PROVE  /\ Taken(q, n) \in Seq(Jobs) /\ Left(q, n) \in Seq(Jobs) /\ Taken(q, n) # <<>>
           /\ ToSet(Taken(q, n)) \cup ToSet(Left(q, n)) = ToSet(q)
           /\ ToSet(Taken(q, n)) \cap ToSet(Left(q, n)) = {}
           /\ q[1] \in ToSet(Taken(q, n)) /\ Once(Left(q, n))
<1> DEFINE f == SubSeq(q, 1, n)
           b == SubSeq(q, n + 1, Len(q))
<1>0. Len(q) \in Nat /\ n \in Nat /\ 1 <= n /\ n <= Len(q)
  OBVIOUS
<1>1. Len(q) \in Nat /\ n \in Nat /\ 1 <= n /\ n <= Len(q) /\ DOMAIN q = 1..Len(q)
  OBVIOUS
<1>2. /\ f \in Seq(Jobs) /\ Len(f) = n /\ DOMAIN f = 1..n
      /\ \A i \in 1..n : f[i] = q[i]
  BY <1>1
<1>3. /\ b \in Seq(Jobs) /\ Len(b) = Len(q) - n /\ DOMAIN b = 1..(Len(q) - n)
      /\ \A i \in 1..(Len(q) - n) : b[i] = q[n + i]
  <2>1. n + 1 \in Int /\ Len(q) \in Int /\ \A i \in (n + 1)..Len(q) : q[i] \in Jobs
    BY <1>1
  <2>2. /\ b \in Seq(Jobs) /\ Len(b) = IF n + 1 <= Len(q) THEN Len(q) - (n + 1) + 1 ELSE 0
        /\ \A i \in 1..(Len(q) - (n + 1) + 1) : b[i] = q[(n + 1) + i - 1]
    BY <2>1, SubSeqProperties
  <2> HIDE DEF b
  <2>3. Len(b) = Len(q) - n
    <3>1. Len(b) = IF n + 1 <= Len(q) THEN Len(q) - (n + 1) + 1 ELSE 0
      BY <2>2
    <3> QED BY <3>1, <1>0
  <2>4. ASSUME NEW i \in 1..(Len(q) - n) PROVE b[i] = q[n + i]
    <3>1. i \in 1..(Len(q) - (n + 1) + 1) /\ (n + 1) + i - 1 = n + i
      BY <1>1
    <3> QED BY <3>1, <2>2
  <2> QED BY <2>2, <2>3, <2>4
<1> HIDE DEF f, b
<1>4. f # <<>> /\ q[1] \in ToSet(f)
  BY <1>1, <1>2 DEF ToSet
<1>5. ToSet(f) \cup ToSet(b) = ToSet(q)
  <2>1. ToSet(f) \subseteq ToSet(q)
    BY <1>1, <1>2 DEF ToSet
  <2>2. ToSet(b) \subseteq ToSet(q)
    <3> SUFFICES ASSUME NEW i \in 1..(Len(q) - n) PROVE b[i] \in ToSet(q)
      BY <1>3 DEF ToSet
    <3>1. b[i] = q[n + i] /\ n + i \in 1..Len(q)
      BY <1>1, <1>3
    <3> QED BY <3>1, <1>1 DEF ToSet
  <2>3. ASSUME NEW i \in 1..Len(q) PROVE q[i] \in ToSet(f) \cup ToSet(b)
    <3>1. CASE i <= n
      BY <3>1, <1>1, <1>2 DEF ToSet
    <3>2. CASE i > n
      <4>1. i - n \in 1..(Len(q) - n) /\ b[i - n] = q[n + (i - n)] /\ n + (i - n) = i
        BY <3>2, <1>1, <1>3
      <4> QED BY <4>1, <1>3 DEF ToSet
    <3> QED BY <3>1, <3>2, <1>1
  <2>4. ToSet(q) \subseteq ToSet(f) \cup ToSet(b)
    <3> SUFFICES ASSUME NEW k \in ToSet(q) PROVE k \in ToSet(f) \cup ToSet(b)
      OBVIOUS
    <3>1. PICK i \in 1..Len(q) : k = q[i]
      BY <1>1 DEF ToSet
    <3> QED BY <3>1, <2>3
  <2> QED BY <2>1, <2>2, <2>4
<1>6. ToSet(f) \cap ToSet(b) = {}
  <2> SUFFICES ASSUME NEW a \in 1..n, NEW c \in 1..(Len(q) - n), f[a] = b[c] PROVE FALSE
    BY <1>2, <1>3 DEF ToSet
  <2>1. q[a] = q[n + c] /\ a \in 1..Len(q) /\ n + c \in 1..Len(q) /\ a # n + c
    BY <1>1, <1>2, <1>3
  <2> QED BY <2>1, <1>1 DEF Once
<1>7. Once(b)
  <2> SUFFICES ASSUME NEW a \in 1..(Len(q) - n), NEW c \in 1..(Len(q) - n), b[a] = b[c]
               PROVE  a = c
    BY <1>3 DEF Once
  <2>1. q[n + a] = q[n + c] /\ n + a \in 1..Len(q) /\ n + c \in 1..Len(q)
    BY <1>1, <1>3
  <2>2. n + a = n + c
    BY <2>1, <1>1 DEF Once
  <2> QED BY <2>2, <1>1
<1>8. Taken(q, n) = f /\ Left(q, n) = b
  BY DEF Taken, Left, f, b
<1> QED BY <1>2, <1>3, <1>4, <1>5, <1>6, <1>7, <1>8

-----------------------------------------------------------------------------
(* The group: its steps *)

\* what the steps of the group share: the thread moves inside of it
LEMMA MovesInGroup ==
    ASSUME IInv, NEW j \in Jobs, NEW x \in Group, thread[j] \in Apart \cup Group, At(j, x),
           UNCHANGED jobVars, UNCHANGED fileVars, GroupInv'
    PROVE  IInv'
<1>1. CoreInv'
  BY GoesStep DEF IInv, jobVars, fileVars
<1> QED BY <1>1, TextsStay DEF IInv

LEMMA JoinStep == ASSUME IInv, NEW j \in Jobs, Join(j) PROVE IInv'
<1>1. /\ thread[j] = "review" /\ queue' = Append(queue, j) /\ UNCHANGED batch
      /\ verdict' = [verdict EXCEPT ![j] = "none"]
      /\ UNCHANGED jobVars /\ UNCHANGED fileVars
  BY DEF Join
<1>2. /\ queue \in Seq(Jobs) /\ batch \in Seq(Jobs) /\ Once(queue)
      /\ leads \in Jobs \cup {NoJob} /\ NoJob \notin Jobs
      /\ verdict \in [Jobs -> {"none", "cancelled", "error", "accept", "keep"}]
  BY JobsAssumption DEF IInv, GroupInv, GroupTypes, ItemsOnce
<1>3. j \notin ToSet(queue) /\ j \notin ToSet(batch)
  BY <1>1 DEF IInv, GroupInv, ItemsWait
<1>4. /\ queue' \in Seq(Jobs) /\ queue' # <<>> /\ Once(queue')
      /\ ToSet(queue') = ToSet(queue) \cup {j}
      /\ queue # <<>> => queue'[1] = queue[1]
      /\ queue = <<>> => queue'[1] = j
  BY <1>1, <1>2, <1>3, ItemQueued
<1> DEFINE x == IF leads = NoJob THEN "gather" ELSE "follow"
<1>5. At(j, x) /\ x \in Group /\ leads' = IF leads = NoJob THEN j ELSE leads
  BY DEF Join, Group
<1>6. thread'[j] = x /\ \A k \in Jobs \ {j} : thread'[k] = thread[k]
  BY <1>5 DEF At, IInv, CoreInv, ThreadTypes
<1>7. verdict'[j] = "none" /\ \A k \in Jobs \ {j} : verdict'[k] = verdict[k]
  BY <1>1, <1>2
<1>8. GroupTypes' /\ ItemsOnce'
  BY <1>1, <1>2, <1>3, <1>4, <1>5 DEF GroupTypes, ItemsOnce, IInv, GroupInv
<1>9. ItemsWait'
  <2>1. ToSet(queue) \cup ToSet(batch) \subseteq Jobs \ {j}
    BY <1>2, <1>3 DEF ToSet
  <2> QED BY <2>1, <1>1, <1>4, <1>6, <1>7 DEF IInv, GroupInv, ItemsWait
<1>10. OneLeads'
  <2>1. \A k \in Jobs : thread[k] \in {"gather", "asking"} <=> leads = k
    BY DEF IInv, GroupInv, OneLeads
  <2>2. \A k \in Jobs : thread'[k] \in {"gather", "asking"} <=> leads' = k
    BY <2>1, <1>1, <1>2, <1>5, <1>6
  <2>3. batch # <<>> => leads \in Jobs /\ thread[leads] = "asking"
    BY DEF IInv, GroupInv, OneLeads
  <2>4. batch' # <<>> => leads' \in Jobs /\ thread'[leads'] = "asking"
    BY <2>3, <1>1, <1>2, <1>5, <1>6
  <2> QED BY <2>2, <2>4 DEF OneLeads
<1>11. LeaderIsJudged'
  <2>1. leads' # NoJob
    BY <1>2, <1>5
  <2>2. ASSUME NEW k \in Jobs
        PROVE  /\ thread'[k] = "gather" => queue' # <<>> /\ (verdict'[k] = "none" => queue'[1] = k)
               /\ thread'[k] = "asking" => (verdict'[k] = "none" => k \in ToSet(batch'))
               /\ thread'[k] = "decided" => verdict'[k] # "none"
    <3>1. CASE k = j
      BY <3>1, <1>4, <1>6 DEF IInv, GroupInv, LeaderIsJudged
    <3>2. CASE k # j
      BY <3>2, <1>1, <1>4, <1>6, <1>7 DEF IInv, GroupInv, LeaderIsJudged
    <3> QED BY <3>1, <3>2
  <2> QED BY <2>1, <2>2 DEF LeaderIsJudged
<1>12. GroupInv'
  BY <1>8, <1>9, <1>10, <1>11 DEF GroupInv
<1> QED BY <1>1, <1>5, <1>12, MovesInGroup DEF Apart

LEMMA GatherStep == ASSUME IInv, NEW j \in Jobs, Gather(j) PROVE IInv'
<1>1. /\ thread[j] = "gather" /\ At(j, "asking") /\ UNCHANGED <<leads, verdict>>
      /\ UNCHANGED jobVars /\ UNCHANGED fileVars
  BY DEF Gather
<1>2. /\ queue \in Seq(Jobs) /\ Once(queue) /\ NoJob \notin Jobs /\ leads = j
  BY <1>1, JobsAssumption DEF IInv, GroupInv, GroupTypes, ItemsOnce, OneLeads
<1>3. PICK n \in 1..ReviewMax : /\ n <= Len(queue)
                                /\ batch' = Taken(queue, n) /\ queue' = Left(queue, n)
  BY DEF Gather, Taken, Left
<1>4. n \in 1..Len(queue)
  BY <1>2, <1>3, JobsAssumption
<1>5. /\ batch' \in Seq(Jobs) /\ queue' \in Seq(Jobs) /\ batch' # <<>>
      /\ ToSet(batch') \cup ToSet(queue') = ToSet(queue) /\ ToSet(batch') \cap ToSet(queue') = {}
      /\ queue[1] \in ToSet(batch') /\ Once(queue')
  BY <1>2, <1>3, <1>4, ItemsTaken
<1>6. thread'[j] = "asking" /\ \A k \in Jobs \ {j} : thread'[k] = thread[k]
  BY <1>1 DEF At, IInv, CoreInv, ThreadTypes
<1>7. GroupTypes' /\ ItemsOnce'
  BY <1>1, <1>5 DEF GroupTypes, ItemsOnce, IInv, GroupInv
<1>8. ItemsWait'
  <2> SUFFICES ASSUME NEW k \in ToSet(queue)
               PROVE  verdict[k] = "none" /\ thread'[k] \in {"gather", "asking", "follow"}
    BY <1>1, <1>5 DEF ItemsWait
  <2>1. k \in Jobs
    BY <1>2 DEF ToSet
  <2> QED BY <2>1, <1>6 DEF IInv, GroupInv, ItemsWait
<1>9. OneLeads'
  BY <1>1, <1>2, <1>6 DEF IInv, GroupInv, OneLeads
<1>10. LeaderIsJudged'
  <2>1. \A k \in Jobs \ {j} : thread'[k] \notin {"gather", "asking"}
    BY <1>2, <1>6 DEF IInv, GroupInv, OneLeads
  <2>2. verdict[j] = "none" => j \in ToSet(batch')
    BY <1>1, <1>5 DEF IInv, GroupInv, LeaderIsJudged
  <2>3. leads' # NoJob
    BY <1>1, <1>2
  <2>4. \A k \in Jobs : thread'[k] = "decided" => verdict[k] # "none"
    BY <1>6 DEF IInv, GroupInv, LeaderIsJudged
  <2> QED BY <1>1, <1>6, <2>1, <2>2, <2>3, <2>4 DEF LeaderIsJudged
<1>11. GroupInv'
  BY <1>7, <1>8, <1>9, <1>10 DEF GroupInv
<1> QED BY <1>1, <1>11, MovesInGroup DEF Group

\* the call ends: some items are decided and forgotten, and the leader goes on
\* with the rest of the queue or leaves
LEMMA ReviewStep == ASSUME IInv, NEW j \in Jobs, ReviewEnds(j) PROVE IInv'
<1> DEFINE asked == ToSet(batch)
<1>1. /\ thread[j] = "asking" /\ batch' = <<>> /\ UNCHANGED jobVars /\ UNCHANGED fileVars
  BY DEF ReviewEnds
<1>2. /\ queue \in Seq(Jobs) /\ Once(queue) /\ leads = j /\ leads # NoJob
      /\ asked \subseteq Jobs /\ ToSet(queue) \subseteq Jobs /\ asked \cap ToSet(queue) = {}
      /\ verdict \in [Jobs -> {"none", "cancelled", "error", "accept", "keep"}]
  BY <1>1, JobsAssumption DEF IInv, GroupInv, GroupTypes, ItemsOnce, OneLeads, ToSet
<1>3. verdict[j] = "none" => j \in asked
  BY <1>1 DEF IInv, GroupInv, LeaderIsJudged
<1>4. \A k \in Jobs \ {j} : thread[k] \notin {"gather", "asking"}
  BY <1>2 DEF IInv, GroupInv, OneLeads
<1>5. \A k \in ToSet(queue) : verdict[k] = "none" /\ thread[k] \in {"gather", "asking", "follow"}
  BY DEF IInv, GroupInv, ItemsWait
<1>6. ToSet(<<>>) = {}
  BY DEF ToSet
<1>7. PICK x \in {"gather", "decided"} :
        /\ At(j, x)
        /\ verdict' \in [Jobs -> {"none", "cancelled", "error", "accept", "keep"}]
        /\ \A k \in asked : verdict'[k] # "none"
        /\ \A k \in Jobs : verdict[k] # "none" => verdict'[k] # "none"
        /\ \/ queue' = <<>> /\ leads' = NoJob /\ x = "decided"
           \/ /\ queue' = queue /\ \A k \in Jobs \ asked : verdict'[k] = verdict[k]
              /\ IF queue # <<>> THEN leads' = leads /\ x = "gather"
                                 ELSE leads' = NoJob /\ x = "decided"
  <2>1. CASE /\ verdict' = Judged(EndedWith(asked), "cancelled")
             /\ queue' = <<>> /\ leads' = NoJob /\ At(j, "decided")
    <3>1. \A k \in Jobs : verdict'[k] = IF k \in asked \cup ToSet(queue) THEN "cancelled" ELSE verdict[k]
      BY <2>1 DEF Judged, EndedWith
    <3>2. verdict' \in [Jobs -> {"none", "cancelled", "error", "accept", "keep"}]
      BY <2>1, <1>2 DEF Judged
    <3> QED BY <2>1, <3>1, <3>2, <1>2
  <2>2. CASE /\ verdict' = Judged(asked, "error")
             /\ leads' = IF queue # <<>> THEN leads ELSE NoJob
             /\ At(j, IF queue # <<>> THEN "gather" ELSE "decided")
             /\ UNCHANGED queue
    <3>1. \A k \in Jobs : verdict'[k] = IF k \in asked THEN "error" ELSE verdict[k]
      BY <2>2 DEF Judged
    <3>2. verdict' \in [Jobs -> {"none", "cancelled", "error", "accept", "keep"}]
      BY <2>2, <1>2 DEF Judged
    <3> QED BY <2>2, <3>1, <3>2, <1>2
  <2>3. CASE /\ \E v \in [asked -> {"accept", "keep"}] :
                  verdict' = [k \in Jobs |-> IF k \in asked THEN v[k] ELSE verdict[k]]
             /\ leads' = IF queue # <<>> THEN leads ELSE NoJob
             /\ At(j, IF queue # <<>> THEN "gather" ELSE "decided")
             /\ UNCHANGED queue
    <3>1. PICK v \in [asked -> {"accept", "keep"}] :
                  verdict' = [k \in Jobs |-> IF k \in asked THEN v[k] ELSE verdict[k]]
      BY <2>3
    <3>2. \A k \in asked : v[k] \in {"accept", "keep"}
      OBVIOUS
    <3>3. \A k \in Jobs : verdict'[k] = IF k \in asked THEN v[k] ELSE verdict[k]
      BY <3>1
    <3>4. verdict' \in [Jobs -> {"none", "cancelled", "error", "accept", "keep"}]
      BY <3>1, <3>2, <1>2
    <3> QED BY <2>3, <3>2, <3>3, <3>4, <1>2
  <2> QED BY <2>1, <2>2, <2>3 DEF ReviewEnds
<1>8. thread'[j] = x /\ \A k \in Jobs \ {j} : thread'[k] = thread[k]
  BY <1>7 DEF At, IInv, CoreInv, ThreadTypes
<1> HIDE DEF asked
<1>9. GroupTypes'
  <2>0. <<>> \in Seq(Jobs) /\ queue' \in {<<>>, queue}
    BY <1>7
  <2>1. queue' \in Seq(Jobs) /\ batch' \in Seq(Jobs)
    BY <2>0, <1>1, <1>2
  <2>2. leads' \in Jobs \cup {NoJob}
    BY <1>2, <1>7
  <2> QED BY <2>1, <2>2, <1>7 DEF GroupTypes
<1>10. ItemsOnce'
  BY <1>1, <1>2, <1>6, <1>7 DEF ItemsOnce, Once
<1>11. ItemsWait'
  <2>1. CASE queue' = <<>>
    BY <2>1, <1>1, <1>6 DEF ItemsWait
  <2>2. CASE queue' = queue /\ queue # <<>> /\ x = "gather"
             /\ \A k \in Jobs \ asked : verdict'[k] = verdict[k]
    BY <2>2, <1>1, <1>2, <1>5, <1>6, <1>8 DEF ItemsWait
  <2> QED BY <2>1, <2>2, <1>7
<1>12. OneLeads'
  <2>1. x = "gather" <=> leads' = j
    BY <1>2, <1>7
  <2>2. leads' \in {j, NoJob}
    BY <1>2, <1>7
  <2> QED BY <2>1, <2>2, <1>1, <1>4, <1>7, <1>8, JobsAssumption DEF OneLeads
<1>13. LeaderIsJudged'
  <2>1. verdict'[j] # "none"
    BY <1>3, <1>7
  <2>2. leads' = NoJob => queue' = <<>>
    BY <1>2, <1>7
  <2>3. x = "gather" => queue' # <<>>
    BY <1>7
  <2>4. \A k \in Jobs : thread[k] = "decided" => verdict'[k] # "none"
    BY <1>7 DEF IInv, GroupInv, LeaderIsJudged
  <2> QED BY <2>1, <2>2, <2>3, <2>4, <1>4, <1>7, <1>8 DEF LeaderIsJudged
<1>14. GroupInv'
  BY <1>9, <1>10, <1>11, <1>12, <1>13 DEF GroupInv
<1>15. x \in Group /\ thread[j] \in Apart \cup Group
  BY <1>1 DEF Group
<1> QED BY <1>1, <1>7, <1>14, <1>15, MovesInGroup

\* a thread takes its decision: its item is in no queue any more
LEMMA DecidedLeaves ==
    ASSUME IInv, NEW j \in Jobs, Decided(j), NEW x, x \notin Group, At(j, x)
    PROVE  GroupInv'
<1>1. /\ UNCHANGED <<queue, leads, batch>> /\ verdict' = [verdict EXCEPT ![j] = "none"]
      /\ thread[j] \in {"decided", "follow"} /\ verdict[j] # "none"
  BY DEF Decided, IInv, GroupInv, LeaderIsJudged
<1>2. x \notin {"gather", "asking", "follow", "decided"}
  BY DEF Group
<1>3. thread'[j] = x /\ \A k \in Jobs \ {j} : thread'[k] = thread[k]
  BY DEF At, IInv, CoreInv, ThreadTypes
<1>4. verdict'[j] = "none" /\ \A k \in Jobs \ {j} : verdict'[k] = verdict[k]
  BY <1>1 DEF IInv, GroupInv, GroupTypes
<1>5. ToSet(queue) \cup ToSet(batch) \subseteq Jobs \ {j}
  BY <1>1 DEF IInv, GroupInv, GroupTypes, ItemsWait, ToSet
<1>6. GroupTypes' /\ ItemsOnce'
  BY <1>1 DEF IInv, GroupInv, GroupTypes, ItemsOnce
<1>7. ItemsWait'
  BY <1>1, <1>3, <1>4, <1>5 DEF IInv, GroupInv, ItemsWait
<1>8. leads # j
  BY <1>1 DEF IInv, GroupInv, OneLeads
<1>9. OneLeads'
  BY <1>1, <1>2, <1>3, <1>8 DEF IInv, GroupInv, OneLeads
<1>10. LeaderIsJudged'
  <2>1. leads' = NoJob => queue' = <<>>
    BY <1>1 DEF IInv, GroupInv, LeaderIsJudged
  <2>2. ASSUME NEW k \in Jobs
        PROVE  /\ thread'[k] = "gather" => queue' # <<>> /\ (verdict'[k] = "none" => queue'[1] = k)
               /\ thread'[k] = "asking" => (verdict'[k] = "none" => k \in ToSet(batch'))
               /\ thread'[k] = "decided" => verdict'[k] # "none"
    <3>1. CASE k = j
      BY <3>1, <1>2, <1>3
    <3>2. CASE k # j
      BY <3>2, <1>1, <1>3, <1>4 DEF IInv, GroupInv, LeaderIsJudged
    <3> QED BY <3>1, <3>2
  <2> QED BY <2>1, <2>2 DEF LeaderIsJudged
<1> QED BY <1>6, <1>7, <1>9, <1>10 DEF GroupInv

LEMMA DecidedStep == ASSUME IInv, NEW j \in Jobs, Decided(j) PROVE IInv'
<1>1. /\ thread[j] \in {"decided", "follow"} /\ UNCHANGED fileVars
      /\ verdict[j] \in {"cancelled", "error", "accept", "keep"}
  BY DEF Decided, IInv, GroupInv, GroupTypes, LeaderIsJudged
<1>2. /\ thread[j] \notin {"none", "slot"} /\ thread[j] \in Apart \cup Group
      /\ "none" \notin Group /\ "commit" \notin Group /\ "commit" \in Apart \cup Group
  BY <1>1 DEF Apart, Group
<1>3. /\ UNCHANGED <<cast, wrote>> /\ cast \in Casts /\ wrote \in [Jobs -> SUBSET Segs]
      /\ job \in [Jobs -> Records] /\ job[j].done \subseteq wrote[j]
  BY <1>1 DEF fileVars, IInv, TextTypes, CoreInv, JobsInv, JobTypes, DoneWasWritten
<1>4. TextTypes'
  BY <1>1, TextsStay DEF IInv
<1>5. CASE \E st \in Terminal : End(j, st, {})
  <2>1. PICK st \in Terminal : End(j, st, {})
    BY <1>5
  <2>2. CoreInv'
    BY <1>2, <1>3, <2>1, EndStep DEF IInv
  <2>3. At(j, "none")
    BY <2>1 DEF End, At
  <2>4. GroupInv'
    BY <1>2, <2>3, DecidedLeaves
  <2> QED BY <1>4, <2>2, <2>4 DEF IInv
<1>6. CASE verdict[j] = "keep"
  <2> DEFINE r == [job[j] EXCEPT !.quality = "decided", !.status = "unresolved"]
  <2>1. r \in Records /\ r.done = job[j].done /\ r.status = "unresolved"
    BY <1>3 DEF Records, Statuses, Terminal
  <2>2. /\ job' = [job EXCEPT ![j] = r] /\ disk' = [disk EXCEPT ![j] = r]
        /\ busy' = busy - 1 /\ At(j, "none") /\ UNCHANGED <<known, marks>>
    BY <1>3, <1>6 DEF Decided, Release, Records
  <2> HIDE DEF r
  <2>3. known' = known \cup {j} /\ marks' \subseteq Jobs
    BY <1>2, <2>2 DEF IInv, CoreInv, ThreadsAreKnown, JobsInv, JobTypes
  <2>4. JobsInv' /\ ThreadTypes' /\ ThreadsAreKnown'
    BY <1>3, <2>1, <2>2, <2>3, JobChanged DEF IInv, CoreInv, At
  <2>5. SlotsCounted'
    BY <1>2, <1>3, <2>2, SlotReturned DEF IInv, CoreInv, At
  <2>6. GroupInv'
    BY <1>2, <2>2, DecidedLeaves
  <2> QED BY <1>4, <2>4, <2>5, <2>6 DEF IInv, CoreInv
<1>7. CASE verdict[j] = "accept"
  <2> DEFINE r == [job[j] EXCEPT !.quality = "decided"]
  <2>1. r \in Records /\ r.done = job[j].done
    BY <1>3 DEF Records
  <2>2. /\ job' = [job EXCEPT ![j] = r] /\ disk' = [disk EXCEPT ![j] = r]
        /\ At(j, "commit") /\ UNCHANGED <<known, marks, busy>>
    BY <1>3, <1>7 DEF Decided, Records
  <2> HIDE DEF r
  <2>3. CoreInv'
    BY <1>2, <1>3, <2>1, <2>2, SavesStep DEF IInv
  <2>4. GroupInv'
    BY <1>2, <2>2, DecidedLeaves
  <2> QED BY <1>4, <2>3, <2>4 DEF IInv
<1>8. CASE verdict[j] \in {"cancelled", "error"}
  <2>1. \E st \in Terminal : End(j, st, {})
    BY <1>8 DEF Decided, Terminal
  <2> QED BY <2>1, <1>5
<1> QED BY <1>1, <1>6, <1>7, <1>8

-----------------------------------------------------------------------------
(* The theorem *)

LEMMA InitHolds == ASSUME RetransInit PROVE IInv
<1>1. /\ job = [k \in Jobs |-> Absent] /\ disk = job /\ known = {} /\ marks = {} /\ busy = 0
      /\ thread = [k \in Jobs |-> "none"] /\ wrote = [k \in Jobs |-> {}] /\ cast \in Casts
      /\ queue = <<>> /\ batch = <<>> /\ leads = NoJob /\ verdict = [k \in Jobs |-> "none"]
  BY DEF RetransInit
<1>2. Absent \in Records /\ Absent.done = {}
  BY DEF Absent, Records, Statuses
<1>3. JobsInv
  BY <1>1, <1>2 DEF JobsInv, JobTypes, LiveHasThread, Live, DoneWasWritten
<1>4. TextTypes
  BY OldIsText DEF RetransInit, TextTypes
<1>5. Holders = {}
  BY <1>1 DEF Holders
<1>6. SlotsCounted
  BY <1>1, <1>5, FS_EmptySet, JobsAssumption DEF SlotsCounted
<1>7. ThreadTypes /\ ThreadsAreKnown
  BY <1>1 DEF ThreadTypes, ThreadsAreKnown
<1>8. ToSet(queue) = {} /\ ToSet(batch) = {}
  BY <1>1 DEF ToSet
<1>9. GroupTypes /\ ItemsWait /\ ItemsOnce
  BY <1>1, <1>8 DEF GroupTypes, ItemsWait, ItemsOnce, Once
<1>10. OneLeads /\ LeaderIsJudged
  BY <1>1, JobsAssumption DEF OneLeads, LeaderIsJudged
<1> QED BY <1>3, <1>4, <1>6, <1>7, <1>9, <1>10 DEF IInv, CoreInv, GroupInv

LEMMA ThreadKeeps == ASSUME IInv, NEW j \in Jobs, ThreadStep(j) PROVE IInv'
BY TakeSlotStep, BeginStep, RunnerEndsStep, AnsweredStep, OwnReviewEndsStep, JoinStep, GatherStep,
   ReviewStep, DecidedStep, LockStep, PatchStep DEF ThreadStep

LEMMA StutterKeeps == ASSUME IInv, UNCHANGED retransVars PROVE IInv'
<1>1. UNCHANGED <<job, disk, known, marks, thread, busy, wrote, cast>> /\ marks' \subseteq Jobs
      /\ UNCHANGED groupVars /\ UNCHANGED fileVars
  BY DEF retransVars, groupVars, fileVars, IInv, CoreInv, JobsInv, JobTypes
<1> QED BY <1>1, CoreUntouched, GroupStays, TextsStay DEF IInv

LEMMA NextKeeps == ASSUME IInv, [RetransNext]_retransVars PROVE IInv'
BY StartStep, ResumeStep, ExpireStep, ThreadKeeps, CancelStep, EditLoadsStep, EditSavesStep,
   PurgeStep, RestartStep, StutterKeeps DEF RetransNext

LEMMA InvIsEnough == ASSUME IInv PROVE RequestsAreTrue
<1>1. RetransTypeOK
  BY DEF IInv, CoreInv, JobsInv, JobTypes, TextTypes, Texts, Records, Statuses, GroupInv,
         GroupTypes, ItemsOnce, RetransTypeOK
<1>2. SlotsAreHeld
  BY DEF IInv, CoreInv, SlotsCounted, Holders, SlotsAreHeld
<1> QED BY <1>1, <1>2 DEF IInv, CoreInv, JobsInv, RequestsAreTrue

\* What the service says of its requests is so for every set of requests, every
\* number of slots, edits and restarts: the slots counted are those of the threads
\* that will return them, whichever of the ways a thread ends; a request shown as
\* live has a thread; a segment reported done was written; an item of the review
\* waits in one place.
THEOREM RequestsTold == RetransSpec => []RequestsAreTrue
<1>1. RetransInit => IInv
  BY InitHolds
<1>2. IInv /\ [RetransNext]_retransVars => IInv'
  BY NextKeeps
<1>3. IInv => RequestsAreTrue
  BY InvIsEnough
<1> QED BY <1>1, <1>2, <1>3, PTL DEF RetransSpec

-----------------------------------------------------------------------------
(* Answers on disk *)

\* an answer in the file of a request is the one of the request in memory
FilesAgree == \A j \in Jobs : j \in known /\ disk[j].runner = "answer" => disk[j] = job[j]

\* the ways a step changes requests and their files
Saved(j, r) ==
    /\ job' = [job EXCEPT ![j] = r] /\ disk' = [disk EXCEPT ![j] = r] /\ known' = known \cup {j}
    /\ disk[j].runner = "answer" => r.runner = "answer" \/ disk[j].status = "failed"
SavesWell ==
    \/ UNCHANGED disk /\ ((UNCHANGED job /\ known' \subseteq known) \/ known' = {})
    \/ \E j \in Jobs : \E r \in Records : Saved(j, r)
    \/ disk' = [k \in Jobs |-> Absent] /\ kept # kept'

LEMMA FilesStayAgreed ==
    ASSUME IInv, FilesAgree, SavesWell
    PROVE  FilesAgree'
<1>0. job \in [Jobs -> Records] /\ disk \in [Jobs -> Records] /\ Absent.runner = "none"
  BY DEF IInv, CoreInv, JobsInv, JobTypes, Absent
<1>1. CASE UNCHANGED disk /\ ((UNCHANGED job /\ known' \subseteq known) \/ known' = {})
  BY <1>1 DEF FilesAgree
<1>2. ASSUME NEW j \in Jobs, NEW r \in Records, Saved(j, r) PROVE FilesAgree'
  BY <1>0, <1>2 DEF FilesAgree, Saved
<1>3. CASE disk' = [k \in Jobs |-> Absent]
  BY <1>0, <1>3 DEF FilesAgree
<1> QED BY <1>1, <1>2, <1>3 DEF SavesWell

\* a thread that saves its request keeps its answer
LEMMA ThreadSaves ==
    ASSUME IInv, FilesAgree, NEW j \in Jobs, thread[j] # "none", NEW r \in Records,
           r.runner = "answer" \/ r.runner = job[j].runner,
           job' = [job EXCEPT ![j] = r], disk' = [disk EXCEPT ![j] = r], known' = known \cup {j}
    PROVE  SavesWell
<1>1. j \in known
  BY DEF IInv, CoreInv, ThreadsAreKnown
<1>2. Saved(j, r)
  BY <1>1 DEF FilesAgree, Saved
<1> QED BY <1>2 DEF SavesWell

LEMMA EndSaves ==
    ASSUME IInv, FilesAgree, NEW j \in Jobs, NEW st \in Terminal, NEW done \in SUBSET Segs,
           thread[j] # "none", End(j, st, done)
    PROVE  SavesWell
<1> DEFINE r == [job[j] EXCEPT !.status = st, !.done = done]
<1>1. job \in [Jobs -> Records]
  BY DEF IInv, CoreInv, JobsInv, JobTypes
<1>2. r \in Records /\ r.runner = job[j].runner
  BY <1>1 DEF Records, Statuses
<1>3. job' = [job EXCEPT ![j] = r] /\ disk' = [disk EXCEPT ![j] = r] /\ known' = known \cup {j}
  BY <1>1 DEF End, Records
<1> HIDE DEF r
<1> QED BY <1>2, <1>3, ThreadSaves

\* a thread is known: saying so again changes nothing
LEMMA KnownStays ==
    ASSUME IInv, NEW j \in Jobs, thread[j] # "none", UNCHANGED known
    PROVE  known' = known \cup {j}
BY DEF IInv, CoreInv, ThreadsAreKnown

LEMMA ResumeSaves == ASSUME IInv, FilesAgree, NEW j \in Jobs, ResumeJob(j) PROVE SavesWell
<1>1. /\ job' = [job EXCEPT ![j] = Resumed(j)] /\ disk' = [disk EXCEPT ![j] = Resumed(j)]
      /\ known' = known \cup {j}
  BY DEF ResumeJob
<1>2. Loaded(j) \in Records
  BY DEF IInv, CoreInv, JobsInv, JobTypes, Loaded
<1>3. disk[j].runner = "answer" => Loaded(j) = disk[j]
  BY DEF FilesAgree, Loaded
<1>4. Loaded(j).status # "failed" => Resumed(j).runner = Loaded(j).runner
  BY <1>2 DEF Resumed, Records
<1>5. Saved(j, Resumed(j))
  BY <1>1, <1>3, <1>4 DEF Saved
<1> QED BY <1>5, ResumedIsRecord DEF SavesWell

LEMMA StartSaves == ASSUME IInv, NEW j \in Jobs, StartJob(j) PROVE SavesWell
<1>1. Fresh \in Records
  BY RecordsOfJobs DEF IInv, CoreInv, JobsInv
<1>2. disk[j] = Absent /\ Absent.runner = "none"
  BY DEF StartJob, Absent
<1>3. Saved(j, Fresh)
  BY <1>2 DEF StartJob, Saved
<1> QED BY <1>1, <1>3 DEF SavesWell

\* the steps of a thread
LEMMA TakeSlotSaves == ASSUME IInv, FilesAgree, NEW j \in Jobs, TakeSlot(j) PROVE SavesWell
<1>1. thread[j] # "none" /\ job \in [Jobs -> Records]
  BY DEF TakeSlot, IInv, CoreInv, JobsInv, JobTypes
<1>2. CASE j \in marks
  <2> DEFINE r == [job[j] EXCEPT !.status = "cancelled"]
  <2>1. r \in Records /\ r.runner = job[j].runner
    BY <1>1 DEF Records, Statuses, Terminal
  <2>2. job' = [job EXCEPT ![j] = r] /\ disk' = [disk EXCEPT ![j] = r] /\ known' = known \cup {j}
    BY <1>1, <1>2 DEF TakeSlot, Records
  <2> HIDE DEF r
  <2> QED BY <1>1, <2>1, <2>2, ThreadSaves
<1>3. CASE j \notin marks
  BY <1>3 DEF TakeSlot, SavesWell
<1> QED BY <1>2, <1>3

LEMMA BeginSaves == ASSUME IInv, FilesAgree, NEW j \in Jobs, Begin(j) PROVE SavesWell
<1>1. thread[j] # "none" /\ job \in [Jobs -> Records]
  BY DEF Begin, IInv, CoreInv, JobsInv, JobTypes
<1>2. CASE \E st \in Terminal : End(j, st, {})
  BY <1>1, <1>2, EndSaves
<1>3. CASE kept /\ Changed(j, text) # SegsOf[j]
  <2> DEFINE r == [job[j] EXCEPT !.status = "running",
                        !.quality = IF job[j].runner = "none" THEN "none" ELSE @]
  <2>1. r \in Records /\ r.runner = job[j].runner
    BY <1>1 DEF Records, Statuses
  <2>2. job' = [job EXCEPT ![j] = r] /\ disk' = [disk EXCEPT ![j] = r] /\ UNCHANGED known
    BY <1>1, <1>3 DEF Begin, Records
  <2> HIDE DEF r
  <2> QED BY <1>1, <2>1, <2>2, KnownStays, ThreadSaves
<1> QED BY <1>2, <1>3 DEF Begin, Terminal

LEMMA RunnerSaves == ASSUME IInv, FilesAgree, NEW j \in Jobs, RunnerEnds(j) PROVE SavesWell
<1>1. thread[j] # "none" /\ job \in [Jobs -> Records]
  BY DEF RunnerEnds, IInv, CoreInv, JobsInv, JobTypes
<1>2. CASE \E st \in Terminal : End(j, st, {})
  BY <1>1, <1>2, EndSaves
<1>3. CASE /\ job' = [job EXCEPT ![j].runner = "answer"]
           /\ disk' = [disk EXCEPT ![j] = job'[j]] /\ UNCHANGED known
  <2> DEFINE r == [job[j] EXCEPT !.runner = "answer"]
  <2>1. r \in Records /\ r.runner = "answer"
    BY <1>1 DEF Records
  <2>2. job' = [job EXCEPT ![j] = r] /\ disk' = [disk EXCEPT ![j] = r]
    BY <1>1, <1>3 DEF Records
  <2> HIDE DEF r
  <2> QED BY <1>1, <1>3, <2>1, <2>2, KnownStays, ThreadSaves
<1> QED BY <1>2, <1>3 DEF RunnerEnds, Terminal

LEMMA AnsweredSaves == ASSUME IInv, FilesAgree, NEW j \in Jobs, Answered(j) PROVE SavesWell
<1>1. thread[j] # "none"
  BY DEF Answered
<1>2. CASE \E st \in Terminal : End(j, st, {})
  BY <1>1, <1>2, EndSaves
<1>3. CASE \E x \in Apart : Goes(j, x)
  BY <1>3 DEF Goes, SavesWell
<1> QED BY <1>2, <1>3 DEF Answered, Terminal, Apart

\* the verdict of a review is saved, with the status it gives
LEMMA VerdictSaves ==
    ASSUME IInv, FilesAgree, NEW j \in Jobs, thread[j] # "none", UNCHANGED known,
           \/ job' = [job EXCEPT ![j].quality = "decided"]
           \/ job' = [job EXCEPT ![j].quality = "decided", ![j].status = "unresolved"],
           disk' = [disk EXCEPT ![j] = job'[j]]
    PROVE  SavesWell
<1>1. job \in [Jobs -> Records]
  BY DEF IInv, CoreInv, JobsInv, JobTypes
<1>2. PICK r \in Records : r.runner = job[j].runner /\ job' = [job EXCEPT ![j] = r]
  <2>1. CASE job' = [job EXCEPT ![j].quality = "decided"]
    <3>1. [job[j] EXCEPT !.quality = "decided"] \in Records
      BY <1>1 DEF Records
    <3> QED BY <2>1, <3>1, <1>1 DEF Records
  <2>2. CASE job' = [job EXCEPT ![j].quality = "decided", ![j].status = "unresolved"]
    <3>1. [job[j] EXCEPT !.quality = "decided", !.status = "unresolved"] \in Records
      <4>1. job[j] \in Records /\ "unresolved" \in Statuses
        BY <1>1 DEF Statuses, Terminal
      <4> QED BY <4>1 DEF Records
    <3> QED BY <2>2, <3>1, <1>1 DEF Records
  <2> QED BY <2>1, <2>2
<1>3. disk' = [disk EXCEPT ![j] = r]
  BY <1>1, <1>2
<1> QED BY <1>2, <1>3, KnownStays, ThreadSaves

LEMMA OwnReviewSaves == ASSUME IInv, FilesAgree, NEW j \in Jobs, OwnReviewEnds(j) PROVE SavesWell
<1>1. thread[j] # "none"
  BY DEF OwnReviewEnds
<1>2. CASE \E st \in Terminal : End(j, st, {})
  BY <1>1, <1>2, EndSaves
<1>3. CASE \E x \in Apart : Goes(j, x)
  BY <1>3 DEF Goes, SavesWell
<1>4. CASE /\ job' = [job EXCEPT ![j].quality = "decided"]
           /\ disk' = [disk EXCEPT ![j] = job'[j]] /\ UNCHANGED known
  BY <1>1, <1>4, VerdictSaves
<1> QED BY <1>2, <1>3, <1>4 DEF OwnReviewEnds, Terminal, Apart

LEMMA DecidedSaves == ASSUME IInv, FilesAgree, NEW j \in Jobs, Decided(j) PROVE SavesWell
<1>1. thread[j] # "none" /\ verdict[j] \in {"cancelled", "error", "accept", "keep"}
  BY DEF Decided, IInv, GroupInv, GroupTypes, LeaderIsJudged
<1>2. CASE verdict[j] \in {"cancelled", "error"}
  <2>1. \E st \in Terminal : End(j, st, {})
    BY <1>2 DEF Decided, Terminal
  <2> QED BY <1>1, <2>1, EndSaves
<1>3. CASE verdict[j] \in {"accept", "keep"}
  BY <1>1, <1>3, VerdictSaves DEF Decided
<1> QED BY <1>1, <1>2, <1>3

LEMMA LockSaves == ASSUME IInv, FilesAgree, NEW j \in Jobs, Lock(j) PROVE SavesWell
<1>1. thread[j] # "none"
  BY DEF Lock
<1>2. CASE \E st \in Terminal : End(j, st, {})
  BY <1>1, <1>2, EndSaves
<1>3. CASE Goes(j, "patch")
  BY <1>3 DEF Goes, SavesWell
<1> QED BY <1>2, <1>3 DEF Lock, Terminal

LEMMA PatchSaves == ASSUME IInv, FilesAgree, NEW j \in Jobs, Patch(j) PROVE SavesWell
<1>1. thread[j] # "none"
  BY DEF Patch
<1>2. Acceptable(j) \subseteq Segs
  BY DEF Acceptable, Segs
<1>3. \E st \in Terminal, done \in SUBSET Segs : End(j, st, done)
  <2>1. CASE Single(j) /\ Acceptable(j) = {}
    BY <2>1 DEF Patch, Terminal
  <2>2. CASE ~(Single(j) /\ Acceptable(j) = {})
    <3>1. PICK picked \in SUBSET Segs, works \in BOOLEAN :
            End(j, IF Single(j) /\ ~works THEN "failed" ELSE "completed",
                Reported(j, picked, works))
      BY <2>2, <1>2 DEF Patch
    <3>2. Reported(j, picked, works) \in SUBSET Segs
      BY DEF Reported
    <3>3. (IF Single(j) /\ ~works THEN "failed" ELSE "completed") \in Terminal
      BY DEF Terminal
    <3> QED BY <3>1, <3>2, <3>3
  <2> QED BY <2>1, <2>2
<1> QED BY <1>1, <1>3, EndSaves

LEMMA NextSaves == ASSUME IInv, FilesAgree, [RetransNext]_retransVars PROVE SavesWell
<1>1. ASSUME NEW j \in Jobs, Join(j) \/ Gather(j) \/ ReviewEnds(j) PROVE SavesWell
  BY <1>1 DEF Join, Gather, ReviewEnds, jobVars, SavesWell
<1>2. ASSUME NEW j \in Jobs, ThreadStep(j) PROVE SavesWell
  BY <1>1, <1>2, TakeSlotSaves, BeginSaves, RunnerSaves, AnsweredSaves, OwnReviewSaves,
     DecidedSaves, LockSaves, PatchSaves DEF ThreadStep
<1>3. ASSUME NEW j \in Jobs, Expire(j) PROVE SavesWell
  BY <1>3 DEF Expire, SavesWell
<1>4. CASE CancelAll \/ EditSaves \/ \E s \in Segs : EditLoads(s)
  BY <1>4 DEF CancelAll, EditSaves, EditLoads, jobVars, SavesWell
<1>5. CASE PurgeTask
  BY <1>5 DEF PurgeTask, SavesWell
<1>6. CASE RestartService
  BY <1>6 DEF RestartService, SavesWell
<1>7. CASE UNCHANGED retransVars
  BY <1>7 DEF retransVars, SavesWell
<1> QED BY <1>2, <1>3, <1>4, <1>5, <1>6, <1>7, StartSaves, ResumeSaves DEF RetransNext

\* An answer that was paid for stays on disk until its request fails or the task is
\* purged, whatever is cancelled, forgotten, taken up again or restarted.
THEOREM AnswersStay == RetransSpec => AnswersAreReused
<1> DEFINE Keeps == \A j \in Jobs :
             disk[j].runner = "answer" /\ disk'[j].runner # "answer" =>
                 disk[j].status = "failed" \/ kept # kept'
<1>1. RetransInit => IInv /\ FilesAgree
  BY InitHolds DEF RetransInit, FilesAgree
<1>2. IInv /\ FilesAgree /\ [RetransNext]_retransVars => (IInv /\ FilesAgree)' /\ Keeps
  <2> SUFFICES ASSUME IInv, FilesAgree, [RetransNext]_retransVars
               PROVE  (IInv /\ FilesAgree)' /\ Keeps
    OBVIOUS
  <2>1. SavesWell
    BY NextSaves
  <2>2. disk \in [Jobs -> Records]
    BY DEF IInv, CoreInv, JobsInv, JobTypes
  <2>3. Keeps
    BY <2>1, <2>2 DEF SavesWell, Saved
  <2> QED BY <2>1, <2>3, NextKeeps, FilesStayAgreed
<1>3. IInv /\ FilesAgree /\ [RetransNext]_retransVars => [Keeps]_retransVars
  BY <1>2
<1> QED BY <1>1, <1>2, <1>3, PTL DEF RetransSpec, AnswersAreReused

-----------------------------------------------------------------------------
(* Edits, where nobody saves one while a request writes *)

LocksKept ==
    /\ \A j \in Jobs : thread[j] = "patch" => locked = j
    /\ locked # NoJob => edit = NoEdit
    /\ kept /\ locked # NoJob => read = text
    /\ kept /\ edit # NoEdit => edit.read = text

\* texts, lock and edit stay, and no thread comes to the write
LEMMA LocksStay ==
    ASSUME LocksKept, UNCHANGED fileVars,
           \A k \in Jobs : thread'[k] = "patch" => thread[k] = "patch"
    PROVE  LocksKept'
BY DEF LocksKept, fileVars

LEMMA ElsewhereFilesStay ==
    ASSUME IInv, NEW j \in Jobs,
           \/ StartJob(j) \/ ResumeJob(j) \/ Expire(j) \/ TakeSlot(j) \/ Begin(j) \/ RunnerEnds(j)
           \/ Answered(j) \/ OwnReviewEnds(j) \/ Join(j) \/ Gather(j) \/ ReviewEnds(j) \/ Decided(j)
    PROVE  UNCHANGED fileVars /\ \E x : x # "patch" /\ At(j, x)
<1>0. thread = [thread EXCEPT ![j] = thread[j]]
  BY DEF IInv, CoreInv, ThreadTypes
<1>1. CASE StartJob(j) \/ ResumeJob(j)
  BY <1>1 DEF StartJob, ResumeJob, At
<1>2. CASE Expire(j)
  <2>1. UNCHANGED fileVars /\ thread[j] # "patch" /\ thread' = thread
    BY <1>2 DEF Expire
  <2> QED BY <2>1, <1>0 DEF At
<1>3. CASE TakeSlot(j)
  BY <1>3 DEF TakeSlot, At
<1>4. CASE Begin(j)
  BY <1>4 DEF Begin, End, At
<1>5. CASE RunnerEnds(j)
  BY <1>5 DEF RunnerEnds, End, At
<1>6. CASE Answered(j)
  BY <1>6 DEF Answered, End, At, Goes
<1>7. CASE OwnReviewEnds(j)
  BY <1>7 DEF OwnReviewEnds, End, At, Goes
<1>8. CASE Join(j) \/ Gather(j) \/ ReviewEnds(j)
  BY <1>8 DEF Join, Gather, ReviewEnds, At
<1>9. CASE Decided(j)
  BY <1>9 DEF Decided, End, At, IInv, GroupInv, GroupTypes, LeaderIsJudged
<1> QED BY <1>1, <1>2, <1>3, <1>4, <1>5, <1>6, <1>7, <1>8, <1>9

\* what a step may do to a text the user typed
EditKept ==
    kept' => \A s \in Segs :
        text[s] = "edit" /\ text'[s] # "edit" =>
            \E j \in Jobs : text'[s] = j /\ orig[j][s] = "edit"

LEMMA LockKeepsLocks ==
    ASSUME ~Overlap, IInv, LocksKept, NEW j \in Jobs, Lock(j)
    PROVE  LocksKept' /\ EditKept
<1>1. /\ locked = NoJob /\ edit = NoEdit /\ NoJob \notin Jobs /\ UNCHANGED <<text, kept, edit>>
      /\ thread \in [Jobs -> {"none", "slot"} \cup Apart \cup Group]
  BY JobsAssumption DEF Lock, IInv, CoreInv, ThreadTypes
<1>2. \A k \in Jobs : thread[k] # "patch"
  BY <1>1 DEF LocksKept
<1>3. CASE ~kept
  <2>1. UNCHANGED <<locked, read>> /\ thread' = [thread EXCEPT ![j] = "none"]
    BY <1>3 DEF Lock, End
  <2> QED BY <1>1, <1>2, <2>1 DEF LocksKept, EditKept
<1>4. CASE kept
  <2>1. locked' = j /\ read' = text /\ thread' = [thread EXCEPT ![j] = "patch"]
    BY <1>4 DEF Lock, Goes, At
  <2> QED BY <1>1, <1>2, <2>1 DEF LocksKept, EditKept
<1> QED BY <1>3, <1>4

LEMMA PatchKeepsEdits ==
    ASSUME IInv, LocksKept, NEW j \in Jobs, Patch(j)
    PROVE  LocksKept' /\ EditKept
<1>1. /\ locked = j /\ j # NoJob /\ edit = NoEdit /\ (kept => read = text)
      /\ locked' = NoJob /\ UNCHANGED <<edit, kept>>
  BY JobsAssumption DEF Patch, LocksKept
<1>2. thread' = [thread EXCEPT ![j] = "none"]
  BY DEF Patch, End
<1>3. \A k \in Jobs : thread'[k] # "patch"
  BY <1>1, <1>2 DEF LocksKept, IInv, CoreInv, ThreadTypes
<1>4. LocksKept'
  BY <1>1, <1>3 DEF LocksKept
<1>5. EditKept
  <2> SUFFICES ASSUME kept, NEW s \in Segs, text[s] = "edit", text'[s] # "edit"
               PROVE  text'[s] = j /\ orig[j][s] = "edit"
    BY <1>1 DEF EditKept
  <2>1. read = text /\ text' # text
    BY <1>1
  <2>2. PICK picked \in SUBSET Acceptable(j) :
          text' = [z \in Segs |-> IF z \in picked THEN j ELSE read[z]]
    BY <2>1 DEF Patch
  <2>3. s \in picked /\ text'[s] = j
    BY <2>1, <2>2
  <2>4. orig[j][s] = read[s]
    BY <2>2, <2>3 DEF Acceptable, Changed
  <2> QED BY <2>1, <2>3, <2>4
<1> QED BY <1>4, <1>5

LEMMA NextKeepsEdits ==
    ASSUME ~Overlap, IInv, LocksKept, [RetransNext]_retransVars
    PROVE  LocksKept' /\ EditKept
<1>1. ASSUME UNCHANGED fileVars, \A k \in Jobs : thread'[k] = "patch" => thread[k] = "patch"
      PROVE  LocksKept' /\ EditKept
  <2>1. EditKept
    BY <1>1 DEF EditKept, fileVars
  <2> QED BY <1>1, <2>1, LocksStay
<1>2. ASSUME NEW j \in Jobs,
             \/ StartJob(j) \/ ResumeJob(j) \/ Expire(j) \/ TakeSlot(j) \/ Begin(j) \/ RunnerEnds(j)
             \/ Answered(j) \/ OwnReviewEnds(j) \/ Join(j) \/ Gather(j) \/ ReviewEnds(j) \/ Decided(j)
      PROVE  LocksKept' /\ EditKept
  <2>1. UNCHANGED fileVars /\ \E x : x # "patch" /\ At(j, x)
    BY <1>2, ElsewhereFilesStay
  <2>2. \A k \in Jobs : thread'[k] = "patch" => thread[k] = "patch"
    BY <2>1 DEF At, IInv, CoreInv, ThreadTypes
  <2> QED BY <2>1, <2>2, <1>1
<1>3. CASE CancelAll
  BY <1>3, <1>1 DEF CancelAll
<1>4. ASSUME NEW s \in Segs, EditLoads(s) PROVE LocksKept' /\ EditKept
  <2>1. locked = NoJob /\ edit' = [seg |-> s, read |-> text]
        /\ UNCHANGED <<text, kept, locked, read, thread>>
    BY <1>4 DEF EditLoads
  <2>2. EditKept
    BY <2>1 DEF EditKept
  <2> QED BY <2>1, <2>2 DEF LocksKept
<1>5. CASE EditSaves
  <2>1. /\ edit # NoEdit /\ edit' = NoEdit /\ UNCHANGED <<kept, locked, read, thread>>
        /\ text' = IF kept THEN [edit.read EXCEPT ![edit.seg] = "edit"] ELSE text
        /\ edit.read \in Texts
    BY <1>5 DEF EditSaves, IInv, TextTypes
  <2>2. locked = NoJob
    BY <2>1 DEF LocksKept
  <2>3. LocksKept'
    BY <2>1, <2>2 DEF LocksKept
  <2>4. EditKept
    BY <2>1 DEF EditKept, LocksKept, Texts
  <2> QED BY <2>3, <2>4
<1>6. CASE PurgeTask
  <2>1. ~kept' /\ UNCHANGED <<locked, edit, thread>>
    BY <1>6 DEF PurgeTask
  <2> QED BY <2>1 DEF LocksKept, EditKept
<1>7. CASE RestartService
  <2>1. locked' = NoJob /\ edit' = NoEdit /\ UNCHANGED text /\ thread' = [j \in Jobs |-> "none"]
    BY <1>7 DEF RestartService
  <2> QED BY <2>1 DEF LocksKept, EditKept
<1>8. CASE UNCHANGED retransVars
  <2>1. UNCHANGED fileVars /\ UNCHANGED thread
    BY <1>8 DEF retransVars, fileVars
  <2> QED BY <2>1, <1>1
<1> QED BY <1>2, <1>3, <1>4, <1>5, <1>6, <1>7, <1>8, LockKeepsLocks, PatchKeepsEdits
        DEF RetransNext, ThreadStep

\* If no edit is saved while a request holds the lock and writes (the one thing the
\* code does not see to), what the user typed is only replaced by a request made for
\* that very text: the check against the snapshot under the lock is enough.
THEOREM EditsAreKept == ASSUME ~Overlap PROVE RetransSpec => EditsSurvive
<1>1. RetransInit => IInv /\ LocksKept
  BY InitHolds DEF RetransInit, LocksKept
<1>2. IInv /\ LocksKept /\ [RetransNext]_retransVars => (IInv /\ LocksKept)' /\ EditKept
  BY NextKeeps, NextKeepsEdits
<1>3. IInv /\ LocksKept /\ [RetransNext]_retransVars => [EditKept]_retransVars
  BY <1>2
<1>4. [][EditKept]_retransVars <=> EditsSurvive
  BY DEF EditKept, EditsSurvive
<1> QED BY <1>1, <1>2, <1>3, <1>4, PTL DEF RetransSpec

(* --------------------------- Libraries --------------------------- *)

-----------------------------------------------------------------------------
(* The inductive invariant *)

PromptIds == Prompts \cup {DefaultPrompt, NoId}
ChoiceSet   == [model : Profiles \cup {NoId}, prompt : PromptIds, preset : Presets \cup {NoId}, lang : Langs]
Plans     == [models : SUBSET Profiles, first : Profiles \cup {NoId}, prompt : PromptIds,
              preset : Presets \cup {NoId}, lang : Langs \cup {NoId}]
Tasks     == [at : {"none", "live", "stopping", "stopped"}, named : SUBSET Profiles, uses : SUBSET Profiles,
              prompt : PromptIds, lang : Langs \cup {NoId}, route : Presets \cup {NoId},
              frozen : Presets \cup {NoId}, fresh : BOOLEAN, next : Plans]

StoresTypeOK ==
    /\ created \in Nat
    /\ profileFile \in [Profiles -> Nat] /\ keyFile \in [Profiles -> Nat]
    /\ promptFile \in [Prompts -> {"on", "off", "gone"}]
    /\ presetFile \in [Presets -> Bodies \cup {NoPreset}]
    /\ choice \in ChoiceSet /\ task \in Tasks

\* what a task runs on is there, also what its record does not name yet
UsesExist == "task" \notin torn /\ task.at = "live" => \A m \in task.uses : HasProfile(m)
\* the record names no more than is used, and has no routes before it is seeded
RecordIsPart == task.named \subseteq task.uses /\ (task.fresh => task.frozen = NoId)
\* a plan waits for a thread that stops, and is the plan of the selection just accepted
PlanWaits ==
    task.next # NoPlan => /\ task.at = "stopping"
                          /\ answer.said = "accepted" => task.next = PlanFor(choice)

TaskIsSound == RunUsesWhatExists /\ UsesExist /\ RecordIsPart /\ PlanWaits

StoresInv == StoresTypeOK /\ KeysAreOwn /\ ChoiceExists /\ TaskIsSound /\ SelectionsAreWhole

-----------------------------------------------------------------------------
(* Plans *)

LEMMA ActiveExists ==
    ASSUME NEW p
    PROVE  ActivePrompt(p) \in Prompts \cup {DefaultPrompt} /\ HasPrompt(ActivePrompt(p))
BY DEF ActivePrompt, HasPrompt

\* a plan names models that are there, its first among them, and a prompt that is there
LEMMA PlanIsUsable ==
    ASSUME StoresTypeOK, NEW c \in ChoiceSet
    PROVE  /\ PlanFor(c) \in Plans
           /\ \A m \in PlanFor(c).models : HasProfile(m)
           /\ PlanFor(c) # NoPlan => PlanFor(c).first \in PlanFor(c).models /\ HasPrompt(PlanFor(c).prompt)
<1>1. CASE PlanFor(c) = NoPlan
  BY <1>1 DEF NoPlan, Plans, PromptIds
<1>2. CASE PlanFor(c) # NoPlan /\ c.preset # NoId
  <2> DEFINE body == presetFile[c.preset]
  <2>1. /\ body.enabled /\ body.lang = c.lang /\ \A m \in RoutesOf(body) : Usable(m)
        /\ PlanFor(c) = [models |-> RoutesOf(body), first |-> body.model, prompt |-> ActivePrompt(body.prompt),
                         preset |-> c.preset, lang |-> c.lang]
    BY <1>2 DEF PlanFor
  <2>2. body \in Bodies
    BY <2>1, <1>2 DEF StoresTypeOK, ChoiceSet, NoPreset
  <2>3. body.model \in RoutesOf(body) /\ RoutesOf(body) \subseteq Profiles
    BY <2>2, StoresAssumption DEF RoutesOf
  <2>4. c.preset \in Presets /\ c.lang \in Langs
    BY <1>2 DEF ChoiceSet
  <2> QED BY <2>1, <2>2, <2>3, <2>4, ActiveExists DEF Plans, PromptIds, Usable
<1>3. CASE PlanFor(c) # NoPlan /\ c.preset = NoId
  <2>1. /\ Usable(c.model)
        /\ PlanFor(c) = [models |-> {c.model}, first |-> c.model, prompt |-> ActivePrompt(c.prompt),
                         preset |-> NoId, lang |-> c.lang]
    BY <1>3 DEF PlanFor
  <2>2. c.model \in Profiles /\ c.lang \in Langs
    BY <2>1 DEF Usable, HasProfile, ChoiceSet
  <2> QED BY <2>1, <2>2, ActiveExists DEF Plans, PromptIds, Usable
<1> QED BY <1>1, <1>2, <1>3

\* the plan of a choice depends on the libraries only
LEMMA PlanUnchanged ==
    ASSUME UNCHANGED Libraries, NEW c
    PROVE  PlanFor(c)' = PlanFor(c)
BY DEF Libraries, PlanFor, ActivePrompt, Usable, HasProfile, RoutesOf, Fits

LEMMA NoPlanType == NoPlan \in Plans
BY DEF NoPlan, Plans, PromptIds

\* what happens to a task whose model or prompt is deleted
LEMMA StoppedTask ==
    ASSUME StoresTypeOK, PlanWaits, NEW M, NEW P, NEW t, t = StoppedFor(M, P)
    PROVE  /\ t \in Tasks
           /\ t.named = task.named /\ t.uses = task.uses /\ t.prompt = task.prompt /\ t.lang = task.lang
           /\ t.frozen = task.frozen /\ t.fresh = task.fresh
           /\ t.at = "live" => task.at = "live" /\ task.named \cap M = {} /\ task.prompt \notin P
           /\ t.next # NoPlan => /\ t.at = "stopping" /\ t.next = task.next
                                 /\ task.next.models \cap M = {} /\ task.next.prompt \notin P
<1>1. task \in Tasks /\ NoPlan \in Plans
  BY NoPlanType DEF StoresTypeOK
<1>2. CASE Concerned(M, P)
  <2>1. t = [task EXCEPT !.at = "stopping", !.next = NoPlan]
    BY <1>2 DEF StoppedFor
  <2> QED BY <1>1, <2>1 DEF Tasks
<1>3. CASE ~Concerned(M, P)
  <2>1. t = task
    BY <1>3 DEF StoppedFor
  <2> QED BY <1>1, <1>3, <2>1 DEF Concerned, PlanWaits
<1> QED BY <1>2, <1>3

\* what happens to a task when the selection becomes c
LEMMA SwitchedTask ==
    ASSUME StoresTypeOK, PlanWaits, NEW c \in ChoiceSet, ~Refused(c), NEW t, t = Switched(c)
    PROVE  /\ t \in Tasks
           /\ t.named = task.named /\ t.uses = task.uses /\ t.prompt = task.prompt /\ t.lang = task.lang
           /\ t.frozen = task.frozen /\ t.fresh = task.fresh
           /\ t.at # "live"
           /\ t.next # NoPlan => t.at = "stopping" /\ t.next = PlanFor(c) /\ t.next.lang = task.lang
<1>1. task \in Tasks /\ NoPlan \in Plans /\ PlanFor(c) \in Plans
  BY NoPlanType, PlanIsUsable DEF StoresTypeOK
<1>2. CASE Switches
  <2>1. t = [task EXCEPT !.at = "stopping", !.next = PlanForRun(c)]
    BY <1>2 DEF Switched
  <2>2. PlanForRun(c) = PlanFor(c) /\ PlanFor(c).lang = task.lang
    BY <1>2 DEF Refused, PlanForRun
  <2>3. t \in Tasks
    BY <1>1, <2>1, <2>2 DEF Tasks
  <2>4. t.at = "stopping" /\ t.next = PlanFor(c)
    BY <1>1, <2>1, <2>2 DEF Tasks
  <2>5. /\ t.named = task.named /\ t.uses = task.uses /\ t.prompt = task.prompt /\ t.lang = task.lang
        /\ t.frozen = task.frozen /\ t.fresh = task.fresh
    BY <1>1, <2>1 DEF Tasks
  <2> QED BY <2>2, <2>3, <2>4, <2>5
<1>3. CASE ~Switches
  <2>1. t = task
    BY <1>3 DEF Switched
  <2> QED BY <1>1, <1>3, <2>1 DEF Switches, PlanWaits
<1> QED BY <1>2, <1>3

-----------------------------------------------------------------------------
(* Steps *)

\* the libraries only gain, the task is left alone
LEMMA TaskUntouched ==
    ASSUME StoresInv, UNCHANGED task, torn \subseteq torn',
           \A m \in Profiles : HasProfile(m) => HasProfile(m)', \A p : HasPrompt(p) => HasPrompt(p)',
           Forgets
    PROVE  TaskIsSound' /\ SelectionsAreWhole'
<1> USE DEF StoresInv, TaskIsSound
<1>1. RunUsesWhatExists'
  BY DEF RunUsesWhatExists, StoresTypeOK, Tasks, Plans
<1>2. UsesExist'
  BY DEF UsesExist, StoresTypeOK, Tasks
<1>3. RecordIsPart'
  BY DEF RecordIsPart
<1>4. PlanWaits' /\ SelectionsAreWhole'
  BY DEF PlanWaits, SelectionsAreWhole, Forgets, NoAnswer
<1> QED BY <1>1, <1>2, <1>3, <1>4

\* the choice is left alone and the libraries only gain
LEMMA ChoiceUntouched ==
    ASSUME StoresInv, UNCHANGED choice, torn \subseteq torn',
           \A m \in Profiles : HasProfile(m) => HasProfile(m)', \A p : HasPrompt(p) => HasPrompt(p)',
           \A w \in Presets : presetFile[w] # NoPreset => presetFile'[w] # NoPreset
    PROVE  ChoiceExists'
BY DEF StoresInv, StoresTypeOK, ChoiceSet, ChoiceExists

LEMMA ProfileSteps ==
    ASSUME StoresInv, NEW m \in Profiles, NEW given \in BOOLEAN,
           UpdateProfile(m) \/ CreateProfile(m, given) \/ SetApiKey(m, given)
    PROVE  StoresInv'
<1> USE DEF StoresInv
<1>1. /\ UNCHANGED <<promptFile, presetFile, choice, task>> /\ Forgets /\ torn \subseteq torn'
      /\ created' \in Nat /\ profileFile' \in [Profiles -> Nat] /\ keyFile' \in [Profiles -> Nat]
  BY DEF UpdateProfile, CreateProfile, SetApiKey, WritesTo, Whole, StoresTypeOK
<1>2. \A p \in Profiles : profileFile[p] # 0 => profileFile'[p] # 0
  BY DEF UpdateProfile, CreateProfile, SetApiKey, StoresTypeOK
<1>3. KeysAreOwn'
  <2>1. CASE UpdateProfile(m)
    BY <2>1 DEF UpdateProfile, Whole, KeysAreOwn
  <2>2. CASE CreateProfile(m, given)
    BY <2>2, <1>1 DEF CreateProfile, KeysAreOwn, StoresTypeOK
  <2>3. CASE SetApiKey(m, given)
    BY <2>3 DEF SetApiKey, Whole, KeysAreOwn, StoresTypeOK
  <2> QED BY <2>1, <2>2, <2>3
<1>4. StoresTypeOK'
  BY <1>1 DEF StoresTypeOK
<1>5. \A p \in Profiles : HasProfile(p) => HasProfile(p)'
  BY <1>2 DEF HasProfile
<1>6. \A p : HasPrompt(p) => HasPrompt(p)'
  BY <1>1 DEF HasPrompt
<1>7. ChoiceExists' /\ TaskIsSound' /\ SelectionsAreWhole'
  BY <1>1, <1>5, <1>6, ChoiceUntouched, TaskUntouched
<1> QED BY <1>3, <1>4, <1>7

\* a deletion stops the task, or marks that it did not come to that
LEMMA TaskStopped ==
    ASSUME StoresInv, NEW M, NEW P, task' = task \/ task' = StoppedFor(M, P), torn \subseteq torn', Forgets,
           "task" \notin torn' => task' = StoppedFor(M, P) /\ M \cap (task.uses \ task.named) = {},
           \A m \in Profiles \ M : HasProfile(m) => HasProfile(m)',
           \A p : p \notin P /\ HasPrompt(p) => HasPrompt(p)'
    PROVE  TaskIsSound' /\ SelectionsAreWhole'
<1> USE DEF StoresInv, TaskIsSound
<1>1. /\ task'.named = task.named /\ task'.uses = task.uses
      /\ task'.frozen = task.frozen /\ task'.fresh = task.fresh
      /\ task'.next # NoPlan => task'.at = "stopping"
  BY StoppedTask DEF PlanWaits
<1>2. RecordIsPart'
  BY <1>1 DEF RecordIsPart
<1>3. PlanWaits' /\ SelectionsAreWhole'
  BY <1>1 DEF PlanWaits, SelectionsAreWhole, Forgets, NoAnswer
<1>4. CASE "task" \in torn'
  BY <1>2, <1>3, <1>4 DEF RunUsesWhatExists, UsesExist
<1>5. CASE "task" \notin torn'
  <2>1. "task" \notin torn /\ task' = StoppedFor(M, P) /\ M \cap (task.uses \ task.named) = {}
    BY <1>5
  <2>2. /\ task'.prompt = task.prompt /\ task'.lang = task.lang
        /\ task'.at = "live" => task.at = "live" /\ task.named \cap M = {} /\ task.prompt \notin P
        /\ task'.next # NoPlan => /\ task'.next = task.next /\ task.next.models \cap M = {}
                                  /\ task.next.prompt \notin P
    BY <2>1, StoppedTask
  <2>3. /\ task.named \subseteq Profiles /\ task.uses \subseteq Profiles /\ task.next.models \subseteq Profiles
        /\ NoPlan.models = {}
    BY DEF StoresTypeOK, Tasks, Plans, NoPlan
  <2>4. UsesExist'
    BY <2>1, <2>2, <2>3, <1>1 DEF UsesExist
  <2>5. RunUsesWhatExists'
    <3>1. task'.at = "live" => \A m \in task'.named : HasProfile(m)'
      BY <2>1, <2>2, <2>3, <1>1 DEF RunUsesWhatExists
    <3>2. task'.at = "live" /\ task'.frozen = NoId => HasPrompt(task.prompt)'
      BY <2>1, <2>2, <1>1 DEF RunUsesWhatExists
    <3>3. \A m \in task'.next.models : HasProfile(m)'
      BY <2>1, <2>2, <2>3 DEF RunUsesWhatExists
    <3>4. task'.next # NoPlan => HasPrompt(task.next.prompt)' /\ task'.next.lang = task'.lang
      BY <2>1, <2>2 DEF RunUsesWhatExists
    <3> QED BY <3>1, <3>2, <3>3, <3>4 DEF RunUsesWhatExists
  <2> QED BY <2>4, <2>5, <1>2, <1>3
<1> QED BY <1>4, <1>5

LEMMA DeleteProfileStep ==
    ASSUME StoresInv, NEW m \in Profiles, DeleteProfile(m)
    PROVE  StoresInv'
<1> USE DEF StoresInv
<1>1. PICK upto \in 1..4 :
          /\ torn' = torn \cup {<<"keys", "choice", "task">>[k] : k \in upto..3}
                          \cup IF Overlooked(m) THEN {"task"} ELSE {}
          /\ profileFile' = [profileFile EXCEPT ![m] = 0]
          /\ keyFile' = IF upto >= 2 THEN [keyFile EXCEPT ![m] = 0] ELSE keyFile
          /\ choice' = IF upto >= 3 /\ choice.model = m THEN [choice EXCEPT !.model = NoId] ELSE choice
          /\ task' = IF upto = 4 THEN StoppedFor({m}, {}) ELSE task
  BY DEF DeleteProfile
<1>2. UNCHANGED <<promptFile, presetFile, created>> /\ Forgets
  BY DEF DeleteProfile
<1>3. /\ torn \subseteq torn'
      /\ upto < 2 => "keys" \in torn'
      /\ upto < 3 => "choice" \in torn'
      /\ upto < 4 \/ Overlooked(m) => "task" \in torn'
  <2>1. upto < 2 => "keys" \in torn'
    <3>1. SUFFICES ASSUME upto < 2 PROVE "keys" \in torn'
      OBVIOUS
    <3>2. 1 \in upto..3 /\ <<"keys", "choice", "task">>[1] = "keys"
      BY <3>1
    <3> QED BY <1>1, <3>2
  <2>2. upto < 3 => "choice" \in torn'
    <3>1. SUFFICES ASSUME upto < 3 PROVE "choice" \in torn'
      OBVIOUS
    <3>2. 2 \in upto..3 /\ <<"keys", "choice", "task">>[2] = "choice"
      BY <3>1
    <3> QED BY <1>1, <3>2
  <2>3. upto < 4 => "task" \in torn'
    <3>1. SUFFICES ASSUME upto < 4 PROVE "task" \in torn'
      OBVIOUS
    <3>2. 3 \in upto..3 /\ <<"keys", "choice", "task">>[3] = "task"
      BY <3>1
    <3> QED BY <1>1, <3>2
  <2>4. torn \subseteq torn' /\ (Overlooked(m) => "task" \in torn')
    BY <1>1
  <2> QED BY <2>1, <2>2, <2>3, <2>4
<1>4. /\ task' \in Tasks /\ choice' \in ChoiceSet
      /\ profileFile' \in [Profiles -> Nat] /\ keyFile' \in [Profiles -> Nat]
  BY <1>1, StoppedTask DEF StoresTypeOK, ChoiceSet, TaskIsSound
<1>5. StoresTypeOK'
  BY <1>2, <1>4 DEF StoresTypeOK
<1>6. KeysAreOwn'
  BY <1>1, <1>3 DEF KeysAreOwn, StoresTypeOK
<1>7. /\ \A p \in Profiles \ {m} : HasProfile(p) => HasProfile(p)'
      /\ \A p : HasPrompt(p) => HasPrompt(p)'
  BY <1>1, <1>2 DEF HasProfile, HasPrompt, StoresTypeOK
<1>8. ChoiceExists'
  <2>1. SUFFICES ASSUME "choice" \notin torn' PROVE ChoiceExists'
    BY DEF ChoiceExists
  <2>2. /\ choice'.model = NoId \/ (choice'.model = choice.model /\ choice.model # m)
        /\ choice'.prompt = choice.prompt /\ choice'.preset = choice.preset
    BY <2>1, <1>1, <1>3 DEF StoresTypeOK, ChoiceSet
  <2>3. "choice" \notin torn /\ choice.model \in Profiles \cup {NoId}
    BY <2>1, <1>3 DEF StoresTypeOK, ChoiceSet
  <2> QED BY <2>2, <2>3, <1>2, <1>7 DEF ChoiceExists
<1>9. TaskIsSound' /\ SelectionsAreWhole'
  <2>1. task' = task \/ task' = StoppedFor({m}, {})
    BY <1>1
  <2>2. "task" \notin torn' => task' = StoppedFor({m}, {}) /\ {m} \cap (task.uses \ task.named) = {}
    BY <1>1, <1>3 DEF Overlooked
  <2> QED BY <2>1, <2>2, <1>2, <1>3, <1>7, TaskStopped
<1> QED BY <1>5, <1>6, <1>8, <1>9

LEMMA DeletePromptStep ==
    ASSUME StoresInv, NEW p \in Prompts, DeletePrompt(p)
    PROVE  StoresInv'
<1> USE DEF StoresInv
<1>1. PICK upto \in 1..3 :
          /\ WritesTo(3, upto, {<<"choice", "task">>[k] : k \in upto..2})
          /\ promptFile' = [promptFile EXCEPT ![p] = "gone"]
          /\ choice' = IF upto >= 2 /\ choice.prompt = p THEN [choice EXCEPT !.prompt = NoId] ELSE choice
          /\ task' = IF upto = 3 THEN StoppedFor({}, {p}) ELSE task
  BY DEF DeletePrompt
<1>2. UNCHANGED <<profileFile, keyFile, presetFile, created>> /\ Forgets
  BY DEF DeletePrompt
<1>3. /\ torn \subseteq torn'
      /\ upto < 2 => "choice" \in torn'
      /\ upto < 3 => "task" \in torn'
  <2>1. torn' = IF upto = 3 THEN torn ELSE torn \cup {<<"choice", "task">>[k] : k \in upto..2}
    BY <1>1 DEF WritesTo
  <2>2. upto < 2 => "choice" \in torn'
    <3>1. SUFFICES ASSUME upto < 2 PROVE "choice" \in torn'
      OBVIOUS
    <3>2. 1 \in upto..2 /\ <<"choice", "task">>[1] = "choice"
      BY <3>1
    <3> QED BY <2>1, <3>1, <3>2
  <2>3. upto < 3 => "task" \in torn'
    <3>1. SUFFICES ASSUME upto < 3 PROVE "task" \in torn'
      OBVIOUS
    <3>2. 2 \in upto..2 /\ <<"choice", "task">>[2] = "task"
      BY <3>1
    <3> QED BY <2>1, <3>1, <3>2
  <2> QED BY <2>1, <2>2, <2>3
<1>4. /\ task' \in Tasks /\ choice' \in ChoiceSet
      /\ promptFile' \in [Prompts -> {"on", "off", "gone"}]
  BY <1>1, StoppedTask DEF StoresTypeOK, ChoiceSet, PromptIds, TaskIsSound
<1>5. StoresTypeOK'
  BY <1>2, <1>4 DEF StoresTypeOK
<1>6. KeysAreOwn'
  BY <1>2, <1>3 DEF KeysAreOwn, DeletePrompt, WritesTo, Breaks
<1>7. /\ \A m : HasProfile(m) => HasProfile(m)'
      /\ \A q : q # p /\ HasPrompt(q) => HasPrompt(q)'
  BY <1>1, <1>2 DEF HasProfile, HasPrompt, StoresTypeOK
<1>8. ChoiceExists'
  <2>1. SUFFICES ASSUME "choice" \notin torn' PROVE ChoiceExists'
    BY DEF ChoiceExists
  <2>2. /\ choice'.prompt = NoId \/ (choice'.prompt = choice.prompt /\ choice.prompt # p)
        /\ choice'.model = choice.model /\ choice'.preset = choice.preset
    BY <2>1, <1>1, <1>3 DEF StoresTypeOK, ChoiceSet
  <2>3. "choice" \notin torn
    BY <2>1, <1>3
  <2> QED BY <2>2, <2>3, <1>2, <1>7 DEF ChoiceExists
<1>9. TaskIsSound' /\ SelectionsAreWhole'
  <2>1. task' = task \/ task' = StoppedFor({}, {p})
    BY <1>1
  <2>2. "task" \notin torn' => task' = StoppedFor({}, {p}) /\ {} \cap (task.uses \ task.named) = {}
    BY <1>1, <1>3
  <2> QED BY <2>1, <2>2, <1>2, <1>3, <1>7, TaskStopped
<1> QED BY <1>5, <1>6, <1>8, <1>9

LEMMA PromptSteps ==
    ASSUME StoresInv, NEW p \in Prompts, CreatePrompt(p) \/ UpdatePrompt(p)
    PROVE  StoresInv'
<1> USE DEF StoresInv
<1>1. /\ UNCHANGED <<profileFile, keyFile, presetFile, choice, task, torn>> /\ Forgets
      /\ created' \in Nat /\ promptFile' \in [Prompts -> {"on", "off", "gone"}]
  BY DEF CreatePrompt, UpdatePrompt, Whole, StoresTypeOK
<1>2. /\ \A m \in Profiles : HasProfile(m) => HasProfile(m)'
      /\ \A q : HasPrompt(q) => HasPrompt(q)'
  BY <1>1 DEF CreatePrompt, UpdatePrompt, HasProfile, HasPrompt, StoresTypeOK
<1>3. StoresTypeOK' /\ KeysAreOwn'
  BY <1>1 DEF StoresTypeOK, KeysAreOwn
<1> QED BY <1>1, <1>2, <1>3, ChoiceUntouched, TaskUntouched

-----------------------------------------------------------------------------
(* The choice *)

LEMMA SameLibraries ==
    ASSUME UNCHANGED Libraries
    PROVE  /\ UNCHANGED <<profileFile, keyFile, promptFile, presetFile>>
           /\ \A m : HasProfile(m)' <=> HasProfile(m)
           /\ \A p : HasPrompt(p)' <=> HasPrompt(p)
BY DEF Libraries, HasProfile, HasPrompt

\* the task takes the new choice c over
LEMMA TaskSwitched ==
    ASSUME StoresInv, UNCHANGED <<profileFile, keyFile, smallOnes, promptFile>>, NEW c \in ChoiceSet, ~Refused(c),
           choice' = c, task' = Switched(c), torn \subseteq torn',
           \/ Forgets
           \/ answer' = [NoAnswer EXCEPT !.said = "accepted"] /\ UNCHANGED Libraries
    PROVE  task' \in Tasks /\ TaskIsSound' /\ SelectionsAreWhole'
<1> USE DEF StoresInv, TaskIsSound
<1>1. /\ task' \in Tasks /\ task'.at # "live"
      /\ task'.named = task.named /\ task'.uses = task.uses
      /\ task'.frozen = task.frozen /\ task'.fresh = task.fresh
      /\ task'.next # NoPlan => task'.at = "stopping" /\ task'.next = PlanFor(c) /\ task'.next.lang = task'.lang
  BY SwitchedTask
<1>2. RecordIsPart' /\ UsesExist'
  BY <1>1 DEF RecordIsPart, UsesExist
<1>3. /\ \A m : HasProfile(m)' <=> HasProfile(m)
      /\ \A p : HasPrompt(p)' <=> HasPrompt(p)
  BY DEF HasProfile, HasPrompt
<1>4. RunUsesWhatExists'
  <2>1. \A m \in task'.next.models : HasProfile(m)'
    BY <1>1, <1>3, PlanIsUsable DEF NoPlan
  <2>2. task'.next # NoPlan => HasPrompt(task.next.prompt)' /\ task'.next.lang = task'.lang
    BY <1>1, <1>3, PlanIsUsable
  <2> QED BY <2>1, <2>2, <1>1 DEF RunUsesWhatExists
<1>5. PlanWaits' /\ SelectionsAreWhole'
  <2>1. CASE Forgets
    BY <2>1, <1>1 DEF PlanWaits, SelectionsAreWhole, Forgets, NoAnswer
  <2>2. CASE answer' = [NoAnswer EXCEPT !.said = "accepted"] /\ UNCHANGED Libraries
    <3>1. PlanFor(choice)' = PlanFor(choice')
      BY <2>2 DEF Libraries, PlanFor, ActivePrompt, Usable, HasProfile, RoutesOf, Fits
    <3>2. PlanFor(choice') = PlanFor(c)
      OBVIOUS
    <3>3. answer'.said = "accepted"
      BY <2>2 DEF NoAnswer
    <3> QED BY <3>1, <3>2, <3>3, <1>1 DEF PlanWaits, SelectionsAreWhole
  <2> QED BY <2>1, <2>2
<1> QED BY <1>1, <1>2, <1>4, <1>5

LEMMA SelectsStep ==
    ASSUME StoresInv, NEW c \in ChoiceSet, Selects(c),
           "choice" \notin torn =>
               /\ c.model = NoId \/ HasProfile(c.model)
               /\ c.prompt = NoId \/ HasPrompt(c.prompt)
               /\ c.preset = NoId \/ presetFile[c.preset] # NoPreset
    PROVE  StoresInv'
<1> USE DEF StoresInv
<1>1. UNCHANGED <<Libraries, created>> /\ torn \subseteq torn' /\ ("keys" \in torn' => "keys" \in torn)
  BY DEF Selects, WritesTo, Whole
<1>2. KeysAreOwn'
  BY <1>1 DEF KeysAreOwn, Libraries
<1>3. CASE Refused(c)
  <2>1. PICK upto \in 1..3 :
            /\ WritesTo(3, upto, {"choice"})
            /\ choice' = IF upto = 1 THEN c ELSE IF upto = 2 THEN [choice EXCEPT !.lang = c.lang] ELSE choice
            /\ answer' = IF upto = 3 THEN [said |-> "refused", before |-> choice] ELSE NoAnswer
            /\ UNCHANGED task
    BY <1>3 DEF Selects
  <2>2. StoresTypeOK'
    BY <1>1, <2>1 DEF StoresTypeOK, Libraries, ChoiceSet
  <2>3. ChoiceExists'
    <3>1. CASE upto = 3
      BY <3>1, <2>1, <1>1, SameLibraries DEF ChoiceExists
    <3>2. CASE upto # 3
      BY <3>2, <2>1 DEF WritesTo, ChoiceExists
    <3> QED BY <3>1, <3>2
  <2>4. RunUsesWhatExists' /\ UsesExist' /\ RecordIsPart'
    BY <1>1, <2>1, SameLibraries DEF TaskIsSound, RunUsesWhatExists, UsesExist, RecordIsPart
  <2>5. PlanWaits' /\ SelectionsAreWhole'
    BY <2>1 DEF TaskIsSound, PlanWaits, SelectionsAreWhole, NoAnswer
  <2> QED BY <1>2, <2>2, <2>3, <2>4, <2>5 DEF TaskIsSound
<1>4. CASE ~Refused(c)
  <2>1. choice' = c /\ task' = Switched(c) /\ torn' = torn /\ answer' = [NoAnswer EXCEPT !.said = "accepted"]
    BY <1>4 DEF Selects, Whole
  <2>2. UNCHANGED <<profileFile, keyFile, smallOnes, promptFile>>
    BY <1>1 DEF Libraries
  <2>3. task' \in Tasks /\ TaskIsSound' /\ SelectionsAreWhole'
    BY <1>1, <1>4, <2>1, <2>2, TaskSwitched
  <2>4. StoresTypeOK'
    BY <1>1, <2>1, <2>3 DEF StoresTypeOK, Libraries
  <2>5. ChoiceExists'
    BY <1>1, <2>1, SameLibraries DEF ChoiceExists
  <2> QED BY <1>2, <2>3, <2>4, <2>5
<1> QED BY <1>3, <1>4

LEMMA ChoiceSteps ==
    ASSUME StoresInv,
           \/ \E m \in Profiles \cup {NoId} : SelectModel(m)
           \/ \E p \in Prompts \cup {DefaultPrompt, NoId} : SelectPrompt(p)
           \/ \E lang \in Langs : SaveLanguage(lang)
           \/ ResetApp
    PROVE  StoresInv'
<1>1. ASSUME NEW m \in Profiles \cup {NoId}, SelectModel(m)
      PROVE  StoresInv'
  <2> DEFINE c == [choice EXCEPT !.model = m, !.preset = NoId]
  <2>1. c \in ChoiceSet /\ c.model = m /\ c.prompt = choice.prompt /\ c.preset = NoId
    BY DEF StoresInv, StoresTypeOK, ChoiceSet
  <2>2. Selects(c) /\ (m = NoId \/ HasProfile(m))
    BY <1>1 DEF SelectModel
  <2> HIDE DEF c
  <2> QED BY <2>1, <2>2, SelectsStep DEF StoresInv, ChoiceExists
<1>2. ASSUME NEW p \in Prompts \cup {DefaultPrompt, NoId}, SelectPrompt(p)
      PROVE  StoresInv'
  <2> DEFINE c == [choice EXCEPT !.prompt = p, !.preset = NoId]
  <2>1. c \in ChoiceSet /\ c.model = choice.model /\ c.prompt = p /\ c.preset = NoId
    BY DEF StoresInv, StoresTypeOK, ChoiceSet, PromptIds
  <2>2. Selects(c) /\ (p = NoId \/ HasPrompt(p))
    BY <1>2 DEF SelectPrompt
  <2> HIDE DEF c
  <2> QED BY <2>1, <2>2, SelectsStep DEF StoresInv, ChoiceExists
<1>3. ASSUME (\E lang \in Langs : SaveLanguage(lang)) \/ ResetApp
      PROVE  StoresInv'
  <2>1. UNCHANGED <<Libraries, task, created, torn>> /\ Forgets
    BY <1>3 DEF SaveLanguage, ResetApp, Whole
  <2>2. /\ choice' \in ChoiceSet
        /\ choice'.model \in {choice.model, NoId} /\ choice'.prompt \in {choice.prompt, NoId}
        /\ choice'.preset \in {choice.preset, NoId}
    BY <1>3 DEF SaveLanguage, ResetApp, StoresInv, StoresTypeOK, ChoiceSet, PromptIds
  <2>3. StoresTypeOK' /\ KeysAreOwn'
    BY <2>1, <2>2 DEF StoresInv, StoresTypeOK, KeysAreOwn, Libraries
  <2>4. ChoiceExists'
    BY <2>1, <2>2, SameLibraries DEF StoresInv, ChoiceExists
  <2>5. TaskIsSound' /\ SelectionsAreWhole'
    BY <2>1, SameLibraries, TaskUntouched
  <2> QED BY <2>3, <2>4, <2>5 DEF StoresInv
<1> QED BY <1>1, <1>2, <1>3

-----------------------------------------------------------------------------
(* Presets *)

LEMMA PresetSteps ==
    ASSUME StoresInv, NEW w \in Presets,
           ApplyPreset(w) \/ DeletePreset(w) \/ \E body \in Bodies : SavePreset(w, body)
    PROVE  StoresInv'
<1>1. CASE ApplyPreset(w)
  <2> DEFINE body == presetFile[w]
             c == [model |-> body.model, prompt |-> body.prompt, lang |-> body.lang,
                   preset |-> IF body.advanced THEN w ELSE NoId]
  <2>1. body # NoPreset /\ Valid(body) /\ Selects(c)
    BY <1>1 DEF ApplyPreset
  <2>2. body \in Bodies
    BY <2>1 DEF StoresInv, StoresTypeOK
  <2>3. c \in ChoiceSet
    BY <2>2, StoresAssumption DEF ChoiceSet, PromptIds
  <2>4. HasProfile(body.model) /\ HasPrompt(body.prompt)
    BY <2>1, <2>2, StoresAssumption DEF Valid, RoutesOf
  <2>5. c.model = body.model /\ c.prompt = body.prompt /\ (c.preset = NoId \/ c.preset = w)
    OBVIOUS
  <2>6. c.preset = NoId \/ presetFile[c.preset] # NoPreset
    BY <2>1, <2>5
  <2> HIDE DEF c
  <2> QED BY <2>1, <2>3, <2>4, <2>5, <2>6, SelectsStep
<1>2. ASSUME NEW body \in Bodies, SavePreset(w, body)
      PROVE  StoresInv'
  <2>1. /\ UNCHANGED <<profileFile, keyFile, promptFile, choice, task, created, torn>> /\ Forgets
        /\ presetFile' = [presetFile EXCEPT ![w] = body]
    BY <1>2 DEF SavePreset, Whole
  <2>2. body # NoPreset
    BY StoresAssumption DEF NoPreset
  <2>3. StoresTypeOK' /\ KeysAreOwn'
    BY <2>1 DEF StoresInv, StoresTypeOK, KeysAreOwn
  <2>4. /\ \A m : HasProfile(m) => HasProfile(m)'
        /\ \A p : HasPrompt(p) => HasPrompt(p)'
        /\ \A v \in Presets : presetFile[v] # NoPreset => presetFile'[v] # NoPreset
    BY <2>1, <2>2 DEF HasProfile, HasPrompt, StoresInv, StoresTypeOK
  <2> QED BY <2>1, <2>3, <2>4, ChoiceUntouched, TaskUntouched DEF StoresInv
<1>3. CASE DeletePreset(w)
  <2>1. /\ UNCHANGED <<profileFile, keyFile, smallOnes, promptFile, created>> /\ Forgets
        /\ presetFile' = [presetFile EXCEPT ![w] = NoPreset]
    BY <1>3 DEF DeletePreset
  <2>2. /\ \A m : HasProfile(m)' <=> HasProfile(m)
        /\ \A p : HasPrompt(p)' <=> HasPrompt(p)
    BY <2>1 DEF HasProfile, HasPrompt
  <2>3. torn \subseteq torn' /\ ("keys" \in torn' => "keys" \in torn)
    BY <1>3 DEF DeletePreset, WritesTo, Whole
  <2>4. KeysAreOwn' /\ presetFile' \in [Presets -> Bodies \cup {NoPreset}]
    BY <2>1, <2>3 DEF StoresInv, StoresTypeOK, KeysAreOwn
  <2>5. CASE choice.preset # w \/ task' = task
    <3>1. UNCHANGED task
      BY <1>3, <2>5 DEF DeletePreset
    <3>2. TaskIsSound' /\ SelectionsAreWhole'
      BY <2>1, <2>2, <2>3, <3>1, TaskUntouched
    <3>3. choice' \in ChoiceSet /\ ("choice" \notin torn' => choice'.preset # w \/ w = NoId)
      BY <1>3 DEF DeletePreset, WritesTo, StoresInv, StoresTypeOK, ChoiceSet
    <3>4. /\ choice'.model = choice.model /\ choice'.prompt = choice.prompt
          /\ choice'.preset = choice.preset \/ choice'.preset = NoId
      BY <1>3 DEF DeletePreset, StoresInv, StoresTypeOK, ChoiceSet
    <3>5. ChoiceExists'
      BY <2>1, <2>2, <2>3, <3>3, <3>4 DEF StoresInv, StoresTypeOK, ChoiceExists, ChoiceSet
    <3>6. StoresTypeOK'
      BY <2>1, <2>4, <3>1, <3>3 DEF StoresInv, StoresTypeOK
    <3> QED BY <2>4, <3>2, <3>5, <3>6 DEF StoresInv
  <2>6. CASE choice.preset = w /\ task' # task
    <3> DEFINE new == [choice EXCEPT !.preset = NoId]
    <3>1. /\ choice' = new /\ torn' = torn
          /\ task' = IF Refused(new) THEN [task EXCEPT !.at = "stopping", !.next = NoPlan] ELSE Switched(new)
      BY <1>3, <2>6 DEF DeletePreset, WritesTo
    <3>2. new \in ChoiceSet /\ new.model = choice.model /\ new.prompt = choice.prompt /\ new.preset = NoId
      BY DEF StoresInv, StoresTypeOK, ChoiceSet
    <3> HIDE DEF new
    <3>3. ChoiceExists'
      BY <2>2, <3>1, <3>2 DEF StoresInv, ChoiceExists
    <3>4. CASE ~Refused(new)
      <4>1. task' \in Tasks /\ TaskIsSound' /\ SelectionsAreWhole'
        BY <2>1, <3>1, <3>2, <3>4, TaskSwitched
      <4> QED BY <2>1, <2>4, <3>1, <3>2, <3>3, <4>1 DEF StoresInv, StoresTypeOK
    <3>5. CASE Refused(new)
      <4>1. task' = [task EXCEPT !.at = "stopping", !.next = NoPlan] /\ task \in Tasks
        BY <3>1, <3>5 DEF StoresInv, StoresTypeOK
      <4>2. /\ task' \in Tasks /\ task'.at = "stopping" /\ task'.next = NoPlan
            /\ task'.named = task.named /\ task'.uses = task.uses
            /\ task'.frozen = task.frozen /\ task'.fresh = task.fresh
        BY <4>1, NoPlanType DEF Tasks
      <4>3. TaskIsSound' /\ SelectionsAreWhole'
        BY <2>1, <4>2 DEF StoresInv, TaskIsSound, RunUsesWhatExists, UsesExist, RecordIsPart, PlanWaits,
                          SelectionsAreWhole, Forgets, NoAnswer, NoPlan
      <4> QED BY <2>1, <2>4, <3>1, <3>2, <3>3, <4>2, <4>3 DEF StoresInv, StoresTypeOK
    <3> QED BY <3>4, <3>5
  <2> QED BY <2>5, <2>6
<1> QED BY <1>1, <1>2, <1>3

-----------------------------------------------------------------------------
(* The task *)

\* the task itself moves: what is left to show of it
LEMMA TaskMoves ==
    ASSUME StoresInv, Undisturbed, task' \in Tasks, TaskIsSound', SelectionsAreWhole'
    PROVE  StoresInv'
<1>1. UNCHANGED <<Libraries, choice, torn, created>>
  BY DEF Undisturbed
<1>2. StoresTypeOK' /\ KeysAreOwn'
  BY <1>1 DEF StoresInv, StoresTypeOK, KeysAreOwn, Libraries
<1>3. ChoiceExists'
  BY <1>1, SameLibraries DEF StoresInv, ChoiceExists
<1> QED BY <1>2, <1>3 DEF StoresInv

\* it begins or goes on with the plan for what is chosen
LEMMA TaskPlanned ==
    ASSUME StoresInv, Undisturbed, Forgets, NEW plan \in Plans, NEW names \in SUBSET plan.models,
           plan.preset \in Presets \cup {NoId},
           \A m \in plan.models : HasProfile(m), HasPrompt(plan.prompt),
           task' \in Tasks, task'.at = "live", task'.next = NoPlan, task'.named = names,
           task'.uses = plan.models, task'.prompt = plan.prompt, task'.fresh => task'.frozen = NoId
    PROVE  TaskIsSound' /\ SelectionsAreWhole'
<1>1. UNCHANGED Libraries
  BY DEF Undisturbed
<1>2. RunUsesWhatExists'
  BY <1>1, SameLibraries DEF RunUsesWhatExists, NoPlan
<1>3. UsesExist' /\ RecordIsPart'
  BY <1>1, SameLibraries DEF UsesExist, RecordIsPart
<1>4. PlanWaits' /\ SelectionsAreWhole'
  BY DEF PlanWaits, SelectionsAreWhole, Forgets, NoAnswer
<1> QED BY <1>2, <1>3, <1>4 DEF TaskIsSound

LEMMA TaskStarts ==
    ASSUME StoresInv, StartRun
    PROVE  StoresInv'
<1> DEFINE plan == PlanFor(choice)
<1>1. /\ plan \in Plans /\ plan # NoPlan /\ plan.first \in plan.models
      /\ \A m \in plan.models : HasProfile(m)
      /\ HasPrompt(plan.prompt)
  BY PlanIsUsable DEF StartRun, StoresInv, StoresTypeOK
<1>2. /\ task \in Tasks /\ Undisturbed /\ Forgets
      /\ task' = [Runs(plan, {plan.first}) EXCEPT !.lang = plan.lang, !.frozen = NoId, !.fresh = TRUE]
  BY DEF StartRun, StoresInv, StoresTypeOK
<1> HIDE DEF plan
<1>3. plan.models \subseteq Profiles /\ plan.prompt \in PromptIds /\ plan.preset \in Presets \cup {NoId}
      /\ plan.lang \in Langs \cup {NoId}
  BY <1>1 DEF Plans
<1>4. /\ task' \in Tasks /\ task'.at = "live" /\ task'.next = NoPlan /\ task'.named = {plan.first}
      /\ task'.uses = plan.models /\ task'.prompt = plan.prompt /\ task'.frozen = NoId
  BY <1>1, <1>2, <1>3, NoPlanType DEF Runs, Tasks
<1>5. TaskIsSound' /\ SelectionsAreWhole'
  BY <1>1, <1>2, <1>3, <1>4, TaskPlanned
<1> QED BY <1>2, <1>4, <1>5, TaskMoves

LEMMA ContinueStep ==
    ASSUME StoresInv, ContinueRun
    PROVE  StoresInv'
<1> USE DEF StoresInv
<1>1. Undisturbed /\ Forgets /\ task \in Tasks /\ task.at = "stopped"
  BY DEF ContinueRun, StoresTypeOK
<1>2. CASE task.frozen # NoId /\ task.frozen = choice.preset
  <2>1. (\A m \in task.uses : Usable(m)) /\ task' = [task EXCEPT !.at = "live"]
    BY <1>2 DEF ContinueRun
  <2>2. /\ task' \in Tasks /\ task'.at = "live" /\ task'.next = task.next /\ task'.named = task.named
        /\ task'.uses = task.uses /\ task'.frozen = task.frozen /\ task'.fresh = task.fresh
    BY <1>1, <2>1 DEF Tasks
  <2>3. task.next = NoPlan
    BY <1>1 DEF TaskIsSound, PlanWaits
  <2>4. \A m \in task.uses : HasProfile(m)'
    BY <1>1, <2>1, SameLibraries DEF Undisturbed, Usable
  <2>5. RecordIsPart' /\ UsesExist' /\ PlanWaits' /\ SelectionsAreWhole'
    BY <1>1, <2>2, <2>3, <2>4 DEF TaskIsSound, RecordIsPart, UsesExist, PlanWaits, SelectionsAreWhole, Forgets,
       NoAnswer
  <2>6. RunUsesWhatExists'
    BY <1>2, <2>2, <2>3, <2>4 DEF TaskIsSound, RecordIsPart, RunUsesWhatExists, NoPlan
  <2> QED BY <1>1, <2>2, <2>5, <2>6, TaskMoves DEF TaskIsSound
<1>3. CASE ~(task.frozen # NoId /\ task.frozen = choice.preset)
  <2> DEFINE plan == IF task.frozen = NoId THEN PlanFor(choice) ELSE PlanForRun(choice)
  <2>1. /\ plan # NoPlan
        /\ task' = IF task.frozen = NoId THEN Runs(plan, {plan.first})
                   ELSE [Runs(plan, plan.models) EXCEPT !.frozen = plan.preset]
    BY <1>3 DEF ContinueRun
  <2>2. plan = PlanFor(choice)
    BY <2>1 DEF PlanForRun
  <2>3. /\ plan \in Plans /\ plan.first \in plan.models
        /\ \A m \in plan.models : HasProfile(m)
        /\ HasPrompt(plan.prompt)
    BY <2>1, <2>2, PlanIsUsable DEF StoresTypeOK
  <2> HIDE DEF plan
  <2>4. /\ plan.models \subseteq Profiles /\ plan.prompt \in PromptIds /\ plan.preset \in Presets \cup {NoId}
    BY <2>3 DEF Plans
  <2>5. CASE task.frozen = NoId
    <3>1. /\ task' \in Tasks /\ task'.at = "live" /\ task'.next = NoPlan /\ task'.named = {plan.first}
          /\ task'.uses = plan.models /\ task'.prompt = plan.prompt /\ task'.frozen = NoId
      BY <1>1, <2>1, <2>3, <2>4, <2>5, NoPlanType DEF Runs, Tasks
    <3>2. TaskIsSound' /\ SelectionsAreWhole'
      BY <1>1, <2>3, <2>4, <3>1, TaskPlanned
    <3> QED BY <1>1, <3>1, <3>2, TaskMoves
  <2>6. CASE task.frozen # NoId
    <3>1. /\ task' \in Tasks /\ task'.at = "live" /\ task'.next = NoPlan /\ task'.named = plan.models
          /\ task'.uses = plan.models /\ task'.prompt = plan.prompt /\ task'.fresh = task.fresh
      BY <1>1, <2>1, <2>4, <2>6, NoPlanType DEF Runs, Tasks
    <3>2. ~task.fresh
      BY <2>6 DEF TaskIsSound, RecordIsPart
    <3>3. TaskIsSound' /\ SelectionsAreWhole'
      BY <1>1, <2>3, <2>4, <3>1, <3>2, TaskPlanned
    <3> QED BY <1>1, <3>1, <3>3, TaskMoves
  <2> QED BY <2>5, <2>6
<1> QED BY <1>2, <1>3

LEMMA TaskResumes ==
    ASSUME StoresInv, ResumesSwitched
    PROVE  StoresInv'
<1> USE DEF StoresInv
<1>1. /\ Undisturbed /\ task \in Tasks /\ task.next # NoPlan /\ ~task.fresh /\ answer' = answer
      /\ task' = [Runs(task.next, task.next.models) EXCEPT !.frozen = task.next.preset]
  BY DEF ResumesSwitched, StoresTypeOK
<1>2. UNCHANGED Libraries /\ choice' = choice /\ torn' = torn
  BY <1>1 DEF Undisturbed
<1>3. /\ task.next \in Plans /\ task.next.models \subseteq Profiles /\ task.next.prompt \in PromptIds
      /\ task.next.preset \in Presets \cup {NoId}
  BY <1>1 DEF Tasks, Plans
<1>4. /\ task' \in Tasks /\ task'.at = "live" /\ task'.next = NoPlan /\ task'.named = task.next.models
      /\ task'.uses = task.next.models /\ task'.prompt = task.next.prompt /\ task'.fresh = task.fresh
  BY <1>1, <1>3, NoPlanType DEF Runs, Tasks
<1>5. RunUsesWhatExists'
  <2>1. "task" \notin torn => HasPrompt(task.prompt)' /\ \A m \in task'.named : HasProfile(m)'
    BY <1>1, <1>2, <1>4, SameLibraries DEF TaskIsSound, RunUsesWhatExists
  <2> QED BY <1>2, <1>4, <2>1 DEF RunUsesWhatExists, NoPlan
<1>6. UsesExist' /\ RecordIsPart' /\ PlanWaits'
  BY <1>1, <1>2, <1>4, SameLibraries DEF TaskIsSound, RunUsesWhatExists, UsesExist, RecordIsPart, PlanWaits
<1>7. SelectionsAreWhole'
  <2>1. PlanFor(choice)' = PlanFor(choice')
    BY <1>2 DEF Libraries, PlanFor, ActivePrompt, Usable, HasProfile, RoutesOf, Fits
  <2>2. answer.said = "accepted" => task.next = PlanFor(choice)
    BY <1>1 DEF TaskIsSound, PlanWaits
  <2> QED BY <1>1, <1>2, <1>4, <2>1, <2>2 DEF SelectionsAreWhole
<1> QED BY <1>1, <1>4, <1>5, <1>6, <1>7, TaskMoves DEF TaskIsSound

LEMMA SeedStep ==
    ASSUME StoresInv, SeedsRecord
    PROVE  StoresInv'
<1> USE DEF StoresInv
<1>1. /\ Undisturbed /\ task \in Tasks /\ task.fresh /\ answer' = answer
      /\ task' = [task EXCEPT !.named = task.uses, !.frozen = task.route, !.fresh = FALSE]
  BY DEF SeedsRecord, StoresTypeOK
<1>2. UNCHANGED Libraries /\ choice' = choice /\ torn' = torn
  BY <1>1 DEF Undisturbed
<1>3. task' \in Tasks
  BY <1>1 DEF Tasks
<1>4. /\ task'.at = task.at /\ task'.next = task.next /\ task'.named = task.uses /\ task'.uses = task.uses
      /\ task'.prompt = task.prompt /\ task'.lang = task.lang
  BY <1>1 DEF Tasks
<1>5. task'.fresh = FALSE
  BY <1>1 DEF Tasks
<1>6. RunUsesWhatExists'
  <2>1. task.frozen = NoId
    BY <1>1 DEF TaskIsSound, RecordIsPart
  <2>2. "task" \notin torn /\ task.at = "live" => HasPrompt(task.prompt)' /\ \A m \in task'.named : HasProfile(m)'
    BY <1>2, <1>4, <2>1, SameLibraries DEF TaskIsSound, RunUsesWhatExists, UsesExist
  <2>3. "task" \notin torn =>
            /\ \A m \in task'.next.models : HasProfile(m)'
            /\ task'.next # NoPlan => HasPrompt(task.next.prompt)' /\ task'.next.lang = task'.lang
    BY <1>2, <1>4, SameLibraries DEF TaskIsSound, RunUsesWhatExists
  <2> QED BY <1>2, <1>4, <2>2, <2>3 DEF RunUsesWhatExists
<1>7. UsesExist' /\ RecordIsPart'
  BY <1>2, <1>4, <1>5, SameLibraries DEF TaskIsSound, UsesExist, RecordIsPart
<1>8. PlanWaits' /\ SelectionsAreWhole'
  <2>1. PlanFor(choice)' = PlanFor(choice)
    BY <1>2 DEF Libraries, PlanFor, ActivePrompt, Usable, HasProfile, RoutesOf, Fits
  <2> QED BY <1>1, <1>2, <1>4, <2>1 DEF TaskIsSound, PlanWaits, SelectionsAreWhole
<1> QED BY <1>1, <1>3, <1>6, <1>7, <1>8, TaskMoves DEF TaskIsSound

LEMMA EndSteps ==
    ASSUME StoresInv, StopRun \/ RunEnds \/ Restarts
    PROVE  StoresInv'
<1> USE DEF StoresInv
<1>1. Undisturbed /\ Forgets /\ task \in Tasks
  BY DEF StopRun, RunEnds, Restarts, StoresTypeOK
<1>2. CASE task' = NoRun
  <2>1. task' \in Tasks
    BY <1>2, NoPlanType DEF NoRun, Tasks, PromptIds
  <2>2. TaskIsSound' /\ SelectionsAreWhole'
    BY <1>1, <1>2 DEF TaskIsSound, RunUsesWhatExists, UsesExist, RecordIsPart, PlanWaits, SelectionsAreWhole,
                      Forgets, NoAnswer, NoRun, NoPlan
  <2> QED BY <1>1, <2>1, <2>2, TaskMoves
<1>3. ASSUME NEW place \in {"stopping", "stopped"}, task' = [task EXCEPT !.at = place, !.next = NoPlan]
      PROVE  StoresInv'
  <2>1. /\ task' \in Tasks /\ task'.at = place /\ task'.next = NoPlan
        /\ task'.named = task.named /\ task'.uses = task.uses
        /\ task'.frozen = task.frozen /\ task'.fresh = task.fresh
    BY <1>1, <1>3, NoPlanType DEF Tasks
  <2>2. TaskIsSound' /\ SelectionsAreWhole'
    BY <1>1, <2>1 DEF TaskIsSound, RunUsesWhatExists, UsesExist, RecordIsPart, PlanWaits, SelectionsAreWhole,
                      Forgets, NoAnswer, NoPlan
  <2> QED BY <1>1, <2>1, <2>2, TaskMoves
<1>4. task' = NoRun \/ \E place \in {"stopping", "stopped"} : task' = [task EXCEPT !.at = place, !.next = NoPlan]
  BY DEF StopRun, RunEnds, Restarts
<1> QED BY <1>2, <1>3, <1>4

-----------------------------------------------------------------------------
(* The theorems *)

LEMMA InitSound ==
    ASSUME StoresInit
    PROVE  StoresInv
<1>1. task \in Tasks
  BY NoPlanType DEF StoresInit, NoRun, Tasks, PromptIds
<1>2. StoresTypeOK
  BY <1>1 DEF StoresInit, StoresTypeOK, ChoiceSet, PromptIds, Langs
<1>3. KeysAreOwn /\ ChoiceExists
  BY DEF StoresInit, KeysAreOwn, ChoiceExists
<1>4. TaskIsSound /\ SelectionsAreWhole
  BY DEF StoresInit, TaskIsSound, RunUsesWhatExists, UsesExist, RecordIsPart, PlanWaits, SelectionsAreWhole,
         NoRun, NoPlan, NoAnswer
<1> QED BY <1>2, <1>3, <1>4 DEF StoresInv

LEMMA StepSound ==
    ASSUME StoresInv, [StoresNext]_storeVars
    PROVE  StoresInv'
<1>1. CASE UNCHANGED storeVars
  <2>1. UNCHANGED <<Libraries, choice, task, torn, created, answer>>
    BY <1>1 DEF storeVars, Libraries
  <2>2. PlanFor(choice)' = PlanFor(choice)
    BY <2>1 DEF Libraries, PlanFor, ActivePrompt, Usable, HasProfile, RoutesOf, Fits
  <2>3. StoresTypeOK' /\ KeysAreOwn'
    BY <2>1 DEF StoresInv, StoresTypeOK, KeysAreOwn, Libraries
  <2>4. ChoiceExists' /\ RunUsesWhatExists' /\ UsesExist' /\ RecordIsPart'
    BY <2>1, SameLibraries DEF StoresInv, TaskIsSound, ChoiceExists, RunUsesWhatExists, UsesExist, RecordIsPart
  <2>5. PlanWaits' /\ SelectionsAreWhole'
    BY <2>1, <2>2 DEF StoresInv, TaskIsSound, PlanWaits, SelectionsAreWhole
  <2> QED BY <2>3, <2>4, <2>5 DEF StoresInv, TaskIsSound
<1>2. ASSUME NEW m \in Profiles, UpdateProfile(m) \/ DeleteProfile(m)
                                 \/ \E given \in BOOLEAN : CreateProfile(m, given) \/ SetApiKey(m, given)
      PROVE  StoresInv'
  BY <1>2, ProfileSteps, DeleteProfileStep
<1>3. ASSUME NEW p \in Prompts, CreatePrompt(p) \/ UpdatePrompt(p) \/ DeletePrompt(p)
      PROVE  StoresInv'
  BY <1>3, PromptSteps, DeletePromptStep
<1>4. ASSUME NEW w \in Presets, ApplyPreset(w) \/ DeletePreset(w) \/ \E body \in Bodies : SavePreset(w, body)
      PROVE  StoresInv'
  BY <1>4, PresetSteps
<1>5. CASE StoresNext
  BY <1>2, <1>3, <1>4, <1>5, ChoiceSteps, TaskStarts, SeedStep, EndSteps, TaskResumes, ContinueStep DEF StoresNext
<1> QED BY <1>1, <1>5

\* The libraries of the user stay sound through every sequence of calls, faults and restarts: a
\* profile never gets the keys of a deleted one, what is chosen exists, a task goes on only with
\* what exists, and a refused selection leaves the settings as they were.
THEOREM LibrariesStaySound == StoresSpec => []StoresAreSound
<1>1. StoresInit => StoresInv
  BY InitSound
<1>2. StoresInv /\ [StoresNext]_storeVars => StoresInv'
  BY StepSound
<1>3. StoresInv => StoresAreSound
  BY DEF StoresInv, TaskIsSound, StoresAreSound
<1> QED BY <1>1, <1>2, <1>3, PTL DEF StoresSpec

(* ---------------------- Tasks of the single-pass tools ---------------------- *)

RowStatuses  == {"none", "PENDING", "RUNNING", "COMPLETED", "FAILED"}
ToolStatuses == Transient \cup Final \cup {"none"}
Places       == {"unborn", "begin", "files", "work", "report", "verdict", "mirror", "done", "raised", "ended"}
Pages        == [ToSet(Files) -> RowStatuses]
ToolsTypeOK ==
    /\ tool \in ToolCasts
    /\ record \in [Tools -> ToolStatuses] /\ rows \in [Tools -> Pages]
    /\ result \in [Tools -> (SUBSET ToSet(Files)) \cup {Nothing}] /\ frozen \in [Tools -> (SUBSET ToSet(Files)) \cup {Nothing}]
    /\ entries \in [Tools -> {"none", "live", "done"}] /\ stopFlags \in [Tools -> BOOLEAN]
    /\ at \in [Tools -> Places]
    /\ todo \in [Tools -> Seq(ToSet(Files))] /\ outs \in [Tools -> SUBSET ToSet(Files)]
    /\ broke \in [Tools -> {"no", "stop", "error"}] /\ told \in [Tools -> Final \cup {"none"}]
    /\ ask = [op |-> ask.op, id |-> ask.id, live |-> ask.live, seen |-> ask.seen]
    /\ ask.op \in {"none", "join", "seed", "mark", "load", "judge"} /\ ask.id \in Tools /\ ask.live \subseteq Tools

\* a task that was never started is nowhere
UnbornIsUntouched(t) ==
    at[t] = "unborn" => /\ record[t] = "none" /\ result[t] = Nothing /\ frozen[t] = Nothing /\ outs[t] = {}
                        /\ broke[t] = "no" /\ told[t] = "none"
\* a thread that writes is live, and its task has been told to nobody
WriterIsLive(t) == Writing(t) => IsLive(t) /\ record[t] \in Transient /\ told[t] = "none"
RaisedIsDone(t) == at[t] = "raised" => ~IsLive(t) /\ May("raise")
EntryHasThread(t) == IsLive(t) /\ ~May("seed") => ~Over(t)
ToldIsOver(t) == told[t] # "none" => ~IsLive(t) /\ record[t] \notin Transient /\ (May("raise") \/ record[t] \in {told[t], "none"})
\* what the loop has behind it and before it
LoopIsSound(t) ==
    /\ at[t] = "begin" => rows[t] = Unsent /\ outs[t] = {} /\ result[t] = Nothing /\ broke[t] = "no"
    /\ at[t] \in {"files", "work", "report", "verdict"} =>
         /\ IsInjective(todo[t])
         /\ \A f \in ToSet(Files) \ ToSet(todo[t]) : rows[t][f] = IF f \in outs[t] THEN "COMPLETED" ELSE "FAILED"
         /\ \A f \in ToSet(todo[t]) : f \notin outs[t] /\ rows[t][f] = IF at[t] = "work" /\ f = Head(todo[t]) THEN "RUNNING" ELSE "PENDING"
         /\ at[t] = "work" => todo[t] # <<>>
         /\ at[t] # "verdict" => result[t] = Nothing
         /\ at[t] = "verdict" => result[t] = outs[t]
         /\ at[t] \in {"files", "work"} \/ tool.kind = "epub_merge" => broke[t] = "no"
         /\ at[t] \in {"report", "verdict"} /\ broke[t] = "no" => todo[t] = <<>>
VerdictHolds(t) ==
    /\ record[t] = "COMPLETED" => (\A f \in ToSet(Files) : rows[t][f] = "COMPLETED") /\ result[t] = ToSet(Files) /\ outs[t] = result[t]
    /\ record[t] = "FAILED" /\ ~May("raise") =>
         /\ \E f \in ToSet(Files) : rows[t][f] = "FAILED"
         /\ \A f \in ToSet(Files) : rows[t][f] \notin {"PENDING", "RUNNING"}
         /\ result[t] = outs[t]
MadeIsListed(t) ==
    /\ \A f \in ToSet(Files) : rows[t][f] = "COMPLETED" => f \in outs[t]
    /\ result[t] = Nothing \/ result[t] \subseteq outs[t]
    /\ frozen[t] = Nothing \/ frozen[t] \subseteq outs[t]
TaskIsTold(t) ==
    /\ UnbornIsUntouched(t) /\ WriterIsLive(t) /\ RaisedIsDone(t) /\ EntryHasThread(t) /\ ToldIsOver(t)
    /\ LoopIsSound(t) /\ VerdictHolds(t) /\ MadeIsListed(t)
\* a start has an unused id and no rival when it seeds; what a poll has loaded still counts
StartIsAlone ==
    /\ ask.op \in {"join", "seed"} => Unused(ask.id)
    /\ ask.op = "join" => \A t \in Tools : IsLive(t) => t \in ask.live
    /\ ask.op = "seed" => \A t \in Tools : ~IsLive(t)
PollIsSound ==
    /\ ask.op \in {"mark", "load", "judge"} => at[ask.id] # "unborn"
    /\ ask.op = "mark" => told[ask.id] = "none"
    /\ ask.op = "judge" =>
         /\ ask.seen[1] \in ToolStatuses /\ ask.seen[2] \in Pages
         /\ ask.seen[1] \in Final => ~Writing(ask.id) /\ (record[ask.id] = ask.seen[1] \/ (May("raise") /\ record[ask.id] = "FAILED"))
         /\ ask.seen[1] \in Transient => told[ask.id] = "none"
         /\ ask.seen[1] = "FAILED" /\ ~May("raise") => \A f \in ToSet(Files) : ask.seen[2][f] # "RUNNING"
ToolsInv == ToolsTypeOK /\ (\A t \in Tools : TaskIsTold(t)) /\ OneToolWorks /\ StartIsAlone /\ PollIsSound

-----------------------------------------------------------------------------
(* The files of a tool, and how many of them have a status *)

LEMMA FilesAreFinite ==
    ASSUME tool \in ToolCasts
    PROVE  /\ Files \in Seq(ToSet(Files)) /\ IsInjective(Files) /\ IsFiniteSet(ToSet(Files))
           /\ Cardinality(ToSet(Files)) = Len(Files) /\ Len(Files) \in Nat
           /\ "nothing" \notin ToSet(Files) /\ (Files = <<>> => tool.kind = "replacement" /\ ToSet(Files) = {})
           /\ (Files # <<>> => Head(Files) \in ToSet(Files))
<1> DEFINE q == Files
<1>1. q \in Seq(ToSet(q)) /\ IsInjective(q) /\ "nothing" \notin ToSet(q) /\ (q = <<>> => tool.kind = "replacement")
  BY ToolsAssumption DEF Files
<1>2. Len(q) \in Nat /\ DOMAIN q = 1..Len(q) /\ q \in [1..Len(q) -> ToSet(q)]
  <2> HIDE DEF q
  <2> QED BY <1>1
<1>3. IsFiniteSet(1..Len(q)) /\ Cardinality(1..Len(q)) = Len(q)
  BY <1>2, FS_Interval
<1>4. q \in Surjection(1..Len(q), ToSet(q)) /\ q \in Injection(1..Len(q), ToSet(q))
  <2> HIDE DEF q
  <2> QED BY <1>1, <1>2 DEF Surjection, Injection, IsInjective, ToSet
<1>5. IsFiniteSet(ToSet(q)) /\ Cardinality(ToSet(q)) = Len(q)
  <2> HIDE DEF q
  <2> QED BY <1>3, <1>4, FS_Surjection
<1>6. (q = <<>> => ToSet(q) = {}) /\ (q # <<>> => Head(q) \in ToSet(q))
  <2> HIDE DEF q
  <2> QED BY <1>1, <1>2 DEF ToSet
<1> QED BY <1>1, <1>2, <1>5, <1>6

\* a count is zero when no file has the status, and all files when every file has it
LEMMA CountsSay ==
    ASSUME tool \in ToolCasts, NEW t, NEW st
    PROVE  /\ Count(t, st) \in Nat
           /\ Count(t, st) = 0 <=> \A f \in ToSet(Files) : rows[t][f] # st
           /\ (\A f \in ToSet(Files) : rows[t][f] = st) => Count(t, st) = Len(Files)
<1> DEFINE S == ToSet(Files)
           T == {f \in S : rows[t][f] = st}
<1>1. IsFiniteSet(S) /\ Cardinality(S) = Len(Files)
  BY FilesAreFinite
<1>2. IsFiniteSet(T) /\ T \subseteq S
  BY <1>1, FS_Subset
<1>3. Cardinality(T) \in Nat /\ (Cardinality(T) = 0 <=> T = {})
  BY <1>2, FS_EmptySet, FS_CardinalityType
<1>4. (\A f \in S : rows[t][f] = st) => T = S
  OBVIOUS
<1> QED BY <1>1, <1>3, <1>4 DEF Count

\* the rest of the files after the first
LEMMA WithoutHead ==
    ASSUME NEW S, NEW q \in Seq(S), q # <<>>, IsInjective(q)
    PROVE  /\ Head(q) \in ToSet(q) /\ Head(q) \in S /\ Tail(q) \in Seq(S) /\ IsInjective(Tail(q))
           /\ ToSet(Tail(q)) = ToSet(q) \ {Head(q)} /\ (Len(q) = 1 => Tail(q) = <<>>)
<1>1. 1 \in 1..Len(q) /\ Head(q) = q[1] /\ Head(q) \in ToSet(q) /\ Head(q) \in S
  BY DEF ToSet
<1>2. PICK r, i : r = Tail(q) /\ i = 1
  OBVIOUS
<1>3. r \in Seq(S) /\ IsInjective(r) /\ ToSet(r) = ToSet(q) \ {q[i]}
  BY <1>1, <1>2, WithoutPlace
<1>4. Len(q) = 1 => r = <<>>
  <2>1. r \in Seq(S) /\ Len(r) = Len(q) - 1
    BY <1>2, HeadTailProperties
  <2> QED BY <2>1
<1> QED BY <1>1, <1>2, <1>3, <1>4

-----------------------------------------------------------------------------
(* A step of one thread *)

\* what the step leaves of the other tasks
SameTask(u) ==
    /\ record'[u] = record[u] /\ rows'[u] = rows[u] /\ result'[u] = result[u] /\ frozen'[u] = frozen[u]
    /\ entries'[u] = entries[u] /\ at'[u] = at[u] /\ todo'[u] = todo[u]
    /\ outs'[u] = outs[u] /\ broke'[u] = broke[u] /\ told'[u] = told[u]
ToolMoves(t) ==
    /\ tool' = tool /\ ask' = ask /\ told' = told
    /\ \A u \in Tools \ {t} : SameTask(u)
    /\ at[t] \notin {"unborn", "ended"} /\ at'[t] # "unborn"
    /\ Writing(t)' => Writing(t)
    /\ IsLive(t)' => IsLive(t)
    /\ \/ record'[t] = record[t] \/ Writing(t)
       \/ at[t] = "raised" /\ record'[t] = IF record[t] = "none" THEN "none" ELSE "FAILED"

\* a task whose entry may end while it does not write
KeepsTask(u) ==
    /\ tool' = tool
    /\ record'[u] = record[u] /\ rows'[u] = rows[u] /\ result'[u] = result[u] /\ frozen'[u] = frozen[u]
    /\ entries'[u] = entries[u] \/ (~Writing(u) /\ entries'[u] # "live")
    /\ at'[u] = at[u] /\ todo'[u] = todo[u]
    /\ outs'[u] = outs[u] /\ broke'[u] = broke[u] /\ told'[u] = told[u]

LEMMA TaskStays ==
    ASSUME NEW u, TaskIsTold(u), KeepsTask(u)
    PROVE  TaskIsTold(u)'
<1> USE DEF KeepsTask, Files, Unsent, IsLive, Writing, Over, May
<1>1. UnbornIsUntouched(u)' /\ WriterIsLive(u)' /\ RaisedIsDone(u)' /\ EntryHasThread(u)' /\ ToldIsOver(u)'
  BY DEF TaskIsTold, UnbornIsUntouched, WriterIsLive, RaisedIsDone, EntryHasThread, ToldIsOver
<1>2. LoopIsSound(u)'
  BY DEF TaskIsTold, LoopIsSound
<1>3. VerdictHolds(u)' /\ MadeIsListed(u)'
  BY DEF TaskIsTold, VerdictHolds, MadeIsListed
<1> QED BY <1>1, <1>2, <1>3 DEF TaskIsTold

LEMMA ThreadFrame ==
    ASSUME ToolsInv, NEW t \in Tools, ToolMoves(t), ToolsTypeOK', TaskIsTold(t)'
    PROVE  ToolsInv'
<1>1. \A u \in Tools : TaskIsTold(u)'
  BY TaskStays DEF ToolMoves, ToolsInv, SameTask, KeepsTask
<1>2. StartIsAlone'
  BY DEF ToolMoves, ToolsInv, StartIsAlone, Unused, IsLive, SameTask, NoRows, Files, ToolsTypeOK
<1>3. PollIsSound'
  <2> USE DEF ToolMoves
  <2>1. TaskIsTold(t) /\ PollIsSound /\ ToolsTypeOK
    BY DEF ToolsInv
  <2>2. ask.op \in {"mark", "load", "judge"} => at'[ask.id] # "unborn"
    BY <2>1 DEF PollIsSound, SameTask, ToolsTypeOK
  <2>3. ask.op = "judge" /\ ask.seen[1] \in Final
          => ~Writing(ask.id)' /\ (record'[ask.id] = ask.seen[1] \/ (May("raise") /\ record'[ask.id] = "FAILED"))
    <3> SUFFICES ASSUME ask.op = "judge", ask.seen[1] \in Final
                 PROVE  ~Writing(ask.id)' /\ (record'[ask.id] = ask.seen[1] \/ (May("raise") /\ record'[ask.id] = "FAILED"))
      OBVIOUS
    <3>1. ~Writing(ask.id) /\ (record[ask.id] = ask.seen[1] \/ (May("raise") /\ record[ask.id] = "FAILED")) /\ ask.id \in Tools
      BY <2>1 DEF PollIsSound, ToolsTypeOK
    <3>2. CASE ask.id = t
      BY <2>1, <3>1, <3>2 DEF TaskIsTold, RaisedIsDone, Final
    <3>3. CASE ask.id # t
      BY <3>1, <3>3 DEF SameTask, Writing
    <3> QED BY <3>2, <3>3
  <2> QED BY <2>1, <2>2, <2>3 DEF PollIsSound, May, Files, Pages
<1>4. OneToolWorks'
  BY DEF ToolMoves, ToolsInv, OneToolWorks, SameTask, Writing
<1> QED BY <1>1, <1>2, <1>3, <1>4 DEF ToolsInv

\* _mark_status(RUNNING) and the files of the task
LEMMA TaskOpens ==
    ASSUME ToolsInv, NEW t \in Tools, Opens(t)
    PROVE  ToolsInv'
<1>1. ToolsTypeOK /\ TaskIsTold(t) /\ tool \in ToolCasts
  BY DEF ToolsInv, ToolsTypeOK
<1>2. /\ at[t] = "begin" /\ at'[t] = "files" /\ todo'[t] = Files
      /\ record'[t] = IF record[t] = "none" THEN "none" ELSE "RUNNING"
      /\ UNCHANGED <<tool, rows, result, frozen, entries, stopFlags, outs, broke, told, ask>>
  BY <1>1 DEF Opens, MovesTo, Writes, Others, ToolsTypeOK
<1>3. \A u \in Tools \ {t} : SameTask(u)
  BY <1>1 DEF Opens, MovesTo, Writes, Others, ToolsTypeOK, SameTask
<1>5. ToolsTypeOK'
  BY <1>1, <1>2, FilesAreFinite DEF Opens, MovesTo, Writes, Others, ToolsTypeOK, Places, Pages, RowStatuses,
     ToolStatuses, Transient, Final, Files
<1> USE DEF TaskIsTold, Writing, IsLive, Over, May, Transient, Final, Files
<1>6. ToolMoves(t)
  BY <1>1, <1>2, <1>3 DEF Opens, MovesTo, Writes, Others, ToolMoves, WriterIsLive
<1>7. UnbornIsUntouched(t)' /\ WriterIsLive(t)' /\ RaisedIsDone(t)' /\ EntryHasThread(t)' /\ ToldIsOver(t)'
  BY <1>1, <1>2 DEF UnbornIsUntouched, WriterIsLive, RaisedIsDone, EntryHasThread, ToldIsOver
<1>8. LoopIsSound(t)'
  BY <1>1, <1>2, FilesAreFinite DEF LoopIsSound, Unsent
<1>9. VerdictHolds(t)' /\ MadeIsListed(t)'
  BY <1>1, <1>2, FilesAreFinite DEF VerdictHolds, MadeIsListed, WriterIsLive
<1> QED BY <1>5, <1>6, <1>7, <1>8, <1>9, ThreadFrame DEF TaskIsTold

\* the next file, or the end of the loop at a stop
LEMMA TaskTakes ==
    ASSUME ToolsInv, NEW t \in Tools, Takes(t), stopFlags[t] => tool.kind # "epub_merge"
    PROVE  ToolsInv'
<1>1. ToolsTypeOK /\ TaskIsTold(t) /\ tool \in ToolCasts
  BY DEF ToolsInv, ToolsTypeOK
<1>2. /\ at[t] = "files" /\ todo[t] # <<>> /\ todo'[t] = todo[t] /\ record'[t] = record[t] /\ outs'[t] = outs[t]
      /\ \/ /\ at'[t] = "report" /\ broke'[t] = "stop" /\ rows'[t] = rows[t] /\ tool.kind # "epub_merge"
         \/ /\ at'[t] = "work" /\ broke'[t] = broke[t]
            /\ rows'[t] = [rows[t] EXCEPT ![Head(todo[t])] = "RUNNING"]
      /\ UNCHANGED <<tool, result, frozen, entries, stopFlags, told, ask>>
  BY <1>1 DEF Takes, MovesTo, Saves, Others, ToolsTypeOK
<1>3. \A u \in Tools \ {t} : SameTask(u)
  BY <1>1 DEF Takes, MovesTo, Saves, Others, ToolsTypeOK, SameTask
<1>t. /\ rows[t] \in Pages /\ outs[t] \subseteq ToSet(Files) /\ todo[t] \in Seq(ToSet(Files))
      /\ ToSet(todo[t]) \subseteq ToSet(Files)
  <2>1. rows[t] \in Pages /\ outs[t] \subseteq ToSet(Files) /\ todo[t] \in Seq(ToSet(Files))
    BY <1>1 DEF ToolsTypeOK
  <2> QED BY <2>1 DEF ToSet
<1>4. Head(todo[t]) \in ToSet(todo[t]) /\ Head(todo[t]) \in ToSet(Files)
  <2> DEFINE q == todo[t]
  <2>1. q \in Seq(ToSet(Files)) /\ q # <<>>
    BY <1>1, <1>2 DEF ToolsTypeOK
  <2> QED BY <2>1 DEF ToSet
<1>r. rows' \in [Tools -> Pages]
  <2>1. rows'[t] \in Pages
    BY <1>2, <1>4, <1>t DEF Pages, RowStatuses
  <2>2. rows' = [u \in Tools |-> rows'[u]] /\ rows \in [Tools -> Pages]
    BY <1>1 DEF Takes, Saves, Others, ToolsTypeOK
  <2>3. \A u \in Tools : rows'[u] \in Pages
    BY <2>1, <2>2, <1>3 DEF SameTask
  <2> QED BY <2>2, <2>3
<1>p. Pages' = Pages /\ Files' = Files /\ tool' = tool
  BY DEF Takes, Others, Pages, Files
<1>5. ToolsTypeOK'
  <2>1. UNCHANGED <<tool, record, result, frozen, entries, stopFlags, told, ask>>
    BY DEF Takes, Others
  <2>2. at' \in [Tools -> Places] /\ broke' \in [Tools -> {"no", "stop", "error"}]
    BY <1>1 DEF Takes, MovesTo, ToolsTypeOK, Places
  <2>3. todo' \in [Tools -> Seq(ToSet(Files))] /\ outs' \in [Tools -> SUBSET ToSet(Files)]
    BY <1>1, <1>4 DEF Takes, ToolsTypeOK
  <2> QED BY <1>1, <2>1, <2>2, <2>3, <1>r, <1>p DEF ToolsTypeOK
<1> USE DEF TaskIsTold, Writing, IsLive, Over, May, Transient, Final, Files
<1>6. ToolMoves(t)
  BY <1>1, <1>2, <1>3 DEF Takes, MovesTo, Saves, Others, ToolMoves, WriterIsLive
<1>7. UnbornIsUntouched(t)' /\ WriterIsLive(t)' /\ RaisedIsDone(t)' /\ EntryHasThread(t)' /\ ToldIsOver(t)'
  BY <1>1, <1>2 DEF UnbornIsUntouched, WriterIsLive, RaisedIsDone, EntryHasThread, ToldIsOver
<1>8. LoopIsSound(t)'
  BY <1>1, <1>2, <1>4, <1>t DEF LoopIsSound, Pages
<1>9. VerdictHolds(t)' /\ MadeIsListed(t)'
  BY <1>1, <1>2, <1>4, <1>t DEF VerdictHolds, MadeIsListed, WriterIsLive, LoopIsSound, Pages
<1> QED BY <1>5, <1>6, <1>7, <1>8, <1>9, ThreadFrame DEF TaskIsTold

\* a file is done, or has failed
LEMMA TaskFinishes ==
    ASSUME ToolsInv, NEW t \in Tools, Finishes(t, TRUE, FALSE) \/ Finishes(t, FALSE, FALSE) \/ (tool.kind = "replacement" /\ Finishes(t, FALSE, TRUE))
    PROVE  ToolsInv'
<1>1. ToolsTypeOK /\ TaskIsTold(t) /\ tool \in ToolCasts
  BY DEF ToolsInv, ToolsTypeOK
<1>2. /\ at[t] = "work" /\ todo[t] # <<>> /\ todo'[t] = Tail(todo[t]) /\ record'[t] = record[t]
      /\ \/ /\ outs'[t] = outs[t] \cup {Head(todo[t])}
            /\ rows'[t] = [rows[t] EXCEPT ![Head(todo[t])] = "COMPLETED"]
         \/ /\ outs'[t] = outs[t]
            /\ rows'[t] = [rows[t] EXCEPT ![Head(todo[t])] = "FAILED"]
      /\ \/ /\ at'[t] = "report" /\ tool.kind = "replacement" /\ broke'[t] = "error"
         \/ at'[t] = "report" /\ Len(todo[t]) = 1 /\ broke'[t] = broke[t]
         \/ at'[t] = "files" /\ broke'[t] = broke[t]
      /\ UNCHANGED <<tool, result, frozen, entries, stopFlags, told, ask>>
  <2>1. DOMAIN todo = Tools /\ DOMAIN rows = Tools /\ DOMAIN outs = Tools /\ DOMAIN broke = Tools /\ DOMAIN at = Tools
    BY <1>1 DEF ToolsTypeOK
  <2>2. rows[t] \in Pages /\ outs[t] \subseteq ToSet(Files)
    BY <1>1 DEF ToolsTypeOK
  <2>3. at[t] = "work" /\ record' = record /\ todo' = [todo EXCEPT ![t] = Tail(todo[t])]
    BY DEF Finishes
  <2>4. todo[t] # <<>>
    BY <1>1, <2>3 DEF TaskIsTold, LoopIsSound
  <2>5. todo'[t] = Tail(todo[t])
    BY <2>1, <2>3
  <2>6. \/ /\ outs'[t] = outs[t] \cup {Head(todo[t])}
           /\ rows'[t] = [rows[t] EXCEPT ![Head(todo[t])] = "COMPLETED"]
        \/ /\ outs'[t] = outs[t]
           /\ rows'[t] = [rows[t] EXCEPT ![Head(todo[t])] = "FAILED"]
    BY <2>1 DEF Finishes, Saves
  <2>7. \/ /\ at'[t] = "report" /\ tool.kind = "replacement" /\ broke'[t] = "error"
        \/ at'[t] = "report" /\ Len(todo[t]) = 1 /\ broke'[t] = broke[t]
        \/ at'[t] = "files" /\ broke'[t] = broke[t]
    BY <2>1 DEF Finishes, MovesTo
  <2>8. UNCHANGED <<tool, result, frozen, entries, stopFlags, told, ask>>
    BY DEF Finishes, Others
  <2> QED BY <2>3, <2>4, <2>5, <2>6, <2>7, <2>8
<1>3. \A u \in Tools \ {t} : SameTask(u)
  BY <1>1 DEF Finishes, MovesTo, Saves, Others, TaskIsTold, LoopIsSound, ToolsTypeOK, SameTask
<1>t. /\ rows[t] \in Pages /\ outs[t] \subseteq ToSet(Files) /\ todo[t] \in Seq(ToSet(Files))
      /\ ToSet(todo[t]) \subseteq ToSet(Files)
  <2>1. rows[t] \in Pages /\ outs[t] \subseteq ToSet(Files) /\ todo[t] \in Seq(ToSet(Files))
    BY <1>1 DEF ToolsTypeOK
  <2> QED BY <2>1 DEF ToSet
<1>4. /\ Head(todo[t]) \in ToSet(todo[t]) /\ Head(todo[t]) \in ToSet(Files)
      /\ Tail(todo[t]) \in Seq(ToSet(Files)) /\ IsInjective(Tail(todo[t]))
      /\ ToSet(Tail(todo[t])) = ToSet(todo[t]) \ {Head(todo[t])} /\ (Len(todo[t]) = 1 => Tail(todo[t]) = <<>>)
  <2>1. todo[t] \in Seq(ToSet(Files)) /\ todo[t] # <<>> /\ IsInjective(todo[t])
    BY <1>1, <1>2 DEF ToolsTypeOK, TaskIsTold, LoopIsSound
  <2> QED BY <2>1, WithoutHead
<1>r. rows' \in [Tools -> Pages]
  <2>1. rows'[t] \in Pages
    BY <1>2, <1>4, <1>t DEF Pages, RowStatuses
  <2>2. rows' = [u \in Tools |-> rows'[u]] /\ rows \in [Tools -> Pages]
    BY <1>1 DEF Finishes, Saves, Others, ToolsTypeOK
  <2>3. \A u \in Tools : rows'[u] \in Pages
    BY <2>1, <2>2, <1>3 DEF SameTask
  <2> QED BY <2>2, <2>3
<1>p. Pages' = Pages /\ Files' = Files /\ tool' = tool
  BY DEF Finishes, Others, Pages, Files
<1>5. ToolsTypeOK'
  <2>1. UNCHANGED <<tool, record, result, frozen, entries, stopFlags, told, ask>>
    BY DEF Finishes, Others
  <2>2. at' \in [Tools -> Places] /\ broke' \in [Tools -> {"no", "stop", "error"}]
    BY <1>1 DEF Finishes, MovesTo, ToolsTypeOK, Places
  <2>3. todo \in [Tools -> Seq(ToSet(Files))] /\ outs \in [Tools -> SUBSET ToSet(Files)]
    BY <1>1 DEF ToolsTypeOK
  <2>4. todo' = [todo EXCEPT ![t] = Tail(todo[t])]
    BY DEF Finishes
  <2>5. todo' \in [Tools -> Seq(ToSet(Files))]
    BY <2>3, <2>4, <1>4
  <2>6. outs' = [outs EXCEPT ![t] = outs'[t]] /\ outs'[t] \subseteq ToSet(Files)
    BY <2>3, <1>2, <1>4, <1>t DEF Finishes
  <2>7. outs' \in [Tools -> SUBSET ToSet(Files)]
    BY <2>3, <2>6
  <2> QED BY <1>1, <2>1, <2>2, <2>5, <2>7, <1>r, <1>p DEF ToolsTypeOK
<1> USE DEF TaskIsTold, Writing, IsLive, Over, May, Transient, Final, Files
<1>6. ToolMoves(t)
  BY <1>1, <1>2, <1>3 DEF Finishes, MovesTo, Saves, Others, TaskIsTold, LoopIsSound, ToolMoves, WriterIsLive
<1>7. UnbornIsUntouched(t)' /\ WriterIsLive(t)' /\ RaisedIsDone(t)' /\ EntryHasThread(t)' /\ ToldIsOver(t)'
  BY <1>1, <1>2 DEF UnbornIsUntouched, WriterIsLive, RaisedIsDone, EntryHasThread, ToldIsOver
<1>8. LoopIsSound(t)'
  BY <1>1, <1>2, <1>4, <1>t DEF LoopIsSound, Pages
<1>9. VerdictHolds(t)' /\ MadeIsListed(t)'
  BY <1>1, <1>2, <1>4, <1>t DEF VerdictHolds, MadeIsListed, WriterIsLive, LoopIsSound, Pages
<1> QED BY <1>5, <1>6, <1>7, <1>8, <1>9, ThreadFrame DEF TaskIsTold

\* _write_result
LEMMA TaskReports ==
    ASSUME ToolsInv, NEW t \in Tools, Reports(t)
    PROVE  ToolsInv'
<1>1. ToolsTypeOK /\ TaskIsTold(t) /\ tool \in ToolCasts
  BY DEF ToolsInv, ToolsTypeOK
<1>2. /\ at[t] = "report" /\ at'[t] = "verdict" /\ result'[t] = outs[t]
      /\ UNCHANGED <<tool, record, rows, frozen, entries, stopFlags, todo, outs, broke, told, ask>>
  BY <1>1 DEF Reports, MovesTo, Others, ToolsTypeOK
<1>3. \A u \in Tools \ {t} : SameTask(u)
  BY <1>1 DEF Reports, MovesTo, Others, ToolsTypeOK, SameTask
<1>5. ToolsTypeOK'
  BY <1>1, <1>2 DEF Reports, MovesTo, Others, ToolsTypeOK, Places, Pages, RowStatuses, ToolStatuses, Transient,
     Final, Files
<1> USE DEF TaskIsTold, Writing, IsLive, Over, May, Transient, Final, Files
<1>6. ToolMoves(t)
  BY <1>1, <1>2, <1>3 DEF Reports, MovesTo, Others, ToolMoves, WriterIsLive
<1>7. UnbornIsUntouched(t)' /\ WriterIsLive(t)' /\ RaisedIsDone(t)' /\ EntryHasThread(t)' /\ ToldIsOver(t)'
  BY <1>1, <1>2 DEF UnbornIsUntouched, WriterIsLive, RaisedIsDone, EntryHasThread, ToldIsOver
<1>8. LoopIsSound(t)'
  BY <1>1, <1>2 DEF LoopIsSound
<1>9. VerdictHolds(t)' /\ MadeIsListed(t)'
  BY <1>1, <1>2 DEF VerdictHolds, MadeIsListed, WriterIsLive, LoopIsSound
<1> QED BY <1>5, <1>6, <1>7, <1>8, <1>9, ThreadFrame DEF TaskIsTold

\* the verdict of a loop that has ended is what the files say
FairVerdict(t, st) ==
    /\ st \in Final
    /\ st = "COMPLETED" => \A f \in ToSet(Files) : rows[t][f] \notin {"PENDING", "RUNNING", "FAILED"}
    /\ st = "FAILED" => /\ \E f \in ToSet(Files) : rows[t][f] = "FAILED"
                        /\ \A f \in ToSet(Files) : rows[t][f] \notin {"PENDING", "RUNNING"}

LEMMA VerdictIsFair ==
    ASSUME ToolsInv, NEW t \in Tools, at[t] = "verdict"
    PROVE  /\ FairVerdict(t, Verdict(t))
           /\ tool.kind = "epub_merge" => FairVerdict(t, IF Count(t, "FAILED") > 0 THEN "FAILED" ELSE "COMPLETED")
<1>1. TaskIsTold(t) /\ tool \in ToolCasts
  BY DEF ToolsInv, ToolsTypeOK
<1>2. /\ Count(t, "PENDING") \in Nat /\ Count(t, "RUNNING") \in Nat /\ Count(t, "FAILED") \in Nat
      /\ Count(t, "PENDING") = 0 <=> \A f \in ToSet(Files) : rows[t][f] # "PENDING"
      /\ Count(t, "RUNNING") = 0 <=> \A f \in ToSet(Files) : rows[t][f] # "RUNNING"
      /\ Count(t, "FAILED") = 0 <=> \A f \in ToSet(Files) : rows[t][f] # "FAILED"
  BY <1>1, CountsSay
<1>3. FairVerdict(t, Verdict(t))
  BY <1>2 DEF FairVerdict, Verdict, Final
<1>4. ASSUME tool.kind = "epub_merge"
      PROVE  FairVerdict(t, IF Count(t, "FAILED") > 0 THEN "FAILED" ELSE "COMPLETED")
  <2>1. todo[t] = <<>>
    BY <1>1, <1>4 DEF TaskIsTold, LoopIsSound
  <2>2. \A f \in ToSet(Files) : rows[t][f] \notin {"PENDING", "RUNNING"}
    BY <1>1, <2>1 DEF TaskIsTold, LoopIsSound, ToSet
  <2> QED BY <1>2, <2>2 DEF FairVerdict, Final
<1> QED BY <1>3, <1>4

\* the verdict is written
LEMMA TaskCloses ==
    ASSUME ToolsInv, NEW t \in Tools, NEW st, Closes(t, st), FairVerdict(t, st)
    PROVE  ToolsInv'
<1>1. ToolsTypeOK /\ TaskIsTold(t) /\ tool \in ToolCasts
  BY DEF ToolsInv, ToolsTypeOK
<1>2. /\ at[t] = "verdict" /\ at'[t] = "mirror" /\ st \in Final
      /\ record'[t] = IF record[t] = "none" THEN "none" ELSE st
      /\ UNCHANGED <<tool, rows, result, frozen, entries, stopFlags, todo, outs, broke, told, ask>>
  BY <1>1 DEF Closes, MovesTo, Writes, Others, FairVerdict, ToolsTypeOK
<1>3. \A u \in Tools \ {t} : SameTask(u)
  BY <1>1 DEF Closes, MovesTo, Writes, Others, FairVerdict, ToolsTypeOK, SameTask
<1>t. /\ rows[t] \in Pages /\ outs[t] \subseteq ToSet(Files) /\ todo[t] \in Seq(ToSet(Files))
      /\ ToSet(todo[t]) \subseteq ToSet(Files)
  <2>1. rows[t] \in Pages /\ outs[t] \subseteq ToSet(Files) /\ todo[t] \in Seq(ToSet(Files))
    BY <1>1 DEF ToolsTypeOK
  <2> QED BY <2>1 DEF ToSet
<1>5. ToolsTypeOK'
  BY <1>1, <1>2 DEF Closes, MovesTo, Writes, Others, FairVerdict, ToolsTypeOK, Places, Pages, RowStatuses,
     ToolStatuses, Transient, Final, Files
<1> USE DEF TaskIsTold, Writing, IsLive, Over, May, Transient, Final, Files
<1>6. ToolMoves(t)
  BY <1>1, <1>2, <1>3 DEF Closes, MovesTo, Writes, Others, FairVerdict, ToolMoves, WriterIsLive
<1>7. UnbornIsUntouched(t)' /\ WriterIsLive(t)' /\ RaisedIsDone(t)' /\ EntryHasThread(t)' /\ ToldIsOver(t)'
  BY <1>1, <1>2 DEF UnbornIsUntouched, WriterIsLive, RaisedIsDone, EntryHasThread, ToldIsOver
<1>8. LoopIsSound(t)'
  BY <1>1, <1>2 DEF LoopIsSound
<1>9. VerdictHolds(t)' /\ MadeIsListed(t)'
  BY <1>1, <1>2, <1>t DEF VerdictHolds, MadeIsListed, Pages, RowStatuses, WriterIsLive, FairVerdict, LoopIsSound
<1> QED BY <1>5, <1>6, <1>7, <1>8, <1>9, ThreadFrame DEF TaskIsTold

\* a merge that finds the stop flag set
MergeStops(t) ==
    /\ at[t] = "files" /\ stopFlags[t] /\ Writes(t, "STOPPED") /\ MovesTo(t, "mirror")
    /\ UNCHANGED <<rows, result, todo, outs, broke>> /\ Others(t)

LEMMA MergeIsStopped ==
    ASSUME ToolsInv, NEW t \in Tools, MergeStops(t)
    PROVE  ToolsInv'
<1>1. ToolsTypeOK /\ TaskIsTold(t) /\ tool \in ToolCasts
  BY DEF ToolsInv, ToolsTypeOK
<1>2. /\ at[t] = "files" /\ at'[t] = "mirror"
      /\ record'[t] = IF record[t] = "none" THEN "none" ELSE "STOPPED"
      /\ UNCHANGED <<tool, rows, result, frozen, entries, stopFlags, todo, outs, broke, told, ask>>
  BY <1>1 DEF MergeStops, MovesTo, Writes, Others, ToolsTypeOK
<1>3. \A u \in Tools \ {t} : SameTask(u)
  BY <1>1 DEF MergeStops, MovesTo, Writes, Others, ToolsTypeOK, SameTask
<1>5. ToolsTypeOK'
  BY <1>1, <1>2 DEF MergeStops, MovesTo, Writes, Others, ToolsTypeOK, Places, Pages, RowStatuses, ToolStatuses,
     Transient, Final, Files
<1> USE DEF TaskIsTold, Writing, IsLive, Over, May, Transient, Final, Files
<1>6. ToolMoves(t)
  BY <1>1, <1>2, <1>3 DEF MergeStops, MovesTo, Writes, Others, ToolMoves, WriterIsLive
<1>7. UnbornIsUntouched(t)' /\ WriterIsLive(t)' /\ RaisedIsDone(t)' /\ EntryHasThread(t)' /\ ToldIsOver(t)'
  BY <1>1, <1>2 DEF UnbornIsUntouched, WriterIsLive, RaisedIsDone, EntryHasThread, ToldIsOver
<1>8. LoopIsSound(t)'
  BY <1>1, <1>2 DEF LoopIsSound
<1>9. VerdictHolds(t)' /\ MadeIsListed(t)'
  BY <1>1, <1>2 DEF VerdictHolds, MadeIsListed, WriterIsLive
<1> QED BY <1>5, <1>6, <1>7, <1>8, <1>9, ThreadFrame DEF TaskIsTold

\* the memory of a clean run
LEMMA TaskFreezes ==
    ASSUME ToolsInv, NEW t \in Tools, Freezes(t)
    PROVE  ToolsInv'
<1>1. ToolsTypeOK /\ TaskIsTold(t) /\ tool \in ToolCasts
  BY DEF ToolsInv, ToolsTypeOK
<1>2. /\ at[t] = "mirror" /\ at'[t] = "done" /\ (frozen'[t] = frozen[t] \/ frozen'[t] = result[t])
      /\ UNCHANGED <<tool, record, rows, result, entries, stopFlags, todo, outs, broke, told, ask>>
  BY <1>1 DEF Freezes, MovesTo, onDisk, ToolsTypeOK
<1>3. \A u \in Tools \ {t} : SameTask(u)
  BY <1>1 DEF Freezes, MovesTo, onDisk, ToolsTypeOK, SameTask
<1>5. ToolsTypeOK'
  BY <1>1, <1>2 DEF Freezes, MovesTo, onDisk, ToolsTypeOK, Places, Pages, RowStatuses, ToolStatuses, Transient,
     Final, Files
<1> USE DEF TaskIsTold, Writing, IsLive, Over, May, Transient, Final, Files
<1>6. ToolMoves(t)
  BY <1>1, <1>2, <1>3 DEF Freezes, MovesTo, onDisk, ToolMoves, WriterIsLive
<1>7. UnbornIsUntouched(t)' /\ WriterIsLive(t)' /\ RaisedIsDone(t)' /\ EntryHasThread(t)' /\ ToldIsOver(t)'
  BY <1>1, <1>2 DEF UnbornIsUntouched, WriterIsLive, RaisedIsDone, EntryHasThread, ToldIsOver
<1>8. LoopIsSound(t)'
  BY <1>1, <1>2 DEF LoopIsSound
<1>9. VerdictHolds(t)' /\ MadeIsListed(t)'
  BY <1>1, <1>2 DEF VerdictHolds, MadeIsListed, WriterIsLive
<1> QED BY <1>5, <1>6, <1>7, <1>8, <1>9, ThreadFrame DEF TaskIsTold

\* mark_done
LEMMA TaskLeaves ==
    ASSUME ToolsInv, NEW t \in Tools, LeavesThread(t)
    PROVE  ToolsInv'
<1>1. ToolsTypeOK /\ TaskIsTold(t) /\ tool \in ToolCasts
  BY DEF ToolsInv, ToolsTypeOK
<1>2. /\ at[t] = "done" /\ at'[t] = "ended" /\ todo'[t] = <<>> /\ broke'[t] = "no" /\ entries'[t] # "live"
      /\ UNCHANGED <<tool, record, rows, result, frozen, stopFlags, outs, told, ask>>
  BY <1>1 DEF LeavesThread, MovesTo, Retired, onDisk, ToolsTypeOK
<1>3. \A u \in Tools \ {t} : SameTask(u)
  BY <1>1 DEF LeavesThread, MovesTo, Retired, onDisk, ToolsTypeOK, SameTask
<1>5. ToolsTypeOK'
  BY <1>1, <1>2 DEF LeavesThread, MovesTo, Retired, onDisk, ToolsTypeOK, Places, Pages, RowStatuses,
     ToolStatuses, Transient, Final, Files
<1> USE DEF TaskIsTold, Writing, IsLive, Over, May, Transient, Final, Files
<1>6. ToolMoves(t)
  BY <1>1, <1>2, <1>3 DEF LeavesThread, MovesTo, Retired, onDisk, ToolMoves, WriterIsLive
<1>7. UnbornIsUntouched(t)' /\ WriterIsLive(t)' /\ RaisedIsDone(t)' /\ EntryHasThread(t)' /\ ToldIsOver(t)'
  BY <1>1, <1>2 DEF UnbornIsUntouched, WriterIsLive, RaisedIsDone, EntryHasThread, ToldIsOver
<1>8. LoopIsSound(t)'
  BY <1>1, <1>2 DEF LoopIsSound
<1>9. VerdictHolds(t)' /\ MadeIsListed(t)'
  BY <1>1, <1>2 DEF VerdictHolds, MadeIsListed, WriterIsLive
<1> QED BY <1>5, <1>6, <1>7, <1>8, <1>9, ThreadFrame DEF TaskIsTold

\* the tool raises
LEMMA TaskRaises ==
    ASSUME ToolsInv, NEW t \in Tools, Raises(t)
    PROVE  ToolsInv'
<1>1. ToolsTypeOK /\ TaskIsTold(t) /\ tool \in ToolCasts
  BY DEF ToolsInv, ToolsTypeOK
<1>2. /\ at[t] = "work" /\ at'[t] = "raised" /\ todo'[t] = <<>> /\ broke'[t] = "no" /\ entries'[t] # "live" /\ May("raise")
      /\ UNCHANGED <<tool, record, rows, result, frozen, stopFlags, outs, told, ask>>
  BY <1>1 DEF Raises, MovesTo, Retired, onDisk, ToolsTypeOK
<1>3. \A u \in Tools \ {t} : SameTask(u)
  BY <1>1 DEF Raises, MovesTo, Retired, onDisk, ToolsTypeOK, SameTask
<1>5. ToolsTypeOK'
  BY <1>1, <1>2 DEF Raises, MovesTo, Retired, onDisk, ToolsTypeOK, Places, Pages, RowStatuses, ToolStatuses,
     Transient, Final, Files
<1> USE DEF TaskIsTold, Writing, IsLive, Over, May, Transient, Final, Files
<1>6. ToolMoves(t)
  BY <1>1, <1>2, <1>3 DEF Raises, MovesTo, Retired, onDisk, ToolMoves, WriterIsLive
<1>7. UnbornIsUntouched(t)' /\ WriterIsLive(t)' /\ RaisedIsDone(t)' /\ EntryHasThread(t)' /\ ToldIsOver(t)'
  BY <1>1, <1>2 DEF UnbornIsUntouched, WriterIsLive, RaisedIsDone, EntryHasThread, ToldIsOver
<1>8. LoopIsSound(t)'
  BY <1>1, <1>2 DEF LoopIsSound
<1>9. VerdictHolds(t)' /\ MadeIsListed(t)'
  BY <1>1, <1>2 DEF VerdictHolds, MadeIsListed, WriterIsLive
<1> QED BY <1>5, <1>6, <1>7, <1>8, <1>9, ThreadFrame DEF TaskIsTold

\* _on_task_failure
LEMMA FailureIsNoted ==
    ASSUME ToolsInv, NEW t \in Tools, NotesFailure(t)
    PROVE  ToolsInv'
<1>1. ToolsTypeOK /\ TaskIsTold(t) /\ tool \in ToolCasts
  BY DEF ToolsInv, ToolsTypeOK
<1>2. /\ at[t] = "raised" /\ at'[t] = "ended" /\ record'[t] = IF record[t] = "none" THEN "none" ELSE "FAILED"
      /\ UNCHANGED <<tool, rows, result, frozen, entries, stopFlags, todo, outs, broke, told, ask>>
  BY <1>1 DEF NotesFailure, MovesTo, Writes, Others, ToolsTypeOK
<1>3. \A u \in Tools \ {t} : SameTask(u)
  BY <1>1 DEF NotesFailure, MovesTo, Writes, Others, ToolsTypeOK, SameTask
<1>5. ToolsTypeOK'
  BY <1>1, <1>2 DEF NotesFailure, MovesTo, Writes, Others, ToolsTypeOK, Places, Pages, RowStatuses,
     ToolStatuses, Transient, Final, Files
<1> USE DEF TaskIsTold, Writing, IsLive, Over, May, Transient, Final, Files
<1>6. ToolMoves(t)
  BY <1>1, <1>2, <1>3 DEF NotesFailure, MovesTo, Writes, Others, ToolMoves, WriterIsLive
<1>7. UnbornIsUntouched(t)' /\ WriterIsLive(t)' /\ RaisedIsDone(t)' /\ EntryHasThread(t)' /\ ToldIsOver(t)'
  BY <1>1, <1>2 DEF UnbornIsUntouched, WriterIsLive, RaisedIsDone, EntryHasThread, ToldIsOver
<1>8. LoopIsSound(t)'
  BY <1>1, <1>2 DEF LoopIsSound
<1>9. VerdictHolds(t)' /\ MadeIsListed(t)'
  BY <1>1, <1>2 DEF VerdictHolds, MadeIsListed, WriterIsLive, RaisedIsDone
<1> QED BY <1>5, <1>6, <1>7, <1>8, <1>9, ThreadFrame DEF TaskIsTold

LEMMA ThreadsStayTrue ==
    ASSUME ToolsInv, NEW t \in Tools, ToolThread(t)
    PROVE  ToolsInv'
<1>1. CASE Opens(t) \/ Reports(t) \/ Freezes(t) \/ LeavesThread(t) \/ Raises(t) \/ NotesFailure(t) \/ MergeStops(t)
  BY <1>1, TaskOpens, TaskReports, TaskFreezes, TaskLeaves, TaskRaises, FailureIsNoted, MergeIsStopped
<1>2. CASE Takes(t) /\ (stopFlags[t] => tool.kind # "epub_merge")
  BY <1>2, TaskTakes
<1>3. CASE \/ Finishes(t, TRUE, FALSE) \/ Finishes(t, FALSE, FALSE)
           \/ tool.kind = "replacement" /\ Finishes(t, FALSE, TRUE)
  BY <1>3, TaskFinishes
<1>4. CASE Closes(t, Verdict(t))
  BY <1>4, VerdictIsFair, TaskCloses DEF Closes
<1>5. CASE tool.kind = "epub_merge" /\ Closes(t, IF Count(t, "FAILED") > 0 THEN "FAILED" ELSE "COMPLETED")
  BY <1>5, VerdictIsFair, TaskCloses DEF Closes
<1>6. ASSUME NEW ok \in BOOLEAN, Finishes(t, ok, FALSE)
      PROVE  ToolsInv'
  <2>1. CASE ok = TRUE BY <1>6, <2>1, <1>3
  <2>2. CASE ok = FALSE BY <1>6, <2>2, <1>3
  <2> QED BY <2>1, <2>2
<1>7. ASSUME tool.kind = "replacement", Finishes(t, FALSE, tool.eager)
      PROVE  ToolsInv'
  <2>1. tool.eager = TRUE \/ tool.eager = FALSE
    BY ToolsAssumption DEF ToolsInv, ToolsTypeOK
  <2>2. CASE tool.eager = TRUE BY <1>7, <2>2, <1>3
  <2>3. CASE tool.eager = FALSE BY <1>7, <2>3, <1>3
  <2> QED BY <2>1, <2>2, <2>3
<1>8. CASE ReplacementLoop(t)
  BY <1>1, <1>2, <1>3, <1>4, <1>7, <1>8 DEF ReplacementLoop
<1>9. CASE CompressLoop(t) \/ ConvertLoop(t) \/ TxtToEpubLoop(t)
  BY <1>1, <1>2, <1>4, <1>6, <1>9 DEF CompressLoop, ConvertLoop, TxtToEpubLoop, PlainLoop
<1>10. CASE MergeOnce(t)
  BY <1>1, <1>2, <1>5, <1>6, <1>10 DEF MergeOnce, MergeStops
<1> QED BY <1>1, <1>8, <1>9, <1>10 DEF ToolThread

-----------------------------------------------------------------------------
(* Calls *)

\* what a call leaves of a task it is not about, and of the parts that no call changes
KeepsTasks == \A u \in Tools : KeepsTask(u)

LEMMA IdleIsTyped == ToolIds[1] \in Tools /\ Idle = [op |-> "none", id |-> ToolIds[1], live |-> {}, seen |-> Idle.seen]
<1>1. ToolIds \in Seq(ToSet(ToolIds)) /\ ToolIds # <<>>
  BY ToolsAssumption
<1>2. 1 \in DOMAIN ToolIds
  BY <1>1
<1> QED BY <1>2 DEF Tools, ToSet, Idle

\* a call that ends entries at most
LEMMA TasksAreKept ==
    ASSUME ToolsInv, KeepsTasks
    PROVE  (\A t \in Tools : TaskIsTold(t)') /\ OneToolWorks'
<1>1. \A t \in Tools : TaskIsTold(t)'
  BY TaskStays DEF KeepsTasks, ToolsInv
<1>2. OneToolWorks'
  BY DEF KeepsTasks, KeepsTask, ToolsInv, OneToolWorks, Writing
<1> QED BY <1>1, <1>2

LEMMA StartIsAsked ==
    ASSUME ToolsInv, AsksStart
    PROVE  ToolsInv'
<1>1. ToolsTypeOK /\ \A t \in Tools : TaskIsTold(t)
  BY DEF ToolsInv
<1> DEFINE L == {t \in Tools : IsLive(t) /\ record[t] \notin Final}
<1>2. /\ UNCHANGED <<tool, record, rows, result, frozen, at, todo, outs, broke, told>>
      /\ entries' = [t \in Tools |-> IF entries[t] = "live" /\ record[t] \in Final THEN "done" ELSE entries[t]]
      /\ stopFlags' = [t \in Tools |-> t \in L \/ stopFlags[t]]
  BY DEF AsksStart, onDisk, inThread, Resolved
<1>3. PICK n \in Tools : Unused(n) /\ ask' = [op |-> "join", id |-> n, live |-> L, seen |-> Idle.seen]
  BY DEF AsksStart, IsNext, Begins
<1>4. ToolsTypeOK'
  BY <1>1, <1>2, <1>3 DEF ToolsTypeOK, Pages, Files
<1>5. KeepsTasks
  BY <1>1, <1>2 DEF KeepsTasks, KeepsTask, TaskIsTold, WriterIsLive, IsLive, Final, Transient
<1>6. StartIsAlone'
  BY <1>1, <1>2, <1>3 DEF StartIsAlone, Unused, IsLive, NoRows, Files, ToolsTypeOK
<1>7. PollIsSound'
  BY <1>3 DEF PollIsSound
<1> QED BY <1>4, <1>5, <1>6, <1>7, TasksAreKept DEF ToolsInv

LEMMA StartJoins ==
    ASSUME ToolsInv, Joins
    PROVE  ToolsInv'
<1>1. ToolsTypeOK /\ StartIsAlone
  BY DEF ToolsInv
<1>2. UNCHANGED <<tool, record, rows, result, frozen, entries, stopFlags, at, todo, outs, broke, told>>
  BY DEF Joins, onDisk, inThread
<1>3. /\ ask.op = "join"
      /\ \/ /\ ask' = [op |-> "seed", id |-> ask.id, live |-> ask.live, seen |-> ask.seen]
            /\ \A t \in ask.live : entries[t] = "done"
         \/ ask' = [op |-> "none", id |-> ToolIds[1], live |-> {}, seen |-> Idle.seen]
  BY <1>1, IdleIsTyped DEF Joins, Replies, ToolsTypeOK
<1>4. ToolsTypeOK'
  BY <1>1, <1>2, <1>3, IdleIsTyped DEF ToolsTypeOK, Pages, Files
<1>5. KeepsTasks
  BY <1>2 DEF KeepsTasks, KeepsTask
<1>6. StartIsAlone'
  BY <1>1, <1>2, <1>3 DEF StartIsAlone, Unused, IsLive, NoRows, Files, ToolsTypeOK
<1>7. PollIsSound'
  BY <1>1, <1>3 DEF PollIsSound, ToolsTypeOK
<1> QED BY <1>4, <1>5, <1>6, <1>7, TasksAreKept DEF ToolsInv

LEMMA StopIsAsked ==
    ASSUME ToolsInv, NEW t \in Tools, AsksStop(t) \/ AsksSnapshot(t)
    PROVE  ToolsInv'
<1>1. ToolsTypeOK /\ TaskIsTold(t)
  BY DEF ToolsInv
<1>2. UNCHANGED <<tool, record, rows, result, frozen, entries, at, todo, outs, broke, told>>
  BY DEF AsksStop, AsksSnapshot, onDisk, inThread
<1>3. /\ record[t] # "none"
      /\ \/ ask' = [op |-> "mark", id |-> t, live |-> {}, seen |-> Idle.seen] /\ IsLive(t)
         \/ ask' = [op |-> "load", id |-> t, live |-> {}, seen |-> Idle.seen]
      /\ stopFlags' = stopFlags \/ stopFlags' = [stopFlags EXCEPT ![t] = TRUE]
  BY DEF AsksStop, AsksSnapshot, Begins
<1>4. ToolsTypeOK'
  <2>1. stopFlags' \in [Tools -> BOOLEAN]
    BY <1>1, <1>3 DEF ToolsTypeOK
  <2>2. /\ ask' = [op |-> ask'.op, id |-> ask'.id, live |-> ask'.live, seen |-> ask'.seen]
        /\ ask'.op \in {"mark", "load"} /\ ask'.id = t /\ ask'.live = {}
    BY <1>3
  <2> QED BY <1>1, <1>2, <2>1, <2>2 DEF ToolsTypeOK, Pages, Files
<1>5. KeepsTasks
  BY <1>2 DEF KeepsTasks, KeepsTask
<1>6. StartIsAlone'
  BY <1>3 DEF StartIsAlone
<1>7. PollIsSound'
  BY <1>1, <1>2, <1>3 DEF PollIsSound, TaskIsTold, UnbornIsUntouched, ToldIsOver, ToolsTypeOK
<1> QED BY <1>4, <1>5, <1>6, <1>7, TasksAreKept DEF ToolsInv

LEMMA SnapshotIsLoaded ==
    ASSUME ToolsInv, LoadsSnapshot
    PROVE  ToolsInv'
<1>1. ToolsTypeOK /\ PollIsSound /\ ask.id \in Tools /\ TaskIsTold(ask.id)
  BY DEF ToolsInv, ToolsTypeOK
<1>2. UNCHANGED <<tool, record, rows, result, frozen, entries, stopFlags, at, todo, outs, broke, told>>
  BY DEF LoadsSnapshot, onDisk, inThread
<1>3. /\ ask.op = "load"
      /\ ask' = [op |-> "judge", id |-> ask.id, live |-> ask.live, seen |-> <<record[ask.id], rows[ask.id]>>]
  BY <1>1 DEF LoadsSnapshot, ToolsTypeOK
<1>4. ToolsTypeOK'
  BY <1>1, <1>2, <1>3 DEF ToolsTypeOK, Pages, Files
<1>5. KeepsTasks
  BY <1>2 DEF KeepsTasks, KeepsTask
<1>6. StartIsAlone'
  BY <1>3 DEF StartIsAlone
<1>7. PollIsSound'
  <2>1. record[ask.id] \in ToolStatuses /\ rows[ask.id] \in Pages /\ Pages' = Pages /\ Files' = Files
    BY <1>1, <1>2 DEF ToolsTypeOK, Pages, Files
  <2>2. /\ record[ask.id] \in Final => ~Writing(ask.id)
        /\ record[ask.id] \in Transient => told[ask.id] = "none"
        /\ record[ask.id] = "FAILED" /\ ~May("raise") => \A f \in ToSet(Files) : rows[ask.id][f] # "RUNNING"
    BY <1>1 DEF TaskIsTold, WriterIsLive, ToldIsOver, VerdictHolds, Final, Transient
  <2> QED BY <1>1, <1>2, <1>3, <2>1, <2>2 DEF PollIsSound, Writing, May
<1> QED BY <1>4, <1>5, <1>6, <1>7, TasksAreKept DEF ToolsInv

LEMMA StoppingIsMarked ==
    ASSUME ToolsInv, MarksStopping
    PROVE  ToolsInv'
<1>0. ToolsTypeOK /\ ask.id \in Tools
  BY DEF ToolsInv, ToolsTypeOK
<1>t. PICK t \in Tools : t = ask.id
  BY <1>0
<1>1. ToolsTypeOK /\ PollIsSound /\ TaskIsTold(t)
  BY <1>t DEF ToolsInv, ToolsTypeOK
<1>2. UNCHANGED <<tool, rows, result, frozen, entries, stopFlags, at, todo, outs, broke, told>>
  BY DEF MarksStopping, inThread
<1>3. /\ ask.op = "mark" /\ told[t] = "none" /\ at[t] # "unborn"
      /\ ask' = [op |-> "load", id |-> ask.id, live |-> ask.live, seen |-> ask.seen]
  BY <1>t, <1>1 DEF MarksStopping, ToolsTypeOK, PollIsSound
<1>4. /\ record'[t] = IF record[t] = "none" THEN "none" ELSE "STOPPING"
      /\ \A u \in Tools \ {t} : record'[u] = record[u]
      /\ record' \in [Tools -> ToolStatuses]
  BY <1>t, <1>1 DEF MarksStopping, Writes, ToolsTypeOK, ToolStatuses, Transient
<1>5. ToolsTypeOK'
  BY <1>t, <1>1, <1>2, <1>3, <1>4 DEF ToolsTypeOK, Pages, Files
<1>6. \A u \in Tools \ {t} : TaskIsTold(u)'
  BY <1>t, <1>2, <1>4, TaskStays DEF ToolsInv, KeepsTask
<1>7. TaskIsTold(t)'
  <2> USE DEF TaskIsTold, Writing, IsLive, Over, May, Transient, Final, Files
  <2>1. UnbornIsUntouched(t)' /\ WriterIsLive(t)' /\ RaisedIsDone(t)' /\ EntryHasThread(t)' /\ ToldIsOver(t)'
    BY <1>t, <1>1, <1>2, <1>3, <1>4 DEF UnbornIsUntouched, WriterIsLive, RaisedIsDone, EntryHasThread, ToldIsOver
  <2>2. LoopIsSound(t)'
    BY <1>t, <1>1, <1>2 DEF LoopIsSound, Unsent
  <2>3. VerdictHolds(t)' /\ MadeIsListed(t)'
    BY <1>t, <1>1, <1>2, <1>4 DEF VerdictHolds, MadeIsListed
  <2> QED BY <2>1, <2>2, <2>3
<1>8. OneToolWorks'
  BY <1>2 DEF ToolsInv, OneToolWorks, Writing
<1>9. StartIsAlone' /\ PollIsSound'
  BY <1>t, <1>2, <1>3 DEF StartIsAlone, PollIsSound
<1> QED BY <1>5, <1>6, <1>7, <1>8, <1>9 DEF ToolsInv

\* the files of a new task, or the one file written before the seed failed
LEMMA TaskIsSeeded ==
    ASSUME ToolsInv, Seeds, Files # <<>>
    PROVE  ToolsInv'
<1>0. ToolsTypeOK /\ ask.id \in Tools
  BY DEF ToolsInv, ToolsTypeOK
<1>t. PICK t \in Tools : t = ask.id
  BY <1>0
<1>1. ToolsTypeOK /\ StartIsAlone /\ TaskIsTold(t) /\ tool \in ToolCasts
  BY <1>t DEF ToolsInv, ToolsTypeOK
<1>2. UNCHANGED <<tool, result, frozen, stopFlags, todo, outs, broke, told>>
  BY DEF Seeds
<1>3. /\ ask.op = "seed" /\ Unused(t) /\ \A u \in Tools : ~IsLive(u)
      /\ ask' = [op |-> "none", id |-> ToolIds[1], live |-> {}, seen |-> Idle.seen]
  BY <1>t, <1>1, IdleIsTyped DEF Seeds, Replies, StartIsAlone
<1>4. /\ entries'[t] = "live" /\ entries' \in [Tools -> {"none", "live", "done"}]
      /\ \A u \in Tools \ {t} : entries'[u] = entries[u]
  BY <1>t, <1>1 DEF Seeds, ToolsTypeOK
<1>5. Head(Files) \in ToSet(Files) /\ Unsent \in Pages /\ [NoRows EXCEPT ![Head(Files)] = "PENDING"] \in Pages
  BY <1>t, <1>1, FilesAreFinite DEF Unsent, NoRows, Pages, RowStatuses
<1>6. /\ \/ rows'[t] = Unsent /\ record'[t] = "PENDING" /\ at'[t] = "begin"
         \/ /\ rows'[t] = [NoRows EXCEPT ![Head(Files)] = "PENDING"] /\ record'[t] = "none"
            /\ at'[t] = "unborn" /\ May("seed")
      /\ \A u \in Tools \ {t} : rows'[u] = rows[u] /\ record'[u] = record[u] /\ at'[u] = at[u]
  <2>1. DOMAIN rows = Tools /\ DOMAIN record = Tools /\ DOMAIN at = Tools
    BY <1>1 DEF ToolsTypeOK
  <2>2. \/ /\ rows' = [rows EXCEPT ![t] = Unsent] /\ record' = [record EXCEPT ![t] = "PENDING"]
           /\ at' = [at EXCEPT ![t] = "begin"]
        \/ /\ May("seed") /\ record' = record /\ at' = at
           /\ rows' = [rows EXCEPT ![t] = [NoRows EXCEPT ![Head(Files)] = "PENDING"]]
    BY <1>t DEF Seeds, MovesTo
  <2>3. record[t] = "none" /\ at[t] = "unborn"
    BY <1>3 DEF Unused
  <2>4. CASE /\ rows' = [rows EXCEPT ![t] = Unsent] /\ record' = [record EXCEPT ![t] = "PENDING"]
             /\ at' = [at EXCEPT ![t] = "begin"]
    BY ONLY <1>t, <2>1, <2>4
  <2>5. CASE /\ May("seed") /\ record' = record /\ at' = at
             /\ rows' = [rows EXCEPT ![t] = [NoRows EXCEPT ![Head(Files)] = "PENDING"]]
    BY ONLY <1>t, <2>1, <2>3, <2>5
  <2> QED BY <2>2, <2>4, <2>5
<1>7. rows' \in [Tools -> Pages] /\ record' \in [Tools -> ToolStatuses] /\ at' \in [Tools -> Places]
  <2>1. rows \in [Tools -> Pages] /\ record \in [Tools -> ToolStatuses] /\ at \in [Tools -> Places]
    BY <1>1 DEF ToolsTypeOK
  <2>2. rows' \in [Tools -> Pages]
    BY <2>1, <1>t, <1>5 DEF Seeds
  <2>3. record' \in [Tools -> ToolStatuses] /\ at' \in [Tools -> Places]
    BY <2>1, <1>t DEF Seeds, MovesTo, ToolStatuses, Transient, Places
  <2> QED BY <2>2, <2>3
<1>8. ToolsTypeOK'
  BY <1>t, <1>1, <1>2, <1>3, <1>4, <1>7, IdleIsTyped DEF ToolsTypeOK, Pages, Files
<1>9. \A u \in Tools \ {t} : TaskIsTold(u)'
  BY <1>t, <1>2, <1>4, <1>6, TaskStays DEF ToolsInv, KeepsTask
<1>10. TaskIsTold(t)'
  <2> USE DEF TaskIsTold, Writing, IsLive, Over, May, Transient, Final, Unused
  <2>1. /\ result[t] = Nothing /\ frozen[t] = Nothing /\ outs[t] = {} /\ broke[t] = "no" /\ told[t] = "none"
    BY <1>t, <1>1, <1>3 DEF UnbornIsUntouched
  <2>2. \A f \in ToSet(Files) : rows'[t][f] # "COMPLETED"
    BY <1>5, <1>6 DEF Unsent, NoRows
  <2>3. UnbornIsUntouched(t)' /\ WriterIsLive(t)' /\ RaisedIsDone(t)' /\ EntryHasThread(t)' /\ ToldIsOver(t)'
    BY <1>t, <1>2, <1>4, <1>6, <2>1 DEF UnbornIsUntouched, WriterIsLive, RaisedIsDone, EntryHasThread, ToldIsOver
  <2>4. LoopIsSound(t)'
    BY <1>t, <1>2, <1>6, <2>1 DEF LoopIsSound, Unsent, Files
  <2>5. VerdictHolds(t)' /\ MadeIsListed(t)'
    BY <1>t, <1>2, <1>6, <2>1, <2>2 DEF VerdictHolds, MadeIsListed, Files
  <2> QED BY <2>3, <2>4, <2>5
<1>11. OneToolWorks'
  <2>1. \A u \in Tools : ~Writing(u)
    BY <1>t, <1>3 DEF ToolsInv, TaskIsTold, WriterIsLive
  <2> QED BY <1>6, <2>1 DEF OneToolWorks, Writing
<1>12. StartIsAlone' /\ PollIsSound'
  BY <1>t, <1>3 DEF StartIsAlone, PollIsSound
<1> QED BY <1>8, <1>9, <1>10, <1>11, <1>12 DEF ToolsInv

\* a replacement without files
StartsEmpty ==
    LET t == ask.id IN
    /\ ask.op = "seed" /\ Replies /\ Files = <<>>
    /\ record' = [record EXCEPT ![t] = "COMPLETED"]
    /\ result' = [result EXCEPT ![t] = {}] /\ entries' = [entries EXCEPT ![t] = "done"]
    /\ MovesTo(t, "ended")
    /\ UNCHANGED <<tool, rows, frozen, stopFlags, todo, outs, broke, told, toolRestarts>>

LEMMA EmptyStartIsOver ==
    ASSUME ToolsInv, StartsEmpty
    PROVE  ToolsInv'
<1>0. ToolsTypeOK /\ ask.id \in Tools
  BY DEF ToolsInv, ToolsTypeOK
<1>t. PICK t \in Tools : t = ask.id
  BY <1>0
<1>1. ToolsTypeOK /\ StartIsAlone /\ TaskIsTold(t) /\ tool \in ToolCasts
  BY <1>t DEF ToolsInv, ToolsTypeOK
<1>2. UNCHANGED <<tool, rows, frozen, stopFlags, todo, outs, broke, told>> /\ ToSet(Files) = {}
  BY <1>t, <1>1, FilesAreFinite DEF StartsEmpty
<1>3. /\ Unused(t)
      /\ ask' = [op |-> "none", id |-> ToolIds[1], live |-> {}, seen |-> Idle.seen]
  BY <1>t, <1>1, IdleIsTyped DEF StartsEmpty, Replies, StartIsAlone
<1>4. /\ entries'[t] = "done" /\ record'[t] = "COMPLETED" /\ result'[t] = {} /\ at'[t] = "ended"
      /\ \A u \in Tools \ {t} : /\ entries'[u] = entries[u] /\ record'[u] = record[u] /\ result'[u] = result[u]
                                /\ at'[u] = at[u]
      /\ entries' \in [Tools -> {"none", "live", "done"}] /\ record' \in [Tools -> ToolStatuses]
      /\ result' \in [Tools -> (SUBSET ToSet(Files)) \cup {Nothing}] /\ at' \in [Tools -> Places]
  BY <1>t, <1>1 DEF StartsEmpty, MovesTo, ToolsTypeOK, ToolStatuses, Final, Places
<1>5. ToolsTypeOK'
  BY <1>t, <1>1, <1>2, <1>3, <1>4, IdleIsTyped DEF ToolsTypeOK, Pages, Files
<1>6. \A u \in Tools \ {t} : TaskIsTold(u)'
  BY <1>t, <1>2, <1>4, TaskStays DEF ToolsInv, KeepsTask
<1>7. TaskIsTold(t)'
  <2>1. frozen[t] = Nothing /\ outs[t] = {} /\ broke[t] = "no" /\ told[t] = "none"
    BY <1>t, <1>1, <1>3 DEF TaskIsTold, UnbornIsUntouched, Unused
  <2> QED BY <1>2, <1>4, <2>1 DEF TaskIsTold, UnbornIsUntouched, WriterIsLive, RaisedIsDone, EntryHasThread,
            ToldIsOver, LoopIsSound, VerdictHolds, MadeIsListed, Writing, IsLive, Over, May, Files
<1>8. OneToolWorks'
  BY <1>4 DEF ToolsInv, OneToolWorks, Writing
<1>9. StartIsAlone' /\ PollIsSound'
  BY <1>t, <1>3 DEF StartIsAlone, PollIsSound
<1> QED BY <1>5, <1>6, <1>7, <1>8, <1>9 DEF ToolsInv

\* read_snapshot: what a poll has loaded is judged and healed, and the page is told
LEMMA SnapshotIsJudged ==
    ASSUME ToolsInv, ReadSnapshot
    PROVE  ToolsInv'
<1>0. ToolsTypeOK /\ ask.id \in Tools
  BY DEF ToolsInv, ToolsTypeOK
<1>t. PICK t, saw : t = ask.id /\ saw = ask.seen
  OBVIOUS
<1>1. t \in Tools /\ TaskIsTold(t) /\ PollIsSound /\ saw[1] \in ToolStatuses /\ saw[2] \in Pages /\ at[t] # "unborn"
  BY <1>t, <1>0 DEF ToolsInv, PollIsSound, ReadSnapshot
<1>2. /\ saw[1] \in Final => ~Writing(t) /\ (record[t] = saw[1] \/ (May("raise") /\ record[t] = "FAILED"))
      /\ saw[1] \in Transient => told[t] = "none"
      /\ saw[1] = "FAILED" /\ ~May("raise") => \A f \in ToSet(Files) : saw[2][f] # "RUNNING"
  BY <1>t, <1>1 DEF PollIsSound, ReadSnapshot
<1>3. /\ UNCHANGED <<tool, result, frozen, stopFlags, at, todo, outs, broke>>
      /\ ask' = [op |-> "none", id |-> ToolIds[1], live |-> {}, seen |-> Idle.seen]
      /\ Heals(t, saw) /\ Settles(t, Said(t, saw))
      /\ told' = IF Said(t, saw) \in Final THEN [told EXCEPT ![t] = Said(t, saw)] ELSE told
  BY <1>t, IdleIsTyped DEF ReadSnapshot, inThread, Replies
<1>4. StartIsAlone' /\ PollIsSound'
  BY <1>3 DEF StartIsAlone, PollIsSound
<1>5. OneToolWorks'
  BY <1>3 DEF ToolsInv, OneToolWorks, Writing
<1>6. rows \in [Tools -> Pages] /\ Reset(t, saw) \in [Tools -> Pages]
  <2>1. rows \in [Tools -> Pages] /\ rows[t] \in Pages
    BY <1>0, <1>1 DEF ToolsTypeOK
  <2>2. PICK r : r = [f \in DOMAIN rows[t] |-> IF saw[2][f] = "RUNNING" THEN "PENDING" ELSE rows[t][f]]
    OBVIOUS
  <2>3. r \in Pages
    BY <2>1, <2>2 DEF Pages, RowStatuses
  <2>4. Reset(t, saw) = [rows EXCEPT ![t] = r]
    BY <2>1, <2>2 DEF Reset
  <2> QED BY <1>1, <2>1, <2>3, <2>4
<1>7. /\ \A u \in Tools \ {t} : Reset(t, saw)[u] = rows[u]
      /\ \A f \in ToSet(Files) : Reset(t, saw)[t][f] = IF saw[2][f] = "RUNNING" THEN "PENDING" ELSE rows[t][f]
  <2>1. rows \in [Tools -> Pages] /\ rows[t] \in Pages /\ DOMAIN rows[t] = ToSet(Files)
    BY <1>0, <1>1 DEF ToolsTypeOK, Pages
  <2> QED BY <1>1, <2>1 DEF Reset
\* what the step does to the task and leaves of the others
<1>8. \/ /\ saw[1] \in Transient /\ IsLive(t) /\ UNCHANGED <<record, rows, entries, told>>
      \/ /\ saw[1] \in Transient /\ ~IsLive(t) /\ record' = [record EXCEPT ![t] = "STOPPED"]
         /\ rows' = Reset(t, saw) /\ entries' = entries /\ told' = [told EXCEPT ![t] = "STOPPED"]
      \/ /\ saw[1] \in {"STOPPED", "FAILED"} /\ record' = record /\ rows' = Reset(t, saw)
         /\ entries' = IF IsLive(t) THEN [entries EXCEPT ![t] = "done"] ELSE entries
         /\ told' = [told EXCEPT ![t] = saw[1]]
      \/ /\ saw[1] = "COMPLETED" /\ record' = record /\ rows' = rows
         /\ entries' = IF IsLive(t) THEN [entries EXCEPT ![t] = "done"] ELSE entries
         /\ told' = [told EXCEPT ![t] = saw[1]]
      \/ /\ saw[1] = "none" /\ UNCHANGED <<record, rows, entries, told>>
  <2>1. CASE saw[1] \in Transient
    BY <1>3, <2>1 DEF Heals, Said, Settles, Final, Transient
  <2>2. CASE saw[1] \in {"STOPPED", "FAILED"}
    BY <1>3, <2>2 DEF Heals, Said, Settles, Final, Transient
  <2>3. CASE saw[1] = "COMPLETED"
    BY <1>3, <2>3 DEF Heals, Said, Settles, Final, Transient
  <2>4. CASE saw[1] = "none"
    BY <1>3, <2>4 DEF Heals, Said, Settles, Final, Transient
  <2> QED BY <1>1, <2>1, <2>2, <2>3, <2>4 DEF ToolStatuses, Final
<1>9. /\ record' \in [Tools -> ToolStatuses] /\ rows' \in [Tools -> Pages]
      /\ entries' \in [Tools -> {"none", "live", "done"}] /\ told' \in [Tools -> Final \cup {"none"}]
  <2>1. /\ record \in [Tools -> ToolStatuses] /\ entries \in [Tools -> {"none", "live", "done"}]
        /\ told \in [Tools -> Final \cup {"none"}]
    BY <1>0 DEF ToolsTypeOK
  <2>2. record' = record \/ record' = [record EXCEPT ![t] = "STOPPED"]
    BY <1>8
  <2>3. entries' = entries \/ entries' = [entries EXCEPT ![t] = "done"]
    BY <1>8
  <2>4. told' = told \/ \E st \in Final : told' = [told EXCEPT ![t] = st]
    BY <1>8 DEF Final
  <2>5. rows' \in [Tools -> Pages]
    BY <1>6, <1>8
  <2>6. record' \in [Tools -> ToolStatuses]
    BY <2>1, <2>2 DEF ToolStatuses, Final
  <2>7. told' \in [Tools -> Final \cup {"none"}]
    BY <2>1, <2>4
  <2> QED BY <2>1, <2>3, <2>5, <2>6, <2>7
<1>10. ToolsTypeOK'
  BY <1>0, <1>3, <1>9, IdleIsTyped DEF ToolsTypeOK, Pages, Files
<1>11. \A u \in Tools \ {t} : TaskIsTold(u)'
  <2>1. \A u \in Tools \ {t} : record'[u] = record[u] /\ rows'[u] = rows[u] /\ entries'[u] = entries[u] /\ told'[u] = told[u]
    BY <1>0, <1>1, <1>7, <1>8 DEF ToolsTypeOK
  <2> QED BY <1>3, <2>1, TaskStays DEF ToolsInv, KeepsTask
<1>12. TaskIsTold(t)'
  <2> USE DEF Writing, IsLive, Over, May, Files
  <2>1. CASE (saw[1] \in Transient /\ IsLive(t)) \/ saw[1] = "none"
    <3>1. UNCHANGED <<record, rows, entries, told>>
      BY <1>8, <2>1 DEF Transient
    <3> QED BY <1>1, <1>3, <3>1, TaskStays DEF KeepsTask
  <2>2. CASE saw[1] \in Transient /\ ~IsLive(t)
    <3>1. /\ record'[t] = "STOPPED" /\ told'[t] = "STOPPED" /\ entries'[t] = entries[t] /\ ~Writing(t)
          /\ \A f \in ToSet(Files) : rows'[t][f] = "COMPLETED" => rows[t][f] = "COMPLETED"
      BY <1>0, <1>1, <1>7, <1>8, <2>2 DEF ToolsTypeOK, Transient, TaskIsTold, WriterIsLive
    <3> QED BY <1>1, <1>3, <2>2, <3>1 DEF TaskIsTold, UnbornIsUntouched, WriterIsLive, RaisedIsDone,
       EntryHasThread,
              ToldIsOver, LoopIsSound, VerdictHolds, MadeIsListed, Transient
  <2>3. CASE saw[1] \in Final
    <3>1. /\ record'[t] = record[t] /\ told'[t] = saw[1] /\ entries'[t] # "live"
          /\ rows'[t] = rows[t] \/ (rows'[t] = Reset(t, saw)[t] /\ saw[1] # "COMPLETED")
      BY <1>0, <1>1, <1>8, <2>3 DEF ToolsTypeOK, Transient, Final
    <3>2. /\ ~Writing(t) /\ (record[t] = saw[1] \/ (May("raise") /\ record[t] = "FAILED"))
      BY <1>2, <2>3
    <3>3. \A f \in ToSet(Files) : rows'[t][f] = "COMPLETED" => rows[t][f] = "COMPLETED"
      BY <1>7, <3>1
    <3>4. /\ UnbornIsUntouched(t)' /\ WriterIsLive(t)' /\ RaisedIsDone(t)' /\ EntryHasThread(t)' /\ ToldIsOver(t)'
          /\ LoopIsSound(t)'
      BY <1>1, <1>3, <2>3, <3>1, <3>2 DEF TaskIsTold, UnbornIsUntouched, WriterIsLive, RaisedIsDone,
         EntryHasThread,
         ToldIsOver, LoopIsSound, Final, Transient
    <3>5. record[t] = "FAILED" /\ ~May("raise") => \A f \in ToSet(Files) : rows'[t][f] = rows[t][f]
      BY <1>2, <1>7, <3>1, <3>2
    <3>6. record[t] = "COMPLETED" => rows'[t] = rows[t]
      BY <3>1, <3>2
    <3>7. VerdictHolds(t)' /\ MadeIsListed(t)'
      BY <1>1, <1>3, <3>1, <3>3, <3>5, <3>6 DEF TaskIsTold, VerdictHolds, MadeIsListed
    <3> QED BY <3>4, <3>7 DEF TaskIsTold
  <2> QED BY <1>1, <2>1, <2>2, <2>3 DEF ToolStatuses
<1> QED BY <1>4, <1>5, <1>10, <1>11, <1>12 DEF ToolsInv

\* no task writes when caches are purged or the process ends
LEMMA CachesArePurged ==
    ASSUME ToolsInv, PurgeCaches
    PROVE  ToolsInv'
<1>1. ToolsTypeOK /\ \A t \in Tools : TaskIsTold(t)
  BY DEF ToolsInv
<1>2. /\ UNCHANGED <<tool, stopFlags, at, todo, outs, broke, told, ask>> /\ ask.op = "none"
      /\ entries' = Resolved(Tools) /\ \A t \in Tools : entries'[t] # "live"
      /\ record' = [t \in Tools |-> "none"] /\ result' = [t \in Tools |-> Nothing]
      /\ rows' = [t \in Tools |-> IF record[t] = "none" THEN rows[t] ELSE NoRows]
      /\ frozen' = [t \in Tools |-> IF record[t] = "none" THEN frozen[t] ELSE Nothing]
  BY DEF PurgeCaches, inThread
<1>3. \A t \in Tools : ~Writing(t)
  BY <1>1, <1>2 DEF TaskIsTold, WriterIsLive, IsLive, Resolved, Transient, Final
<1>4. NoRows \in Pages
  BY DEF NoRows, Pages, RowStatuses
<1>5. ToolsTypeOK'
  <2>1. Files' = Files /\ Pages' = Pages
    BY <1>2 DEF Files, Pages
  <2>2. rows' \in [Tools -> Pages] /\ entries' \in [Tools -> {"none", "live", "done"}]
    BY <1>1, <1>2, <1>4 DEF ToolsTypeOK, Resolved
  <2>3. /\ record' \in [Tools -> ToolStatuses]
        /\ result' \in [Tools -> (SUBSET ToSet(Files)) \cup {Nothing}]
        /\ frozen' \in [Tools -> (SUBSET ToSet(Files)) \cup {Nothing}]
    BY <1>1, <1>2 DEF ToolsTypeOK, ToolStatuses
  <2> QED BY <1>1, <1>2, <2>1, <2>2, <2>3 DEF ToolsTypeOK
<1>6. ASSUME NEW t \in Tools
      PROVE  TaskIsTold(t)'
  <2>1. /\ record'[t] = "none" /\ result'[t] = Nothing /\ entries'[t] # "live"
        /\ frozen'[t] = Nothing \/ frozen'[t] = frozen[t]
        /\ \A f \in ToSet(Files) : rows'[t][f] = "COMPLETED" => rows[t][f] = "COMPLETED"
    BY <1>2 DEF NoRows
  <2> QED BY <1>1, <1>2, <1>3, <1>6, <2>1 DEF TaskIsTold, UnbornIsUntouched, WriterIsLive, RaisedIsDone,
     EntryHasThread,
            ToldIsOver, LoopIsSound, VerdictHolds, MadeIsListed, Transient, Writing, IsLive, Over, May, Files
<1>7. OneToolWorks' /\ StartIsAlone' /\ PollIsSound'
  BY <1>2 DEF ToolsInv, OneToolWorks, Writing, StartIsAlone, PollIsSound
<1> QED BY <1>5, <1>6, <1>7 DEF ToolsInv

LEMMA ToolsRestart ==
    ASSUME ToolsInv, RestartTools
    PROVE  ToolsInv'
<1>1. ToolsTypeOK /\ \A t \in Tools : TaskIsTold(t)
  BY DEF ToolsInv
<1>2. /\ UNCHANGED <<tool, record, rows, result, outs, told>>
      /\ entries' = [t \in Tools |-> "none"] /\ stopFlags' = [t \in Tools |-> FALSE]
      /\ frozen' = [t \in Tools |-> Nothing]
      /\ ask' = [op |-> "none", id |-> ToolIds[1], live |-> {}, seen |-> Idle.seen]
      /\ at' = [t \in Tools |-> IF at[t] = "unborn" THEN "unborn" ELSE "ended"]
      /\ todo' = [t \in Tools |-> <<>>] /\ broke' = [t \in Tools |-> "no"]
  BY IdleIsTyped DEF RestartTools, Replies, onDisk
<1>3. ToolsTypeOK'
  <2>1. /\ ask'.op = "none" /\ ask'.id \in Tools /\ ask'.live = {}
        /\ ask' = [op |-> ask'.op, id |-> ask'.id, live |-> ask'.live, seen |-> ask'.seen]
    BY <1>2, IdleIsTyped
  <2>2. /\ Files' = Files /\ Pages' = Pages /\ todo' \in [Tools -> Seq(ToSet(Files))]
        /\ frozen' \in [Tools -> (SUBSET ToSet(Files)) \cup {Nothing}]
        /\ at' \in [Tools -> Places]
    BY <1>1, <1>2 DEF Files, Pages, Places, ToolsTypeOK
  <2> QED BY <1>1, <1>2, <2>1, <2>2 DEF ToolsTypeOK
<1>4. ASSUME NEW t \in Tools
      PROVE  TaskIsTold(t)'
  BY <1>1, <1>2, <1>4 DEF TaskIsTold, UnbornIsUntouched, WriterIsLive, RaisedIsDone, EntryHasThread,
            ToldIsOver, LoopIsSound, VerdictHolds, MadeIsListed, Transient, Writing, IsLive, Over, May, Files
<1>5. OneToolWorks' /\ StartIsAlone' /\ PollIsSound'
  BY <1>2 DEF OneToolWorks, Writing, StartIsAlone, PollIsSound
<1> QED BY <1>3, <1>4, <1>5 DEF ToolsInv

LEMMA ToolsStart ==
    ASSUME ToolsInit
    PROVE  ToolsInv
<1>1. NoRows \in Pages /\ "none" \notin {"PENDING", "RUNNING", "COMPLETED", "FAILED"}
  BY DEF NoRows, Pages, RowStatuses
<1>2. ToolsTypeOK
  <2>1. /\ ask.op = "none" /\ ask.id \in Tools /\ ask.live = {}
        /\ ask = [op |-> ask.op, id |-> ask.id, live |-> ask.live, seen |-> ask.seen]
    BY IdleIsTyped DEF ToolsInit
  <2>2. /\ record \in [Tools -> ToolStatuses] /\ rows \in [Tools -> Pages] /\ at \in [Tools -> Places]
        /\ result \in [Tools -> (SUBSET ToSet(Files)) \cup {Nothing}]
        /\ frozen \in [Tools -> (SUBSET ToSet(Files)) \cup {Nothing}]
    BY <1>1 DEF ToolsInit, ToolStatuses, Places
  <2>3. todo \in [Tools -> Seq(ToSet(Files))] /\ outs \in [Tools -> SUBSET ToSet(Files)]
    BY DEF ToolsInit
  <2> QED BY <2>1, <2>2, <2>3 DEF ToolsInit, ToolsTypeOK
<1>3. ASSUME NEW t \in Tools
      PROVE  TaskIsTold(t)
  BY <1>3 DEF ToolsInit, TaskIsTold, UnbornIsUntouched, WriterIsLive, RaisedIsDone, EntryHasThread, ToldIsOver,
     LoopIsSound, VerdictHolds, MadeIsListed, Transient, Writing, IsLive, Over, May, NoRows
<1>4. OneToolWorks /\ StartIsAlone /\ PollIsSound
  BY IdleIsTyped DEF ToolsInit, OneToolWorks, Writing, StartIsAlone, PollIsSound
<1> QED BY <1>2, <1>3, <1>4 DEF ToolsInv

LEMMA CallsStayTrue ==
    ASSUME ToolsInv, ToolCall
    PROVE  ToolsInv'
<1>1. tool \in ToolCasts
  BY DEF ToolsInv, ToolsTypeOK
<1>2. CASE StartReplacement
  BY <1>2, TaskIsSeeded, EmptyStartIsOver DEF StartReplacement, StartsEmpty
<1>3. CASE StartCompress \/ StartConvert \/ StartTxtToEpub \/ StartMerge
  <2>1. Files # <<>> /\ Seeds
    BY <1>1, <1>3, FilesAreFinite DEF StartCompress, StartConvert, StartTxtToEpub, StartMerge
  <2> QED BY <2>1, TaskIsSeeded
<1> QED BY <1>2, <1>3, StartIsAsked, StartJoins, StoppingIsMarked, SnapshotIsLoaded, SnapshotIsJudged,
           CachesArePurged, StopIsAsked DEF ToolCall

LEMMA ToolsAreTrue ==
    ASSUME ToolsInv
    PROVE  ToolsTellTheTruth
<1>1. ToolsTypeOK /\ (\A t \in Tools : TaskIsTold(t)) /\ tool \in ToolCasts
  BY DEF ToolsInv, ToolsTypeOK
<1>2. ToldIsKept /\ OneToolWorks /\ EntriesHaveThreads
  BY <1>1 DEF ToolsInv, TaskIsTold, ToldIsOver, EntryHasThread, ToldIsKept, EntriesHaveThreads
<1>3. VerdictsAreTrue
  <2> SUFFICES ASSUME NEW t \in Tools
               PROVE  /\ record[t] = "COMPLETED" => Count(t, "COMPLETED") = Len(Files) /\ result[t] = ToSet(Files)
                      /\ record[t] = "FAILED" /\ ~May("raise") =>
                            Count(t, "FAILED") > 0 /\ Count(t, "PENDING") = 0
    BY DEF VerdictsAreTrue
  <2>1. VerdictHolds(t)
    BY <1>1 DEF TaskIsTold
  <2>2. CASE record[t] = "COMPLETED"
    BY <1>1, <2>1, <2>2, CountsSay DEF VerdictHolds
  <2>3. CASE record[t] = "FAILED" /\ ~May("raise")
    <3>1. Count(t, "FAILED") \in Nat /\ Count(t, "FAILED") # 0
      BY <1>1, <2>1, <2>3, CountsSay DEF VerdictHolds
    <3>2. Count(t, "PENDING") = 0
      BY <1>1, <2>1, <2>3, CountsSay DEF VerdictHolds
    <3> QED BY <2>3, <3>1, <3>2
  <2> QED BY <2>2, <2>3
<1>4. ArtifactsAreMade
  <2> SUFFICES ASSUME NEW t \in Tools, Artifacts(t) # Nothing
               PROVE  /\ Artifacts(t) \subseteq outs[t]
                      /\ record[t] \in {"COMPLETED", "FAILED"} /\ ~May("raise") => Artifacts(t) = outs[t]
    BY DEF ArtifactsAreMade
  <2>1. VerdictHolds(t) /\ MadeIsListed(t) /\ outs[t] \subseteq ToSet(Files) /\ "nothing" \notin ToSet(Files)
    BY <1>1, FilesAreFinite DEF TaskIsTold, ToolsTypeOK
  <2>2. outs[t] # Nothing
    BY <2>1 DEF Nothing
  <2>3. Partial(t) \subseteq outs[t]
    BY <2>1 DEF Partial, MadeIsListed
  <2> QED BY <2>1, <2>2, <2>3 DEF Artifacts, VerdictHolds, MadeIsListed
<1> QED BY <1>2, <1>3, <1>4 DEF ToolsTellTheTruth

\* However a tool's threads, starts, stops, polls, purges and faults interleave (_purge_kind_for_start,
\* _reconcile_zombie, _resolve_live_running): a terminal status the page was told stays, one thread of a
\* kind works at a time, an entry that blocks a start has a thread, a verdict is what the files say, and
\* only outputs that were made are listed.
THEOREM ToolsStayTrue == ToolsSpec => []ToolsTellTheTruth
<1>1. ToolsInit => ToolsInv
  BY ToolsStart
<1>2. ToolsInv /\ [ToolsNext]_toolVars => ToolsInv'
  <2> SUFFICES ASSUME ToolsInv, [ToolsNext]_toolVars PROVE ToolsInv'
    OBVIOUS
  <2>1. CASE ToolsNext
    BY <2>1, CallsStayTrue, ToolsRestart, ThreadsStayTrue DEF ToolsNext
  <2>2. CASE UNCHANGED toolVars
    <3>1. KeepsTasks /\ UNCHANGED toolVars
      BY <2>2 DEF toolVars, KeepsTasks, KeepsTask
    <3>2. ToolsTypeOK' /\ StartIsAlone' /\ PollIsSound'
      BY <3>1 DEF toolVars, ToolsInv, ToolsTypeOK, StartIsAlone, PollIsSound, Pages, Files, Unused, IsLive,
         NoRows,
                  Writing, May
    <3> QED BY <3>1, <3>2, TasksAreKept DEF ToolsInv
  <2> QED BY <2>1, <2>2
<1>3. ToolsInv => ToolsTellTheTruth
  BY ToolsAreTrue
<1> QED BY <1>1, <1>2, <1>3, PTL DEF ToolsSpec
=============================================================================
