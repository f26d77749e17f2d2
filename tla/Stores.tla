------------------------------- MODULE Stores -------------------------------
(***************************************************************************)
(* The libraries of the user and what is chosen from them: model profiles  *)
(* and, in a file of their own, their keys; prompts; workflow presets;     *)
(* the settings.  The HTTP server handles one call at a time, but a call   *)
(* writes several files and tells the task service, and may fail between   *)
(* two of them.  A task of the kind runs on what was chosen, and a switch  *)
(* of the choice waits until its thread is through.  The kind is           *)
(* translation; the other two have no advanced presets.                    *)
(***************************************************************************)
EXTENDS Naturals, FiniteSets

CONSTANTS
    Profiles, Prompts, Presets,  \* ids
    DefaultPrompt,  \* the seeded prompt
    NoId,
    Bodies,         \* presets a user may save: [model, second, prompt, lang, enabled, advanced]
    StoreCasts,     \* [calls, creates, breaks]: calls that are made; bounds of creations and of faults
    FirstLang, OtherLang

Langs == {FirstLang, OtherLang}
\* no profile has the id of none, and a preset that is saved names a model
ASSUME StoresAssumption ==
    /\ NoId \notin Profiles
    /\ Bodies \subseteq [model : Profiles, second : Profiles \cup {NoId}, prompt : Prompts \cup {DefaultPrompt},
                          lang : Langs, enabled : BOOLEAN, advanced : BOOLEAN]

VARIABLES
    desk,        \* the cast
    profileFile, \* id -> number of its creation, 0 if there is none
    keyFile,     \* id -> the creation its keys were given to, 0 if it has none
    smallOnes,   \* profiles with a smaller budget than the others
    promptFile,  \* prompts of the user: id -> "on", "off", "gone"
    presetFile,  \* id -> body or NoPreset
    choice,      \* settings: [model, prompt, preset, lang]
    task,         \* the task: [at, named, uses, prompt, lang, route, frozen, fresh, next]; named: models in its record
    answer,      \* ghost: the last selection: [said, before]
    torn,        \* ghost: what a call cut short has left half done
    created, broken
storeVars == <<desk, profileFile, keyFile, smallOnes, promptFile, presetFile, choice, task, answer, torn, created, broken>>

NoPreset == [model |-> NoId, second |-> NoId, prompt |-> NoId, lang |-> NoId, enabled |-> FALSE, advanced |-> FALSE]
NoPlan   == [models |-> {}, first |-> NoId, prompt |-> NoId, preset |-> NoId, lang |-> NoId]
NoRun    == [at |-> "none", named |-> {}, uses |-> {}, prompt |-> NoId, lang |-> NoId, route |-> NoId, frozen |-> NoId,
             fresh |-> FALSE, next |-> NoPlan]
NoAnswer == [said |-> "none", before |-> NoPlan]

StoresInit ==
    /\ desk \in StoreCasts
    /\ profileFile = [m \in Profiles |-> 1] /\ keyFile = [m \in Profiles |-> 1] /\ smallOnes = {}
    /\ promptFile = [p \in Prompts |-> "on"] /\ presetFile = [w \in Presets |-> NoPreset]
    /\ choice = [model |-> NoId, prompt |-> NoId, preset |-> NoId, lang |-> FirstLang]
    /\ task = NoRun /\ answer = NoAnswer /\ torn = {} /\ created = 1 /\ broken = 0

Libraries == <<profileFile, keyFile, smallOnes, promptFile, presetFile>>
Called(name) == name \in desk.calls /\ UNCHANGED <<desk>>
\* a call of n writes ends after upto of them
Breaks(n, upto) ==
    /\ upto = n \/ broken < desk.breaks
    /\ broken' = IF upto = n THEN broken ELSE broken + 1
WritesTo(n, upto, mark) == Breaks(n, upto) /\ torn' = IF upto = n THEN torn ELSE torn \cup mark
Whole     == UNCHANGED <<broken, torn>>
Forgets   == answer' = NoAnswer
HasProfile(m) == m # NoId /\ profileFile[m] # 0
HasPrompt(p)  == p = DefaultPrompt \/ (p \in Prompts /\ promptFile[p] # "gone")

-----------------------------------------------------------------------------
(* What a task would run on: _build_translation_config *)

\* get_active: a prompt that is gone or switched off is replaced by the default
ActivePrompt(p) == IF p \in Prompts /\ promptFile[p] = "on" THEN p ELSE DefaultPrompt
Usable(m)        == HasProfile(m) /\ keyFile[m] # 0
RoutesOf(body)  == {body.model, body.second} \ {NoId}
Fits(body)      == body.second \in smallOnes => body.model \in smallOnes
PlanFor(c) ==
    LET body == IF c.preset = NoId THEN NoPreset ELSE presetFile[c.preset]
    IN IF c.preset # NoId
       THEN IF body.enabled /\ body.advanced /\ body.lang = c.lang /\ Fits(body) /\ \A m \in RoutesOf(body) : Usable(m)
            THEN [models |-> RoutesOf(body), first |-> body.model, prompt |-> ActivePrompt(body.prompt),
                  preset |-> c.preset, lang |-> c.lang]
            ELSE NoPlan
       ELSE IF Usable(c.model)
            THEN [models |-> {c.model}, first |-> c.model, prompt |-> ActivePrompt(c.prompt),
                  preset |-> NoId, lang |-> c.lang]
            ELSE NoPlan

\* _build_selection_config: the files and languages of the task must stay
PlanForRun(c) == IF PlanFor(c).lang = task.lang THEN PlanFor(c) ELSE NoPlan
Switches      == task.at = "live" \/ (task.at = "stopping" /\ task.next # NoPlan)
Refused(c)    == Switches /\ PlanForRun(c) = NoPlan
\* selection_changed: the thread is stopped and the rest waits for the new plan
Switched(c)   == IF Switches THEN [task EXCEPT !.at = "stopping", !.next = PlanForRun(c)] ELSE task
\* _stop_tasks_using_selection: by what the record and a waiting plan name
Concerned(models, prompts) ==
    task.at \in {"live", "stopping"}
        /\ ((task.named \cup task.next.models) \cap models # {} \/ {task.prompt, task.next.prompt} \cap prompts # {})
\* mutant: the waiting plan is left
StoppedForWaiting(models, prompts) ==
    IF Concerned(models, prompts) THEN [task EXCEPT !.at = "stopping"] ELSE task
StoppedFor(models, prompts) ==
    IF Concerned(models, prompts) THEN [task EXCEPT !.at = "stopping", !.next = NoPlan] ELSE task

-----------------------------------------------------------------------------
(* Model profiles *)

\* create, duplicate: the body first, then the keys
CreateProfile(m, withKeys) ==
    /\ Called("create") /\ profileFile[m] = 0 /\ created < desk.creates /\ created' = created + 1
    /\ \E upto \in (IF withKeys THEN {1, 2} ELSE {2}) :
           /\ WritesTo(2, upto, {})
           /\ profileFile' = [profileFile EXCEPT ![m] = created + 1]
           /\ keyFile' = IF withKeys /\ upto = 2 THEN [keyFile EXCEPT ![m] = created + 1] ELSE keyFile
    /\ UNCHANGED <<smallOnes, promptFile, presetFile, choice, task>> /\ Forgets
\* update: the fields but not the keys, here the budget
UpdateProfile(m) ==
    /\ Called("update") /\ HasProfile(m) /\ Whole
    /\ smallOnes' = (smallOnes \ {m}) \cup ({m} \ smallOnes)
    /\ UNCHANGED <<profileFile, keyFile, promptFile, presetFile, choice, task, created>> /\ Forgets
SetApiKey(m, given) ==
    /\ Called("keys") /\ HasProfile(m) /\ Whole
    /\ keyFile' = [keyFile EXCEPT ![m] = IF given THEN profileFile[m] ELSE 0]
    /\ UNCHANGED <<profileFile, smallOnes, promptFile, presetFile, choice, task, created>> /\ Forgets
\* the task sends to the model, and its record does not name it: not yet, or not after a
\* continuation (see ContinueRun)
Overlooked(m) == m \in task.uses \ task.named
\* the body, the keys, the choice, the tasks
DeleteProfile(m) ==
    /\ Called("delete") /\ HasProfile(m)
    /\ \E upto \in 1..4 :
           /\ Breaks(4, upto)
           /\ torn' = torn \cup {<<"keys", "choice", "task">>[k] : k \in upto..3} \cup IF Overlooked(m) THEN {"task"} ELSE {}
           /\ profileFile' = [profileFile EXCEPT ![m] = 0]
           /\ keyFile' = IF upto >= 2 THEN [keyFile EXCEPT ![m] = 0] ELSE keyFile
           /\ choice' = IF upto >= 3 /\ choice.model = m THEN [choice EXCEPT !.model = NoId] ELSE choice
           /\ task' = IF upto = 4 THEN StoppedFor({m}, {}) ELSE task
    /\ smallOnes' = smallOnes \ {m}
    /\ UNCHANGED <<promptFile, presetFile, created>> /\ Forgets

-----------------------------------------------------------------------------
(* Prompts *)

CreatePrompt(p) ==
    /\ Called("prompts") /\ promptFile[p] = "gone" /\ created < desk.creates /\ created' = created + 1 /\ Whole
    /\ promptFile' = [promptFile EXCEPT ![p] = "on"]
    /\ UNCHANGED <<profileFile, keyFile, smallOnes, presetFile, choice, task>> /\ Forgets
UpdatePrompt(p) ==
    /\ Called("prompts") /\ promptFile[p] # "gone" /\ Whole
    /\ promptFile' = [promptFile EXCEPT ![p] = IF @ = "on" THEN "off" ELSE "on"]
    /\ UNCHANGED <<profileFile, keyFile, smallOnes, presetFile, choice, task, created>> /\ Forgets
DeletePrompt(p) ==
    /\ Called("prompts") /\ promptFile[p] # "gone"
    /\ \E upto \in 1..3 :
           /\ WritesTo(3, upto, {<<"choice", "task">>[k] : k \in upto..2})
           /\ promptFile' = [promptFile EXCEPT ![p] = "gone"]
           /\ choice' = IF upto >= 2 /\ choice.prompt = p THEN [choice EXCEPT !.prompt = NoId] ELSE choice
           /\ task' = IF upto = 3 THEN StoppedFor({}, {p}) ELSE task
    /\ UNCHANGED <<profileFile, keyFile, smallOnes, presetFile, created>> /\ Forgets

-----------------------------------------------------------------------------
(* The choice *)

\* save_selection: written, told to the task service, and taken back if that refuses: the
\* fields of the app first, then those of the module
Selects(new) ==
    /\ UNCHANGED <<Libraries, created>>
    /\ IF Refused(new)
       THEN \E upto \in 1..3 :
                /\ WritesTo(3, upto, {"choice"})
                /\ choice' = IF upto = 1 THEN new
                             ELSE IF upto = 2 THEN [choice EXCEPT !.lang = new.lang] ELSE choice
                /\ answer' = IF upto = 3 THEN [said |-> "refused", before |-> choice] ELSE NoAnswer
                /\ UNCHANGED task
       ELSE /\ choice' = new /\ task' = Switched(new) /\ Whole
            /\ answer' = [NoAnswer EXCEPT !.said = "accepted"]
SelectModel(m) ==
    /\ Called("select") /\ (m = NoId \/ HasProfile(m))
    /\ Selects([choice EXCEPT !.model = m, !.preset = NoId])
SelectPrompt(p) ==
    /\ Called("select") /\ (p = NoId \/ HasPrompt(p))
    /\ Selects([choice EXCEPT !.prompt = p, !.preset = NoId])
\* settings.save_partial writes what it is given and tells nobody
SaveLanguage(lang) ==
    /\ Called("settings") /\ lang # choice.lang /\ Whole
    /\ choice' = [choice EXCEPT !.lang = lang]
    /\ UNCHANGED <<Libraries, task, created>> /\ Forgets
ResetApp ==
    /\ Called("settings") /\ Whole
    /\ choice' = [model |-> NoId, prompt |-> NoId, preset |-> NoId, lang |-> choice.lang]
    /\ UNCHANGED <<Libraries, task, created>> /\ Forgets

-----------------------------------------------------------------------------
(* Workflow presets *)

\* _coerce_preset: what it names is there, and the routes have the budget of the first
Valid(body) ==
    /\ \A m \in RoutesOf(body) : HasProfile(m)
    /\ HasPrompt(body.prompt) /\ (body.advanced => Fits(body))
SavePreset(w, body) ==
    /\ Called("presets") /\ Valid(body) /\ Whole
    /\ presetFile' = [presetFile EXCEPT ![w] = body]
    /\ UNCHANGED <<profileFile, keyFile, smallOnes, promptFile, choice, task, created>> /\ Forgets
\* selection_invalidated: the task goes on with the model that is chosen, or stops
DeletePreset(w) ==
    /\ Called("presets") /\ presetFile[w] # NoPreset
    /\ presetFile' = [presetFile EXCEPT ![w] = NoPreset]
    /\ IF choice.preset = w
       THEN \E upto \in 1..2 :
                LET new == [choice EXCEPT !.preset = NoId]
                IN /\ WritesTo(2, upto, {"choice"})
                   /\ choice' = IF upto = 2 THEN new ELSE choice
                   /\ task' = IF upto = 1 THEN task
                             ELSE IF Refused(new) THEN [task EXCEPT !.at = "stopping", !.next = NoPlan] ELSE Switched(new)
       ELSE UNCHANGED <<choice, task>> /\ Whole
    /\ UNCHANGED <<profileFile, keyFile, smallOnes, promptFile, created>> /\ Forgets
ApplyPreset(w) ==
    LET body == presetFile[w]
    IN /\ Called("presets") /\ body # NoPreset /\ Valid(body)
       /\ Selects([model |-> body.model, prompt |-> body.prompt, lang |-> body.lang,
                   preset |-> IF body.advanced THEN w ELSE NoId])

-----------------------------------------------------------------------------
(* The task *)

Undisturbed     == UNCHANGED <<desk, Libraries, choice, torn, created>>
Runs(plan, named) ==
    [task EXCEPT !.at = "live", !.named = named, !.uses = plan.models, !.prompt = plan.prompt,
                !.route = plan.preset, !.next = NoPlan]
\* start_translation: the placeholder names the first model only
StartRun ==
    /\ "start" \in desk.calls /\ task.at \in {"none", "stopped"} /\ PlanFor(choice) # NoPlan
    /\ LET plan == PlanFor(choice)
       IN task' = [Runs(plan, {plan.first}) EXCEPT !.lang = plan.lang, !.frozen = NoId, !.fresh = TRUE]
    /\ Undisturbed /\ UNCHANGED broken /\ Forgets
\* the orchestrator has read the books and seeds the record, with the routes
SeedsRecord ==
    /\ task.at \in {"live", "stopping"} /\ task.fresh
    /\ task' = [task EXCEPT !.named = task.uses, !.frozen = task.route, !.fresh = FALSE]
    /\ Undisturbed /\ UNCHANGED <<broken, answer>>
StopRun ==
    /\ task.at \in {"live", "stopping"} /\ task' = [task EXCEPT !.at = "stopping", !.next = NoPlan]
    /\ task' # task /\ Undisturbed /\ UNCHANGED broken /\ Forgets
\* the thread is through, with all of the book or a part of it
RunEnds ==
    /\ task.at \in {"live", "stopping"}
    /\ \E end \in {"none", "stopped"} : task' = IF end = "none" THEN NoRun ELSE [task EXCEPT !.at = end, !.next = NoPlan]
    /\ Undisturbed /\ UNCHANGED broken /\ Forgets
\* _resume_after_selection_switch: the rest runs on the new plan, which the record names
ResumesSwitched ==
    /\ task.at = "stopping" /\ task.next # NoPlan /\ ~task.fresh
    /\ task' = [Runs(task.next, task.next.models) EXCEPT !.frozen = task.next.preset]
    /\ Undisturbed /\ UNCHANGED <<broken, answer>>
\* _continue_translation: with the routes of the record as long as their preset is chosen, otherwise
\* with what is chosen; a record without routes gets none by this
ContinueRun ==
    /\ "start" \in desk.calls /\ task.at = "stopped"
    /\ IF task.frozen # NoId /\ task.frozen = choice.preset
       THEN (\A m \in task.uses : Usable(m)) /\ task' = [task EXCEPT !.at = "live"]
       ELSE LET plan == IF task.frozen = NoId THEN PlanFor(choice) ELSE PlanForRun(choice)
            IN /\ plan # NoPlan
               /\ task' = IF task.frozen = NoId THEN Runs(plan, {plan.first})
                         ELSE [Runs(plan, plan.models) EXCEPT !.frozen = plan.preset]
    /\ Undisturbed /\ UNCHANGED broken /\ Forgets
\* the program ends: no thread, no waiting plan
Restarts ==
    /\ task.at \in {"live", "stopping"} /\ broken < desk.breaks /\ broken' = broken + 1
    /\ task' = [task EXCEPT !.at = "stopped", !.next = NoPlan]
    /\ Undisturbed /\ Forgets

StoresNext ==
    \/ \E m \in Profiles : \/ UpdateProfile(m) \/ DeleteProfile(m)
                           \/ \E given \in BOOLEAN : CreateProfile(m, given) \/ SetApiKey(m, given)
    \/ \E p \in Prompts : CreatePrompt(p) \/ UpdatePrompt(p) \/ DeletePrompt(p)
    \/ \E m \in Profiles \cup {NoId} : SelectModel(m)
    \/ \E p \in Prompts \cup {DefaultPrompt, NoId} : SelectPrompt(p)
    \/ \E lang \in Langs : SaveLanguage(lang)
    \/ ResetApp
    \/ \E w \in Presets : ApplyPreset(w) \/ DeletePreset(w) \/ \E body \in Bodies : SavePreset(w, body)
    \/ StartRun \/ SeedsRecord \/ StopRun \/ RunEnds \/ ResumesSwitched \/ ContinueRun \/ Restarts
StoresSpec == StoresInit /\ [][StoresNext]_storeVars

-----------------------------------------------------------------------------
(* Properties *)

\* a profile has the keys that were given to it and never those of one that was deleted
KeysAreOwn == "keys" \notin torn => \A m \in Profiles : keyFile[m] \in {0, profileFile[m]}
\* what is chosen is there
ChoiceExists ==
    "choice" \notin torn =>
        /\ choice.model = NoId \/ HasProfile(choice.model)
        /\ choice.prompt = NoId \/ HasPrompt(choice.prompt)
        /\ choice.preset = NoId \/ presetFile[choice.preset] # NoPreset
\* a running task, and one that waits for its switch, uses no model that was deleted, nor, outside of
\* frozen routes, a deleted prompt; unless the record did not name the model when it was deleted
RunUsesWhatExists ==
    "task" \notin torn =>
        /\ task.at = "live" => \A m \in task.named : HasProfile(m)
        /\ task.at = "live" /\ task.frozen = NoId => HasPrompt(task.prompt)
        /\ \A m \in task.next.models : HasProfile(m)
        /\ task.next # NoPlan => HasPrompt(task.next.prompt) /\ task.next.lang = task.lang
\* a selection the task cannot take leaves the settings as they were; one it has taken is what it
\* goes on with
SelectionsAreWhole ==
    /\ answer.said = "refused" => choice = answer.before
    /\ answer.said = "accepted" /\ task.at = "live" => task.uses = PlanFor(choice).models
\* The libraries are sound: keys, choice and tasks name what is there, and a choice is whole
StoresAreSound == KeysAreOwn /\ ChoiceExists /\ RunUsesWhatExists /\ SelectionsAreWhole
=============================================================================
