----------------------------- MODULE RecordReplay -----------------------------
(***************************************************************************)
(* The fixture store of tutu_mcp/replay: the files it keeps, the two       *)
(* programs that write them (an evaluation that records what it misses,    *)
(* and the driver that records the recipe), and the look-up by which any   *)
(* process replays them.                                                   *)
(*                                                                         *)
(* A file is written by write_text, which blocks the event loop but is not *)
(* atomic: a crash in it, or a reader in another process, meets a torn     *)
(* file.  One program writes at a time; readers are not actions, as they   *)
(* change no file: the properties speak of what any reader would find.     *)
(***************************************************************************)
EXTENDS Integers, Sequences, FiniteSets

CONSTANTS
  Tasks,     \* scenarios an evaluation runs concurrently
  Params,    \* parameters of a tool
  Values,    \* what an argument can be
  Default,   \* Default[p]: the default the schema declares, or "omitted"
  Requests,  \* [tool, args]: the calls agents make, one for each spelling
  Texts,     \* answers of upstream that are no error
  Errors,    \* answers of upstream that are one
  Specs,     \* the recipe: [tool, args, needs], needs an earlier entry or 0
  Rank       \* Rank[f]: the place of file f in the sorted directory

Request == [tool : {r.tool : r \in Requests}, args : [Params -> Values]]

ASSUME RequestAssumption ==
  /\ Default \in [Params -> Values] /\ {"omitted", "empty", "false"} \subseteq Values
  /\ Requests \subseteq Request
ASSUME AnswerAssumption == Texts \cap Errors = {}
ASSUME RecipeAssumption ==
  /\ Specs \in Seq([tool : {r.tool : r \in Requests}, args : [Params -> Values], needs : Nat])
  /\ \A i \in DOMAIN Specs : Specs[i].needs < i

Answers == Texts \cup Errors
Whole   == [kind : {"whole"}, args : [Params -> Values], answer : Answers]
Absent  == [kind |-> "absent"]
Torn    == [kind |-> "torn"]

VARIABLES
  disk,      \* disk[f]: what fixture file f holds
  catalog,   \* _meta/tools_list.json: absent, torn or whole
  run,       \* the program that writes: none, listing, evals or recipe
  next, got, \* recipe: the entry to record, the entries that gave a payload
  pc, req,   \* evals: what each scenario does, and the call it makes
  saving, draft, \* the write in progress, and what it will leave in which file
  recorded,  \* every call RecordingBackend has recorded in a run
  said       \* <<tool, meaning, answer>>: what upstream ever answered

recipeVars == <<next, got>>
taskVars   == <<pc, req>>
writeVars  == <<disk, saving, draft>>
history    == <<recorded, said>>
vars == <<disk, catalog, run, recipeVars, taskVars, saving, draft, history>>

-----------------------------------------------------------------------------
(* Keys and files                                                          *)

\* (Mutation: a truth test, by which False is no filter either.)
IsEmptyFalsy(v) == v \in {"omitted", "empty", "false"}

\* An argument that is absent, None, "", [] or {}.
IsEmpty(v) == v \in {"omitted", "empty"}

\* normalize_arguments: what is left of the arguments under these defaults.
Normalize(args, defaults) ==
  {<<p, args[p]>> : p \in {q \in Params : ~IsEmpty(args[q]) /\ args[q] # defaults[q]}}

\* No catalog was read: schema_defaults falls back to exact matching.
NoDefaults == [p \in Params |-> "omitted"]

\* (Mutation: the digest covers the names of the arguments only.)
SlugOfNames(args) == {<<p, "omitted">> : p \in {q \in Params : ~IsEmpty(args[q])}}

\* scenario_slug: the digest of the normalized arguments, taken to be unique.  Its
\* readable part can only give two spellings that differ in an empty argument a
\* file each, as two that differ in a default have here.
Slug(args) == Normalize(args, NoDefaults)

\* The file a recorded call goes to, and the one of an entry of the recipe.
AutoFile(r)   == [tool |-> r.tool, slug |-> Slug(r.args), spec |-> 0]
RecipeFile(i) == [tool |-> Specs[i].tool, slug |-> {}, spec |-> i]
Files     == {AutoFile(r) : r \in Requests} \cup {RecipeFile(i) : i \in DOMAIN Specs}

ASSUME RankAssumption ==
  Rank \in [Files -> Nat] /\ \A f, g \in Files : Rank[f] = Rank[g] => f = g

\* What upstream takes arguments to mean: an empty one is the default.
Meaning(args) ==
  [p \in Params |-> IF args[p] \in {"omitted", "empty"} THEN Default[p] ELSE args[p]]

-----------------------------------------------------------------------------
(* find_result                                                             *)

\* load_scenarios reads the whole directory of a tool, and fails on any bad file.
Scenarios(tool) == {f \in Files : f.tool = tool /\ disk[f] # Absent}
Corrupt(tool)   == \E f \in Scenarios(tool) : disk[f] = Torn

Matches(r, defaults) ==
  {f \in Scenarios(r.tool) : Normalize(disk[f].args, defaults) = Normalize(r.args, defaults)}

First(files) == CHOOSE f \in files : \A g \in files : Rank[f] <= Rank[g]

Hit(r, defaults)   == ~Corrupt(r.tool) /\ Matches(r, defaults) # {}
Found(r, defaults) == disk[First(Matches(r, defaults))].answer

\* (Mutation: a torn file is passed over, as if it were not there.)
MissPastTorn(r, defaults) ==
  ~\E f \in Scenarios(r.tool) :
     disk[f] # Torn /\ Normalize(disk[f].args, defaults) = Normalize(r.args, defaults)

Miss(r, defaults) == ~Corrupt(r.tool) /\ Matches(r, defaults) = {}

-----------------------------------------------------------------------------
(* Writing a file                                                          *)

Draft     == [file : Files, args : [Params -> Values], answer : Answers]
NoDraft   == [file |-> "none"]
NoRequest == [tool |-> "none"]

Init ==
  /\ disk = [f \in Files |-> Absent] /\ catalog = "absent"
  /\ run = "none" /\ next = 0 /\ got = {}
  /\ pc = [t \in Tasks |-> "idle"] /\ req = [t \in Tasks |-> NoRequest]
  /\ saving = "nothing" /\ draft = NoDraft
  /\ recorded = {} /\ said = {}

\* write_text has truncated the file of call r and not written it yet.
BeginSave(f, r, a) ==
  /\ saving' = "result"
  /\ draft' = [file |-> f, args |-> r.args, answer |-> a]
  /\ disk' = [disk EXCEPT ![f] = Torn]

EndSave ==
  /\ saving = "result"
  /\ saving' = "nothing" /\ draft' = NoDraft
  /\ disk' = [disk EXCEPT ![draft.file] =
                [kind |-> "whole", args |-> draft.args, answer |-> draft.answer]]

Says(r, a) == said' = said \cup {<<r.tool, Meaning(r.args), a>>}

\* The program ends and forgets; the files stay as they are.
Quit ==
  /\ run' = "none" /\ next' = 0 /\ got' = {}
  /\ pc' = [t \in Tasks |-> "idle"] /\ req' = [t \in Tasks |-> NoRequest]
  /\ saving' = "nothing" /\ draft' = NoDraft
  /\ UNCHANGED <<disk, catalog, history>>

-----------------------------------------------------------------------------
(* Both programs begin with the catalog                                    *)

\* An evaluation that records; a torn catalog ends it before it begins.
StartEvals ==
  /\ run = "none" /\ catalog # "torn"
  /\ run' = IF catalog = "whole" THEN "evals" ELSE "listing"
  /\ UNCHANGED <<catalog, recipeVars, taskVars, writeVars, history>>

StartRecipe ==
  /\ run = "none"
  /\ run' = "recipe"
  /\ UNCHANGED <<catalog, recipeVars, taskVars, writeVars, history>>

\* tools/list is awaited.
Listing == saving = "nothing" /\ (run = "listing" \/ (run = "recipe" /\ next = 0))

ListArrives ==
  /\ Listing
  /\ saving' = "catalog" /\ catalog' = "torn"
  /\ UNCHANGED <<disk, run, recipeVars, taskVars, draft, history>>

ListFails == Listing /\ Quit

CatalogSaved ==
  /\ saving = "catalog"
  /\ saving' = "nothing" /\ catalog' = "whole"
  /\ IF run = "listing" THEN run' = "evals" /\ UNCHANGED next ELSE next' = 1 /\ UNCHANGED run
  /\ UNCHANGED <<disk, got, taskVars, draft, history>>

-----------------------------------------------------------------------------
(* RecordingBackend, called by concurrent scenarios                        *)

Running(t, at) == run = "evals" /\ saving = "nothing" /\ pc[t] = at

\* A call that misses goes to upstream.  One that hits, or meets a corrupt file,
\* ends in this step and changes nothing.
Ask(t, r) ==
  /\ Running(t, "idle") /\ Miss(r, Default)
  /\ pc' = [pc EXCEPT ![t] = "fetching"]
  /\ req' = [req EXCEPT ![t] = r]
  /\ UNCHANGED <<catalog, run, recipeVars, writeVars, history>>

Return(t) ==
  /\ pc' = [pc EXCEPT ![t] = "idle"]
  /\ req' = [req EXCEPT ![t] = NoRequest]

FetchFails(t) ==
  /\ Running(t, "fetching")
  /\ Return(t)
  /\ UNCHANGED <<catalog, run, recipeVars, writeVars, history>>

\* (Mutation: an error is recorded like any other answer.)
FetchRefusedSaved(t, a) ==
  /\ Running(t, "fetching")
  /\ Says(req[t], a) /\ BeginSave(AutoFile(req[t]), req[t], a)
  /\ pc' = [pc EXCEPT ![t] = "saving"]
  /\ UNCHANGED <<catalog, run, recipeVars, req, recorded>>

\* Upstream answers with an error: the miss stays open.
FetchRefused(t, a) ==
  /\ Running(t, "fetching")
  /\ Says(req[t], a)
  /\ Return(t)
  /\ UNCHANGED <<catalog, run, recipeVars, writeVars, recorded>>

FetchAnswers(t, a) ==
  /\ Running(t, "fetching")
  /\ Says(req[t], a) /\ BeginSave(AutoFile(req[t]), req[t], a)
  /\ pc' = [pc EXCEPT ![t] = "saving"]
  /\ UNCHANGED <<catalog, run, recipeVars, req, recorded>>

Recorded(t) ==
  /\ pc[t] = "saving"
  /\ EndSave
  /\ Return(t)
  /\ recorded' = recorded \cup {req[t]}
  /\ UNCHANGED <<catalog, run, recipeVars, said>>

EvalsEnd == run = "evals" /\ (\A t \in Tasks : pc[t] = "idle") /\ Quit

-----------------------------------------------------------------------------
(* record_fixtures                                                         *)

AtEntry == run = "recipe" /\ saving = "nothing" /\ next \in DOMAIN Specs

\* An entry is called, if the one it needs gave a payload; errors are saved too.
RecipeCall(a) ==
  /\ AtEntry /\ Specs[next].needs \in got \cup {0}
  /\ Says(Specs[next], a) /\ BeginSave(RecipeFile(next), Specs[next], a)
  /\ UNCHANGED <<catalog, run, recipeVars, taskVars, recorded>>

\* An answer that is no error is a payload if it parses.
RecipeSaved ==
  /\ run = "recipe" /\ EndSave
  /\ next' = next + 1
  /\ got' \in {got} \cup (IF draft.answer \in Texts THEN {got \cup {next}} ELSE {})
  /\ UNCHANGED <<catalog, run, taskVars, history>>

\* (Mutation: the end of the list is not noticed.)
RecipeSkipForever ==
  /\ run = "recipe" /\ saving = "nothing" /\ next > 0
  /\ next' = next + 1
  /\ UNCHANGED <<catalog, run, got, taskVars, writeVars, history>>

\* The call raised, or what it depends on is missing.
RecipeSkip ==
  /\ AtEntry
  /\ next' = next + 1
  /\ UNCHANGED <<catalog, run, got, taskVars, writeVars, history>>

RecipeDone == run = "recipe" /\ saving = "nothing" /\ next > Len(Specs) /\ Quit

-----------------------------------------------------------------------------
\* The program is killed, perhaps in the middle of a write.
Crash == run # "none" /\ Quit

Next ==
  \/ StartEvals \/ StartRecipe \/ ListArrives \/ ListFails \/ CatalogSaved
  \/ \E t \in Tasks :
       \/ FetchFails(t) \/ Recorded(t)
       \/ \E r \in Requests : Ask(t, r)
       \/ \E a \in Errors : FetchRefused(t, a)
       \/ \E a \in Texts : FetchAnswers(t, a)
  \/ \E a \in Answers : RecipeCall(a)
  \/ RecipeSaved \/ RecipeSkip \/ RecipeDone \/ EvalsEnd \/ Crash

Spec == Init /\ [][Next]_vars

-----------------------------------------------------------------------------
(* Properties                                                              *)

TypeOK ==
  /\ disk \in [Files -> Whole \cup {Absent, Torn}]
  /\ catalog \in {"absent", "torn", "whole"}
  /\ run \in {"none", "listing", "evals", "recipe"}
  /\ next \in 0..(Len(Specs) + 1) /\ got \subseteq DOMAIN Specs
  /\ pc \in [Tasks -> {"idle", "fetching", "saving"}]
  /\ req \in [Tasks -> Requests \cup {NoRequest}]
  /\ saving \in {"nothing", "catalog", "result"}
  /\ draft \in Draft \cup {NoDraft}
  /\ recorded \subseteq Requests
  /\ said \subseteq {r.tool : r \in Requests} \X [Params -> Values] \X Answers

\* Whatever a reader is served, with the defaults of the catalog or without, is
\* an answer upstream gave to a call of that very meaning: pruning arguments
\* never makes two different requests one.  (normalize_arguments; the test
\* "a_non_default_value_is_a_different_request_and_still_misses".)
GenuineAnswers ==
  \A r \in Requests, defaults \in {Default, NoDefaults} :
    Hit(r, defaults) => <<r.tool, Meaning(r.args), Found(r, defaults)>> \in said

\* A recorded call is never a miss again, in this run or any later one: any
\* spelling of it with the catalog's defaults, and the spelling itself without
\* them, is found, or fails on a torn file of its tool, in which case it is not
\* recorded anew.  SettledRecordings says which files can be torn by then.
RecordedReplays ==
  \A c \in recorded, r \in Requests :
    /\ r.tool = c.tool /\ Meaning(r.args) = Meaning(c.args) => ~Miss(r, Default)
    /\ ~Miss(c, NoDefaults)

\* Another scenario missed on the file of c before c was recorded, and has not yet
\* written it a second time.
Contested(c) == \E t \in Tasks : pc[t] # "idle" /\ AutoFile(req[t]) = AutoFile(c)

\* A recorded call that no racing scenario is still after keeps its file for good:
\* no evaluation, no recipe and no crash in one ever touches it again.  Only the
\* second write of a race can tear a recording, and what is torn stays torn.
\* (RecordingBackend.call records on a FixtureMiss alone; recipe files are others.)
SettledRecordings ==
  [][\A c \in recorded :
       ~Contested(c) => ~Contested(c)' /\ disk'[AutoFile(c)] = disk[AutoFile(c)]]_vars

\* No failure of upstream is ever replayed but for a call the recipe makes: an
\* evaluation never freezes an outage into the fixtures.
OutagesNotReplayed ==
  \A r \in Requests, defaults \in {Default, NoDefaults} :
    Hit(r, defaults) /\ Found(r, defaults) \in Errors =>
      \E i \in DOMAIN Specs :
        Specs[i].tool = r.tool /\ Meaning(Specs[i].args) = Meaning(r.args)
=============================================================================
