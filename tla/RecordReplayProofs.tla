-------------------------- MODULE RecordReplayProofs --------------------------
(***************************************************************************)
(* What the fixture store serves is genuine and what was recorded stays    *)
(* found, for any tools, parameters, recipes and orders of the files, and  *)
(* across any crashes.                                                     *)
(***************************************************************************)
EXTENDS RecordReplay, SequenceTheorems, FiniteSetTheorems, WellFoundedInduction, TLAPS

\* A non-empty set of numbers has a least one.
LEMMA LeastNumber ==
  ASSUME NEW T, T \subseteq Nat, T # {}
  PROVE  \E i \in T : \A j \in T : i <= j
<1> DEFINE R == OpToRel(<, Nat)
<1>1. IsWellFoundedOn(R, Nat)
  BY NatLessThanWellFounded
<1>2. \A x, y \in T : y < x => <<y, x>> \in R
  BY DEF OpToRel
<1> HIDE DEF R
<1>3. PICK i \in T : \A j \in T : <<j, i>> \notin R
  BY <1>1, WFMin
<1>4. \A j \in T : ~(j < i) /\ j \in Nat /\ i \in Nat
  BY <1>2, <1>3
<1>5. QED
  BY <1>4

\* What may be in file f, or on its way to it.
Fit(f, args, answer) ==
  /\ <<f.tool, Meaning(args), answer>> \in said
  /\ f.spec = 0 => Slug(args) = f.slug /\ answer \in Texts
  /\ f.spec # 0 => args = Specs[f.spec].args

EntryInv == \A f \in Files : disk[f].kind = "whole" => Fit(f, disk[f].args, disk[f].answer)

DraftInv ==
  saving = "result" =>
    /\ draft \in Draft /\ disk[draft.file] # Absent
    /\ Fit(draft.file, draft.args, draft.answer)
    /\ run = "evals" \/ (run = "recipe" /\ next \in DOMAIN Specs /\ draft.file.spec # 0)

\* Who waits for an answer, and whose write is in progress.
TaskInv ==
  /\ \A t \in Tasks : pc[t] # "idle" => req[t] \in Requests
  /\ \A t \in Tasks : pc[t] = "saving" =>
       saving = "result" /\ run = "evals" /\ draft.file = AutoFile(req[t])
  /\ \A t, u \in Tasks : pc[t] = "saving" /\ pc[u] = "saving" => t = u

RecordedInv == \A c \in recorded : disk[AutoFile(c)] # Absent

IInv == TypeOK /\ EntryInv /\ DraftInv /\ TaskInv /\ RecordedInv

-----------------------------------------------------------------------------
(* Operators                                                               *)

\* Arguments that are pruned to the same key mean the same to upstream.
LEMMA PrunedMeanTheSame ==
  ASSUME NEW a \in [Params -> Values], NEW b \in [Params -> Values],
         NEW d \in {Default, NoDefaults}, Normalize(a, d) = Normalize(b, d)
  PROVE  Meaning(a) = Meaning(b)
<1> SUFFICES ASSUME NEW p \in Params
             PROVE  (IF IsEmpty(a[p]) THEN Default[p] ELSE a[p])
                    = (IF IsEmpty(b[p]) THEN Default[p] ELSE b[p])
  BY DEF Meaning, IsEmpty
<1>1. ASSUME NEW x \in [Params -> Values], ~IsEmpty(x[p]), x[p] # d[p]
      PROVE  <<p, x[p]>> \in Normalize(x, d)
  BY <1>1 DEF Normalize
<1>2. ASSUME NEW x \in [Params -> Values], NEW v, <<p, v>> \in Normalize(x, d)
      PROVE  v = x[p]
  BY <1>2 DEF Normalize
<1>3. ASSUME NEW x \in [Params -> Values], NEW v, <<p, v>> \in Normalize(x, d)
      PROVE  ~IsEmpty(x[p])
  BY <1>3 DEF Normalize
<1>4. d[p] = Default[p] \/ (d[p] = "omitted" /\ IsEmpty(d[p]))
  BY DEF NoDefaults, IsEmpty
<1>5. CASE ~IsEmpty(a[p]) /\ a[p] # d[p]
  <2>1. <<p, a[p]>> \in Normalize(b, d)
    BY <1>1, <1>5
  <2>2. QED
    BY <1>2, <1>3, <1>5, <2>1
<1>6. CASE ~IsEmpty(b[p]) /\ b[p] # d[p]
  <2>1. <<p, b[p]>> \in Normalize(a, d)
    BY <1>1, <1>6
  <2>2. QED
    BY <1>2, <1>3, <1>6, <2>1
<1>7. QED
  BY <1>4, <1>5, <1>6

\* Under the catalog's defaults, arguments that mean the same have one key.
LEMMA MeaningIsPruned ==
  ASSUME NEW a \in [Params -> Values], NEW b \in [Params -> Values], Meaning(a) = Meaning(b)
  PROVE  Normalize(a, Default) = Normalize(b, Default)
<1>1. ASSUME NEW p \in Params
      PROVE  /\ ~IsEmpty(a[p]) /\ a[p] # Default[p] <=> ~IsEmpty(b[p]) /\ b[p] # Default[p]
             /\ ~IsEmpty(a[p]) /\ a[p] # Default[p] => a[p] = b[p]
  <2>1. Meaning(a)[p] = Meaning(b)[p]
    OBVIOUS
  <2>2. (IF IsEmpty(a[p]) THEN Default[p] ELSE a[p]) = (IF IsEmpty(b[p]) THEN Default[p] ELSE b[p])
    BY <2>1 DEF Meaning, IsEmpty
  <2>3. QED
    BY <2>2
<1>2. QED
  BY <1>1 DEF Normalize

\* The first of some files is one of them.
LEMMA FirstIsOne ==
  ASSUME NEW M, M \subseteq Files, M # {}
  PROVE  First(M) \in M
<1> DEFINE Ranks == {Rank[f] : f \in M}
<1>1. Ranks \subseteq Nat /\ Ranks # {}
  BY RankAssumption
<1>2. PICK n \in Ranks : \A m \in Ranks : n <= m
  <2> HIDE DEF Ranks
  <2> QED
    BY <1>1, LeastNumber
<1>3. PICK f \in M : \A g \in M : Rank[f] <= Rank[g]
  BY <1>2
<1>4. QED
  BY <1>3 DEF First

\* The values of what is asked.
LEMMA RequestTypes ==
  /\ \A r \in Requests : r.args \in [Params -> Values]
  /\ \A i \in DOMAIN Specs : Specs[i].args \in [Params -> Values]
                             /\ Specs[i].tool \in {r.tool : r \in Requests}
<1>1. \A i \in DOMAIN Specs :
        Specs[i] \in [tool : {r.tool : r \in Requests}, args : [Params -> Values], needs : Nat]
  BY RecipeAssumption, LenProperties, ElementOfSeq
<1>2. QED
  BY <1>1, RequestAssumption DEF Request

\* The files: recorded calls, and entries of the recipe.
LEMMA FileKinds ==
  /\ \A r \in Requests : AutoFile(r) \in Files /\ AutoFile(r).tool = r.tool
                         /\ AutoFile(r).slug = Slug(r.args) /\ AutoFile(r).spec = 0
  /\ \A i \in DOMAIN Specs : RecipeFile(i) \in Files /\ RecipeFile(i).tool = Specs[i].tool
                             /\ RecipeFile(i).spec = i /\ i # 0
  /\ \A f \in Files : f.tool \in {r.tool : r \in Requests}
                      /\ (f.spec # 0 => f.spec \in DOMAIN Specs /\ f.tool = Specs[f.spec].tool)
<1>1. \A i \in DOMAIN Specs : i # 0 /\ Specs[i].tool \in {r.tool : r \in Requests}
  BY RequestTypes, RecipeAssumption, LenProperties
<1>2. /\ \A r \in Requests : AutoFile(r) \in Files
      /\ \A i \in DOMAIN Specs : RecipeFile(i) \in Files
  BY DEF Files
<1>3. ASSUME NEW f \in Files
      PROVE  f.tool \in {r.tool : r \in Requests}
             /\ (f.spec # 0 => f.spec \in DOMAIN Specs /\ f.tool = Specs[f.spec].tool)
  <2>1. CASE \E r \in Requests : f = AutoFile(r)
    BY <2>1 DEF AutoFile
  <2>2. CASE \E i \in DOMAIN Specs : f = RecipeFile(i)
    BY <1>1, <2>2 DEF RecipeFile
  <2>3. QED
    BY <2>1, <2>2 DEF Files
<1>4. QED
  BY <1>1, <1>2, <1>3 DEF AutoFile, RecipeFile

\* Meanings are arguments.
LEMMA MeaningType ==
  ASSUME NEW a \in [Params -> Values]
  PROVE  Meaning(a) \in [Params -> Values]
BY RequestAssumption DEF Meaning

-----------------------------------------------------------------------------
(* What the invariant says of the properties                               *)

\* A file that matches a request is whole, and means what the request means.
LEMMA MatchMeans ==
  ASSUME IInv, NEW r \in Requests, NEW d \in {Default, NoDefaults}, Hit(r, d)
  PROVE  LET f == First(Matches(r, d))
         IN  /\ f \in Files /\ f.tool = r.tool /\ disk[f] \in Whole
             /\ Meaning(disk[f].args) = Meaning(r.args)
             /\ Fit(f, disk[f].args, disk[f].answer)
<1> DEFINE f == First(Matches(r, d))
<1>1. Matches(r, d) # {} /\ Matches(r, d) \subseteq Files /\ ~Corrupt(r.tool)
  BY DEF Hit, Matches, Scenarios
<1>2. f \in Matches(r, d)
  BY <1>1, FirstIsOne
<1>3. /\ f \in Files /\ f.tool = r.tool /\ disk[f] # Absent
      /\ f \in Scenarios(r.tool) /\ Normalize(disk[f].args, d) = Normalize(r.args, d)
  BY <1>2 DEF Matches, Scenarios
<1>4. disk[f] \in Whole
  <2>1. disk[f] # Torn
    BY <1>1, <1>3 DEF Corrupt
  <2>2. QED
    BY <1>3, <2>1 DEF IInv, TypeOK
<1>5. Meaning(disk[f].args) = Meaning(r.args)
  <2>1. disk[f].args \in [Params -> Values] /\ r.args \in [Params -> Values]
    BY <1>4, RequestTypes DEF Whole
  <2>2. QED
    BY <1>3, <2>1, PrunedMeanTheSame
<1>6. Fit(f, disk[f].args, disk[f].answer)
  BY <1>3, <1>4 DEF IInv, EntryInv, Whole
<1>7. QED
  BY <1>3, <1>4, <1>5, <1>6

\* What is found is an answer to a call of that meaning.
LEMMA InvGenuine == IInv => GenuineAnswers
<1> SUFFICES ASSUME IInv, NEW r \in Requests, NEW d \in {Default, NoDefaults}, Hit(r, d)
             PROVE  <<r.tool, Meaning(r.args), Found(r, d)>> \in said
  BY DEF GenuineAnswers
<1> QED
  BY MatchMeans DEF Fit, Found

\* An error that is found is in a file of the recipe.
LEMMA InvOutages == IInv => OutagesNotReplayed
<1> SUFFICES ASSUME IInv, NEW r \in Requests, NEW d \in {Default, NoDefaults},
                    Hit(r, d), Found(r, d) \in Errors
             PROVE  \E i \in DOMAIN Specs :
                      Specs[i].tool = r.tool /\ Meaning(Specs[i].args) = Meaning(r.args)
  BY DEF OutagesNotReplayed
<1> DEFINE f == First(Matches(r, d))
<1>1. /\ f \in Files /\ f.tool = r.tool
      /\ Meaning(disk[f].args) = Meaning(r.args)
      /\ Fit(f, disk[f].args, disk[f].answer)
  BY MatchMeans
<1>2. disk[f].answer \in Errors
  BY DEF Found
<1> HIDE DEF f
<1>3. f.spec # 0 /\ disk[f].args = Specs[f.spec].args
  BY <1>1, <1>2, AnswerAssumption DEF Fit
<1>4. QED
  BY <1>1, <1>3, FileKinds

\* The file of a recorded call is found by every spelling of it.
LEMMA InvRecorded == IInv => RecordedReplays
<1> SUFFICES ASSUME IInv, NEW c \in recorded, NEW r \in Requests
             PROVE  /\ r.tool = c.tool /\ Meaning(r.args) = Meaning(c.args) => ~Miss(r, Default)
                    /\ ~Miss(c, NoDefaults)
  BY DEF RecordedReplays
<1> DEFINE f == AutoFile(c)
<1>1. c \in Requests /\ f \in Files /\ f.tool = c.tool /\ f.slug = Slug(c.args) /\ f.spec = 0
  BY FileKinds DEF IInv, TypeOK
<1>2. f \in Scenarios(c.tool)
  BY <1>1 DEF IInv, RecordedInv, Scenarios
<1> HIDE DEF f
<1>3. CASE Corrupt(c.tool)
  BY <1>3 DEF Miss
<1>4. CASE ~Corrupt(c.tool)
  <2>1. disk[f] \in Whole
    <3>1. disk[f] # Torn /\ disk[f] # Absent
      BY <1>2, <1>4 DEF Corrupt, Scenarios
    <3>2. QED
      BY <1>1, <3>1 DEF IInv, TypeOK
  <2>2. /\ disk[f].args \in [Params -> Values]
        /\ c.args \in [Params -> Values] /\ r.args \in [Params -> Values]
    BY <1>1, <2>1, RequestTypes DEF Whole
  <2>3. Normalize(disk[f].args, NoDefaults) = Normalize(c.args, NoDefaults)
    BY <1>1, <2>1 DEF IInv, EntryInv, Fit, Slug, Whole
  <2>4. Meaning(disk[f].args) = Meaning(c.args)
    BY <2>2, <2>3, PrunedMeanTheSame
  <2>5. f \in Matches(c, NoDefaults)
    BY <1>2, <2>3 DEF Matches
  <2>6. ASSUME r.tool = c.tool, Meaning(r.args) = Meaning(c.args)
        PROVE  f \in Matches(r, Default)
    <3>1. Normalize(disk[f].args, Default) = Normalize(r.args, Default)
      BY <2>2, <2>4, <2>6, MeaningIsPruned
    <3>2. QED
      BY <1>2, <2>6, <3>1 DEF Matches
  <2>7. QED
    BY <2>5, <2>6 DEF Miss
<1>5. QED
  BY <1>3, <1>4

-----------------------------------------------------------------------------
(* The invariant                                                           *)

LEMMA InitInv == Init => IInv
<1> SUFFICES ASSUME Init
             PROVE  IInv
  OBVIOUS
<1>1. 0 \in 0..(Len(Specs) + 1)
  BY RecipeAssumption, LenProperties
<1>2. TypeOK
  BY <1>1 DEF Init, TypeOK
<1>3. EntryInv /\ DraftInv /\ TaskInv /\ RecordedInv
  BY DEF Init, EntryInv, DraftInv, TaskInv, RecordedInv, Absent
<1>4. QED
  BY <1>2, <1>3 DEF IInv

\* What fits a file still does when upstream has said more.
LEMMA FitGrows ==
  ASSUME NEW f, NEW args, NEW answer, Fit(f, args, answer), said \subseteq said'
  PROVE  /\ <<f.tool, Meaning(args), answer>> \in said'
         /\ f.spec = 0 => Slug(args) = f.slug /\ answer \in Texts
         /\ f.spec # 0 => args = Specs[f.spec].args
BY DEF Fit

\* A step that writes nothing keeps what the files hold.
LEMMA DiskKept ==
  ASSUME IInv, disk' = disk, said \subseteq said', recorded' = recorded
  PROVE  EntryInv' /\ RecordedInv'
<1>1. RecordedInv'
  BY DEF IInv, RecordedInv, AutoFile, Slug, Normalize, NoDefaults, IsEmpty, Absent
<1>2. ASSUME NEW f \in Files, disk'[f].kind = "whole"
      PROVE  Fit(f, disk[f].args, disk[f].answer)'
  <2>1. Fit(f, disk[f].args, disk[f].answer)
    BY <1>2 DEF IInv, EntryInv
  <2>2. QED
    BY <2>1, FitGrows DEF Fit, Meaning, Slug, Normalize, NoDefaults, IsEmpty
<1>3. QED
  BY <1>1, <1>2 DEF EntryInv, Files, AutoFile, RecipeFile, Slug, Normalize, NoDefaults, IsEmpty

\* A write begins: the file is torn, and what is coming fits it.
LEMMA SaveBegins ==
  ASSUME IInv, NEW f \in Files, NEW r, NEW a \in Answers,
         r.args \in [Params -> Values], r.tool = f.tool,
         Says(r, a), BeginSave(f, r, a), recorded' = recorded,
         f.spec = 0 => Slug(r.args) = f.slug /\ a \in Texts,
         f.spec # 0 => r.args = Specs[f.spec].args
  PROVE  /\ disk' \in [Files -> Whole \cup {Absent, Torn}]
         /\ draft' \in Draft /\ draft'.file = f /\ saving' = "result"
         /\ said' \subseteq {q.tool : q \in Requests} \X [Params -> Values] \X Answers
         /\ EntryInv' /\ RecordedInv'
         /\ run' = "evals" \/ (run' = "recipe" /\ next' \in DOMAIN Specs /\ f.spec # 0)
              => DraftInv'
<1> DEFINE e == <<r.tool, Meaning(r.args), a>>
<1>1. /\ saving' = "result" /\ said' = said \cup {e}
      /\ draft' = [file |-> f, args |-> r.args, answer |-> a]
      /\ disk' = [disk EXCEPT ![f] = Torn]
  BY DEF BeginSave, Says
<1>2. /\ disk \in [Files -> Whole \cup {Absent, Torn}] /\ recorded \subseteq Requests
      /\ said \subseteq {q.tool : q \in Requests} \X [Params -> Values] \X Answers
  BY DEF IInv, TypeOK
<1>3. Torn # Absent /\ Torn.kind # "whole"
  BY DEF Torn, Absent
<1>4. e \in {q.tool : q \in Requests} \X [Params -> Values] \X Answers
  BY FileKinds, MeaningType
<1>5. /\ disk' \in [Files -> Whole \cup {Absent, Torn}]
      /\ disk'[f] = Torn /\ \A g \in Files : g # f => disk'[g] = disk[g]
  BY <1>1, <1>2
<1>6. draft' \in Draft /\ draft'.file = f /\ draft'.args = r.args /\ draft'.answer = a
  BY <1>1 DEF Draft
<1>7. EntryInv'
  <2>1. ASSUME NEW g \in Files, disk'[g].kind = "whole"
        PROVE  Fit(g, disk[g].args, disk[g].answer)'
    <3>1. g # f /\ disk'[g] = disk[g]
      BY <1>3, <1>5, <2>1
    <3>2. Fit(g, disk[g].args, disk[g].answer)
      BY <2>1, <3>1 DEF IInv, EntryInv
    <3>3. QED
      BY <1>1, <3>1, <3>2, FitGrows DEF Fit, Meaning, Slug, Normalize, NoDefaults, IsEmpty
  <2>2. QED
    BY <2>1 DEF EntryInv, Files, AutoFile, RecipeFile, Slug, Normalize, NoDefaults, IsEmpty
<1>8. RecordedInv'
  <2>1. \A c \in recorded : disk'[AutoFile(c)] # Absent
    BY <1>2, <1>3, <1>5, FileKinds DEF IInv, RecordedInv
  <2>2. QED
    BY <2>1 DEF RecordedInv, AutoFile, Slug, Normalize, NoDefaults, IsEmpty, Absent
<1>9. ASSUME run' = "evals" \/ (run' = "recipe" /\ next' \in DOMAIN Specs /\ f.spec # 0)
      PROVE  DraftInv'
  <2>1. e \in said'
    BY <1>1
  <2>2. Fit(draft.file, draft.args, draft.answer)'
    BY <1>6, <2>1 DEF Fit, Meaning, Slug, Normalize, NoDefaults, IsEmpty
  <2>3. disk'[draft'.file] # Absent
    BY <1>3, <1>5, <1>6
  <2>4. QED
    BY <1>6, <1>9, <2>2, <2>3
       DEF DraftInv, Draft, Files, AutoFile, RecipeFile, Slug, Normalize, NoDefaults, IsEmpty, Absent, Answers
<1>10. QED
  BY <1>1, <1>2, <1>4, <1>5, <1>6, <1>7, <1>8, <1>9

\* A write ends: the file holds what fits it, and no file is lost.
LEMMA SaveEnds ==
  ASSUME IInv, EndSave, said' = said
  PROVE  /\ disk' \in [Files -> Whole \cup {Absent, Torn}]
         /\ saving' = "nothing" /\ draft' = NoDraft
         /\ EntryInv'
         /\ draft.file \in Files /\ disk'[draft.file] # Absent
         /\ \A f \in Files : disk[f] # Absent => disk'[f] # Absent
<1> DEFINE e == [kind |-> "whole", args |-> draft.args, answer |-> draft.answer]
<1>1. /\ saving = "result" /\ saving' = "nothing" /\ draft' = NoDraft
      /\ disk' = [disk EXCEPT ![draft.file] = e]
  BY DEF EndSave
<1>2. /\ draft \in Draft /\ Fit(draft.file, draft.args, draft.answer)
      /\ disk \in [Files -> Whole \cup {Absent, Torn}]
  BY <1>1 DEF IInv, TypeOK, DraftInv
<1>3. draft.file \in Files /\ e \in Whole /\ e # Absent
  BY <1>2 DEF Draft, Whole, Absent
<1>4. /\ disk' \in [Files -> Whole \cup {Absent, Torn}]
      /\ disk'[draft.file] = e
      /\ \A f \in Files : f # draft.file => disk'[f] = disk[f]
  BY <1>1, <1>2, <1>3
<1>5. ASSUME NEW f \in Files, disk'[f].kind = "whole"
      PROVE  Fit(f, disk[f].args, disk[f].answer)'
  <2>1. Fit(f, disk'[f].args, disk'[f].answer)
    <3>1. CASE f = draft.file
      BY <1>2, <1>4, <3>1
    <3>2. CASE f # draft.file
      BY <1>4, <1>5, <3>2 DEF IInv, EntryInv
    <3>3. QED
      BY <3>1, <3>2
  <2>2. QED
    BY <2>1 DEF Fit, Meaning, Slug, Normalize, NoDefaults, IsEmpty
<1>6. EntryInv'
  BY <1>5 DEF EntryInv, Files, AutoFile, RecipeFile, Slug, Normalize, NoDefaults, IsEmpty
<1>7. QED
  BY <1>1, <1>3, <1>4, <1>6

\* The program ends, wherever it was.
LEMMA QuitStep ==
  ASSUME IInv, Quit
  PROVE  IInv'
<1>1. /\ disk' = disk /\ catalog' = catalog /\ run' = "none" /\ next' = 0 /\ got' = {}
      /\ pc' = [t \in Tasks |-> "idle"] /\ req' = [t \in Tasks |-> NoRequest]
      /\ saving' = "nothing" /\ draft' = NoDraft /\ said' = said /\ recorded' = recorded
  BY DEF Quit, history
<1>2. EntryInv' /\ RecordedInv'
  BY <1>1, DiskKept
<1>3. 0 \in 0..(Len(Specs) + 1)
  BY RecipeAssumption, LenProperties
<1>4. TypeOK'
  BY <1>1, <1>3 DEF IInv, TypeOK
<1>5. DraftInv' /\ TaskInv'
  BY <1>1 DEF DraftInv, TaskInv
<1>6. QED
  BY <1>2, <1>4, <1>5 DEF IInv

\* A step that leaves the files alone and keeps no write in progress.
LEMMA QuietStep ==
  ASSUME IInv, disk' = disk, draft' = draft, recorded' = recorded, said \subseteq said',
         saving # "result", saving' # "result",
         TypeOK', \A t \in Tasks : pc'[t] # "saving",
         \A t \in Tasks : pc'[t] # "idle" => req'[t] \in Requests
  PROVE  IInv'
<1>1. EntryInv' /\ RecordedInv'
  BY DiskKept
<1>2. DraftInv' /\ TaskInv'
  BY DEF DraftInv, TaskInv
<1>3. QED
  BY <1>1, <1>2 DEF IInv

\* Beginning, and the catalog: nobody is saving a result.
LEMMA CatalogSteps ==
  ASSUME IInv, StartEvals \/ StartRecipe \/ ListArrives \/ CatalogSaved
  PROVE  IInv'
<1>0. saving # "result"
  BY DEF IInv, DraftInv, StartEvals, StartRecipe, ListArrives, CatalogSaved, Listing
<1>1. /\ disk' = disk /\ draft' = draft /\ recorded' = recorded /\ said' = said
      /\ pc' = pc /\ req' = req /\ got' = got
  BY DEF StartEvals, StartRecipe, ListArrives, CatalogSaved,
         recipeVars, taskVars, writeVars, history
<1>2. /\ catalog' \in {"absent", "torn", "whole"} /\ saving' \in {"nothing", "catalog"}
      /\ run' \in {"none", "listing", "evals", "recipe"}
      /\ next' = next \/ next' = 1
  BY <1>0
     DEF IInv, TypeOK, StartEvals, StartRecipe, ListArrives, CatalogSaved, recipeVars, writeVars
<1>3. 1 \in 0..(Len(Specs) + 1)
  BY RecipeAssumption, LenProperties
<1>4. TypeOK'
  BY <1>1, <1>2, <1>3 DEF IInv, TypeOK
<1>5. \A t \in Tasks : pc'[t] # "saving" /\ (pc'[t] # "idle" => req'[t] \in Requests)
  BY <1>0, <1>1 DEF IInv, TaskInv
<1>6. QED
  BY <1>0, <1>1, <1>2, <1>4, <1>5, QuietStep

\* Calls that record nothing.
LEMMA UnrecordedSteps ==
  ASSUME IInv, NEW t \in Tasks,
         \/ FetchFails(t)
         \/ \E r \in Requests : Ask(t, r)
         \/ \E a \in Errors : FetchRefused(t, a)
  PROVE  IInv'
<1>1. /\ saving = "nothing" /\ run = "evals"
      /\ disk' = disk /\ draft' = draft /\ saving' = saving /\ recorded' = recorded
      /\ catalog' = catalog /\ run' = run /\ next' = next /\ got' = got
  BY DEF FetchFails, Ask, FetchRefused, Running, Return, Says, recipeVars, writeVars, history
<1>2. /\ pc \in [Tasks -> {"idle", "fetching", "saving"}]
      /\ req \in [Tasks -> Requests \cup {NoRequest}]
  BY DEF IInv, TypeOK
<1>3. /\ pc' \in [Tasks -> {"idle", "fetching", "saving"}]
      /\ req' \in [Tasks -> Requests \cup {NoRequest}]
      /\ pc'[t] # "saving" /\ (pc'[t] # "idle" => req'[t] \in Requests)
      /\ \A u \in Tasks : u # t => pc'[u] = pc[u] /\ req'[u] = req[u]
  BY <1>2 DEF FetchFails, Ask, FetchRefused, Return
<1>4. said \subseteq said' /\ said' \subseteq {r.tool : r \in Requests} \X [Params -> Values] \X Answers
  <2>1. said \subseteq {r.tool : r \in Requests} \X [Params -> Values] \X Answers
    BY DEF IInv, TypeOK
  <2>2. CASE said' = said
    BY <2>1, <2>2
  <2>3. ASSUME NEW a \in Errors, FetchRefused(t, a)
        PROVE  said \subseteq said'
               /\ said' \subseteq {r.tool : r \in Requests} \X [Params -> Values] \X Answers
    <3>1. req[t] \in Requests /\ said' = said \cup {<<req[t].tool, Meaning(req[t].args), a>>}
      BY <2>3 DEF FetchRefused, Running, Says, IInv, TaskInv
    <3>2. <<req[t].tool, Meaning(req[t].args), a>>
            \in {r.tool : r \in Requests} \X [Params -> Values] \X Answers
      BY <3>1, RequestTypes, MeaningType DEF Answers
    <3>3. QED
      BY <2>1, <3>1, <3>2
  <2>4. QED
    BY <2>2, <2>3 DEF FetchFails, Ask, history
<1>5. TypeOK'
  BY <1>1, <1>3, <1>4 DEF IInv, TypeOK
<1>6. \A u \in Tasks : pc'[u] # "saving" /\ (pc'[u] # "idle" => req'[u] \in Requests)
  BY <1>1, <1>3 DEF IInv, TaskInv
<1>7. QED
  BY <1>1, <1>4, <1>5, <1>6, QuietStep

\* A call whose answer is about to be recorded.
LEMMA FetchAnswersStep ==
  ASSUME IInv, NEW t \in Tasks, NEW a \in Texts, FetchAnswers(t, a)
  PROVE  IInv'
<1> DEFINE r == req[t]
           f == AutoFile(r)
<1>1. /\ saving = "nothing" /\ run = "evals" /\ pc[t] = "fetching"
      /\ Says(r, a) /\ BeginSave(f, r, a) /\ pc' = [pc EXCEPT ![t] = "saving"]
      /\ catalog' = catalog /\ run' = run /\ next' = next /\ got' = got
      /\ req' = req /\ recorded' = recorded
  BY DEF FetchAnswers, Running, recipeVars
<1>2. /\ r \in Requests /\ f \in Files /\ f.tool = r.tool /\ f.spec = 0
      /\ f.slug = Slug(r.args) /\ r.args \in [Params -> Values] /\ a \in Answers
  BY <1>1, FileKinds, RequestTypes DEF IInv, TaskInv, Answers
<1> HIDE DEF f
<1>3. /\ disk' \in [Files -> Whole \cup {Absent, Torn}]
      /\ draft' \in Draft /\ draft'.file = f /\ saving' = "result"
      /\ said' \subseteq {q.tool : q \in Requests} \X [Params -> Values] \X Answers
      /\ EntryInv' /\ RecordedInv' /\ DraftInv'
  BY <1>1, <1>2, SaveBegins
<1>4. /\ pc \in [Tasks -> {"idle", "fetching", "saving"}]
      /\ pc' \in [Tasks -> {"idle", "fetching", "saving"}]
      /\ \A u \in Tasks : u # t => pc'[u] = pc[u]
  BY <1>1 DEF IInv, TypeOK
<1>5. TypeOK'
  BY <1>1, <1>3, <1>4 DEF IInv, TypeOK
<1>6. TaskInv'
  <2>1. \A u \in Tasks : pc'[u] = "saving" => u = t
    BY <1>1, <1>4 DEF IInv, TaskInv
  <2>2. \A u \in Tasks : pc'[u] # "idle" => req[u] \in Requests
    BY <1>2, <1>4 DEF IInv, TaskInv
  <2>3. draft'.file = AutoFile(req[t])
    BY <1>3 DEF f
  <2>4. QED
    BY <1>1, <1>3, <2>1, <2>2, <2>3
       DEF TaskInv, AutoFile, Slug, Normalize, NoDefaults, IsEmpty
<1>7. QED
  BY <1>3, <1>5, <1>6 DEF IInv

\* A recorded call: its file is there, and it stays so.
LEMMA RecordedStep ==
  ASSUME IInv, NEW t \in Tasks, Recorded(t)
  PROVE  IInv'
<1>1. /\ pc[t] = "saving" /\ EndSave /\ said' = said
      /\ pc' = [pc EXCEPT ![t] = "idle"] /\ req' = [req EXCEPT ![t] = NoRequest]
      /\ recorded' = recorded \cup {req[t]}
      /\ catalog' = catalog /\ run' = run /\ next' = next /\ got' = got
  BY DEF Recorded, Return, recipeVars
<1>2. /\ disk' \in [Files -> Whole \cup {Absent, Torn}]
      /\ saving' = "nothing" /\ draft' = NoDraft /\ EntryInv'
      /\ draft.file \in Files /\ disk'[draft.file] # Absent
      /\ \A f \in Files : disk[f] # Absent => disk'[f] # Absent
  BY <1>1, SaveEnds
<1>3. req[t] \in Requests /\ draft.file = AutoFile(req[t])
  BY <1>1 DEF IInv, TaskInv
<1>4. /\ pc \in [Tasks -> {"idle", "fetching", "saving"}]
      /\ req \in [Tasks -> Requests \cup {NoRequest}] /\ recorded \subseteq Requests
  BY DEF IInv, TypeOK
<1>5. /\ pc' \in [Tasks -> {"idle", "fetching", "saving"}] /\ pc'[t] = "idle"
      /\ req' \in [Tasks -> Requests \cup {NoRequest}]
      /\ \A u \in Tasks : u # t => pc'[u] = pc[u] /\ req'[u] = req[u]
  BY <1>1, <1>4
<1>6. TypeOK'
  BY <1>1, <1>2, <1>3, <1>4, <1>5 DEF IInv, TypeOK
<1>7. RecordedInv'
  <2>1. \A c \in recorded' : disk'[AutoFile(c)] # Absent
    BY <1>1, <1>2, <1>3, <1>4, FileKinds DEF IInv, RecordedInv
  <2>2. QED
    BY <2>1 DEF RecordedInv, AutoFile, Slug, Normalize, NoDefaults, IsEmpty, Absent
<1>8. TaskInv'
  BY <1>1, <1>5 DEF IInv, TaskInv
<1>9. DraftInv'
  BY <1>2 DEF DraftInv
<1>10. QED
  BY <1>2, <1>6, <1>7, <1>8, <1>9 DEF IInv

\* An entry of the recipe is called.
LEMMA RecipeCallStep ==
  ASSUME IInv, NEW a \in Answers, RecipeCall(a)
  PROVE  IInv'
<1> DEFINE r == Specs[next]
           f == RecipeFile(next)
<1>1. /\ saving = "nothing" /\ run = "recipe" /\ next \in DOMAIN Specs
      /\ Says(r, a) /\ BeginSave(f, r, a)
      /\ catalog' = catalog /\ run' = run /\ next' = next /\ got' = got
      /\ pc' = pc /\ req' = req /\ recorded' = recorded
  BY DEF RecipeCall, AtEntry, recipeVars, taskVars
<1>2. /\ f \in Files /\ f.tool = r.tool /\ f.spec = next /\ next # 0
      /\ r.args \in [Params -> Values]
  BY <1>1, FileKinds, RequestTypes
<1>3. /\ disk' \in [Files -> Whole \cup {Absent, Torn}]
      /\ draft' \in Draft /\ saving' = "result"
      /\ said' \subseteq {q.tool : q \in Requests} \X [Params -> Values] \X Answers
      /\ EntryInv' /\ RecordedInv' /\ DraftInv'
  <2> HIDE DEF f
  <2> QED
    BY <1>1, <1>2, SaveBegins
<1>4. TypeOK'
  BY <1>1, <1>3 DEF IInv, TypeOK
<1>5. TaskInv'
  BY <1>1 DEF IInv, TaskInv
<1>6. QED
  BY <1>3, <1>4, <1>5 DEF IInv

\* An entry of the recipe is saved, and the next one is due.
LEMMA RecipeSavedStep ==
  ASSUME IInv, RecipeSaved
  PROVE  IInv'
<1>1. /\ run = "recipe" /\ EndSave /\ saving = "result" /\ next' = next + 1
      /\ got' \subseteq got \cup {next}
      /\ catalog' = catalog /\ run' = run /\ pc' = pc /\ req' = req
      /\ said' = said /\ recorded' = recorded
  BY DEF RecipeSaved, EndSave, taskVars, history
<1>2. next \in DOMAIN Specs
  BY <1>1 DEF IInv, DraftInv
<1>3. next' \in 0..(Len(Specs) + 1)
  BY <1>1, <1>2, RecipeAssumption, LenProperties
<1>4. /\ disk' \in [Files -> Whole \cup {Absent, Torn}]
      /\ saving' = "nothing" /\ draft' = NoDraft /\ EntryInv'
      /\ \A f \in Files : disk[f] # Absent => disk'[f] # Absent
  BY <1>1, SaveEnds
<1>5. TypeOK'
  BY <1>1, <1>2, <1>3, <1>4 DEF IInv, TypeOK
<1>6. RecordedInv'
  <2>1. \A c \in recorded' : disk'[AutoFile(c)] # Absent
    BY <1>1, <1>4, FileKinds DEF IInv, TypeOK, RecordedInv
  <2>2. QED
    BY <2>1 DEF RecordedInv, AutoFile, Slug, Normalize, NoDefaults, IsEmpty, Absent
<1>7. DraftInv' /\ TaskInv'
  <2>1. \A t \in Tasks : pc[t] # "saving"
    BY <1>1 DEF IInv, TaskInv
  <2>2. QED
    BY <1>1, <1>4, <2>1 DEF IInv, DraftInv, TaskInv
<1>8. QED
  BY <1>4, <1>5, <1>6, <1>7 DEF IInv

\* An entry of the recipe is left out.
LEMMA RecipeSkipStep ==
  ASSUME IInv, RecipeSkip
  PROVE  IInv'
<1>1. /\ run = "recipe" /\ saving = "nothing" /\ next \in DOMAIN Specs /\ next' = next + 1
      /\ disk' = disk /\ draft' = draft /\ saving' = saving
      /\ catalog' = catalog /\ run' = run /\ got' = got /\ pc' = pc /\ req' = req
      /\ said' = said /\ recorded' = recorded
  BY DEF RecipeSkip, AtEntry, taskVars, writeVars, history
<1>2. next' \in 0..(Len(Specs) + 1)
  BY <1>1, RecipeAssumption, LenProperties
<1>3. TypeOK'
  BY <1>1, <1>2 DEF IInv, TypeOK
<1>4. QED
  BY <1>1, <1>3, QuietStep DEF IInv, TaskInv

\* The invariant: every file, whole or on its way, holds an answer of upstream to
\* a call of its key, and the file of a recorded call is never lost.
THEOREM InductiveInvariant == Spec => []IInv
<1>1. ASSUME IInv, [Next]_vars
      PROVE  IInv'
  <2>1. CASE UNCHANGED vars
    <3>1. UNCHANGED <<disk, catalog, run, next, got, pc, req, saving, draft, recorded, said>>
      BY <2>1 DEF vars, recipeVars, taskVars, history
    <3>2. TypeOK'
      BY <1>1, <3>1 DEF IInv, TypeOK
    <3>3. EntryInv' /\ RecordedInv'
      BY <1>1, <3>1, DiskKept
    <3>4. DraftInv'
      BY <1>1, <3>1
         DEF IInv, DraftInv, Fit, Meaning, Slug, Normalize, NoDefaults, IsEmpty
    <3>5. TaskInv'
      BY <1>1, <3>1 DEF IInv, TaskInv, AutoFile, Slug, Normalize, NoDefaults, IsEmpty
    <3>6. QED
      BY <3>2, <3>3, <3>4, <3>5 DEF IInv
  <2>2. CASE StartEvals \/ StartRecipe \/ ListArrives \/ CatalogSaved
    BY <1>1, <2>2, CatalogSteps
  <2>3. CASE ListFails \/ RecipeDone \/ EvalsEnd \/ Crash
    BY <1>1, <2>3, QuitStep DEF ListFails, RecipeDone, EvalsEnd, Crash
  <2>4. ASSUME NEW t \in Tasks,
               \/ FetchFails(t)
               \/ \E r \in Requests : Ask(t, r)
               \/ \E a \in Errors : FetchRefused(t, a)
        PROVE  IInv'
    BY <1>1, <2>4, UnrecordedSteps
  <2>5. QED
    BY <1>1, <2>1, <2>2, <2>3, <2>4, FetchAnswersStep, RecordedStep, RecipeCallStep,
       RecipeSavedStep, RecipeSkipStep DEF Next
<1>2. QED
  BY <1>1, InitInv, PTL DEF Spec

\* Every variable keeps its type, and the recipe its place in the list.
THEOREM TypeCorrect == Spec => []TypeOK
<1>1. IInv => TypeOK
  BY DEF IInv
<1>2. QED
  BY <1>1, InductiveInvariant, PTL

\* What any reader is served, at any moment, upstream said of a call that means
\* the same.
THEOREM Genuine == Spec => []GenuineAnswers
BY InvGenuine, InductiveInvariant, PTL

\* A recorded call is never a miss again in any later run, however it is spelled: it
\* is found, or fails on a torn file of its tool (which one, see SettledForGood).
THEOREM StaysRecorded == Spec => []RecordedReplays
BY InvRecorded, InductiveInvariant, PTL

\* No step of any program touches the file of a recorded call that no scenario is
\* after, or sends a scenario after it.
LEMMA SettledStep ==
  ASSUME IInv, [Next]_vars, NEW c \in recorded, ~Contested(c)
  PROVE  ~Contested(c)' /\ disk'[AutoFile(c)] = disk[AutoFile(c)]
<1> DEFINE f == AutoFile(c)
<1>1. /\ c \in Requests /\ c.args \in [Params -> Values]
      /\ f \in Files /\ f.spec = 0 /\ f.tool = c.tool /\ f.slug = Slug(c.args)
  BY FileKinds, RequestTypes DEF IInv, TypeOK
<1>2. \A t \in Tasks : pc[t] # "idle" => AutoFile(req[t]) # f
  BY DEF Contested
<1>3. disk \in [Files -> Whole \cup {Absent, Torn}]
  BY DEF IInv, TypeOK
<1>4. ASSUME \A t \in Tasks : pc'[t] # "idle" => AutoFile(req'[t]) # f
      PROVE  ~Contested(c)'
  BY <1>4 DEF Contested, AutoFile, Slug, Normalize, NoDefaults, IsEmpty
<1>5. ASSUME \A t \in Tasks : pc'[t] # "idle" => pc[t] # "idle" /\ req'[t] = req[t]
      PROVE  ~Contested(c)'
  <2> HIDE DEF f
  <2> QED
    BY <1>2, <1>4, <1>5
<1> HIDE DEF f
<1>6. CASE \/ UNCHANGED vars
           \/ StartEvals \/ StartRecipe \/ ListArrives \/ CatalogSaved \/ RecipeSkip
  <2>1. disk' = disk /\ pc' = pc /\ req' = req
    BY <1>6 DEF vars, StartEvals, StartRecipe, ListArrives, CatalogSaved, RecipeSkip,
                taskVars, writeVars
  <2>2. QED
    BY <1>5, <2>1 DEF f
<1>7. CASE ListFails \/ RecipeDone \/ EvalsEnd \/ Crash
  <2>1. disk' = disk /\ pc' = [t \in Tasks |-> "idle"]
    BY <1>7 DEF ListFails, RecipeDone, EvalsEnd, Crash, Quit
  <2>2. QED
    BY <1>5, <2>1 DEF f
<1>8. ASSUME NEW t \in Tasks, FetchFails(t) \/ \E a \in Errors : FetchRefused(t, a)
      PROVE  ~Contested(c)' /\ disk'[f] = disk[f]
  <2>1. disk' = disk /\ pc' = [pc EXCEPT ![t] = "idle"] /\ req' = [req EXCEPT ![t] = NoRequest]
    BY <1>8 DEF FetchFails, FetchRefused, Return, writeVars
  <2>2. QED
    BY <1>5, <2>1 DEF IInv, TypeOK
\* A spelling of c is no miss, and any other call has a file of its own.
<1>9. ASSUME NEW t \in Tasks, NEW r \in Requests, Ask(t, r)
      PROVE  ~Contested(c)' /\ disk'[f] = disk[f]
  <2>1. AutoFile(r) # f
    <3> SUFFICES ASSUME AutoFile(r) = f
                 PROVE  FALSE
      OBVIOUS
    <3>1. r.tool = c.tool /\ Slug(r.args) = Slug(c.args) /\ r.args \in [Params -> Values]
      BY <1>1, FileKinds, RequestTypes
    <3>2. Meaning(r.args) = Meaning(c.args)
      BY <1>1, <3>1, PrunedMeanTheSame DEF Slug
    <3>3. QED
      BY <1>9, <3>1, <3>2, InvRecorded DEF RecordedReplays, Ask
  <2>2. disk' = disk /\ pc' = [pc EXCEPT ![t] = "fetching"] /\ req' = [req EXCEPT ![t] = r]
    BY <1>9 DEF Ask, writeVars
  <2>3. \A u \in Tasks : pc'[u] # "idle" => AutoFile(req'[u]) # f
    BY <1>2, <2>1, <2>2 DEF IInv, TypeOK
  <2>4. QED
    BY <1>4, <2>2, <2>3
<1>10. ASSUME NEW t \in Tasks, NEW a \in Texts, FetchAnswers(t, a)
       PROVE  ~Contested(c)' /\ disk'[f] = disk[f]
  <2>1. /\ pc[t] = "fetching" /\ pc' = [pc EXCEPT ![t] = "saving"] /\ req' = req
        /\ disk' = [disk EXCEPT ![AutoFile(req[t])] = Torn]
    BY <1>10 DEF FetchAnswers, Running, BeginSave
  <2>2. AutoFile(req[t]) # f
    BY <1>2, <2>1
  <2>3. \A u \in Tasks : pc'[u] # "idle" => pc[u] # "idle" /\ req'[u] = req[u]
    BY <2>1 DEF IInv, TypeOK
  <2>4. QED
    BY <1>1, <1>3, <1>5, <2>1, <2>2, <2>3
<1>11. ASSUME NEW t \in Tasks, Recorded(t)
       PROVE  ~Contested(c)' /\ disk'[f] = disk[f]
  <2>1. /\ pc[t] = "saving" /\ EndSave
        /\ pc' = [pc EXCEPT ![t] = "idle"] /\ req' = [req EXCEPT ![t] = NoRequest]
    BY <1>11 DEF Recorded, Return
  <2>2. draft.file # f
    BY <1>2, <2>1 DEF IInv, TaskInv
  <2>3. \A u \in Tasks : pc'[u] # "idle" => pc[u] # "idle" /\ req'[u] = req[u]
    BY <2>1 DEF IInv, TypeOK
  <2>4. QED
    BY <1>1, <1>3, <1>5, <2>1, <2>2, <2>3 DEF EndSave
<1>12. ASSUME (\E a \in Answers : RecipeCall(a)) \/ RecipeSaved
       PROVE  ~Contested(c)' /\ disk'[f] = disk[f]
  <2>1. pc' = pc /\ req' = req
    BY <1>12 DEF RecipeCall, RecipeSaved, taskVars
  <2>2. CASE \E a \in Answers : RecipeCall(a)
    <3>1. next \in DOMAIN Specs /\ disk' = [disk EXCEPT ![RecipeFile(next)] = Torn]
      BY <2>2 DEF RecipeCall, AtEntry, BeginSave
    <3>2. RecipeFile(next) # f
      BY <1>1, <3>1, FileKinds
    <3>3. QED
      BY <1>1, <1>3, <1>5, <2>1, <3>1, <3>2
  <2>3. CASE RecipeSaved
    <3>1. run = "recipe" /\ EndSave /\ saving = "result"
      BY <2>3 DEF RecipeSaved, EndSave
    <3>2. draft.file # f
      BY <1>1, <3>1 DEF IInv, DraftInv
    <3>3. QED
      BY <1>1, <1>3, <1>5, <2>1, <3>1, <3>2 DEF EndSave
  <2>4. QED
    BY <1>12, <2>2, <2>3
<1>13. QED
  BY <1>6, <1>7, <1>8, <1>9, <1>10, <1>11, <1>12 DEF Next, f

\* A recorded call that no racing scenario is after keeps its file through every
\* later run of either program and every crash, and stays torn if a crash in the
\* second write of a race tore it: nothing records it anew.
THEOREM SettledForGood == Spec => SettledRecordings
<1>1. ASSUME IInv, [Next]_vars
      PROVE  \A c \in recorded :
               ~Contested(c) => ~Contested(c)' /\ disk'[AutoFile(c)] = disk[AutoFile(c)]
  BY <1>1, SettledStep
<1>2. QED
  BY <1>1, InductiveInvariant, PTL DEF Spec, SettledRecordings

\* An evaluation never turns a failure of upstream into a fixture.
THEOREM NoOutageReplayed == Spec => []OutagesNotReplayed
BY InvOutages, InductiveInvariant, PTL
=============================================================================
