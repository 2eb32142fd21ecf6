---------------------------- MODULE MCRecordReplay ----------------------------
(***************************************************************************)
(* RecordReplay with one parameter, two tools, and a recipe whose second   *)
(* entry needs the first.                                                  *)
(***************************************************************************)
EXTENDS RecordReplay, TLC

CONSTANT page

MCParams  == {page}
MCValues  == {"omitted", "empty", "false", "ten", "thirty"}
MCDefault == [p \in MCParams |-> "ten"]

Search(v) == [tool |-> "search", args |-> [p \in MCParams |-> v]]
Detail    == [tool |-> "detail", args |-> [p \in MCParams |-> "omitted"]]

MCRequests == {Search("empty"), Search("ten"), Search("false"), Search("thirty")}
              \cup {Detail}

MCSpecs ==
  << [tool |-> "search", args |-> [p \in MCParams |-> "omitted"], needs |-> 0],
     [tool |-> "detail", args |-> [p \in MCParams |-> "omitted"], needs |-> 1] >>

\* Any order of the files will do.
Place(f) ==
  CASE f.slug = {} -> 0
    [] <<page, "thirty">> \in f.slug -> 1
    [] <<page, "ten">> \in f.slug -> 2
    [] OTHER -> 3
MCRank == [f \in Files |-> 8 * f.spec + Place(f) + (IF f.tool = "detail" THEN 4 ELSE 0)]

MCSymmetry == Permutations(Tasks)
=============================================================================
