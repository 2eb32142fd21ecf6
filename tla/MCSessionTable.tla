---------------------------- MODULE MCSessionTable ----------------------------
(***************************************************************************)
(* SessionTable over HTTP: two clients with a session id, two without.     *)
(***************************************************************************)
EXTENDS SessionTable

CONSTANTS a, b, n1, n2

MCClients == {a, b, n1, n2}
MCHeader  == [c \in MCClients |-> IF c \in {a, b} THEN c ELSE NoKey]

MCSymmetry ==
  UNION {Permutations(Tasks), Permutations(Objs), Permutations({a, b}), Permutations({n1, n2})}

\* No action reads the last report, or what is left of a session nobody refers to.
LiveOnly ==
  LET live(f, none) == [o \in Objs |-> IF Fresh(o) THEN none ELSE f[o]]
  IN <<table, [k \in Held |-> bound[k]], live(gated, {}), live(results, <<>>),
       live(log, <<>>), taskVars>>
=============================================================================
