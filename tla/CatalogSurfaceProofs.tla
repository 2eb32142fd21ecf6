------------------------ MODULE CatalogSurfaceProofs ------------------------
(***************************************************************************)
(* Proofs about CatalogSurface, for any tools, pages and cursors: the      *)
(* catalog of a walk that nothing changed under is that of upstream, and   *)
(* every text trimmed off it can still be had.                             *)
(***************************************************************************)
EXTENDS CatalogSurface, SequenceTheorems, FiniteSetTheorems, TLAPS

-----------------------------------------------------------------------------
(* Lists of tools.                                                         *)

\* SetToSeq lists a finite set, each member once.
LEMMA Listed ==
    ASSUME NEW S, IsFiniteSet(S)
    PROVE  LET q == SetToSeq(S)
           IN  /\ q \in Seq(S)
               /\ \A i, j \in DOMAIN q : q[i] = q[j] => i = j
               /\ \A x \in S : \E i \in DOMAIN q : q[i] = x
<1> DEFINE n == Cardinality(S)
           q == SetToSeq(S)
<1>1. n \in Nat /\ ExistsBijection(1..n, S)
  BY FS_CardinalityType
<1>2. PICK b \in [1..n -> S] : IsInjective(b)
  BY <1>1 DEF ExistsBijection, Bijection, Injection
<1>3. q \in [1..n -> S] /\ IsInjective(q)
  <2>1. \E f \in [1..n -> S] : IsInjective(f)
    BY <1>2
  <2>2. q = CHOOSE f \in [1..n -> S] : IsInjective(f)
    BY DEF SetToSeq
  <2> HIDE DEF q, n
  <2> QED
    BY <2>1, <2>2
<1> HIDE DEF q
<1>4. q \in Surjection(1..n, S)
  <2>1. q \in Injection(1..n, S)
    BY <1>3 DEF Injection
  <2>2. Cardinality(1..n) = Cardinality(S)
    BY <1>1, FS_Interval
  <2> HIDE DEF n
  <2> QED
    BY <2>1, <2>2, FS_Injection
<1>5. \A x \in S : \E i \in 1..n : q[i] = x
  BY <1>4 DEF Surjection
<1>6. DOMAIN q = 1..n /\ q \in Seq(S)
  BY <1>1, <1>3
<1> QED
  BY <1>3, <1>5, <1>6 DEF q, IsInjective

\* A page lists the tools that stand on it.
LEMMA PageLists ==
    ASSUME upstream \in Upstream, NEW slot
    PROVE  /\ Page(slot) \in Seq(Tool)
           /\ UniqueNames(Page(slot))
           /\ ToolNames(Page(slot)) = {n \in Names : upstream.page[n] = slot}
<1> DEFINE On == {n \in Names : upstream.page[n] = slot}
           S == {upstream.tool[n] : n \in On}
           q == Page(slot)
<1>1. \A n \in Names : upstream.tool[n] \in Tool /\ upstream.tool[n].name = n
  BY DEF Upstream
<1>2. IsFiniteSet(S)
  <2>1. IsFiniteSet(On)
    BY NamesAssumption, FS_Subset
  <2> DEFINE f == [n \in On |-> upstream.tool[n]]
  <2>2. f \in Surjection(On, S)
    BY DEF Surjection
  <2> HIDE DEF On, S, f
  <2> QED
    BY <2>1, <2>2, FS_Surjection
<1>3. q = SetToSeq(S)
  BY DEF Page
<1> HIDE DEF q, S
<1>4. /\ q \in Seq(S)
      /\ \A i, j \in DOMAIN q : q[i] = q[j] => i = j
      /\ \A x \in S : \E i \in DOMAIN q : q[i] = x
  BY <1>2, <1>3, Listed
<1>5. \A i \in DOMAIN q : q[i] \in S
  BY <1>4
<1>6. \A x \in S : x \in Tool /\ \E n \in On : x = upstream.tool[n] /\ x.name = n
  BY <1>1 DEF S
<1>7. \A x, y \in S : x.name = y.name => x = y
  BY <1>6
<1>8. q \in Seq(Tool)
  <2>1. S \subseteq Tool
    BY <1>6
  <2> QED
    BY <1>4, <2>1
<1>9. UniqueNames(q)
  BY <1>4, <1>5, <1>7 DEF UniqueNames
<1>10. ToolNames(q) = On
  <2>1. \A i \in DOMAIN q : q[i].name \in On
    BY <1>5, <1>6
  <2>2. \A n \in On : \E i \in DOMAIN q : q[i].name = n
    <3>1. \A n \in On : upstream.tool[n] \in S /\ upstream.tool[n].name = n
      BY <1>1 DEF S
    <3> QED
      BY <1>4, <3>1
  <2> QED
    BY <2>1, <2>2 DEF ToolNames
<1> QED
  BY <1>8, <1>9, <1>10 DEF q

\* A list keeps its places when another one is joined to it.
LEMMA Joined ==
    ASSUME NEW S, NEW T, NEW p \in Seq(S), NEW q \in Seq(T)
    PROVE  /\ Len(p \o q) = Len(p) + Len(q)
           /\ \A i \in DOMAIN p : (p \o q)[i] = p[i]
<1>1. p \in Seq(S \cup T) /\ q \in Seq(S \cup T)
  OBVIOUS
<1> QED
  BY <1>1

\* Lists with no name in common join to one that has every name of both once.
LEMMA JoinedNames ==
    ASSUME NEW p \in Seq(Tool), NEW q \in Seq(Tool), UniqueNames(p), UniqueNames(q),
           ToolNames(p) \cap ToolNames(q) = {}
    PROVE  UniqueNames(p \o q) /\ ToolNames(p \o q) = ToolNames(p) \cup ToolNames(q)
<1> DEFINE m == Len(p)
           n == Len(q)
           r == p \o q
<1>1. /\ m \in Nat /\ n \in Nat
      /\ DOMAIN p = 1..m /\ DOMAIN q = 1..n /\ DOMAIN r = 1..(m + n)
      /\ \A i \in 1..m : r[i] = p[i]
      /\ \A i \in (m + 1)..(m + n) : r[i] = q[i - m] /\ i - m \in 1..n
  OBVIOUS
<1>2. \A i \in 1..n : i + m \in (m + 1)..(m + n) /\ r[i + m] = q[i]
  OBVIOUS
<1> HIDE DEF m, n, r
<1>3. \A i \in DOMAIN r : \/ i \in 1..m /\ r[i] = p[i]
                          \/ i \in (m + 1)..(m + n) /\ r[i] = q[i - m] /\ i - m \in 1..n
  BY <1>1
<1>4. \A i \in DOMAIN p, j \in DOMAIN q : p[i].name # q[j].name
  BY DEF ToolNames
<1>5. UniqueNames(r)
  <2> SUFFICES ASSUME NEW i \in DOMAIN r, NEW j \in DOMAIN r, r[i].name = r[j].name
               PROVE  i = j
    BY DEF UniqueNames
  <2>1. CASE i \in 1..m /\ j \in 1..m
    BY <1>1, <2>1 DEF UniqueNames
  <2>2. CASE i \in (m + 1)..(m + n) /\ j \in (m + 1)..(m + n)
    <3>1. /\ i - m \in DOMAIN q /\ j - m \in DOMAIN q
          /\ q[i - m].name = q[j - m].name
      BY <1>1, <2>2
    <3>2. i - m = j - m
      BY <3>1 DEF UniqueNames
    <3> QED
      BY <1>1, <2>2, <3>2
  <2>3. CASE i \in 1..m /\ j \in (m + 1)..(m + n)
    BY <1>1, <1>4, <2>3
  <2>4. CASE j \in 1..m /\ i \in (m + 1)..(m + n)
    BY <1>1, <1>4, <2>4
  <2> QED
    BY <1>3, <2>1, <2>2, <2>3, <2>4
<1>6. ToolNames(r) = ToolNames(p) \cup ToolNames(q)
  <2>1. \A i \in DOMAIN r : (\E j \in DOMAIN p : r[i] = p[j]) \/ (\E j \in DOMAIN q : r[i] = q[j])
    BY <1>1, <1>3
  <2>2. \A j \in DOMAIN p : \E i \in DOMAIN r : r[i] = p[j]
    BY <1>1
  <2>3. \A j \in DOMAIN q : \E i \in DOMAIN r : r[i] = q[j]
    BY <1>1, <1>2
  <2> QED
    BY <2>1, <2>2, <2>3 DEF ToolNames
<1> QED
  BY <1>5, <1>6 DEF r

-----------------------------------------------------------------------------
(* Types, and what is held of a catalog.                                   *)

Held ==
    \/ catalog = <<>> /\ sent = <<>> /\ trimmed_originals = <<>>
    \/ /\ sent = proxy_catalog(catalog)
       /\ trimmed_originals = apply_compact_overrides(catalog)

SurfaceType ==
    /\ upstream \in Upstream
    /\ redeploys \in 0..MaxRedeploys
    /\ pc \in {"idle", "walking"} /\ attempt \in 1..2
    /\ cursor \in Slots /\ seen_cursors \subseteq Cursors
    /\ {stable, whole} \subseteq BOOLEAN
    /\ tools \in Seq(Tool) /\ catalog \in Seq(Tool)

\* In the answer to tools/list upstream's tools keep their places.
LEMMA SentKeepsPlaces ==
    ASSUME NEW list \in Seq(Tool)
    PROVE  /\ Len(proxy_catalog(list)) = Len(list) + 2
           /\ \A i \in DOMAIN list : proxy_catalog(list)[i] = Entry(list[i], list)
<1> DEFINE entries == [i \in DOMAIN list |-> Entry(list[i], list)]
           ours == [i \in DOMAIN SYNTHETIC |->
                        [name |-> SYNTHETIC[i], description |-> "ours",
                         fields |-> [f \in Fields |-> "none"]]]
           E == {entries[i] : i \in DOMAIN list}
           O == {ours[i] : i \in 1..2}
<1>1. DOMAIN list = 1..Len(list) /\ Len(list) \in Nat
  OBVIOUS
<1>2. DOMAIN SYNTHETIC = 1..2
  BY DEF SYNTHETIC
<1>3. entries \in [1..Len(list) -> E] /\ ours \in [1..2 -> O]
  BY <1>1, <1>2
<1>4. proxy_catalog(list) = entries \o ours
  BY DEF proxy_catalog
<1>5. \A i \in DOMAIN list : entries[i] = Entry(list[i], list)
  OBVIOUS
<1> HIDE DEF entries, ours, E, O
<1>6. entries \in Seq(E) /\ Len(entries) = Len(list) /\ DOMAIN entries = DOMAIN list
  BY <1>1, <1>3
<1>7. ours \in Seq(O) /\ Len(ours) = 2
  <2>1. \A n \in Nat : \A f \in [1..n -> O] : f \in Seq(O) /\ Len(f) = n
    OBVIOUS
  <2> QED
    BY <1>3, <2>1
<1>8. /\ Len(entries \o ours) = Len(entries) + Len(ours)
      /\ \A i \in DOMAIN entries : (entries \o ours)[i] = entries[i]
  <2>1. entries \in Seq(E) /\ ours \in Seq(O)
    BY <1>6, <1>7
  <2> QED
    BY ONLY <2>1, Joined
<1> QED
  BY <1>4, <1>5, <1>6, <1>7, <1>8

LEMMA NothingHeld == <<>> \in Seq(Tool) /\ UniqueNames(<<>>) /\ ToolNames(<<>>) = {}
  BY DEF UniqueNames, ToolNames

\* What a redeploy leaves is again something upstream may serve.
LEMMA RedeployType == ASSUME upstream \in Upstream, Redeploy PROVE upstream' \in Upstream
<1>1. PICK n \in Names :
        \/ \E p \in Slots \cup {None} : upstream' = [upstream EXCEPT !.page[n] = p]
        \/ upstream' = [upstream EXCEPT !.tool[n].description = "rewritten"]
  BY DEF Redeploy
<1>2. CASE \E p \in Slots \cup {None} : upstream' = [upstream EXCEPT !.page[n] = p]
  BY <1>2 DEF Upstream
<1>3. CASE upstream' = [upstream EXCEPT !.tool[n].description = "rewritten"]
  <2>1. [upstream.tool[n] EXCEPT !.description = "rewritten"] \in Tool
    BY DEF Upstream, Tool
  <2>2. [upstream.tool[n] EXCEPT !.description = "rewritten"].name = n
    BY DEF Upstream, Tool
  <2>3. upstream' = [upstream EXCEPT !.tool =
                        [upstream.tool EXCEPT ![n] =
                            [upstream.tool[n] EXCEPT !.description = "rewritten"]]]
    BY <1>3
  <2> QED
    BY <2>1, <2>2, <2>3 DEF Upstream
<1> QED
  BY <1>1, <1>2, <1>3

LEMMA SurfaceTypeKept ==
    ASSUME SurfaceType, Held, [Next]_vars
    PROVE  SurfaceType' /\ Held'
<1>1. CASE Load \/ PageTimesOut \/ PageFails
  <2>1. /\ UNCHANGED <<upstream, redeploys, heldVars>>
        /\ pc' \in {"idle", "walking"} /\ attempt' \in 1..2
        /\ cursor' = First /\ seen_cursors' = {} /\ tools' = <<>> /\ stable' = TRUE
    BY <1>1 DEF Load, PageTimesOut, PageFails, BeginWalk, EndWalk
  <2> QED
    BY <2>1, NothingHeld DEF SurfaceType, Held, Slots, heldVars
<1>2. CASE NextPage
  <2> DEFINE next == upstream.next[cursor]
  <2>1. /\ ~LastPage(next) /\ tools' = tools \o Page(cursor)
        /\ cursor' = next /\ seen_cursors' = seen_cursors \cup {next}
        /\ UNCHANGED <<upstream, redeploys, pc, attempt, stable, heldVars>>
    BY <1>2 DEF NextPage
  <2>2. next \in Cursors
    BY <2>1 DEF LastPage, SurfaceType, Upstream
  <2>3. tools' \in Seq(Tool)
    BY <2>1, PageLists DEF SurfaceType
  <2> HIDE DEF next
  <2> QED
    BY <2>1, <2>2, <2>3 DEF SurfaceType, Held, Slots, heldVars
<1>3. CASE LastPageJoined
  <2> DEFINE joined == tools \o Page(cursor)
  <2>1. /\ catalog' = joined /\ whole' = stable
        /\ sent' = proxy_catalog(joined)
        /\ trimmed_originals' = apply_compact_overrides(joined)
        /\ pc' = "idle" /\ attempt' = 1
        /\ cursor' = First /\ seen_cursors' = {} /\ tools' = <<>> /\ stable' = TRUE
        /\ UNCHANGED <<upstream, redeploys>>
    BY <1>3 DEF LastPageJoined, EndWalk
  <2>2. joined \in Seq(Tool)
    BY PageLists DEF SurfaceType
  <2> HIDE DEF joined
  <2>3. Held'
    BY <2>1 DEF Held, proxy_catalog, apply_compact_overrides
  <2> QED
    BY <2>1, <2>2, <2>3, NothingHeld DEF SurfaceType, Slots
<1>4. CASE Redeploy
  <2>1. /\ redeploys < MaxRedeploys /\ redeploys' = redeploys + 1 /\ stable' = FALSE
        /\ UNCHANGED <<pc, attempt, cursor, seen_cursors, tools, heldVars>>
    BY <1>4 DEF Redeploy
  <2>2. redeploys' \in 0..MaxRedeploys
    BY <2>1, RedeploysAssumption DEF SurfaceType
  <2> QED
    BY <1>4, <2>1, <2>2, RedeployType DEF SurfaceType, Held, heldVars
<1>5. CASE UNCHANGED vars
  BY <1>5 DEF SurfaceType, Held, vars, walkVars, heldVars
<1> QED
  BY <1>1, <1>2, <1>3, <1>4, <1>5 DEF Next

LEMMA SurfaceInvariant == Spec => [](SurfaceType /\ Held)
<1>1. Init => SurfaceType /\ Held
  <2> SUFFICES ASSUME Init PROVE SurfaceType /\ Held
    OBVIOUS
  <2>1. upstream \in Upstream /\ redeploys \in 0..MaxRedeploys
    BY OffersAssumption, RedeploysAssumption DEF Init
  <2>2. {stable, whole} \subseteq BOOLEAN
    BY DEF Init
  <2>3. pc \in {"idle", "walking"} /\ attempt \in 1..2 /\ cursor \in Slots
    BY DEF Init, Slots
  <2>4. seen_cursors \subseteq Cursors /\ tools \in Seq(Tool) /\ catalog \in Seq(Tool)
    BY NothingHeld DEF Init
  <2>5. Held
    BY DEF Init, Held
  <2> QED
    BY <2>1, <2>2, <2>3, <2>4, <2>5 DEF SurfaceType
<1>2. SurfaceType /\ Held /\ [Next]_vars => (SurfaceType /\ Held)'
  BY SurfaceTypeKept
<1> QED
  BY <1>1, <1>2, PTL DEF Spec

\* The answer to tools/list has every tool upstream served and the two of the proxy's
\* own, and only a tool that an instructions tool stands for is trimmed.
THEOREM SurfaceTyped == Spec => []TypeOK
<1>1. SurfaceType /\ Held => TypeOK
  <2> SUFFICES ASSUME SurfaceType, Held PROVE TypeOK
    OBVIOUS
  <2>1. /\ {tools[i] : i \in DOMAIN tools} \subseteq Tool
        /\ {catalog[i] : i \in DOMAIN catalog} \subseteq Tool
    BY DEF SurfaceType
  <2>2. DOMAIN trimmed_originals \subseteq Sources
    <3>1. CASE trimmed_originals = <<>>
      BY <3>1
    <3>2. CASE trimmed_originals = apply_compact_overrides(catalog)
      BY <3>2 DEF apply_compact_overrides, compactable
    <3> QED
      BY <3>1, <3>2 DEF Held
  <2>3. Len(sent) \in {0, Len(catalog) + Len(SYNTHETIC)}
    <3>1. CASE sent = <<>>
      BY <3>1
    <3>2. CASE sent = proxy_catalog(catalog)
      <4>1. Len(sent) = Len(catalog) + 2
        BY <3>2, SentKeepsPlaces DEF SurfaceType
      <4>2. Len(SYNTHETIC) = 2
        BY DEF SYNTHETIC
      <4> QED
        BY <4>1, <4>2
    <3> QED
      BY <3>1, <3>2 DEF Held
  <2> QED
    BY <2>1, <2>2, <2>3 DEF TypeOK, SurfaceType
<1> QED
  BY <1>1, SurfaceInvariant, PTL

-----------------------------------------------------------------------------
(* Compaction loses nothing.                                               *)

Appended(list) ==
    UNION {apply_result_appendix(t, apply_compact_overrides(list)) : t \in ToolNames(list)}

\* What is kept for a tool comes with the result of one the catalog offers.
LEMMA TextsAppended ==
    ASSUME NEW list, NEW n \in compactable(list)
    PROVE  TrimmedTexts(list, n) \subseteq Appended(list)
<1> DEFINE trimmed == apply_compact_overrides(list)
           t == APPENDIX_TARGETS[n]
<1>1. t \in ToolNames(list)
  BY DEF compactable
<1>2. DOMAIN trimmed = compactable(list) /\ trimmed[n] = TrimmedTexts(list, n)
  BY DEF apply_compact_overrides
<1> HIDE DEF trimmed
<1>3. trimmed[n] \subseteq apply_result_appendix(t, trimmed)
  BY <1>2 DEF apply_result_appendix
<1> QED
  BY <1>1, <1>2, <1>3 DEF Appended, trimmed

\* Of a tool that has its name to itself the texts kept are its own.
LEMMA OwnTextsKept ==
    ASSUME NEW list \in Seq(Tool), UniqueNames(list), NEW i \in DOMAIN list
    PROVE  LET tool == list[i]
               kept == TrimmedTexts(list, tool.name)
           IN  /\ tool.name \in overridden(list) => Description(tool) \in kept
               /\ \A f \in removed(tool) : FieldText(tool, f) \in kept
<1> DEFINE tool == list[i]
           n == tool.name
           named == {j \in DOMAIN list : list[j].name = n}
           kept == TrimmedTexts(list, n)
<1>1. named = {i} /\ i \in Nat
  BY DEF UniqueNames
<1>2. LastOf(list, {i}) = {tool}
  BY <1>1 DEF LastOf
<1>3. kept = {Description(t) : t \in LastOf(list, {j \in named : n \in overridden(list)})}
                \cup UNION {{FieldText(t, f) :
                                t \in LastOf(list, {j \in named : f \in removed(list[j])})} :
                            f \in Fields}
  BY DEF TrimmedTexts
<1> HIDE DEF named, kept
<1>4. ASSUME n \in overridden(list)
      PROVE  Description(tool) \in kept
  <2>1. {j \in named : n \in overridden(list)} = {i}
    BY <1>1, <1>4
  <2> QED
    BY <1>2, <1>3, <2>1
<1>5. ASSUME NEW f \in removed(tool)
      PROVE  FieldText(tool, f) \in kept
  <2>1. {j \in named : f \in removed(list[j])} = {i}
    BY <1>1, <1>5
  <2>2. FieldText(tool, f) \in {FieldText(t, f) :
            t \in LastOf(list, {j \in named : f \in removed(list[j])})}
    BY <1>2, <2>1
  <2>3. f \in Fields
    BY DEF removed
  <2> QED
    BY <1>3, <2>2, <2>3
<1> QED
  BY <1>4, <1>5 DEF kept

\* apply_compact_overrides and apply_result_appendix: whatever upstream wrote about a tool
\* is in the answer to tools/list as it was, or comes with the result of an instructions
\* tool of the same catalog; and only the description that was summarized is overridden.
THEOREM NothingIsLost == Spec => []NothingLost
<1>1. SurfaceType /\ Held => NothingLost
  <2> SUFFICES ASSUME SurfaceType, Held, UniqueNames(catalog), NEW i \in DOMAIN catalog
               PROVE  LET appended == UNION {apply_result_appendix(t, trimmed_originals) :
                                                t \in ToolNames(catalog)}
                      IN  /\ \/ sent[i].description = catalog[i].description
                             \/ /\ Description(catalog[i]) \in appended
                                /\ catalog[i].description = "summarized"
                          /\ \A f \in Fields :
                                \/ sent[i].fields[f] = catalog[i].fields[f]
                                \/ FieldText(catalog[i], f) \in appended
    BY DEF NothingLost
  <2> DEFINE tool == catalog[i]
             n == tool.name
  <2>1. /\ catalog \in Seq(Tool) /\ tool \in Tool
        /\ sent = proxy_catalog(catalog)
        /\ trimmed_originals = apply_compact_overrides(catalog)
    BY DEF SurfaceType, Held
  <2>2. sent[i] = Entry(tool, catalog)
    BY <2>1, SentKeepsPlaces
  <2>3. ASSUME n \in overridden(catalog)
        PROVE  Description(tool) \in Appended(catalog) /\ tool.description = "summarized"
    <3>1. n \in compactable(catalog) /\ n \in COMPACT_DESCRIPTIONS
      BY <2>3 DEF overridden
    <3>2. Description(tool) \in Appended(catalog)
      BY <2>1, <2>3, <3>1, OwnTextsKept, TextsAppended
    <3>3. PICK j \in DOMAIN catalog : catalog[j].name = n /\ DigestMatches(catalog[j])
      BY <3>1 DEF compactable
    <3>4. j = i
      BY <3>3 DEF UniqueNames
    <3> QED
      BY <3>1, <3>2, <3>3, <3>4 DEF DigestMatches
  <2>4. ASSUME NEW f \in Fields, sent[i].fields[f] # tool.fields[f]
        PROVE  FieldText(tool, f) \in Appended(catalog)
    <3>1. n \in compactable(catalog) /\ f \in removed(tool)
      BY <2>1, <2>2, <2>4 DEF Entry, removed, Tool
    <3> QED
      BY <2>1, <3>1, OwnTextsKept, TextsAppended
  <2>5. n \notin overridden(catalog) => sent[i].description = tool.description
    BY <2>2 DEF Entry
  <2>6. Appended(catalog) = UNION {apply_result_appendix(t, trimmed_originals) :
                                        t \in ToolNames(catalog)}
    BY <2>1 DEF Appended
  <2> QED
    BY <2>3, <2>4, <2>5, <2>6
<1> QED
  BY <1>1, SurfaceInvariant, PTL

-----------------------------------------------------------------------------
(* A walk of one unchanged upstream.                                       *)

\* The pages asked for so far, and the one asked for next.
Visited == seen_cursors \cup {First}

\* The pages joined are those visited but the next one; each led to the next, and
\* all of them are linked to the first.
WalkInv ==
    pc = "walking" /\ stable =>
        /\ cursor \in Visited /\ Visited \subseteq Linked
        /\ \A s \in Visited \ {cursor} : upstream.next[s] \in seen_cursors
        /\ UniqueNames(tools)
        /\ ToolNames(tools) = {n \in Names : upstream.page[n] \in Visited \ {cursor}}

LEMMA WalkBegins == ASSUME BeginWalk(attempt'), upstream' = upstream PROVE WalkInv'
<1>1. /\ cursor' = First /\ seen_cursors' = {} /\ tools' = <<>>
  BY DEF BeginWalk
<1>2. Visited' = {First} /\ First \in Linked'
  BY <1>1 DEF Visited, Linked, Slots
<1> QED
  BY <1>1, <1>2, NothingHeld DEF WalkInv

\* With the next page every page visited is joined.
LEMMA NextPageJoins ==
    ASSUME SurfaceType, WalkInv, pc = "walking", stable
    PROVE  /\ UniqueNames(tools \o Page(cursor))
           /\ ToolNames(tools \o Page(cursor)) = {n \in Names : upstream.page[n] \in Visited}
<1>1. /\ Page(cursor) \in Seq(Tool) /\ UniqueNames(Page(cursor))
      /\ ToolNames(Page(cursor)) = {n \in Names : upstream.page[n] = cursor}
  BY PageLists DEF SurfaceType
<1>2. /\ tools \in Seq(Tool) /\ UniqueNames(tools) /\ cursor \in Visited
      /\ ToolNames(tools) = {n \in Names : upstream.page[n] \in Visited \ {cursor}}
  BY DEF SurfaceType, WalkInv
<1>3. ToolNames(tools) \cap ToolNames(Page(cursor)) = {}
  BY <1>1, <1>2
<1>4. /\ UniqueNames(tools \o Page(cursor))
      /\ ToolNames(tools \o Page(cursor)) = ToolNames(tools) \cup ToolNames(Page(cursor))
  BY <1>1, <1>2, <1>3, JoinedNames
<1> QED
  BY <1>1, <1>2, <1>4

LEMMA WalkKept == ASSUME SurfaceType, WalkInv, [Next]_vars PROVE WalkInv'
<1>1. CASE Load
  <2>1. attempt' = 1
    BY <1>1 DEF Load, BeginWalk
  <2> QED
    BY <1>1, <2>1, WalkBegins DEF Load
<1>2. CASE PageTimesOut
  <2>1. CASE attempt = 1
    <3>1. attempt' = 2 /\ BeginWalk(2) /\ upstream' = upstream
      BY <1>2, <2>1 DEF PageTimesOut, BeginWalk
    <3> QED
      BY <3>1, WalkBegins
  <2>2. CASE attempt # 1
    BY <1>2, <2>2 DEF PageTimesOut, EndWalk, WalkInv
  <2> QED
    BY <2>1, <2>2
<1>3. CASE PageFails \/ LastPageJoined
  BY <1>3 DEF PageFails, LastPageJoined, EndWalk, WalkInv
<1>4. CASE Redeploy
  BY <1>4 DEF Redeploy, WalkInv
<1>5. CASE NextPage
  <2> SUFFICES ASSUME stable PROVE WalkInv'
    BY <1>5 DEF NextPage, WalkInv
  <2> DEFINE next == upstream.next[cursor]
  <2>1. /\ pc = "walking" /\ ~LastPage(next) /\ tools' = tools \o Page(cursor)
        /\ cursor' = next /\ seen_cursors' = seen_cursors \cup {next}
        /\ upstream' = upstream
    BY <1>5 DEF NextPage
  <2>2. next \in Cursors /\ next # None /\ next \notin Visited
    BY <2>1, CursorsAssumption DEF LastPage, SurfaceType, Upstream, Visited
  <2>3. /\ cursor \in Visited /\ Visited \subseteq Linked
        /\ \A s \in Visited \ {cursor} : upstream.next[s] \in seen_cursors
    BY <2>1 DEF WalkInv
  <2>4. Visited' = Visited \cup {next} /\ Visited' \ {cursor'} = Visited
    BY <2>1, <2>2 DEF Visited
  <2>5. next \in Linked /\ Linked' = Linked
    <3>1. cursor \in Linked
      BY <2>3
    <3>2. next \in Slots
      BY <2>2 DEF Slots
    <3> QED
      BY <2>1, <2>2, <3>1, <3>2 DEF Linked
  <2>6. \A s \in Visited : upstream'.next[s] \in seen_cursors'
    BY <2>1, <2>3
  <2>7. /\ UniqueNames(tools')
        /\ ToolNames(tools') = {n \in Names : upstream.page[n] \in Visited}
    BY <2>1, NextPageJoins
  <2> HIDE DEF next
  <2> QED
    BY <2>1, <2>3, <2>4, <2>5, <2>6, <2>7 DEF WalkInv
<1>6. CASE UNCHANGED vars
  BY <1>6 DEF WalkInv, Visited, Linked, vars, walkVars
<1> QED
  BY <1>1, <1>2, <1>3, <1>4, <1>5, <1>6 DEF Next

\* The loop ends where every page the cursors lead to has been joined.
LEMMA WalkComplete ==
    ASSUME SurfaceType, WalkInv, LastPageJoined, stable
    PROVE  /\ UniqueNames(catalog')
           /\ ToolNames(catalog') = {n \in Names : upstream.page[n] \in Linked}
<1>1. /\ pc = "walking" /\ LastPage(upstream.next[cursor])
      /\ catalog' = tools \o Page(cursor)
  BY DEF LastPageJoined
<1>2. Visited \in SUBSET Slots /\ First \in Visited
  BY DEF Visited, SurfaceType, Slots
<1>3. \A s \in Visited : upstream.next[s] # None => upstream.next[s] \in Visited
  BY <1>1 DEF WalkInv, LastPage, Visited
<1>4. Linked \subseteq Visited
  BY <1>2, <1>3 DEF Linked
<1>5. Visited = Linked
  BY <1>1, <1>4 DEF WalkInv
<1> QED
  BY <1>1, <1>5, NextPageJoins

\* UpstreamClient.list_tools: whatever the cursors, the catalog of a walk that upstream
\* did not change under has the tools of every page they lead to, and each once.
THEOREM CatalogIsComplete == Spec => CatalogComplete
<1> DEFINE Step ==
        (catalog' # catalog \/ sent' # sent) /\ whole'
            => /\ UniqueNames(catalog')
               /\ ToolNames(catalog') = {n \in Names : upstream.page[n] \in Linked}
<1>1. Init => WalkInv
  BY DEF Init, WalkInv
<1>2. SurfaceType /\ WalkInv /\ [Next]_vars => WalkInv'
  BY WalkKept
<1>3. SurfaceType /\ WalkInv /\ [Next]_vars => Step
  <2> SUFFICES ASSUME SurfaceType, WalkInv, [Next]_vars,
                      catalog' # catalog \/ sent' # sent, whole'
               PROVE  /\ UniqueNames(catalog')
                      /\ ToolNames(catalog') = {n \in Names : upstream.page[n] \in Linked}
    OBVIOUS
  <2>1. LastPageJoined
    BY DEF Next, Load, NextPage, PageTimesOut, PageFails, Redeploy, vars, heldVars
  <2>2. stable
    BY <2>1 DEF LastPageJoined
  <2> QED
    BY <2>1, <2>2, WalkComplete
<1> QED
  BY <1>1, <1>2, <1>3, SurfaceInvariant, PTL DEF Spec, CatalogComplete
=============================================================================
