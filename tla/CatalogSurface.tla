--------------------------- MODULE CatalogSurface ---------------------------
(***************************************************************************)
(* What of Tutu's catalog reaches the agent.                               *)
(*                                                                         *)
(* UpstreamClient.list_tools joins the pages of upstream's tools/list, the *)
(* timeout retry of load_catalog may walk them a second time, the joined   *)
(* catalog is compacted by apply_compact_overrides, the two synthetic      *)
(* tools are added, and a call of an instructions tool returns the prose   *)
(* that was trimmed off its sources.                                       *)
(*                                                                         *)
(* A text is a record that says which prose it is, never characters: the   *)
(* description of a tool is the one an override was written against, or    *)
(* another; a field has no prose, a short sentence, a long one, or a       *)
(* sentence beside an enum.                                                *)
(***************************************************************************)
EXTENDS Naturals, Sequences, SequencesExt

CONSTANTS
    Names,        \* tools upstream may serve
    Fields,       \* fields of the input schema of a tool
    Cursors,      \* cursors upstream may hand out
    Offers,       \* what upstream may serve at first
    MaxRedeploys, \* bound on how often upstream changes what it serves
    First,        \* cursor=None in a request: the first page
    None          \* no next cursor; a tool on no page

ASSUME CursorsAssumption == {First, None} \cap Cursors = {} /\ First # None
ASSUME RedeploysAssumption == MaxRedeploys \in Nat
ASSUME NamesAssumption == IsFiniteSet(Names)

COMPACT_DESCRIPTIONS == {"search_rail", "get_rail_seatmap", "search_hotels"}

APPENDIX_TARGETS ==
    [search_rail |-> "get_rail_instructions",
     get_rail_seatmap |-> "get_rail_instructions",
     search_hotels |-> "get_hotels_instructions",
     search_avia |-> "get_avia_instructions",
     search_bus |-> "get_bus_instructions",
     search_etrain |-> "get_etrain_instructions",
     search_multitransport |-> "get_multitransport_instructions"]

Sources == DOMAIN APPENDIX_TARGETS

SYNTHETIC == <<"assess_request", "check_groundedness">>

FieldProse == {"none", "short", "long", "enum"}

Tool == [name : Names, description : {"summarized", "rewritten"},
         fields : [Fields -> FieldProse]]

Slots == Cursors \cup {First}

Upstream ==
    {u \in [tool : [Names -> Tool], page : [Names -> Slots \cup {None}],
            next : [Slots -> Cursors \cup {None}]] :
        \A n \in Names : u.tool[n].name = n}

ASSUME OffersAssumption == Offers \subseteq Upstream

VARIABLES
    upstream,          \* the tools upstream serves, their pages and cursors
    redeploys,         \* how often that has changed
    pc,                \* "idle" or "walking"
    attempt,           \* 2 in the walk that retries a timeout
    cursor,            \* the page the walk asks for next
    seen_cursors,
    tools,             \* the pages joined so far
    stable,            \* upstream has not changed since the walk began
    catalog,           \* the raw catalog held, of the last walk that ended
    whole,             \* that walk was of one unchanged upstream
    sent,              \* the answer to tools/list made of it
    trimmed_originals  \* tool |-> the texts kept for its appendix

walkVars == <<pc, attempt, cursor, seen_cursors, tools, stable>>
heldVars == <<catalog, whole, sent, trimmed_originals>>
vars == <<upstream, redeploys, walkVars, heldVars>>

-----------------------------------------------------------------------------
(* Compaction of a catalog, a sequence of tools.                           *)

ToolNames(list) == {list[i].name : i \in DOMAIN list}

\* The texts of one tool, told apart by where they stand and what they say.
Description(tool) == [of |-> tool.name, field |-> None, says |-> tool.description]
FieldText(tool, f) == [of |-> tool.name, field |-> f, says |-> tool.fields[f]]

DigestMatches(tool) ==
    tool.name \in COMPACT_DESCRIPTIONS => tool.description = "summarized"

\* Mutant: the appendix target need not be in the catalog.
compactableAnyTarget(list) ==
    {n \in ToolNames(list) \cap Sources :
        \E i \in DOMAIN list : list[i].name = n /\ DigestMatches(list[i])}

compactable(list) ==
    {n \in ToolNames(list) \cap Sources :
        /\ APPENDIX_TARGETS[n] \in ToolNames(list)
        /\ \E i \in DOMAIN list : list[i].name = n /\ DigestMatches(list[i])}

overridden(list) == compactable(list) \cap COMPACT_DESCRIPTIONS

\* The prose trim_schema_prose leaves in a field: nothing beside an enum, a
\* hint of a long sentence, a short sentence whole.
_shorten(prose) ==
    CASE prose = "enum" -> "none"
      [] prose = "long" -> "hint"
      [] OTHER -> prose

removed(tool) == {f \in Fields : _shorten(tool.fields[f]) # tool.fields[f]}

Entry(tool, list) ==
    [name |-> tool.name,
     description |-> IF tool.name \in overridden(list) THEN "override"
                     ELSE tool.description,
     fields |-> IF tool.name \in compactable(list)
                THEN [f \in Fields |-> _shorten(tool.fields[f])]
                ELSE tool.fields]

\* Mutant: the synthetic tools are left out.
proxy_catalogBare(list) == [i \in DOMAIN list |-> Entry(list[i], list)]

proxy_catalog(list) ==
    [i \in DOMAIN list |-> Entry(list[i], list)]
        \o [i \in DOMAIN SYNTHETIC |->
                [name |-> SYNTHETIC[i], description |-> "ours",
                 fields |-> [f \in Fields |-> "none"]]]

\* Of tools that share a name the last one's texts are kept.
LastOf(list, indices) ==
    {list[i] : i \in {k \in indices : \A j \in indices : j <= k}}

TrimmedTexts(list, n) ==
    LET named == {i \in DOMAIN list : list[i].name = n}
    IN  {Description(t) : t \in LastOf(list, {i \in named : n \in overridden(list)})}
            \cup UNION {{FieldText(t, f) :
                            t \in LastOf(list, {i \in named : f \in removed(list[i])})} :
                        f \in Fields}

apply_compact_overrides(list) ==
    [n \in compactable(list) |-> TrimmedTexts(list, n)]

apply_result_appendix(tool_name, trimmed) ==
    UNION {trimmed[s] : s \in {n \in DOMAIN trimmed : APPENDIX_TARGETS[n] = tool_name}}

-----------------------------------------------------------------------------
(* Walking upstream's pages.                                               *)

Page(slot) ==
    SetToSeq({upstream.tool[n] : n \in {m \in Names : upstream.page[m] = slot}})

Init ==
    /\ upstream \in Offers /\ redeploys = 0
    /\ pc = "idle" /\ attempt = 1
    /\ cursor = First /\ seen_cursors = {} /\ tools = <<>> /\ stable = TRUE
    /\ catalog = <<>> /\ whole = FALSE /\ sent = <<>> /\ trimmed_originals = <<>>

BeginWalk(n) ==
    /\ pc' = "walking" /\ attempt' = n
    /\ cursor' = First /\ seen_cursors' = {} /\ tools' = <<>> /\ stable' = TRUE

EndWalk ==
    /\ pc' = "idle" /\ attempt' = 1
    /\ cursor' = First /\ seen_cursors' = {} /\ tools' = <<>> /\ stable' = TRUE

\* load_catalog finds no catalog, or one past its TTL.
Load ==
    /\ pc = "idle"
    /\ BeginWalk(1)
    /\ UNCHANGED <<upstream, redeploys, heldVars>>

\* Mutant: the loop only stops when there is no next cursor.
LastPageNoCheck(next) == next = None

\* Mutant: any cursor but a new one ends it, the first page's included.
LastPageEager(next) == next = None \/ cursor = First

LastPage(next) == next = None \/ next \in seen_cursors

NextPage ==
    LET next == upstream.next[cursor]
    IN  /\ pc = "walking" /\ ~LastPage(next)
        /\ tools' = tools \o Page(cursor)
        /\ cursor' = next /\ seen_cursors' = seen_cursors \cup {next}
        /\ UNCHANGED <<upstream, redeploys, pc, attempt, stable, heldVars>>

\* list_tools returns; load_catalog compacts and keeps what it returned.
LastPageJoined ==
    LET joined == tools \o Page(cursor)
    IN  /\ pc = "walking" /\ LastPage(upstream.next[cursor])
        /\ catalog' = joined /\ whole' = stable
        /\ sent' = proxy_catalog(joined)
        /\ trimmed_originals' = apply_compact_overrides(joined)
        /\ EndWalk
        /\ UNCHANGED <<upstream, redeploys>>

\* A page that times out is retried with its whole walk, once.
PageTimesOut ==
    /\ pc = "walking"
    /\ IF attempt = 1 THEN BeginWalk(2) ELSE EndWalk
    /\ UNCHANGED <<upstream, redeploys, heldVars>>

\* Any other failure drops the walk; the catalog held stays as it is.
PageFails ==
    /\ pc = "walking"
    /\ EndWalk
    /\ UNCHANGED <<upstream, redeploys, heldVars>>

\* Upstream moves, drops or rewrites a tool, or changes a cursor.
Redeploy ==
    /\ redeploys < MaxRedeploys /\ redeploys' = redeploys + 1
    /\ \E n \in Names :
        \/ \E p \in Slots \cup {None} : upstream' = [upstream EXCEPT !.page[n] = p]
        \/ upstream' = [upstream EXCEPT !.tool[n].description = "rewritten"]
    /\ stable' = FALSE
    /\ UNCHANGED <<pc, attempt, cursor, seen_cursors, tools, heldVars>>

Next ==
    \/ Load
    \/ NextPage
    \/ LastPageJoined
    \/ PageTimesOut
    \/ PageFails
    \/ Redeploy

\* A request to upstream ends, in an answer or an exception.
Fairness == WF_vars(NextPage \/ LastPageJoined \/ PageTimesOut \/ PageFails)

Spec == Init /\ [][Next]_vars /\ Fairness

-----------------------------------------------------------------------------
(* Properties.                                                             *)

TypeOK ==
    /\ upstream \in Upstream
    /\ redeploys \in 0..MaxRedeploys
    /\ pc \in {"idle", "walking"} /\ attempt \in 1..2
    /\ cursor \in Slots /\ seen_cursors \subseteq Cursors
    /\ {stable, whole} \subseteq BOOLEAN
    /\ {tools[i] : i \in DOMAIN tools} \subseteq Tool
    /\ {catalog[i] : i \in DOMAIN catalog} \subseteq Tool
    /\ DOMAIN trimmed_originals \subseteq Sources
    /\ Len(sent) \in {0, Len(catalog) + Len(SYNTHETIC)}

\* The pages that following cursors from the first one leads to.
Linked ==
    {s \in Slots : \A closed \in SUBSET Slots :
        (/\ First \in closed
         /\ \A c \in closed : upstream.next[c] # None => upstream.next[c] \in closed)
        => s \in closed}

UniqueNames(list) ==
    \A i, j \in DOMAIN list : list[i].name = list[j].name => i = j

\* A walk of an upstream that did not change under it joins the tools of every
\* page its cursors lead to, once each: a silently truncated catalog hides tools.
CatalogComplete ==
    [][(catalog' # catalog \/ sent' # sent) /\ whole'
        => /\ UniqueNames(catalog')
           /\ ToolNames(catalog') = {n \in Names : upstream.page[n] \in Linked}]_vars

\* Every text upstream wrote is in the answer to tools/list as it was, or comes
\* with the result of an instructions tool that the same catalog offers; and an
\* override stands only for the description it was written to summarize.
NothingLost ==
    UniqueNames(catalog) =>
        LET appended == UNION {apply_result_appendix(t, trimmed_originals) :
                                    t \in ToolNames(catalog)}
        IN  \A i \in DOMAIN catalog :
                /\ \/ sent[i].description = catalog[i].description
                   \/ /\ Description(catalog[i]) \in appended
                      /\ catalog[i].description = "summarized"
                /\ \A f \in Fields :
                    \/ sent[i].fields[f] = catalog[i].fields[f]
                    \/ FieldText(catalog[i], f) \in appended

\* Every walk ends, whatever cursors upstream hands out, of those it has.
WalkEnds == pc = "walking" ~> pc = "idle"
=============================================================================
