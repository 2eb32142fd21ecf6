------------------------------ MODULE MCEvalRun ------------------------------
(* Two scenarios, one real price, one invented and a code nobody returned.    *)
EXTENDS EvalRun

MCScenarios == {"cheapest", "missing"}
MCValues == {"real", "invented", "train"}
MCKind == [v \in MCValues |-> IF v = "train" THEN "code" ELSE "price"]
MCAmount == [real |-> 130188, invented |-> 115000]
MCSaid == [cheapest |-> {}, missing |-> {"train"}]
MCContradictory == {"cheapest"}

Grounded_ == [name |-> "all_claims_grounded", require_any |-> TRUE]
Silent == [name |-> "avoids", phrase |-> "no such train"]
Upfront == [name |-> "assumption_disclosed_up_front"]
Brief == [name |-> "max_tool_calls", limit |-> 1]
Priced_ == [name |-> "min_grounded", kind |-> "price", count |-> 2]
Searched == [name |-> "used", tool |-> "search_rail"]
NotAsking == [name |-> "did_not_over_ask"]

MCChecks == [cheapest |-> {Grounded_, Upfront, Priced_, NotAsking},
             missing |-> {Silent, Brief, Searched}]

Call(name, filter, assume, dated) ==
    [name |-> name, dated |-> dated, filter |-> filter, assume |-> assume,
     draft |-> EmptyAnswer]
\* How often an answer makes a claim: a price is named twice.
Claiming(values) ==
    [v \in MCValues |-> IF v \notin values THEN 0 ELSE IF MCKind[v] = "price" THEN 2 ELSE 1]

Plain == Call("search_rail", None, FALSE, TRUE)
Train == Call("search_rail", "train", FALSE, TRUE)
Priced == Call("search_rail", "invented", TRUE, TRUE)
Undated == Call("search_rail", None, FALSE, FALSE)
Asking == Call("assess_request", "train", FALSE, TRUE)
Drafted == [Call("check_groundedness", None, FALSE, TRUE)
                EXCEPT !.draft = [EmptyAnswer EXCEPT !.claims = Claiming({"train"})]]

MCCalls == [cheapest |-> {Plain, Train, Priced, Undated, Asking, Drafted, malformed},
            missing |-> {Priced}]

Answer(claims, upfront) ==
    [EmptyAnswer EXCEPT !.claims = Claiming(claims), !.upfront = upfront]
MCAnswers == {Answer({"real"}, FALSE), Answer({"invented", "train"}, TRUE)}

MCPlan ==
    [p \in MCScenarios \X {BASELINE, PROXY} |->
        [calls |-> IF p[1] = "cheapest" THEN <<Plain>> ELSE <<Train>>,
         answer |-> CASE p = <<"cheapest", PROXY>> -> Answer({"real"}, FALSE)
                      [] p = <<"cheapest", BASELINE>> -> Answer({"invented"}, FALSE)
                      [] p[1] = "missing" ->
                            [EmptyAnswer EXCEPT !.claims = Claiming({"train"}), !.says =
                                IF p[2] = BASELINE THEN {"no such train"} ELSE {}]]]

MCSELF_CHECK ==
    [p \in DOMAIN MCPlan |->
        CASE p = <<"cheapest", BASELINE>> -> {Grounded_, Priced_}
          [] p = <<"missing", BASELINE>> -> {Silent}
          [] OTHER -> {}]

\* An object with a price, and a list with a code.
MCReturned == {[Blank EXCEPT !.prices = {"real"}],
               [Blank EXCEPT !.list = TRUE, !.whole = {"train"}]}

Setting(agent, api, concurrency, max_turns, variants) ==
    [agent |-> agent, api |-> api, concurrency |-> concurrency,
     max_turns |-> max_turns, variants |-> variants,
     selection |-> FALSE, selectable |-> TRUE, live |-> FALSE, record_missing |-> FALSE,
     effort_valid |-> TRUE, fixtures |-> TRUE, credentials |-> TRUE]

Refusable == Setting("openai", "chat", 1, 1, <<PROXY>>)

MCOptions ==
    {Setting("scripted", "responses", n, 2, <<BASELINE, PROXY>>) : n \in 1..2}
    \cup {Setting("scripted", "responses", 1, 2, <<PROXY>>)}
    \cup {Setting("openai", "chat", 2, 2, <<BASELINE>>),
          Setting("openai", "responses", 2, 2, <<PROXY>>),
          Setting("openai", "chat", 1, 1, <<PROXY>>)}
    \cup {[Refusable EXCEPT !.concurrency = 0], [Refusable EXCEPT !.selectable = FALSE],
          [Refusable EXCEPT !.record_missing = TRUE], [Refusable EXCEPT !.effort_valid = FALSE],
          [Refusable EXCEPT !.credentials = FALSE],
          [Refusable EXCEPT !.agent = "scripted", !.selection = TRUE],
          [Refusable EXCEPT !.agent = "scripted", !.fixtures = FALSE]}
=============================================================================
