----------------------------- MODULE EvalChecks -----------------------------
(***************************************************************************)
(* The transcript of one evaluated run (evals/transcript.py) and the       *)
(* expectations it is held to (evals/checks.py).  A transcript is a record *)
(*   answer       as in Groundedness                                       *)
(*   tool_calls   the records of its calls, oldest first                   *)
(*   failure      why the run did not complete, None when it did           *)
(* and the record of a call                                                *)
(*   name, filter     the tool, and the value of its narrowing argument    *)
(*   is_error, fixture_miss                                                *)
(*   payload          its result parsed, None when it is no JSON           *)
(* A check is a record whose name says which class it is of.               *)
(***************************************************************************)
EXTENDS Groundedness, Sequences

CallsOf(transcript) ==
    {transcript.tool_calls[i] : i \in DOMAIN transcript.tool_calls}

\* The gate answered a call, or a preflight said anything but "proceed".
gate_fired(transcript) ==
    \E c \in CallsOf(transcript) :
        /\ c.payload # None
        /\ c.payload.status = GATE_STATUS \/ c.payload.verdict \notin {None, "proceed"}

\* Mutant: error payloads count as evidence.
result_payloadsErrors(transcript) ==
    {c.payload : c \in {d \in CallsOf(transcript) : d.payload # None}}

\* The grounding evidence: what the calls that are no errors returned.
result_payloads(transcript) ==
    {c.payload : c \in {d \in CallsOf(transcript) : ~d.is_error /\ d.payload # None}}

-----------------------------------------------------------------------------
EXPENSIVE_TOOLS ==
    {"search_rail", "search_avia", "search_bus", "search_etrain",
     "search_multitransport", "search_hotels"}

_expensive_calls(transcript) ==
    Len(SelectSeq(transcript.tool_calls, LAMBDA c : c.name \in EXPENSIVE_TOOLS))

_find_asserted_phrase(answer, phrase) == phrase \in answer.says

_find_phrase(answer, phrase) == phrase \in answer.says \cup answer.disclaims

Asked(answer) == _find_phrase(answer, "question")

-----------------------------------------------------------------------------
(* The checks, one operator per class: whether a run of it passes.         *)

AllClaimsGrounded(require_any, grounding) ==
    IF checkable(grounding) = {} THEN ~require_any ELSE fabricated(grounding) = {}

\* A claim counts as often as it is made.
MinGroundedClaims(kind, count, grounding) ==
    Cardinality(UNION {{v} \X (1..grounding.mentions[v]) :
        v \in {w \in confirmed(grounding) : Kind[w] = kind}}) >= count

UsedTool(tool, transcript) == \E c \in CallsOf(transcript) : c.name = tool

UsedToolWithArg(tool, value, transcript) ==
    \E c \in CallsOf(transcript) : c.name = tool /\ c.filter = value

DidNotUseTool(tool, transcript) == ~UsedTool(tool, transcript)

MaxToolCalls(limit, transcript) == Len(transcript.tool_calls) <= limit

AnswerAvoids(phrase, answer) == ~_find_asserted_phrase(answer, phrase)

AnswerMentions(phrase, answer) == _find_phrase(answer, phrase)

ClarifiedBeforeSearch(max_expensive_calls, transcript) ==
    Asked(transcript.answer) /\ _expensive_calls(transcript) <= max_expensive_calls

DisclosedAssumptionUpFront(grounding) == ~undisclosed(grounding)

DidNotAsk(answer) == ~Asked(answer)

GateFired(transcript) == gate_fired(transcript)

Passed(check, transcript, grounding) ==
    CASE check.name = "all_claims_grounded" -> AllClaimsGrounded(check.require_any, grounding)
      [] check.name = "min_grounded" -> MinGroundedClaims(check.kind, check.count, grounding)
      [] check.name = "used" -> UsedTool(check.tool, transcript)
      [] check.name = "used_with_arg" -> UsedToolWithArg(check.tool, check.value, transcript)
      [] check.name = "skipped" -> DidNotUseTool(check.tool, transcript)
      [] check.name = "max_tool_calls" -> MaxToolCalls(check.limit, transcript)
      [] check.name = "avoids" -> AnswerAvoids(check.phrase, transcript.answer)
      [] check.name = "mentions" -> AnswerMentions(check.phrase, transcript.answer)
      [] check.name = "clarified_before_search" ->
            ClarifiedBeforeSearch(check.limit, transcript)
      [] check.name = "assumption_disclosed_up_front" -> DisclosedAssumptionUpFront(grounding)
      [] check.name = "did_not_over_ask" -> DidNotAsk(transcript.answer)
      [] check.name = "premise_gate_fired" -> GateFired(transcript)

failed_checks(checks, transcript, grounding) ==
    {c \in checks : ~Passed(c, transcript, grounding)}
=============================================================================
