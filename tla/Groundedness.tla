---------------------------- MODULE Groundedness ----------------------------
(***************************************************************************)
(* The answer-side check of tutu_mcp/groundedness.py: which of the claims  *)
(* of an answer stand in the payloads of the tool results.                 *)
(*                                                                         *)
(* Values are names for what a claim, an argument or a payload can say: a  *)
(* price (in hundredths, Amount), a url, a time or a code (Kind).  Text is *)
(* abstracted to the values it holds.  A payload is a record               *)
(*   list             a JSON list and no object                            *)
(*   status, verdict  of that name in a JSON object, None without          *)
(*   prices           numbers under a key that speaks of a price           *)
(*   whole, part      values that are a string, or stand inside a longer   *)
(*   notes            values under keys that begin with "_"                *)
(* and an answer a record, FinalAnswer,                                    *)
(*   claims           how often extract_claims finds each value in it      *)
(*   upfront          a disclosure marker stands in its opening            *)
(*   says, disclaims  phrases it asserts, or names only to disclaim them   *)
(***************************************************************************)
EXTENDS Integers, FiniteSets

CONSTANTS
    Values, Kind, Amount,
    None

ASSUME KindAssumption ==
    /\ Kind \in [Values -> {"price", "url", "time", "code"}]
    /\ Amount \in [{v \in Values : Kind[v] = "price"} -> Nat]
    /\ None \notin Values

GATE_STATUS == "clarification_required"

ERROR_STATUSES ==
    {"fixture_not_found", "fixture_corrupt", "unknown_tool",
     "upstream_timeout", "upstream_unavailable"}

LOCAL_FIXTURE_STATUSES == {"fixture_not_found", "fixture_corrupt"}

Payload ==
    [list : BOOLEAN, status : ERROR_STATUSES \cup {GATE_STATUS, None},
     verdict : {"ask_user_first", "resolve_with_tool", "drop_invented_filters",
                "proceed", None},
     prices : SUBSET Values, whole : SUBSET Values, part : SUBSET Values,
     notes : SUBSET Values]

FinalAnswer == [claims : [Values -> Nat], upfront : BOOLEAN,
                says : SUBSET STRING, disclaims : SUBSET STRING]

ASSUME NoPayloadAssumption == None \notin Payload

Blank == [list |-> FALSE, status |-> None, verdict |-> None,
          prices |-> {}, whole |-> {}, part |-> {}, notes |-> {}]

-----------------------------------------------------------------------------
_is_error_payload(payload) == payload.status \in ERROR_STATUSES

\* The numbers and strings of a payload, its "_" keys skipped.
_flatten(payload) ==
    [prices |-> payload.prices, whole |-> payload.whole, part |-> payload.part]

build_grounding_index(payloads) ==
    LET flat == {_flatten(p) : p \in {q \in payloads : ~_is_error_payload(q)}}
    IN  [price_numbers |-> UNION {f.prices : f \in flat},
         exact |-> UNION {f.whole : f \in flat},
         within |-> UNION {f.whole \cup f.part : f \in flat}]

\* round() of Python: to even at half a unit.
Round(amount) ==
    LET unit == amount \div 100
        rest == amount % 100
    IN  IF rest < 50 \/ (rest = 50 /\ unit % 2 = 0) THEN unit ELSE unit + 1

Distance(m, n) == IF m < n THEN n - m ELSE m - n

has_number(index, v) ==
    \E n \in index.price_numbers :
        \/ Distance(Amount[v], Amount[n]) <= 1
        \/ Round(Amount[v]) = Round(Amount[n])

\* A url must be a string of the payload, a time or a code may stand in one.
Grounded(index, v) ==
    CASE Kind[v] = "price" -> has_number(index, v)
      [] Kind[v] = "url" -> v \in index.exact
      [] OTHER -> v \in index.within

\* Two spellings of one price are one value.
_claim_spellings(v) ==
    IF Kind[v] = "price"
    THEN {w \in Values : Kind[w] = "price" /\ Amount[w] = Amount[v]} ELSE {v}

\* A request is the set of values it names, each as a word of its own.
_stated_by_user(v, said) == _claim_spellings(v) \cap said # {}

\* evidence beats a declared assumption, which beats the user's own words.
ClaimStatus(index, assumed, said, v) ==
    IF Grounded(index, v) THEN "confirmed"
    ELSE IF _claim_spellings(v) \cap assumed # {} THEN "assumed"
    ELSE IF _stated_by_user(v, said) THEN "user_stated"
    ELSE "unavailable"

\* The values extract_claims finds.
Claimed(answer) == {v \in Values : answer.claims[v] > 0}

check_groundedness(answer, payloads, assumed, assumptions, said) ==
    LET index == build_grounding_index(payloads)
    IN  [status |-> [v \in Claimed(answer) |-> ClaimStatus(index, assumed, said, v)],
         mentions |-> answer.claims,
         assumptions |-> assumptions,
         upfront |-> answer.upfront,
         ignored_error_payloads |-> Cardinality({p \in payloads : _is_error_payload(p)})]

-----------------------------------------------------------------------------
(* GroundednessReport.                                                     *)

Having(report, status) == {v \in DOMAIN report.status : report.status[v] = status}

confirmed(report) == Having(report, "confirmed")

fabricated(report) == Having(report, "unavailable")

checkable(report) == DOMAIN report.status \ Having(report, "user_stated")

\* assumption_disclosed: None when there was nothing to disclose.
undisclosed(report) == report.assumptions /\ ~report.upfront

-----------------------------------------------------------------------------
(* The check_groundedness tool: the session's payloads and those handed in. *)

\* The report as JSON: no price key, but every claim as a string and every
\* assumption in one.
report_to_json(report, assumed) ==
    [Blank EXCEPT !.whole = DOMAIN report.status, !.part = assumed]

\* Its text quotes every claim it judged, and is an error when an assumption was
\* not disclosed; with nothing to check against it is an error and no JSON.
run_check_groundedness_tool(answer, handed, session_payloads, assumed, assumptions, said) ==
    LET payloads == session_payloads \cup handed
        report == check_groundedness(answer, payloads, assumed, assumptions, said)
    IN  IF payloads = {}
        THEN [payload |-> None, is_error |-> TRUE]
        ELSE [payload |-> report_to_json(report, assumed), is_error |-> undisclosed(report)]
=============================================================================
