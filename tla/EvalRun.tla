------------------------------- MODULE EvalRun -------------------------------
(***************************************************************************)
(* One run of the evaluation harness: evals/run.py refuses bad options,    *)
(* run_eval of evals/runner.py takes the variants one after the other and  *)
(* within a variant runs the scenarios concurrently, at most `concurrency` *)
(* at a time; in each an agent of evals/agent.py talks to the model and    *)
(* executes its calls through the proxy's dispatch pipeline (variants.py), *)
(* and what it answered is judged by the transcript it left.               *)
(*                                                                         *)
(* A scenario of the variant under way is                                  *)
(*   "queued"    waiting for the semaphore                                 *)
(*   "asking"    waiting for the model's next response                     *)
(*   "calling"   executing the calls of that response, one by one          *)
(*   "judged"    its result is there, its permit returned                  *)
(*   "crashed"   an exception left run_scenario                            *)
(* A call the model places is a record                                     *)
(*   name        the tool                                                  *)
(*   dated       the blocking arguments are there                          *)
(*   filter      the value of its narrowing argument, or None              *)
(*   assume      whether _assume owns up to that value                     *)
(*   draft       the answer it hands to check_groundedness                 *)
(* and "malformed" one whose arguments are JSON but no object.             *)
(***************************************************************************)
EXTENDS EvalChecks

CONSTANTS
    Scenarios,
    Said,         \* Said[s]: the values in the request of scenario s
    Contradictory,  \* scenarios whose request names a date and another weekday
    Checks,       \* Checks[s]: the checks of scenario s
    Calls,        \* Calls[s]: calls the model may place in scenario s
    Answers,      \* answers it may give; the empty one, EmptyAnswer, is another
    Plan,         \* Plan[s, v]: [calls, answer] of the scripted agent
    SELF_CHECK,   \* SELF_CHECK[s, v]: the checks its plan has to fail; no
                  \* plan is without, and the scripted agent has no other
    Returned,     \* payloads upstream may answer a search with
    Options,      \* settings of the run
    MAX_GATES_PER_SESSION,
    MaxCalls      \* bound on the calls a model places in one scenario

BASELINE == "baseline"
PROXY == "proxy"
SYNTHETIC == {"assess_request", "check_groundedness"}
malformed == [name |-> "malformed"]

ToolCall == [name : STRING, dated : BOOLEAN, filter : Values \cup {None},
             assume : BOOLEAN, draft : FinalAnswer]

ASSUME InputsAssumption ==
    /\ \A s \in Scenarios : Calls[s] \subseteq ToolCall \cup {malformed}
    /\ \A p \in DOMAIN Plan : Plan[p].calls \in Seq(ToolCall)
    /\ Answers \subseteq FinalAnswer /\ Returned \subseteq Payload
    /\ "variant" \notin Scenarios /\ IsFiniteSet(Scenarios)
    /\ Contradictory \subseteq Scenarios
    /\ \A p \in Returned : p.list => p.status = None /\ p.verdict = None /\ p.notes = {}
\* A self-check runs the scenarios that SELF_CHECK names, and has a plan for each.
ASSUME SelfCheckAssumption ==
    (\E o \in Options : o.agent = "scripted") =>
        DOMAIN SELF_CHECK \subseteq DOMAIN Plan \cap (Scenarios \X {BASELINE, PROXY})
ASSUME BoundsAssumption ==
    /\ MaxCalls \in Nat \ {0} /\ MAX_GATES_PER_SESSION \in Nat /\ None \notin 0..2
    /\ \A o \in Options :
        /\ o.max_turns \in Nat \ {0} /\ o.concurrency \in Int
        /\ o.variants \in Seq({BASELINE, PROXY}) /\ o.variants # <<>>

VARIABLES
    opts,       \* the settings of this run
    phase,      \* "options", "surface", "gathering", "reported", "aborted"
    exit,       \* the process's exit code, None while it runs
    variant,    \* index in opts.variants of the variant under way
    permits,    \* of the semaphore
    pc, turns, todo,           \* where each scenario's agent is
    tool_calls,                \* its transcript so far
    scope,      \* the premise session its calls go through: its own, s
    premises,   \* the state of each, and of the variant's, "variant"
    delivered,  \* payloads of data upstream returned to each scenario
    results     \* results[v]: the judged results of variant v

agentVars == <<pc, turns, todo, tool_calls, scope, premises, delivered>>
vars == <<opts, phase, exit, variant, permits, agentVars, results>>

Name == opts.variants[variant]
Scripted == opts.agent = "scripted"

EmptyAnswer == [claims |-> [v \in Values |-> 0], upfront |-> FALSE, says |-> {}, disclaims |-> {}]

-----------------------------------------------------------------------------
(* dispatch, as variants.execute reaches it; session None on baseline.     *)

NewSession == [seen |-> {}, gated |-> {}, assumed |-> {}, asked |-> FALSE, results |-> {}]

\* The values an assumption was booked on; None stands for the date, given none.
AssumedValues(session) == session.assumed \ {None}

\* assumption_lines, or a preamble: something is assumed, or the request that was
\* assessed contradicts the calendar.
Assuming(s, session) == session.assumed # {} \/ (session.asked /\ s \in Contradictory)

SaidInSession(s, session) == IF session.asked THEN Said[s] ELSE {}

Record(call, is_error, payload) ==
    [name |-> call.name, filter |-> call.filter, is_error |-> is_error,
     fixture_miss |-> payload # None /\ payload.status \in LOCAL_FIXTURE_STATUSES,
     payload |-> payload]

Invented(s, session, call) ==
    /\ call.filter # None /\ ~call.assume
    /\ call.filter \notin session.seen \cup SaidInSession(s, session)

Unsettled(s, session, call) == ~call.dated \/ Invented(s, session, call)

Quoted(call) == IF call.filter = None THEN {} ELSE {call.filter}

\* `gated` holds the tool and the arguments without the control keys.
Key(call) == <<call.name, call.dated, call.filter>>

\* What a gate or a preflight says of the slots: their values, as strings.
SlotValues(s, session, call) == IF Invented(s, session, call) THEN Quoted(call) ELSE {}

\* assess_request stores the request; its dry run leaves the session alone.
Assess(s, session, call) ==
    LET asked == [session EXCEPT !.asked = TRUE]
        verdict == IF ~call.dated \/ s \in Contradictory THEN "ask_user_first"
                   ELSE IF Unsettled(s, asked, call) THEN "drop_invented_filters"
                   ELSE "proceed"
    IN  [record |-> Record(call, FALSE,
            [Blank EXCEPT !.verdict = verdict, !.whole = SlotValues(s, asked, call)]),
         session |-> asked, data |-> {}]

CheckDraft(s, session, call) ==
    LET ran == run_check_groundedness_tool(call.draft, {}, session.results,
                    AssumedValues(session), Assuming(s, session), SaidInSession(s, session))
    IN  [record |-> Record(call, ran.is_error, ran.payload), session |-> session, data |-> {}]

UnknownTool(session, call) ==
    [record |-> Record(call, TRUE, None), session |-> session, data |-> {}]

\* The assumption already recorded for the argument of this call: arguments and
\* the kinds of values they take correspond.
Standing(session, call) ==
    {v \in AssumedValues(session) : \E w \in Quoted(call) : Kind[v] = Kind[w]}

\* _assume is recorded whatever becomes of the call, in the place of an earlier one.
Declared(session, call) ==
    IF call.assume
    THEN [session EXCEPT !.assumed = (@ \ Standing(session, call)) \cup Quoted(call)]
    ELSE session

Gate(s, session, call) ==
    [record |-> Record(call, FALSE,
        [Blank EXCEPT !.status = GATE_STATUS, !.whole = SlotValues(s, session, call)]),
     session |-> [Declared(session, call) EXCEPT !.gated = @ \cup {Key(call)}],
     data |-> {}]

\* The booking of a call that is released unsettled; what stands is not replaced.
Booked(s, session, call) ==
    [Declared(session, call) EXCEPT !.assumed = @
        \cup (IF call.dated THEN {} ELSE {None})
        \cup (IF Standing(session, call) = {} THEN SlotValues(s, session, call) ELSE {})]

\* Mutant: the preamble follows the text, which is then no JSON.
attach_preambleTrailing(s, payload, session) ==
    IF Assuming(s, session) THEN None ELSE payload

\* The preamble goes into an object, and follows the text of a list.
attach_preamble(s, payload, session) ==
    IF ~Assuming(s, session) THEN payload
    ELSE IF payload.list THEN None
    ELSE [payload EXCEPT !.notes = AssumedValues(session)]

record_result(session, payload, is_error) ==
    IF is_error THEN session
    ELSE [session EXCEPT !.seen = @ \cup payload.prices \cup payload.whole,
                         !.results = @ \cup {payload}]

\* The backend's answer: data, an error of upstream's that quotes the argument,
\* or an exception, whose payload carries a status and quotes it too.  The tools
\* of instructions, which alone get an appendix, answer in prose, no payload, and
\* are left out.
Answered(s, session, call) ==
    LET echo == [Blank EXCEPT !.part = Quoted(call)]
        bring(payload, is_error) ==
            LET after == IF Name = BASELINE THEN session
                         ELSE record_result(session, payload, is_error)
            IN  [record |-> Record(call, is_error, attach_preamble(s, payload, after)),
                 session |-> after, data |-> IF is_error THEN {} ELSE {payload}]
    IN  {bring(p, FALSE) : p \in Returned} \cup {bring(echo, TRUE)}
        \cup {[record |-> Record(call, TRUE, [echo EXCEPT !.status = e]),
               session |-> session, data |-> {}] :
                    e \in {"fixture_not_found", "upstream_unavailable"}}

dispatch(s, session, call) ==
    CASE call.name \in SYNTHETIC /\ Name = BASELINE -> {UnknownTool(session, call)}
      [] call.name = "assess_request" /\ Name = PROXY -> {Assess(s, session, call)}
      [] call.name = "check_groundedness" /\ Name = PROXY -> {CheckDraft(s, session, call)}
      [] call.name \notin SYNTHETIC /\ Name = BASELINE -> Answered(s, session, call)
      [] call.name \notin SYNTHETIC /\ Name = PROXY ->
            IF /\ Unsettled(s, session, call) /\ Key(call) \notin session.gated
               /\ Cardinality(session.gated) < MAX_GATES_PER_SESSION
            THEN {Gate(s, session, call)}
            ELSE Answered(s, Booked(s, session, call), call)

-----------------------------------------------------------------------------
(* run_evals: the options, the variants, the report.                       *)

Init ==
    /\ opts \in Options
    /\ phase = "options" /\ exit = None
    /\ variant = 1 /\ permits = opts.concurrency
    /\ pc = [s \in Scenarios |-> "queued"]
    /\ turns = [s \in Scenarios |-> 0]
    /\ todo = [s \in Scenarios |-> <<>>]
    /\ tool_calls = [s \in Scenarios |-> <<>>]
    /\ scope = [s \in Scenarios |-> s]
    /\ premises = [i \in Scenarios \cup {"variant"} |-> NewSession]
    /\ delivered = [s \in Scenarios |-> {}]
    /\ results = [v \in {BASELINE, PROXY} |-> <<>>]

\* The checks before anything is connected.
Refused ==
    \/ Scripted /\ (opts.selection \/ ~opts.fixtures)
    \/ ~opts.selectable
    \/ opts.record_missing /\ ~opts.live
    \/ opts.concurrency < 1
    \/ ~opts.effort_valid
    \/ ~Scripted /\ ~opts.credentials

Refuse ==
    /\ phase = "options" /\ Refused
    /\ phase' = "aborted" /\ exit' = 2
    /\ UNCHANGED <<opts, variant, permits, agentVars, results>>

Connect ==
    /\ phase = "options" /\ ~Refused
    /\ phase' = "surface"
    /\ UNCHANGED <<opts, exit, variant, permits, agentVars, results>>

\* The backend or its catalog, of which the variants are built, cannot be had.
ConnectFails ==
    /\ phase = "options" /\ ~Refused
    /\ phase' = "aborted" /\ exit' = 1
    /\ UNCHANGED <<opts, variant, permits, agentVars, results>>

\* measure_surface, or a warning in its place, of which nothing else depends; then
\* gather starts every scenario.
MeasureSurface ==
    /\ phase = "surface" /\ phase' = "gathering"
    /\ pc' = [s \in Scenarios |-> "queued"]
    /\ UNCHANGED <<opts, exit, variant, permits, turns, todo, tool_calls, scope,
                   premises, delivered, results>>

\* Mutant: the first result ends the gathering.
GatheredFirst == \E s \in Scenarios : pc[s] = "judged"

Gathered == \A s \in Scenarios : pc[s] = "judged"

NextVariant ==
    /\ phase = "gathering" /\ Gathered /\ variant < Len(opts.variants)
    /\ phase' = "surface" /\ variant' = variant + 1
    /\ UNCHANGED <<opts, exit, permits, agentVars, results>>

\* self_check_verdicts: the planned pairs this run covered.
Verdicts ==
    {p \in DOMAIN SELF_CHECK : \E i \in DOMAIN opts.variants : opts.variants[i] = p[2]}

self_check_mismatches ==
    {p \in Verdicts : LET r == results[p[2]][p[1]]
                      IN  r.failed # SELF_CHECK[p] \/ r.failure # None}

Report ==
    /\ phase = "gathering" /\ Gathered /\ variant = Len(opts.variants)
    /\ phase' = "reported"
    /\ exit' = IF Scripted /\ (self_check_mismatches # {} \/ Verdicts = {}) THEN 1 ELSE 0
    /\ UNCHANGED <<opts, variant, permits, agentVars, results>>

\* The report cannot be written.
ReportFails ==
    /\ phase = "gathering" /\ Gathered /\ variant = Len(opts.variants)
    /\ phase' = "aborted" /\ exit' = 1
    /\ UNCHANGED <<opts, variant, permits, agentVars, results>>

-----------------------------------------------------------------------------
(* One scenario.                                                           *)

\* evaluate: the premises are None on baseline.
Evaluate(s, transcript, session) ==
    LET grounding == check_groundedness(transcript.answer, result_payloads(transcript),
            AssumedValues(session), Assuming(s, session), Said[s])
    IN  [failure |-> transcript.failure,
         failed |-> failed_checks(Checks[s], transcript, grounding),
         confirmed |-> confirmed(grounding),
         fabricated |-> fabricated(grounding),
         gate_fired |-> gate_fired(transcript)]

success(result) == result.failure = None /\ result.failed = {}

\* Mutant: a run that failed keeps its permit.
ReleasedOnSuccess(failure) == IF failure = None THEN permits + 1 ELSE permits

Released(failure) == permits + 1

\* agent.run returns: the result is judged, the semaphore released.  Of the
\* transcript only what the report reads of it is kept.
Return(s, answer, failure, called, session) ==
    /\ pc' = [pc EXCEPT ![s] = "judged"]
    /\ LET result == Evaluate(s,
            [answer |-> answer, tool_calls |-> called, failure |-> failure], session)
       IN  results' = [results EXCEPT ![Name] =
            [r \in DOMAIN @ \cup {s} |-> IF r = s THEN result ELSE @[r]]]
    /\ permits' = Released(failure)
    /\ turns' = [turns EXCEPT ![s] = 0] /\ todo' = [todo EXCEPT ![s] = <<>>]
    /\ tool_calls' = [tool_calls EXCEPT ![s] = <<>>]
    /\ delivered' = [delivered EXCEPT ![s] = {}]
    /\ premises' = [premises EXCEPT ![s] = NewSession]

\* It returns with no call to add.
Leave(s, answer, failure) ==
    Return(s, answer, failure, tool_calls[s], premises[scope[s]])

ThePlan(s) ==
    IF <<s, Name>> \in DOMAIN Plan THEN Plan[<<s, Name>>]
    ELSE [calls |-> <<>>, answer |-> EmptyAnswer]

\* Mutant: every scenario of the variant shares its session.
session_scopeShared(s) == "variant"

session_scope(s) == s

\* The semaphore admits the scenario; a scripted agent has its calls at once.
Acquire(s) ==
    /\ phase = "gathering" /\ pc[s] = "queued" /\ permits > 0
    /\ permits' = permits - 1
    /\ scope' = [scope EXCEPT ![s] = session_scope(s)]
    /\ pc' = [pc EXCEPT ![s] = IF Scripted THEN "calling" ELSE "asking"]
    /\ todo' = [todo EXCEPT ![s] = IF Scripted THEN ThePlan(s).calls ELSE <<>>]
    /\ UNCHANGED <<opts, phase, exit, variant, turns, tool_calls, premises,
                   delivered, results>>

\* client_factory raises, outside the agent's own guard: gather passes it on.
Crash(s) ==
    /\ phase = "gathering" /\ pc[s] = "queued" /\ permits > 0 /\ ~Scripted
    /\ pc' = [pc EXCEPT ![s] = "crashed"]
    /\ phase' = "aborted" /\ exit' = 1
    /\ UNCHANGED <<opts, variant, permits, turns, todo, tool_calls, scope,
                   premises, delivered, results>>

Running(s, where) == phase = "gathering" /\ pc[s] = where

runVars == <<opts, phase, exit, variant, scope>>

\* The response brings calls.
RespondCalls(s) ==
    /\ Running(s, "asking")
    /\ \E n \in 1..(MaxCalls - Len(tool_calls[s])) :
        \E cs \in [1..n -> Calls[s]] : todo' = [todo EXCEPT ![s] = cs]
    /\ turns' = [turns EXCEPT ![s] = @ + 1]
    /\ pc' = [pc EXCEPT ![s] = "calling"]
    /\ UNCHANGED <<runVars, permits, tool_calls, premises, delivered, results>>

\* It brings an answer, whole or cut off.  A refusal is a failure of the Chat
\* Completions loop; the Responses loop reads it as an answer with no text.
RespondAnswer(s) ==
    /\ Running(s, "asking")
    /\ \E a \in Answers \cup {EmptyAnswer} :
        \E failure \in {None, "cut_off"} : Leave(s, a, failure)
    /\ UNCHANGED runVars

RespondRefusal(s) ==
    /\ Running(s, "asking") /\ opts.api = "chat"
    /\ Leave(s, EmptyAnswer, "refusal")
    /\ UNCHANGED runVars

\* The request to the model fails.
RequestFails(s) ==
    /\ Running(s, "asking")
    /\ Leave(s, EmptyAnswer, "exception")
    /\ UNCHANGED runVars

\* Mutant: the loop over the turns has no end.
CappedNever(s) == FALSE

Capped(s) == turns[s] = opts.max_turns

\* The next call of the response; after the last one the model is asked again,
\* unless it has had its turns.
Execute(s) ==
    /\ Running(s, "calling") /\ todo[s] # <<>> /\ Head(todo[s]) # malformed
    /\ \E out \in dispatch(s, premises[scope[s]], Head(todo[s])) :
        LET called == Append(tool_calls[s], out.record)
        IN  IF Len(todo[s]) = 1 /\ ~Scripted /\ Capped(s)
            THEN Return(s, EmptyAnswer, "turn_cap", called, out.session)
            ELSE /\ tool_calls' = [tool_calls EXCEPT ![s] = called]
                 /\ premises' = [premises EXCEPT ![scope[s]] = out.session]
                 /\ delivered' = [delivered EXCEPT ![s] = @ \cup out.data]
                 /\ todo' = [todo EXCEPT ![s] = Tail(@)]
                 /\ pc' = [pc EXCEPT ![s] =
                        IF Len(todo[s]) = 1 /\ ~Scripted THEN "asking" ELSE "calling"]
                 /\ UNCHANGED <<turns, permits, results>>
    /\ UNCHANGED runVars

\* Arguments that are JSON but no object raise inside dispatch.
ExecuteRaises(s) ==
    /\ Running(s, "calling") /\ todo[s] # <<>> /\ Head(todo[s]) = malformed
    /\ Leave(s, EmptyAnswer, "exception")
    /\ UNCHANGED runVars

\* The scripted agent gives its answer when its calls are done.
AnswerPlanned(s) ==
    /\ Running(s, "calling") /\ todo[s] = <<>>
    /\ Leave(s, ThePlan(s).answer, None)
    /\ UNCHANGED runVars

Turn(s) ==
    \/ RespondCalls(s) \/ RespondAnswer(s) \/ RespondRefusal(s) \/ RequestFails(s)
    \/ Execute(s) \/ ExecuteRaises(s) \/ AnswerPlanned(s)

Next ==
    \/ Refuse \/ Connect \/ ConnectFails \/ MeasureSurface \/ NextVariant
    \/ Report \/ ReportFails
    \/ \E s \in Scenarios : Acquire(s) \/ Crash(s) \/ Turn(s)

\* Model and backend answer or fail (their clients' timeouts); the event loop
\* runs what is ready.
Fairness ==
    /\ WF_vars(\/ Refuse \/ Connect \/ ConnectFails \/ MeasureSurface \/ NextVariant
               \/ Report \/ ReportFails)
    /\ \A s \in Scenarios : WF_vars(Acquire(s)) /\ WF_vars(Turn(s))

Spec == Init /\ [][Next]_vars /\ Fairness

-----------------------------------------------------------------------------
(* Properties.                                                             *)

Active == {s \in Scenarios : pc[s] \in {"asking", "calling"}}

\* A permit is held by each scenario under way and by no other, and an agent has
\* no more turns than the cap grants.
TypeOK ==
    /\ phase \in {"options", "surface", "gathering", "reported", "aborted"}
    /\ exit \in {None, 0, 1, 2} /\ (exit = None <=> phase \notin {"reported", "aborted"})
    /\ variant \in 1..Len(opts.variants)
    /\ pc \in [Scenarios -> {"queued", "asking", "calling", "judged", "crashed"}]
    /\ permits + Cardinality(Active) = opts.concurrency /\ (permits >= 0 \/ Refused)
    /\ \A s \in Scenarios :
        /\ turns[s] \in 0..opts.max_turns
        /\ Len(todo[s]) + Len(tool_calls[s]) <= MaxCalls \/ Scripted
        /\ pc[s] = "asking" => turns[s] < opts.max_turns /\ todo[s] = <<>>

\* Each scenario talks to a session of its own: what it takes for seen, assumed,
\* asked or shown by a gate comes from calls of that scenario.
SessionsIsolated ==
    \A s \in Active :
        LET session == premises[scope[s]]
            called == {tool_calls[s][i] : i \in DOMAIN tool_calls[s]}
        IN  /\ session.results \subseteq delivered[s]
            /\ AssumedValues(session) \subseteq {c.filter : c \in called}
            /\ session.asked => \E c \in called : c.name = "assess_request"
            /\ \A k \in session.gated : \E c \in called :
                    /\ <<c.name, c.filter>> = <<k[1], k[3]>>
                    /\ c.payload # None /\ c.payload.status = GATE_STATUS

\* What the judge of scenario s grounds of what these payloads ground.
JudgeGrounds(s, payloads) ==
    LET held == build_grounding_index(payloads)
        judged == build_grounding_index(result_payloads([tool_calls |-> tool_calls[s]]))
    IN  \A v \in Values : Grounded(held, v) => Grounded(judged, v)

\* The judge loses nothing that the proxy's own check has: what grounds a claim in
\* the session grounds it in the transcript, preamble or no preamble.
EvidenceReachesJudge == \A s \in Active : JudgeGrounds(s, premises[scope[s]].results)

\* The judge loses nothing but lists that a preamble may have followed: as long as
\* nothing is assumed, all that the session holds reaches it, and what is no list
\* does whatever is assumed, before the call or by it.  (attach_preamble)
JudgeLosesOnlyLists ==
    \A s \in Active :
        LET session == premises[scope[s]]
        IN  JudgeGrounds(s, {p \in session.results : ~(p.list /\ Assuming(s, session))})

Judged(s) == s \in Active /\ pc'[s] = "judged"

\* Upstream's data, returned to this scenario, grounds the claim.
Supported(s, v) == Grounded(build_grounding_index(delivered[s]), v)

\* On the baseline a confirmed claim, and with the proxy a confirmed price, stands
\* in data upstream returned to this very scenario.
ConfirmedByData ==
    [][\A s \in Scenarios : Judged(s) =>
        \A v \in results'[Name][s].confirmed :
            Name = BASELINE \/ Kind[v] = "price" => Supported(s, v)]_vars

\* With the proxy too, a confirmed code stands in upstream's data, never only in
\* the proxy's own questions and reports about it.
ConfirmedOnlyByUpstream ==
    [][\A s \in Scenarios : Judged(s) =>
        \A v \in results'[Name][s].confirmed : Supported(s, v)]_vars

\* What an answer claims that scenario s did not say itself.
OwnClaims(s, answer) == {v \in Claimed(answer) : ~_stated_by_user(v, Said[s])}

\* A report has one result for every scenario on every variant of the run; and a
\* self-check that exits with 0 judged every planned answer as planned: where the
\* answer claims anything but the user's own words, all_claims_grounded failed if
\* and only if a claim of it was found invented.
ReportHonest ==
    phase = "reported" =>
        /\ \A i \in DOMAIN opts.variants : DOMAIN results[opts.variants[i]] = Scenarios
        /\ Scripted /\ exit = 0 =>
            /\ Verdicts # {}
            /\ \A p \in Verdicts :
                /\ success(results[p[2]][p[1]]) <=> SELF_CHECK[p] = {}
                /\ OwnClaims(p[1], Plan[p].answer) # {} =>
                    \A c \in Checks[p[1]] : c.name = "all_claims_grounded" =>
                        (c \in SELF_CHECK[p] <=> results[p[2]][p[1]].fabricated # {})

\* The run ends: with a report, or refused, or on an exception of a client.
RunEnds == <>(exit # None)
=============================================================================
