--------------------------- MODULE PremiseSession ---------------------------
(***************************************************************************)
(* One conversation's premise state (SessionPremises of                    *)
(* tutu_mcp/premises.py) and the calls that go through it                  *)
(* (tutu_mcp/proxy/dispatch.py).                                           *)
(*                                                                         *)
(* The agent may have several calls under way (Slots).  A call is sent,    *)
(* waits for the catalog, is evaluated in one step (evaluate has no await),*)
(* waits for the backend, and is answered in one step (record_result and   *)
(* preamble).  Between those steps any other call of the conversation may  *)
(* read and write the same session.                                        *)
(*                                                                         *)
(* A call is a record                                                      *)
(*   tool, args    \in [Fields -> [given : BOOLEAN, vals : SUBSET Values]] *)
(*                 given = FALSE: the key is missing or None;              *)
(*                 vals = {}: "", [] or False                              *)
(*   sources       fields named in _sources                                *)
(*   assume        fields named in _assume, blank those with an empty      *)
(*                 rationale                                               *)
(***************************************************************************)
EXTENDS Integers, Sequences, FiniteSets

CONSTANTS
  Slots,        \* concurrent calls of the conversation
  Tools, Fields, Values,
  Policy,       \* POLICIES: Policy[tool][field], "none" where it has no entry
  Resolvable,   \* <<tool, field>> whose policy names resolvable_by tools
  Calls,        \* calls the agent may place
  Plans,        \* planned_calls it may pass to assess_request
  Requests, NoRequest,
  Said,         \* Said[r]: values that stand in the words of request r
  Headcounts,   \* requests that mention how many people travel
  Contradictory,\* requests whose weekday contradicts their date
  Results,      \* Results[tool]: sets of scalars a successful result may hold
  MaxGates,     \* MAX_GATES_PER_SESSION
  MaxSeen       \* MAX_SEEN_VALUES

Args == [Fields -> [given : BOOLEAN, vals : SUBSET Values]]
Keys == Tools \X Args

ASSUME PolicyAssumption ==
  Policy \in [Tools -> [Fields -> {"none", "blocking", "mention", "narrowing"}]]
ASSUME CallsAssumption ==
  Calls \subseteq [tool : Tools, args : Args, sources : SUBSET Fields,
                   assume : SUBSET Fields, blank : SUBSET Fields]
ASSUME RequestsAssumption ==
  /\ NoRequest \notin Requests
  /\ Said \in [Requests \cup {NoRequest} -> SUBSET Values]
  /\ Said[NoRequest] = {}
ASSUME ResultsAssumption == Results \in [Tools -> SUBSET SUBSET Values]
ASSUME BoundsAssumption == MaxGates \in Nat \ {0} /\ MaxSeen \in Nat
ASSUME PlansAssumption == Plans \subseteq Seq(Calls)

VARIABLES
  \* SessionPremises
  seen, gated, assumptions, userRequest,
  \* the calls under way
  stage, call, booked, answer,
  \* what the last assess_request told the agent, and about which calls
  verdict, planned

session == <<seen, gated, assumptions, userRequest>>
calls   == <<stage, call, booked, answer>>
advice  == <<verdict, planned>>
vars    == <<session, calls, advice>>

NotAssumed == [how |-> "none", vals |-> {}]
Assumption == [how : {"none", "declared", "booked"}, vals : SUBSET Values]
NoAnswer   == [kind |-> "none", preamble |-> {}, conflict |-> FALSE]
NoCall     == [tool |-> "none"]

-----------------------------------------------------------------------------
(* evaluate: what is unsettled about a call                                *)

Declared(c, f) == f \in c.assume /\ f \notin c.blank

\* A blocking field: missing, or present on a request that never mentioned it.
BlockingOpen(r, c, f) ==
  /\ Policy[c.tool][f] \in {"blocking", "mention"}
  /\ ~Declared(c, f)
  /\ \/ ~c.args[f].given
     \/ /\ Policy[c.tool][f] = "mention"
        /\ r # NoRequest /\ r \notin Headcounts
        /\ f \notin c.sources

\* _has_source: every value was seen in a result or said by the user.
HasSource(vs, s, r) == vs \subseteq s \cup Said[r]

NarrowingOpen(s, r, c, f) ==
  /\ Policy[c.tool][f] = "narrowing"
  /\ c.args[f].given /\ c.args[f].vals # {}
  /\ f \notin c.sources /\ ~Declared(c, f)
  /\ ~HasSource(c.args[f].vals, s, r)

Unsettled(s, r, c) ==
  {f \in Fields : BlockingOpen(r, c, f) \/ NarrowingOpen(s, r, c, f)}

Key(c) == <<c.tool, c.args>>

\* (Mutation: no budget.)
BlocksUnbounded(g, s, r, c) == Unsettled(s, r, c) # {} /\ Key(c) \notin g

\* The gate answers instead of the tool.
Blocks(g, s, r, c) ==
  /\ Unsettled(s, r, c) # {}
  /\ Key(c) \notin g
  /\ Cardinality(g) < MaxGates

\* Slot.resolution.
Resolution(c, f) ==
  IF Policy[c.tool][f] = "mention" /\ c.args[f].given THEN "ask_user"
  ELSE IF <<c.tool, f>> \in Resolvable THEN "call_tool"
  ELSE IF Policy[c.tool][f] = "narrowing" THEN "drop_filter"
  ELSE "ask_user"

\* _assume is honoured wherever it appears, whatever comes of the call.
Declaring(a, c) ==
  [f \in Fields |->
     IF f \in c.assume THEN [how |-> "declared", vals |-> c.args[f].vals] ELSE a[f]]

\* (Mutation: a released call books nothing.)
BookingNothing(a, c, open) == a

\* (Mutation: the booking replaces what is already assumed.)
BookingOver(a, c, open) ==
  [f \in Fields |->
     IF f \in open THEN [how |-> "booked", vals |-> c.args[f].vals] ELSE a[f]]

\* assumptions.setdefault for every unsettled slot of a released call.
Booking(a, c, open) ==
  [f \in Fields |->
     IF f \in open /\ a[f].how = "none"
     THEN [how |-> "booked", vals |-> c.args[f].vals] ELSE a[f]]

\* The fields and values preamble() names.
Preamble(a) ==
  {<<f, a[f].vals>> : f \in {x \in Fields : a[x].how # "none"}}

\* (Mutation: a null is indexed as a scalar.)
IndexedWithNull(s, vs) == {s \cup vs \cup {"none"}}

\* The scalars of a result join seen_values up to the cap; which ones fit is
\* the order of the traversal.
Indexed(s, vs) ==
  {t \in SUBSET (s \cup vs) :
     /\ s \subseteq t
     /\ t = s \cup vs \/ Cardinality(t) >= MaxSeen
     /\ t = s \/ Cardinality(t) <= MaxSeen}

-----------------------------------------------------------------------------
Init ==
  /\ seen = {} /\ gated = {} /\ userRequest = NoRequest
  /\ assumptions = [f \in Fields |-> NotAssumed]
  /\ stage = [s \in Slots |-> "idle"]
  /\ call = [s \in Slots |-> NoCall]
  /\ booked = [s \in Slots |-> {}]
  /\ answer = [s \in Slots |-> NoAnswer]
  /\ verdict = "none" /\ planned = {}

\* The agent places a call.
Send(s, c) ==
  /\ stage[s] = "idle"
  /\ stage' = [stage EXCEPT ![s] = "sent"]
  /\ call' = [call EXCEPT ![s] = c]
  /\ booked' = [booked EXCEPT ![s] = {}]
  /\ answer' = [answer EXCEPT ![s] = NoAnswer]
  /\ UNCHANGED <<session, advice>>

\* evaluate returns None with nothing unsettled: the backend call goes out.
Clear(s) ==
  /\ stage[s] = "sent"
  /\ Unsettled(seen, userRequest, call[s]) = {}
  /\ assumptions' = Declaring(assumptions, call[s])
  /\ stage' = [stage EXCEPT ![s] = "pending"]
  /\ UNCHANGED <<seen, gated, userRequest, call, booked, answer, advice>>

\* Gated before, or past the session's budget: the call goes out, every
\* unsettled slot booked as an assumption.
Release(s) ==
  LET open == Unsettled(seen, userRequest, call[s]) IN
  /\ stage[s] = "sent"
  /\ open # {} /\ ~Blocks(gated, seen, userRequest, call[s])
  /\ assumptions' = Booking(Declaring(assumptions, call[s]), call[s], open)
  /\ booked' = [booked EXCEPT ![s] = open]
  /\ stage' = [stage EXCEPT ![s] = "pending"]
  /\ UNCHANGED <<seen, gated, userRequest, call, answer, advice>>

\* The call ends: nothing of the session refers to it.
Done(s) ==
  /\ stage' = [stage EXCEPT ![s] = "idle"]
  /\ call' = [call EXCEPT ![s] = NoCall]

\* (Mutation: the gate forgets that it fired.)
GateForgotten(s) ==
  /\ stage[s] = "sent"
  /\ Blocks(gated, seen, userRequest, call[s])
  /\ assumptions' = Declaring(assumptions, call[s])
  /\ Done(s)
  /\ answer' = [answer EXCEPT ![s] = [NoAnswer EXCEPT !.kind = "gate"]]
  /\ UNCHANGED <<seen, gated, userRequest, booked, advice>>

\* clarification_required instead of data; a declared assumption stays recorded.
Gate(s) ==
  /\ stage[s] = "sent"
  /\ Blocks(gated, seen, userRequest, call[s])
  /\ gated' = gated \cup {Key(call[s])}
  /\ assumptions' = Declaring(assumptions, call[s])
  /\ Done(s)
  /\ answer' = [answer EXCEPT ![s] = [NoAnswer EXCEPT !.kind = "gate"]]
  /\ UNCHANGED <<seen, userRequest, booked, advice>>

\* The answer carries the preamble of this moment, not of the evaluation.
Deliver(s, kind) ==
  /\ Done(s)
  /\ answer' = [answer EXCEPT ![s] =
                  [kind |-> kind,
                   preamble |-> Preamble(assumptions),
                   conflict |-> userRequest \in Contradictory]]

\* A successful result: record_result, then preamble.
Respond(s, vs) ==
  /\ stage[s] = "pending"
  /\ seen' \in Indexed(seen, vs)
  /\ Deliver(s, "data")
  /\ UNCHANGED <<gated, assumptions, userRequest, booked, advice>>

\* (Mutation: the error payload, which echoes the arguments, is recorded too.)
RespondErrorRecorded(s) ==
  /\ stage[s] = "pending"
  /\ seen' \in Indexed(seen, UNION {call[s].args[f].vals : f \in Fields})
  /\ Deliver(s, "error")
  /\ UNCHANGED <<gated, assumptions, userRequest, booked, advice>>

\* result.is_error: nothing recorded, the preamble is attached all the same.
RespondError(s) ==
  /\ stage[s] = "pending"
  /\ Deliver(s, "error")
  /\ UNCHANGED <<session, booked, advice>>

\* The backend raised: backend_error returns before the preamble.
BackendFails(s) ==
  /\ stage[s] = "pending"
  /\ Done(s)
  /\ answer' = [answer EXCEPT ![s] = [NoAnswer EXCEPT !.kind = "failed"]]
  /\ UNCHANGED <<session, booked, advice>>

\* The client withdrew the request while it waited.
Cancel(s) ==
  /\ stage[s] # "idle"
  /\ Done(s)
  /\ UNCHANGED <<session, booked, answer, advice>>

-----------------------------------------------------------------------------
(* assess_request: a dry run on a probe with the session's evidence        *)

\* The keys the probe has met a gap on before the i-th planned call: its gated
\* set, as long as that is within the budget.
ProbeKeys(s, r, plan, i) ==
  {Key(plan[j]) : j \in {h \in 1..(i - 1) : Unsettled(s, r, plan[h]) # {}}}

\* The planned calls the probe gates: their slots are the blocking_slots.
Blocked(s, r, plan) ==
  {i \in 1..Len(plan) : Blocks(ProbeKeys(s, r, plan, i), s, r, plan[i])}

Verdict(s, r, plan) ==
  LET kinds == UNION {{Resolution(plan[i], f) : f \in Unsettled(s, r, plan[i])} :
                        i \in Blocked(s, r, plan)}
  IN IF r \in Contradictory \/ "ask_user" \in kinds THEN "ask_user_first"
     ELSE IF "call_tool" \in kinds THEN "resolve_with_tool"
     ELSE IF kinds # {} THEN "drop_invented_filters"
     ELSE "proceed"

\* The planned calls the report speaks of: all of them when it lets them pass,
\* else those with blocking slots.
Advised(s, r, plan) ==
  {plan[i] : i \in IF Verdict(s, r, plan) = "proceed"
                   THEN 1..Len(plan) ELSE Blocked(s, r, plan)}

\* (Mutation: the plan is evaluated on the session itself.)
AssessOnSession(r, plan) ==
  /\ userRequest' = r
  /\ gated' = gated \cup {Key(plan[i]) : i \in Blocked(seen, r, plan)}
  /\ verdict' = Verdict(seen, r, plan)
  /\ planned' = Advised(seen, r, plan)
  /\ UNCHANGED <<seen, assumptions, calls>>

\* (Mutation: the probe is built before the request is stored.)
AssessStaleRequest(r, plan) ==
  /\ userRequest' = r
  /\ verdict' = Verdict(seen, userRequest, plan)
  /\ planned' = Advised(seen, userRequest, plan)
  /\ UNCHANGED <<seen, gated, assumptions, calls>>

Assess(r, plan) ==
  /\ userRequest' = r
  /\ verdict' = Verdict(seen, r, plan)
  /\ planned' = Advised(seen, r, plan)
  /\ UNCHANGED <<seen, gated, assumptions, calls>>

-----------------------------------------------------------------------------
\* What the proxy does by itself once a call has been sent.
Serve(s) ==
  \/ Clear(s) \/ Release(s) \/ Gate(s)
  \/ \E vs \in (IF stage[s] = "pending" THEN Results[call[s].tool] ELSE {}) : Respond(s, vs)
  \/ RespondError(s) \/ BackendFails(s)

Next ==
  \/ \E s \in Slots : (\E c \in Calls : Send(s, c)) \/ Serve(s) \/ Cancel(s)
  \/ \E r \in Requests, plan \in Plans : Assess(r, plan)

Spec == Init /\ [][Next]_vars

\* evaluate never awaits, and the backend call ends (its timeouts).
FairSpec == Spec /\ \A s \in Slots : WF_vars(Serve(s))

-----------------------------------------------------------------------------
(* Properties                                                              *)

Preambles == SUBSET (Fields \X SUBSET Values)

TypeOK ==
  /\ seen \subseteq Values
  /\ gated \subseteq Keys
  /\ assumptions \in [Fields -> Assumption]
  /\ userRequest \in Requests \cup {NoRequest}
  /\ stage \in [Slots -> {"idle", "sent", "pending"}]
  /\ DOMAIN call = Slots
  /\ \A s \in Slots : stage[s] # "idle" => call[s] \in Calls
  /\ booked \in [Slots -> SUBSET Fields]
  /\ DOMAIN answer = Slots
  /\ \A s \in Slots :
       /\ answer[s].kind \in {"none", "gate", "data", "error", "failed"}
       /\ answer[s].preamble \in Preambles
  /\ verdict \in {"none", "ask_user_first", "resolve_with_tool",
                   "drop_invented_filters", "proceed"}
  /\ planned \subseteq Calls

\* The whole conversation is gated at most MaxGates times, whatever arguments
\* the agent varies and however calls overlap.
GateBudget == Cardinality(gated) <= MaxGates

\* A value enters seen_values only from a successful result, never from an
\* error payload, a gate payload or the agent's own arguments: what upstream
\* cannot return is never a source.
Returnable == UNION {UNION Results[t] : t \in Tools}
InventedNeverSeen == seen \subseteq Returnable

\* Data that answers a call with unsettled fields names each of these fields in
\* its preamble, though the preamble is computed an await after the booking.
ReleasedFieldsDisclosed ==
  \A s \in Slots :
    answer[s].kind \in {"data", "error"} =>
      \A f \in booked[s] : \E vs \in SUBSET Values : <<f, vs>> \in answer[s].preamble

\* A "proceed" of assess_request is kept: no planned call meets the gate while
\* that request stands, whatever other calls did in between; and after
\* "drop_invented_filters" the planned calls pass without those filters.
Dropping(c, fs) ==
  [c EXCEPT !.args = [f \in Fields |->
     IF f \in fs THEN [given |-> FALSE, vals |-> {}] ELSE c.args[f]]]
PreflightKept ==
  \A c \in planned :
    LET open == Unsettled(seen, userRequest, c) IN
    /\ verdict = "proceed" => open = {}
    /\ verdict = "drop_invented_filters" =>
         Unsettled(seen, userRequest, Dropping(c, open)) = {}

\* Every gate the session has spent was shown to the agent as an answer to that
\* very call: a preflight, which is a dry run, burns none.
GatesWereShown ==
  [][gated' # gated =>
       \E s \in Slots :
         /\ stage[s] = "sent" /\ answer'[s].kind = "gate"
         /\ gated' = gated \cup {Key(call[s])}]_vars

\* An assumption once made stays in every later preamble, and what the agent
\* declared is never replaced by the proxy's own booking.
AssumptionsStand ==
  [][\A f \in Fields :
       /\ assumptions[f].how # "none" => assumptions'[f].how # "none"
       /\ assumptions[f].how = "declared" => assumptions'[f].how = "declared"]_vars

\* An agent that keeps calling is not gated forever.
GateYields ==
  \A s \in Slots :
    []<>(stage[s] = "sent") => []<>(stage[s] # "sent" /\ answer[s].kind # "gate")

=============================================================================
