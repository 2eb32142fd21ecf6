---------------------------- MODULE EvalRunProofs ----------------------------
(***************************************************************************)
(* Proofs about EvalRun, for any scenarios, calls, payloads and options:   *)
(* the bookkeeping of permits and turns, the isolation of the scenarios'   *)
(* sessions, that what is judged confirmed stands in upstream's data, and  *)
(* that a report is whole and a self-check means what it says.             *)
(***************************************************************************)
EXTENDS EvalRun, SequenceTheorems, FiniteSetTheorems, TLAPS

Session == [seen : SUBSET Values,
            gated : SUBSET (STRING \X BOOLEAN \X (Values \cup {None})),
            assumed : SUBSET (Values \cup {None}), asked : BOOLEAN,
            results : SUBSET Payload]

CallRecord == [name : STRING, filter : Values \cup {None}, is_error : BOOLEAN,
               fixture_miss : BOOLEAN, payload : Payload \cup {None}]

Called(s) == {tool_calls[s][i] : i \in DOMAIN tool_calls[s]}

-----------------------------------------------------------------------------
(* Payloads and the index of what they ground.                             *)

\* Two payloads the judge cannot tell apart: only their "_" keys may differ.
SameData(p, q) ==
    p.status = q.status /\ p.prices = q.prices /\ p.whole = q.whole /\ p.part = q.part

\* Payloads whose data all stand in others ground no more than these.
LEMMA IndexCovered ==
    ASSUME NEW A, NEW B, \A p \in A : \E q \in B : SameData(p, q),
           NEW v, Grounded(build_grounding_index(A), v)
    PROVE  Grounded(build_grounding_index(B), v)
<1> DEFINE a == build_grounding_index(A)
           b == build_grounding_index(B)
<1>1. /\ a.price_numbers \subseteq b.price_numbers
      /\ a.exact \subseteq b.exact /\ a.within \subseteq b.within
  <2>1. ASSUME NEW p \in A, ~_is_error_payload(p)
        PROVE  \E q \in B : ~_is_error_payload(q) /\ _flatten(p) = _flatten(q)
    BY <2>1 DEF SameData, _is_error_payload, _flatten
  <2>2. {_flatten(p) : p \in {q \in A : ~_is_error_payload(q)}}
          \subseteq {_flatten(p) : p \in {q \in B : ~_is_error_payload(q)}}
    BY <2>1
  <2> QED
    BY <2>2 DEF build_grounding_index
<1> HIDE DEF a, b
<1>2. Grounded(a, v)
  BY DEF a
<1>3. Grounded(b, v)
  BY <1>1, <1>2, KindAssumption DEF Grounded, has_number
<1> QED
  BY <1>3 DEF b

\* Payloads without prices of their own ground no price.
LEMMA PricesCovered ==
    ASSUME NEW A, NEW B,
           \A p \in A : p.prices = {} \/ \E q \in B : SameData(p, q),
           NEW v, Kind[v] = "price", Grounded(build_grounding_index(A), v)
    PROVE  Grounded(build_grounding_index(B), v)
<1> DEFINE a == build_grounding_index(A)
           b == build_grounding_index(B)
<1>1. a.price_numbers \subseteq b.price_numbers
  <2>1. ASSUME NEW n \in a.price_numbers
        PROVE  \E p \in A : ~_is_error_payload(p) /\ n \in p.prices
    BY <2>1 DEF build_grounding_index, _flatten
  <2>2. ASSUME NEW p \in A, ~_is_error_payload(p), NEW n \in p.prices
        PROVE  \E q \in B : ~_is_error_payload(q) /\ n \in q.prices
    BY <2>2 DEF SameData, _is_error_payload
  <2>3. ASSUME NEW q \in B, ~_is_error_payload(q)
        PROVE  q.prices \subseteq b.price_numbers
    <3>1. _flatten(q) \in {_flatten(p) : p \in {r \in B : ~_is_error_payload(r)}}
      BY <2>3
    <3>2. _flatten(q).prices = q.prices
      BY DEF _flatten
    <3> QED
      BY <3>1, <3>2 DEF build_grounding_index
  <2> HIDE DEF a, b
  <2> QED
    BY <2>1, <2>2, <2>3
<1> HIDE DEF a, b
<1>2. Grounded(a, v)
  BY DEF a
<1>3. Grounded(b, v)
  BY <1>1, <1>2 DEF Grounded, has_number
<1> QED
  BY <1>3 DEF b

-----------------------------------------------------------------------------
(* One call through the dispatch pipeline.                                 *)

\* What a call leaves behind: its record, typed, and in the session nothing that
\* the call, its gate or upstream's answer to it did not put there.
CallLeaves(s, session, call, out) ==
    LET record == out.record
    IN  /\ record \in CallRecord /\ record.name = call.name /\ record.filter = call.filter
        /\ out.session \in Session /\ out.data \subseteq Payload
        /\ out.session.results \subseteq session.results \cup out.data
        /\ out.session.assumed \subseteq session.assumed \cup {call.filter, None}
        /\ out.session.asked => session.asked \/ call.name = "assess_request"
        /\ Assuming(s, session) => Assuming(s, out.session)
        /\ \A k \in out.session.gated \ session.gated :
            /\ k = Key(call)
            /\ record.payload # None /\ record.payload.status = GATE_STATUS
        /\ \A p \in out.session.results \ session.results :
            \/ p.list /\ Assuming(s, out.session)
            \/ ~record.is_error /\ record.payload # None /\ SameData(record.payload, p)
        /\ ~record.is_error /\ record.payload # None =>
            \/ \E p \in out.data : SameData(record.payload, p)
            \/ Name = PROXY /\ record.payload.prices = {}

LEMMA SlotValuesType ==
    ASSUME NEW s, NEW session, NEW call \in ToolCall
    PROVE  /\ SlotValues(s, session, call) \subseteq Quoted(call)
           /\ Quoted(call) \subseteq Values \cap {call.filter}
  BY DEF SlotValues, Quoted, ToolCall

LEMMA RecordType ==
    ASSUME NEW call \in ToolCall, NEW is_error \in BOOLEAN,
           NEW payload \in Payload \cup {None}
    PROVE  /\ Record(call, is_error, payload) \in CallRecord
           /\ Record(call, is_error, payload).name = call.name
           /\ Record(call, is_error, payload).filter = call.filter
           /\ Record(call, is_error, payload).payload = payload
           /\ Record(call, is_error, payload).is_error = is_error
  BY DEF Record, CallRecord, ToolCall

LEMMA AssessLeaves ==
    ASSUME NEW s, NEW session \in Session, NEW call \in ToolCall,
           call.name = "assess_request", Name = PROXY
    PROVE  CallLeaves(s, session, call, Assess(s, session, call))
<1> DEFINE asked == [session EXCEPT !.asked = TRUE]
           out == Assess(s, session, call)
<1>1. /\ asked \in Session /\ asked.results = session.results
      /\ asked.assumed = session.assumed /\ asked.gated = session.gated
      /\ Assuming(s, session) => Assuming(s, asked)
  BY DEF Session, Assuming
<1>2. PICK verdict \in {"ask_user_first", "drop_invented_filters", "proceed"},
           whole \in SUBSET Values :
        out = [record |-> Record(call, FALSE,
                  [Blank EXCEPT !.verdict = verdict, !.whole = whole]),
               session |-> asked, data |-> {}]
  <2>1. SlotValues(s, asked, call) \in SUBSET Values
    BY SlotValuesType
  <2> HIDE DEF asked
  <2> QED
    BY <2>1 DEF Assess, asked
<1> DEFINE payload == [Blank EXCEPT !.verdict = verdict, !.whole = whole]
<1>3. payload \in Payload /\ payload.prices = {}
  BY DEF Payload, Blank
<1> HIDE DEF payload, asked, out
<1>4. /\ out.record = Record(call, FALSE, payload)
      /\ out.session = asked /\ out.data = {}
  BY <1>2 DEF payload
<1>5. /\ out.record \in CallRecord
      /\ out.record.name = call.name /\ out.record.filter = call.filter
      /\ out.record.payload = payload
  BY <1>3, <1>4 DEF Record, CallRecord, ToolCall
<1>6. CallLeaves(s, session, call, out)
  BY <1>1, <1>3, <1>4, <1>5 DEF CallLeaves
<1> QED
  BY <1>6 DEF out

LEMMA CheckLeaves ==
    ASSUME NEW s, NEW session \in Session, NEW call \in ToolCall, Name = PROXY
    PROVE  CallLeaves(s, session, call, CheckDraft(s, session, call))
<1> DEFINE ran == run_check_groundedness_tool(call.draft, {}, session.results,
                    AssumedValues(session), Assuming(s, session),
                    SaidInSession(s, session))
           out == CheckDraft(s, session, call)
<1>1. ran.payload \in Payload \cup {None} /\ ran.is_error \in BOOLEAN
      /\ (ran.payload = None \/ ran.payload.prices = {})
  <2> DEFINE report == check_groundedness(call.draft, session.results \cup {},
                    AssumedValues(session), Assuming(s, session),
                    SaidInSession(s, session))
             payload == report_to_json(report, AssumedValues(session))
  <2>1. DOMAIN report.status = Claimed(call.draft)
    BY DEF check_groundedness
  <2>2. Claimed(call.draft) \in SUBSET Values /\ AssumedValues(session) \in SUBSET Values
    BY DEF Claimed, Session, AssumedValues
  <2>3. payload \in Payload /\ payload.prices = {}
    <3> HIDE DEF report
    <3> QED
      BY <2>1, <2>2 DEF report_to_json, Blank, Payload
  <2>4. undisclosed(report) \in BOOLEAN
    BY DEF undisclosed
  <2>5. ran = IF session.results \cup {} = {}
              THEN [payload |-> None, is_error |-> TRUE]
              ELSE [payload |-> payload, is_error |-> undisclosed(report)]
    BY DEF run_check_groundedness_tool
  <2> HIDE DEF report, payload, ran
  <2> QED
    BY <2>3, <2>4, <2>5
<1>2. out = [record |-> Record(call, ran.is_error, ran.payload),
             session |-> session, data |-> {}]
  BY DEF CheckDraft
<1> HIDE DEF ran, out
<1>3. /\ out.record = Record(call, ran.is_error, ran.payload)
      /\ out.session = session /\ out.data = {}
  BY <1>2
<1>4. /\ out.record \in CallRecord
      /\ out.record.name = call.name /\ out.record.filter = call.filter
      /\ out.record.payload = ran.payload
  BY <1>1, <1>3 DEF Record, CallRecord, ToolCall
<1>5. CallLeaves(s, session, call, out)
  BY <1>1, <1>3, <1>4 DEF CallLeaves
<1> QED
  BY <1>5 DEF out

LEMMA UnknownLeaves ==
    ASSUME NEW s, NEW session \in Session, NEW call \in ToolCall
    PROVE  CallLeaves(s, session, call, UnknownTool(session, call))
<1>1. Record(call, TRUE, None) \in CallRecord
  BY RecordType
<1> QED
  BY <1>1, RecordType DEF CallLeaves, UnknownTool

\* Declaring an assumption replaces one of the same kind at most.
LEMMA DeclaredType ==
    ASSUME NEW session \in Session, NEW call \in ToolCall
    PROVE  LET after == Declared(session, call)
           IN  /\ after \in Session
               /\ after.results = session.results /\ after.gated = session.gated
               /\ after.asked = session.asked
               /\ after.assumed \subseteq session.assumed \cup {call.filter}
               /\ session.assumed # {} => after.assumed # {}
<1> DEFINE assumed == (session.assumed \ Standing(session, call)) \cup Quoted(call)
<1>1. Quoted(call) \subseteq Values \cap {call.filter}
  BY SlotValuesType
<1>2. Quoted(call) = {} => Standing(session, call) = {}
  BY DEF Standing
<1>3. /\ assumed \subseteq session.assumed \cup {call.filter}
      /\ assumed \in SUBSET (Values \cup {None})
      /\ session.assumed # {} => assumed # {}
  BY <1>1, <1>2 DEF Session
<1>4. Declared(session, call) \in {session, [session EXCEPT !.assumed = assumed]}
  BY DEF Declared
<1> HIDE DEF assumed
<1> QED
  BY <1>3, <1>4 DEF Session

LEMMA GateLeaves ==
    ASSUME NEW s, NEW session \in Session, NEW call \in ToolCall, Name = PROXY
    PROVE  CallLeaves(s, session, call, Gate(s, session, call))
<1> DEFINE payload == [Blank EXCEPT !.status = GATE_STATUS, !.whole = SlotValues(s, session, call)]
           after == [Declared(session, call) EXCEPT !.gated = @ \cup {Key(call)}]
           out == Gate(s, session, call)
<1>1. payload \in Payload /\ payload.prices = {} /\ payload.status = GATE_STATUS
  BY SlotValuesType DEF Payload, Blank
<1>2. payload # None
  BY <1>1, NoPayloadAssumption
<1>3. Key(call) \in STRING \X BOOLEAN \X (Values \cup {None})
  BY DEF Key, ToolCall
<1>4. /\ after \in Session
      /\ after.results = session.results /\ after.asked = session.asked
      /\ after.assumed \subseteq session.assumed \cup {call.filter}
      /\ after.gated = session.gated \cup {Key(call)}
      /\ Assuming(s, session) => Assuming(s, after)
  <2>1. Declared(session, call) \in Session
    BY DeclaredType
  <2>2. after = [Declared(session, call) EXCEPT !.gated = @ \cup {Key(call)}]
    OBVIOUS
  <2>3. /\ after \in Session
        /\ after.results = session.results /\ after.asked = session.asked
        /\ after.assumed = Declared(session, call).assumed
        /\ after.gated = session.gated \cup {Key(call)}
    BY <1>3, <2>1, DeclaredType DEF Session
  <2> HIDE DEF after
  <2> QED
    BY <2>3, DeclaredType DEF Assuming
<1>5. out = [record |-> Record(call, FALSE, payload), session |-> after, data |-> {}]
  BY DEF Gate
<1> HIDE DEF payload, after, out
<1>6. /\ out.record = Record(call, FALSE, payload)
      /\ out.session = after /\ out.data = {}
  BY <1>5
<1>7. /\ out.record \in CallRecord
      /\ out.record.name = call.name /\ out.record.filter = call.filter
      /\ out.record.payload = payload
  BY <1>1, <1>6 DEF Record, CallRecord, ToolCall
<1>8. CallLeaves(s, session, call, out)
  BY <1>1, <1>2, <1>4, <1>6, <1>7 DEF CallLeaves
<1> QED
  BY <1>8 DEF out

\* A call that goes upstream, with the session it was booked in.
LEMMA AnswerLeaves ==
    ASSUME NEW s, NEW session \in Session, NEW call \in ToolCall, NEW booked \in Session,
           booked.results = session.results, booked.gated = session.gated,
           booked.asked = session.asked,
           booked.assumed \subseteq session.assumed \cup {call.filter, None},
           session.assumed # {} => booked.assumed # {},
           NEW out \in Answered(s, booked, call)
    PROVE  CallLeaves(s, session, call, out)
<1> DEFINE echo == [Blank EXCEPT !.part = Quoted(call)]
<1>1. echo \in Payload
  BY SlotValuesType DEF Payload, Blank
<1>2. \/ \E p \in Returned : \E after \in {booked, record_result(booked, p, FALSE)} :
            out = [record |-> Record(call, FALSE, attach_preamble(s, p, after)),
                   session |-> after, data |-> {p}]
      \/ out = [record |-> Record(call, TRUE, attach_preamble(s, echo, booked)),
                session |-> booked, data |-> {}]
      \/ \E e \in {"fixture_not_found", "upstream_unavailable"} :
            out = [record |-> Record(call, TRUE, [echo EXCEPT !.status = e]),
                   session |-> booked, data |-> {}]
  <2> HIDE DEF echo
  <2> QED
    BY DEF Answered, record_result, echo
<1>3. CASE \E p \in Returned : \E after \in {booked, record_result(booked, p, FALSE)} :
            out = [record |-> Record(call, FALSE, attach_preamble(s, p, after)),
                   session |-> after, data |-> {p}]
  <2>0. PICK p \in Returned : \E after \in {booked, record_result(booked, p, FALSE)} :
            out = [record |-> Record(call, FALSE, attach_preamble(s, p, after)),
                   session |-> after, data |-> {p}]
    BY <1>3
  <2>1. PICK after \in {booked, record_result(booked, p, FALSE)} :
            out = [record |-> Record(call, FALSE, attach_preamble(s, p, after)),
                   session |-> after, data |-> {p}]
    BY <2>0
  <2>2. p \in Payload
    BY InputsAssumption
  <2>3. /\ after \in Session
        /\ after.results \subseteq booked.results \cup {p}
        /\ after.gated = booked.gated /\ after.asked = booked.asked
        /\ after.assumed = booked.assumed
    <3>1. p.prices \subseteq Values /\ p.whole \subseteq Values
      BY <2>2 DEF Payload
    <3>2. after \in {booked, [booked EXCEPT !.seen = @ \cup p.prices \cup p.whole,
                                           !.results = @ \cup {p}]}
      BY DEF record_result
    <3> QED
      BY <2>2, <3>1, <3>2 DEF Session
  <2> DEFINE payload == attach_preamble(s, p, after)
  <2>4. \/ payload = None /\ p.list /\ Assuming(s, after)
        \/ payload \in Payload /\ SameData(payload, p)
    BY <2>2, <2>3 DEF attach_preamble, SameData, Payload, AssumedValues, Session
  <2>5. payload \in Payload => payload # None
    BY NoPayloadAssumption
  <2>8. Assuming(s, session) => Assuming(s, after)
    BY <2>3 DEF Assuming
  <2> HIDE DEF payload
  <2>6. /\ out.record = Record(call, FALSE, payload)
        /\ out.session = after /\ out.data = {p}
    BY <2>1 DEF payload
  <2>7. /\ out.record \in CallRecord
        /\ out.record.name = call.name /\ out.record.filter = call.filter
        /\ out.record.payload = payload /\ ~out.record.is_error
    BY <2>4, <2>6 DEF Record, CallRecord, ToolCall
  <2> QED
    BY <2>2, <2>3, <2>4, <2>5, <2>6, <2>7, <2>8 DEF CallLeaves
<1>4. CASE \E payload \in Payload \cup {None} :
            out = [record |-> Record(call, TRUE, payload), session |-> booked, data |-> {}]
  <2>1. PICK payload \in Payload \cup {None} :
            out = [record |-> Record(call, TRUE, payload), session |-> booked, data |-> {}]
    BY <1>4
  <2>2. /\ out.record \in CallRecord /\ out.record.is_error = TRUE
        /\ out.record.name = call.name /\ out.record.filter = call.filter
        /\ out.session = booked /\ out.data = {}
    BY <2>1 DEF Record, CallRecord, ToolCall
  <2>3. Assuming(s, session) => Assuming(s, booked)
    BY DEF Assuming
  <2> QED
    BY <2>2, <2>3 DEF CallLeaves
<1>5. attach_preamble(s, echo, booked) \in Payload \cup {None}
  <2> HIDE DEF echo
  <2> QED
    BY <1>1 DEF attach_preamble, Payload, AssumedValues, Session
<1>6. \A e \in {"fixture_not_found", "upstream_unavailable"} :
        [echo EXCEPT !.status = e] \in Payload
  <2> HIDE DEF echo
  <2> QED
    BY <1>1 DEF Payload, ERROR_STATUSES
<1> QED
  BY <1>2, <1>3, <1>4, <1>5, <1>6

LEMMA BookedType ==
    ASSUME NEW s, NEW session \in Session, NEW call \in ToolCall
    PROVE  LET booked == Booked(s, session, call)
           IN  /\ booked \in Session
               /\ booked.results = session.results /\ booked.gated = session.gated
               /\ booked.asked = session.asked
               /\ booked.assumed \subseteq session.assumed \cup {call.filter, None}
               /\ session.assumed # {} => booked.assumed # {}
<1> DEFINE declared == Declared(session, call)
<1>1. PICK more \in SUBSET {call.filter, None} :
        /\ Booked(s, session, call) = [declared EXCEPT !.assumed = @ \cup more]
        /\ more \subseteq Values \cup {None}
  <2> DEFINE more == (IF call.dated THEN {} ELSE {None})
                        \cup (IF Standing(session, call) = {}
                             THEN SlotValues(s, session, call) ELSE {})
  <2>1. more \subseteq {call.filter, None} /\ more \subseteq Values \cup {None}
    BY SlotValuesType
  <2>2. Booked(s, session, call) = [declared EXCEPT !.assumed = @ \cup more]
    BY DEF Booked
  <2> HIDE DEF more, declared
  <2> QED
    BY <2>1, <2>2
<1>2. /\ declared \in Session
      /\ declared.results = session.results /\ declared.gated = session.gated
      /\ declared.asked = session.asked
      /\ declared.assumed \subseteq session.assumed \cup {call.filter}
      /\ session.assumed # {} => declared.assumed # {}
  BY DeclaredType
<1> HIDE DEF declared
<1> QED
  BY <1>1, <1>2 DEF Session

LEMMA DispatchLeaves ==
    ASSUME NEW s, NEW session \in Session, NEW call \in ToolCall,
           Name \in {BASELINE, PROXY}, NEW out \in dispatch(s, session, call)
    PROVE  CallLeaves(s, session, call, out)
<1>1. CASE call.name \in SYNTHETIC /\ Name = BASELINE
  <2>1. out = UnknownTool(session, call)
    BY <1>1 DEF dispatch, BASELINE, PROXY, SYNTHETIC
  <2> QED
    BY <2>1, UnknownLeaves
<1>2. CASE call.name = "assess_request" /\ Name = PROXY
  <2>1. out = Assess(s, session, call)
    BY <1>2 DEF dispatch, BASELINE, PROXY, SYNTHETIC
  <2> QED
    BY <1>2, <2>1, AssessLeaves
<1>3. CASE call.name = "check_groundedness" /\ Name = PROXY
  <2>1. out = CheckDraft(s, session, call)
    BY <1>3 DEF dispatch, BASELINE, PROXY, SYNTHETIC
  <2> QED
    BY <1>3, <2>1, CheckLeaves
<1>4. CASE call.name \notin SYNTHETIC /\ Name = BASELINE
  <2>1. out \in Answered(s, session, call)
    BY <1>4 DEF dispatch, BASELINE, PROXY, SYNTHETIC
  <2> QED
    BY <2>1, AnswerLeaves
<1>5. CASE call.name \notin SYNTHETIC /\ Name = PROXY
  <2>1. \/ out = Gate(s, session, call)
        \/ out \in Answered(s, Booked(s, session, call), call)
    BY <1>5 DEF dispatch, BASELINE, PROXY, SYNTHETIC
  <2>2. CASE out = Gate(s, session, call)
    BY <1>5, <2>2, GateLeaves
  <2>3. ASSUME out \in Answered(s, Booked(s, session, call), call)
        PROVE  CallLeaves(s, session, call, out)
    <3> DEFINE booked == Booked(s, session, call)
    <3>1. /\ booked \in Session
          /\ booked.results = session.results /\ booked.gated = session.gated
          /\ booked.asked = session.asked
          /\ booked.assumed \subseteq session.assumed \cup {call.filter, None}
          /\ session.assumed # {} => booked.assumed # {}
      BY BookedType
    <3>2. out \in Answered(s, booked, call)
      BY <2>3
    <3> HIDE DEF booked
    <3> QED
      BY <3>1, <3>2, AnswerLeaves
  <2> QED
    BY <2>1, <2>2, <2>3
<1> QED
  BY <1>1, <1>2, <1>3, <1>4, <1>5 DEF SYNTHETIC
-----------------------------------------------------------------------------
(* The state of the scenarios.                                             *)

\* What the session of a scenario holds came with its calls, what upstream's data
\* it holds stands in a record of them or is a list under an assumption, and what a record shows as evidence is
\* upstream's, or the proxy's own and without a price.
Accounted(s, session, called, data) ==
    /\ session.results \subseteq data
    /\ AssumedValues(session) \subseteq {c.filter : c \in called}
    /\ session.asked => \E c \in called : c.name = "assess_request"
    /\ \A k \in session.gated : \E c \in called :
        /\ <<c.name, c.filter>> = <<k[1], k[3]>>
        /\ c.payload # None /\ c.payload.status = GATE_STATUS
    /\ \A p \in session.results :
        \/ p.list /\ Assuming(s, session)
        \/ \E c \in called : ~c.is_error /\ c.payload # None /\ SameData(c.payload, p)

Evidence(called, data) ==
    \A c \in called : ~c.is_error /\ c.payload # None =>
        \/ \E p \in data : SameData(c.payload, p)
        \/ Name = PROXY /\ c.payload.prices = {}

StateType ==
    /\ opts \in Options /\ variant \in 1..Len(opts.variants)
    /\ phase \in {"options", "surface", "gathering", "reported", "aborted"}
    /\ pc \in [Scenarios -> {"queued", "asking", "calling", "judged", "crashed"}]
    /\ todo \in [Scenarios -> Seq(ToolCall \cup {malformed})]
    /\ tool_calls \in [Scenarios -> Seq(CallRecord)]
    /\ delivered \in [Scenarios -> SUBSET Payload]
    /\ premises \in [Scenarios \cup {"variant"} -> Session]
    /\ scope = [s \in Scenarios |-> s]

\* A scenario not under way has left nothing behind, and none is under way before
\* the scenarios of a variant are started.
Idle ==
    /\ \A s \in Scenarios \ Active : todo[s] = <<>> /\ tool_calls[s] = <<>>
    /\ phase \in {"options", "surface"} => Active = {}

SessionsInv ==
    /\ StateType /\ Idle
    /\ \A s \in Scenarios :
        /\ Accounted(s, premises[s], Called(s), delivered[s])
        /\ Evidence(Called(s), delivered[s])

LEMMA NameType == ASSUME StateType PROVE Name \in {BASELINE, PROXY}
<1>1. opts.variants \in Seq({BASELINE, PROXY}) /\ variant \in 1..Len(opts.variants)
  BY BoundsAssumption DEF StateType
<1> QED
  BY <1>1 DEF Name

LEMMA NewSessionType == NewSession \in Session /\ NewSession.results = {}
  BY DEF NewSession, Session

LEMMA NothingAccounted ==
    ASSUME NEW s, NEW called, NEW data PROVE Accounted(s, NewSession, called, data)
  BY DEF Accounted, NewSession, AssumedValues

LEMMA NoEvidence == Evidence({}, {})
  BY DEF Evidence

LEMMA AppendCalled ==
    ASSUME NEW S, NEW q \in Seq(S), NEW x \in S
    PROVE  {Append(q, x)[i] : i \in DOMAIN Append(q, x)} = {q[i] : i \in DOMAIN q} \cup {x}
<1>1. /\ Len(q) \in Nat /\ DOMAIN q = 1..Len(q)
      /\ DOMAIN Append(q, x) = 1..(Len(q) + 1)
      /\ \A i \in 1..Len(q) : Append(q, x)[i] = q[i]
      /\ Append(q, x)[Len(q) + 1] = x
  OBVIOUS
<1> QED
  BY <1>1

\* One more call keeps a session accounted for.
LEMMA CallAccounted ==
    ASSUME NEW s, NEW session \in Session, NEW called, NEW data, NEW call, NEW out,
           Accounted(s, session, called, data), Evidence(called, data),
           CallLeaves(s, session, call, out)
    PROVE  /\ Accounted(s, out.session, called \cup {out.record}, data \cup out.data)
           /\ Evidence(called \cup {out.record}, data \cup out.data)
<1> DEFINE after == out.session
           made == called \cup {out.record}
<1>1. after.results \subseteq data \cup out.data
  BY DEF Accounted, CallLeaves
<1>2. AssumedValues(after) \subseteq {c.filter : c \in made}
  BY DEF Accounted, CallLeaves, AssumedValues
<1>3. after.asked => \E c \in made : c.name = "assess_request"
  BY DEF Accounted, CallLeaves
<1>4. ASSUME NEW k \in after.gated
      PROVE  \E c \in made :
                /\ <<c.name, c.filter>> = <<k[1], k[3]>>
                /\ c.payload # None /\ c.payload.status = GATE_STATUS
  <2>1. CASE k \in session.gated
    BY <2>1 DEF Accounted
  <2>2. CASE k \notin session.gated
    BY <1>4, <2>2 DEF CallLeaves, Key
  <2> QED
    BY <2>1, <2>2
<1>5. ASSUME NEW p \in after.results
      PROVE  \/ p.list /\ Assuming(s, after)
             \/ \E c \in made : ~c.is_error /\ c.payload # None /\ SameData(c.payload, p)
  BY <1>5 DEF Accounted, CallLeaves
<1>6. Evidence(made, data \cup out.data)
  BY DEF Evidence, CallLeaves
<1> QED
  BY <1>1, <1>2, <1>3, <1>4, <1>5, <1>6 DEF Accounted

-----------------------------------------------------------------------------
\* What agent.run leaves behind when it returns.
Reset(s) ==
    /\ phase = "gathering" /\ pc[s] \in {"asking", "calling"}
    /\ pc' = [pc EXCEPT ![s] = "judged"]
    /\ todo' = [todo EXCEPT ![s] = <<>>]
    /\ tool_calls' = [tool_calls EXCEPT ![s] = <<>>]
    /\ delivered' = [delivered EXCEPT ![s] = {}]
    /\ premises' = [premises EXCEPT ![s] = NewSession]
    /\ UNCHANGED runVars

LEMMA ResetKeeps == ASSUME SessionsInv, NEW s \in Scenarios, Reset(s) PROVE SessionsInv'
<1> USE DEF SessionsInv
<1>1. StateType'
  BY NewSessionType DEF StateType, Reset, runVars
<1>2. Idle'
  BY DEF StateType, Idle, Active, Reset, runVars
<1>3. ASSUME NEW r \in Scenarios
      PROVE  /\ Accounted(r, premises[r], Called(r), delivered[r])'
             /\ Evidence(Called(r), delivered[r])'
  <2>1. CASE r = s
    <3>1. premises'[r] = NewSession /\ delivered'[r] = {} /\ tool_calls'[r] = <<>>
      BY <2>1 DEF StateType, Reset
    <3>2. Called(r)' = {}
      BY <3>1 DEF Called
    <3>3. Accounted(r, premises[r], Called(r), delivered[r])'
      BY <3>1, <3>2 DEF Accounted, NewSession, AssumedValues
    <3> QED
      BY <3>1, <3>2, <3>3 DEF Evidence
  <2>2. CASE r # s
    <3>1. /\ premises'[r] = premises[r] /\ delivered'[r] = delivered[r]
          /\ tool_calls'[r] = tool_calls[r]
      BY <2>2 DEF StateType, Reset
    <3>2. Called(r)' = Called(r) /\ Name' = Name
      BY <3>1 DEF Called, Name, Reset, runVars
    <3> QED
      BY <3>1, <3>2 DEF Accounted, Evidence, AssumedValues, Assuming
  <2> QED
    BY <2>1, <2>2
<1> QED
  BY <1>1, <1>2, <1>3

\* An action that leaves transcripts, sessions and data alone.
LEMMA QuietKeeps ==
    ASSUME SessionsInv, StateType', Idle', UNCHANGED <<opts, variant, tool_calls, premises, delivered>>
    PROVE  SessionsInv'
<1> SUFFICES ASSUME NEW r \in Scenarios
             PROVE  /\ Accounted(r, premises[r], Called(r), delivered[r])'
                    /\ Evidence(Called(r), delivered[r])'
  BY DEF SessionsInv
<1>1. Called(r)' = Called(r) /\ Name' = Name
  BY DEF Called, Name
<1> QED
  BY <1>1 DEF SessionsInv, Accounted, Evidence, AssumedValues, Assuming

LEMMA ExecuteKeeps == ASSUME SessionsInv, NEW s \in Scenarios, Execute(s) PROVE SessionsInv'
<1> USE DEF SessionsInv
<1> DEFINE call == Head(todo[s])
<1>1. /\ Running(s, "calling") /\ todo[s] # <<>> /\ call # malformed
      /\ UNCHANGED runVars
  BY DEF Execute
<1>2. PICK out \in dispatch(s, premises[scope[s]], call) :
        LET called == Append(tool_calls[s], out.record)
        IN  IF Len(todo[s]) = 1 /\ ~Scripted /\ Capped(s)
            THEN Return(s, EmptyAnswer, "turn_cap", called, out.session)
            ELSE /\ tool_calls' = [tool_calls EXCEPT ![s] = called]
                 /\ premises' = [premises EXCEPT ![scope[s]] = out.session]
                 /\ delivered' = [delivered EXCEPT ![s] = @ \cup out.data]
                 /\ todo' = [todo EXCEPT ![s] = Tail(@)]
                 /\ pc' = [pc EXCEPT ![s] =
                        IF Len(todo[s]) = 1 /\ ~Scripted THEN "asking" ELSE "calling"]
                 /\ UNCHANGED <<turns, permits, results>>
  BY DEF Execute
<1>3. scope[s] = s /\ premises[s] \in Session
  BY DEF StateType
<1>4. call \in ToolCall
  <2>1. todo[s] \in Seq(ToolCall \cup {malformed})
    BY DEF StateType
  <2> QED
    BY <1>1, <2>1
<1> HIDE DEF call
<1>5. CallLeaves(s, premises[s], call, out)
  BY <1>2, <1>3, <1>4, NameType, DispatchLeaves
<1>6. CASE Len(todo[s]) = 1 /\ ~Scripted /\ Capped(s)
  <2>1. Reset(s)
    BY <1>1, <1>2, <1>6 DEF Reset, Return, Running
  <2> QED
    BY <2>1, ResetKeeps
<1>7. CASE ~(Len(todo[s]) = 1 /\ ~Scripted /\ Capped(s))
  <2>1. /\ tool_calls' = [tool_calls EXCEPT ![s] = Append(tool_calls[s], out.record)]
        /\ premises' = [premises EXCEPT ![s] = out.session]
        /\ delivered' = [delivered EXCEPT ![s] = @ \cup out.data]
        /\ todo' = [todo EXCEPT ![s] = Tail(@)]
        /\ \E where \in {"asking", "calling"} : pc' = [pc EXCEPT ![s] = where]
    BY <1>2, <1>3, <1>7
  <2>2. out.record \in CallRecord /\ out.session \in Session /\ out.data \subseteq Payload
    BY <1>5 DEF CallLeaves
  <2>3. StateType'
    <3>1. Tail(todo[s]) \in Seq(ToolCall \cup {malformed})
      BY <1>1 DEF StateType
    <3>2. Append(tool_calls[s], out.record) \in Seq(CallRecord)
      BY <2>2 DEF StateType
    <3> QED
      BY <1>1, <2>1, <2>2, <3>1, <3>2 DEF StateType, runVars
  <2>4. Idle'
    BY <1>1, <2>1 DEF StateType, Idle, Active, Running, runVars
  <2>5. ASSUME NEW r \in Scenarios
        PROVE  /\ Accounted(r, premises[r], Called(r), delivered[r])'
               /\ Evidence(Called(r), delivered[r])'
    <3>1. CASE r = s
      <4>1. /\ premises'[s] = out.session /\ delivered'[s] = delivered[s] \cup out.data
            /\ tool_calls'[s] = Append(tool_calls[s], out.record)
        BY <2>1 DEF StateType
      <4>2. Called(s)' = Called(s) \cup {out.record}
        <5>1. tool_calls[s] \in Seq(CallRecord)
          BY DEF StateType
        <5> QED
          BY <4>1, <5>1, <2>2, AppendCalled DEF Called
      <4>3. /\ Accounted(s, out.session, Called(s) \cup {out.record}, delivered[s] \cup out.data)
            /\ Evidence(Called(s) \cup {out.record}, delivered[s] \cup out.data)
        BY <1>3, <1>5, CallAccounted
      <4>4. Name' = Name
        BY <1>1 DEF Name, runVars
      <4> QED
        BY <3>1, <4>1, <4>2, <4>3, <4>4 DEF Accounted, Evidence, AssumedValues, Assuming
    <3>2. CASE r # s
      <4>1. /\ premises'[r] = premises[r] /\ delivered'[r] = delivered[r]
            /\ tool_calls'[r] = tool_calls[r]
        BY <2>1, <3>2 DEF StateType
      <4>2. Called(r)' = Called(r) /\ Name' = Name
        BY <1>1, <4>1 DEF Called, Name, runVars
      <4> QED
        BY <4>1, <4>2 DEF Accounted, Evidence, AssumedValues, Assuming
    <3> QED
      BY <3>1, <3>2
  <2> QED
    BY <2>3, <2>4, <2>5
<1> QED
  BY <1>6, <1>7

LEMMA SessionsInitially == ASSUME Init PROVE SessionsInv
<1>1. opts.variants \in Seq({BASELINE, PROXY}) /\ opts.variants # <<>>
  BY BoundsAssumption DEF Init
<1>2. StateType
  BY <1>1, NewSessionType DEF Init, StateType
<1>3. Idle
  BY DEF Init, Idle, Active
<1>4. ASSUME NEW r \in Scenarios
      PROVE  Accounted(r, premises[r], Called(r), delivered[r]) /\ Evidence(Called(r), delivered[r])
  <2>1. premises[r] = NewSession /\ delivered[r] = {} /\ Called(r) = {}
    BY DEF Init, Called
  <2> QED
    BY <2>1, NothingAccounted, NoEvidence
<1> QED
  BY <1>2, <1>3, <1>4 DEF SessionsInv

LEMMA SessionsKept == ASSUME SessionsInv, [Next]_vars PROVE SessionsInv'
<1> USE DEF SessionsInv
<1>1. CASE Refuse \/ Connect \/ ConnectFails \/ Report \/ ReportFails
  <2>1. /\ UNCHANGED <<opts, variant, agentVars>>
        /\ phase' \in {"surface", "reported", "aborted"}
        /\ phase' = "surface" => phase = "options"
    BY <1>1 DEF Refuse, Connect, ConnectFails, Report, ReportFails
  <2>2. StateType' /\ Idle'
    BY <2>1 DEF StateType, Idle, Active, agentVars
  <2> QED
    BY <2>1, <2>2, QuietKeeps DEF agentVars
<1>2. CASE MeasureSurface
  <2>1. /\ phase = "surface" /\ phase' = "gathering"
        /\ pc' = [s \in Scenarios |-> "queued"]
        /\ UNCHANGED <<opts, variant, todo, tool_calls, scope, premises, delivered>>
    BY <1>2 DEF MeasureSurface
  <2>2. StateType'
    BY <2>1 DEF StateType
  <2>3. Idle'
    BY <2>1 DEF Idle, Active
  <2> QED
    BY <2>1, <2>2, <2>3, QuietKeeps
<1>3. CASE NextVariant
  <2>1. /\ phase = "gathering" /\ Gathered /\ variant < Len(opts.variants)
        /\ phase' = "surface" /\ variant' = variant + 1
        /\ UNCHANGED <<opts, agentVars>>
    BY <1>3 DEF NextVariant
  <2>2. Active = {} /\ Active' = {}
    BY <2>1 DEF Gathered, Active, agentVars
  <2>3. StateType'
    <3>1. Len(opts.variants) \in Nat
      BY BoundsAssumption DEF StateType
    <3> QED
      BY <2>1, <3>1 DEF StateType, agentVars
  <2>4. Idle'
    BY <2>1, <2>2 DEF Idle, agentVars
  <2>5. ASSUME NEW r \in Scenarios
        PROVE  /\ Accounted(r, premises[r], Called(r), delivered[r])'
               /\ Evidence(Called(r), delivered[r])'
    <3>1. /\ premises'[r] = premises[r] /\ delivered'[r] = delivered[r]
          /\ tool_calls'[r] = <<>> /\ tool_calls[r] = <<>>
      BY <2>1, <2>2 DEF Idle, agentVars
    <3>2. Called(r) = {} /\ Called(r)' = {}
      BY <3>1 DEF Called
    <3> QED
      BY <3>1, <3>2 DEF Accounted, Evidence, AssumedValues, Assuming
  <2> QED
    BY <2>3, <2>4, <2>5
<1>4. ASSUME NEW s \in Scenarios, Acquire(s) \/ Crash(s) \/ RespondCalls(s)
      PROVE  SessionsInv'
  <2>1. UNCHANGED <<opts, variant, tool_calls, premises, delivered>>
    BY <1>4 DEF Acquire, Crash, RespondCalls, runVars
  <2>2. StateType' /\ Idle'
    <3>1. CASE Acquire(s)
      <4>1. (IF Scripted THEN ThePlan(s).calls ELSE <<>>) \in Seq(ToolCall \cup {malformed})
        <5>1. Seq(ToolCall) \subseteq Seq(ToolCall \cup {malformed})
          OBVIOUS
        <5>2. ThePlan(s).calls \in Seq(ToolCall)
          BY InputsAssumption DEF ThePlan
        <5> QED
          BY <5>1, <5>2
      <4>2. /\ phase = "gathering" /\ phase' = phase /\ pc[s] = "queued"
            /\ scope' = [scope EXCEPT ![s] = s]
            /\ \E where \in {"asking", "calling"} : pc' = [pc EXCEPT ![s] = where]
            /\ \E calls \in Seq(ToolCall \cup {malformed}) : todo' = [todo EXCEPT ![s] = calls]
        BY <3>1, <4>1 DEF Acquire, session_scope
      <4>3. StateType'
        BY <2>1, <4>2 DEF StateType
      <4>4. Idle'
        BY <2>1, <4>2 DEF StateType, Idle, Active
      <4> QED
        BY <4>3, <4>4
    <3>2. CASE Crash(s)
      <4>1. StateType'
        BY <3>2 DEF Crash, StateType
      <4>2. Idle'
        BY <3>2 DEF Crash, StateType, Idle, Active
      <4> QED
        BY <4>1, <4>2
    <3>3. CASE RespondCalls(s)
      <4>1. PICK n \in 1..(MaxCalls - Len(tool_calls[s])) :
                \E cs \in [1..n -> Calls[s]] : todo' = [todo EXCEPT ![s] = cs]
        BY <3>3 DEF RespondCalls
      <4>2. PICK cs \in [1..n -> Calls[s]] : todo' = [todo EXCEPT ![s] = cs]
        BY <4>1
      <4>3. cs \in Seq(ToolCall \cup {malformed})
        <5>1. n \in Nat
          <6>1. Len(tool_calls[s]) \in Nat
            BY DEF StateType
          <6> QED
            BY <6>1, BoundsAssumption
        <5>2. cs \in [1..n -> ToolCall \cup {malformed}]
          BY InputsAssumption
        <5> QED
          BY <5>1, <5>2
      <4>4. /\ phase = "gathering" /\ pc[s] = "asking" /\ UNCHANGED runVars
            /\ pc' = [pc EXCEPT ![s] = "calling"]
        BY <3>3 DEF RespondCalls, Running
      <4>5. StateType'
        BY <2>1, <4>2, <4>3, <4>4 DEF StateType, runVars
      <4>6. Idle'
        BY <2>1, <4>2, <4>4 DEF StateType, Idle, Active, runVars
      <4> QED
        BY <4>5, <4>6
    <3> QED
      BY <1>4, <3>1, <3>2, <3>3
  <2> QED
    BY <2>1, <2>2, QuietKeeps
<1>5. ASSUME NEW s \in Scenarios,
             RespondAnswer(s) \/ RespondRefusal(s) \/ RequestFails(s)
                \/ ExecuteRaises(s) \/ AnswerPlanned(s)
      PROVE  SessionsInv'
  <2>1. Reset(s)
    BY <1>5 DEF RespondAnswer, RespondRefusal, RequestFails, ExecuteRaises,
                AnswerPlanned, Leave, Return, Reset, Running
  <2> QED
    BY <2>1, ResetKeeps
<1>6. CASE UNCHANGED vars
  <2>1. UNCHANGED <<opts, variant, phase, agentVars>>
    BY <1>6 DEF vars
  <2>2. StateType' /\ Idle'
    BY <2>1 DEF StateType, Idle, Active, agentVars
  <2> QED
    BY <2>1, <2>2, QuietKeeps DEF agentVars
<1> QED
  BY <1>1, <1>2, <1>3, <1>4, <1>5, <1>6, ExecuteKeeps DEF Next, Turn

LEMMA SessionsInvariant == Spec => []SessionsInv
<1>1. Init => SessionsInv
  BY SessionsInitially
<1>2. SessionsInv /\ [Next]_vars => SessionsInv'
  BY SessionsKept
<1> QED
  BY <1>1, <1>2, PTL DEF Spec

-----------------------------------------------------------------------------
\* session_scope of evals/variants.py: however the scenarios interleave, a session
\* holds what its own scenario's calls put there, and nothing of another's.
THEOREM Isolated == Spec => []SessionsIsolated
<1>1. SessionsInv => SessionsIsolated
  <2> SUFFICES ASSUME SessionsInv, NEW s \in Active
               PROVE  LET session == premises[scope[s]]
                          called == Called(s)
                      IN  /\ session.results \subseteq delivered[s]
                          /\ AssumedValues(session) \subseteq {c.filter : c \in called}
                          /\ session.asked => \E c \in called : c.name = "assess_request"
                          /\ \A k \in session.gated : \E c \in called :
                                /\ <<c.name, c.filter>> = <<k[1], k[3]>>
                                /\ c.payload # None /\ c.payload.status = GATE_STATUS
    BY DEF SessionsIsolated, Called
  <2>1. s \in Scenarios /\ scope[s] = s
    BY DEF SessionsInv, StateType, Active
  <2> QED
    BY <2>1 DEF SessionsInv, Accounted
<1> QED
  BY <1>1, SessionsInvariant, PTL

\* attach_preamble of dispatch.py and result_payloads of evals/transcript.py: whatever
\* a payload of the session that is no list under an assumption grounds for the proxy's
\* own check is grounded for the judge, who reads the transcript; the text put before
\* or into the other results takes none of it away.
THEOREM JudgeSeesEvidence == Spec => []JudgeLosesOnlyLists
<1>1. SessionsInv => JudgeLosesOnlyLists
  <2> DEFINE Judges(s) == result_payloads([tool_calls |-> tool_calls[s]])
             Kept(s) == {p \in premises[s].results : ~(p.list /\ Assuming(s, premises[s]))}
  <2> SUFFICES ASSUME SessionsInv, NEW s \in Active PROVE JudgeGrounds(s, Kept(s))
    BY DEF JudgeLosesOnlyLists, SessionsInv, StateType, Active
  <2> SUFFICES ASSUME NEW v \in Values, Grounded(build_grounding_index(Kept(s)), v)
               PROVE  Grounded(build_grounding_index(Judges(s)), v)
    BY DEF JudgeGrounds
  <2>1. s \in Scenarios
    BY DEF Active
  <2>2. Judges(s) = {c.payload : c \in {d \in Called(s) : ~d.is_error /\ d.payload # None}}
    BY DEF result_payloads, CallsOf, Called
  <2>3. \A p \in Kept(s) : p \in premises[s].results /\ ~(p.list /\ Assuming(s, premises[s]))
    OBVIOUS
  <2> HIDE DEF Judges, Kept
  <2>4. \A p \in Kept(s) : \E q \in Judges(s) : SameData(p, q)
    BY <2>1, <2>2, <2>3 DEF SessionsInv, Accounted, SameData
  <2> QED
    BY <2>4, IndexCovered
<1> QED
  BY <1>1, SessionsInvariant, PTL

\* A claim judged confirmed is one the judge's index grounds.
LEMMA ConfirmedIsGrounded ==
    ASSUME NEW answer, NEW payloads, NEW assumed, NEW assumptions, NEW said,
           NEW v \in confirmed(check_groundedness(answer, payloads, assumed, assumptions, said))
    PROVE  v \in Claimed(answer) /\ Grounded(build_grounding_index(payloads), v)
<1> DEFINE index == build_grounding_index(payloads)
           report == check_groundedness(answer, payloads, assumed, assumptions, said)
<1>1. report.status = [w \in Claimed(answer) |-> ClaimStatus(index, assumed, said, w)]
  BY DEF check_groundedness
<1>2. v \in DOMAIN report.status /\ report.status[v] = "confirmed"
  BY DEF confirmed, Having
<1> HIDE DEF index, report
<1>3. v \in Claimed(answer) /\ ClaimStatus(index, assumed, said, v) = "confirmed"
  BY <1>1, <1>2
<1> QED
  BY <1>3 DEF ClaimStatus, index

\* Where a scenario's result comes from: an answer, judged by its transcript.
LEMMA JudgedFrom ==
    ASSUME SessionsInv, [Next]_vars, NEW s \in Scenarios, Judged(s),
           results = [n \in {BASELINE, PROXY} |-> results[n]],
           NEW v \in results'[Name][s].confirmed
    PROVE  Grounded(build_grounding_index(result_payloads([tool_calls |-> tool_calls[s]])), v)
<1>1. pc[s] \in {"asking", "calling"} /\ pc'[s] = "judged"
  BY DEF Judged, Active
<1>2. ASSUME NEW r \in Scenarios, NEW answer, NEW failure, NEW called, NEW session,
             Return(r, answer, failure, called, session)
      PROVE  r = s /\ v \in confirmed(check_groundedness(answer,
                    result_payloads([answer |-> answer, tool_calls |-> called, failure |-> failure]),
                    AssumedValues(session), Assuming(s, session), Said[s]))
  <2>1. r = s
    BY <1>1, <1>2 DEF Return, SessionsInv, StateType
  <2> DEFINE e == Evaluate(s, [answer |-> answer, tool_calls |-> called, failure |-> failure],
                           session)
  <2>2. results' = [results EXCEPT ![Name] =
                        [q \in DOMAIN @ \cup {s} |-> IF q = s THEN e ELSE @[q]]]
    BY <1>2, <2>1 DEF Return
  <2>3. e.confirmed = confirmed(check_groundedness(answer,
                    result_payloads([answer |-> answer, tool_calls |-> called, failure |-> failure]),
                    AssumedValues(session), Assuming(s, session), Said[s]))
    BY DEF Evaluate
  <2>4. results'[Name] = [q \in DOMAIN results[Name] \cup {s} |->
                            IF q = s THEN e ELSE results[Name][q]]
    BY <2>2, NameType DEF SessionsInv
  <2> HIDE DEF e
  <2>5. results'[Name][s] = e
    BY <2>4
  <2> QED
    BY <2>1, <2>3, <2>5
<1>3. ASSUME NEW r \in Scenarios, NEW answer, NEW failure, Leave(r, answer, failure)
      PROVE  r = s /\ Grounded(build_grounding_index(
                            result_payloads([tool_calls |-> tool_calls[s]])), v)
  <2>1. Return(r, answer, failure, tool_calls[r], premises[scope[r]])
    BY <1>3 DEF Leave
  <2>2. r = s
    BY <1>1, <2>1 DEF Return, SessionsInv, StateType
  <2>3. v \in confirmed(check_groundedness(answer,
                result_payloads([answer |-> answer, tool_calls |-> tool_calls[s],
                                 failure |-> failure]),
                AssumedValues(premises[scope[s]]), Assuming(s, premises[scope[s]]), Said[s]))
    BY <1>2, <2>1, <2>2
  <2>4. Grounded(build_grounding_index(result_payloads(
                [answer |-> answer, tool_calls |-> tool_calls[s], failure |-> failure])), v)
    BY <2>3, ConfirmedIsGrounded
  <2> QED
    BY <2>2, <2>4 DEF result_payloads, CallsOf
<1>4. ASSUME NEW r \in Scenarios, Execute(r)
      PROVE  FALSE
  <2>1. PICK out \in dispatch(r, premises[scope[r]], Head(todo[r])) :
            LET called == Append(tool_calls[r], out.record)
            IN  IF Len(todo[r]) = 1 /\ ~Scripted /\ Capped(r)
                THEN Return(r, EmptyAnswer, "turn_cap", called, out.session)
                ELSE \E where \in {"asking", "calling"} : pc' = [pc EXCEPT ![r] = where]
    BY <1>4 DEF Execute
  <2>2. Return(r, EmptyAnswer, "turn_cap", Append(tool_calls[r], out.record), out.session)
    BY <1>1, <2>1 DEF SessionsInv, StateType
  <2>3. v \in confirmed(check_groundedness(EmptyAnswer,
                result_payloads([answer |-> EmptyAnswer,
                                 tool_calls |-> Append(tool_calls[r], out.record),
                                 failure |-> "turn_cap"]),
                AssumedValues(out.session), Assuming(s, out.session), Said[s]))
    BY <1>2, <2>2
  <2> QED
    BY <2>3, ConfirmedIsGrounded DEF EmptyAnswer, Claimed
<1>5. ASSUME NEW r \in Scenarios, Acquire(r) \/ Crash(r) \/ RespondCalls(r)
      PROVE  FALSE
  <2>1. \E where \in {"asking", "calling", "crashed"} : pc' = [pc EXCEPT ![r] = where]
    BY <1>5 DEF Acquire, Crash, RespondCalls
  <2> QED
    BY <1>1, <2>1 DEF SessionsInv, StateType
<1>6. CASE \/ Refuse \/ Connect \/ ConnectFails \/ MeasureSurface \/ NextVariant \/ Report
           \/ ReportFails \/ UNCHANGED vars
  <2>1. pc' = pc \/ pc' = [r \in Scenarios |-> "queued"]
    BY <1>6 DEF Refuse, Connect, ConnectFails, MeasureSurface, NextVariant, Report,
                ReportFails, vars, agentVars
  <2> QED
    BY <1>1, <2>1 DEF SessionsInv, StateType
<1>7. ASSUME NEW r \in Scenarios,
             RespondAnswer(r) \/ RespondRefusal(r) \/ RequestFails(r)
                \/ ExecuteRaises(r) \/ AnswerPlanned(r)
      PROVE  \E answer, failure : Leave(r, answer, failure)
  BY <1>7 DEF RespondAnswer, RespondRefusal, RequestFails, ExecuteRaises, AnswerPlanned
<1> QED
  BY <1>3, <1>4, <1>5, <1>6, <1>7 DEF Next, Turn

\* evals/agent.py and checks.py: on the baseline a claim judged confirmed, and with the
\* proxy a price judged so, stands in data upstream returned to this very scenario,
\* whatever the proxy itself wrote into the transcript.
THEOREM ConfirmedStandsInData == Spec => ConfirmedByData
<1> DEFINE Fine == results = [n \in {BASELINE, PROXY} |-> results[n]]
           Step == \A s \in Scenarios : Judged(s) =>
                    \A v \in results'[Name][s].confirmed :
                        Name = BASELINE \/ Kind[v] = "price" => Supported(s, v)
<1>1. Init => Fine
  BY DEF Init
<1>2. SessionsInv /\ Fine /\ [Next]_vars => Fine'
  <2> SUFFICES ASSUME Fine, [Next]_vars PROVE Fine'
    OBVIOUS
  <2>1. ASSUME NEW r, NEW answer, NEW failure, NEW called, NEW session,
               Return(r, answer, failure, called, session)
        PROVE  \E x : results' = [results EXCEPT ![Name] = x]
    BY <2>1 DEF Return
  <2>2. ASSUME NEW r, Execute(r)
        PROVE  results' = results \/ \E x : results' = [results EXCEPT ![Name] = x]
    BY <2>1, <2>2 DEF Execute
  <2>3. ASSUME NEW r, \/ RespondAnswer(r) \/ RespondRefusal(r) \/ RequestFails(r)
                      \/ ExecuteRaises(r) \/ AnswerPlanned(r)
        PROVE  \E x : results' = [results EXCEPT ![Name] = x]
    BY <2>1, <2>3 DEF RespondAnswer, RespondRefusal, RequestFails, ExecuteRaises,
                      AnswerPlanned, Leave
  <2>4. results' = results \/ \E x : results' = [results EXCEPT ![Name] = x]
    BY <2>2, <2>3 DEF Next, Turn, vars, Refuse, Connect, ConnectFails, MeasureSurface,
                      NextVariant, Report, ReportFails, Acquire, Crash, RespondCalls
  <2> QED
    BY <2>4
<1>3. SessionsInv /\ Fine /\ [Next]_vars => Step
  <2> SUFFICES ASSUME SessionsInv, Fine, [Next]_vars, NEW s \in Scenarios, Judged(s),
                      NEW v \in results'[Name][s].confirmed,
                      Name = BASELINE \/ Kind[v] = "price"
               PROVE  Supported(s, v)
    OBVIOUS
  <2> DEFINE shown == result_payloads([tool_calls |-> tool_calls[s]])
  <2>1. Grounded(build_grounding_index(shown), v)
    BY JudgedFrom
  <2>2. shown = {c.payload : c \in {d \in Called(s) : ~d.is_error /\ d.payload # None}}
    BY DEF result_payloads, CallsOf, Called
  <2> HIDE DEF shown
  <2>3. \A p \in shown : \/ \E q \in delivered[s] : SameData(p, q)
                         \/ Name = PROXY /\ p.prices = {}
    BY <2>2 DEF SessionsInv, Evidence
  <2>4. CASE Kind[v] = "price"
    BY <2>1, <2>3, <2>4, PricesCovered DEF Supported
  <2>5. CASE Name = BASELINE
    <3>1. \A p \in shown : \E q \in delivered[s] : SameData(p, q)
      BY <2>3, <2>5 DEF BASELINE, PROXY
    <3> QED
      BY <2>1, <3>1, IndexCovered DEF Supported
  <2> QED
    BY <2>4, <2>5
<1> QED
  BY <1>1, <1>2, <1>3, SessionsInvariant, PTL DEF Spec, ConfirmedByData

-----------------------------------------------------------------------------
(* Permits and turns.                                                      *)

LEMMA AppendLength ==
    ASSUME NEW S, NEW q \in Seq(S), NEW x
    PROVE  Len(Append(q, x)) = Len(q) + 1 /\ Len(q) \in Nat
<1>1. q \in Seq(S \cup {x}) /\ x \in S \cup {x}
  OBVIOUS
<1> QED
  BY <1>1

\* Those of TypeOK's parts that are not about single scenarios.
RunType ==
    /\ opts \in Options
    /\ phase \in {"options", "surface", "gathering", "reported", "aborted"}
    /\ exit \in {None, 0, 1, 2} /\ (exit = None <=> phase \notin {"reported", "aborted"})
    /\ variant \in 1..Len(opts.variants)

Permits ==
    /\ permits \in Int
    /\ permits + Cardinality(Active) = opts.concurrency
    /\ permits >= 0 \/ Refused

Turns ==
    /\ turns \in [Scenarios -> Nat]
    /\ \A s \in Scenarios :
        /\ turns[s] <= opts.max_turns
        /\ s \notin Active => turns[s] = 0
        /\ Len(todo[s]) + Len(tool_calls[s]) <= MaxCalls \/ Scripted
        /\ pc[s] = "asking" => turns[s] < opts.max_turns /\ todo[s] = <<>>

Bookkeeping == SessionsInv /\ RunType /\ Permits /\ Turns

LEMMA ActiveFinite == IsFiniteSet(Active)
<1>1. IsFiniteSet(Scenarios) /\ Active \subseteq Scenarios
  BY InputsAssumption DEF Active
<1> QED
  BY <1>1, FS_Subset

\* The bounds of the run's options.
LEMMA OptionsType ==
    ASSUME RunType
    PROVE  /\ opts.max_turns \in Nat \ {0} /\ opts.concurrency \in Int
           /\ Len(opts.variants) \in Nat \ {0}
           /\ Name \in {BASELINE, PROXY}
<1>1. opts.variants \in Seq({BASELINE, PROXY}) /\ opts.variants # <<>>
  BY BoundsAssumption DEF RunType
<1> QED
  BY <1>1, BoundsAssumption DEF RunType, Name

LEMMA RunTypeKept == ASSUME RunType, [Next]_vars PROVE RunType'
<1>1. Name \in {BASELINE, PROXY} /\ Len(opts.variants) \in Nat \ {0}
  BY OptionsType
<1>2. CASE Refuse \/ Connect \/ ConnectFails \/ MeasureSurface
  BY <1>1, <1>2, BoundsAssumption DEF RunType, Refuse, Connect, ConnectFails, MeasureSurface
<1>3. CASE NextVariant
  BY <1>1, <1>3 DEF RunType, NextVariant
<1>4. CASE Report \/ ReportFails
  <2>1. /\ exit' \in {0, 1} /\ phase' \in {"reported", "aborted"}
        /\ UNCHANGED <<opts, variant>>
    BY <1>4 DEF Report, ReportFails
  <2> QED
    BY <2>1, BoundsAssumption DEF RunType
<1>5. ASSUME NEW s \in Scenarios, Crash(s)
      PROVE  RunType'
  BY <1>5, BoundsAssumption DEF RunType, Crash
<1>6. ASSUME NEW s \in Scenarios, Acquire(s) \/ Turn(s)
      PROVE  UNCHANGED <<opts, phase, exit, variant>>
  BY <1>6 DEF Acquire, Turn, RespondCalls, RespondAnswer, RespondRefusal, RequestFails,
              Execute, ExecuteRaises, AnswerPlanned, runVars
<1>7. CASE UNCHANGED <<opts, phase, exit, variant>>
  BY <1>7 DEF RunType
<1> QED
  BY <1>2, <1>3, <1>4, <1>5, <1>6, <1>7 DEF Next, vars

\* A scenario that returns gives its permit back.
LEMMA PermitBack ==
    ASSUME SessionsInv, RunType, Permits, NEW s \in Scenarios, Reset(s), permits' = permits + 1
    PROVE  Permits'
<1>1. Active' = Active \ {s} /\ s \in Active
  BY DEF Active, Reset, SessionsInv, StateType
<1>2. Cardinality(Active') = Cardinality(Active) - 1 /\ Cardinality(Active) \in Nat
  BY <1>1, ActiveFinite, FS_RemoveElement, FS_CardinalityType
<1>3. opts' = opts
  BY DEF Reset, runVars
<1> QED
  BY <1>2, <1>3, OptionsType DEF Permits, Refused, Scripted

LEMMA TurnsBack ==
    ASSUME SessionsInv, RunType, Turns, NEW s \in Scenarios, Reset(s),
           turns' = [turns EXCEPT ![s] = 0]
    PROVE  Turns'
<1>1. opts' = opts /\ s \notin Active'
  BY DEF Reset, runVars, Active, SessionsInv, StateType
<1>2. turns' \in [Scenarios -> Nat]
  BY DEF Turns
<1>3. ASSUME NEW r \in Scenarios
      PROVE  /\ turns'[r] <= opts'.max_turns
             /\ r \notin Active' => turns'[r] = 0
             /\ Len(todo'[r]) + Len(tool_calls'[r]) <= MaxCalls \/ Scripted'
             /\ pc'[r] = "asking" => turns'[r] < opts'.max_turns /\ todo'[r] = <<>>
  <2>1. CASE r = s
    BY <1>1, <2>1, OptionsType, BoundsAssumption DEF Turns, Reset, SessionsInv, StateType
  <2>2. CASE r # s
    <3>1. /\ turns'[r] = turns[r] /\ todo'[r] = todo[r] /\ tool_calls'[r] = tool_calls[r]
          /\ pc'[r] = pc[r] /\ Scripted' = Scripted
      BY <1>1, <2>2 DEF Turns, Reset, SessionsInv, StateType, Scripted
    <3>2. r \in Active' <=> r \in Active
      BY <3>1 DEF Active
    <3> QED
      BY <1>1, <3>1, <3>2 DEF Turns
  <2> QED
    BY <2>1, <2>2
<1> QED
  BY <1>2, <1>3 DEF Turns

\* An action that starts or stops no scenario and hands no permit out.
LEMMA PermitsStay ==
    ASSUME Permits, Active' = Active, opts' = opts, permits' = permits
    PROVE  Permits'
  BY DEF Permits, Refused, Scripted

LEMMA PermitsKept == ASSUME Bookkeeping, [Next]_vars PROVE Permits' /\ Turns'
<1> USE DEF Bookkeeping
<1>1. CASE \/ Refuse \/ Connect \/ ConnectFails \/ NextVariant
           \/ Report \/ ReportFails \/ UNCHANGED vars
  <2>1. UNCHANGED <<opts, permits, agentVars>>
    BY <1>1 DEF Refuse, Connect, ConnectFails, NextVariant, Report, ReportFails, vars
  <2>2. Active' = Active
    BY <2>1 DEF Active, agentVars
  <2> QED
    BY <2>1, <2>2, PermitsStay DEF Turns, agentVars, Scripted
<1>2. CASE MeasureSurface
  <2>1. /\ phase = "surface" /\ pc' = [s \in Scenarios |-> "queued"]
        /\ UNCHANGED <<opts, permits, turns, todo, tool_calls>>
    BY <1>2 DEF MeasureSurface
  <2>2. Active = {} /\ Active' = {}
    BY <2>1 DEF SessionsInv, Idle, Active
  <2> QED
    BY <2>1, <2>2, PermitsStay DEF Turns, Scripted
<1>3. ASSUME NEW s \in Scenarios, Acquire(s)
      PROVE  Permits' /\ Turns'
  <2>1. /\ pc[s] = "queued" /\ permits > 0 /\ permits' = permits - 1
        /\ pc' = [pc EXCEPT ![s] = IF Scripted THEN "calling" ELSE "asking"]
        /\ todo' = [todo EXCEPT ![s] = IF Scripted THEN ThePlan(s).calls ELSE <<>>]
        /\ UNCHANGED <<opts, turns, tool_calls>>
    BY <1>3 DEF Acquire
  <2>2. Active' = Active \cup {s} /\ s \notin Active
    BY <2>1 DEF Active, SessionsInv, StateType
  <2>3. Permits'
    <3>1. Cardinality(Active') = Cardinality(Active) + 1 /\ Cardinality(Active) \in Nat
      BY <2>2, ActiveFinite, FS_AddElement, FS_CardinalityType
    <3> QED
      BY <2>1, <3>1, OptionsType DEF Permits
  <2>4. ASSUME NEW r \in Scenarios
        PROVE  /\ turns'[r] <= opts'.max_turns
               /\ r \notin Active' => turns'[r] = 0
               /\ Len(todo'[r]) + Len(tool_calls'[r]) <= MaxCalls \/ Scripted'
               /\ pc'[r] = "asking" => turns'[r] < opts'.max_turns /\ todo'[r] = <<>>
    <3>1. CASE r = s
      <4>1. turns[s] = 0 /\ tool_calls[s] = <<>>
        BY <2>2 DEF Turns, SessionsInv, Idle
      <4> QED
        BY <2>1, <3>1, <4>1, OptionsType, BoundsAssumption
           DEF Scripted, SessionsInv, StateType
    <3>2. CASE r # s
      <4>1. pc'[r] = pc[r] /\ todo'[r] = todo[r]
        BY <2>1, <3>2 DEF SessionsInv, StateType
      <4> QED
        BY <2>1, <2>2, <3>2, <4>1 DEF Turns, Scripted
    <3> QED
      BY <3>1, <3>2
  <2> QED
    BY <2>1, <2>3, <2>4 DEF Turns
<1>4. ASSUME NEW s \in Scenarios, Crash(s)
      PROVE  Permits' /\ Turns'
  <2>1. /\ pc[s] = "queued" /\ pc' = [pc EXCEPT ![s] = "crashed"]
        /\ UNCHANGED <<opts, permits, turns, todo, tool_calls>>
    BY <1>4 DEF Crash
  <2>2. Active' = Active
    BY <2>1 DEF Active, SessionsInv, StateType
  <2>3. \A r \in Scenarios : pc'[r] = "asking" => pc[r] = "asking"
    BY <2>1 DEF SessionsInv, StateType
  <2> QED
    BY <2>1, <2>2, <2>3, PermitsStay DEF Turns, Scripted
<1>5. ASSUME NEW s \in Scenarios, RespondCalls(s)
      PROVE  Permits' /\ Turns'
  <2>1. PICK n \in 1..(MaxCalls - Len(tool_calls[s])) :
            \E cs \in [1..n -> Calls[s]] : todo' = [todo EXCEPT ![s] = cs]
    BY <1>5 DEF RespondCalls
  <2>2. PICK cs \in [1..n -> Calls[s]] : todo' = [todo EXCEPT ![s] = cs]
    BY <2>1
  <2>3. /\ pc[s] = "asking" /\ pc' = [pc EXCEPT ![s] = "calling"]
        /\ turns' = [turns EXCEPT ![s] = @ + 1]
        /\ UNCHANGED <<opts, permits, tool_calls>>
    BY <1>5 DEF RespondCalls, Running, runVars
  <2>4. Active' = Active
    BY <2>3 DEF Active, SessionsInv, StateType
  <2>5. Len(tool_calls[s]) \in Nat /\ n \in Nat /\ n + Len(tool_calls[s]) <= MaxCalls
        /\ Len(cs) = n
    <3>1. Len(tool_calls[s]) \in Nat
      BY DEF SessionsInv, StateType
    <3> QED
      BY <2>1, <2>2, <3>1, BoundsAssumption
  <2>6. ASSUME NEW r \in Scenarios
        PROVE  /\ turns'[r] \in Nat /\ turns'[r] <= opts'.max_turns
               /\ r \notin Active' => turns'[r] = 0
               /\ Len(todo'[r]) + Len(tool_calls'[r]) <= MaxCalls \/ Scripted'
               /\ pc'[r] = "asking" => turns'[r] < opts'.max_turns /\ todo'[r] = <<>>
    <3>1. CASE r = s
      <4>1. /\ turns'[s] = turns[s] + 1 /\ todo'[s] = cs /\ pc'[s] = "calling"
            /\ s \in Active'
        BY <2>2, <2>3, <2>4 DEF Turns, SessionsInv, StateType, Active
      <4>2. turns[s] \in Nat /\ turns[s] < opts.max_turns
        BY <2>3 DEF Turns
      <4>3. opts'.max_turns = opts.max_turns /\ opts.max_turns \in Nat
        BY <2>3, OptionsType
      <4>4. Len(todo'[s]) + Len(tool_calls'[s]) <= MaxCalls
        BY <2>3, <2>5, <4>1
      <4> QED
        BY <3>1, <4>1, <4>2, <4>3, <4>4
    <3>2. CASE r # s
      <4>1. pc'[r] = pc[r] /\ todo'[r] = todo[r] /\ turns'[r] = turns[r]
        BY <2>2, <2>3, <3>2 DEF Turns, SessionsInv, StateType
      <4> QED
        BY <2>3, <2>4, <4>1 DEF Turns, Scripted
    <3> QED
      BY <3>1, <3>2
  <2>7. turns' = [r \in Scenarios |-> turns'[r]]
    BY <2>3 DEF Turns
  <2> QED
    BY <2>3, <2>4, <2>6, <2>7, PermitsStay DEF Turns
<1>6. ASSUME NEW s \in Scenarios, Reset(s), permits' = permits + 1,
             turns' = [turns EXCEPT ![s] = 0]
      PROVE  Permits' /\ Turns'
  BY <1>6, PermitBack, TurnsBack
<1>7. ASSUME NEW s \in Scenarios,
             RespondAnswer(s) \/ RespondRefusal(s) \/ RequestFails(s)
                \/ ExecuteRaises(s) \/ AnswerPlanned(s)
      PROVE  Permits' /\ Turns'
  <2>1. Reset(s) /\ permits' = permits + 1 /\ turns' = [turns EXCEPT ![s] = 0]
    BY <1>7 DEF RespondAnswer, RespondRefusal, RequestFails, ExecuteRaises,
                AnswerPlanned, Leave, Return, Released, Reset, Running
  <2> QED
    BY <1>6, <2>1
<1>8. ASSUME NEW s \in Scenarios, Execute(s)
      PROVE  Permits' /\ Turns'
  <2>1. phase = "gathering" /\ pc[s] = "calling" /\ todo[s] # <<>> /\ UNCHANGED runVars
    BY <1>8 DEF Execute, Running
  <2>2. PICK out \in dispatch(s, premises[scope[s]], Head(todo[s])) :
        LET called == Append(tool_calls[s], out.record)
        IN  IF Len(todo[s]) = 1 /\ ~Scripted /\ Capped(s)
            THEN Return(s, EmptyAnswer, "turn_cap", called, out.session)
            ELSE /\ tool_calls' = [tool_calls EXCEPT ![s] = called]
                 /\ todo' = [todo EXCEPT ![s] = Tail(@)]
                 /\ pc' = [pc EXCEPT ![s] =
                        IF Len(todo[s]) = 1 /\ ~Scripted THEN "asking" ELSE "calling"]
                 /\ UNCHANGED <<turns, permits>>
    BY <1>8 DEF Execute
  <2>3. CASE Len(todo[s]) = 1 /\ ~Scripted /\ Capped(s)
    <3>1. Reset(s) /\ permits' = permits + 1 /\ turns' = [turns EXCEPT ![s] = 0]
      BY <2>1, <2>2, <2>3 DEF Return, Released, Reset
    <3> QED
      BY <1>6, <3>1
  <2>4. CASE ~(Len(todo[s]) = 1 /\ ~Scripted /\ Capped(s))
    <3>1. /\ tool_calls' = [tool_calls EXCEPT ![s] = Append(@, out.record)]
          /\ todo' = [todo EXCEPT ![s] = Tail(@)]
          /\ pc' = [pc EXCEPT ![s] =
                IF Len(todo[s]) = 1 /\ ~Scripted THEN "asking" ELSE "calling"]
          /\ UNCHANGED <<turns, permits>>
      BY <2>2, <2>4
    <3>2. Active' = Active
      BY <2>1, <3>1 DEF Active, SessionsInv, StateType
    <3>3. opts' = opts /\ Scripted' = Scripted
      BY <2>1 DEF runVars, Scripted
    <3>4. /\ Len(todo'[s]) = Len(todo[s]) - 1 /\ Len(todo[s]) \in Nat \ {0}
          /\ Len(tool_calls'[s]) = Len(tool_calls[s]) + 1 /\ Len(tool_calls[s]) \in Nat
          /\ Len(todo[s]) = 1 => todo'[s] = <<>>
      <4>1. todo[s] \in Seq(ToolCall \cup {malformed}) /\ tool_calls[s] \in Seq(CallRecord)
        BY DEF SessionsInv, StateType
      <4>2. todo'[s] = Tail(todo[s]) /\ tool_calls'[s] = Append(tool_calls[s], out.record)
        BY <3>1 DEF SessionsInv, StateType
      <4>3. Len(tool_calls'[s]) = Len(tool_calls[s]) + 1 /\ Len(tool_calls[s]) \in Nat
        BY <4>1, <4>2, AppendLength
      <4>4. Len(todo'[s]) = Len(todo[s]) - 1 /\ Len(todo[s]) \in Nat \ {0}
        BY <2>1, <4>1, <4>2
      <4>5. Tail(todo[s]) \in Seq(ToolCall \cup {malformed})
        BY <2>1, <4>1
      <4>6. Len(todo[s]) = 1 => todo'[s] = <<>>
        <5>1. todo'[s] \in Seq(ToolCall \cup {malformed})
          BY <4>2, <4>5
        <5>2. todo'[s] # <<>> => Len(todo'[s]) \in Nat \ {0}
          BY <5>1, EmptySeq
        <5> QED
          BY <4>4, <5>2
      <4> QED
        BY <4>3, <4>4, <4>6
    <3>5. pc'[s] = "asking" => turns[s] < opts.max_turns /\ todo'[s] = <<>>
      <4>1. pc'[s] = "asking" => Len(todo[s]) = 1 /\ ~Scripted
        BY <3>1 DEF SessionsInv, StateType
      <4>2. turns[s] \in Nat /\ turns[s] <= opts.max_turns
        BY DEF Turns
      <4>3. opts.max_turns \in Nat
        BY OptionsType
      <4>4. pc'[s] = "asking" => turns[s] # opts.max_turns
        BY <2>4, <4>1 DEF Capped
      <4> QED
        BY <3>4, <4>1, <4>2, <4>3, <4>4
    <3>6. ASSUME NEW r \in Scenarios
          PROVE  /\ Len(todo'[r]) + Len(tool_calls'[r]) <= MaxCalls \/ Scripted
                 /\ pc'[r] = "asking" => turns[r] < opts.max_turns /\ todo'[r] = <<>>
      <4>1. CASE r = s
        <5>1. Len(todo[s]) + Len(tool_calls[s]) <= MaxCalls \/ Scripted
          BY DEF Turns
        <5>2. Len(todo'[s]) + Len(tool_calls'[s]) = Len(todo[s]) + Len(tool_calls[s])
          <6> HIDE DEF Bookkeeping
          <6>1. \A a \in Nat, b \in Nat : (a - 1) + (b + 1) = a + b
            OBVIOUS
          <6> QED
            BY <3>4, <6>1, Zenon
        <5>3. Len(todo'[s]) + Len(tool_calls'[s]) <= MaxCalls \/ Scripted
          BY <5>1, <5>2
        <5> QED
          BY <3>5, <4>1, <5>3
      <4>2. CASE r # s
        BY <3>1, <4>2 DEF Turns, SessionsInv, StateType
      <4> QED
        BY <4>1, <4>2
    <3> QED
      BY <3>1, <3>2, <3>3, <3>6, PermitsStay DEF Turns
  <2> QED
    BY <2>3, <2>4
<1> QED
  BY <1>1, <1>2, <1>3, <1>4, <1>5, <1>7, <1>8 DEF Next, Turn

\* run_eval and the semaphore of evals/runner.py: for any number of scenarios and any
\* concurrency each scenario under way holds one permit and no other holds any, also
\* after a run that failed, and no agent outruns its cap of turns.
THEOREM PermitsAndTurns == Spec => []TypeOK
<1>1. Init => Bookkeeping
  <2> SUFFICES ASSUME Init PROVE Bookkeeping
    OBVIOUS
  <2>1. /\ opts.max_turns \in Nat \ {0} /\ opts.concurrency \in Int
        /\ opts.variants \in Seq({BASELINE, PROXY}) /\ opts.variants # <<>>
    BY BoundsAssumption DEF Init
  <2>2. RunType
    BY <2>1, BoundsAssumption DEF Init, RunType
  <2>3. Permits
    <3>1. Active = {}
      BY DEF Init, Active
    <3>2. permits = opts.concurrency /\ Cardinality(Active) = 0
      BY <3>1, FS_EmptySet DEF Init
    <3> QED
      BY <2>1, <3>2 DEF Permits, Refused
  <2>4. Turns
    <3>1. /\ turns = [s \in Scenarios |-> 0] /\ pc = [s \in Scenarios |-> "queued"]
          /\ \A s \in Scenarios : todo[s] = <<>> /\ tool_calls[s] = <<>>
      BY DEF Init
    <3>2. MaxCalls \in Nat
      BY BoundsAssumption
    <3>3. ASSUME NEW s \in Scenarios
          PROVE  Len(todo[s]) + Len(tool_calls[s]) <= MaxCalls
      <4>1. Len(todo[s]) = 0 /\ Len(tool_calls[s]) = 0
        BY <3>1
      <4> QED
        BY <3>2, <4>1
    <3>4. opts.max_turns \in Nat \ {0}
      BY <2>1
    <3>5. ASSUME NEW s \in Scenarios
          PROVE  /\ turns[s] <= opts.max_turns
                 /\ s \notin Active => turns[s] = 0
                 /\ Len(todo[s]) + Len(tool_calls[s]) <= MaxCalls \/ Scripted
                 /\ pc[s] = "asking" => turns[s] < opts.max_turns /\ todo[s] = <<>>
      <4>1. turns[s] = 0 /\ pc[s] = "queued"
        BY <3>1
      <4>2. turns[s] <= opts.max_turns
        BY <3>4, <4>1
      <4> QED
        BY <3>3, <4>1, <4>2
    <3> QED
      BY <3>1, <3>5 DEF Turns
  <2> QED
    BY <2>2, <2>3, <2>4, SessionsInitially DEF Bookkeeping
<1>2. Bookkeeping /\ [Next]_vars => Bookkeeping'
  BY SessionsKept, RunTypeKept, PermitsKept DEF Bookkeeping
<1>3. Bookkeeping => TypeOK
  <2> SUFFICES ASSUME Bookkeeping PROVE TypeOK
    OBVIOUS
  <2>1. \A s \in Scenarios : turns[s] \in 0..opts.max_turns
    <3>1. opts.max_turns \in Nat
      BY OptionsType DEF Bookkeeping
    <3>2. \A s \in Scenarios : turns[s] \in Nat /\ turns[s] <= opts.max_turns
      BY DEF Bookkeeping, Turns
    <3> QED
      BY <3>1, <3>2
  <2> QED
    BY <2>1 DEF Bookkeeping, RunType, Permits, Turns, SessionsInv, StateType, TypeOK
<1> QED
  BY <1>1, <1>2, <1>3, PTL DEF Spec
-----------------------------------------------------------------------------
(* What a run reports.                                                     *)

\* The judgement of a planned answer with claims of its own: its check that all
\* claims are grounded fails if and only if one of them was found invented.
AsPlanned(s, n, result) ==
    <<s, n>> \in DOMAIN Plan /\ OwnClaims(s, Plan[<<s, n>>].answer) # {} =>
        \A c \in Checks[s] : c.name = "all_claims_grounded" =>
            (c \in result.failed <=> result.fabricated # {})

Collected ==
    /\ results = [n \in {BASELINE, PROXY} |-> results[n]]
    /\ \A n \in {BASELINE, PROXY} : DOMAIN results[n] \subseteq Scenarios

\* The variants before this one are complete, of this one the scenarios judged are
\* there, and a report waits for all of them.
Complete ==
    /\ \A i \in 1..(variant - 1) : DOMAIN results[opts.variants[i]] = Scenarios
    /\ phase \in {"gathering", "reported"} =>
        \A s \in Scenarios : pc[s] = "judged" => s \in DOMAIN results[Name]
    /\ phase = "reported" =>
        /\ Gathered /\ variant = Len(opts.variants)
        /\ Scripted /\ exit = 0 => self_check_mismatches = {} /\ Verdicts # {}

\* The scripted agent asks no model and sends no malformed call: every scenario
\* ends with its planned answer.
FollowsPlan ==
    Scripted =>
        /\ \A s \in Scenarios : pc[s] # "asking" /\ todo[s] \in Seq(ToolCall)
        /\ \A n \in {BASELINE, PROXY} : \A s \in DOMAIN results[n] :
            AsPlanned(s, n, results[n][s])

ReportInv == SessionsInv /\ RunType /\ Collected /\ Complete /\ FollowsPlan

\* The judge calls a claim invented or something else, and only one that the user
\* made is not among those that all_claims_grounded weighs.
LEMMA InventedFails ==
    ASSUME NEW s, NEW answer, NEW failure, NEW called, NEW session,
           OwnClaims(s, answer) # {},
           NEW c \in Checks[s], c.name = "all_claims_grounded"
    PROVE  LET e == Evaluate(s, [answer |-> answer, tool_calls |-> called,
                                 failure |-> failure], session)
           IN  c \in e.failed <=> e.fabricated # {}
<1> DEFINE transcript == [answer |-> answer, tool_calls |-> called, failure |-> failure]
           index == build_grounding_index(result_payloads(transcript))
           report == check_groundedness(answer, result_payloads(transcript),
                AssumedValues(session), Assuming(s, session), Said[s])
           e == Evaluate(s, transcript, session)
<1>1. /\ e.failed = failed_checks(Checks[s], transcript, report)
      /\ e.fabricated = fabricated(report)
  BY DEF Evaluate
<1>2. PICK v \in Claimed(answer) : ~_stated_by_user(v, Said[s])
  BY DEF OwnClaims
<1>3. report.status = [w \in Claimed(answer) |->
        ClaimStatus(index, AssumedValues(session), Said[s], w)]
  BY DEF check_groundedness
<1>4. ClaimStatus(index, AssumedValues(session), Said[s], v) # "user_stated"
  BY <1>2 DEF ClaimStatus
<1> HIDE DEF index, report, transcript, e
<1>5. v \in checkable(report)
  BY <1>2, <1>3, <1>4 DEF checkable, Having
<1>6. Passed(c, transcript, report) <=> fabricated(report) = {}
  BY <1>5 DEF Passed, AllClaimsGrounded
<1>7. c \in e.failed <=> e.fabricated # {}
  BY <1>1, <1>6 DEF failed_checks
<1> QED
  BY <1>7 DEF e, transcript

\* The result of scenario s joins those of the variant under way.
Gains(s, result) ==
    results' = [results EXCEPT ![Name] =
        [q \in DOMAIN @ \cup {s} |-> IF q = s THEN result ELSE @[q]]]

LEMMA GainedResults ==
    ASSUME SessionsInv, Collected, NEW s \in Scenarios, NEW result, Gains(s, result)
    PROVE  /\ Collected'
           /\ \A n \in {BASELINE, PROXY} : n # Name => results'[n] = results[n]
           /\ DOMAIN results'[Name] = DOMAIN results[Name] \cup {s}
           /\ results'[Name][s] = result
           /\ \A q \in DOMAIN results[Name] : q # s => results'[Name][q] = results[Name][q]
<1>1. Name \in {BASELINE, PROXY}
  BY NameType DEF SessionsInv
<1> DEFINE more == [q \in DOMAIN results[Name] \cup {s} |->
                        IF q = s THEN result ELSE results[Name][q]]
<1>2. results' = [results EXCEPT ![Name] = more]
  BY DEF Gains
<1>3. /\ DOMAIN more = DOMAIN results[Name] \cup {s} /\ more[s] = result
      /\ \A q \in DOMAIN results[Name] : q # s => more[q] = results[Name][q]
  OBVIOUS
<1> HIDE DEF more
<1>4. /\ results'[Name] = more
      /\ \A n \in {BASELINE, PROXY} : n # Name => results'[n] = results[n]
      /\ results' = [n \in {BASELINE, PROXY} |-> results'[n]]
  BY <1>1, <1>2 DEF Collected
<1>5. Collected'
  <2>1. \A n \in {BASELINE, PROXY} : DOMAIN results'[n] \subseteq Scenarios
    BY <1>1, <1>3, <1>4 DEF Collected
  <2> QED
    BY <1>4, <2>1 DEF Collected
<1> QED
  BY <1>3, <1>4, <1>5

\* A scenario of the variant returns, its result as planned where there was a plan.
LEMMA ReturnCollects ==
    ASSUME ReportInv, NEW s \in Scenarios, NEW result, Reset(s), Gains(s, result),
           Scripted => AsPlanned(s, Name, result)
    PROVE  (Collected /\ Complete /\ FollowsPlan)'
<1>1. /\ phase = "gathering" /\ UNCHANGED <<opts, phase, exit, variant>>
      /\ Name' = Name /\ Scripted' = Scripted
  BY DEF Reset, runVars, Name, Scripted
<1>2. /\ \A r \in Scenarios : pc'[r] = "judged" => r = s \/ pc[r] = "judged"
      /\ \A r \in Scenarios : pc'[r] = "asking" => pc[r] = "asking"
      /\ \A r \in Scenarios : todo'[r] = <<>> \/ todo'[r] = todo[r]
  BY DEF Reset, ReportInv, SessionsInv, StateType
<1>3. /\ Collected'
      /\ \A n \in {BASELINE, PROXY} : n # Name => results'[n] = results[n]
      /\ DOMAIN results'[Name] = DOMAIN results[Name] \cup {s}
      /\ results'[Name][s] = result
      /\ \A q \in DOMAIN results[Name] : q # s => results'[Name][q] = results[Name][q]
  BY GainedResults DEF ReportInv
<1>4. Complete'
  <2>1. opts.variants \in Seq({BASELINE, PROXY}) /\ variant \in 1..Len(opts.variants)
    BY BoundsAssumption DEF ReportInv, RunType
  <2>2. ASSUME NEW i \in 1..(variant - 1)
        PROVE  DOMAIN results'[opts.variants[i]] = Scenarios
    <3>1. opts.variants[i] \in {BASELINE, PROXY} /\ DOMAIN results[opts.variants[i]] = Scenarios
      BY <2>1 DEF ReportInv, Complete
    <3> QED
      BY <1>3, <3>1
  <2>3. \A r \in Scenarios : pc'[r] = "judged" => r \in DOMAIN results'[Name]
    BY <1>1, <1>2, <1>3 DEF ReportInv, Complete
  <2> QED
    BY <1>1, <2>2, <2>3 DEF Complete
<1>5. FollowsPlan'
  <2> SUFFICES ASSUME Scripted
               PROVE  /\ \A r \in Scenarios : pc'[r] # "asking" /\ todo'[r] \in Seq(ToolCall)
                      /\ \A n \in {BASELINE, PROXY} : \A r \in DOMAIN results'[n] :
                            AsPlanned(r, n, results'[n][r])
    BY <1>1 DEF FollowsPlan, AsPlanned
  <2>1. <<>> \in Seq(ToolCall)
    OBVIOUS
  <2>2. ASSUME NEW n \in {BASELINE, PROXY}, NEW r \in DOMAIN results'[n]
        PROVE  AsPlanned(r, n, results'[n][r])
    <3>1. CASE n # Name \/ r # s
      <4>1. r \in DOMAIN results[n] /\ results'[n][r] = results[n][r]
        BY <1>3, <2>2, <3>1
      <4> QED
        BY <4>1 DEF ReportInv, FollowsPlan
    <3>2. CASE n = Name /\ r = s
      BY <1>3, <3>2
    <3> QED
      BY <3>1, <3>2
  <2> QED
    BY <1>2, <2>1, <2>2 DEF ReportInv, FollowsPlan
<1> QED
  BY <1>3, <1>4, <1>5

\* A step of the variant under way that no result comes from.
LEMMA OngoingKeeps ==
    ASSUME ReportInv, UNCHANGED <<opts, variant, phase, results>>, phase = "gathering",
           \A r \in Scenarios : pc'[r] = "judged" => pc[r] = "judged",
           Scripted => \A r \in Scenarios : pc'[r] # "asking" /\ todo'[r] \in Seq(ToolCall)
    PROVE  (Collected /\ Complete /\ FollowsPlan)'
<1>1. Name' = Name /\ Scripted' = Scripted
  BY DEF Name, Scripted
<1>2. Collected'
  BY DEF ReportInv, Collected
<1>3. Complete'
  BY <1>1 DEF ReportInv, Complete
<1>4. FollowsPlan'
  BY <1>1 DEF ReportInv, FollowsPlan, AsPlanned
<1> QED
  BY <1>2, <1>3, <1>4

\* agent.run returns: the result of the scenario is the judgement of its transcript.
LEMMA ReturnGains ==
    ASSUME NEW s, NEW answer, NEW failure, NEW called, NEW session,
           Return(s, answer, failure, called, session)
    PROVE  Gains(s, Evaluate(s, [answer |-> answer, tool_calls |-> called,
                                 failure |-> failure], session))
  BY DEF Return, Gains

LEMMA NotMalformed == malformed \notin ToolCall
<1> SUFFICES ASSUME malformed \in ToolCall PROVE FALSE
  OBVIOUS
<1>1. DOMAIN malformed = {"name", "dated", "filter", "assume", "draft"}
  BY DEF ToolCall
<1>2. DOMAIN malformed = {"name"}
  BY DEF malformed
<1> QED
  BY <1>1, <1>2

LEMMA ExecuteCollects ==
    ASSUME ReportInv, NEW s \in Scenarios, Execute(s)
    PROVE  (Collected /\ Complete /\ FollowsPlan)'
<1>1. /\ phase = "gathering" /\ pc[s] = "calling" /\ todo[s] # <<>>
      /\ UNCHANGED runVars
  BY DEF Execute, Running
<1>2. PICK out \in dispatch(s, premises[scope[s]], Head(todo[s])) :
        LET called == Append(tool_calls[s], out.record)
        IN  IF Len(todo[s]) = 1 /\ ~Scripted /\ Capped(s)
            THEN Return(s, EmptyAnswer, "turn_cap", called, out.session)
            ELSE /\ todo' = [todo EXCEPT ![s] = Tail(@)]
                 /\ pc' = [pc EXCEPT ![s] =
                        IF Len(todo[s]) = 1 /\ ~Scripted THEN "asking" ELSE "calling"]
                 /\ UNCHANGED results
  BY DEF Execute
<1>3. CASE Len(todo[s]) = 1 /\ ~Scripted /\ Capped(s)
  <2> DEFINE called == Append(tool_calls[s], out.record)
             e == Evaluate(s, [answer |-> EmptyAnswer, tool_calls |-> called,
                               failure |-> "turn_cap"], out.session)
  <2>1. Return(s, EmptyAnswer, "turn_cap", called, out.session)
    BY <1>2, <1>3
  <2>2. Reset(s)
    BY <1>1, <2>1 DEF Return, Reset
  <2>3. Gains(s, e)
    BY <2>1, ReturnGains
  <2> HIDE DEF e
  <2> QED
    BY <1>3, <2>2, <2>3, ReturnCollects
<1>4. CASE ~(Len(todo[s]) = 1 /\ ~Scripted /\ Capped(s))
  <2>1. /\ todo' = [todo EXCEPT ![s] = Tail(todo[s])]
        /\ pc' = [pc EXCEPT ![s] =
                IF Len(todo[s]) = 1 /\ ~Scripted THEN "asking" ELSE "calling"]
        /\ UNCHANGED results
    BY <1>2, <1>4
  <2>2. \A r \in Scenarios : pc'[r] = "judged" => pc[r] = "judged"
    BY <2>1 DEF ReportInv, SessionsInv, StateType
  <2>3. ASSUME Scripted, NEW r \in Scenarios
        PROVE  pc'[r] # "asking" /\ todo'[r] \in Seq(ToolCall)
    <3>1. \A q \in Scenarios : pc[q] # "asking" /\ todo[q] \in Seq(ToolCall)
      BY <2>3 DEF ReportInv, FollowsPlan
    <3>2. Tail(todo[s]) \in Seq(ToolCall)
      BY <1>1, <3>1
    <3> QED
      BY <2>1, <2>3, <3>1, <3>2 DEF ReportInv, SessionsInv, StateType
  <2> QED
    BY <1>1, <2>1, <2>2, <2>3, OngoingKeeps DEF runVars
<1> QED
  BY <1>3, <1>4

\* An agent with a model answers, fails or is refused; the scripted one plays its plan.
LEMMA LeaveCollects ==
    ASSUME ReportInv, NEW s \in Scenarios,
           RespondAnswer(s) \/ RespondRefusal(s) \/ RequestFails(s)
                \/ ExecuteRaises(s) \/ AnswerPlanned(s)
    PROVE  (Collected /\ Complete /\ FollowsPlan)'
<1>1. PICK answer, failure : /\ Leave(s, answer, failure)
                             /\ pc[s] = "asking" \/ ExecuteRaises(s) \/ AnswerPlanned(s)
                             /\ AnswerPlanned(s) => answer = ThePlan(s).answer
  BY DEF RespondAnswer, RespondRefusal, RequestFails, ExecuteRaises, AnswerPlanned, Running
<1> DEFINE e == Evaluate(s, [answer |-> answer, tool_calls |-> tool_calls[s],
                             failure |-> failure], premises[scope[s]])
<1>2. Gains(s, e)
  BY <1>1, ReturnGains DEF Leave
<1>3. Reset(s)
  BY DEF RespondAnswer, RespondRefusal, RequestFails, ExecuteRaises, AnswerPlanned,
         Leave, Return, Reset, Running
<1>4. ASSUME Scripted PROVE AsPlanned(s, Name, e)
  <2>1. pc[s] # "asking" /\ todo[s] \in Seq(ToolCall)
    BY <1>4 DEF ReportInv, FollowsPlan
  <2>2. ~ExecuteRaises(s)
    <3>1. todo[s] # <<>> => Head(todo[s]) \in ToolCall
      BY <2>1
    <3> QED
      BY <3>1, NotMalformed DEF ExecuteRaises
  <2>3. <<s, Name>> \in DOMAIN Plan => answer = Plan[<<s, Name>>].answer
    BY <1>1, <2>1, <2>2 DEF ThePlan
  <2>4. ASSUME OwnClaims(s, answer) # {},
               NEW c \in Checks[s], c.name = "all_claims_grounded"
        PROVE  c \in e.failed <=> e.fabricated # {}
    BY <2>4, InventedFails
  <2> HIDE DEF e
  <2> QED
    BY <2>3, <2>4 DEF AsPlanned
<1> HIDE DEF e
<1> QED
  BY <1>2, <1>3, <1>4, ReturnCollects

LEMMA CollectsOn == ASSUME ReportInv, [Next]_vars PROVE (Collected /\ Complete /\ FollowsPlan)'
<1>1. CASE Refuse \/ Connect \/ ConnectFails \/ ReportFails
  <2>1. /\ phase' \in {"surface", "aborted"} /\ UNCHANGED <<opts, variant, pc, todo, results>>
        /\ Name' = Name /\ Scripted' = Scripted
    BY <1>1 DEF Refuse, Connect, ConnectFails, ReportFails, agentVars, Name, Scripted
  <2> QED
    BY <2>1 DEF ReportInv, Collected, Complete, FollowsPlan, AsPlanned
<1>2. CASE MeasureSurface
  <2>1. /\ phase' = "gathering" /\ pc' = [s \in Scenarios |-> "queued"]
        /\ UNCHANGED <<opts, variant, todo, results>>
        /\ Name' = Name /\ Scripted' = Scripted
    BY <1>2 DEF MeasureSurface, Name, Scripted
  <2>2. \A s \in Scenarios : pc'[s] = "queued"
    BY <2>1
  <2> QED
    BY <2>1, <2>2 DEF ReportInv, Collected, Complete, FollowsPlan, AsPlanned
<1>3. CASE NextVariant
  <2>1. /\ phase = "gathering" /\ Gathered /\ phase' = "surface" /\ variant' = variant + 1
        /\ UNCHANGED <<opts, pc, todo, results>> /\ Scripted' = Scripted
    BY <1>3 DEF NextVariant, agentVars, Scripted
  <2>2. variant \in Nat /\ Name \in {BASELINE, PROXY}
    BY OptionsType DEF ReportInv, RunType
  <2>3. DOMAIN results[Name] = Scenarios
    BY <2>1, <2>2 DEF Gathered, ReportInv, Collected, Complete
  <2>4. \A i \in 1..variant : DOMAIN results[opts.variants[i]] = Scenarios
    <3>1. \A i \in 1..variant : i = variant \/ i \in 1..(variant - 1)
      BY <2>2
    <3> QED
      BY <2>3, <3>1 DEF ReportInv, Complete, Name
  <2>5. (variant + 1) - 1 = variant
    BY <2>2
  <2>6. Complete'
    BY <2>1, <2>4, <2>5 DEF Complete
  <2> QED
    BY <2>1, <2>6 DEF ReportInv, Collected, FollowsPlan, AsPlanned
<1>4. CASE Report
  <2>1. /\ phase = "gathering" /\ phase' = "reported"
        /\ Gathered /\ variant = Len(opts.variants)
        /\ exit' = IF Scripted /\ (self_check_mismatches # {} \/ Verdicts = {}) THEN 1 ELSE 0
        /\ UNCHANGED <<opts, variant, pc, todo, results>>
    BY <1>4 DEF Report, agentVars
  <2>2. /\ Name' = Name /\ Scripted' = Scripted /\ Gathered' = Gathered
        /\ Verdicts' = Verdicts
    BY <2>1 DEF Name, Scripted, Gathered, Verdicts
  <2>3. self_check_mismatches' = self_check_mismatches
    BY <2>1, <2>2 DEF self_check_mismatches
  <2>4. Complete'
    BY <2>1, <2>2, <2>3 DEF ReportInv, Complete
  <2> QED
    BY <2>1, <2>2, <2>4 DEF ReportInv, Collected, FollowsPlan, AsPlanned
<1>5. ASSUME NEW s \in Scenarios, Acquire(s)
      PROVE  (Collected /\ Complete /\ FollowsPlan)'
  <2>1. /\ phase = "gathering" /\ UNCHANGED <<opts, variant, phase, results>>
        /\ pc' = [pc EXCEPT ![s] = IF Scripted THEN "calling" ELSE "asking"]
        /\ todo' = [todo EXCEPT ![s] = IF Scripted THEN ThePlan(s).calls ELSE <<>>]
    BY <1>5 DEF Acquire
  <2>2. \A r \in Scenarios : pc'[r] = "judged" => pc[r] = "judged"
    BY <2>1 DEF ReportInv, SessionsInv, StateType
  <2>3. ThePlan(s).calls \in Seq(ToolCall)
    BY InputsAssumption DEF ThePlan
  <2>4. Scripted => \A r \in Scenarios : pc'[r] # "asking" /\ todo'[r] \in Seq(ToolCall)
    BY <2>1, <2>3 DEF ReportInv, FollowsPlan, SessionsInv, StateType
  <2> QED
    BY <2>1, <2>2, <2>4, OngoingKeeps
<1>6. ASSUME NEW s \in Scenarios, Crash(s)
      PROVE  (Collected /\ Complete /\ FollowsPlan)'
  <2>1. /\ phase' = "aborted" /\ ~Scripted /\ UNCHANGED <<opts, variant, results>>
        /\ Scripted' = Scripted
    BY <1>6 DEF Crash, Scripted
  <2> QED
    BY <2>1 DEF ReportInv, Collected, Complete, FollowsPlan
<1>7. ASSUME NEW s \in Scenarios, RespondCalls(s)
      PROVE  (Collected /\ Complete /\ FollowsPlan)'
  <2>1. /\ phase = "gathering" /\ pc[s] = "asking"
        /\ UNCHANGED <<opts, variant, phase, results>>
        /\ pc' = [pc EXCEPT ![s] = "calling"]
    BY <1>7 DEF RespondCalls, Running, runVars
  <2>2. \A r \in Scenarios : pc'[r] = "judged" => pc[r] = "judged"
    BY <2>1 DEF ReportInv, SessionsInv, StateType
  <2>3. ~Scripted
    BY <2>1 DEF ReportInv, FollowsPlan
  <2> QED
    BY <2>1, <2>2, <2>3, OngoingKeeps
<1>8. CASE UNCHANGED vars
  <2>1. /\ UNCHANGED <<opts, phase, exit, variant, pc, todo, results>>
        /\ Name' = Name /\ Scripted' = Scripted /\ Gathered' = Gathered
        /\ Verdicts' = Verdicts
    BY <1>8 DEF vars, agentVars, Name, Scripted, Gathered, Verdicts
  <2>2. self_check_mismatches' = self_check_mismatches
    BY <2>1 DEF self_check_mismatches
  <2>3. Complete'
    BY <2>1, <2>2 DEF ReportInv, Complete
  <2> QED
    BY <2>1, <2>3 DEF ReportInv, Collected, FollowsPlan, AsPlanned
<1> QED
  BY <1>1, <1>2, <1>3, <1>4, <1>5, <1>6, <1>7, <1>8, ExecuteCollects, LeaveCollects
     DEF Next, Turn

\* run_evals and self_check_verdicts: whatever the scenarios, plans and options, a run
\* reports a result for every scenario on every variant it was asked for, and a
\* self-check that exits with 0 judged every planned answer as planned, one with an
\* invented claim in it never as grounded.
THEOREM ReportsHonestly == Spec => []ReportHonest
<1>1. Init => ReportInv
  <2> SUFFICES ASSUME Init PROVE ReportInv
    OBVIOUS
  <2>1. opts.variants \in Seq({BASELINE, PROXY}) /\ opts.variants # <<>>
    BY BoundsAssumption DEF Init
  <2>2. RunType
    BY <2>1, BoundsAssumption DEF Init, RunType
  <2>3. \A n \in {BASELINE, PROXY} : DOMAIN results[n] = {}
    BY DEF Init
  <2>4. Collected
    BY <2>3 DEF Init, Collected
  <2>5. Complete
    BY DEF Init, Complete
  <2>6. FollowsPlan
    <3>1. <<>> \in Seq(ToolCall)
      OBVIOUS
    <3> QED
      BY <2>3, <3>1 DEF Init, FollowsPlan
  <2> QED
    BY <2>2, <2>4, <2>5, <2>6, SessionsInitially DEF ReportInv
<1>2. ReportInv /\ [Next]_vars => ReportInv'
  BY SessionsKept, RunTypeKept, CollectsOn DEF ReportInv
<1>3. ReportInv => ReportHonest
  <2> SUFFICES ASSUME ReportInv, phase = "reported" PROVE ReportHonest
    BY DEF ReportHonest
  <2>1. /\ Gathered /\ variant = Len(opts.variants)
        /\ Scripted /\ exit = 0 => self_check_mismatches = {} /\ Verdicts # {}
    BY DEF ReportInv, Complete
  <2>2. /\ variant \in Nat \ {0} /\ DOMAIN opts.variants = 1..variant
        /\ Name \in {BASELINE, PROXY}
    <3>1. opts.variants \in Seq({BASELINE, PROXY})
      BY BoundsAssumption DEF ReportInv, RunType
    <3> QED
      BY <2>1, <3>1, OptionsType DEF ReportInv
  <2>3. ASSUME NEW i \in DOMAIN opts.variants
        PROVE  DOMAIN results[opts.variants[i]] = Scenarios
    <3>1. DOMAIN results[Name] = Scenarios
      BY <2>1, <2>2 DEF Gathered, ReportInv, Collected, Complete
    <3>2. i = variant \/ i \in 1..(variant - 1)
      BY <2>2
    <3> QED
      BY <3>1, <3>2 DEF ReportInv, Complete, Name
  <2>4. ASSUME Scripted, exit = 0, NEW p \in Verdicts
        PROVE  /\ success(results[p[2]][p[1]]) <=> SELF_CHECK[p] = {}
               /\ OwnClaims(p[1], Plan[p].answer) # {} =>
                    \A c \in Checks[p[1]] : c.name = "all_claims_grounded" =>
                        (c \in SELF_CHECK[p] <=> results[p[2]][p[1]].fabricated # {})
    <3> DEFINE r == results[p[2]][p[1]]
    <3>1. r.failed = SELF_CHECK[p] /\ r.failure = None
      BY <2>1, <2>4 DEF self_check_mismatches
    <3>2. /\ p \in DOMAIN SELF_CHECK
          /\ \E i \in DOMAIN opts.variants : opts.variants[i] = p[2]
      BY DEF Verdicts
    <3>3. p \in DOMAIN Plan \cap (Scenarios \X {BASELINE, PROXY})
      BY <2>4, <3>2, SelfCheckAssumption DEF Scripted, ReportInv, RunType
    <3>4. p = <<p[1], p[2]>> /\ p[1] \in Scenarios /\ p[2] \in {BASELINE, PROXY}
      BY <3>3
    <3>5. p[1] \in DOMAIN results[p[2]]
      BY <2>3, <3>2, <3>4
    <3>6. AsPlanned(p[1], p[2], r)
      BY <2>4, <3>4, <3>5 DEF ReportInv, FollowsPlan
    <3> HIDE DEF r
    <3>7. success(r) <=> SELF_CHECK[p] = {}
      BY <3>1 DEF success
    <3>8. OwnClaims(p[1], Plan[p].answer) # {} =>
            \A c \in Checks[p[1]] : c.name = "all_claims_grounded" =>
                (c \in SELF_CHECK[p] <=> r.fabricated # {})
      BY <3>1, <3>3, <3>4, <3>6 DEF AsPlanned
    <3> QED
      BY <3>7, <3>8 DEF r
  <2> QED
    BY <2>1, <2>3, <2>4 DEF ReportHonest
<1> QED
  BY <1>1, <1>2, <1>3, PTL DEF Spec
=============================================================================
