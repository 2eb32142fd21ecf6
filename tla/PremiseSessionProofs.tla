------------------------ MODULE PremiseSessionProofs ------------------------
(***************************************************************************)
(* Safety of PremiseSession for any number of concurrent calls, any        *)
(* policies, any budget and any results.  IInv is the inductive invariant; *)
(* the invariants the runs check follow from it.                           *)
(***************************************************************************)
EXTENDS PremiseSession, FiniteSetTheorems, WellFoundedInduction, TLAPS

\* A non-empty set of numbers has a least one.
LEMMA LeastNumber ==
  ASSUME NEW T, T \subseteq Nat, T # {}
  PROVE  \E i \in T : \A j \in T : i <= j
<1> DEFINE R == OpToRel(<, Nat)
<1>1. IsWellFoundedOn(R, Nat)
  BY NatLessThanWellFounded
<1>2. \A x, y \in T : y < x => <<y, x>> \in R
  BY DEF OpToRel
<1> HIDE DEF R
<1>3. PICK i \in T : \A j \in T : <<j, i>> \notin R
  BY <1>1, WFMin
<1>4. \A j \in T : ~(j < i) /\ j \in Nat /\ i \in Nat
  BY <1>2, <1>3
<1>5. QED
  BY <1>4

\* The gates spent are finitely many and within the budget.
GatedInv == IsFiniteSet(gated) /\ Cardinality(gated) <= MaxGates

\* A call that waits for the backend has every booked field among the
\* assumptions, and a call already answered has it in its preamble.
SlotInv(s) ==
  /\ stage[s] # "idle" => answer[s].kind = "none"
  /\ stage[s] = "sent" => booked[s] = {}
  /\ stage[s] = "pending" => \A f \in booked[s] : assumptions[f].how # "none"
  /\ answer[s].kind \in {"data", "error"} =>
       \A f \in booked[s] : \E vs \in SUBSET Values : <<f, vs>> \in answer[s].preamble

\* What the last assess_request found about the calls it speaks of, as it
\* stands now: "proceed" left nothing open, "drop" nothing but filters.
AdviceInv ==
  \A c \in planned :
    /\ verdict = "proceed" => Unsettled(seen, userRequest, c) = {}
    /\ verdict = "drop_invented_filters" =>
         \A f \in Unsettled(seen, userRequest, c) : Policy[c.tool][f] = "narrowing"

IInv ==
  /\ TypeOK
  /\ GatedInv
  /\ \A s \in Slots : SlotInv(s)
  /\ InventedNeverSeen
  /\ AdviceInv

-----------------------------------------------------------------------------
(* Operators of evaluate and of the preflight                              *)

\* More evidence never opens a field.
LEMMA EvidenceOnlySettles ==
  ASSUME NEW s, NEW t, s \subseteq t, NEW r, NEW c
  PROVE  Unsettled(t, r, c) \subseteq Unsettled(s, r, c)
BY DEF Unsettled, NarrowingOpen, HasSource

\* Without its unsettled filters a call has nothing unsettled.
LEMMA DroppingSettles ==
  ASSUME NEW s, NEW r, NEW c \in Calls,
         \A f \in Unsettled(s, r, c) : Policy[c.tool][f] = "narrowing"
  PROVE  Unsettled(s, r, Dropping(c, Unsettled(s, r, c))) = {}
<1> DEFINE open == Unsettled(s, r, c)
           d == Dropping(c, open)
<1>1. /\ d.tool = c.tool /\ d.sources = c.sources
      /\ d.assume = c.assume /\ d.blank = c.blank
      /\ \A f \in Fields : f \notin open => d.args[f] = c.args[f]
      /\ \A f \in open : ~d.args[f].given
  BY CallsAssumption DEF Dropping, Unsettled, Args
<1>2. ASSUME NEW f \in Fields, BlockingOpen(r, d, f) \/ NarrowingOpen(s, r, d, f)
      PROVE  FALSE
  <2>1. CASE f \in open
    BY <1>1, <1>2, <2>1 DEF BlockingOpen, NarrowingOpen
  <2>2. CASE f \notin open
    <3>1. ~BlockingOpen(r, c, f) /\ ~NarrowingOpen(s, r, c, f)
      BY <2>2 DEF Unsettled
    <3>2. QED
      BY <1>1, <1>2, <2>2, <3>1 DEF BlockingOpen, NarrowingOpen, Declared, HasSource
  <2>3. QED
    BY <2>1, <2>2
<1>3. QED
  BY <1>2 DEF Unsettled

\* A plan of which the probe gates no call leaves nothing unsettled: its first
\* call with a gap would meet a fresh gate and a fresh budget.
LEMMA NothingBlocked ==
  ASSUME NEW s, NEW r, NEW plan \in Plans, Blocked(s, r, plan) = {}
  PROVE  \A i \in 1..Len(plan) : Unsettled(s, r, plan[i]) = {}
<1> DEFINE T == {i \in 1..Len(plan) : Unsettled(s, r, plan[i]) # {}}
<1>1. Len(plan) \in Nat
  BY PlansAssumption
<1>2. SUFFICES ASSUME T # {}
               PROVE  FALSE
  OBVIOUS
<1>3. PICK i \in T : \A j \in T : i <= j
  <2>1. T \subseteq Nat
    BY <1>1
  <2> HIDE DEF T
  <2>2. QED
    BY <1>2, <2>1, LeastNumber
<1>4. ProbeKeys(s, r, plan, i) = {}
  <2>1. ASSUME NEW h \in 1..(i - 1), h \in T
        PROVE  FALSE
    <3>1. i <= h
      BY <1>3, <2>1
    <3>2. i \in Int /\ h \in Int /\ h <= i - 1
      BY <1>1
    <3>3. QED
      BY <3>1, <3>2
  <2>2. \A h \in 1..(i - 1) : Unsettled(s, r, plan[h]) = {}
    BY <1>1, <1>3, <2>1
  <2>3. QED
    BY <2>2 DEF ProbeKeys
<1>5. Cardinality({}) < MaxGates
  BY FS_EmptySet, BoundsAssumption
<1>6. i \in Blocked(s, r, plan)
  BY <1>3, <1>4, <1>5 DEF Blocked, Blocks
<1>7. QED
  BY <1>6

\* A verdict speaks of planned calls only, and says of them what AdviceInv keeps.
LEMMA VerdictSound ==
  ASSUME NEW s, NEW r, NEW plan \in Plans
  PROVE  /\ Verdict(s, r, plan) \in {"ask_user_first", "resolve_with_tool",
                                      "drop_invented_filters", "proceed"}
         /\ Advised(s, r, plan) \subseteq Calls
         /\ \A c \in Advised(s, r, plan) :
              /\ Verdict(s, r, plan) = "proceed" => Unsettled(s, r, c) = {}
              /\ Verdict(s, r, plan) = "drop_invented_filters" =>
                   \A f \in Unsettled(s, r, c) : Policy[c.tool][f] = "narrowing"
<1> DEFINE B == Blocked(s, r, plan)
           kinds == UNION {{Resolution(plan[i], f) : f \in Unsettled(s, r, plan[i])} : i \in B}
           v == Verdict(s, r, plan)
<1>1. v = IF r \in Contradictory \/ "ask_user" \in kinds THEN "ask_user_first"
          ELSE IF "call_tool" \in kinds THEN "resolve_with_tool"
          ELSE IF kinds # {} THEN "drop_invented_filters"
          ELSE "proceed"
  BY DEF Verdict
<1>2. B \subseteq 1..Len(plan) /\ \A i \in B : Unsettled(s, r, plan[i]) # {}
  BY DEF Blocked, Blocks
<1>3. \A i \in 1..Len(plan) : plan[i] \in Calls
  BY PlansAssumption
<1>4. Advised(s, r, plan) \subseteq Calls
  BY <1>2, <1>3 DEF Advised
<1>5. ASSUME v = "proceed", NEW c \in Advised(s, r, plan)
      PROVE  Unsettled(s, r, c) = {}
  <2>1. kinds = {}
    <3> HIDE DEF kinds
    <3> QED
      BY <1>1, <1>5
  <2>2. ASSUME NEW i \in B
        PROVE  FALSE
    <3>1. PICK f \in Unsettled(s, r, plan[i]) : TRUE
      BY <1>2
    <3>2. Resolution(plan[i], f) \in kinds
      BY <3>1
    <3>3. QED
      BY <2>1, <3>2
  <2>3. QED
    BY <1>5, <2>2, NothingBlocked DEF Advised
<1>6. ASSUME v = "drop_invented_filters", NEW c \in Advised(s, r, plan),
             NEW f \in Unsettled(s, r, c)
      PROVE  Policy[c.tool][f] = "narrowing"
  <2>1. PICK i \in B : c = plan[i]
    BY <1>6 DEF Advised
  <2>2. Resolution(plan[i], f) \in kinds
    BY <1>6, <2>1
  <2>3. Resolution(c, f) = "drop_filter"
    BY <1>1, <1>6, <2>1, <2>2 DEF Resolution
  <2>4. QED
    BY <2>3 DEF Resolution
<1>7. QED
  <2> HIDE DEF kinds
  <2> QED
    BY <1>1, <1>4, <1>5, <1>6

\* What evaluate writes into the assumptions is well-typed and only adds.
LEMMA AssumptionsGrow ==
  ASSUME NEW a \in [Fields -> Assumption], NEW c \in Calls, NEW open \in SUBSET Fields
  PROVE  /\ Declaring(a, c) \in [Fields -> Assumption]
         /\ Booking(a, c, open) \in [Fields -> Assumption]
         /\ \A f \in Fields : a[f].how # "none" =>
              Declaring(a, c)[f].how # "none" /\ Booking(a, c, open)[f].how # "none"
         /\ \A f \in Fields : a[f].how = "declared" =>
              Declaring(a, c)[f].how = "declared" /\ Booking(a, c, open)[f].how = "declared"
         /\ \A f \in open : Booking(a, c, open)[f].how # "none"
<1>1. \A f \in Fields : c.args[f].vals \subseteq Values
  BY CallsAssumption DEF Args
<1>2. \A f \in Fields, h \in {"declared", "booked"} :
        [how |-> h, vals |-> c.args[f].vals] \in Assumption
  BY <1>1 DEF Assumption
<1>3. QED
  BY <1>2 DEF Declaring, Booking, Assumption

\* A preamble names every assumed field.
LEMMA PreambleNames ==
  ASSUME NEW a \in [Fields -> Assumption]
  PROVE  /\ Preamble(a) \in Preambles
         /\ \A f \in Fields : a[f].how # "none" =>
              \E vs \in SUBSET Values : <<f, vs>> \in Preamble(a)
<1>1. \A f \in Fields : a[f].vals \in SUBSET Values
  BY DEF Assumption
<1>2. QED
  BY <1>1 DEF Preamble, Preambles

\* Past the cap or below it, what a result adds to seen_values is its own.
LEMMA IndexedBounds ==
  ASSUME NEW s, NEW vs, NEW t \in Indexed(s, vs)
  PROVE  s \subseteq t /\ t \subseteq s \cup vs
BY DEF Indexed

-----------------------------------------------------------------------------
(* What a step keeps                                                       *)

\* A step of slot s, as the other slots see it.
Elsewhere(s) ==
  \A d \in Slots \ {s} :
    /\ stage'[d] = stage[d] /\ call'[d] = call[d] /\ booked'[d] = booked[d]
    /\ answer'[d] = answer[d]

\* Assumptions only grow.
Growing ==
  /\ assumptions' \in [Fields -> Assumption]
  /\ \A f \in Fields : assumptions[f].how # "none" => assumptions'[f].how # "none"

\* The other slots' part of the invariant survives a step that only adds
\* assumptions.
LEMMA ElsewhereInv ==
  ASSUME TypeOK, NEW s \in Slots, Elsewhere(s), Growing,
         NEW d \in Slots \ {s}, SlotInv(d)
  PROVE  SlotInv(d)'
<1>1. booked[d] \subseteq Fields
  BY DEF TypeOK
<1>2. QED
  BY <1>1 DEF Elsewhere, Growing, SlotInv

\* The preflight's findings survive any step that only adds evidence.
LEMMA AdviceStands ==
  ASSUME AdviceInv, seen \subseteq seen', UNCHANGED <<userRequest, verdict, planned>>
  PROVE  AdviceInv'
<1>1. \A c \in planned : Unsettled(seen', userRequest, c) \subseteq Unsettled(seen, userRequest, c)
  BY EvidenceOnlySettles
<1>2. QED
  BY <1>1 DEF AdviceInv

-----------------------------------------------------------------------------
(* One lemma for each action                                               *)

\* Nothing is gated, assumed, seen or advised at first.
LEMMA InitInv == Init => IInv
<1> SUFFICES ASSUME Init PROVE IInv
  OBVIOUS
<1>1. TypeOK
  <2>1. NotAssumed \in Assumption
    BY DEF NotAssumed, Assumption
  <2>2. {} \in Preambles
    BY DEF Preambles
  <2>3. QED
    BY <2>1, <2>2 DEF Init, TypeOK, NoAnswer, Keys
<1>2. GatedInv
  BY FS_EmptySet, BoundsAssumption DEF Init, GatedInv
<1>3. \A s \in Slots : SlotInv(s)
  BY DEF Init, SlotInv, NoAnswer
<1>4. InventedNeverSeen /\ AdviceInv
  BY DEF Init, InventedNeverSeen, AdviceInv
<1>5. QED
  BY <1>1, <1>2, <1>3, <1>4 DEF IInv

\* A new call starts with nothing booked and nothing answered.
LEMMA SendInv ==
  ASSUME IInv, NEW s \in Slots, NEW c \in Calls, Send(s, c)
  PROVE  IInv'
<1>1. TypeOK /\ UNCHANGED <<seen, gated, assumptions, userRequest, verdict, planned>>
  BY DEF IInv, Send, session, advice
<1>2. /\ Elsewhere(s) /\ Growing
      /\ stage'[s] = "sent" /\ call'[s] = c /\ booked'[s] = {} /\ answer'[s] = NoAnswer
  BY <1>1 DEF Send, TypeOK, Elsewhere, Growing
<1>3. TypeOK'
  <2>1. /\ stage' \in [Slots -> {"idle", "sent", "pending"}]
        /\ booked' \in [Slots -> SUBSET Fields]
        /\ DOMAIN call' = Slots /\ DOMAIN answer' = Slots
    BY <1>1 DEF Send, TypeOK
  <2>2. \A d \in Slots : /\ stage'[d] # "idle" => call'[d] \in Calls
                         /\ answer'[d].kind \in {"none", "gate", "data", "error", "failed"}
                         /\ answer'[d].preamble \in Preambles
    BY <1>1, <1>2 DEF TypeOK, Elsewhere, NoAnswer, Preambles
  <2>3. QED
    BY <1>1, <2>1, <2>2 DEF TypeOK
<1>4. \A d \in Slots : SlotInv(d)'
  <2>1. SlotInv(s)'
    BY <1>2 DEF SlotInv, NoAnswer
  <2>2. QED
    BY <1>1, <1>2, <2>1, ElsewhereInv DEF IInv
<1>5. GatedInv' /\ InventedNeverSeen' /\ AdviceInv'
  BY <1>1, AdviceStands DEF IInv, GatedInv, InventedNeverSeen
<1>6. QED
  BY <1>3, <1>4, <1>5 DEF IInv

\* Clear and Release: the call goes out with what it left open on record.
LEMMA EvaluateInv ==
  ASSUME IInv, NEW s \in Slots, Clear(s) \/ Release(s)
  PROVE  IInv'
<1> DEFINE open == Unsettled(seen, userRequest, call[s])
<1>1. /\ TypeOK /\ SlotInv(s) /\ stage[s] = "sent" /\ call[s] \in Calls
      /\ UNCHANGED <<seen, gated, userRequest, call, answer, verdict, planned>>
  BY DEF IInv, Clear, Release, TypeOK, advice
<1>2. /\ Elsewhere(s) /\ Growing /\ stage'[s] = "pending"
      /\ booked' \in [Slots -> SUBSET Fields]
      /\ \A f \in booked'[s] : assumptions'[f].how # "none"
  <2>1. assumptions \in [Fields -> Assumption] /\ open \subseteq Fields
    BY <1>1 DEF TypeOK, Unsettled
  <2>2. CASE Clear(s)
    <3>1. /\ assumptions' = Declaring(assumptions, call[s])
          /\ stage' = [stage EXCEPT ![s] = "pending"] /\ booked' = booked
      BY <2>2 DEF Clear
    <3>2. Growing
      BY <1>1, <2>1, <3>1, AssumptionsGrow DEF Growing
    <3>3. booked[s] = {}
      BY <1>1 DEF SlotInv
    <3>4. QED
      BY <1>1, <3>1, <3>2, <3>3 DEF TypeOK, Elsewhere
  <2>3. CASE Release(s)
    <3> DEFINE a == Declaring(assumptions, call[s])
    <3>1. /\ assumptions' = Booking(a, call[s], open)
          /\ stage' = [stage EXCEPT ![s] = "pending"] /\ booked' = [booked EXCEPT ![s] = open]
      BY <2>3 DEF Release
    <3>2. /\ a \in [Fields -> Assumption]
          /\ \A f \in Fields : assumptions[f].how # "none" => a[f].how # "none"
      BY <1>1, <2>1, AssumptionsGrow
    <3>3. Growing /\ \A f \in open : assumptions'[f].how # "none"
      <4> HIDE DEF a, open
      <4> QED
        BY <1>1, <2>1, <3>1, <3>2, AssumptionsGrow DEF Growing
    <3>4. QED
      <4> HIDE DEF a, open
      <4> QED
        BY <1>1, <2>1, <3>1, <3>3 DEF TypeOK, Elsewhere
  <2>4. QED
    BY <2>2, <2>3
<1>3. TypeOK'
  <2>1. stage' \in [Slots -> {"idle", "sent", "pending"}]
    BY <1>1 DEF Clear, Release, TypeOK
  <2>2. \A d \in Slots : stage'[d] # "idle" => call'[d] \in Calls
    BY <1>1, <1>2 DEF TypeOK, Elsewhere
  <2>3. QED
    BY <1>1, <1>2, <2>1, <2>2 DEF TypeOK, Growing
<1>4. \A d \in Slots : SlotInv(d)'
  <2>1. SlotInv(s)'
    BY <1>1, <1>2 DEF SlotInv
  <2>2. QED
    BY <1>1, <1>2, <2>1, ElsewhereInv DEF IInv
<1>5. GatedInv' /\ InventedNeverSeen' /\ AdviceInv'
  BY <1>1, AdviceStands DEF IInv, GatedInv, InventedNeverSeen
<1>6. QED
  BY <1>3, <1>4, <1>5 DEF IInv

\* The gate spends one of the budget that was left.
LEMMA GateInv ==
  ASSUME IInv, NEW s \in Slots, Gate(s)
  PROVE  IInv'
<1>1. /\ TypeOK /\ SlotInv(s) /\ stage[s] = "sent" /\ call[s] \in Calls
      /\ stage' = [stage EXCEPT ![s] = "idle"] /\ call' = [call EXCEPT ![s] = NoCall]
      /\ UNCHANGED <<seen, userRequest, booked, verdict, planned>>
  BY DEF IInv, Gate, Done, TypeOK, advice
<1>2. Elsewhere(s) /\ Growing /\ stage'[s] = "idle" /\ answer'[s] = [NoAnswer EXCEPT !.kind = "gate"]
  <2>1. assumptions \in [Fields -> Assumption] /\ {} \subseteq Fields
    BY <1>1 DEF TypeOK
  <2>2. Growing
    BY <1>1, <2>1, AssumptionsGrow DEF Gate, Growing
  <2>3. QED
    BY <1>1, <2>2 DEF Gate, TypeOK, Elsewhere
<1>3. GatedInv' /\ gated' \subseteq Keys
  <2>1. Key(call[s]) \in Keys
    BY <1>1, CallsAssumption DEF Key, Keys
  <2>2. /\ gated' = gated \cup {Key(call[s])} /\ Key(call[s]) \notin gated
        /\ Cardinality(gated) < MaxGates /\ IsFiniteSet(gated)
    BY DEF Gate, Blocks, IInv, GatedInv
  <2>3. Cardinality(gated) \in Nat
    BY <2>2, FS_CardinalityType
  <2>4. IsFiniteSet(gated') /\ Cardinality(gated') = Cardinality(gated) + 1
    BY <2>2, FS_AddElement
  <2>5. QED
    BY <1>1, <2>1, <2>2, <2>3, <2>4, BoundsAssumption DEF GatedInv, TypeOK
<1>4. TypeOK'
  <2>1. /\ stage' \in [Slots -> {"idle", "sent", "pending"}]
        /\ DOMAIN answer' = Slots /\ DOMAIN call' = Slots
    BY <1>1 DEF Gate, TypeOK
  <2>2. \A d \in Slots : /\ stage'[d] # "idle" => call'[d] \in Calls
                         /\ answer'[d].kind \in {"none", "gate", "data", "error", "failed"}
                         /\ answer'[d].preamble \in Preambles
    BY <1>1, <1>2 DEF TypeOK, Elsewhere, NoAnswer, Preambles
  <2>3. QED
    BY <1>1, <1>2, <1>3, <2>1, <2>2 DEF TypeOK, Growing
<1>5. \A d \in Slots : SlotInv(d)'
  <2>1. SlotInv(s)'
    BY <1>1, <1>2 DEF SlotInv, NoAnswer
  <2>2. QED
    BY <1>1, <1>2, <2>1, ElsewhereInv DEF IInv
<1>6. InventedNeverSeen' /\ AdviceInv'
  BY <1>1, AdviceStands DEF IInv, InventedNeverSeen
<1>7. QED
  BY <1>3, <1>4, <1>5, <1>6 DEF IInv

\* A call that ends leaves the other calls, the gates and the assumptions alone,
\* whatever it is answered with.
LEMMA EndInv ==
  ASSUME IInv, NEW s \in Slots, Done(s),
         NEW new, answer' = [answer EXCEPT ![s] = new],
         new.kind \in {"none", "data", "error", "failed"}, new.preamble \in Preambles,
         new.kind \in {"data", "error"} =>
           \A f \in booked[s] : \E vs \in SUBSET Values : <<f, vs>> \in new.preamble,
         seen \subseteq seen', seen' \subseteq Values, seen' \subseteq Returnable,
         UNCHANGED <<gated, assumptions, userRequest, booked, verdict, planned>>
  PROVE  IInv'
<1>1. /\ TypeOK
      /\ stage' = [stage EXCEPT ![s] = "idle"] /\ call' = [call EXCEPT ![s] = NoCall]
  BY DEF IInv, Done
<1>2. Elsewhere(s) /\ Growing /\ stage'[s] = "idle" /\ answer'[s] = new
  BY <1>1 DEF TypeOK, Elsewhere, Growing
<1>3. TypeOK'
  <2>1. /\ stage' \in [Slots -> {"idle", "sent", "pending"}]
        /\ DOMAIN answer' = Slots /\ DOMAIN call' = Slots
    BY <1>1 DEF TypeOK
  <2>2. \A d \in Slots : /\ stage'[d] # "idle" => call'[d] \in Calls
                         /\ answer'[d].kind \in {"none", "gate", "data", "error", "failed"}
                         /\ answer'[d].preamble \in Preambles
    BY <1>1, <1>2 DEF TypeOK, Elsewhere
  <2>3. QED
    BY <1>1, <2>1, <2>2 DEF TypeOK
<1>4. \A d \in Slots : SlotInv(d)'
  <2>1. SlotInv(s)'
    BY <1>2 DEF SlotInv
  <2>2. QED
    BY <1>1, <1>2, <2>1, ElsewhereInv DEF IInv
<1>5. GatedInv' /\ InventedNeverSeen' /\ AdviceInv'
  BY AdviceStands DEF IInv, GatedInv, InventedNeverSeen
<1>6. QED
  BY <1>3, <1>4, <1>5 DEF IInv

\* What Deliver puts into the answer of a pending call names its booked fields.
LEMMA DeliveredNames ==
  ASSUME IInv, NEW s \in Slots, stage[s] = "pending"
  PROVE  /\ Preamble(assumptions) \in Preambles
         /\ \A f \in booked[s] : \E vs \in SUBSET Values : <<f, vs>> \in Preamble(assumptions)
<1>1. assumptions \in [Fields -> Assumption] /\ booked[s] \subseteq Fields
  BY DEF IInv, TypeOK
<1>2. \A f \in booked[s] : assumptions[f].how # "none"
  BY DEF IInv, SlotInv
<1>3. QED
  BY <1>1, <1>2, PreambleNames

\* A successful result is recorded and answered.
LEMMA RespondInv ==
  ASSUME IInv, NEW s \in Slots, stage[s] = "pending",
         NEW vs \in Results[call[s].tool], Respond(s, vs)
  PROVE  IInv'
<1> DEFINE new == [kind |-> "data", preamble |-> Preamble(assumptions),
                   conflict |-> userRequest \in Contradictory]
<1>1. /\ Done(s) /\ answer' = [answer EXCEPT ![s] = new]
      /\ seen' \in Indexed(seen, vs)
      /\ UNCHANGED <<gated, assumptions, userRequest, booked, verdict, planned>>
  BY DEF Respond, Deliver, advice
<1>2. vs \subseteq Values /\ vs \subseteq Returnable
  <2>1. call[s].tool \in Tools
    BY CallsAssumption DEF IInv, TypeOK
  <2>2. QED
    BY <2>1, ResultsAssumption DEF Returnable
<1>3. seen \subseteq seen' /\ seen' \subseteq Values /\ seen' \subseteq Returnable
  <2>1. seen \subseteq seen' /\ seen' \subseteq seen \cup vs
    BY <1>1, IndexedBounds
  <2>2. QED
    BY <1>1, <1>2, <2>1 DEF IInv, TypeOK, InventedNeverSeen
<1>4. /\ new.kind = "data"
      /\ new.preamble \in Preambles
      /\ \A f \in booked[s] : \E ws \in SUBSET Values : <<f, ws>> \in new.preamble
  BY DeliveredNames
<1>5. QED
  <2> HIDE DEF new
  <2> QED
    BY <1>1, <1>3, <1>4, EndInv

\* An error result is answered but not recorded.
LEMMA RespondErrorInv ==
  ASSUME IInv, NEW s \in Slots, RespondError(s)
  PROVE  IInv'
<1> DEFINE new == [kind |-> "error", preamble |-> Preamble(assumptions),
                   conflict |-> userRequest \in Contradictory]
<1>1. /\ Done(s) /\ answer' = [answer EXCEPT ![s] = new]
      /\ stage[s] = "pending"
      /\ UNCHANGED <<seen, gated, assumptions, userRequest, booked, verdict, planned>>
  BY DEF RespondError, Deliver, session, advice
<1>2. /\ new.kind = "error"
      /\ new.preamble \in Preambles
      /\ \A f \in booked[s] : \E ws \in SUBSET Values : <<f, ws>> \in new.preamble
  BY <1>1, DeliveredNames
<1>3. seen' = seen /\ seen' \subseteq Values /\ seen' \subseteq Returnable
  BY <1>1 DEF IInv, TypeOK, InventedNeverSeen
<1>4. QED
  <2> HIDE DEF new
  <2> QED
    BY <1>1, <1>2, <1>3, EndInv

\* A backend failure answers without a preamble.
LEMMA BackendFailsInv ==
  ASSUME IInv, NEW s \in Slots, BackendFails(s)
  PROVE  IInv'
<1> DEFINE new == [NoAnswer EXCEPT !.kind = "failed"]
<1>1. /\ Done(s) /\ answer' = [answer EXCEPT ![s] = new]
      /\ UNCHANGED <<seen, gated, assumptions, userRequest, booked, verdict, planned>>
  BY DEF BackendFails, session, advice
<1>2. new.kind = "failed" /\ new.preamble \in Preambles
  BY DEF NoAnswer, Preambles
<1>3. seen' = seen /\ seen' \subseteq Values /\ seen' \subseteq Returnable
  BY <1>1 DEF IInv, TypeOK, InventedNeverSeen
<1>4. QED
  <2> HIDE DEF new
  <2> QED
    BY <1>1, <1>2, <1>3, EndInv

\* A withdrawn call is not answered.
LEMMA CancelInv ==
  ASSUME IInv, NEW s \in Slots, Cancel(s)
  PROVE  IInv'
<1>1. /\ stage' = [stage EXCEPT ![s] = "idle"] /\ stage[s] # "idle"
      /\ call' = [call EXCEPT ![s] = NoCall]
      /\ UNCHANGED <<seen, gated, assumptions, userRequest, booked, answer,
                     verdict, planned>>
  BY DEF Cancel, Done, session, advice
<1>2. DOMAIN answer = Slots /\ answer[s].kind = "none" /\ answer[s].preamble \in Preambles
  BY <1>1 DEF IInv, TypeOK, SlotInv
<1>3. answer' = answer /\ Elsewhere(s) /\ Growing /\ stage'[s] = "idle" /\ TypeOK
  BY <1>1 DEF IInv, TypeOK, Elsewhere, Growing
<1>4. TypeOK'
  <2>1. stage' \in [Slots -> {"idle", "sent", "pending"}] /\ DOMAIN call' = Slots
    BY <1>1, <1>3 DEF TypeOK
  <2>2. \A d \in Slots : stage'[d] # "idle" => call'[d] \in Calls
    BY <1>3 DEF TypeOK, Elsewhere
  <2>3. QED
    BY <1>1, <1>3, <2>1, <2>2 DEF TypeOK
<1>5. \A d \in Slots : SlotInv(d)'
  <2>1. SlotInv(s)'
    BY <1>2, <1>3 DEF SlotInv
  <2>2. QED
    BY <1>3, <2>1, ElsewhereInv DEF IInv
<1>6. GatedInv' /\ InventedNeverSeen' /\ AdviceInv'
  BY <1>1, AdviceStands DEF IInv, GatedInv, InventedNeverSeen
<1>7. QED
  BY <1>4, <1>5, <1>6 DEF IInv

\* A preflight stores the request and its verdict, and touches no call.
LEMMA AssessInv ==
  ASSUME IInv, NEW r \in Requests, NEW plan \in Plans, Assess(r, plan)
  PROVE  IInv'
<1>1. /\ userRequest' = r /\ verdict' = Verdict(seen, r, plan) /\ planned' = Advised(seen, r, plan)
      /\ UNCHANGED <<seen, gated, assumptions, stage, call, booked, answer>>
  BY DEF Assess, calls
<1>2. TypeOK'
  BY <1>1, VerdictSound DEF IInv, TypeOK
<1>3. AdviceInv'
  BY <1>1, VerdictSound DEF AdviceInv
<1>4. (\A d \in Slots : SlotInv(d)') /\ GatedInv' /\ InventedNeverSeen'
  BY <1>1 DEF IInv, SlotInv, GatedInv, InventedNeverSeen
<1>5. QED
  BY <1>2, <1>3, <1>4 DEF IInv

-----------------------------------------------------------------------------
\* Every step of a conversation preserves the invariant.
LEMMA StepInv == IInv /\ [Next]_vars => IInv'
<1> SUFFICES ASSUME IInv, [Next]_vars
             PROVE  IInv'
  OBVIOUS
<1>1. ASSUME NEW s \in Slots, (\E c \in Calls : Send(s, c)) \/ Cancel(s)
      PROVE  IInv'
  BY <1>1, SendInv, CancelInv
<1>2. ASSUME NEW s \in Slots, Serve(s)
      PROVE  IInv'
  <2>1. CASE Clear(s) \/ Release(s) \/ Gate(s)
    BY <2>1, EvaluateInv, GateInv
  <2>2. CASE \E vs \in (IF stage[s] = "pending" THEN Results[call[s].tool] ELSE {}) : Respond(s, vs)
    BY <2>2, RespondInv
  <2>3. CASE RespondError(s) \/ BackendFails(s)
    BY <2>3, RespondErrorInv, BackendFailsInv
  <2>4. QED
    BY <1>2, <2>1, <2>2, <2>3 DEF Serve
<1>3. ASSUME NEW r \in Requests, NEW plan \in Plans, Assess(r, plan)
      PROVE  IInv'
  BY <1>3, AssessInv
<1>4. CASE UNCHANGED vars
  BY <1>4 DEF vars, session, calls, advice, IInv, TypeOK, GatedInv, SlotInv,
       InventedNeverSeen, AdviceInv
<1>5. QED
  BY <1>1, <1>2, <1>3, <1>4 DEF Next

\* The strengthened invariant holds in every reachable state.
THEOREM InductiveInvariant == Spec => []IInv
<1>1. Init => IInv
  BY InitInv
<1>2. IInv /\ [Next]_vars => IInv'
  BY StepInv
<1>3. QED
  BY <1>1, <1>2, PTL DEF Spec

\* Type correctness, for any policies, calls and results.
THEOREM TypeCorrect == Spec => []TypeOK
<1>1. IInv => TypeOK
  BY DEF IInv
<1>2. QED
  BY <1>1, InductiveInvariant, PTL

\* A conversation is never gated more often than MAX_GATES_PER_SESSION.
THEOREM GatesBounded == Spec => []GateBudget
<1>1. IInv => GateBudget
  BY DEF IInv, GatedInv, GateBudget
<1>2. QED
  BY <1>1, InductiveInvariant, PTL

\* What upstream cannot return never becomes a source.
THEOREM SourcesAreReturned == Spec => []InventedNeverSeen
<1>1. IInv => InventedNeverSeen
  BY DEF IInv
<1>2. QED
  BY <1>1, InductiveInvariant, PTL

\* Data that answers a released call names every field that was open.
THEOREM ReleasesDisclosed == Spec => []ReleasedFieldsDisclosed
<1>1. IInv => ReleasedFieldsDisclosed
  BY DEF IInv, SlotInv, ReleasedFieldsDisclosed
<1>2. QED
  BY <1>1, InductiveInvariant, PTL

\* assess_request keeps its word, for plans of any length: a call it let pass is
\* not gated later, and dropping the filters it named is enough.
THEOREM PreflightKeepsItsWord == Spec => []PreflightKept
<1>1. IInv => PreflightKept
  <2> SUFFICES ASSUME IInv, NEW c \in planned
               PROVE  LET open == Unsettled(seen, userRequest, c) IN
                      /\ verdict = "proceed" => open = {}
                      /\ verdict = "drop_invented_filters" =>
                           Unsettled(seen, userRequest, Dropping(c, open)) = {}
    BY DEF PreflightKept
  <2>1. c \in Calls
    BY DEF IInv, TypeOK
  <2>2. QED
    BY <2>1, DroppingSettles DEF IInv, AdviceInv
<1>2. QED
  BY <1>1, InductiveInvariant, PTL

\* A gate is spent only by the answer that shows it.
THEOREM GatesShown == Spec => GatesWereShown
<1> DEFINE Shown == gated' # gated =>
             \E s \in Slots : /\ stage[s] = "sent" /\ answer'[s].kind = "gate"
                              /\ gated' = gated \cup {Key(call[s])}
<1>1. IInv /\ [Next]_vars => Shown
  <2> SUFFICES ASSUME IInv, [Next]_vars, gated' # gated
               PROVE  \E s \in Slots : /\ stage[s] = "sent" /\ answer'[s].kind = "gate"
                                       /\ gated' = gated \cup {Key(call[s])}
    OBVIOUS
  <2>1. ASSUME NEW s \in Slots, Gate(s)
        PROVE  /\ stage[s] = "sent" /\ answer'[s].kind = "gate"
               /\ gated' = gated \cup {Key(call[s])}
    <3>1. DOMAIN answer = Slots
      BY DEF IInv, TypeOK
    <3>2. QED
      BY <2>1, <3>1 DEF Gate, NoAnswer
  <2>2. ASSUME NEW s \in Slots, ~Gate(s), (\E c \in Calls : Send(s, c)) \/ Serve(s) \/ Cancel(s)
        PROVE  FALSE
    BY <2>2 DEF Send, Serve, Cancel, Clear, Release, Respond, RespondError, BackendFails, session
  <2>3. ASSUME NEW r \in Requests, NEW plan \in Plans, Assess(r, plan)
        PROVE  FALSE
    BY <2>3 DEF Assess
  <2>4. CASE UNCHANGED vars
    BY <2>4 DEF vars, session
  <2>5. QED
    BY <2>1, <2>2, <2>3, <2>4 DEF Next
<1>2. QED
  BY <1>1, InductiveInvariant, PTL DEF Spec, GatesWereShown

\* Nothing ever removes an assumption, and the proxy never overwrites what the
\* agent declared.
THEOREM AssumptionsKept == Spec => AssumptionsStand
<1> DEFINE Stand == \A f \in Fields :
             /\ assumptions[f].how # "none" => assumptions'[f].how # "none"
             /\ assumptions[f].how = "declared" => assumptions'[f].how = "declared"
<1>1. IInv /\ [Next]_vars => Stand
  <2> SUFFICES ASSUME IInv, [Next]_vars
               PROVE  Stand
    OBVIOUS
  <2>1. ASSUME NEW s \in Slots, Clear(s) \/ Release(s) \/ Gate(s)
        PROVE  Stand
    <3> DEFINE a == Declaring(assumptions, call[s])
               open == Unsettled(seen, userRequest, call[s])
    <3>1. call[s] \in Calls /\ assumptions \in [Fields -> Assumption] /\ open \in SUBSET Fields
      BY <2>1 DEF IInv, TypeOK, Clear, Release, Gate, Unsettled
    <3>2. assumptions' = a \/ assumptions' = Booking(a, call[s], open)
      BY <2>1 DEF Clear, Release, Gate
    <3>3. /\ a \in [Fields -> Assumption]
          /\ \A f \in Fields : assumptions[f].how # "none" => a[f].how # "none"
          /\ \A f \in Fields : assumptions[f].how = "declared" => a[f].how = "declared"
      BY <3>1, AssumptionsGrow
    <3>4. /\ \A f \in Fields : a[f].how # "none" => Booking(a, call[s], open)[f].how # "none"
          /\ \A f \in Fields : a[f].how = "declared" =>
               Booking(a, call[s], open)[f].how = "declared"
      <4> HIDE DEF a, open
      <4> QED
        BY <3>1, <3>3, AssumptionsGrow
    <3>5. QED
      <4> HIDE DEF a, open
      <4> QED
        BY <3>2, <3>3, <3>4
  <2>2. ASSUME NEW s \in Slots, ~(Clear(s) \/ Release(s) \/ Gate(s)),
               (\E c \in Calls : Send(s, c)) \/ Serve(s) \/ Cancel(s)
        PROVE  assumptions' = assumptions
    BY <2>2 DEF Send, Serve, Cancel, Respond, RespondError, BackendFails, session
  <2>3. ASSUME NEW r \in Requests, NEW plan \in Plans, Assess(r, plan)
        PROVE  assumptions' = assumptions
    BY <2>3 DEF Assess
  <2>4. CASE UNCHANGED vars
    BY <2>4 DEF vars, session
  <2>5. QED
    BY <2>1, <2>2, <2>3, <2>4 DEF Next
<1>2. QED
  BY <1>1, InductiveInvariant, PTL DEF Spec, AssumptionsStand

=============================================================================
