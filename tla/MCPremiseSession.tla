-------------------------- MODULE MCPremiseSession --------------------------
(***************************************************************************)
(* Instances of PremiseSession cut from POLICIES: a search tool with a     *)
(* blocking date, a hotel search whose headcount is blocking by mention,   *)
(* the seat map whose only field another tool resolves, and a tool without *)
(* a policy.                                                               *)
(***************************************************************************)
EXTENDS PremiseSession, TLC

CONSTANTS x, p1, p2, r1, r2, r3

MCTools  == {"rail", "hotel", "seatmap", "places"}
MCFields == {"date", "adults", "price", "together"}
MCValues == {x, p1, p2}

MCPolicy ==
  [t \in MCTools |-> [f \in MCFields |->
     CASE t = "rail" /\ f = "date" -> "blocking"
       [] t = "hotel" /\ f = "adults" -> "mention"
       [] t \in {"rail", "hotel"} /\ f = "price" -> "narrowing"
       [] t = "seatmap" /\ f = "together" -> "narrowing"
       [] OTHER -> "none"]]
MCResolvable == {<<"seatmap", "together">>}

\* The request r1 names p1, r2 a headcount, r3 contradicts itself.
MCSaid ==
  [r \in Requests \cup {NoRequest} |-> IF r = r1 THEN {p1} ELSE {}]
MCHeadcounts    == {r2} \cap Requests
MCContradictory == {r3} \cap Requests

\* Upstream answers with p1 (a fare, say) and never with p2.
MCResults ==
  [t \in MCTools |->
     CASE t = "rail" -> {{}, {x, p1}} [] t = "hotel" -> {{x}} [] OTHER -> {{}}]

Arg(vs) == [given |-> TRUE, vals |-> vs]
NoArg   == [given |-> FALSE, vals |-> {}]
With(given) == [f \in MCFields |-> IF f \in DOMAIN given THEN Arg(given[f]) ELSE NoArg]
ACall(t, given, sources, assume, blank) ==
  [tool |-> t, args |-> With(given), sources |-> sources, assume |-> assume, blank |-> blank]

Rail(p)       == ACall("rail", "date" :> {x} @@ "price" :> {p}, {}, {}, {})
RailUndated   == ACall("rail", "price" :> {p1}, {}, {}, {})
RailAssuming  == ACall("rail", "date" :> {x} @@ "price" :> {p2}, {}, {"price"}, {})
RailBlank     == ACall("rail", "date" :> {x} @@ "price" :> {p2}, {}, {"price"}, {"price"})
RailSourced   == ACall("rail", "date" :> {x} @@ "price" :> {p2}, {"price"}, {}, {})
RailOpen      == ACall("rail", "date" :> {x} @@ "price" :> {}, {}, {}, {})
Hotel(p)      == ACall("hotel", "adults" :> {x} @@ "price" :> {p}, {}, {}, {})
Seats         == ACall("seatmap", "together" :> {x}, {}, {}, {})
PlacesAssuming == ACall("places", <<>>, {}, {"adults"}, {})

VARIABLE scene   \* which of the two conversations below this one is

\* Two calls at a time that race over the same evidence and assumptions; and one
\* at a time over every branch of evaluate.
Race ==
  [slots |-> Slots,
   calls |-> {Rail(p1), Rail(p2), RailAssuming, Hotel(p2)},
   plans |-> {<<Rail(p1)>>, <<Hotel(p2)>>},
   requests |-> {r1, r2}]
Branches ==
  [slots |-> {CHOOSE s \in Slots : TRUE},
   calls |-> {RailUndated, RailBlank, RailSourced, RailOpen, Hotel(p1), Seats, PlacesAssuming},
   plans |-> {<<Seats>>, <<RailSourced, Hotel(p1)>>, <<Seats, RailBlank>>},
   requests |-> {r1, r3}]

AllCalls == Race.calls \cup Branches.calls
AllPlans == Race.plans \cup Branches.plans

MCInit == Init /\ scene \in {Race, Branches}

MCNext ==
  /\ \/ \E s \in scene.slots : (\E c \in scene.calls : Send(s, c)) \/ Serve(s) \/ Cancel(s)
     \/ \E r \in scene.requests, plan \in scene.plans : Assess(r, plan)
  /\ UNCHANGED scene

\* FairSpec with the calls, plans and requests of one scene.
MCSpec ==
  /\ MCInit /\ [][MCNext]_<<vars, scene>>
  /\ \A s \in Slots : WF_vars(Serve(s))

=============================================================================
