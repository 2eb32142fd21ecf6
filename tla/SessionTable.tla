----------------------------- MODULE SessionTable -----------------------------
(***************************************************************************)
(* Which conversation a request belongs to, and what the proxy still holds *)
(* of it: _session_key and session_for of tutu_mcp/proxy/server.py, the    *)
(* evidence window (_remember_payload) of tutu_mcp/premises.py, and the    *)
(* check_groundedness tool that reads it.                                  *)
(*                                                                         *)
(* A session is an object (Objs): the table refers to it, and so does      *)
(* every call under way, which goes on writing to it after the table let   *)
(* it go.  Of a session's premise state only the one-shot gate is kept,    *)
(* as the set of clients it fired for; PremiseSession has the rest.        *)
(***************************************************************************)
EXTENDS Integers, Sequences, SequencesExt

CONSTANTS
  Tasks,         \* request handlers
  Clients, NoClient,
  Header,        \* Header[c]: the mcp-session-id client c sends, or NoKey
  Stdio,         \* clients that talk over stdio
  StdioKey, NoKey,
  Objs,          \* session objects; ids are reused once nobody refers to them
  NoObj,
  Sizes,         \* sizes of results
  MaxSessions,   \* MAX_SESSIONS
  MaxPayloads,   \* MAX_RESULT_PAYLOADS
  MaxBytes,      \* MAX_RESULT_BYTES
  MaxDelivered   \* bound on the results one session is given

ASSUME BoundsAssumption ==
  /\ MaxSessions \in Nat \ {0} /\ MaxPayloads \in Nat \ {0} /\ MaxBytes \in Nat
  /\ Sizes \subseteq Nat /\ MaxDelivered \in Nat
\* The header is a secret of its client, and stdio is one process with one client.
ASSUME IdentityAssumption ==
  /\ \A c, d \in Clients : Header[c] = Header[d] /\ Header[c] # NoKey => c = d
  /\ Stdio # {} => \E c \in Clients : Clients = {c}
  /\ StdioKey # NoKey
ASSUME AbsentAssumption == NoObj \notin Objs /\ NoClient \notin Clients

VARIABLES
  table,     \* sessions: its keys, oldest first
  bound,     \* sessions: the object of each key in the table
  gated,     \* gated[o]: clients whose call the gate of session o answered
  results,   \* results[o]: evidence held, as [from, size]
  log,       \* log[o]: every result ever recorded in o
  pc, who, ses,  \* of each task: idle or pending, its client, its session
  report     \* what check_groundedness said last, and to whom

tableVars   == <<table, bound>>
sessionVars == <<gated, results, log>>
taskVars    == <<pc, who, ses>>
vars == <<tableVars, sessionVars, taskVars, report>>

Keys  == ({Header[c] : c \in Clients} \cup {StdioKey}) \ {NoKey}
Held  == {table[i] : i \in DOMAIN table}
Entry == [from : Clients, size : Sizes]

Init ==
  /\ table = <<>> /\ bound = [k \in Keys |-> NoObj]
  /\ gated = [o \in Objs |-> {}]
  /\ results = [o \in Objs |-> <<>>] /\ log = [o \in Objs |-> <<>>]
  /\ pc = [t \in Tasks |-> "idle"]
  /\ who = [t \in Tasks |-> NoClient]
  /\ ses = [t \in Tasks |-> NoObj]
  /\ report = [to |-> NoClient, says |-> "none"]

-----------------------------------------------------------------------------
(* session_for                                                             *)

\* (Mutation: a caller without a header shares the stdio session.)
KeyOfFallback(c) == IF c \in Stdio \/ Header[c] = NoKey THEN StdioKey ELSE Header[c]

\* _session_key.
KeyOf(c) == IF c \in Stdio THEN StdioKey ELSE Header[c]

\* Nobody refers to o: what SessionPremises() returns.
Fresh(o) ==
  /\ \A k \in Held : bound[k] # o
  /\ \A t \in Tasks : ses[t] # o

\* (Mutation: the table is let grow one past its limit.)
MakeRoomLate(q) ==
  IF Len(q) <= MaxSessions THEN q ELSE SubSeq(q, Len(q) - MaxSessions + 2, Len(q))

\* The oldest conversations go while the table is full.
MakeRoom(q) ==
  IF Len(q) < MaxSessions THEN q ELSE SubSeq(q, Len(q) - MaxSessions + 2, Len(q))

Known(c) == KeyOf(c) \in Held

\* o is the session of client c: the one in the table, a new entry, or, for a
\* caller without identity, an object that dies with the request.
Lookup(c, o) ==
  \/ /\ Known(c) /\ o = bound[KeyOf(c)]
     /\ UNCHANGED tableVars
  \/ /\ ~Known(c) /\ Fresh(o) /\ KeyOf(c) # NoKey
     /\ table' = Append(MakeRoom(table), KeyOf(c))
     /\ bound' = [bound EXCEPT ![KeyOf(c)] = o]
  \/ /\ KeyOf(c) = NoKey /\ Fresh(o)
     /\ UNCHANGED tableVars

\* (Mutation: a session is made for every look-up.)
ResultsOfNew(c, o) == <<>>

\* What the looked-up session holds.
GatedOf(c, o)   == IF Known(c) THEN gated[o] ELSE {}
ResultsOf(c, o) == IF Known(c) THEN results[o] ELSE <<>>
LogOf(c, o)     == IF Known(c) THEN log[o] ELSE <<>>

\* The handler holds session o of client c, its gate fired for the clients g.
Hand(c, o, g) ==
  /\ gated' = [gated EXCEPT ![o] = g]
  /\ results' = [results EXCEPT ![o] = ResultsOf(c, o)]
  /\ log' = [log EXCEPT ![o] = LogOf(c, o)]

-----------------------------------------------------------------------------
(* The evidence window                                                     *)

Bytes(q) ==
  LET sum[n \in 0..Len(q)] == IF n = 0 THEN 0 ELSE sum[n - 1] + q[n].size
  IN sum[Len(q)]
Fits(q)  == q = <<>> \/ (Len(q) <= MaxPayloads /\ Bytes(q) <= MaxBytes)

\* (Mutation: one result is dropped where several may have to go.)
WindowDropsOne(q) == IF Fits(q) THEN q ELSE Tail(q)

\* Oldest first out, until both limits hold.
Window(q) ==
  LET from == CHOOSE i \in 1..(Len(q) + 1) :
                /\ Fits(SubSeq(q, i, Len(q)))
                /\ \A j \in 1..(i - 1) : ~Fits(SubSeq(q, j, Len(q)))
  IN SubSeq(q, from, Len(q))

-----------------------------------------------------------------------------
(* Requests                                                                *)

\* A call meets the gate, which has not fired in this session yet.
Gate(t, c, o) ==
  /\ pc[t] = "idle"
  /\ Lookup(c, o) /\ GatedOf(c, o) = {}
  /\ Hand(c, o, {c})
  /\ UNCHANGED <<taskVars, report>>

\* A call with nothing unsettled, or one the gate has already answered.
Call(t, c, o) ==
  /\ pc[t] = "idle"
  /\ Lookup(c, o)
  /\ Hand(c, o, GatedOf(c, o))
  /\ pc' = [pc EXCEPT ![t] = "pending"]
  /\ who' = [who EXCEPT ![t] = c]
  /\ ses' = [ses EXCEPT ![t] = o]
  /\ UNCHANGED report

Done(t) ==
  /\ pc' = [pc EXCEPT ![t] = "idle"]
  /\ who' = [who EXCEPT ![t] = NoClient]
  /\ ses' = [ses EXCEPT ![t] = NoObj]
  /\ UNCHANGED report

\* A JSON result of n bytes is recorded in the session the call began with.
Respond(t, n) ==
  /\ pc[t] = "pending" /\ Len(log[ses[t]]) < MaxDelivered
  /\ LET entry == [from |-> who[t], size |-> n] IN
     /\ log' = [log EXCEPT ![ses[t]] = Append(@, entry)]
     /\ results' = [results EXCEPT ![ses[t]] = Window(Append(@, entry))]
  /\ Done(t)
  /\ UNCHANGED <<tableVars, gated>>

\* An error, a result that is no JSON, a failed backend, a cancelled request.
EndUnrecorded(t) ==
  /\ pc[t] = "pending"
  /\ Done(t)
  /\ UNCHANGED <<tableVars, sessionVars>>

\* check_groundedness without payloads of the agent's own.
Check(c, o) ==
  /\ Lookup(c, o)
  /\ Hand(c, o, GatedOf(c, o))
  /\ report' = [to |-> c, says |-> IF ResultsOf(c, o) = <<>> THEN "blind" ELSE "checked"]
  /\ UNCHANGED taskVars

Next ==
  \/ \E c \in Clients, o \in Objs :
       Check(c, o) \/ \E t \in Tasks : Gate(t, c, o) \/ Call(t, c, o)
  \/ \E t \in Tasks : EndUnrecorded(t) \/ \E n \in Sizes : Respond(t, n)

Spec == Init /\ [][Next]_vars

-----------------------------------------------------------------------------
(* Properties                                                              *)

TypeOK ==
  /\ table \in Seq(Keys) /\ Len(table) <= MaxSessions
  /\ bound \in [Keys -> Objs \cup {NoObj}]
  /\ gated \in [Objs -> SUBSET Clients]
  /\ results \in [Objs -> Seq(Entry)]
  /\ log \in [Objs -> Seq(Entry)]
  /\ pc \in [Tasks -> {"idle", "pending"}]
  /\ who \in [Tasks -> Clients \cup {NoClient}]
  /\ ses \in [Tasks -> Objs \cup {NoObj}]
  /\ report \in [to : Clients \cup {NoClient}, says : {"none", "blind", "checked"}]

\* Everyone whose call left a mark in session o: a result, or a spent gate.
Writers(o) == gated[o] \cup {log[o][i].from : i \in DOMAIN log[o]}

\* No client ever meets another one's evidence or spent gate, be it through the
\* table or through a call under way, whatever was evicted meanwhile.  (The
\* comment on premise state: it "must never be global".)
Isolation ==
  /\ \A t \in Tasks : pc[t] = "pending" => Writers(ses[t]) \subseteq {who[t]}
  /\ \A c \in Clients : Known(c) => Writers(bound[KeyOf(c)]) \subseteq {c}

\* The evidence held is the longest run of most recent results that fits both
\* limits, though _remember_payload only ever looks at what it held before.
EvidenceIsLongestSuffix ==
  \A o \in Objs :
    /\ IsSuffix(results[o], log[o])
    /\ Fits(results[o])
    /\ \A q \in Suffixes(log[o]) : Len(q) > Len(results[o]) => ~Fits(q)

\* The conversation that the next call of client c goes on with.
Current(c) == IF Known(c) THEN bound[KeyOf(c)] ELSE NoObj

\* The sessions that client c can still reach, through the table or its calls under way.
Reach(c) == ({Current(c)} \cup {ses[t] : t \in {u \in Tasks : who[u] = c}}) \ {NoObj}

Private == INSTANCE PrivateSessions WITH
  current  <- [c \in Clients |-> Current(c)],
  gated    <- [c \in Clients |-> {o \in Reach(c) : gated[o] # {}}],
  evidence <- [c \in Clients |-> [o \in Reach(c) |-> results[o]]]

\* The table and its objects implement sessions that are private by construction: what
\* a client can reach is what its own calls left there, lost only as a whole, and at most
\* one other client loses its conversation when one begins.
ImplementsPrivateSessions == Private!Spec
=============================================================================
