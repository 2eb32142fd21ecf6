--------------------------- MODULE PrivateSessions ---------------------------
(***************************************************************************)
(* What session_for of tutu_mcp/proxy/server.py promises, with no table,   *)
(* no keys and no object that two clients could share: every client has    *)
(* conversations of its own.  Another client can end the current one, as a *)
(* whole, when it begins one itself; it never reads or changes it.         *)
(***************************************************************************)
EXTENDS Integers, Sequences

CONSTANTS
  Tasks, Clients, NoClient,
  Objs, NoObj,   \* names of conversations, each client's apart from the others'
  Sizes          \* sizes of results

VARIABLES
  who, ses,   \* of each task: the client and the conversation of its call, if any
  current,    \* current[c]: the conversation client c is in, if it has one
  gated,      \* gated[c]: those of its conversations whose gate has fired
  evidence,   \* evidence[c][o]: the results held in its conversation o, while that is alive
  report      \* what check_groundedness said last, and to whom

privateVars == <<who, ses, current, gated, evidence, report>>

\* The conversations of client c that something still refers to.
Alive(c) == ({current[c]} \cup {ses[t] : t \in {u \in Tasks : who[u] = c}}) \ {NoObj}

Init ==
  /\ who = [t \in Tasks |-> NoClient] /\ ses = [t \in Tasks |-> NoObj]
  /\ current = [c \in Clients |-> NoObj]
  /\ gated = [c \in Clients |-> {}]
  /\ evidence = [c \in Clients |-> [o \in Alive(c) |-> <<>>]]
  /\ report = [to |-> NoClient, says |-> "none"]

\* Client c goes on with its conversation o, or begins it.  One that it comes back to
\* may take the place of another client's.
Enter(c, o) ==
  \/ current[c] = o /\ current' = current
  \/ /\ current[c] = NoObj /\ o \notin Alive(c)
     /\ \/ current' = current
        \/ \E d \in Clients : current' = [[current EXCEPT ![d] = NoObj] EXCEPT ![c] = o]

\* What the evidence f of a client says of its conversation o; of a new one, nothing.
Of(f, o) == IF o \in DOMAIN f THEN f[o] ELSE <<>>

\* Of g and e stays what belongs to a conversation that is still alive.
Remember(g, e) ==
  /\ gated' = [c \in Clients |-> {o \in Alive(c)' : o \in g[c]}]
  /\ evidence' = [c \in Clients |-> [o \in Alive(c)' |-> Of(e[c], o)]]

\* The gate answers once in a conversation.
Gate(c, o) ==
  /\ UNCHANGED <<who, ses, report>>
  /\ o \notin gated[c] /\ Enter(c, o)
  /\ Remember([gated EXCEPT ![c] = @ \cup {o}], evidence)

Call(t, c, o) ==
  /\ ses[t] = NoObj
  /\ who' = [who EXCEPT ![t] = c] /\ ses' = [ses EXCEPT ![t] = o]
  /\ UNCHANGED report
  /\ Enter(c, o)
  /\ Remember(gated, evidence)

\* check_groundedness sees the evidence of this conversation and no other.
Check(c, o) ==
  /\ UNCHANGED <<who, ses>>
  /\ report' = [to |-> c, says |-> IF Of(evidence[c], o) = <<>> THEN "blind" ELSE "checked"]
  /\ Enter(c, o)
  /\ Remember(gated, evidence)

End(t) ==
  /\ ses[t] # NoObj
  /\ who' = [who EXCEPT ![t] = NoClient] /\ ses' = [ses EXCEPT ![t] = NoObj]
  /\ UNCHANGED <<current, report>>

\* A result joins the conversation its call began in; older ones may have to go.
Respond(t, n) ==
  /\ End(t)
  /\ LET c == who[t]
         o == ses[t]
         held == Append(evidence[c][o], [from |-> c, size |-> n])
     IN \E i \in 1..(Len(held) + 1) :
          Remember(gated, [evidence EXCEPT ![c][o] = SubSeq(held, i, Len(held))])

EndUnrecorded(t) == End(t) /\ Remember(gated, evidence)

Next ==
  \/ \E c \in Clients, o \in Objs :
       Check(c, o) \/ Gate(c, o) \/ \E t \in Tasks : Call(t, c, o)
  \/ \E t \in Tasks : EndUnrecorded(t) \/ \E n \in Sizes : Respond(t, n)

Spec == Init /\ [][Next]_privateVars
=============================================================================
