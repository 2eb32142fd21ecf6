------------------------ MODULE UpstreamClientProofs ------------------------
(***************************************************************************)
(* Safety of UpstreamClient for any number of callers and connections.     *)
(* IInv is the inductive invariant; the safety invariants the runs check   *)
(* are among its conjuncts or follow from them.                            *)
(***************************************************************************)
EXTENDS UpstreamClient, SequenceTheorems, TLAPS

\* Removing one waiter leaves a queue of callers.
LEMMA DequeueType ==
  ASSUME NEW S, NEW s \in Seq(S), NEW i \in DOMAIN s
  PROVE  SubSeq(s, 1, i - 1) \o SubSeq(s, i + 1, Len(s)) \in Seq(S)
<1>1. i \in 1..Len(s)
  BY LenProperties
<1>2. SubSeq(s, 1, i - 1) \in Seq(S)
  BY <1>1, LenProperties, SubSeqProperties
<1>3. SubSeq(s, i + 1, Len(s)) \in Seq(S)
  BY <1>1, LenProperties, SubSeqProperties
<1>4. QED
  BY <1>2, <1>3, ConcatProperties

\* What one caller may rely on: alone while reconnecting, a connection to speak
\* of at each place of _call, a new one to retry on, and the requests paid for.
CallerInv(c) ==
  /\ pc[c] \in {"closing", "connecting"} => owner = c
  /\ pc[c] \in {"first", "retry"} => on[c] \in Conns \cup {Gone}
  /\ pc[c] = "locking" => stale[c] \in Conns \cup {Gone}
  /\ pc[c] = "closing" => client = stale[c] /\ client \in Conns
  /\ pc[c] = "connecting" => client = NoConn /\ on[c] \in Conns /\ on[c] # stale[c]
  /\ pc[c] = "idle" => reqs[c] = 0 /\ tries[c] = 1
  /\ pc[c] \in {"first", "locking", "closing", "connecting"} =>
       reqs[c] <= 2 * tries[c] - 1
  /\ pc[c] = "retry" => reqs[c] <= 2 * tries[c]

\* Before serve() has a backend nothing is connected and nobody calls.
StageInv ==
  stage = "starting" => client = NoConn /\ \A c \in Callers : pc[c] = "idle"

\* The published client is not a closed one.
PublishedInv == client # NoConn => conn[client] # "closed"

IInv ==
  /\ TypeOK
  /\ \A c \in Callers : CallerInv(c)
  /\ StageInv
  /\ PublishedInv
  /\ NoConnectionLeaked

-----------------------------------------------------------------------------
\* Release by the owner keeps the lock well-typed.
LEMMA ReleaseType ==
  ASSUME TypeOK, Release
  PROVE  owner' \in Callers \cup {NoCaller} /\ waiters' \in Seq(Callers)
<1>1. CASE waiters = <<>>
  BY <1>1 DEF TypeOK, Release
<1>2. CASE waiters # <<>>
  <2>1. Head(waiters) \in Callers /\ Tail(waiters) \in Seq(Callers)
    BY <1>2, HeadTailProperties DEF TypeOK
  <2>2. QED
    BY <1>2, <2>1 DEF Release
<1>3. QED
  BY <1>1, <1>2


\* What a step of c leaves of the other callers.
OthersKept(c) ==
  \A d \in Callers \ {c} :
    /\ pc'[d] = pc[d] /\ on'[d] = on[d] /\ stale'[d] = stale[d]
    /\ tries'[d] = tries[d] /\ reqs'[d] = reqs[d]

CallerTypeOK ==
  /\ pc \in [Callers -> PC]
  /\ on \in [Callers -> Conns \cup {NoConn, Gone}]
  /\ stale \in [Callers -> Conns \cup {NoConn, Gone}]
  /\ tries \in [Callers -> 1..2]
  /\ reqs \in [Callers -> Nat]

\* A logical call that ends leaves its caller idle with nothing paid for.
LEMMA FinishEffect ==
  ASSUME CallerTypeOK, NEW c \in Callers, Finish(c)
  PROVE  /\ CallerTypeOK' /\ OthersKept(c)
         /\ pc'[c] = "idle" /\ reqs'[c] = 0 /\ tries'[c] = 1
BY DEF CallerTypeOK, OthersKept, Finish, PC

\* _call's first request goes out on the published client, or the call ends.
LEMMA FirstRequestEffect ==
  ASSUME CallerTypeOK, NEW c \in Callers, NEW n \in 1..2,
         NEW k \in Conns \cup {NoConn}, FirstRequest(c, n, k)
  PROVE  /\ CallerTypeOK' /\ OthersKept(c)
         /\ \/ /\ pc'[c] = "idle" /\ reqs'[c] = 0 /\ tries'[c] = 1
            \/ /\ pc'[c] = "first" /\ on'[c] = k /\ k # NoConn
               /\ reqs'[c] = reqs[c] + 1 /\ tries'[c] = n
<1>1. CASE k = NoConn /\ Finish(c)
  BY <1>1, FinishEffect
<1>2. CASE /\ Send(c, "first", k)
           /\ tries' = [tries EXCEPT ![c] = n]
           /\ stale' = [stale EXCEPT ![c] = NoConn]
  BY <1>2 DEF Send, CallerTypeOK, OthersKept, PC
<1>3. QED
  BY <1>1, <1>2 DEF FirstRequest

\* The request after a reconnect goes out on the new client, or the call ends.
LEMMA SecondRequestEffect ==
  ASSUME CallerTypeOK, NEW c \in Callers,
         NEW k \in Conns \cup {NoConn}, SecondRequest(c, k)
  PROVE  /\ CallerTypeOK' /\ OthersKept(c)
         /\ \/ /\ pc'[c] = "idle" /\ reqs'[c] = 0 /\ tries'[c] = 1
            \/ /\ pc'[c] = "retry" /\ on'[c] = k /\ k # NoConn
               /\ stale'[c] = stale[c]
               /\ reqs'[c] = reqs[c] + 1 /\ tries'[c] = tries[c]
<1>1. CASE k = NoConn /\ Finish(c)
  BY <1>1, FinishEffect
<1>2. CASE Send(c, "retry", k) /\ UNCHANGED <<stale, tries>>
  BY <1>2 DEF Send, CallerTypeOK, OthersKept, PC
<1>3. QED
  BY <1>1, <1>2 DEF SecondRequest

\* A timeout begins the second attempt or ends the call.
LEMMA RetryTimeoutEffect ==
  ASSUME CallerTypeOK, client \in Conns \cup {NoConn}, NEW c \in Callers,
         RetryTimeout(c)
  PROVE  /\ CallerTypeOK' /\ OthersKept(c)
         /\ \/ /\ pc'[c] = "idle" /\ reqs'[c] = 0 /\ tries'[c] = 1
            \/ /\ pc'[c] = "first" /\ on'[c] = client /\ client # NoConn
               /\ tries[c] = 1 /\ reqs'[c] = reqs[c] + 1 /\ tries'[c] = 2
<1>1. CASE tries[c] = 1 /\ FirstRequest(c, 2, client)
  BY <1>1, FirstRequestEffect
<1>2. CASE tries[c] = 2 /\ Finish(c)
  BY <1>2, FinishEffect
<1>3. QED
  BY <1>1, <1>2 DEF RetryTimeout

\* The other callers keep their invariant through a step of c that leaves the
\* lock and the published client alone, or is taken by the lock's owner.
LEMMA OthersUnaffected ==
  ASSUME IInv, NEW c \in Callers, OthersKept(c),
         owner' = owner \/ owner = c \/ owner = NoCaller,
         client' = client \/ owner = c
  PROVE  \A d \in Callers \ {c} : CallerInv(d)'
BY NoCallerAssumption DEF IInv, CallerInv, OthersKept

\* A step of c that touches neither connection, lock nor process.
LEMMA LocalStep ==
  ASSUME IInv, NEW c \in Callers, CallerTypeOK', OthersKept(c), CallerInv(c)',
         pc[c] # "connecting", stage # "starting",
         UNCHANGED <<up, conn, client, owner, waiters, stage>>
  PROVE  IInv'
<1>1. TypeOK'
  BY DEF IInv, TypeOK, CallerTypeOK
<1>2. \A d \in Callers : CallerInv(d)'
  BY OthersUnaffected
<1>3. StageInv' /\ PublishedInv'
  BY DEF IInv, StageInv, PublishedInv
<1>4. NoConnectionLeaked'
  BY DEF IInv, NoConnectionLeaked, OthersKept
<1>5. QED
  BY <1>1, <1>2, <1>3, <1>4 DEF IInv

\* The part of the type invariant the caller's steps work with.
LEMMA TypeParts ==
  ASSUME IInv, NEW c \in Callers
  PROVE  /\ CallerTypeOK /\ CallerInv(c)
         /\ client \in Conns \cup {NoConn}
         /\ pc[c] # "idle" => stage # "starting"
BY DEF IInv, TypeOK, CallerTypeOK, StageInv

-----------------------------------------------------------------------------
\* The process starts with nothing connected and nobody calling.
THEOREM InitInv == Init => IInv
BY NoConnAssumption, NoCallerAssumption
   DEF Init, IInv, TypeOK, CallerInv, StageInv, PublishedInv, NoConnectionLeaked, ConnState, PC

\* Call: one request paid for, on the published client.
LEMMA CallInv ==
  ASSUME IInv, NEW c \in Callers, Call(c)
  PROVE  IInv'
<1>1. /\ CallerTypeOK /\ client \in Conns \cup {NoConn} /\ reqs[c] = 0
      /\ pc[c] = "idle" /\ stage = "serving"
      /\ UNCHANGED <<up, conn, client, owner, waiters, stage>>
  BY TypeParts DEF CallerInv, Call, lockVars
<1>2. /\ CallerTypeOK' /\ OthersKept(c)
      /\ \/ /\ pc'[c] = "idle" /\ reqs'[c] = 0 /\ tries'[c] = 1
         \/ /\ pc'[c] = "first" /\ on'[c] = client /\ client # NoConn
            /\ reqs'[c] = 1 /\ tries'[c] = 1
  BY <1>1, FirstRequestEffect DEF Call
<1>3. CallerInv(c)'
  BY <1>1, <1>2 DEF CallerInv
<1>4. QED
  BY <1>1, <1>2, <1>3, LocalStep

\* Answer and SecondFails end the logical call.
LEMMA AnswerInv ==
  ASSUME IInv, NEW c \in Callers, Answer(c) \/ SecondFails(c)
  PROVE  IInv'
<1>1. /\ pc[c] \in {"first", "retry"} /\ stage # "starting"
      /\ UNCHANGED <<up, conn, client, owner, waiters, stage>>
  BY TypeParts DEF Answer, SecondFails, lockVars
<1>2. /\ CallerTypeOK' /\ OthersKept(c)
      /\ pc'[c] = "idle" /\ reqs'[c] = 0 /\ tries'[c] = 1
  BY TypeParts, FinishEffect DEF Answer, SecondFails
<1>3. CallerInv(c)'
  BY <1>2 DEF CallerInv
<1>4. QED
  BY <1>1, <1>2, <1>3, LocalStep

\* RequestTimesOut: the second attempt starts afresh, or the call ends.
LEMMA RequestTimesOutInv ==
  ASSUME IInv, NEW c \in Callers, RequestTimesOut(c)
  PROVE  IInv'
<1>1. /\ pc[c] \in {"first", "retry"} /\ stage # "starting"
      /\ CallerTypeOK /\ CallerInv(c) /\ client \in Conns \cup {NoConn}
      /\ UNCHANGED <<up, conn, client, owner, waiters, stage>>
  BY TypeParts DEF RequestTimesOut, lockVars
<1>2. /\ CallerTypeOK' /\ OthersKept(c)
      /\ \/ /\ pc'[c] = "idle" /\ reqs'[c] = 0 /\ tries'[c] = 1
         \/ /\ pc'[c] = "first" /\ on'[c] = client /\ client # NoConn
            /\ tries[c] = 1 /\ reqs'[c] = reqs[c] + 1 /\ tries'[c] = 2
  BY <1>1, RetryTimeoutEffect DEF RequestTimesOut
<1>3. CallerInv(c)'
  BY <1>1, <1>2 DEF CallerInv, CallerTypeOK
<1>4. QED
  BY <1>1, <1>2, <1>3, LocalStep

\* FirstFails: the caller queues with the client it failed on.
LEMMA FirstFailsInv ==
  ASSUME IInv, NEW c \in Callers, FirstFails(c)
  PROVE  IInv'
<1>1. /\ pc[c] = "first" /\ CallerTypeOK /\ CallerInv(c) /\ stage # "starting"
      /\ UNCHANGED <<up, conn, client, stage>>
  BY TypeParts DEF FirstFails
<1>2. /\ CallerTypeOK' /\ OthersKept(c)
      /\ pc'[c] = "locking" /\ stale'[c] = on[c]
      /\ reqs'[c] = reqs[c] /\ tries'[c] = tries[c]
  BY <1>1 DEF FirstFails, CallerTypeOK, OthersKept, PC
<1>3. /\ owner' \in Callers \cup {NoCaller} /\ waiters' \in Seq(Callers)
      /\ owner' = owner \/ owner = NoCaller
  <2>1. waiters \in Seq(Callers) /\ owner \in Callers \cup {NoCaller}
    BY DEF IInv, TypeOK
  <2>2. Append(waiters, c) \in Seq(Callers)
    BY <2>1, AppendProperties
  <2>3. QED
    BY <2>1, <2>2 DEF FirstFails, Acquire
<1>4. TypeOK'
  BY <1>1, <1>2, <1>3 DEF IInv, TypeOK, CallerTypeOK
<1>5. \A d \in Callers : CallerInv(d)'
  <2>1. CallerInv(c)'
    BY <1>1, <1>2 DEF CallerInv
  <2>2. QED
    BY <1>1, <1>2, <1>3, <2>1, OthersUnaffected
<1>6. StageInv' /\ PublishedInv' /\ NoConnectionLeaked'
  BY <1>1, <1>2, <1>3, NoCallerAssumption
     DEF IInv, TypeOK, StageInv, PublishedInv, NoConnectionLeaked, OthersKept
<1>7. QED
  BY <1>4, <1>5, <1>6 DEF IInv

\* FindReplaced: the retry goes out on a client other than the stale one.
LEMMA FindReplacedInv ==
  ASSUME IInv, NEW c \in Callers, FindReplaced(c)
  PROVE  IInv'
<1>1. /\ pc[c] = "locking" /\ owner = c /\ client # stale[c]
      /\ CallerTypeOK /\ CallerInv(c) /\ stage # "starting"
      /\ client \in Conns \cup {NoConn}
      /\ UNCHANGED <<up, conn, client, stage>>
  BY TypeParts DEF FindReplaced
<1>2. /\ CallerTypeOK' /\ OthersKept(c)
      /\ \/ /\ pc'[c] = "idle" /\ reqs'[c] = 0 /\ tries'[c] = 1
         \/ /\ pc'[c] = "retry" /\ on'[c] = client /\ client # NoConn
            /\ stale'[c] = stale[c]
            /\ reqs'[c] = reqs[c] + 1 /\ tries'[c] = tries[c]
  BY <1>1, SecondRequestEffect DEF FindReplaced
<1>3. TypeOK'
  BY <1>1, <1>2, ReleaseType DEF FindReplaced, IInv, TypeOK, CallerTypeOK
<1>4. \A d \in Callers : CallerInv(d)'
  <2>1. CallerInv(c)'
    BY <1>1, <1>2 DEF CallerInv, CallerTypeOK
  <2>2. QED
    BY <1>1, <1>2, <2>1, OthersUnaffected
<1>5. StageInv' /\ PublishedInv' /\ NoConnectionLeaked'
  BY <1>1, <1>2 DEF IInv, StageInv, PublishedInv, NoConnectionLeaked
<1>6. QED
  BY <1>3, <1>4, <1>5 DEF IInv

\* BeginClose: the owner closes the client its own request failed on.
LEMMA BeginCloseInv ==
  ASSUME IInv, NEW c \in Callers, BeginClose(c)
  PROVE  IInv'
<1>1. /\ pc[c] = "locking" /\ owner = c /\ client = stale[c] /\ client \in Conns
      /\ CallerTypeOK /\ CallerInv(c) /\ stage # "starting"
      /\ UNCHANGED <<up, client, owner, waiters, stage>>
  BY TypeParts, NoConnAssumption DEF BeginClose, CallerInv, lockVars
<1>2. /\ CallerTypeOK' /\ OthersKept(c)
      /\ pc'[c] = "closing" /\ stale'[c] = stale[c]
      /\ reqs'[c] = reqs[c] /\ tries'[c] = tries[c]
  BY <1>1 DEF BeginClose, CallerTypeOK, OthersKept, PC
<1>3. /\ conn' \in [Conns -> ConnState] /\ conn'[client] = "closing"
      /\ \A k \in Conns \ {client} : conn'[k] = conn[k]
  BY <1>1 DEF BeginClose, IInv, TypeOK, ConnState
<1>4. TypeOK'
  BY <1>1, <1>2, <1>3 DEF IInv, TypeOK, CallerTypeOK
<1>5. \A d \in Callers : CallerInv(d)'
  <2>1. CallerInv(c)'
    BY <1>1, <1>2 DEF CallerInv
  <2>2. QED
    BY <1>1, <1>2, <2>1, OthersUnaffected
<1>6. StageInv' /\ PublishedInv' /\ NoConnectionLeaked'
  BY <1>1, <1>2, <1>3 DEF IInv, StageInv, PublishedInv, NoConnectionLeaked, OthersKept
<1>7. QED
  BY <1>4, <1>5, <1>6 DEF IInv

\* What BeginConnect makes of a reference to a connection object.
LEMMA BuriedEffect ==
  ASSUME NEW refs \in [Callers -> Conns \cup {NoConn, Gone}]
  PROVE  /\ Buried(refs) \in [Callers -> Conns \cup {NoConn, Gone}]
         /\ \A d \in Callers : Buried(refs)[d] = IF refs[d] = client THEN Gone ELSE refs[d]
BY DEF Buried

\* BeginConnect: the old client is closed before the new one opens.
LEMMA BeginConnectInv ==
  ASSUME IInv, NEW c \in Callers, NEW k \in Conns, BeginConnect(c, k)
  PROVE  IInv'
<1>1. /\ pc[c] = "closing" /\ owner = c /\ client \in Conns
      /\ CallerTypeOK /\ CallerInv(c) /\ stage # "starting"
      /\ Fresh(k) /\ k # client
      /\ client' = NoConn
      /\ UNCHANGED <<up, owner, waiters, stage, tries, reqs>>
  BY TypeParts DEF BeginConnect, Fresh, CallerInv, lockVars
<1>2. /\ pc' \in [Callers -> PC] /\ pc'[c] = "connecting"
      /\ \A d \in Callers \ {c} : pc'[d] = pc[d]
  BY <1>1 DEF BeginConnect, CallerTypeOK, PC
<1>3. /\ on' \in [Callers -> Conns \cup {NoConn, Gone}] /\ on'[c] = k
      /\ \A d \in Callers \ {c} : on'[d] = IF on[d] = client THEN Gone ELSE on[d]
  BY <1>1, BuriedEffect DEF BeginConnect, CallerTypeOK
<1>4. /\ stale' \in [Callers -> Conns \cup {NoConn, Gone}]
      /\ \A d \in Callers : stale'[d] = IF stale[d] = client THEN Gone ELSE stale[d]
  BY <1>1, BuriedEffect DEF BeginConnect, CallerTypeOK
<1>5. /\ conn' \in [Conns -> ConnState]
      /\ conn'[client] = "closed"
      /\ \A j \in Conns \ {client, k} : conn'[j] = conn[j]
  BY <1>1 DEF BeginConnect, IInv, TypeOK, ConnState
<1>6. TypeOK'
  BY <1>1, <1>2, <1>3, <1>4, <1>5 DEF IInv, TypeOK
<1>7. CallerInv(c)'
  <2>1. stale'[c] # k
    BY <1>1, <1>4, NoConnAssumption DEF Fresh
  <2>2. QED
    BY <1>1, <1>2, <1>3, <2>1 DEF CallerInv
<1>8. ASSUME NEW d \in Callers \ {c}
      PROVE  CallerInv(d)'
  <2>1. CallerInv(d) /\ pc[d] \notin {"closing", "connecting"}
    BY <1>1 DEF IInv, CallerInv
  <2>2. QED
    BY <1>1, <1>2, <1>3, <1>4, <2>1 DEF CallerInv
<1>9. StageInv' /\ PublishedInv'
  BY <1>1 DEF StageInv, PublishedInv
<1>10. NoConnectionLeaked'
  <2>1. \A d \in Callers : pc[d] # "connecting"
    BY <1>1 DEF IInv, CallerInv
  <2>2. \A j \in Conns \ {client} : conn[j] = "closed"
    BY <2>1 DEF IInv, NoConnectionLeaked
  <2>3. QED
    BY <1>1, <1>2, <1>3, <1>5, <2>2 DEF NoConnectionLeaked
<1>11. QED
  BY <1>6, <1>7, <1>8, <1>9, <1>10 DEF IInv

\* HandshakeDone: the new client is published and the lock handed on.
LEMMA HandshakeDoneInv ==
  ASSUME IInv, NEW c \in Callers, HandshakeDone(c)
  PROVE  IInv'
<1>1. /\ pc[c] = "connecting" /\ owner = c /\ client = NoConn
      /\ on[c] \in Conns /\ on[c] # stale[c]
      /\ CallerTypeOK /\ CallerInv(c) /\ stage # "starting"
      /\ client' = on[c]
      /\ UNCHANGED <<up, stage>>
  BY TypeParts DEF HandshakeDone, CallerInv
<1>2. /\ CallerTypeOK' /\ OthersKept(c)
      /\ \/ /\ pc'[c] = "idle" /\ reqs'[c] = 0 /\ tries'[c] = 1
         \/ /\ pc'[c] = "retry" /\ on'[c] = on[c]
            /\ stale'[c] = stale[c]
            /\ reqs'[c] = reqs[c] + 1 /\ tries'[c] = tries[c]
  BY <1>1, SecondRequestEffect DEF HandshakeDone
<1>3. /\ conn' \in [Conns -> ConnState]
      /\ \A k \in Conns \ {on[c]} : conn'[k] = conn[k]
  BY <1>1 DEF HandshakeDone, IInv, TypeOK, ConnState
<1>4. TypeOK'
  BY <1>1, <1>2, <1>3, ReleaseType DEF HandshakeDone, IInv, TypeOK, CallerTypeOK
<1>5. \A d \in Callers : CallerInv(d)'
  <2>1. CallerInv(c)'
    BY <1>1, <1>2 DEF CallerInv, CallerTypeOK
  <2>2. QED
    BY <1>1, <1>2, <2>1, OthersUnaffected
<1>6. StageInv' /\ PublishedInv'
  BY <1>1 DEF StageInv, PublishedInv, HandshakeDone, IInv, TypeOK
<1>7. NoConnectionLeaked'
  <2>1. \A k \in Conns \ {on[c]} : conn[k] = "closed"
    BY <1>1, NoConnAssumption DEF IInv, NoConnectionLeaked, CallerInv
  <2>2. QED
    BY <1>1, <1>3, <2>1 DEF NoConnectionLeaked
<1>8. QED
  BY <1>4, <1>5, <1>6, <1>7 DEF IInv

\* A handshake that ends without a connection leaves nothing open and nothing
\* published.
LEMMA NothingOpen ==
  ASSUME IInv, NEW c \in Callers, pc[c] = "connecting",
         NEW f, f = [conn EXCEPT ![on[c]] = "closed"]
  PROVE  f \in [Conns -> ConnState] /\ \A k \in Conns : f[k] = "closed"
<1>1. /\ owner = c /\ client = NoConn /\ on[c] \in Conns
      /\ conn \in [Conns -> ConnState]
  BY DEF IInv, CallerInv, TypeOK
<1>2. \A k \in Conns \ {on[c]} : conn[k] = "closed"
  BY <1>1, NoConnAssumption DEF IInv, NoConnectionLeaked, CallerInv
<1>3. QED
  BY <1>1, <1>2 DEF ConnState

\* HandshakeFails and HandshakeTimesOut: nothing published, the lock handed on.
LEMMA HandshakeLostInv ==
  ASSUME IInv, NEW c \in Callers, HandshakeFails(c) \/ HandshakeTimesOut(c)
  PROVE  IInv'
<1>1. /\ pc[c] = "connecting" /\ owner = c /\ client = NoConn
      /\ CallerTypeOK /\ CallerInv(c) /\ stage # "starting"
      /\ conn' = [conn EXCEPT ![on[c]] = "closed"]
      /\ Release
      /\ UNCHANGED <<up, client, stage>>
  BY TypeParts DEF HandshakeFails, HandshakeTimesOut, CallerInv
<1>2. /\ CallerTypeOK' /\ OthersKept(c)
      /\ pc'[c] = "idle" /\ reqs'[c] = 0 /\ tries'[c] = 1
  <2>1. CASE HandshakeFails(c)
    BY <1>1, <2>1, FinishEffect DEF HandshakeFails
  <2>2. CASE HandshakeTimesOut(c)
    BY <1>1, <2>2, RetryTimeoutEffect DEF HandshakeTimesOut
  <2>3. QED
    BY <2>1, <2>2
<1>3. conn' \in [Conns -> ConnState] /\ \A k \in Conns : conn'[k] = "closed"
  BY <1>1, NothingOpen
<1>4. TypeOK'
  BY <1>1, <1>2, <1>3, ReleaseType DEF IInv, TypeOK, CallerTypeOK
<1>5. \A d \in Callers : CallerInv(d)'
  <2>1. CallerInv(c)'
    BY <1>2 DEF CallerInv
  <2>2. QED
    BY <1>1, <1>2, <2>1, OthersUnaffected
<1>6. StageInv' /\ PublishedInv' /\ NoConnectionLeaked'
  BY <1>1, <1>3 DEF StageInv, PublishedInv, NoConnectionLeaked
<1>7. QED
  BY <1>4, <1>5, <1>6 DEF IInv

\* Cancel, at every await: whoever reconnected leaves nothing half open.
LEMMA CancelInv ==
  ASSUME IInv, NEW c \in Callers, Cancel(c)
  PROVE  IInv'
<1>1. /\ CallerTypeOK /\ CallerInv(c) /\ stage # "starting" /\ pc[c] # "idle"
      /\ UNCHANGED <<up, client, stage>>
  BY TypeParts DEF Cancel
<1>2. /\ CallerTypeOK' /\ OthersKept(c)
      /\ pc'[c] = "idle" /\ reqs'[c] = 0 /\ tries'[c] = 1
  BY <1>1, FinishEffect DEF Cancel
<1>3. /\ owner' \in Callers \cup {NoCaller} /\ waiters' \in Seq(Callers)
      /\ owner' = owner \/ owner = c
  <2>1. TypeOK
    BY DEF IInv
  <2>2. CASE owner = c /\ Release
    BY <2>1, <2>2, ReleaseType
  <2>3. ASSUME NEW i \in DOMAIN waiters, owner' = owner,
               waiters' = SubSeq(waiters, 1, i - 1) \o SubSeq(waiters, i + 1, Len(waiters))
        PROVE  owner' \in Callers \cup {NoCaller} /\ waiters' \in Seq(Callers)
    <3>1. waiters \in Seq(Callers) /\ owner \in Callers \cup {NoCaller}
      BY <2>1 DEF TypeOK
    <3>2. SubSeq(waiters, 1, i - 1) \o SubSeq(waiters, i + 1, Len(waiters)) \in Seq(Callers)
      BY <3>1, DequeueType
    <3>3. QED
      BY <2>3, <3>1, <3>2
  <2>4. CASE UNCHANGED <<owner, waiters>>
    BY <2>1, <2>4 DEF TypeOK
  <2>5. QED
    BY <2>2, <2>3, <2>4 DEF Cancel, Abandon
<1>4. /\ conn' \in [Conns -> ConnState]
      /\ \A k \in Conns : conn'[k] = conn[k] \/ conn'[k] = "closed"
      /\ pc[c] = "connecting" => conn'[on[c]] = "closed"
  BY <1>1 DEF Cancel, IInv, TypeOK, ConnState, CallerInv
<1>5. TypeOK'
  BY <1>1, <1>2, <1>3, <1>4 DEF IInv, TypeOK, CallerTypeOK
<1>6. \A d \in Callers : CallerInv(d)'
  <2>1. CallerInv(c)'
    BY <1>2 DEF CallerInv
  <2>2. QED
    BY <1>1, <1>2, <1>3, <2>1, OthersUnaffected
<1>7. StageInv' /\ PublishedInv'
  BY <1>1 DEF StageInv, PublishedInv, Cancel, IInv, TypeOK, CallerInv
<1>8. NoConnectionLeaked'
  <2> SUFFICES ASSUME NEW k \in Conns, conn'[k] # "closed", client' # k
               PROVE  \E d \in Callers : pc'[d] = "connecting" /\ on'[d] = k /\ owner' = d
    BY DEF NoConnectionLeaked
  <2>1. conn[k] # "closed" /\ client # k
    BY <1>1, <1>4
  <2>2. PICK d \in Callers : pc[d] = "connecting" /\ on[d] = k /\ owner = d
    BY <2>1 DEF IInv, NoConnectionLeaked
  <2>3. d # c
    BY <2>2, <1>4
  <2>4. QED
    BY <1>2, <1>3, <2>2, <2>3 DEF OthersKept
<1>9. QED
  BY <1>5, <1>6, <1>7, <1>8 DEF IInv

-----------------------------------------------------------------------------
(* Steps of the process, of upstream and of the network                    *)

\* StartConnect publishes the first client.
LEMMA StartConnectInv ==
  ASSUME IInv, NEW k \in Conns, StartConnect(k)
  PROVE  IInv'
<1>1. /\ stage = "starting" /\ client = NoConn /\ \A c \in Callers : pc[c] = "idle"
      /\ client' = k /\ stage' = "serving"
      /\ UNCHANGED <<up, owner, waiters, pc, on, stale, tries, reqs>>
  BY DEF StartConnect, IInv, StageInv, lockVars, callerVars
<1>2. /\ conn' \in [Conns -> ConnState] /\ conn'[k] = "open"
      /\ \A j \in Conns \ {k} : conn'[j] = conn[j]
  BY DEF StartConnect, IInv, TypeOK, ConnState
<1>3. TypeOK'
  BY <1>1, <1>2 DEF IInv, TypeOK
<1>4. \A c \in Callers : CallerInv(c)'
  BY <1>1 DEF IInv, CallerInv
<1>5. StageInv' /\ PublishedInv' /\ NoConnectionLeaked'
  BY <1>1, <1>2, NoConnAssumption DEF IInv, StageInv, PublishedInv, NoConnectionLeaked
<1>6. QED
  BY <1>3, <1>4, <1>5 DEF IInv

\* StartFails and Shutdown leave nothing open.
LEMMA ProcessEndInv ==
  ASSUME IInv, StartFails \/ Shutdown
  PROVE  IInv'
<1>1. CASE StartFails
  BY <1>1 DEF StartFails, lockVars, callerVars, IInv, TypeOK, CallerInv, StageInv,
       PublishedInv, NoConnectionLeaked
<1>2. CASE Shutdown
  <2>1. /\ \A c \in Callers : pc[c] = "idle"
        /\ client' = NoConn /\ stage' = "stopped"
        /\ UNCHANGED <<up, owner, waiters, pc, on, stale, tries, reqs>>
    BY <1>2 DEF Shutdown, lockVars, callerVars
  <2>2. /\ conn' \in [Conns -> ConnState]
        /\ \A k \in Conns : conn'[k] = IF k = client THEN "closed" ELSE conn[k]
    BY <1>2 DEF Shutdown, IInv, TypeOK, ConnState
  <2>3. TypeOK'
    BY <2>1, <2>2 DEF IInv, TypeOK
  <2>4. \A c \in Callers : CallerInv(c)'
    BY <2>1 DEF IInv, CallerInv
  <2>5. StageInv' /\ PublishedInv' /\ NoConnectionLeaked'
    BY <2>1, <2>2 DEF IInv, StageInv, PublishedInv, NoConnectionLeaked
  <2>6. QED
    BY <2>3, <2>4, <2>5 DEF IInv
<1>3. QED
  BY <1>1, <1>2

\* Upstream and the network only break connections.
LEMMA NetworkInv ==
  ASSUME IInv, Crash \/ Recover \/ \E k \in Conns : Blip(k)
  PROVE  IInv'
<1>1. UNCHANGED <<client, owner, waiters, stage, pc, on, stale, tries, reqs>>
  BY DEF Crash, Recover, Blip, lockVars, callerVars
<1>2. /\ up' \in BOOLEAN /\ conn' \in [Conns -> ConnState]
      /\ \A k \in Conns : conn[k] = "closed" <=> conn'[k] = "closed"
  <2>1. up \in BOOLEAN /\ conn \in [Conns -> ConnState]
    BY DEF IInv, TypeOK
  <2>2. CASE Crash
    BY <2>1, <2>2 DEF Crash, ConnState
  <2>3. CASE Recover
    BY <2>1, <2>3 DEF Recover
  <2>4. CASE \E k \in Conns : Blip(k)
    BY <2>1, <2>4 DEF Blip, ConnState
  <2>5. QED
    BY <2>2, <2>3, <2>4
<1>3. TypeOK'
  BY <1>1, <1>2 DEF IInv, TypeOK
<1>4. \A c \in Callers : CallerInv(c)'
  BY <1>1 DEF IInv, CallerInv
<1>5. StageInv' /\ PublishedInv' /\ NoConnectionLeaked'
  BY <1>1, <1>2 DEF IInv, TypeOK, StageInv, PublishedInv, NoConnectionLeaked
<1>6. QED
  BY <1>3, <1>4, <1>5 DEF IInv

-----------------------------------------------------------------------------
\* Every step preserves the invariant.
LEMMA StepInv == IInv /\ [Next]_vars => IInv'
<1> SUFFICES ASSUME IInv, [Next]_vars
             PROVE  IInv'
  OBVIOUS
<1>1. ASSUME NEW k \in Conns, StartConnect(k) \/ Blip(k)
      PROVE  IInv'
  BY <1>1, StartConnectInv, NetworkInv
<1>2. CASE StartFails \/ Shutdown
  BY <1>2, ProcessEndInv
<1>3. CASE Crash \/ Recover
  BY <1>3, NetworkInv
<1>4. ASSUME NEW c \in Callers, Call(c) \/ Cancel(c)
      PROVE  IInv'
  BY <1>4, CallInv, CancelInv
<1>5. ASSUME NEW c \in Callers, Progress(c)
      PROVE  IInv'
  BY <1>5, AnswerInv, RequestTimesOutInv, FirstFailsInv, FindReplacedInv,
     BeginCloseInv, BeginConnectInv, HandshakeDoneInv, HandshakeLostInv DEF Progress
<1>6. CASE UNCHANGED vars
  BY <1>6 DEF vars, callerVars, IInv, TypeOK, CallerInv, StageInv, PublishedInv, NoConnectionLeaked
<1>7. QED
  BY <1>1, <1>2, <1>3, <1>4, <1>5, <1>6 DEF Next

\* The strengthened invariant holds in every reachable state.
THEOREM InductiveInvariant == Spec => []IInv
<1>1. Init => IInv
  BY InitInv
<1>2. IInv /\ [Next]_vars => IInv'
  BY StepInv
<1>3. QED
  BY <1>1, <1>2, PTL DEF Spec

\* Type correctness, for any sets of callers and connections.
THEOREM TypeCorrect == Spec => []TypeOK
<1>1. IInv => TypeOK
  BY DEF IInv
<1>2. QED
  BY <1>1, InductiveInvariant, PTL

\* Whatever is not closed is the published connection or the handshake in
\* progress: no interleaving of failing callers, cancellations and crashes
\* drops an open connection.
THEOREM NeverLeaks == Spec => []NoConnectionLeaked
<1>1. IInv => NoConnectionLeaked
  BY DEF IInv
<1>2. QED
  BY <1>1, InductiveInvariant, PTL

\* Only the lock's owner is between closing the old and publishing a new client.
THEOREM ReconnectExclusive == Spec => []OwnerReconnects
<1>1. IInv => OwnerReconnects
  BY DEF IInv, CallerInv, OwnerReconnects
<1>2. QED
  BY <1>1, InductiveInvariant, PTL

\* The two stacked retries cost upstream at most four requests for one logical
\* call, however timeouts, failures, reconnects of other callers and cancellations
\* fall: call_with_timeout_retry makes two attempts, and each may reconnect once.
THEOREM AtMostFourRequests == Spec => [](\A c \in Callers : reqs[c] <= 4)
<1>1. IInv => \A c \in Callers : reqs[c] <= 4
  <2> SUFFICES ASSUME IInv, NEW c \in Callers
               PROVE  reqs[c] <= 4
    OBVIOUS
  <2>1. CallerInv(c) /\ tries[c] \in 1..2 /\ reqs[c] \in Nat /\ pc[c] \in PC
    BY DEF IInv, TypeOK
  <2>2. QED
    BY <2>1 DEF CallerInv, PC
<1>2. QED
  BY <1>1, InductiveInvariant, PTL

\* Every step that begins the second request of _call sends it on the client that
\* is published then: another one than the first request failed on, and not closed.
THEOREM RetriesElsewhere == Spec => RetryElsewhere
<1> DEFINE Elsewhere == \A c \in Callers :
             pc[c] # "retry" /\ pc'[c] = "retry" =>
               on'[c] # stale[c] /\ on'[c] \in Conns /\ conn'[on'[c]] # "closed"
<1>1. IInv /\ [Next]_vars => Elsewhere
  <2> SUFFICES ASSUME IInv, [Next]_vars, NEW c \in Callers,
                      pc[c] # "retry", pc'[c] = "retry"
               PROVE  on'[c] # stale[c] /\ on'[c] \in Conns /\ conn'[on'[c]] # "closed"
    OBVIOUS
  <2>1. /\ conn \in [Conns -> ConnState] /\ CallerTypeOK /\ CallerInv(c)
        /\ client \in Conns \cup {NoConn} /\ PublishedInv
    BY TypeParts DEF IInv, TypeOK
  <2>2. ASSUME NEW j \in Conns, StartConnect(j) \/ Blip(j)
        PROVE  FALSE
    BY <2>2 DEF StartConnect, Blip, callerVars
  <2>3. CASE StartFails \/ Shutdown \/ Crash \/ Recover
    BY <2>3 DEF StartFails, Shutdown, Crash, Recover, callerVars
  <2>4. ASSUME NEW d \in Callers,
               Call(d) \/ Cancel(d) \/ Answer(d) \/ RequestTimesOut(d) \/ FirstFails(d)
                 \/ SecondFails(d) \/ BeginClose(d) \/ (\E j \in Conns : BeginConnect(d, j))
                 \/ HandshakeFails(d) \/ HandshakeTimesOut(d)
        PROVE  FALSE
    <3>1. pc' = [pc EXCEPT ![d] = pc'[d]] /\ pc'[d] # "retry"
      BY <2>1, <2>4
         DEF Call, Cancel, Answer, RequestTimesOut, FirstFails, SecondFails, BeginClose,
             BeginConnect, HandshakeFails, HandshakeTimesOut, FirstRequest, RetryTimeout,
             Send, Finish, CallerTypeOK
    <3>2. QED
      BY <2>1, <3>1 DEF CallerTypeOK
  <2>5. ASSUME NEW d \in Callers, FindReplaced(d) \/ HandshakeDone(d)
        PROVE  c = d
    BY <2>1, <2>5 DEF FindReplaced, HandshakeDone, SecondRequest, Send, Finish, CallerTypeOK
  <2>6. CASE FindReplaced(c)
    BY <2>1, <2>6 DEF FindReplaced, SecondRequest, Send, Finish, CallerTypeOK, PublishedInv
  <2>7. CASE HandshakeDone(c)
    BY <2>1, <2>7 DEF HandshakeDone, SecondRequest, Send, Finish, CallerTypeOK, CallerInv
  <2>8. CASE UNCHANGED vars
    BY <2>8 DEF vars, callerVars
  <2>9. QED
    BY <2>2, <2>3, <2>4, <2>5, <2>6, <2>7, <2>8 DEF Next, Progress
<1>2. QED
  BY <1>1, InductiveInvariant, PTL DEF Spec, RetryElsewhere

\* Every step that puts an open connection into closing is BeginClose of a
\* caller whose own request failed on it.
THEOREM ClosesOnlyItsOwn == Spec => FreshConnectionKept
<1> DEFINE Kept == \A k \in Conns :
             conn[k] = "open" /\ conn'[k] = "closing" =>
               \E c \in Callers : pc[c] = "locking" /\ stale[c] = k /\ pc'[c] = "closing"
<1>1. IInv /\ [Next]_vars => Kept
  <2> SUFFICES ASSUME IInv, [Next]_vars, NEW k \in Conns,
                      conn[k] = "open", conn'[k] = "closing"
               PROVE  \E c \in Callers : pc[c] = "locking" /\ stale[c] = k /\ pc'[c] = "closing"
    OBVIOUS
  <2>1. conn \in [Conns -> ConnState] /\ pc \in [Callers -> PC]
    BY DEF IInv, TypeOK
  <2>2. ASSUME NEW j \in Conns, StartConnect(j) \/ Blip(j)
        PROVE  FALSE
    BY <2>1, <2>2 DEF StartConnect, Blip
  <2>3. CASE StartFails \/ Shutdown \/ Crash \/ Recover
    BY <2>1, <2>3 DEF StartFails, Shutdown, Crash, Recover
  <2>4. ASSUME NEW c \in Callers,
               Call(c) \/ Cancel(c) \/ Answer(c) \/ RequestTimesOut(c) \/ FirstFails(c)
                 \/ SecondFails(c) \/ FindReplaced(c)
        PROVE  FALSE
    BY <2>1, <2>4
       DEF Call, Cancel, Answer, RequestTimesOut, FirstFails, SecondFails, FindReplaced
  <2>5. ASSUME NEW c \in Callers,
               (\E j \in Conns : BeginConnect(c, j)) \/ HandshakeDone(c)
                 \/ HandshakeFails(c) \/ HandshakeTimesOut(c)
        PROVE  FALSE
    BY <2>1, <2>5 DEF BeginConnect, HandshakeDone, HandshakeFails, HandshakeTimesOut
  <2>6. ASSUME NEW c \in Callers, BeginClose(c)
        PROVE  pc[c] = "locking" /\ stale[c] = k /\ pc'[c] = "closing"
    BY <2>1, <2>6 DEF BeginClose
  <2>7. CASE UNCHANGED vars
    BY <2>7 DEF vars
  <2>8. QED
    BY <2>2, <2>3, <2>4, <2>5, <2>6, <2>7 DEF Next, Progress
<1>2. QED
  BY <1>1, InductiveInvariant, PTL DEF Spec, FreshConnectionKept

=============================================================================
