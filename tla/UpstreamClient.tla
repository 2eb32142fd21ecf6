--------------------------- MODULE UpstreamClient ---------------------------
(***************************************************************************)
(* The live backend: tutu_mcp/upstream/client.py together with             *)
(* call_with_timeout_retry of tutu_mcp/backend.py.                         *)
(*                                                                         *)
(* One UpstreamClient is shared by every tools/call the proxy serves.      *)
(* Callers are asyncio tasks: the code between two awaits is one step, and *)
(* every await is a place where another task, the network or a             *)
(* cancellation of this task may step in.  The published connection is     *)
(* `client` (self._client); whoever meets a broken one replaces it under   *)
(* a FIFO lock (anyio.Lock: an owner and a queue of waiters).              *)
(*                                                                         *)
(* A logical call is                                                       *)
(*     call_with_timeout_retry(lambda: client.call_tool(...))              *)
(* and passes through the program counters                                 *)
(*   "first"      the request sent on the published connection             *)
(*   "locking"    its request failed: acquiring _reconnect_lock            *)
(*   "closing"    owner of the lock, awaiting __aexit__ of the stale client*)
(*   "connecting" owner of the lock, awaiting __aenter__ of a new client   *)
(*   "retry"      the second request of the same _call                     *)
(***************************************************************************)
EXTENDS Integers, Sequences, FiniteSets

CONSTANTS
  Callers,     \* tasks that place calls
  Conns,       \* connection objects that are not closed for good
  Gone,        \* any connection object that is: see BeginConnect
  NoConn,      \* self._client is None
  NoCaller     \* the lock has no owner

ASSUME NoConnAssumption   == NoConn \notin Conns /\ Gone \notin Conns \cup {NoConn}
ASSUME NoCallerAssumption == NoCaller \notin Callers

VARIABLES
  up,          \* upstream accepts handshakes and answers
  conn,        \* what became of each connection object
  client,      \* self._client
  owner,       \* _reconnect_lock: its owner ...
  waiters,     \* ... and the tasks queued for it
  stage,       \* of the process: "starting", "serving", "stopped"
  pc,          \* where each caller is
  on,          \* connection its current request or handshake runs on
  stale,       \* connection its first request failed on
  tries,       \* 1 or 2: which attempt of call_with_timeout_retry this is
  reqs         \* upstream requests the current logical call has cost so far

callerVars == <<pc, on, stale, tries, reqs>>
lockVars   == <<owner, waiters>>
vars       == <<up, conn, client, owner, waiters, stage, callerVars>>

ConnState == {"closed", "opening", "open", "broken", "closing"}
PC        == {"idle", "first", "locking", "closing", "connecting", "retry"}

Init ==
  /\ up \in BOOLEAN
  /\ conn = [k \in Conns |-> "closed"]
  /\ client = NoConn
  /\ owner = NoCaller
  /\ waiters = <<>>
  /\ stage = "starting"
  /\ pc = [c \in Callers |-> "idle"]
  /\ on = [c \in Callers |-> NoConn]
  /\ stale = [c \in Callers |-> NoConn]
  /\ tries = [c \in Callers |-> 1]
  /\ reqs = [c \in Callers |-> 0]

-----------------------------------------------------------------------------
(* Building blocks                                                         *)

\* A connection object nobody holds: what MCPClient(...) returns.
Fresh(k) ==
  /\ conn[k] = "closed"
  /\ client # k
  /\ \A c \in Callers : on[c] # k /\ stale[c] # k

\* References to a connection that is closed for good.  What is left to ask of
\* it is whether it is the published one, so one value stands for all of them.
Buried(refs) == [c \in Callers |-> IF refs[c] = client THEN Gone ELSE refs[c]]

\* The logical call of c ends, with an answer or an exception: its frames are
\* gone, and with them the references they held.
Finish(c) ==
  /\ pc' = [pc EXCEPT ![c] = "idle"]
  /\ on' = [on EXCEPT ![c] = NoConn]
  /\ stale' = [stale EXCEPT ![c] = NoConn]
  /\ tries' = [tries EXCEPT ![c] = 1]
  /\ reqs' = [reqs EXCEPT ![c] = 0]

\* `call(self._require_client())` when the published client is k.
Send(c, step, k) ==
  /\ k # NoConn
  /\ pc' = [pc EXCEPT ![c] = step]
  /\ on' = [on EXCEPT ![c] = k]
  /\ reqs' = [reqs EXCEPT ![c] = @ + 1]

\* _call's first request: _require_client() stands outside the try, so its
\* RuntimeError leaves the backend as it is.
FirstRequest(c, attempt, k) ==
  \/ /\ Send(c, "first", k)
     /\ tries' = [tries EXCEPT ![c] = attempt]
     /\ stale' = [stale EXCEPT ![c] = NoConn]
  \/ k = NoConn /\ Finish(c)

\* The request after _reconnect returned: _require_client() stands inside the
\* inner try, so the same RuntimeError is translated.
SecondRequest(c, k) ==
  \/ Send(c, "retry", k) /\ UNCHANGED <<stale, tries>>
  \/ k = NoConn /\ Finish(c)

\* (Mutation: repeat for as long as it times out.)
RetryTimeoutForever(c) ==
  FirstRequest(c, tries[c] + 1, client)

\* BackendTimeoutError arrives in call_with_timeout_retry: one more attempt,
\* begun in the same step.
RetryTimeout(c) ==
  \/ tries[c] = 1 /\ FirstRequest(c, 2, client)
  \/ tries[c] = 2 /\ Finish(c)

\* _reconnect_lock: Acquire, Release, Abandon.
INSTANCE FifoLock WITH NoTask <- NoCaller

-----------------------------------------------------------------------------
(* The process: serve() enters the client before it listens, closes it after *)

StartConnect(k) ==
  /\ stage = "starting" /\ up /\ Fresh(k)
  /\ conn' = [conn EXCEPT ![k] = "open"]
  /\ client' = k
  /\ stage' = "serving"
  /\ UNCHANGED <<up, lockVars, callerVars>>

\* The handshake fails or times out: BackendError leaves serve(), main exits 1.
StartFails ==
  /\ stage = "starting"
  /\ stage' = "stopped"
  /\ UNCHANGED <<up, conn, client, lockVars, callerVars>>

\* aclose, once the server's handlers are gone.
Shutdown ==
  /\ stage = "serving"
  /\ \A c \in Callers : pc[c] = "idle"
  /\ conn' = [k \in Conns |-> IF k = client THEN "closed" ELSE conn[k]]
  /\ client' = NoConn
  /\ stage' = "stopped"
  /\ UNCHANGED <<up, lockVars, callerVars>>

-----------------------------------------------------------------------------
(* A caller                                                                *)

Call(c) ==
  /\ stage = "serving" /\ pc[c] = "idle"
  /\ FirstRequest(c, 1, client)
  /\ UNCHANGED <<up, conn, client, lockVars, stage>>

Answer(c) ==
  /\ pc[c] \in {"first", "retry"} /\ on[c] \in Conns /\ conn[on[c]] = "open"
  /\ Finish(c)
  /\ UNCHANGED <<up, conn, client, lockVars, stage>>

\* A timeout of either request is never a reason to reconnect.
RequestTimesOut(c) ==
  /\ pc[c] \in {"first", "retry"}
  /\ RetryTimeout(c)
  /\ UNCHANGED <<up, conn, client, lockVars, stage>>

\* (Mutation: no _reconnect_lock.)
FirstFailsUnlocked(c) ==
  /\ pc[c] = "first"
  /\ pc' = [pc EXCEPT ![c] = "locking"]
  /\ stale' = [stale EXCEPT ![c] = on[c]]
  /\ on' = [on EXCEPT ![c] = NoConn]
  /\ owner' = c
  /\ UNCHANGED <<up, conn, client, waiters, stage, tries, reqs>>

\* Anything else: a broken connection, or an MCPError on a healthy one.
FirstFails(c) ==
  /\ pc[c] = "first"
  /\ pc' = [pc EXCEPT ![c] = "locking"]
  /\ stale' = [stale EXCEPT ![c] = on[c]]
  /\ on' = [on EXCEPT ![c] = NoConn]
  /\ Acquire(c)
  /\ UNCHANGED <<up, conn, client, stage, tries, reqs>>

SecondFails(c) ==
  /\ pc[c] = "retry"
  /\ Finish(c)
  /\ UNCHANGED <<up, conn, client, lockVars, stage>>

\* (Mutation: the retry reuses the connection the first request failed on.)
FindReplacedRetryStale(c) ==
  /\ pc[c] = "locking" /\ owner = c /\ client # stale[c]
  /\ Release
  /\ SecondRequest(c, stale[c])
  /\ UNCHANGED <<up, conn, client, stage>>

\* `if self._client is not stale: return`: somebody was faster.
FindReplaced(c) ==
  /\ pc[c] = "locking" /\ owner = c /\ client # stale[c]
  /\ Release
  /\ SecondRequest(c, client)
  /\ UNCHANGED <<up, conn, client, stage>>

\* (Mutation: no comparison with the stale client.)
BeginCloseUnchecked(c) ==
  /\ pc[c] = "locking" /\ owner = c /\ client # NoConn
  /\ conn' = [conn EXCEPT ![client] = "closing"]
  /\ pc' = [pc EXCEPT ![c] = "closing"]
  /\ UNCHANGED <<up, client, lockVars, stage, on, stale, tries, reqs>>

BeginClose(c) ==
  /\ pc[c] = "locking" /\ owner = c /\ client = stale[c]
  /\ conn' = [conn EXCEPT ![client] = "closing"]
  /\ pc' = [pc EXCEPT ![c] = "closing"]
  /\ UNCHANGED <<up, client, lockVars, stage, on, stale, tries, reqs>>

\* __aexit__ returned or raised (suppressed); connect() begins in the same step.
BeginConnect(c, k) ==
  /\ pc[c] = "closing" /\ Fresh(k)
  /\ conn' = [conn EXCEPT ![client] = "closed", ![k] = "opening"]
  /\ client' = NoConn
  /\ pc' = [pc EXCEPT ![c] = "connecting"]
  /\ on' = [Buried(on) EXCEPT ![c] = k]
  /\ stale' = Buried(stale)
  /\ UNCHANGED <<up, lockVars, stage, tries, reqs>>

HandshakeDone(c) ==
  /\ pc[c] = "connecting" /\ up
  /\ conn' = [conn EXCEPT ![on[c]] = "open"]
  /\ client' = on[c]
  /\ Release
  /\ SecondRequest(c, on[c])
  /\ UNCHANGED <<up, stage>>

\* (Mutation: the lock is not released on that path.)
HandshakeFailsHoldingLock(c) ==
  /\ pc[c] = "connecting"
  /\ conn' = [conn EXCEPT ![on[c]] = "closed"]
  /\ Finish(c)
  /\ UNCHANGED <<up, client, lockVars, stage>>

\* The failed handshake leaves _call from inside its except clause.
HandshakeFails(c) ==
  /\ pc[c] = "connecting"
  /\ conn' = [conn EXCEPT ![on[c]] = "closed"]
  /\ Release
  /\ Finish(c)
  /\ UNCHANGED <<up, client, stage>>

\* A handshake that times out is a BackendTimeoutError like any other.
HandshakeTimesOut(c) ==
  /\ pc[c] = "connecting"
  /\ conn' = [conn EXCEPT ![on[c]] = "closed"]
  /\ Release
  /\ RetryTimeout(c)
  /\ UNCHANGED <<up, client, stage>>

\* The downstream client gave up on its request: CancelledError at any await.
\* A cancelled __aexit__ leaves self._client published, a cancelled handshake
\* leaves it None.
Cancel(c) ==
  /\ pc[c] # "idle"
  /\ conn' = [k \in Conns |->
                IF pc[c] = "connecting" /\ k = on[c] THEN "closed" ELSE conn[k]]
  /\ Abandon(c)
  /\ Finish(c)
  /\ UNCHANGED <<up, client, stage>>

-----------------------------------------------------------------------------
(* Upstream and the network                                                *)

Crash ==
  /\ up
  /\ up' = FALSE
  /\ conn' = [k \in Conns |-> IF conn[k] = "open" THEN "broken" ELSE conn[k]]
  /\ UNCHANGED <<client, lockVars, stage, callerVars>>

Recover ==
  /\ ~up
  /\ up' = TRUE
  /\ UNCHANGED <<conn, client, lockVars, stage, callerVars>>

Blip(k) ==
  /\ conn[k] = "open"
  /\ conn' = [conn EXCEPT ![k] = "broken"]
  /\ UNCHANGED <<up, client, lockVars, stage, callerVars>>

-----------------------------------------------------------------------------
\* What the event loop and the configured timeouts make a caller do by itself.
Progress(c) ==
  \/ Answer(c) \/ RequestTimesOut(c) \/ FirstFails(c) \/ SecondFails(c)
  \/ FindReplaced(c) \/ BeginClose(c)
  \/ \E k \in Conns : BeginConnect(c, k)
  \/ HandshakeDone(c) \/ HandshakeFails(c) \/ HandshakeTimesOut(c)

Next ==
  \/ \E k \in Conns : StartConnect(k) \/ Blip(k)
  \/ StartFails \/ Shutdown \/ Crash \/ Recover
  \/ \E c \in Callers : Call(c) \/ Cancel(c) \/ Progress(c)

Spec == Init /\ [][Next]_vars

\* Every await of a caller ends: requests and handshakes carry
\* read_timeout_seconds, and the loop runs every ready task.
FairSpec == Spec /\ \A c \in Callers : WF_vars(Progress(c))

-----------------------------------------------------------------------------
(* Properties                                                              *)

TypeOK ==
  /\ up \in BOOLEAN
  /\ conn \in [Conns -> ConnState]
  /\ client \in Conns \cup {NoConn}
  /\ owner \in Callers \cup {NoCaller}
  /\ waiters \in Seq(Callers)
  /\ stage \in {"starting", "serving", "stopped"}
  /\ pc \in [Callers -> PC]
  /\ on \in [Callers -> Conns \cup {NoConn, Gone}]
  /\ stale \in [Callers -> Conns \cup {NoConn, Gone}]
  /\ tries \in [Callers -> 1..2]
  /\ reqs \in [Callers -> Nat]

\* Mutual exclusion of _reconnect: only the lock's owner closes the old client
\* or opens a new one.
OwnerReconnects ==
  \A c \in Callers : pc[c] \in {"closing", "connecting"} => owner = c

\* No connection is dropped on the floor still open: whatever is not closed is
\* the published client or the handshake in progress (the hazard the comment on
\* _reconnect_lock names).
NoConnectionLeaked ==
  \A k \in Conns :
    conn[k] # "closed" =>
      \/ client = k
      \/ \E c \in Callers : pc[c] = "connecting" /\ on[c] = k /\ owner = c

\* What a test of the two stacked retries is named for: one logical call never
\* costs more than three upstream requests, its worst mix being timeout, failure,
\* retry.  (Four is what the code keeps to, when the first attempt fails before it
\* times out: each of its two attempts may reconnect.)
RequestBudget == \A c \in Callers : reqs[c] <= 3

\* The retry of _call never goes out on the connection the first request
\* failed on, nor on one that is closed, whoever did the reconnecting in between.
RetryElsewhere ==
  [][\A c \in Callers :
       pc[c] # "retry" /\ pc'[c] = "retry" =>
         on'[c] # stale[c] /\ on'[c] \in Conns /\ conn'[on'[c]] # "closed"]_vars

\* Whoever takes the lock second leaves the connection the first one opened
\* alone: a healthy connection is closed only by a caller whose own request
\* failed on that very connection, or by shutdown.
FreshConnectionKept ==
  [][\A k \in Conns :
       conn[k] = "open" /\ conn'[k] = "closing" =>
         \E c \in Callers : pc[c] = "locking" /\ stale[c] = k /\ pc'[c] = "closing"]_vars

\* Every logical call ends, also for callers queued behind a reconnect that
\* fails or is cancelled.
CallsEnd == \A c \in Callers : pc[c] # "idle" ~> pc[c] = "idle"

\* What the docstring of _call says the reconnect is for: a network blip or an
\* upstream restart does not wedge every later call.  Once upstream stays up and
\* calls keep coming, a connection is published again.
WedgeEnds == <>[](up /\ stage = "serving") => []<>(client # NoConn)

\* The specification WedgeEnds is about: callers keep placing calls.
BusySpec == FairSpec /\ \A c \in Callers : WF_vars(Call(c))

=============================================================================
