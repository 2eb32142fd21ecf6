------------------------------- MODULE FifoLock -------------------------------
(***************************************************************************)
(* anyio.Lock on asyncio, as the proxy uses it (catalog_lock, and          *)
(* _reconnect_lock of the upstream client): one owner and a queue.  A      *)
(* release hands the lock to the oldest waiter at once, before that task   *)
(* runs again.                                                             *)
(***************************************************************************)
EXTENDS Integers, Sequences

CONSTANT NoTask       \* the lock is free
VARIABLES owner, waiters

\* The caller owns the lock at once or joins the queue.
Acquire(t) ==
  IF owner = NoTask
  THEN owner' = t /\ UNCHANGED waiters
  ELSE waiters' = Append(waiters, t) /\ UNCHANGED owner

Release ==
  IF waiters = <<>>
  THEN owner' = NoTask /\ UNCHANGED waiters
  ELSE owner' = Head(waiters) /\ waiters' = Tail(waiters)

\* A cancelled owner releases the lock, a cancelled waiter leaves the queue.
Abandon(t) ==
  \/ owner = t /\ Release
  \/ /\ owner # t
     /\ \E i \in DOMAIN waiters :
          /\ waiters[i] = t
          /\ waiters' = SubSeq(waiters, 1, i - 1) \o SubSeq(waiters, i + 1, Len(waiters))
     /\ UNCHANGED owner
  \/ /\ owner # t
     /\ \A i \in DOMAIN waiters : waiters[i] # t
     /\ UNCHANGED <<owner, waiters>>
=============================================================================
