-------------------------- MODULE CatalogCacheProofs --------------------------
(***************************************************************************)
(* Safety of CatalogCache for any number of tasks and catalog versions,    *)
(* and that it implements AtomicCatalog.  IInv is the inductive invariant. *)
(***************************************************************************)
EXTENDS CatalogCache, SequenceTheorems, TLAPS

\* Removing one waiter leaves a queue of callers.
LEMMA DequeueType ==
  ASSUME NEW S, NEW s \in Seq(S), NEW i \in DOMAIN s
  PROVE  SubSeq(s, 1, i - 1) \o SubSeq(s, i + 1, Len(s)) \in Seq(S)
<1>1. i \in 1..Len(s)
  BY LenProperties
<1>2. SubSeq(s, 1, i - 1) \in Seq(S)
  BY <1>1, LenProperties, SubSeqProperties
<1>3. SubSeq(s, i + 1, Len(s)) \in Seq(S)
  BY <1>1, LenProperties, SubSeqProperties
<1>4. QED
  BY <1>2, <1>3, ConcatProperties

\* A task that fetches owns the lock, and nothing is usable meanwhile; what it
\* brings upstream has served since the catalog went stale.
TaskInv(t) ==
  /\ pc[t] \in {"fetching", "replying"} => owner = t /\ ~Usable
  /\ pc[t] = "replying" => reply[t] \in floor..upstream

\* The catalog is one upstream has served, before it last went stale if it has.
VersionInv ==
  /\ floor <= upstream
  /\ fresh => catalog # NoCatalog
  /\ catalog # NoCatalog => catalog <= upstream
  /\ catalog # NoCatalog /\ ~fresh => catalog <= floor

IInv ==
  /\ TypeOK
  /\ \A t \in Tasks : TaskInv(t)
  /\ VersionInv

-----------------------------------------------------------------------------
(* Building blocks                                                         *)

\* The lock stays well-typed.
LEMMA LockType ==
  ASSUME TypeOK, NEW t \in Tasks, Acquire(t) \/ Release \/ Abandon(t) \/ UNCHANGED lockVars
  PROVE  owner' \in Tasks \cup {NoTask} /\ waiters' \in Seq(Tasks)
<1>1. owner \in Tasks \cup {NoTask} /\ waiters \in Seq(Tasks)
  BY DEF TypeOK
<1>2. CASE Acquire(t)
  <2>1. Append(waiters, t) \in Seq(Tasks)
    BY <1>1, AppendProperties
  <2>2. QED
    BY <1>1, <1>2, <2>1 DEF Acquire
<1>3. CASE Release
  <2>1. CASE waiters = <<>>
    BY <1>1, <1>3, <2>1 DEF Release
  <2>2. CASE waiters # <<>>
    <3>1. Head(waiters) \in Tasks /\ Tail(waiters) \in Seq(Tasks)
      BY <1>1, <2>2, HeadTailProperties
    <3>2. QED
      BY <1>3, <2>2, <3>1 DEF Release
  <2>3. QED
    BY <2>1, <2>2
<1>4. ASSUME NEW i \in DOMAIN waiters, owner' = owner,
             waiters' = SubSeq(waiters, 1, i - 1) \o SubSeq(waiters, i + 1, Len(waiters))
      PROVE  owner' \in Tasks \cup {NoTask} /\ waiters' \in Seq(Tasks)
  <2>1. SubSeq(waiters, 1, i - 1) \o SubSeq(waiters, i + 1, Len(waiters)) \in Seq(Tasks)
    BY <1>1, DequeueType
  <2>2. QED
    BY <1>1, <1>4, <2>1
<1>5. CASE UNCHANGED <<owner, waiters>>
  BY <1>1, <1>5
<1>6. QED
  BY <1>2, <1>3, <1>4, <1>5 DEF Abandon, lockVars

\* The tasks' own variables, and what a step of t leaves of the others.
TaskType ==
  /\ pc \in [Tasks -> PC]
  /\ kind \in [Tasks -> {"list", "call"}]
  /\ tries \in [Tasks -> 1..2]
  /\ reply \in [Tasks -> Versions \cup {NoCatalog}]
  /\ outcome \in [Tasks -> {"none", "ok", "failed", "error", "cancelled"}]

Others(t) == \A d \in Tasks \ {t} : pc'[d] = pc[d] /\ reply'[d] = reply[d]

\* Serving ends the load.
LEMMA ServeEffect ==
  ASSUME TaskType, kind' \in [Tasks -> {"list", "call"}], NEW t \in Tasks,
         NEW k, Serve(t, k)
  PROVE  TaskType' /\ Others(t) /\ pc'[t] \in {"idle", "calling"}
BY DEF Serve, TaskType, Others, PC

\* Leaving ends the request.
LEMMA LeaveEffect ==
  ASSUME TaskType, NEW t \in Tasks, NEW how \in {"ok", "failed", "error", "cancelled"},
         Leave(t, how)
  PROVE  TaskType' /\ Others(t) /\ pc'[t] = "idle"
BY DEF Leave, TaskType, Others, PC

\* A step of t that leaves the catalog alone, and moves the lock only from
\* nobody or from t, does not disturb the other tasks.
LEMMA OthersStand ==
  ASSUME IInv, NEW t \in Tasks, Others(t),
         UNCHANGED <<upstream, floor, catalog, fresh>>,
         owner' = owner \/ owner = NoTask \/ owner = t,
         NEW d \in Tasks \ {t}
  PROVE  TaskInv(d)'
BY NoTaskAssumption DEF IInv, TaskInv, Others, Usable

\* While t fetches nobody else does.
LEMMA FetchesAlone ==
  ASSUME IInv, NEW t \in Tasks, pc[t] \in {"fetching", "replying"}
  PROVE  /\ owner = t /\ ~Usable /\ fresh = FALSE
         /\ \A d \in Tasks \ {t} : pc[d] \notin {"fetching", "replying"}
BY DEF IInv, TaskInv, VersionInv, Usable, TypeOK

\* A step of t that ends its fetch may change the catalog.
LEMMA OthersIdle ==
  ASSUME IInv, NEW t \in Tasks, pc[t] \in {"fetching", "replying"}, Others(t),
         NEW d \in Tasks \ {t}
  PROVE  TaskInv(d)'
BY FetchesAlone DEF TaskInv, Others

-----------------------------------------------------------------------------
(* One lemma for each action                                               *)

\* Nothing is loaded and nobody fetches at first.
LEMMA InitInv == Init => IInv
<1> SUFFICES ASSUME Init PROVE IInv
  OBVIOUS
<1>1. TypeOK
  <2>1. /\ upstream \in Versions /\ floor \in Versions /\ fresh \in BOOLEAN
        /\ catalog = NoCatalog /\ owner = NoTask
    BY DEF Init
  <2>2. waiters \in Seq(Tasks)
    BY DEF Init
  <2>3. /\ pc \in [Tasks -> PC] /\ kind \in [Tasks -> {"list", "call"}]
        /\ tries \in [Tasks -> 1..2] /\ reply \in [Tasks -> Versions \cup {NoCatalog}]
        /\ outcome \in [Tasks -> {"none", "ok", "failed", "error", "cancelled"}]
    BY DEF Init, PC
  <2>4. QED
    BY <2>1, <2>2, <2>3 DEF TypeOK
<1>2. (\A t \in Tasks : TaskInv(t)) /\ VersionInv
  BY MaxVersionAssumption DEF Init, TaskInv, VersionInv, Versions
<1>3. QED
  BY <1>1, <1>2 DEF IInv

\* Request and Enter serve a usable catalog; otherwise they queue, or fetch
\* alone.
LEMMA EnterInv ==
  ASSUME IInv, NEW t \in Tasks, Enter(t) \/ \E k \in {"list", "call"} : Request(t, k)
  PROVE  IInv'
<1>1. /\ UNCHANGED <<upstream, floor, catalog, fresh>>
      /\ TypeOK /\ TaskType /\ kind' \in [Tasks -> {"list", "call"}]
      /\ catalog \in Versions \cup {NoCatalog}
  BY DEF Enter, Request, cacheVars, IInv, TypeOK, TaskType
<1>2. /\ TaskType' /\ Others(t)
      /\ pc'[t] \in {"idle", "calling", "locking", "fetching"}
      /\ pc'[t] = "fetching" => owner' = t /\ ~Usable
  <2>1. ASSUME NEW k, Serve(t, k)
        PROVE  TaskType' /\ Others(t) /\ pc'[t] \in {"idle", "calling"}
    BY <1>1, <2>1, ServeEffect
  <2>2. CASE Enter(t) /\ ~Usable
    BY <1>1, <2>2 DEF Enter, TaskType, Others, PC, lockVars
  <2>3. ASSUME NEW k \in {"list", "call"}, Request(t, k), ~Usable
        PROVE  TaskType' /\ Others(t) /\ pc'[t] = "locking"
    BY <1>1, <2>3 DEF Request, TaskType, Others, PC
  <2>4. QED
    BY <2>1, <2>2, <2>3 DEF Enter, Request
<1>3. /\ owner' \in Tasks \cup {NoTask} /\ waiters' \in Seq(Tasks)
      /\ owner' = owner \/ owner = NoTask \/ owner = t
  <2>1. Acquire(t) \/ (Release /\ owner = t) \/ UNCHANGED lockVars
    BY DEF Enter, Request
  <2>2. QED
    BY <1>1, <2>1, LockType DEF Acquire, lockVars
<1>4. TypeOK'
  BY <1>1, <1>2, <1>3 DEF TypeOK, TaskType
<1>5. \A d \in Tasks : TaskInv(d)'
  <2>1. TaskInv(t)'
    BY <1>1, <1>2 DEF TaskInv, Usable
  <2>2. QED
    BY <1>1, <1>2, <1>3, <2>1, OthersStand
<1>6. VersionInv'
  BY <1>1 DEF IInv, VersionInv
<1>7. QED
  BY <1>4, <1>5, <1>6 DEF IInv

\* A fetch under way: upstream reads its catalog, or the first attempt times out.
LEMMA FetchingInv ==
  ASSUME IInv, NEW t \in Tasks, UpstreamReads(t) \/ FetchTimesOut(t)
  PROVE  IInv'
<1>1. /\ UNCHANGED <<upstream, floor, catalog, fresh, owner, waiters>>
      /\ TypeOK /\ TaskType /\ pc[t] \in {"fetching", "replying"}
  BY DEF UpstreamReads, FetchTimesOut, cacheVars, lockVars, IInv, TypeOK, TaskType
<1>2. /\ TaskType' /\ Others(t)
      /\ pc'[t] = "fetching" \/ (pc'[t] = "replying" /\ reply'[t] = upstream)
  BY <1>1 DEF UpstreamReads, FetchTimesOut, TaskType, Others, PC, TypeOK
<1>3. TypeOK'
  BY <1>1, <1>2 DEF TypeOK, TaskType
<1>4. \A d \in Tasks : TaskInv(d)'
  <2>1. upstream \in floor..upstream
    BY <1>1 DEF IInv, VersionInv, TypeOK, Versions
  <2>2. TaskInv(t)'
    BY <1>1, <1>2, <2>1, FetchesAlone DEF TaskInv, Usable
  <2>3. QED
    BY <1>1, <1>2, <2>2, OthersStand
<1>5. VersionInv'
  BY <1>1 DEF IInv, VersionInv
<1>6. QED
  BY <1>3, <1>4, <1>5 DEF IInv

\* The fetched catalog is newer than any the proxy had.
LEMMA FetchDoneInv ==
  ASSUME IInv, NEW t \in Tasks, FetchDone(t)
  PROVE  IInv'
<1>1. /\ UNCHANGED <<upstream, floor, kind>>
      /\ catalog' = reply[t] /\ fresh' = TRUE
      /\ TypeOK /\ TaskType /\ pc[t] = "replying" /\ Release
  BY DEF FetchDone, IInv, TypeOK, TaskType
<1>2. reply[t] \in floor..upstream /\ reply[t] \in Versions
  <2>1. reply[t] \in floor..upstream
    BY <1>1 DEF IInv, TaskInv
  <2>2. QED
    BY <1>1, <2>1, MaxVersionAssumption DEF TypeOK, Versions
<1>3. TaskType' /\ Others(t) /\ pc'[t] \in {"idle", "calling"}
  BY <1>1, <1>2, ServeEffect DEF FetchDone, TaskType
<1>4. TypeOK'
  BY <1>1, <1>2, <1>3, LockType DEF TypeOK, TaskType
<1>5. \A d \in Tasks : TaskInv(d)'
  BY <1>1, <1>3, OthersIdle DEF TaskInv
<1>6. VersionInv'
  BY <1>1, <1>2, NoCatalogAssumption DEF IInv, VersionInv, TypeOK, Versions
<1>7. QED
  BY <1>4, <1>5, <1>6 DEF IInv

\* A failed fetch keeps the catalog, if there is one.
LEMMA FetchFailsInv ==
  ASSUME IInv, NEW t \in Tasks, FetchFails(t)
  PROVE  IInv'
<1>1. /\ UNCHANGED <<upstream, floor, catalog>>
      /\ fresh' = fresh \/ (fresh' = TRUE /\ catalog # NoCatalog)
      /\ TypeOK /\ TaskType /\ pc[t] \in {"fetching", "replying"} /\ Release
      /\ catalog \in Versions \cup {NoCatalog}
  BY DEF FetchFails, cacheVars, IInv, TypeOK, TaskType
<1>2. TaskType' /\ Others(t) /\ pc'[t] \in {"idle", "calling"}
  <2>1. CASE Leave(t, "error")
    BY <1>1, <2>1, LeaveEffect
  <2>2. CASE UNCHANGED kind /\ Serve(t, kind[t])
    BY <1>1, <2>2, ServeEffect DEF TaskType
  <2>3. QED
    BY <2>1, <2>2 DEF FetchFails
<1>3. TypeOK'
  BY <1>1, <1>2, LockType DEF TypeOK, TaskType
<1>4. \A d \in Tasks : TaskInv(d)'
  BY <1>1, <1>2, OthersIdle DEF TaskInv
<1>5. VersionInv'
  BY <1>1 DEF IInv, VersionInv
<1>6. QED
  BY <1>3, <1>4, <1>5 DEF IInv

\* A request that ends after or without its load.
LEMMA LeaveInv ==
  ASSUME IInv, NEW t \in Tasks, CallDone(t) \/ Cancel(t)
  PROVE  IInv'
<1>1. /\ UNCHANGED <<upstream, floor, catalog, fresh>>
      /\ TypeOK /\ TaskType
  BY DEF CallDone, Cancel, cacheVars, IInv, TypeOK, TaskType
<1>2. TaskType' /\ Others(t) /\ pc'[t] = "idle"
  <2>1. PICK how \in {"ok", "failed", "error", "cancelled"} : Leave(t, how)
    BY DEF CallDone, Cancel
  <2>2. QED
    BY <1>1, <2>1, LeaveEffect
<1>3. /\ owner' \in Tasks \cup {NoTask} /\ waiters' \in Seq(Tasks)
      /\ owner' = owner \/ owner = NoTask \/ owner = t
  BY <1>1, LockType DEF CallDone, Cancel, Abandon, lockVars
<1>4. TypeOK'
  BY <1>1, <1>2, <1>3 DEF TypeOK, TaskType
<1>5. \A d \in Tasks : TaskInv(d)'
  <2>1. TaskInv(t)'
    BY <1>2 DEF TaskInv
  <2>2. QED
    BY <1>1, <1>2, <1>3, <2>1, OthersStand
<1>6. VersionInv'
  BY <1>1 DEF IInv, VersionInv
<1>7. QED
  BY <1>4, <1>5, <1>6 DEF IInv

\* Time passes and upstream changes: nobody fetches a catalog that is usable.
LEMMA OutsideInv ==
  ASSUME IInv, Expire \/ UpstreamChanges
  PROVE  IInv'
<1>1. /\ UNCHANGED <<catalog, owner, waiters, pc, kind, tries, reply, outcome>>
      /\ TypeOK /\ VersionInv
  BY DEF Expire, UpstreamChanges, cacheVars, lockVars, taskVars, IInv
<1>2. CASE Expire
  <2>1. fresh /\ fresh' = FALSE /\ floor' = upstream /\ upstream' = upstream
    BY <1>2 DEF Expire
  <2>2. \A t \in Tasks : pc[t] \notin {"fetching", "replying"}
    BY <1>1, <2>1, FetchesAlone
  <2>3. TypeOK'
    BY <1>1, <2>1 DEF TypeOK
  <2>4. \A t \in Tasks : TaskInv(t)'
    BY <1>1, <2>2 DEF TaskInv
  <2>5. VersionInv'
    BY <1>1, <2>1 DEF IInv, TypeOK, VersionInv, Versions
  <2>6. QED
    BY <2>3, <2>4, <2>5 DEF IInv
<1>3. CASE UpstreamChanges
  <2>1. /\ upstream < MaxVersion /\ upstream' = upstream + 1
        /\ UNCHANGED <<floor, fresh>>
    BY <1>3 DEF UpstreamChanges, cacheVars
  <2>2. upstream \in 0..MaxVersion /\ floor \in 0..MaxVersion
    BY <1>1 DEF TypeOK, Versions
  <2>3. TypeOK'
    BY <1>1, <2>1, <2>2, MaxVersionAssumption DEF TypeOK, Versions
  <2>4. \A t \in Tasks : TaskInv(t)'
    BY <1>1, <2>1, <2>2, MaxVersionAssumption DEF IInv, TaskInv, Usable
  <2>5. VersionInv'
    BY <1>1, <2>1, <2>2, MaxVersionAssumption
       DEF IInv, VersionInv, TypeOK, Versions
  <2>6. QED
    BY <2>3, <2>4, <2>5 DEF IInv
<1>4. QED
  BY <1>2, <1>3

-----------------------------------------------------------------------------
\* Every step of the cache preserves the invariant.
LEMMA StepInv == IInv /\ [Next]_vars => IInv'
<1> SUFFICES ASSUME IInv, [Next]_vars
             PROVE  IInv'
  OBVIOUS
<1>1. ASSUME NEW t \in Tasks, (\E k \in {"list", "call"} : Request(t, k)) \/ Cancel(t) \/ Progress(t)
      PROVE  IInv'
  BY <1>1, EnterInv, FetchingInv, FetchDoneInv, FetchFailsInv, LeaveInv DEF Progress
<1>2. CASE Expire \/ UpstreamChanges
  BY <1>2, OutsideInv
<1>3. CASE UNCHANGED vars
  BY <1>3 DEF vars, cacheVars, lockVars, taskVars, IInv, TypeOK, TaskInv, Usable, VersionInv
<1>4. QED
  BY <1>1, <1>2, <1>3 DEF Next

\* The strengthened invariant holds in every reachable state.
THEOREM InductiveInvariant == Spec => []IInv
<1>1. Init => IInv
  BY InitInv
<1>2. IInv /\ [Next]_vars => IInv'
  BY StepInv
<1>3. QED
  BY <1>1, <1>2, PTL DEF Spec

\* Type correctness, for any tasks and versions.
THEOREM TypeCorrect == Spec => []TypeOK
<1>1. IInv => TypeOK
  BY DEF IInv
<1>2. QED
  BY <1>1, InductiveInvariant, PTL

-----------------------------------------------------------------------------
(* Action properties and refinement                                        *)

\* What each step does to the catalog, as AtomicCatalog sees it.
LEMMA CatalogSteps ==
  ASSUME IInv, [Next]_vars
  PROVE  \/ Expire \/ UpstreamChanges
         \/ UNCHANGED <<upstream, floor, catalog, fresh>>
         \/ /\ ~fresh /\ fresh' = TRUE /\ UNCHANGED <<upstream, floor>>
            /\ catalog' \in floor..upstream \/ (catalog # NoCatalog /\ catalog' = catalog)
<1>1. ASSUME NEW t \in Tasks, FetchDone(t)
      PROVE  /\ ~fresh /\ fresh' = TRUE /\ UNCHANGED <<upstream, floor>>
             /\ catalog' \in floor..upstream
  <2>1. pc[t] = "replying" /\ TaskInv(t)
    BY <1>1 DEF IInv, FetchDone
  <2>2. QED
    BY <1>1, <2>1, FetchesAlone DEF FetchDone, TaskInv
<1>2. ASSUME NEW t \in Tasks, FetchFails(t)
      PROVE  \/ UNCHANGED <<upstream, floor, catalog, fresh>>
             \/ /\ ~fresh /\ fresh' = TRUE /\ UNCHANGED <<upstream, floor>>
                /\ catalog # NoCatalog /\ catalog' = catalog
  <2>1. pc[t] \in {"fetching", "replying"}
    BY <1>2 DEF FetchFails
  <2>2. QED
    BY <1>2, <2>1, FetchesAlone DEF FetchFails, cacheVars
<1>3. ASSUME NEW t \in Tasks,
             (\E k \in {"list", "call"} : Request(t, k)) \/ Cancel(t) \/ Enter(t)
               \/ UpstreamReads(t) \/ FetchTimesOut(t) \/ CallDone(t)
      PROVE  UNCHANGED <<upstream, floor, catalog, fresh>>
  BY <1>3 DEF Request, Cancel, Enter, UpstreamReads, FetchTimesOut, CallDone, cacheVars
<1>4. CASE UNCHANGED vars
  BY <1>4 DEF vars, cacheVars
<1>5. QED
  BY <1>1, <1>2, <1>3, <1>4 DEF Next, Progress

\* The cache implements AtomicCatalog, for any number of tasks and versions.
THEOREM Implements == Spec => ImplementsAtomicCatalog
<1>1. Init => Atomic!Init
  BY DEF Init, Atomic!Init, Versions
<1>2. IInv /\ [Next]_vars => [Atomic!Next]_(Atomic!atomicVars)
  <2> SUFFICES ASSUME IInv, [Next]_vars
               PROVE  [Atomic!Next]_(Atomic!atomicVars)
    OBVIOUS
  <2>1. CASE Expire
    BY <2>1 DEF Expire, Atomic!Next, Atomic!Expire
  <2>2. CASE UpstreamChanges
    BY <2>2 DEF UpstreamChanges, cacheVars, Atomic!Next, Atomic!UpstreamChanges
  <2>3. CASE UNCHANGED <<upstream, floor, catalog, fresh>>
    BY <2>3 DEF Atomic!atomicVars
  <2>4. CASE /\ ~fresh /\ fresh' = TRUE /\ UNCHANGED <<upstream, floor>>
             /\ catalog' \in floor..upstream \/ (catalog # NoCatalog /\ catalog' = catalog)
    BY <2>4 DEF Atomic!Next, Atomic!Refresh, Atomic!KeepStale
  <2>5. QED
    BY <2>1, <2>2, <2>3, <2>4, CatalogSteps
<1>3. QED
  BY <1>1, <1>2, InductiveInvariant, PTL DEF Spec, Atomic!Spec, ImplementsAtomicCatalog

\* The catalog never goes back to an older version, and never away.
THEOREM Monotone == Spec => NeverRollsBack
<1> DEFINE Forward == catalog # NoCatalog => catalog' # NoCatalog /\ catalog' >= catalog
<1>1. IInv /\ [Next]_vars => Forward
  <2> SUFFICES ASSUME IInv, [Next]_vars, catalog # NoCatalog
               PROVE  catalog' # NoCatalog /\ catalog' >= catalog
    OBVIOUS
  <2>1. /\ catalog \in 0..MaxVersion /\ floor \in 0..MaxVersion /\ upstream \in 0..MaxVersion
        /\ fresh \/ catalog <= floor
    BY DEF IInv, TypeOK, VersionInv, Versions
  <2>2. CASE Expire \/ UpstreamChanges \/ UNCHANGED <<upstream, floor, catalog, fresh>>
    <3>1. catalog' = catalog
      BY <2>2 DEF Expire, UpstreamChanges, cacheVars
    <3>2. QED
      BY <2>1, <3>1, MaxVersionAssumption, NoCatalogAssumption
  <2>3. CASE /\ ~fresh /\ fresh' = TRUE /\ UNCHANGED <<upstream, floor>>
             /\ catalog' \in floor..upstream \/ (catalog # NoCatalog /\ catalog' = catalog)
    BY <2>1, <2>3, MaxVersionAssumption, NoCatalogAssumption
  <2>4. QED
    BY <2>2, <2>3, CatalogSteps
<1>2. QED
  BY <1>1, InductiveInvariant, PTL DEF Spec, NeverRollsBack

\* A fetch begins only when no other is under way and nothing is usable, and one
\* that ends uncancelled leaves a held catalog usable (the two halves of "one
\* slow request per TTL" of load_catalog).
THEOREM OneFetch == Spec => OneFetchPerTTL
<1> DEFINE Alone == \A t \in Fetching' \ Fetching : Fetching = {} /\ ~Usable
<1>1. IInv /\ [Next]_vars => Alone
  <2> SUFFICES ASSUME IInv, [Next]_vars, NEW t \in Tasks,
                      pc'[t] \in {"fetching", "replying"},
                      pc[t] \notin {"fetching", "replying"}
               PROVE  Fetching = {} /\ ~Usable
    BY DEF Fetching
  <2>1. pc \in [Tasks -> PC]
    BY DEF IInv, TypeOK
  <2>2. ASSUME NEW d \in Tasks, Enter(d)
        PROVE  Fetching = {} /\ ~Usable
    <3>1. pc[d] = "locking" /\ owner = d /\ ~Usable
      <4>1. CASE Usable
        BY <2>1, <2>2, <4>1 DEF Enter, Serve
      <4>2. QED
        BY <2>2, <4>1 DEF Enter
    <3>2. QED
      BY <3>1 DEF Fetching, IInv, TaskInv
  <2>3. ASSUME NEW d \in Tasks,
               (\E k \in {"list", "call"} : Request(d, k)) \/ Cancel(d) \/ UpstreamReads(d)
                 \/ FetchDone(d) \/ FetchTimesOut(d) \/ FetchFails(d) \/ CallDone(d)
        PROVE  FALSE
    BY <2>1, <2>3
       DEF Request, Cancel, UpstreamReads, FetchDone, FetchTimesOut, FetchFails, CallDone,
           Serve, Leave
  <2>4. CASE Expire \/ UpstreamChanges \/ UNCHANGED vars
    BY <2>4 DEF Expire, UpstreamChanges, vars, taskVars
  <2>5. QED
    BY <2>2, <2>3, <2>4 DEF Next, Progress
<1> DEFINE Settled == \A t \in Fetching \ Fetching' :
             outcome'[t] = "cancelled" \/ catalog' = NoCatalog \/ fresh'
<1>2. IInv /\ [Next]_vars => Settled
  <2> SUFFICES ASSUME IInv, [Next]_vars, NEW t \in Tasks,
                      pc[t] \in {"fetching", "replying"},
                      pc'[t] \notin {"fetching", "replying"}
               PROVE  outcome'[t] = "cancelled" \/ catalog' = NoCatalog \/ fresh'
    BY DEF Fetching
  <2>1. /\ pc \in [Tasks -> PC]
        /\ outcome \in [Tasks -> {"none", "ok", "failed", "error", "cancelled"}]
    BY DEF IInv, TypeOK
  <2>2. ASSUME NEW d \in Tasks, Cancel(d)
        PROVE  outcome'[t] = "cancelled"
    BY <2>1, <2>2 DEF Cancel, Leave
  <2>3. ASSUME NEW d \in Tasks, FetchDone(d) \/ FetchFails(d)
        PROVE  catalog' = NoCatalog \/ fresh'
    BY <2>3 DEF FetchDone, FetchFails, cacheVars
  <2>4. ASSUME NEW d \in Tasks,
               (\E k \in {"list", "call"} : Request(d, k)) \/ Enter(d) \/ UpstreamReads(d)
                 \/ FetchTimesOut(d) \/ CallDone(d)
        PROVE  FALSE
    BY <2>1, <2>4
       DEF Request, Enter, UpstreamReads, FetchTimesOut, CallDone, Serve, Leave
  <2>5. CASE Expire \/ UpstreamChanges \/ UNCHANGED vars
    BY <2>5 DEF Expire, UpstreamChanges, vars, taskVars
  <2>6. QED
    BY <2>2, <2>3, <2>4, <2>5 DEF Next, Progress
<1>3. IInv /\ [Next]_vars => [Alone /\ Settled]_vars
  BY <1>1, <1>2
<1>4. QED
  BY <1>3, InductiveInvariant, PTL DEF Spec, OneFetchPerTTL

\* An error leaves the load only when nothing was ever loaded.
THEOREM HeldServes == Spec => HeldCatalogServes
<1> DEFINE Spared == \A t \in Tasks :
             outcome[t] # "error" /\ outcome'[t] = "error" => catalog = NoCatalog
<1>1. IInv /\ [Next]_vars => Spared
  <2> SUFFICES ASSUME IInv, [Next]_vars, NEW t \in Tasks,
                      outcome[t] # "error", outcome'[t] = "error", catalog # NoCatalog
               PROVE  FALSE
    OBVIOUS
  <2>1. outcome \in [Tasks -> {"none", "ok", "failed", "error", "cancelled"}]
    BY DEF IInv, TypeOK
  <2>2. ASSUME NEW d \in Tasks,
               (\E k \in {"list", "call"} : Request(d, k)) \/ Cancel(d) \/ Progress(d)
        PROVE  FALSE
    BY <2>1, <2>2
       DEF Request, Cancel, Progress, Enter, UpstreamReads, FetchDone, FetchTimesOut,
           FetchFails, CallDone, Serve, Leave
  <2>3. CASE Expire \/ UpstreamChanges \/ UNCHANGED vars
    BY <2>3 DEF Expire, UpstreamChanges, vars, taskVars
  <2>4. QED
    BY <2>2, <2>3 DEF Next
<1>2. QED
  BY <1>1, InductiveInvariant, PTL DEF Spec, HeldCatalogServes

=============================================================================
