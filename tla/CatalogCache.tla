----------------------------- MODULE CatalogCache -----------------------------
(***************************************************************************)
(* The catalog cache of tutu_mcp/proxy/server.py (load_catalog) as the     *)
(* proxy's request handlers use it: every tools/list and tools/call loads  *)
(* the catalog first, from the cache or, under a FIFO lock, from upstream. *)
(*                                                                         *)
(* A task handles one request at a time and is at                          *)
(*   "locking"   acquiring catalog_lock                                    *)
(*   "fetching"  owner of the lock, its list_tools not yet read upstream   *)
(*   "replying"  owner of the lock, the answer to it on its way            *)
(*   "calling"   catalog loaded, the tool call itself under way            *)
(***************************************************************************)
EXTENDS Naturals, Sequences

CONSTANTS
  Tasks, NoTask,
  MaxVersion,   \* bound on how often upstream's catalog changes
  NoCatalog

ASSUME NoTaskAssumption     == NoTask \notin Tasks
ASSUME MaxVersionAssumption == MaxVersion \in Nat
ASSUME NoCatalogAssumption  == NoCatalog \notin 0..MaxVersion

VARIABLES
  upstream, floor,           \* as in AtomicCatalog
  catalog, fresh,            \* catalog (with its trimmed_originals), ~catalog_expired()
  owner, waiters,            \* catalog_lock
  pc, kind,                  \* where each task is, and in which handler
  tries,                     \* attempt of call_with_timeout_retry
  reply,                     \* version its fetch is bringing
  outcome                    \* how its last request ended

cacheVars == <<catalog, fresh>>
lockVars  == <<owner, waiters>>
taskVars  == <<pc, kind, tries, reply, outcome>>
vars == <<upstream, floor, cacheVars, lockVars, taskVars>>

Versions == 0..MaxVersion
PC == {"idle", "locking", "fetching", "replying", "calling"}

Init ==
  /\ upstream \in Versions /\ floor = upstream
  /\ catalog = NoCatalog /\ fresh = FALSE
  /\ owner = NoTask /\ waiters = <<>>
  /\ pc = [t \in Tasks |-> "idle"]
  /\ kind = [t \in Tasks |-> "list"]
  /\ tries = [t \in Tasks |-> 1]
  /\ reply = [t \in Tasks |-> NoCatalog]
  /\ outcome = [t \in Tasks |-> "none"]

-----------------------------------------------------------------------------
(* Building blocks                                                         *)

Usable == catalog # NoCatalog /\ fresh

\* catalog_lock: Acquire, Release, Abandon.
INSTANCE FifoLock

\* load_catalog returns to the handler, which runs to its next await: the
\* answer to tools/list, or the backend call.
Serve(t, k) ==
  /\ tries' = [tries EXCEPT ![t] = 1]
  /\ reply' = [reply EXCEPT ![t] = NoCatalog]
  /\ \/ /\ k = "list"
        /\ pc' = [pc EXCEPT ![t] = "idle"]
        /\ outcome' = [outcome EXCEPT ![t] = "ok"]
     \/ /\ k = "call"
        /\ pc' = [pc EXCEPT ![t] = "calling"]
        /\ outcome' = [outcome EXCEPT ![t] = "none"]

\* The request ends without the handler's answer.
Leave(t, how) ==
  /\ pc' = [pc EXCEPT ![t] = "idle"]
  /\ tries' = [tries EXCEPT ![t] = 1]
  /\ reply' = [reply EXCEPT ![t] = NoCatalog]
  /\ outcome' = [outcome EXCEPT ![t] = how]
  /\ UNCHANGED kind

-----------------------------------------------------------------------------
(* A task                                                                  *)

\* A request arrives: a usable catalog is served at once, without the lock.
Request(t, k) ==
  /\ pc[t] = "idle"
  /\ kind' = [kind EXCEPT ![t] = k]
  /\ \/ Usable /\ Serve(t, k) /\ UNCHANGED lockVars
     \/ /\ ~Usable
        /\ Acquire(t)
        /\ pc' = [pc EXCEPT ![t] = "locking"]
        /\ outcome' = [outcome EXCEPT ![t] = "none"]
        /\ UNCHANGED <<tries, reply>>
  /\ UNCHANGED <<upstream, floor, cacheVars>>

\* (Mutation: no second look at the catalog once the lock is there.)
EnterUnchecked(t) ==
  /\ pc[t] = "locking" /\ owner = t
  /\ pc' = [pc EXCEPT ![t] = "fetching"]
  /\ UNCHANGED <<upstream, floor, cacheVars, lockVars, kind, tries, reply, outcome>>

\* The re-check under the lock: another task may have refreshed it meanwhile.
Enter(t) ==
  /\ pc[t] = "locking" /\ owner = t
  /\ \/ Usable /\ Release /\ Serve(t, kind[t])
     \/ /\ ~Usable
        /\ pc' = [pc EXCEPT ![t] = "fetching"]
        /\ UNCHANGED <<lockVars, tries, reply, outcome>>
  /\ UNCHANGED <<upstream, floor, cacheVars, kind>>

\* Upstream reads its catalog for the request.
UpstreamReads(t) ==
  /\ pc[t] = "fetching"
  /\ pc' = [pc EXCEPT ![t] = "replying"]
  /\ reply' = [reply EXCEPT ![t] = upstream]
  /\ UNCHANGED <<upstream, floor, cacheVars, lockVars, kind, tries, outcome>>

\* The catalog and the prose trimmed off it are replaced together, without an
\* await between them.
FetchDone(t) ==
  /\ pc[t] = "replying"
  /\ catalog' = reply[t] /\ fresh' = TRUE
  /\ Release /\ Serve(t, kind[t])
  /\ UNCHANGED <<upstream, floor, kind>>

\* (Mutation: as often as it times out.)
FetchTimesOutForever(t) ==
  /\ pc[t] \in {"fetching", "replying"}
  /\ pc' = [pc EXCEPT ![t] = "fetching"]
  /\ tries' = [tries EXCEPT ![t] = @ + 1]
  /\ reply' = [reply EXCEPT ![t] = NoCatalog]
  /\ UNCHANGED <<upstream, floor, cacheVars, lockVars, kind, outcome>>

\* call_with_timeout_retry asks once more.
FetchTimesOut(t) ==
  /\ pc[t] \in {"fetching", "replying"} /\ tries[t] = 1
  /\ pc' = [pc EXCEPT ![t] = "fetching"]
  /\ tries' = [tries EXCEPT ![t] = 2]
  /\ reply' = [reply EXCEPT ![t] = NoCatalog]
  /\ UNCHANGED <<upstream, floor, cacheVars, lockVars, kind, outcome>>

\* (Mutation: the failure reaches the client though a catalog is held.)
FetchFailsAlways(t) ==
  /\ pc[t] \in {"fetching", "replying"}
  /\ Release /\ Leave(t, "error")
  /\ UNCHANGED <<upstream, floor, cacheVars>>

\* (Mutation: the failed load keeps the lock.)
FetchFailsHolding(t) ==
  /\ pc[t] \in {"fetching", "replying"}
  /\ Leave(t, "error")
  /\ UNCHANGED <<upstream, floor, cacheVars, lockVars>>

\* (Mutation: the timer is not reset, so the next request pays again.)
FetchFailsTimerKept(t) ==
  /\ pc[t] \in {"fetching", "replying"}
  /\ \/ /\ catalog = NoCatalog
        /\ Release /\ Leave(t, "error")
        /\ UNCHANGED cacheVars
     \/ /\ catalog # NoCatalog
        /\ UNCHANGED <<cacheVars, kind>>
        /\ Release /\ Serve(t, kind[t])
  /\ UNCHANGED <<upstream, floor>>

\* Any other failure, or a second timeout: with nothing to serve it is raised,
\* else the stale catalog is served for one more TTL.
FetchFails(t) ==
  /\ pc[t] \in {"fetching", "replying"}
  /\ \/ /\ catalog = NoCatalog
        /\ Release /\ Leave(t, "error")
        /\ UNCHANGED cacheVars
     \/ /\ catalog # NoCatalog
        /\ fresh' = TRUE /\ UNCHANGED <<catalog, kind>>
        /\ Release /\ Serve(t, kind[t])
  /\ UNCHANGED <<upstream, floor>>

\* The tool's own answer, with the prose trimmed off it appended, or its failure.
CallDone(t) ==
  /\ pc[t] = "calling"
  /\ \E how \in {"ok", "failed"} : Leave(t, how)
  /\ UNCHANGED <<upstream, floor, cacheVars, lockVars>>

\* The client withdrew the request, at whatever await it was.
Cancel(t) ==
  /\ pc[t] # "idle"
  /\ Abandon(t) /\ Leave(t, "cancelled")
  /\ UNCHANGED <<upstream, floor, cacheVars>>

-----------------------------------------------------------------------------
(* Time and upstream                                                       *)

Expire ==
  /\ fresh
  /\ fresh' = FALSE /\ floor' = upstream
  /\ UNCHANGED <<upstream, catalog, lockVars, taskVars>>

UpstreamChanges ==
  /\ upstream < MaxVersion
  /\ upstream' = upstream + 1
  /\ UNCHANGED <<floor, cacheVars, lockVars, taskVars>>

-----------------------------------------------------------------------------
Progress(t) ==
  Enter(t) \/ UpstreamReads(t) \/ FetchDone(t) \/ FetchTimesOut(t) \/ FetchFails(t) \/ CallDone(t)

Next ==
  \/ Expire \/ UpstreamChanges
  \/ \E t \in Tasks : (\E k \in {"list", "call"} : Request(t, k)) \/ Cancel(t) \/ Progress(t)

Spec == Init /\ [][Next]_vars

\* Requests to upstream end (read_timeout_seconds) and the event loop runs
\* every ready task.
FairSpec == Spec /\ \A t \in Tasks : WF_vars(Progress(t))

-----------------------------------------------------------------------------
(* Properties                                                              *)

TypeOK ==
  /\ upstream \in Versions /\ floor \in Versions
  /\ catalog \in Versions \cup {NoCatalog} /\ fresh \in BOOLEAN
  /\ owner \in Tasks \cup {NoTask} /\ waiters \in Seq(Tasks)
  /\ pc \in [Tasks -> PC]
  /\ kind \in [Tasks -> {"list", "call"}]
  /\ tries \in [Tasks -> 1..2]
  /\ reply \in [Tasks -> Versions \cup {NoCatalog}]
  /\ outcome \in [Tasks -> {"none", "ok", "failed", "error", "cancelled"}]

\* The comment on catalog_lock: concurrent requests never fetch redundantly.
\* Only one fetch is under way, none begins while the catalog is usable, and one
\* that ends leaves it usable for a whole TTL, a failed refresh no less than a
\* successful one ("one slow request per TTL while upstream is down").
Fetching == {t \in Tasks : pc[t] \in {"fetching", "replying"}}
OneFetchPerTTL ==
  [][/\ \A t \in Fetching' \ Fetching : Fetching = {} /\ ~Usable
     /\ \A t \in Fetching \ Fetching' :
          outcome'[t] = "cancelled" \/ catalog' = NoCatalog \/ fresh']_vars

\* Answers of overlapping fetches are never applied out of order: the catalog
\* never goes back to an older version.  (What the refinement below leaves no room
\* for; proved, not a run's property.)
NeverRollsBack ==
  [][catalog # NoCatalog => catalog' # NoCatalog /\ catalog' >= catalog]_vars

\* Once there is a catalog, upstream's failures reach nobody through the load.
HeldCatalogServes ==
  [][\A t \in Tasks : outcome[t] # "error" /\ outcome'[t] = "error" => catalog = NoCatalog]_vars

\* Every request ends, also those queued behind a cold start that times out.
RequestsEnd == \A t \in Tasks : pc[t] # "idle" ~> pc[t] = "idle"

\* The cache implements AtomicCatalog: a stale catalog is replaced only by a
\* version upstream has served since it went stale.
Atomic == INSTANCE AtomicCatalog
ImplementsAtomicCatalog == Atomic!Spec
=============================================================================
