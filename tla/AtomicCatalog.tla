---------------------------- MODULE AtomicCatalog ----------------------------
(***************************************************************************)
(* What the proxy's catalog cache (load_catalog of                         *)
(* tutu_mcp/proxy/server.py) promises, with no tasks, lock or fetch in     *)
(* sight: one catalog that, once it is there, is replaced only after it    *)
(* expired, only by one upstream served since, and is never given up.      *)
(***************************************************************************)
EXTENDS Naturals

CONSTANTS MaxVersion,  \* versions of upstream's catalog: 0..MaxVersion
          NoCatalog    \* catalog is None

VARIABLES
  upstream,  \* the version upstream serves now
  floor,     \* the version it served when the catalog went stale
  catalog,   \* the version the proxy serves
  fresh      \* it is younger than catalog_ttl_s

atomicVars == <<upstream, floor, catalog, fresh>>

Init ==
  /\ upstream \in 0..MaxVersion /\ floor = upstream
  /\ catalog = NoCatalog /\ fresh = FALSE

UpstreamChanges ==
  /\ upstream < MaxVersion
  /\ upstream' = upstream + 1
  /\ UNCHANGED <<floor, catalog, fresh>>

Expire ==
  /\ fresh
  /\ fresh' = FALSE /\ floor' = upstream
  /\ UNCHANGED <<upstream, catalog>>

\* A refresh brings a version upstream has served since the catalog went stale.
Refresh ==
  /\ ~fresh
  /\ catalog' \in floor..upstream /\ fresh' = TRUE
  /\ UNCHANGED <<upstream, floor>>

\* A failed refresh keeps what there is for one more TTL.
KeepStale ==
  /\ ~fresh /\ catalog # NoCatalog
  /\ fresh' = TRUE
  /\ UNCHANGED <<upstream, floor, catalog>>

Next == UpstreamChanges \/ Expire \/ Refresh \/ KeepStale

Spec == Init /\ [][Next]_atomicVars
=============================================================================
