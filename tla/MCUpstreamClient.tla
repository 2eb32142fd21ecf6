-------------------------- MODULE MCUpstreamClient --------------------------
(* The instances of UpstreamClient that TLC checks: their constants are model *)
(* values, and the .cfg files give them.                                    *)
EXTENDS UpstreamClient
=============================================================================
