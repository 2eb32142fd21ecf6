---------------------------- MODULE MCCatalogCache ----------------------------
(***************************************************************************)
(* CatalogCache with three tasks (a fetch under way and two requests       *)
(* behind it) and an upstream that publishes two more catalogs.            *)
(***************************************************************************)
EXTENDS CatalogCache
=============================================================================
