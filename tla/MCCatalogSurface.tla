--------------------------- MODULE MCCatalogSurface ---------------------------
(* A tool with an override, one whose fields only are trimmed, and the targets *)
(* of both: the first pair on any pages or none, the second on two pages.      *)
EXTENDS CatalogSurface

MCNames ==
    {"search_rail", "get_rail_instructions", "search_avia", "get_avia_instructions"}

MCTools ==
    {[n \in Names |->
        [name |-> n,
         description |-> IF n = "search_rail" THEN rail[1] ELSE "summarized",
         fields |-> [f \in Fields |->
            CASE n = "search_rail" -> rail[2]
              [] n = "search_avia" -> "long"
              [] OTHER -> "none"]]] :
        rail \in ({"summarized"} \X FieldProse) \cup {<<"rewritten", "long">>}}

MCPages ==
    {[n \in Names |->
        CASE n = "search_rail" -> p
          [] n = "get_rail_instructions" -> q
          [] n = "search_avia" -> "c1"
          [] OTHER -> First] :
        p \in Slots \cup {None}, q \in {First, "c2", None}}

\* One page, two or three, the last of which may lead back to any but the first.
MCNext ==
    {[first |-> n[1], c1 |-> n[2], c2 |-> n[3]] :
        n \in {<<None, None, None>>, <<"c1", None, None>>, <<"c1", "c1", None>>,
               <<"c1", "c2", None>>, <<"c1", "c2", "c1">>, <<"c1", "c2", "c2">>}}

MCOffers == [tool : MCTools, page : MCPages, next : MCNext]
=============================================================================
