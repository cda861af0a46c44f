--------------------------- MODULE MCMarketTrade ----------------------------
(* Instances of MarketTrade for TLC: the looks at the battery. *)
EXTENDS MarketTrade

\* At most one thing is amiss with a look, a low battery included.
OneThingAmiss ==
    {o \in AllLooks : o.amiss \notin {"absent", "away", "car", "unsent"}
                          /\ (o.battery = "ample" \/ o.amiss = "nothing")}
=============================================================================
