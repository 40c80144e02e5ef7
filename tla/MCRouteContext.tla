--------------------------- MODULE MCRouteContext ---------------------------
(* One credential and two models: a cache with room for some of the three *)
(* entries that their lookups produce.                                    *)
EXTENDS RouteContext
=============================================================================
