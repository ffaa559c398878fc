--------------------------- MODULE MCMediaProxyJobs ---------------------------
(* Instances of MediaProxyJobs small enough to be explored completely.        *)
EXTENDS MediaProxyJobs, TLC

CONSTANTS j1, j2, u1, u2

OneOwner == j1 :> u1 @@ j2 :> u1
TwoRoutesThenOne == j1 :> 2 @@ j2 :> 1
TwoRoutes == j1 :> 2
SoleOwner == j1 :> u1

=============================================================================
