---------------------------- MODULE MCNodeServer ----------------------------
(* Instances of NodeServer for TLC. *)
EXTENDS NodeServer, TLC

CONSTANTS r1, r2, r3, c1, c2, web, api

\* two requests of one route, one of another
MCRouteOf == (r1 :> web) @@ (r2 :> web) @@ (r3 :> api)

\* the web route has two middleware that await, the other has none
MCAwaiting == (web :> 2) @@ (api :> 0)

\* the first two requests need the lazy provider
MCNeeds == (r1 :> {1}) @@ (r2 :> {1}) @@ (r3 :> {})

\* the third request follows the first on its connection
MCConnOf == (r1 :> c1) @@ (r2 :> c2) @@ (r3 :> c1)

=============================================================================
