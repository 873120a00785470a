-------------------------- MODULE MCCacheRemember ---------------------------
(* Instances of CacheRemember for TLC. *)
EXTENDS CacheRemember, TLC

CONSTANTS c1, c2, c3, p, q

\* two calls in one process, one in another
MCTwoAndOne == (c1 :> p) @@ (c2 :> p) @@ (c3 :> q)

\* Bounds of the run with fairness. Neither the lock nor the value expires, so
\* a lock left behind is never free again; the process that ends is q's, and
\* p's two calls survive it; q's call leaves the lock by that end, not by an
\* error of the store.
MCNext ==
    /\ Next
    /\ expired' = {} /\ ~lapsed'
    /\ p \notin down' /\ pc'[c3] # "errored"

MCFairSpec == Init /\ [][MCNext]_vars /\ Fairness

\* Calls of one process can be swapped.
MCSymmetry == Permutations({c1, c2})

=============================================================================
