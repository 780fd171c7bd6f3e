-------------------------------- MODULE MCApi --------------------------------
(***************************************************************************)
(* Two replicas, two clients and two calls, with limits so low that the    *)
(* second call may be one too many, and one reply of Redis lost for each.  *)
(***************************************************************************)
EXTENDS Api, TLC

Raw(complete, present, limit) ==
    [complete |-> complete, present |-> present, limit |-> limit]

\* A deployment that starts, with a limit that is tight for two calls, and
\* three that do not.
MCEnvironments ==
    {Raw(TRUE, TRUE, 1), Raw(TRUE, TRUE, 0), Raw(TRUE, TRUE, -1),
     Raw(FALSE, TRUE, 1)}

Symmetry == Permutations(Replicas) \union Permutations(Clients)
                \union Permutations(Calls)

\* One for each kind: a credential route, the one that uploads, one on the
\* global budget, and the health check.
MCRoutes ==
    {r \in AllRoutes :
        r.name \in {"changePassword", "createFromScreenshot", "findOne", "check"}}
=============================================================================
