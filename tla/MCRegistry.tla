---------------------------- MODULE MCRegistry ----------------------------
(***************************************************************************)
(* Model-checking instance of Registry: two clients, two shards, so that   *)
(* both "same shard" and "different shards" placements occur (shardOf is    *)
(* chosen over all assignments in Init).                                   *)
(***************************************************************************)
EXTENDS Registry

\* The state space is finite: every client connects once and every counter
\* is bounded by the client set, so no state constraint is needed.
=============================================================================
