------------------------------ MODULE MC_Prune ------------------------------
(***************************************************************************)
(* Model-checking instance of Prune: four servers, so that a cluster can  *)
(* have three potential voters (failure tolerance 1) besides a stale or    *)
(* failed one, as in the spec's removal scenarios.                          *)
(***************************************************************************)
EXTENDS Prune, TLC

CONSTANTS s1, s2, s3, s4

MCServer == {s1, s2, s3, s4}

\* Three servers with NodeType voter; s4 is not a potential voter.
MCPotentialVoterIds == {s1, s2, s3}

\* s1..s3 play the same part (potential voters): permuting them maps
\* behaviours to behaviours and leaves the safety invariants unchanged.
MCSymmetry == Permutations({s1, s2, s3})

\* The lexicographic order of the server IDs.
IdRank == (s1 :> 1) @@ (s2 :> 2) @@ (s3 :> 3) @@ (s4 :> 4)

\* Spec sections 5 and 9, enumeration determinism: the maps pruneDeadServers
\* ranges over (the stale non-voters, and each bucket adjudicateRemoval
\* adjudicates) are visited in ServerID order, so every entry taken off
\* the map precedes every entry still to be visited.
EnumeratedInIdOrder ==
    [][\A v \in pending \ pending', p \in pending' : IdRank[v] < IdRank[p]]_vars

=============================================================================
