---------------------------- MODULE MCRegistries ----------------------------
(***************************************************************************)
(* An instance of ProgramRegistries for TLC: two clones that register      *)
(* programs under the same id, and two engines to install.                 *)
(***************************************************************************)
EXTENDS ProgramRegistries, TLC

CONSTANTS system, token, good, bad, t1, t2

MCMine == t1 :> {token} @@ t2 :> {token}

MCOffers == {<<good, "V2">>, <<bad, "V3">>}

Symmetry == Permutations(Engines) \cup Permutations(Threads)
=============================================================================
