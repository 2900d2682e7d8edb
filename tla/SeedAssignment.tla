--------------------------- MODULE SeedAssignment ---------------------------
(***************************************************************************)
(* What the leader's seed assignment promises (spec 4.3, Glossary): each  *)
(* peer of the run gets, at once, a non-zero seed in [1, 0xFFFFFE] that no *)
(* other peer of the run shares.                                           *)
(***************************************************************************)
EXTENDS Integers, FiniteSets, Functions

CONSTANTS
    NP,         \* number of peers in the run
    SeedValues  \* the seed values the assignment may use

Unset == -1

VARIABLE seeds  \* seeds[i]: the seed of the i-th peer, Unset before assignment

Init == seeds = [i \in 1 .. NP |-> Unset]

Assign ==
    /\ \A i \in 1 .. NP : seeds[i] = Unset
    /\ seeds' \in [1 .. NP -> SeedValues]
    /\ IsInjective(seeds')

Spec == Init /\ [][Assign]_seeds

=============================================================================
