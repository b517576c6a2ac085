--------------------------- MODULE MCStrategyCache ---------------------------
EXTENDS StrategyCache, TLC

CONSTANTS p1, p2, n1, n2, old, new, split

\* Two versions of a profile that share a candidate.
MCHas == (old :> Candidates) @@ (new :> {split})

Symmetry == Permutations(Networks) \cup Permutations(Procs)

=============================================================================
