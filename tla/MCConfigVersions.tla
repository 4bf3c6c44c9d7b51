--------------------------- MODULE MCConfigVersions ---------------------------
(* Small values of the constants of ConfigVersions.                        *)
EXTENDS ConfigVersions, TLC

CONSTANTS s, t, p, i1, i2

TwoNames == {s, t}
OneParam == {p}
TwoRequests == {i1, i2}

Kept == [params |-> p, secret |-> TRUE]

(* A file with both sensors; an exported one has those there are.          *)
OneFile == {s :> Kept @@ t :> Kept}
Symmetry == Permutations(TwoRequests) \cup Permutations(TwoNames)
=============================================================================
