----------------------------- MODULE MCLevelDb -----------------------------
(* LevelDb for TLC.                                                        *)
EXTENDS LevelDb

CONSTANTS W1, W2

MCWriters == {W1, W2}

Put(k) == [key |-> k, del |-> FALSE]
Delete(k) == [key |-> k, del |-> TRUE]

MCWrites == {[batch |-> <<Put(1)>>, sync |-> TRUE],
             [batch |-> <<Put(2), Delete(1)>>, sync |-> FALSE]}

Symmetry == Permutations(MCWriters)

=============================================================================
