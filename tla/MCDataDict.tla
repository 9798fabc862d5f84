----------------------------- MODULE MCDataDict -----------------------------
EXTENDS DataDict, TLC

\* Two tables fill a block, and one index does.
SmallCapacity == [f \in Files |-> IF f = "tables" THEN 2 ELSE 1]

\* Two entries of either file do.
PairCapacity == [f \in Files |-> 2]

Symmetry == Permutations(TableNames)
=============================================================================
