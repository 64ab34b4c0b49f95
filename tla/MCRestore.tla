------------------------------ MODULE MCRestore ------------------------------
EXTENDS Restore
CONSTANTS p1, p2
Symmetry == Permutations({p1, p2})
Whole == {1..NumPaths}
WholeOrFirst == {1..NumPaths, {1}}

\* Nothing is promised once an intent has been written over.
IntentKept == ~overwritten

\* Two edits around one restore, or one edit around two.
Together == edits + forkEdits + restores <= 3
=============================================================================
