----------------------------- MODULE MCSavedState -----------------------------
(* A small instance of SavedState for TLC.                                *)
EXTENDS SavedState, TLC

CONSTANTS h1, h2

AllTargets == {h1, h2} \X {1, 2}
Symmetry == Permutations({h1, h2})
=============================================================================
