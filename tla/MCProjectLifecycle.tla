-------------------------- MODULE MCProjectLifecycle --------------------------
(* Instances of ProjectLifecycle for TLC. *)
EXTENDS ProjectLifecycle, TLC

CONSTANTS n1, NULL

\* The days before and after midnight.
TwoDays == {0, 1}

\* Request handlers are interchangeable.
SlotSymmetry == Permutations(Slot)
=============================================================================
