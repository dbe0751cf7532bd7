------------------------- MODULE MCBatchRegistration -------------------------
(* Instances of BatchRegistration for TLC. *)
EXTENDS BatchRegistration, TLC

Everything == Ordinary \cup Corrections
ImportOnly == {"IMPORT"}

\* Ids, names and organizations are interchangeable.
BatchSymmetry ==
  Permutations(Person) \cup Permutations(Name) \cup Permutations(Org)
    \cup Permutations(Slot)
=============================================================================
