--------------------------- MODULE MCProjectRoster ---------------------------
(* Instances of ProjectRoster for TLC. *)
EXTENDS ProjectRoster, TLC

Everything == Ordinary \cup Corrections

\* Participants are interchangeable, and so are organizations and handlers.
RosterSymmetry ==
  Permutations(Person) \cup Permutations(Org) \cup Permutations(Slot)
=============================================================================
