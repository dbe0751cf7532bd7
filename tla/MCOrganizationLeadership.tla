---------------------- MODULE MCOrganizationLeadership ----------------------
(* Two accounts and one organization of one name.                            *)
EXTENDS OrganizationLeadership, TLC

CONSTANTS u1, u2, o1, n1, s1, k1, k2

Symmetry == Permutations({u1, u2}) \union Permutations({k1, k2})
=============================================================================
