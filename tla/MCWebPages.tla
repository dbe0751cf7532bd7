------------------------------ MODULE MCWebPages ------------------------------
(* Two projects, an organization, a name to search for and the empty text,    *)
(* two sources of rows, a few requests.                                       *)
EXTENDS WebPages, TLC

CONSTANTS p1, p2, w1, q0, q1, s1, s2, x1

\* The projects are alike, and so are the sources of rows.
Symmetry == Permutations({p1, p2}) \union Permutations({s1, s2})
=============================================================================
