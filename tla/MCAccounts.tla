----------------------------- MODULE MCAccounts -----------------------------
(* Three accounts, the first for the bootstrap, and handlers in parallel.    *)
EXTENDS Accounts, TLC

CONSTANTS boot, ann, bob, s1, s2, k1, k2

\* ann and bob are accounts alike.
Symmetry == Permutations({s1, s2}) \union Permutations({k1, k2})
                \union Permutations({ann, bob})
=============================================================================
