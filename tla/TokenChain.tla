----------------------------- MODULE TokenChain -----------------------------
(* What the refresh tokens of a session promise: a chain grows one link at a *)
(* time, its last link is the only one that can be used, and a chain that    *)
(* was closed is never used again.                                           *)
EXTENDS Naturals

CONSTANT Session
VARIABLE chain          \* [Session -> [links : Nat, usable : SUBSET Nat]]

Unopened == [links |-> 0, usable |-> {}]
UpTo(n) == [links |-> n, usable |-> {n}]

Init == chain = [s \in Session |-> Unopened]

Open(s) == /\ chain[s] = Unopened
           /\ chain' = [chain EXCEPT ![s] = UpTo(1)]

Extend(s) == /\ chain[s] = UpTo(chain[s].links)
             /\ chain' = [chain EXCEPT ![s] = UpTo(chain[s].links + 1)]

\* One change of an account may close every chain it has, and another account's.
Close(S) == chain' = [s \in Session |->
                        IF s \in S THEN [chain[s] EXCEPT !.usable = {}] ELSE chain[s]]

Next == \/ \E s \in Session : Open(s) \/ Extend(s)
        \/ \E S \in SUBSET Session : Close(S)

Spec == Init /\ [][Next]_chain
=============================================================================
