------------------------------ MODULE MCGateway ------------------------------
(* Finite instances of Gateway for TLC. *)
EXTENDS Gateway, TLC

CONSTANT long

\* One password is longer than 72 bytes.
OneLong == [p \in Passwords |-> IF p = long THEN None ELSE p]

\* The table is empty, or has one administrator.
NobodyOrAdmin ==
    {[e \in Emails |-> None]}
        \cup {[e \in Emails |-> [password |-> p, role |-> "admin"]] : p \in Passwords \ {long}}

Symmetry == Permutations(Requests) \cup Permutations(Passwords \ {long})
=============================================================================
