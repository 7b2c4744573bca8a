------------------------------ MODULE MCShares ------------------------------
(* Instances of Shares for TLC. *)
EXTENDS Shares, TLC

CONSTANTS p1, p2, c1, c2, h1, h2, f1, f2, f3

\* One small and larger files: two fit under the total, three never do.
MCSize == [f \in Files |-> IF f = f1 THEN 1 ELSE 2]

\* Connections are interchangeable, Home connections too, and so are files of
\* one size; no property names one.
Symmetry == Permutations(Conns) \cup Permutations(Homes) \cup Permutations(Files \ {f1})

=============================================================================
