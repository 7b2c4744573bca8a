---------------------------- MODULE MCCeremonies ----------------------------
(* Instances of Ceremonies for TLC.                                        *)
EXTENDS Ceremonies, TLC

CONSTANTS t1, t2, k1, k2, d1, d2, d3, i1, i2, i3, c1, c2, h1, h2

Symmetry == Permutations(Trusts) \cup Permutations(Keys) \cup Permutations(Digests)
            \cup Permutations(Invites) \cup Permutations(Clients) \cup Permutations(Handlers)
=============================================================================
