---------------------------- MODULE MCCoreBridge ----------------------------
(* Instances of CoreBridge for TLC. *)
EXTENDS CoreBridge, TLC

CONSTANTS p1, p2, s1, s2, s3, w1, w2

\* Pages, their sizes and the window's sizes are interchangeable.
MCSymmetry == Permutations(Pages) \cup Permutations(Sizes) \cup Permutations(AppSizes)

=============================================================================
