---------------------------- MODULE MCProjector ----------------------------
(* Instances of Projector for TLC. *)
EXTENDS Projector

CONSTANTS a, b, t1, t2, idle, busy, h1, l1

=============================================================================
