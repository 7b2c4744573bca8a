-------------------------- MODULE MCNotifications --------------------------
(* Instances of Notifications for TLC. *)
EXTENDS Notifications

CONSTANTS e1, e2, t1, t2, r1, r2, r3, w1, w2

\* Every browser selects what is about Herdr and removals.
MCChoices == {{"herdr", "removed"}}

=============================================================================
