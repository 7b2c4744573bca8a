----------------------------- MODULE MCUploads -----------------------------
(* Instances of Uploads for TLC. *)
EXTENDS Uploads, TLC

CONSTANTS w1, w2, s1, s2, s3, c1, c2, f1, f2, f3

\* Workspaces, sends, cleanup goroutines and folder names are interchangeable.
Symmetry == Permutations(Workspaces) \cup Permutations(Sends)
            \cup Permutations(Cleaners) \cup Permutations(Folders)

=============================================================================
