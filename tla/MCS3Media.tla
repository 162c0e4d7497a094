------------------------------ MODULE MCS3Media ------------------------------
(* Symmetry for the TLC run of S3Media. *)
EXTENDS S3Media, TLC

Symmetry == Permutations(Confs) \cup Permutations(Msgs) \cup Permutations(Requests)

=============================================================================
