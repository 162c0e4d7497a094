------------------------------- MODULE MCUsers -------------------------------
(* Users for TLC: users, tokens and requests are interchangeable, and whether *)
(* requests have overlapped matters to CompleteDeletion alone.                *)
EXTENDS Users, TLC

Symmetry == Permutations(UserIds) \cup Permutations(Tokens) \cup Permutations(Requests)

View == <<row, used, cache, client, req, sess, gone, clean, dropped, held>>

=============================================================================
