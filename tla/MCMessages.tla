----------------------------- MODULE MCMessages -----------------------------
(* Messages for TLC: which handlers run; ids and requests are interchangeable. *)
EXTENDS Messages, TLC

\* one handler that must upload, one that may, the polls, a change whose failure
\* is answered with a text and a read
RunOps == {SendDocument, SendButtons, SendPoll, SetGroupName, GetAvatar}

Symmetry == Permutations(Requests) \cup Permutations(Ids)

=============================================================================
