--------------------------- MODULE MCHistoryRequest ---------------------------
(* Two messages in different chats, symmetry and view for the TLC run of       *)
(* HistoryRequest.                                                            *)
EXTENDS HistoryRequest, TLC

CONSTANTS m1, m2, c1, c2

EachInItsChat == (m1 :> c1) @@ (m2 :> c2)

Symmetry == Permutations(Requests)

\* An Info that nobody will read any more, the contents of an answered request
\* and those of a posted webhook cannot be observed beyond the verdict of the
\* properties.
Held(o) ==
    \/ o = last
    \/ o \in Msgs /\ ev[o] \in {"handling", "saved"}
    \/ \E r \in Requests : req[r].st \in {"chat", "id", "build", "target", "say"} /\ req[r].obj = o

Plain(r) == req[r].plain /\ req[r].sent # None /\ req[r].obj \notin touched =>
               req[r].sent = IF req[r].obj = r THEN Zero ELSE Own(req[r].obj)

HistoryView ==
    <<last, ev, rows, touched,
      [o \in Objects |-> IF Held(o) THEN info[o] ELSE Zero],
      [m \in Msgs |-> hook[m] \in {None, Own(m)}],
      [r \in Requests |->
          IF req[r].st \in {"done", "error"}
          THEN <<req[r].st, req[r].mixed \/ req[r].said = req[r].sent, Plain(r)>>
          ELSE req[r]]>>
=============================================================================
