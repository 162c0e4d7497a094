---------------------------- MODULE SchemaUpgrade ----------------------------
(***************************************************************************)
(* What the migrations promise, whoever carries them out: the schema is    *)
(* upgraded one migration at a time, in the order of the list, each once;  *)
(* a replica opens for service only on the complete schema, and closing    *)
(* replicas never take a migration back.                                   *)
(***************************************************************************)
EXTENDS Naturals

CONSTANTS Replicas, N

VARIABLES done,  \* the migrations whose changes the schema has
          open   \* the replicas that serve

Init == done = {} /\ open = {}

Upgrade(i) ==
    /\ i \notin done /\ 1..i - 1 \subseteq done
    /\ done' = done \cup {i}
    /\ UNCHANGED open

Open(p) ==
    /\ done = 1..N
    /\ open' = open \cup {p}
    /\ UNCHANGED done

Close(p) ==
    /\ open' = open \ {p}
    /\ UNCHANGED done

Next == (\E i \in 1..N : Upgrade(i)) \/ (\E p \in Replicas : Open(p) \/ Close(p))

Spec == Init /\ [][Next]_<<done, open>>

=============================================================================
