---------------------------- MODULE MCUserConfig ----------------------------
(* Symmetry and views for the TLC run of UserConfig. *)
EXTENDS UserConfig, TLC

Symmetry == Permutations(Tokens) \cup Permutations(Objs) \cup Permutations(Requests)

\* Before requests overlap: the contents of a map that nothing refers to cannot
\* be observed.
LiveView == <<rowTok, row, [o \in Objs |-> IF Unreferenced(o) THEN Off ELSE val[o]],
              cache, req, sesTok, qrVars>>

\* Afterwards only the sharing of maps is asked about, and of all their contents
\* only the cached history limit is read by a guard (GetHistory).
ShareView ==
    LET H(f) == "history" \in DOMAIN f /\ f["history"] IN
    <<rowTok, H(row), [o \in Objs |-> ~Unreferenced(o) /\ H(val[o])], cache,
      [r \in Requests |-> <<req[r].st, req[r].tok, req[r].obj,
                            "history" \in DOMAIN req[r].patch, H(req[r].patch),
                            req[r].new>>],
      sesTok, qrVars>>

ConfigView == <<calm, IF calm THEN LiveView ELSE ShareView>>
=============================================================================
