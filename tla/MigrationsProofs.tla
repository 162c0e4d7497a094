-------------------------- MODULE MigrationsProofs --------------------------
(* Proofs about Migrations for every number of replicas, migrations and crashes. *)
EXTENDS Migrations, TLAPS

\* What a replica believes is true: what it read is still recorded, and so is
\* everything before the migration it looks at.
Bookkeeping ==
    \A p \in Replicas :
        /\ applied[p] \subseteq recorded
        /\ \A i \in Ids : i < at[p] => i \in recorded
        /\ pc[p] = "serving" => at[p] = N + 1
        /\ pc[p] \in {"record", "commit"} => at[p] \in Ids

\* An open transaction changes the schema unless the migration was recorded;
\* at most one transaction holds the key of a migration, which is not recorded.
Transactions ==
    /\ \A p \in Replicas :
          /\ pc[p] \in {"record", "commit"} => tx[p] = 1 \/ (tx[p] = 2 /\ at[p] \in recorded)
          /\ pc[p] = "commit" => at[p] \notin recorded
    /\ \A p, q \in Replicas : pc[p] = "commit" /\ pc[q] = "commit" /\ at[p] = at[q] => p = q

Inv == TypeOK /\ Bookkeeping /\ Transactions /\ RecordedIffApplied /\ AppliedInOrder

\* The initial states satisfy the invariant.
LEMMA InitInv == Init => Inv
  <1> SUFFICES ASSUME Init PROVE Inv
    OBVIOUS
  <1>1. TypeOK
    <2>1. applied \in [Replicas -> SUBSET Ids] /\ recorded \in SUBSET Ids
      BY DEF Init
    <2>2. table \in BOOLEAN /\ schema \in [Ids -> Nat] /\ pc \in [Replicas -> PCs]
      BY DEF Init, PCs
    <2>3. at \in [Replicas -> 1..N + 1] /\ tx \in [Replicas -> 0..2] /\ crashes \in 0..Crashes
      BY MigrationsAssumption DEF Init
    <2> QED BY <2>1, <2>2, <2>3 DEF TypeOK
  <1> USE MigrationsAssumption DEF Init, Ids, PCs
  <1>2. Bookkeeping /\ Transactions
    BY DEF Bookkeeping, Transactions
  <1>3. RecordedIffApplied /\ AppliedInOrder
    BY DEF RecordedIffApplied, AppliedInOrder
  <1> QED BY <1>1, <1>2, <1>3 DEF Inv

\* Exit keeps the types of what it resets.
LEMMA ExitTypes ==
    ASSUME TypeOK, NEW p \in Replicas, Exit(p)
    PROVE  /\ pc' \in [Replicas -> PCs] /\ applied' \in [Replicas -> SUBSET Ids]
           /\ at' \in [Replicas -> 1..N + 1] /\ tx' \in [Replicas -> 0..2]
  <1>1. "down" \in PCs /\ {} \in SUBSET Ids /\ 1 \in 1..N + 1 /\ 0 \in 0..2
    BY MigrationsAssumption DEF PCs
  <1> QED BY <1>1 DEF Exit, Goto, TypeOK

\* Every step of a replica keeps the invariant.
LEMMA StepInv == Inv /\ [Next]_vars => Inv'
  <1> SUFFICES ASSUME Inv, [Next]_vars PROVE Inv'
    OBVIOUS
  <1> USE MigrationsAssumption DEF Inv, Ids, PCs, Goto
  <1>1. ASSUME NEW p \in Replicas, Start(p) PROVE Inv'
    <2>1. TypeOK'
      BY <1>1 DEF Start, TypeOK
    <2>2. Bookkeeping'
      BY <1>1 DEF Start, TypeOK, Bookkeeping
    <2>3. Transactions'
      BY <1>1 DEF Start, TypeOK, Bookkeeping, Transactions, RecordedIffApplied
    <2>4. RecordedIffApplied'
      BY <1>1 DEF Start, TypeOK, Transactions, RecordedIffApplied, Bookkeeping
    <2>5. AppliedInOrder'
      BY <1>1 DEF Start, TypeOK, Bookkeeping, AppliedInOrder
    <2> QED BY <2>1, <2>2, <2>3, <2>4, <2>5
  <1>2. ASSUME NEW p \in Replicas, CheckTable(p) PROVE Inv'
    <2>1. TypeOK'
      BY <1>2 DEF CheckTable, TypeOK
    <2>2. Bookkeeping'
      BY <1>2 DEF CheckTable, TypeOK, Bookkeeping
    <2>3. Transactions'
      BY <1>2 DEF CheckTable, TypeOK, Bookkeeping, Transactions, RecordedIffApplied
    <2>4. RecordedIffApplied'
      BY <1>2 DEF CheckTable, TypeOK, Transactions, RecordedIffApplied, Bookkeeping
    <2>5. AppliedInOrder'
      BY <1>2 DEF CheckTable, TypeOK, Bookkeeping, AppliedInOrder
    <2> QED BY <2>1, <2>2, <2>3, <2>4, <2>5
  <1>3. ASSUME NEW p \in Replicas, CreateTable(p) PROVE Inv'
    <2>1. TypeOK'
      <3>1. CASE table
        <4>1. /\ table' \in BOOLEAN /\ Exit(p)
              /\ UNCHANGED <<recorded, schema, crashes>>
          BY <1>3, <3>1 DEF CreateTable
        <4> QED BY <4>1, ExitTypes DEF TypeOK
      <3>2. CASE ~(table)
        BY <1>3, <3>2 DEF CreateTable, TypeOK
      <3> QED BY <3>1, <3>2
    <2>2. Bookkeeping'
      <3>1. CASE table
        BY <1>3, <3>1 DEF CreateTable, Exit, TypeOK, Bookkeeping
      <3>2. CASE ~(table)
        BY <1>3, <3>2 DEF CreateTable, TypeOK, Bookkeeping
      <3> QED BY <3>1, <3>2
    <2>3. Transactions'
      <3>1. CASE table
        BY <1>3, <3>1 DEF CreateTable, Exit, TypeOK, Bookkeeping, Transactions, RecordedIffApplied
      <3>2. CASE ~(table)
        BY <1>3, <3>2 DEF CreateTable, TypeOK, Bookkeeping, Transactions, RecordedIffApplied
      <3> QED BY <3>1, <3>2
    <2>4. RecordedIffApplied'
      BY <1>3 DEF CreateTable, Exit, TypeOK, Transactions, RecordedIffApplied, Bookkeeping
    <2>5. AppliedInOrder'
      BY <1>3 DEF CreateTable, Exit, TypeOK, Bookkeeping, AppliedInOrder
    <2> QED BY <2>1, <2>2, <2>3, <2>4, <2>5
  <1>4. ASSUME NEW p \in Replicas, ReadApplied(p) PROVE Inv'
    <2>1. TypeOK'
      BY <1>4 DEF ReadApplied, TypeOK
    <2>2. Bookkeeping'
      BY <1>4 DEF ReadApplied, TypeOK, Bookkeeping
    <2>3. Transactions'
      BY <1>4 DEF ReadApplied, TypeOK, Bookkeeping, Transactions, RecordedIffApplied
    <2>4. RecordedIffApplied'
      BY <1>4 DEF ReadApplied, TypeOK, Transactions, RecordedIffApplied, Bookkeeping
    <2>5. AppliedInOrder'
      BY <1>4 DEF ReadApplied, TypeOK, Bookkeeping, AppliedInOrder
    <2> QED BY <2>1, <2>2, <2>3, <2>4, <2>5
  <1>5. ASSUME NEW p \in Replicas, Skip(p) PROVE Inv'
    <2>1. TypeOK'
      BY <1>5 DEF Skip, TypeOK
    <2>2. Bookkeeping'
      BY <1>5 DEF Skip, TypeOK, Bookkeeping
    <2>3. Transactions'
      BY <1>5 DEF Skip, TypeOK, Bookkeeping, Transactions, RecordedIffApplied
    <2>4. RecordedIffApplied'
      BY <1>5 DEF Skip, TypeOK, Transactions, RecordedIffApplied, Bookkeeping
    <2>5. AppliedInOrder'
      BY <1>5 DEF Skip, TypeOK, Bookkeeping, AppliedInOrder
    <2> QED BY <2>1, <2>2, <2>3, <2>4, <2>5
  <1>6. ASSUME NEW p \in Replicas, ExecSQL(p) PROVE Inv'
    <2>1. TypeOK'
      BY <1>6 DEF ExecSQL, TypeOK
    <2>2. Bookkeeping'
      BY <1>6 DEF ExecSQL, TypeOK, Bookkeeping
    <2>3. Transactions'
      BY <1>6 DEF ExecSQL, TypeOK, Bookkeeping, Transactions, RecordedIffApplied
    <2>4. RecordedIffApplied'
      BY <1>6 DEF ExecSQL, TypeOK, Transactions, RecordedIffApplied, Bookkeeping
    <2>5. AppliedInOrder'
      BY <1>6 DEF ExecSQL, TypeOK, Bookkeeping, AppliedInOrder
    <2> QED BY <2>1, <2>2, <2>3, <2>4, <2>5
  <1>7. ASSUME NEW p \in Replicas, Record(p) PROVE Inv'
    <2>1. TypeOK'
      <3>1. CASE at[p] \in recorded
        <4>1. Exit(p) /\ UNCHANGED <<table, recorded, schema, crashes>>
          BY <1>7, <3>1 DEF Record
        <4> QED BY <4>1, ExitTypes DEF TypeOK
      <3>2. CASE ~(at[p] \in recorded)
        BY <1>7, <3>2 DEF Record, TypeOK
      <3> QED BY <3>1, <3>2
    <2>2. Bookkeeping'
      <3>1. CASE at[p] \in recorded
        <4>1. Exit(p) /\ UNCHANGED <<table, recorded, schema, crashes>>
          BY <1>7, <3>1 DEF Record
        <4> QED BY <4>1 DEF Exit, TypeOK, Bookkeeping
      <3>2. CASE ~(at[p] \in recorded)
        BY <1>7, <3>2 DEF Record, TypeOK, Bookkeeping
      <3> QED BY <3>1, <3>2
    <2>3. Transactions'
      <3>1. CASE at[p] \in recorded
        <4>1. Exit(p) /\ UNCHANGED <<table, recorded, schema, crashes>>
          BY <1>7, <3>1 DEF Record
        <4> QED BY <4>1 DEF Exit, TypeOK, Bookkeeping, Transactions, RecordedIffApplied
      <3>2. CASE ~(at[p] \in recorded)
        BY <1>7, <3>2 DEF Record, TypeOK, Bookkeeping, Transactions, RecordedIffApplied
      <3> QED BY <3>1, <3>2
    <2>4. RecordedIffApplied'
      BY <1>7 DEF Record, Exit, TypeOK, Transactions, RecordedIffApplied, Bookkeeping
    <2>5. AppliedInOrder'
      BY <1>7 DEF Record, Exit, TypeOK, Bookkeeping, AppliedInOrder
    <2> QED BY <2>1, <2>2, <2>3, <2>4, <2>5
  <1>8. ASSUME NEW p \in Replicas, Commit(p) PROVE Inv'
    <2>1. TypeOK'
      <3>1. at[p] \in Ids
        BY <1>8 DEF Commit, Bookkeeping
      <3>2. schema' \in [Ids -> Nat]
        BY <1>8, <3>1 DEF Commit, TypeOK
      <3>4. recorded' \in SUBSET Ids
        BY <1>8, <3>1, recorded' = recorded \cup {at[p]} DEF Commit, TypeOK
      <3>3. at' \in [Replicas -> 1..N + 1] /\ tx' \in [Replicas -> 0..2]
        BY <1>8, <3>1 DEF Commit, TypeOK
      <3> QED BY <1>8, <3>2, <3>3, <3>4 DEF Commit, TypeOK
    <2>2. Bookkeeping'
      BY <1>8 DEF Commit, TypeOK, Bookkeeping
    <2>3. Transactions'
      BY <1>8 DEF Commit, TypeOK, Bookkeeping, Transactions, RecordedIffApplied
    <2>4. RecordedIffApplied'
      BY <1>8 DEF Commit, TypeOK, Transactions, RecordedIffApplied, Bookkeeping
    <2>5. AppliedInOrder'
      BY <1>8 DEF Commit, TypeOK, Bookkeeping, AppliedInOrder
    <2> QED BY <2>1, <2>2, <2>3, <2>4, <2>5
  <1>9. ASSUME NEW p \in Replicas, Serve(p) PROVE Inv'
    <2>1. TypeOK'
      BY <1>9 DEF Serve, TypeOK
    <2>2. Bookkeeping'
      BY <1>9 DEF Serve, TypeOK, Bookkeeping
    <2>3. Transactions'
      BY <1>9 DEF Serve, TypeOK, Bookkeeping, Transactions, RecordedIffApplied
    <2>4. RecordedIffApplied'
      BY <1>9 DEF Serve, TypeOK, Transactions, RecordedIffApplied, Bookkeeping
    <2>5. AppliedInOrder'
      BY <1>9 DEF Serve, TypeOK, Bookkeeping, AppliedInOrder
    <2> QED BY <2>1, <2>2, <2>3, <2>4, <2>5
  <1>10. ASSUME NEW p \in Replicas, Crash(p) PROVE Inv'
    <2>1. TypeOK'
      BY <1>10 DEF Crash, Exit, TypeOK
    <2>2. Bookkeeping'
      BY <1>10 DEF Crash, Exit, TypeOK, Bookkeeping
    <2>3. Transactions'
      BY <1>10 DEF Crash, Exit, TypeOK, Bookkeeping, Transactions, RecordedIffApplied
    <2>4. RecordedIffApplied'
      BY <1>10 DEF Crash, Exit, TypeOK, Transactions, RecordedIffApplied, Bookkeeping
    <2>5. AppliedInOrder'
      BY <1>10 DEF Crash, Exit, TypeOK, Bookkeeping, AppliedInOrder
    <2> QED BY <2>1, <2>2, <2>3, <2>4, <2>5
  <1>11. CASE UNCHANGED vars
    BY <1>11 DEF vars, TypeOK, Bookkeeping, Transactions, RecordedIffApplied, AppliedInOrder
  <1> QED BY <1>1, <1>2, <1>3, <1>4, <1>5, <1>6, <1>7, <1>8, <1>9, <1>10, <1>11 DEF Next, Work

\* The specification keeps the invariant.
THEOREM MigrationsInvariant == Spec => []Inv
  BY InitInv, StepInv, PTL DEF Spec

\* The types hold for any number of replicas and migrations.
THEOREM MigrationTypes == Spec => []TypeOK
  <1>1. Inv => TypeOK
    BY DEF Inv
  <1> QED BY MigrationsInvariant, <1>1, PTL

\* However many replicas start together and crash, a migration is recorded
\* exactly when its changes were committed, once.
THEOREM RecordTheorem == Spec => []RecordedIffApplied
  <1>1. Inv => RecordedIffApplied
    BY DEF Inv
  <1> QED BY MigrationsInvariant, <1>1, PTL

\* The migrations are applied in the order of the list.
THEOREM OrderTheorem == Spec => []AppliedInOrder
  <1>1. Inv => AppliedInOrder
    BY DEF Inv
  <1> QED BY MigrationsInvariant, <1>1, PTL

\* A replica that serves has the whole schema.
THEOREM ServeTheorem == Spec => []ServesMigrated
  <1>1. Inv => ServesMigrated
    <2> SUFFICES ASSUME Inv, NEW p \in Replicas, pc[p] = "serving" PROVE recorded = Ids
      BY DEF ServesMigrated
    <2>1. \A i \in Ids : i \in recorded
      BY MigrationsAssumption DEF Inv, Bookkeeping, Ids
    <2>2. recorded \subseteq Ids
      BY DEF Inv, TypeOK
    <2> QED BY <2>1, <2>2
  <1> QED BY MigrationsInvariant, <1>1, PTL

\* The migrations the schema has are the ones recorded.
LEMMA DoneIsRecorded == Inv => Done = recorded
  <1> SUFFICES ASSUME Inv PROVE Done = recorded
    OBVIOUS
  <1>1. recorded \subseteq Ids /\ \A i \in Ids : schema[i] = IF i \in recorded THEN 1 ELSE 0
    BY DEF Inv, TypeOK, RecordedIffApplied
  <1> QED BY <1>1 DEF Done

\* A step of a replica is a step of the abstract upgrade, or none.
LEMMA StepRefines == Inv /\ Inv' /\ [Next]_vars => [Upgrade!Next]_<<Done, Serving>>
  <1> SUFFICES ASSUME Inv, Inv', [Next]_vars PROVE [Upgrade!Next]_<<Done, Serving>>
    OBVIOUS
  <1>1. Done = recorded /\ Done' = recorded'
    <2>1. (Done = recorded)'
      BY DoneIsRecorded, PTL
    <2> QED BY DoneIsRecorded, <2>1
  <1>2. pc \in [Replicas -> PCs]
    BY DEF Inv, TypeOK
  <1>3. ASSUME NEW p \in Replicas, Commit(p) PROVE Upgrade!Next
    <2>1. at[p] \in Ids /\ at[p] \notin recorded
      BY <1>3 DEF Commit, Inv, Bookkeeping, Transactions
    <2>2. 1..at[p] - 1 \subseteq recorded
      BY <2>1, MigrationsAssumption DEF Inv, Bookkeeping, Ids
    <2>3. recorded' = recorded \cup {at[p]} /\ Serving' = Serving
      BY <1>2, <1>3 DEF Commit, Goto, Serving
    <2>4. Upgrade!Upgrade(at[p])
      BY <1>1, <2>1, <2>2, <2>3 DEF Upgrade!Upgrade
    <2> QED BY <2>1, <2>4 DEF Upgrade!Next, Ids
  <1>4. ASSUME NEW p \in Replicas, Serve(p) PROVE Upgrade!Next
    <2>1. recorded = 1..N
      <3>1. \A i \in Ids : i \in recorded
        BY <1>4, MigrationsAssumption DEF Serve, Inv, Bookkeeping, Ids
      <3> QED BY <3>1 DEF Inv, TypeOK, Ids
    <2>2. recorded' = recorded /\ Serving' = Serving \cup {p}
      BY <1>2, <1>4 DEF Serve, Goto, Serving
    <2> QED BY <1>1, <2>1, <2>2 DEF Upgrade!Open, Upgrade!Next
  <1>5. ASSUME NEW p \in Replicas, pc' = [pc EXCEPT ![p] = "down"], UNCHANGED recorded
        PROVE  Upgrade!Next
    <2>1. Serving' = Serving \ {p}
      BY <1>2, <1>5 DEF Serving
    <2> QED BY <1>1, <1>5, <2>1 DEF Upgrade!Close, Upgrade!Next
  <1>6. ASSUME NEW p \in Replicas, UNCHANGED recorded, pc[p] # "serving",
               NEW l \in PCs \ {"serving"}, pc' = [pc EXCEPT ![p] = l]
        PROVE  UNCHANGED <<Done, Serving>>
    <2>1. Serving' = Serving
      BY <1>2, <1>6 DEF Serving
    <2> QED BY <1>1, <1>6, <2>1
  <1>7. ASSUME NEW p \in Replicas, Crash(p) PROVE Upgrade!Next
    BY <1>5, <1>7 DEF Crash, Exit, Goto
  <1>8. ASSUME NEW p \in Replicas, CreateTable(p) PROVE [Upgrade!Next]_<<Done, Serving>>
    <2>1. CASE table
      BY <1>5, <1>8, <2>1 DEF CreateTable, Exit, Goto
    <2>2. CASE ~table
      BY <1>6, <1>8, <2>2 DEF CreateTable, Goto, PCs
    <2> QED BY <2>1, <2>2
  <1>9. ASSUME NEW p \in Replicas, Record(p) PROVE [Upgrade!Next]_<<Done, Serving>>
    <2>1. CASE at[p] \in recorded
      BY <1>5, <1>9, <2>1 DEF Record, Exit, Goto
    <2>2. CASE at[p] \notin recorded
      BY <1>6, <1>9, <2>2 DEF Record, Goto, PCs
    <2> QED BY <2>1, <2>2
  <1>10. ASSUME NEW p \in Replicas, Start(p) \/ CheckTable(p) \/ ReadApplied(p) \/ ExecSQL(p)
         PROVE  UNCHANGED <<Done, Serving>>
    BY <1>6, <1>10 DEF Start, CheckTable, ReadApplied, ExecSQL, Goto, PCs
  <1>11. ASSUME NEW p \in Replicas, Skip(p) PROVE UNCHANGED <<Done, Serving>>
    BY <1>1, <1>11 DEF Skip, Serving
  <1>12. CASE UNCHANGED vars
    BY <1>1, <1>12 DEF vars, Serving
  <1> QED BY <1>3, <1>4, <1>7, <1>8, <1>9, <1>10, <1>11, <1>12 DEF Next, Work

\* However many replicas start together and crash, the schema goes through one
\* upgrade, in order and never taken back, and only its end is served.
THEOREM UpgradeRefinement == Spec => OneUpgrade
  <1>1. Init => Upgrade!Init
    <2> SUFFICES ASSUME Init PROVE Upgrade!Init
      OBVIOUS
    <2>1. Done = {}
      BY DEF Init, Done
    <2>2. Serving = {}
      BY DEF Init, Serving
    <2> QED BY <2>1, <2>2 DEF Upgrade!Init
  <1> QED BY <1>1, MigrationsInvariant, StepRefines, PTL DEF Spec, OneUpgrade, Upgrade!Spec

=============================================================================
