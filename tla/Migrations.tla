----------------------------- MODULE Migrations -----------------------------
(***************************************************************************)
(* Schema migrations at startup.  Every replica runs initializeSchema on   *)
(* the shared database: it creates the migrations table unless it is there,*)
(* reads which migrations are recorded, and applies the others in order,   *)
(* each in a transaction that runs its SQL and records it.  A replica that *)
(* meets an error exits and is started again.                              *)
(***************************************************************************)
EXTENDS Naturals, FiniteSets

CONSTANTS Replicas,  \* processes that share the database
          N,         \* number of migrations
          Crashes    \* bound on crashes and database errors

ASSUME MigrationsAssumption == N \in Nat \ {0} /\ Crashes \in Nat

VARIABLES
    table,     \* the migrations table exists
    recorded,  \* its rows, as committed
    schema,    \* schema[i]: how often migration i's changes were committed
    pc,        \* where replica p is in initializeSchema
    applied,   \* what getAppliedMigrations returned to p
    at,        \* the migration p looks at
    tx,        \* p's transaction: 0, or the changes it makes (1: yes, 2: none needed)
    crashes    \* crashes so far

vars == <<table, recorded, schema, pc, applied, at, tx, crashes>>

Ids == 1..N
PCs == {"down", "check", "create", "read", "loop", "record", "commit", "serving"}

TypeOK ==
    /\ table \in BOOLEAN
    /\ recorded \in SUBSET Ids
    /\ schema \in [Ids -> Nat]
    /\ pc \in [Replicas -> PCs]
    /\ applied \in [Replicas -> SUBSET Ids]
    /\ at \in [Replicas -> 1..N + 1]
    /\ tx \in [Replicas -> 0..2]
    /\ crashes \in 0..Crashes

Init ==
    /\ table = FALSE /\ recorded = {} /\ schema = [i \in Ids |-> 0]
    /\ pc = [p \in Replicas |-> "down"]
    /\ applied = [p \in Replicas |-> {}]
    /\ at = [p \in Replicas |-> 1]
    /\ tx = [p \in Replicas |-> 0]
    /\ crashes = 0

Goto(p, l) == pc' = [pc EXCEPT ![p] = l]

\* os.Exit: an open transaction is rolled back
Exit(p) ==
    /\ Goto(p, "down")
    /\ applied' = [applied EXCEPT ![p] = {}]
    /\ at' = [at EXCEPT ![p] = 1]
    /\ tx' = [tx EXCEPT ![p] = 0]

\* a statement that fails, or a crash
Crash(p) ==
    /\ pc[p] # "down" /\ crashes < Crashes
    /\ crashes' = crashes + 1
    /\ Exit(p)
    /\ UNCHANGED <<table, recorded, schema>>

\* the process is started (again)
Start(p) ==
    /\ pc[p] = "down"
    /\ Goto(p, "check")
    /\ UNCHANGED <<table, recorded, schema, applied, at, tx, crashes>>

\* createMigrationsTable: the check ...
CheckTable(p) ==
    /\ pc[p] = "check"
    /\ Goto(p, IF table THEN "read" ELSE "create")
    /\ UNCHANGED <<table, recorded, schema, applied, at, tx, crashes>>

\* ... and the CREATE TABLE, an error when another replica was faster
CreateTable(p) ==
    /\ pc[p] = "create"
    /\ IF table THEN Exit(p) ELSE Goto(p, "read") /\ UNCHANGED <<applied, at, tx>>
    /\ table' = TRUE
    /\ UNCHANGED <<recorded, schema, crashes>>

\* getAppliedMigrations
ReadApplied(p) ==
    /\ pc[p] = "read"
    /\ applied' = [applied EXCEPT ![p] = recorded]
    /\ Goto(p, "loop")
    /\ UNCHANGED <<table, recorded, schema, at, tx, crashes>>

\* the loop: a migration that was recorded is skipped ...
Skip(p) ==
    /\ pc[p] = "loop" /\ at[p] \in applied[p]
    /\ at' = [at EXCEPT ![p] = @ + 1]
    /\ UNCHANGED <<table, recorded, schema, pc, applied, tx, crashes>>

\* Mutation of ExecSQL: the SQL runs before the transaction begins.
ExecSQLOutside(p) ==
    /\ pc[p] = "loop" /\ at[p] \in Ids \ applied[p]
    /\ schema' = [schema EXCEPT ![at[p]] = IF @ = 0 THEN 1 ELSE @]
    /\ tx' = [tx EXCEPT ![p] = 2]
    /\ Goto(p, "record")
    /\ UNCHANGED <<table, recorded, applied, at, crashes>>

\* ... another one is applied: BEGIN and its SQL, which changes nothing where
\* the schema has the change already (IF NOT EXISTS)
ExecSQL(p) ==
    /\ pc[p] = "loop" /\ at[p] \in Ids \ applied[p]
    /\ tx' = [tx EXCEPT ![p] = IF schema[at[p]] = 0 THEN 1 ELSE 2]
    /\ Goto(p, "record")
    /\ UNCHANGED <<table, recorded, schema, applied, at, crashes>>

\* Mutation of Record: a duplicate key sends the replica back to its stale list.
RecordRetries(p) ==
    /\ pc[p] = "record"
    /\ \A q \in Replicas : pc[q] = "commit" => at[q] # at[p]
    /\ IF at[p] \in recorded THEN Goto(p, "loop") /\ tx' = [tx EXCEPT ![p] = 0]
       ELSE Goto(p, "commit") /\ UNCHANGED tx
    /\ UNCHANGED <<table, recorded, schema, applied, at, crashes>>

\* Mutation of Record: a duplicate key means another replica migrates; go on.
RecordServes(p) ==
    /\ pc[p] = "record"
    /\ \A q \in Replicas : pc[q] = "commit" => at[q] # at[p]
    /\ IF at[p] \in recorded THEN Goto(p, "serving") /\ tx' = [tx EXCEPT ![p] = 0]
       ELSE Goto(p, "commit") /\ UNCHANGED tx
    /\ UNCHANGED <<table, recorded, schema, applied, at, crashes>>

\* INSERT INTO migrations: waits for another transaction's row with the same
\* key, and is an error once that row is committed
Record(p) ==
    /\ pc[p] = "record"
    /\ \A q \in Replicas : pc[q] = "commit" => at[q] # at[p]
    /\ IF at[p] \in recorded THEN Exit(p) ELSE Goto(p, "commit") /\ UNCHANGED <<applied, at, tx>>
    /\ UNCHANGED <<table, recorded, schema, crashes>>

Commit(p) ==
    /\ pc[p] = "commit"
    /\ recorded' = recorded \cup {at[p]}
    /\ schema' = [schema EXCEPT ![at[p]] = IF tx[p] = 1 THEN @ + 1 ELSE @]
    /\ tx' = [tx EXCEPT ![p] = 0]
    /\ at' = [at EXCEPT ![p] = @ + 1]
    /\ Goto(p, "loop")
    /\ UNCHANGED <<table, applied, crashes>>

\* the loop is done: main goes on and serves
Serve(p) ==
    /\ pc[p] = "loop" /\ at[p] = N + 1
    /\ Goto(p, "serving")
    /\ UNCHANGED <<table, recorded, schema, applied, at, tx, crashes>>

Work(p) ==
    \/ Start(p) \/ CheckTable(p) \/ CreateTable(p) \/ ReadApplied(p) \/ Skip(p)
    \/ ExecSQL(p) \/ Record(p) \/ Commit(p) \/ Serve(p)

Next == \E p \in Replicas : Work(p) \/ Crash(p)

\* every replica is scheduled, and restarted when it exits
Spec == Init /\ [][Next]_vars /\ \A p \in Replicas : WF_vars(Work(p))

-----------------------------------------------------------------------------
(* Properties *)

\* A migration is recorded exactly when its changes are in the schema, and its
\* changes were made once, however replicas interleave and crash.
RecordedIffApplied ==
    \A i \in Ids : schema[i] = IF i \in recorded THEN 1 ELSE 0

\* The migrations are applied in order, without gaps.
AppliedInOrder ==
    \A i \in recorded : 1..i \subseteq recorded

\* A replica serves only with every migration applied.
ServesMigrated ==
    \A p \in Replicas : pc[p] = "serving" => recorded = Ids

\* Replicas that get in each other's way at startup do not do so for ever:
\* all of them end up serving.
AllServe == <>[](\A p \in Replicas : pc[p] = "serving")

\* The schema as it is, and the replicas that serve, seen as one upgrade.
Done == {i \in Ids : schema[i] > 0}
Serving == {p \in Replicas : pc[p] = "serving"}
Upgrade == INSTANCE SchemaUpgrade WITH done <- Done, open <- Serving

\* Replicas that race through initializeSchema and crash anywhere in it look,
\* from the schema, like one upgrade in order that nothing takes back.
OneUpgrade == Upgrade!Spec

=============================================================================
