----------------------------- MODULE UsersProofs -----------------------------
(* Proofs about Users for any users, tokens, requests and sessions. *)
EXTENDS Users, TLAPS

\* Requests, goroutines and cached entries name ids that were generated, and
\* what will be written under a token has one.
Named ==
    /\ \A r \in Requests : req[r].st # "idle" => req[r].id \in used
    /\ \A r \in Requests : req[r].st \in {"insert", "fill", "ready"} => req[r].tok \in Tokens
    /\ \A s \in Sessions : sess[s].st # "none" => sess[s].id \in used /\ sess[s].tok \in Tokens
    /\ held \subseteq used \X Tokens

\* An id on its way to its INSERT is known to its own request only, and what
\* DeleteUserComplete is about to forget has no row.
Admin == {"insert", "update", "hook", "delete", "forget"}
Fresh ==
    /\ \A r \in Requests : req[r].st = "insert" =>
          row[req[r].id] = None /\ req[r].id \notin gone \cup dropped
    /\ \A r, q \in Requests : r # q /\ req[r].st = "insert" /\ req[q].st \in Admin =>
          req[q].id # req[r].id
    /\ \A r \in Requests : req[r].st = "forget" => row[req[r].id] = None

\* Whoever has a user together with a token has a pair that the table has held.
Holders ==
    /\ \A i \in UserIds : row[i] # None => <<i, row[i]>> \in held
    /\ CachedHolder
    /\ \A r \in Requests : req[r].st \in {"fill", "ready"} => <<req[r].id, req[r].tok>> \in held
    /\ \A s \in Sessions : sess[s].st # "none" /\ sess[s].entry # None =>
          <<sess[s].entry, sess[s].tok>> \in held

\* Nobody has a user that was removed cleanly.
Forgotten ==
    /\ CleanDeletionStays
    /\ \A r \in Requests : req[r].st \in {"fill", "ready"} => req[r].id \notin clean
    /\ \A s \in Sessions : sess[s].st # "none" =>
          sess[s].id \notin clean /\ sess[s].entry \notin clean

UsersInv == TypeOK /\ Named /\ Fresh /\ RowStaysDeleted /\ Holders /\ Forgotten

\* The empty table satisfies the invariant.
LEMMA InitUsers == Init => UsersInv
  <1> SUFFICES ASSUME Init PROVE UsersInv
    OBVIOUS
  <1> USE UsersAssumption DEF Init, Idle, NoSess, OptId, OptToken, Reqs, Runs
  <1>1. TypeOK
    BY DEF TypeOK
  <1>2. Named /\ Fresh
    BY DEF Named, Fresh
  <1>3. RowStaysDeleted
    BY DEF RowStaysDeleted
  <1>4. Holders
    BY DEF Holders, CachedHolder
  <1>5. Forgotten
    BY DEF Forgotten, CleanDeletionStays
  <1> QED
    BY <1>1, <1>2, <1>3, <1>4, <1>5 DEF UsersInv

\* Every step of a request and of startClient keeps the invariant.
LEMMA StepUsers == UsersInv /\ [Next]_vars => UsersInv'
  <1> SUFFICES ASSUME UsersInv, [Next]_vars PROVE UsersInv'
    OBVIOUS
  <1> USE UsersAssumption DEF UsersInv, OptId, OptToken
  <1>1. ASSUME NEW r \in Requests, Create(r) PROVE UsersInv'
    <2>1. PICK i \in UserIds \ used, t \in Tokens :
             /\ used' = used \cup {i}
             /\ req' = [req EXCEPT ![r] = [st |-> "insert", id |-> i, tok |-> t, old |-> None]]
      BY <1>1 DEF Create, Become
    <2>2. /\ req[r].st = "idle" /\ calm' \in BOOLEAN
          /\ UNCHANGED <<row, cache, client, sess, gone, clean, dropped, held>>
      BY <1>1 DEF Create, Starts, Idle, removed, TypeOK
    <2>3. TypeOK'
      BY <2>1, <2>2 DEF TypeOK, Named, Reqs, Runs, Idle, NoSess
    <2>4. Named'
      BY <2>1, <2>2 DEF TypeOK, Named, Idle, NoSess, Reqs, Runs
    <2>5. Fresh'
      BY <2>1, <2>2 DEF TypeOK, Named, Fresh, Admin, Idle, Reqs
    <2>6. RowStaysDeleted'
      BY <2>1, <2>2 DEF TypeOK, Named, Fresh, RowStaysDeleted
    <2>7. Holders'
      BY <2>1, <2>2 DEF TypeOK, Named, Holders, CachedHolder, Idle, NoSess
    <2>8. Forgotten'
      BY <2>1, <2>2 DEF TypeOK, Named, RowStaysDeleted, Forgotten, CleanDeletionStays, Idle, NoSess
    <2> QED
      BY <2>3, <2>4, <2>5, <2>6, <2>7, <2>8
  <1>2. ASSUME NEW r \in Requests, CreateRow(r) PROVE UsersInv'
    <2>1. /\ req[r].st = "insert"
          /\ row' = [row EXCEPT ![req[r].id] = req[r].tok]
          /\ held' = held \cup {<<req[r].id, req[r].tok>>}
          /\ req' = [req EXCEPT ![r] = Idle]
          /\ UNCHANGED <<used, cache, client, sess, gone, clean, dropped, calm>>
      BY <1>2 DEF CreateRow, End, removed
    <2>2. req[r].id \in used /\ req[r].id \in UserIds /\ req[r].tok \in Tokens
      BY <2>1 DEF TypeOK, Named
    <2>3. TypeOK'
      BY <2>1, <2>2 DEF TypeOK, Named, Reqs, Runs, Idle, NoSess
    <2>4. Named'
      BY <2>1, <2>2 DEF TypeOK, Named, Idle, NoSess, Reqs, Runs
    <2>5. Fresh'
      BY <2>1, <2>2 DEF TypeOK, Named, Fresh, Admin, Idle, Reqs
    <2>6. RowStaysDeleted'
      BY <2>1, <2>2 DEF TypeOK, Named, Fresh, RowStaysDeleted
    <2>7. Holders'
      BY <2>1, <2>2 DEF TypeOK, Named, Holders, CachedHolder, Idle, NoSess
    <2>8. Forgotten'
      BY <2>1, <2>2 DEF TypeOK, Named, RowStaysDeleted, Forgotten, CleanDeletionStays, Idle, NoSess
    <2> QED
      BY <2>3, <2>4, <2>5, <2>6, <2>7, <2>8
  <1>3. ASSUME NEW r \in Requests, Update(r) PROVE UsersInv'
    <2>1. PICK i \in UserIds, t \in OptToken :
             /\ row[i] # None
             /\ req' = [req EXCEPT ![r] = [st |-> "update", id |-> i, tok |-> t, old |-> row[i]]]
      BY <1>3 DEF Update, Become
    <2>2. /\ req[r].st = "idle" /\ calm' \in BOOLEAN
          /\ UNCHANGED <<row, used, cache, client, sess, gone, clean, dropped, held>>
      BY <1>3 DEF Update, Starts, Idle, removed, TypeOK
    <2>3. i \in used /\ row[i] \in OptToken
      BY <2>1 DEF TypeOK
    <2>4. TypeOK'
      BY <2>1, <2>2, <2>3 DEF TypeOK, Named, Reqs, Runs, Idle, NoSess
    <2>5. Named'
      BY <2>1, <2>2, <2>3 DEF TypeOK, Named, Idle, NoSess, Reqs, Runs
    <2>6. Fresh'
      BY <2>1, <2>2, <2>3 DEF TypeOK, Named, Fresh, Admin, Idle, Reqs
    <2>7. RowStaysDeleted'
      BY <2>1, <2>2, <2>3 DEF TypeOK, Named, Fresh, RowStaysDeleted
    <2>8. Holders'
      BY <2>1, <2>2, <2>3 DEF TypeOK, Named, Holders, CachedHolder, Idle, NoSess
    <2>9. Forgotten'
      BY <2>1, <2>2, <2>3 DEF TypeOK, Named, RowStaysDeleted, Forgotten, CleanDeletionStays, Idle, NoSess
    <2> QED
      BY <2>4, <2>5, <2>6, <2>7, <2>8, <2>9
  <1>4. ASSUME NEW r \in Requests, UpdateRow(r) PROVE UsersInv'
    <2> DEFINE i == req[r].id
               t == req[r].tok
    <2>1. /\ req[r].st = "update"
          /\ IF row[i] = None \/ t = None
             THEN row' = row /\ held' = held
             ELSE row' = [row EXCEPT ![i] = t] /\ held' = held \cup {<<i, t>>}
          /\ req' = [req EXCEPT ![r] = [st |-> "hook", id |-> i, tok |-> t, old |-> req[r].old]]
          /\ UNCHANGED <<used, cache, client, sess, gone, clean, dropped, calm>>
      BY <1>4 DEF UpdateRow, Become, removed
    <2>2. i \in used /\ i \in UserIds /\ t \in OptToken /\ req[r].old \in OptToken
      BY <2>1 DEF TypeOK, Named, Reqs
    <2>3. \A q \in Requests : q # r /\ req[q].st = "insert" => req[q].id # i
      BY <2>1 DEF Fresh, Admin
    <2> HIDE DEF i, t
    <2>4. /\ row' \in [UserIds -> OptToken] /\ held' \subseteq UserIds \X Tokens
          /\ held \subseteq held'
          /\ \A j \in UserIds : /\ row[j] = None => row'[j] = None
                                /\ row'[j] # None => <<j, row'[j]>> \in held'
      BY <2>1, <2>2 DEF TypeOK, Holders
    <2>5. TypeOK'
      BY <2>1, <2>2, <2>3, <2>4 DEF TypeOK, Named, Reqs, Runs, Idle, NoSess
    <2>6. Named'
      BY <2>1, <2>2, <2>3, <2>4 DEF TypeOK, Named, Idle, NoSess, Reqs, Runs
    <2>7. Fresh'
      BY <2>1, <2>2, <2>3, <2>4 DEF TypeOK, Named, Fresh, Admin, Idle, Reqs
    <2>8. RowStaysDeleted'
      BY <2>1, <2>2, <2>3, <2>4 DEF TypeOK, Named, Fresh, RowStaysDeleted
    <2>9. Holders'
      BY <2>1, <2>2, <2>3, <2>4 DEF TypeOK, Named, Holders, CachedHolder, Idle, NoSess
    <2>10. Forgotten'
      BY <2>1, <2>2, <2>3, <2>4 DEF TypeOK, Named, RowStaysDeleted, Forgotten, CleanDeletionStays, Idle, NoSess
    <2> QED
      BY <2>5, <2>6, <2>7, <2>8, <2>9, <2>10
  <1>5. ASSUME NEW r \in Requests, UpdateHook(r) PROVE UsersInv'
    <2>1. /\ req[r].st = "hook"
          /\ cache' = [t \in Tokens |-> IF t \in {req[r].tok, req[r].old} THEN None ELSE cache[t]]
          /\ req' = [req EXCEPT ![r] = Idle]
          /\ UNCHANGED <<row, used, client, sess, gone, clean, dropped, held, calm>>
      BY <1>5 DEF UpdateHook, End, removed
    <2>2. cache' \in [Tokens -> OptId] /\ \A t \in Tokens : cache'[t] # None => cache'[t] = cache[t]
      BY <2>1 DEF TypeOK
    <2>3. None \notin clean
      BY DEF TypeOK
    <2>4. TypeOK'
      BY <2>1, <2>2, <2>3 DEF TypeOK, Named, Reqs, Runs, Idle, NoSess
    <2>5. Named'
      BY <2>1, <2>2, <2>3 DEF TypeOK, Named, Idle, NoSess, Reqs, Runs
    <2>6. Fresh'
      BY <2>1, <2>2, <2>3 DEF TypeOK, Named, Fresh, Admin, Idle, Reqs
    <2>7. RowStaysDeleted'
      BY <2>1, <2>2, <2>3 DEF TypeOK, Named, Fresh, RowStaysDeleted
    <2>8. Holders'
      BY <2>1, <2>2, <2>3 DEF TypeOK, Named, Holders, CachedHolder, Idle, NoSess
    <2>9. Forgotten'
      BY <2>1, <2>2, <2>3 DEF TypeOK, Named, RowStaysDeleted, Forgotten, CleanDeletionStays, Idle, NoSess
    <2> QED
      BY <2>4, <2>5, <2>6, <2>7, <2>8, <2>9
  <1>6. ASSUME NEW r \in Requests, Delete(r) PROVE UsersInv'
    <2>1. PICK i \in UserIds : /\ row[i] # None
                               /\ row' = [row EXCEPT ![i] = None]
                               /\ dropped' = dropped \cup {i}
      BY <1>6 DEF Delete
    <2>2. calm' \in BOOLEAN /\ UNCHANGED <<used, cache, client, req, sess, gone, clean, held>>
      BY <1>6 DEF Delete, Starts, TypeOK
    <2>3. i \in used
      BY <2>1 DEF TypeOK
    <2>4. TypeOK'
      BY <2>1, <2>2, <2>3 DEF TypeOK, Named, Reqs, Runs, Idle, NoSess
    <2>5. Named'
      BY <2>1, <2>2, <2>3 DEF TypeOK, Named, Idle, NoSess, Reqs, Runs
    <2>6. Fresh'
      BY <2>1, <2>2, <2>3 DEF TypeOK, Named, Fresh, Admin, Idle, Reqs
    <2>7. RowStaysDeleted'
      BY <2>1, <2>2, <2>3 DEF TypeOK, Named, Fresh, RowStaysDeleted
    <2>8. Holders'
      BY <2>1, <2>2, <2>3 DEF TypeOK, Named, Holders, CachedHolder, Idle, NoSess
    <2>9. Forgotten'
      BY <2>1, <2>2, <2>3 DEF TypeOK, Named, RowStaysDeleted, Forgotten, CleanDeletionStays, Idle, NoSess
    <2> QED
      BY <2>4, <2>5, <2>6, <2>7, <2>8, <2>9
  <1>7. ASSUME NEW r \in Requests, DeleteUserComplete(r) PROVE UsersInv'
    <2>1. PICK i \in UserIds, t \in OptToken :
             /\ row[i] # None
             /\ req' = [req EXCEPT ![r] = [st |-> "delete", id |-> i, tok |-> t, old |-> None]]
      BY <1>7 DEF DeleteUserComplete, Become, TypeOK
    <2>2. /\ req[r].st = "idle" /\ calm' \in BOOLEAN
          /\ UNCHANGED <<row, used, cache, client, sess, gone, clean, dropped, held>>
      BY <1>7 DEF DeleteUserComplete, Starts, Idle, removed, TypeOK
    <2>3. i \in used
      BY <2>1 DEF TypeOK
    <2>4. TypeOK'
      BY <2>1, <2>2, <2>3 DEF TypeOK, Named, Reqs, Runs, Idle, NoSess
    <2>5. Named'
      BY <2>1, <2>2, <2>3 DEF TypeOK, Named, Idle, NoSess, Reqs, Runs
    <2>6. Fresh'
      BY <2>1, <2>2, <2>3 DEF TypeOK, Named, Fresh, Admin, Idle, Reqs
    <2>7. RowStaysDeleted'
      BY <2>1, <2>2, <2>3 DEF TypeOK, Named, Fresh, RowStaysDeleted
    <2>8. Holders'
      BY <2>1, <2>2, <2>3 DEF TypeOK, Named, Holders, CachedHolder, Idle, NoSess
    <2>9. Forgotten'
      BY <2>1, <2>2, <2>3 DEF TypeOK, Named, RowStaysDeleted, Forgotten, CleanDeletionStays, Idle, NoSess
    <2> QED
      BY <2>4, <2>5, <2>6, <2>7, <2>8, <2>9
  <1>8. ASSUME NEW r \in Requests, DeleteUserRow(r) PROVE UsersInv'
    <2> DEFINE i == req[r].id
               t == req[r].tok
    <2>1. /\ req[r].st = "delete"
          /\ row' = [row EXCEPT ![i] = None]
          /\ req' = [req EXCEPT ![r] = [st |-> "forget", id |-> i, tok |-> t, old |-> None]]
          /\ UNCHANGED <<used, cache, client, sess, gone, clean, dropped, held, calm>>
      BY <1>8 DEF DeleteUserRow, Become, removed
    <2>2. i \in used /\ i \in UserIds /\ t \in OptToken
      BY <2>1 DEF TypeOK, Named, Reqs
    <2>3. \A q \in Requests : q # r /\ req[q].st = "insert" => req[q].id # i
      BY <2>1 DEF Fresh, Admin
    <2> HIDE DEF i, t
    <2>4. TypeOK'
      BY <2>1, <2>2, <2>3 DEF TypeOK, Named, Reqs, Runs, Idle, NoSess
    <2>5. Named'
      BY <2>1, <2>2, <2>3 DEF TypeOK, Named, Idle, NoSess, Reqs, Runs
    <2>6. Fresh'
      BY <2>1, <2>2, <2>3 DEF TypeOK, Named, Fresh, Admin, Idle, Reqs
    <2>7. RowStaysDeleted'
      BY <2>1, <2>2, <2>3 DEF TypeOK, Named, Fresh, RowStaysDeleted
    <2>8. Holders'
      BY <2>1, <2>2, <2>3 DEF TypeOK, Named, Holders, CachedHolder, Idle, NoSess
    <2>9. Forgotten'
      BY <2>1, <2>2, <2>3 DEF TypeOK, Named, RowStaysDeleted, Forgotten, CleanDeletionStays, Idle, NoSess
    <2> QED
      BY <2>4, <2>5, <2>6, <2>7, <2>8, <2>9
  <1>9. ASSUME NEW r \in Requests, StatementFails(r) PROVE UsersInv'
    <2>1. /\ req' = [req EXCEPT ![r] = Idle]
          /\ UNCHANGED <<row, used, cache, client, sess, gone, clean, dropped, held, calm>>
      BY <1>9 DEF StatementFails, End, removed
    <2>2. TypeOK'
      BY <2>1 DEF TypeOK, Named, Reqs, Runs, Idle, NoSess
    <2>3. Named'
      BY <2>1 DEF TypeOK, Named, Idle, NoSess, Reqs, Runs
    <2>4. Fresh'
      BY <2>1 DEF TypeOK, Named, Fresh, Admin, Idle, Reqs
    <2>5. RowStaysDeleted'
      BY <2>1 DEF TypeOK, Named, Fresh, RowStaysDeleted
    <2>6. Holders'
      BY <2>1 DEF TypeOK, Named, Holders, CachedHolder, Idle, NoSess
    <2>7. Forgotten'
      BY <2>1 DEF TypeOK, Named, RowStaysDeleted, Forgotten, CleanDeletionStays, Idle, NoSess
    <2> QED
      BY <2>2, <2>3, <2>4, <2>5, <2>6, <2>7
  <1>10. ASSUME NEW r \in Requests, DeleteUserMemory(r) PROVE UsersInv'
    <2> DEFINE i == req[r].id
    <2>1. /\ req[r].st = "forget"
          /\ client' = client \ {i}
          /\ cache' = [t \in Tokens |-> IF t = req[r].tok THEN None ELSE cache[t]]
          /\ gone' = gone \cup {i}
          /\ req' = [req EXCEPT ![r] = Idle]
          /\ UNCHANGED <<row, used, sess, dropped, held, calm>>
      BY <1>10 DEF DeleteUserMemory, Removed, End
    <2>2. \/ clean' = clean
          \/ /\ clean' = clean \cup {i}
             /\ ~Holds(r, i)
             /\ \A t \in Tokens \ {req[r].tok} : cache[t] # i
      BY <1>10 DEF DeleteUserMemory, Removed
    <2>3. i \in used /\ i \in UserIds /\ row[i] = None
      BY <2>1 DEF TypeOK, Named, Fresh
    <2>4. \A q \in Requests : q # r /\ req[q].st = "insert" => req[q].id # i
      BY <2>1 DEF Fresh, Admin
    <2>5. cache' \in [Tokens -> OptId] /\ \A t \in Tokens : cache'[t] # None => cache'[t] = cache[t]
      BY <2>1 DEF TypeOK
    <2>6. CleanDeletionStays'
      <3>1. \A j \in clean' : j \in UserIds /\ (j \in clean \/ j = i)
        BY <2>2, <2>3 DEF TypeOK
      <3>2. \A j \in clean' : j \notin client'
        BY <2>1, <3>1 DEF Forgotten, CleanDeletionStays
      <3>3. ASSUME NEW j \in clean', NEW t \in Tokens PROVE cache'[t] # j
        <4>1. CASE j \in clean
          BY <2>5, <3>1, <4>1 DEF Forgotten, CleanDeletionStays
        <4>2. CASE j \notin clean
          BY <2>1, <2>2, <3>1, <4>2
        <4> QED
          BY <4>1, <4>2
      <3> QED
        BY <3>2, <3>3 DEF CleanDeletionStays
    <2>7. \A q \in Requests : req'[q].st \in {"fill", "ready"} => q # r /\ req[q].st \in {"fill", "ready"} /\ req'[q].id = req[q].id
      BY <2>1 DEF TypeOK, Idle
    <2>8. Forgotten'
      <3>1. \A q \in Requests : req'[q].st \in {"fill", "ready"} => req'[q].id \notin clean'
        BY <2>2, <2>7 DEF Forgotten, Holds
      <3>2. \A s \in Sessions : sess[s].st # "none" =>
               sess[s].id \notin clean' /\ sess[s].entry \notin clean'
        BY <2>2 DEF Forgotten, Holds
      <3> QED
        BY <2>1, <2>6, <3>1, <3>2 DEF Forgotten
    <2> HIDE DEF i
    <2>9. clean' \subseteq gone'
      BY <2>1, <2>2 DEF TypeOK
    <2>10. TypeOK'
      BY <2>1, <2>3, <2>5, <2>9 DEF TypeOK, Idle, Reqs
    <2>11. Named'
      BY <2>1 DEF TypeOK, Named, Idle
    <2>12. Fresh'
      BY <2>1, <2>3, <2>4 DEF TypeOK, Fresh, Admin, Idle
    <2>13. RowStaysDeleted'
      BY <2>1, <2>3 DEF RowStaysDeleted
    <2>14. Holders'
      BY <2>1, <2>5, <2>7 DEF TypeOK, Holders, CachedHolder
    <2> QED
      BY <2>8, <2>10, <2>11, <2>12, <2>13, <2>14
  <1>11. ASSUME NEW r \in Requests, AuthHit(r) PROVE UsersInv'
    <2>1. PICK t \in Tokens :
             /\ cache[t] # None
             /\ req' = [req EXCEPT ![r] = [st |-> "ready", id |-> cache[t], tok |-> t, old |-> None]]
      BY <1>11 DEF AuthHit, Become
    <2>2. /\ req[r].st = "idle" /\ calm' \in BOOLEAN
          /\ UNCHANGED <<row, used, cache, client, sess, gone, clean, dropped, held>>
      BY <1>11 DEF AuthHit, Starts, Idle, removed, TypeOK
    <2> DEFINE i == cache[t]
    <2>3. i \in UserIds /\ <<i, t>> \in held /\ i \notin clean /\ i \in used
      BY <2>1 DEF TypeOK, Named, Holders, CachedHolder, Forgotten, CleanDeletionStays
    <2>4. req' = [req EXCEPT ![r] = [st |-> "ready", id |-> i, tok |-> t, old |-> None]]
      BY <2>1
    <2> HIDE DEF i
    <2>5. TypeOK'
      BY <2>2, <2>3, <2>4 DEF TypeOK, Named, Reqs, Runs, Idle, NoSess
    <2>6. Named'
      BY <2>2, <2>3, <2>4 DEF TypeOK, Named, Idle, NoSess, Reqs, Runs
    <2>7. Fresh'
      BY <2>2, <2>3, <2>4 DEF TypeOK, Named, Fresh, Admin, Idle, Reqs
    <2>8. RowStaysDeleted'
      BY <2>2, <2>3, <2>4 DEF TypeOK, Named, Fresh, RowStaysDeleted
    <2>9. Holders'
      BY <2>2, <2>3, <2>4 DEF TypeOK, Named, Holders, CachedHolder, Idle, NoSess
    <2>10. Forgotten'
      BY <2>2, <2>3, <2>4 DEF TypeOK, Named, RowStaysDeleted, Forgotten, CleanDeletionStays, Idle, NoSess
    <2> QED
      BY <2>5, <2>6, <2>7, <2>8, <2>9, <2>10
  <1>12. ASSUME NEW r \in Requests, AuthQuery(r) PROVE UsersInv'
    <2>1. PICK t \in Tokens, i \in UserIds :
             /\ row[i] = t
             /\ req' = [req EXCEPT ![r] = [st |-> "fill", id |-> i, tok |-> t, old |-> None]]
      BY <1>12 DEF AuthQuery, Become
    <2>2. /\ req[r].st = "idle" /\ calm' \in BOOLEAN
          /\ UNCHANGED <<row, used, cache, client, sess, gone, clean, dropped, held>>
      BY <1>12 DEF AuthQuery, Starts, Idle, removed, TypeOK
    <2>3. i \in used /\ <<i, t>> \in held /\ i \notin clean
      BY <2>1 DEF TypeOK, Holders, RowStaysDeleted
    <2>4. TypeOK'
      BY <2>1, <2>2, <2>3 DEF TypeOK, Named, Reqs, Runs, Idle, NoSess
    <2>5. Named'
      BY <2>1, <2>2, <2>3 DEF TypeOK, Named, Idle, NoSess, Reqs, Runs
    <2>6. Fresh'
      BY <2>1, <2>2, <2>3 DEF TypeOK, Named, Fresh, Admin, Idle, Reqs
    <2>7. RowStaysDeleted'
      BY <2>1, <2>2, <2>3 DEF TypeOK, Named, Fresh, RowStaysDeleted
    <2>8. Holders'
      BY <2>1, <2>2, <2>3 DEF TypeOK, Named, Holders, CachedHolder, Idle, NoSess
    <2>9. Forgotten'
      BY <2>1, <2>2, <2>3 DEF TypeOK, Named, RowStaysDeleted, Forgotten, CleanDeletionStays, Idle, NoSess
    <2> QED
      BY <2>4, <2>5, <2>6, <2>7, <2>8, <2>9
  <1>13. ASSUME NEW r \in Requests, AuthFill(r) PROVE UsersInv'
    <2> DEFINE i == req[r].id
               t == req[r].tok
    <2>1. /\ req[r].st = "fill"
          /\ PutBack(t, i)
          /\ req' = [req EXCEPT ![r] = [st |-> "ready", id |-> i, tok |-> t, old |-> None]]
          /\ UNCHANGED <<row, used, client, sess, gone, clean, dropped, held, calm>>
      BY <1>13 DEF AuthFill, Become, removed
    <2>2. i \in used /\ i \in UserIds /\ t \in Tokens /\ <<i, t>> \in held /\ i \notin clean
      BY <2>1 DEF TypeOK, Named, Holders, Forgotten
    <2> HIDE DEF i, t
    <2>3. /\ cache' \in [Tokens -> OptId]
          /\ \A u \in Tokens : cache'[u] = cache[u] \/ (u = t /\ cache'[u] = i)
      BY <2>1, <2>2 DEF PutBack, TypeOK
    <2>4. TypeOK'
      BY <2>1, <2>2, <2>3 DEF TypeOK, Named, Reqs, Runs, Idle, NoSess
    <2>5. Named'
      BY <2>1, <2>2, <2>3 DEF TypeOK, Named, Idle, NoSess, Reqs, Runs
    <2>6. Fresh'
      BY <2>1, <2>2, <2>3 DEF TypeOK, Named, Fresh, Admin, Idle, Reqs
    <2>7. RowStaysDeleted'
      BY <2>1, <2>2, <2>3 DEF TypeOK, Named, Fresh, RowStaysDeleted
    <2>8. Holders'
      BY <2>1, <2>2, <2>3 DEF TypeOK, Named, Holders, CachedHolder, Idle, NoSess
    <2>9. Forgotten'
      BY <2>1, <2>2, <2>3 DEF TypeOK, Named, RowStaysDeleted, Forgotten, CleanDeletionStays, Idle, NoSess
    <2> QED
      BY <2>4, <2>5, <2>6, <2>7, <2>8, <2>9
  <1>14. ASSUME NEW r \in Requests, Answer(r) PROVE UsersInv'
    <2>1. /\ req' = [req EXCEPT ![r] = Idle]
          /\ UNCHANGED <<row, used, cache, client, sess, gone, clean, dropped, held, calm>>
      BY <1>14 DEF Answer, End, removed
    <2>2. TypeOK'
      BY <2>1 DEF TypeOK, Named, Reqs, Runs, Idle, NoSess
    <2>3. Named'
      BY <2>1 DEF TypeOK, Named, Idle, NoSess, Reqs, Runs
    <2>4. Fresh'
      BY <2>1 DEF TypeOK, Named, Fresh, Admin, Idle, Reqs
    <2>5. RowStaysDeleted'
      BY <2>1 DEF TypeOK, Named, Fresh, RowStaysDeleted
    <2>6. Holders'
      BY <2>1 DEF TypeOK, Named, Holders, CachedHolder, Idle, NoSess
    <2>7. Forgotten'
      BY <2>1 DEF TypeOK, Named, RowStaysDeleted, Forgotten, CleanDeletionStays, Idle, NoSess
    <2> QED
      BY <2>2, <2>3, <2>4, <2>5, <2>6, <2>7
  <1>15. ASSUME NEW r \in Requests, PutUserInfo(r) PROVE UsersInv'
    <2> DEFINE i == req[r].id
               t == req[r].tok
    <2>1. /\ req[r].st = "ready"
          /\ PutBack(t, i)
          /\ req' = [req EXCEPT ![r] = Idle]
          /\ UNCHANGED <<row, used, client, sess, gone, clean, dropped, held, calm>>
      BY <1>15 DEF PutUserInfo, End, removed
    <2>2. i \in used /\ i \in UserIds /\ t \in Tokens /\ <<i, t>> \in held /\ i \notin clean
      BY <2>1 DEF TypeOK, Named, Holders, Forgotten
    <2> HIDE DEF i, t
    <2>3. /\ cache' \in [Tokens -> OptId]
          /\ \A u \in Tokens : cache'[u] = cache[u] \/ (u = t /\ cache'[u] = i)
      BY <2>1, <2>2 DEF PutBack, TypeOK
    <2>4. TypeOK'
      BY <2>1, <2>2, <2>3 DEF TypeOK, Named, Reqs, Runs, Idle, NoSess
    <2>5. Named'
      BY <2>1, <2>2, <2>3 DEF TypeOK, Named, Idle, NoSess, Reqs, Runs
    <2>6. Fresh'
      BY <2>1, <2>2, <2>3 DEF TypeOK, Named, Fresh, Admin, Idle, Reqs
    <2>7. RowStaysDeleted'
      BY <2>1, <2>2, <2>3 DEF TypeOK, Named, Fresh, RowStaysDeleted
    <2>8. Holders'
      BY <2>1, <2>2, <2>3 DEF TypeOK, Named, Holders, CachedHolder, Idle, NoSess
    <2>9. Forgotten'
      BY <2>1, <2>2, <2>3 DEF TypeOK, Named, RowStaysDeleted, Forgotten, CleanDeletionStays, Idle, NoSess
    <2> QED
      BY <2>4, <2>5, <2>6, <2>7, <2>8, <2>9
  <1>16. ASSUME NEW r \in Requests, Connect(r) PROVE UsersInv'
    <2> DEFINE i == req[r].id
               t == req[r].tok
    <2>1. /\ req[r].st = "ready"
          /\ PutBack(t, i)
          /\ req' = [req EXCEPT ![r] = Idle]
          /\ UNCHANGED <<row, used, client, gone, clean, dropped, held, calm>>
      BY <1>16 DEF Connect, End, removed
    <2>9. PICK s \in Sessions :
             sess' = [sess EXCEPT ![s] = [st |-> "launched", id |-> i, tok |-> t, entry |-> None]]
      BY <1>16 DEF Connect
    <2>2. i \in used /\ i \in UserIds /\ t \in Tokens /\ <<i, t>> \in held /\ i \notin clean
      BY <2>1 DEF TypeOK, Named, Holders, Forgotten
    <2> HIDE DEF i, t
    <2>3. /\ cache' \in [Tokens -> OptId]
          /\ \A u \in Tokens : cache'[u] = cache[u] \/ (u = t /\ cache'[u] = i)
      BY <2>1, <2>2 DEF PutBack, TypeOK
    <2>4. None \notin clean
      BY DEF TypeOK
    <2>10. TypeOK'
      BY <2>1, <2>2, <2>3, <2>4, <2>9 DEF TypeOK, Named, Reqs, Runs, Idle, NoSess
    <2>11. Named'
      BY <2>1, <2>2, <2>3, <2>4, <2>9 DEF TypeOK, Named, Idle, NoSess, Reqs, Runs
    <2>12. Fresh'
      BY <2>1, <2>2, <2>3, <2>4, <2>9 DEF TypeOK, Named, Fresh, Admin, Idle, Reqs
    <2>13. RowStaysDeleted'
      BY <2>1, <2>2, <2>3, <2>4, <2>9 DEF TypeOK, Named, Fresh, RowStaysDeleted
    <2>14. Holders'
      BY <2>1, <2>2, <2>3, <2>4, <2>9 DEF TypeOK, Named, Holders, CachedHolder, Idle, NoSess
    <2>15. Forgotten'
      BY <2>1, <2>2, <2>3, <2>4, <2>9 DEF TypeOK, Named, RowStaysDeleted, Forgotten, CleanDeletionStays, Idle, NoSess
    <2> QED
      BY <2>10, <2>11, <2>12, <2>13, <2>14, <2>15
  <1>17. ASSUME NEW s \in Sessions, Register(s) PROVE UsersInv'
    <2> DEFINE i == sess[s].id
               t == sess[s].tok
    <2>1. /\ sess[s].st = "launched"
          /\ client' = client \cup {i}
          /\ sess' = [sess EXCEPT ![s] = [st |-> "registered", id |-> i, tok |-> t, entry |-> None]]
          /\ UNCHANGED <<row, used, cache, req, gone, clean, dropped, held, calm>>
      BY <1>17 DEF Register, Run, removed
    <2>2. i \in used /\ i \in UserIds /\ t \in Tokens /\ i \notin clean /\ None \notin clean
      BY <2>1 DEF TypeOK, Named, Forgotten
    <2> HIDE DEF i, t
    <2>3. TypeOK'
      BY <2>1, <2>2 DEF TypeOK, Named, Reqs, Runs, Idle, NoSess
    <2>4. Named'
      BY <2>1, <2>2 DEF TypeOK, Named, Idle, NoSess, Reqs, Runs
    <2>5. Fresh'
      BY <2>1, <2>2 DEF TypeOK, Named, Fresh, Admin, Idle, Reqs
    <2>6. RowStaysDeleted'
      BY <2>1, <2>2 DEF TypeOK, Named, Fresh, RowStaysDeleted
    <2>7. Holders'
      BY <2>1, <2>2 DEF TypeOK, Named, Holders, CachedHolder, Idle, NoSess
    <2>8. Forgotten'
      BY <2>1, <2>2 DEF TypeOK, Named, RowStaysDeleted, Forgotten, CleanDeletionStays, Idle, NoSess
    <2> QED
      BY <2>3, <2>4, <2>5, <2>6, <2>7, <2>8
  <1>18. ASSUME NEW s \in Sessions, QRStart(s) PROVE UsersInv'
    <2> DEFINE i == sess[s].id
               t == sess[s].tok
    <2> DEFINE e == cache[t]
    <2>1. /\ sess[s].st = "registered"
          /\ sess' = [sess EXCEPT ![s] = [st |-> "qr", id |-> i, tok |-> t, entry |-> e]]
          /\ UNCHANGED <<row, used, cache, client, req, gone, clean, dropped, held, calm>>
      BY <1>18 DEF QRStart, Run, removed
    <2>2. i \in used /\ i \in UserIds /\ t \in Tokens /\ i \notin clean /\ None \notin clean
      BY <2>1 DEF TypeOK, Named, Forgotten
    <2>3. e \in OptId /\ e \notin clean /\ (e # None => <<e, t>> \in held)
      BY <2>2 DEF TypeOK, Holders, CachedHolder, Forgotten, CleanDeletionStays
    <2> HIDE DEF i, t, e
    <2>4. TypeOK'
      BY <2>1, <2>2, <2>3 DEF TypeOK, Named, Reqs, Runs, Idle, NoSess
    <2>5. Named'
      BY <2>1, <2>2, <2>3 DEF TypeOK, Named, Idle, NoSess, Reqs, Runs
    <2>6. Fresh'
      BY <2>1, <2>2, <2>3 DEF TypeOK, Named, Fresh, Admin, Idle, Reqs
    <2>7. RowStaysDeleted'
      BY <2>1, <2>2, <2>3 DEF TypeOK, Named, Fresh, RowStaysDeleted
    <2>8. Holders'
      BY <2>1, <2>2, <2>3 DEF TypeOK, Named, Holders, CachedHolder, Idle, NoSess
    <2>9. Forgotten'
      BY <2>1, <2>2, <2>3 DEF TypeOK, Named, RowStaysDeleted, Forgotten, CleanDeletionStays, Idle, NoSess
    <2> QED
      BY <2>4, <2>5, <2>6, <2>7, <2>8, <2>9
  <1>19. ASSUME NEW s \in Sessions, Dialled(s) PROVE UsersInv'
    <2> DEFINE i == sess[s].id
               t == sess[s].tok
    <2>1. /\ sess[s].st = "registered"
          /\ sess' = [sess EXCEPT ![s] = [st |-> "alive", id |-> i, tok |-> t, entry |-> None]]
          /\ UNCHANGED <<row, used, cache, client, req, gone, clean, dropped, held, calm>>
      BY <1>19 DEF Dialled, Run, removed
    <2>2. i \in used /\ i \in UserIds /\ t \in Tokens /\ i \notin clean /\ None \notin clean
      BY <2>1 DEF TypeOK, Named, Forgotten
    <2> HIDE DEF i, t
    <2>3. TypeOK'
      BY <2>1, <2>2 DEF TypeOK, Named, Reqs, Runs, Idle, NoSess
    <2>4. Named'
      BY <2>1, <2>2 DEF TypeOK, Named, Idle, NoSess, Reqs, Runs
    <2>5. Fresh'
      BY <2>1, <2>2 DEF TypeOK, Named, Fresh, Admin, Idle, Reqs
    <2>6. RowStaysDeleted'
      BY <2>1, <2>2 DEF TypeOK, Named, Fresh, RowStaysDeleted
    <2>7. Holders'
      BY <2>1, <2>2 DEF TypeOK, Named, Holders, CachedHolder, Idle, NoSess
    <2>8. Forgotten'
      BY <2>1, <2>2 DEF TypeOK, Named, RowStaysDeleted, Forgotten, CleanDeletionStays, Idle, NoSess
    <2> QED
      BY <2>3, <2>4, <2>5, <2>6, <2>7, <2>8
  <1>20. ASSUME NEW s \in Sessions, StartFails(s) PROVE UsersInv'
    <2>1. /\ sess' = [sess EXCEPT ![s] = NoSess]
          /\ UNCHANGED <<row, used, cache, client, req, gone, clean, dropped, held, calm>>
      BY <1>20 DEF StartFails, Returns, removed
    <2>2. TypeOK'
      BY <2>1 DEF TypeOK, Named, Reqs, Runs, Idle, NoSess
    <2>3. Named'
      BY <2>1 DEF TypeOK, Named, Idle, NoSess, Reqs, Runs
    <2>4. Fresh'
      BY <2>1 DEF TypeOK, Named, Fresh, Admin, Idle, Reqs
    <2>5. RowStaysDeleted'
      BY <2>1 DEF TypeOK, Named, Fresh, RowStaysDeleted
    <2>6. Holders'
      BY <2>1 DEF TypeOK, Named, Holders, CachedHolder, Idle, NoSess
    <2>7. Forgotten'
      BY <2>1 DEF TypeOK, Named, RowStaysDeleted, Forgotten, CleanDeletionStays, Idle, NoSess
    <2> QED
      BY <2>2, <2>3, <2>4, <2>5, <2>6, <2>7
  <1>21. ASSUME NEW s \in Sessions, QRCode(s) PROVE UsersInv'
    <2> DEFINE i == sess[s].id
               t == sess[s].tok
    <2> DEFINE e == sess[s].entry
    <2>1. /\ sess[s].st = "qr" /\ PutBack(t, e)
          /\ UNCHANGED <<row, used, client, req, sess, gone, clean, dropped, held, calm>>
      BY <1>21 DEF QRCode, removed
    <2>2. i \in used /\ i \in UserIds /\ t \in Tokens /\ i \notin clean /\ None \notin clean
      BY <2>1 DEF TypeOK, Named, Forgotten
    <2>3. e \in OptId /\ e \notin clean /\ (e # None => <<e, t>> \in held)
      BY <2>1 DEF TypeOK, Runs, Holders, Forgotten
    <2> HIDE DEF i, t, e
    <2>4. /\ cache' \in [Tokens -> OptId]
          /\ \A u \in Tokens : cache'[u] = cache[u] \/ (e # None /\ u = t /\ cache'[u] = e)
      BY <2>1, <2>2, <2>3 DEF PutBack, TypeOK
    <2>5. TypeOK'
      BY <2>1, <2>2, <2>3, <2>4 DEF TypeOK, Named, Reqs, Runs, Idle, NoSess
    <2>6. Named'
      BY <2>1, <2>2, <2>3, <2>4 DEF TypeOK, Named, Idle, NoSess, Reqs, Runs
    <2>7. Fresh'
      BY <2>1, <2>2, <2>3, <2>4 DEF TypeOK, Named, Fresh, Admin, Idle, Reqs
    <2>8. RowStaysDeleted'
      BY <2>1, <2>2, <2>3, <2>4 DEF TypeOK, Named, Fresh, RowStaysDeleted
    <2>9. Holders'
      BY <2>1, <2>2, <2>3, <2>4 DEF TypeOK, Named, Holders, CachedHolder, Idle, NoSess
    <2>10. Forgotten'
      BY <2>1, <2>2, <2>3, <2>4 DEF TypeOK, Named, RowStaysDeleted, Forgotten, CleanDeletionStays, Idle, NoSess
    <2> QED
      BY <2>5, <2>6, <2>7, <2>8, <2>9, <2>10
  <1>22. ASSUME NEW s \in Sessions, QRTimeout(s) PROVE UsersInv'
    <2> DEFINE i == sess[s].id
               t == sess[s].tok
    <2> DEFINE e == sess[s].entry
    <2>1. /\ sess[s].st = "qr" /\ (PutBack(t, e) \/ UNCHANGED cache)
          /\ client' = client \ {i}
          /\ sess' = [sess EXCEPT ![s] = [st |-> "alive", id |-> i, tok |-> t, entry |-> None]]
          /\ UNCHANGED <<row, used, req, gone, clean, dropped, held, calm>>
      BY <1>22 DEF QRTimeout, Run, removed
    <2>2. i \in used /\ i \in UserIds /\ t \in Tokens /\ i \notin clean /\ None \notin clean
      BY <2>1 DEF TypeOK, Named, Forgotten
    <2>3. e \in OptId /\ e \notin clean /\ (e # None => <<e, t>> \in held)
      BY <2>1 DEF TypeOK, Runs, Holders, Forgotten
    <2> HIDE DEF i, t, e
    <2>4. /\ cache' \in [Tokens -> OptId]
          /\ \A u \in Tokens : cache'[u] = cache[u] \/ (e # None /\ u = t /\ cache'[u] = e)
      BY <2>1, <2>2, <2>3 DEF PutBack, TypeOK
    <2>5. TypeOK'
      BY <2>1, <2>2, <2>3, <2>4 DEF TypeOK, Named, Reqs, Runs, Idle, NoSess
    <2>6. Named'
      BY <2>1, <2>2, <2>3, <2>4 DEF TypeOK, Named, Idle, NoSess, Reqs, Runs
    <2>7. Fresh'
      BY <2>1, <2>2, <2>3, <2>4 DEF TypeOK, Named, Fresh, Admin, Idle, Reqs
    <2>8. RowStaysDeleted'
      BY <2>1, <2>2, <2>3, <2>4 DEF TypeOK, Named, Fresh, RowStaysDeleted
    <2>9. Holders'
      BY <2>1, <2>2, <2>3, <2>4 DEF TypeOK, Named, Holders, CachedHolder, Idle, NoSess
    <2>10. Forgotten'
      BY <2>1, <2>2, <2>3, <2>4 DEF TypeOK, Named, RowStaysDeleted, Forgotten, CleanDeletionStays, Idle, NoSess
    <2> QED
      BY <2>5, <2>6, <2>7, <2>8, <2>9, <2>10
  <1>23. ASSUME NEW s \in Sessions, QREnd(s) PROVE UsersInv'
    <2> DEFINE i == sess[s].id
               t == sess[s].tok
    <2> DEFINE e == sess[s].entry
    <2>1. /\ sess[s].st = "qr" /\ (PutBack(t, e) \/ UNCHANGED cache)
          /\ sess' = [sess EXCEPT ![s] = [st |-> "alive", id |-> i, tok |-> t, entry |-> None]]
          /\ UNCHANGED <<row, used, client, req, gone, clean, dropped, held, calm>>
      BY <1>23 DEF QREnd, Run, removed
    <2>2. i \in used /\ i \in UserIds /\ t \in Tokens /\ i \notin clean /\ None \notin clean
      BY <2>1 DEF TypeOK, Named, Forgotten
    <2>3. e \in OptId /\ e \notin clean /\ (e # None => <<e, t>> \in held)
      BY <2>1 DEF TypeOK, Runs, Holders, Forgotten
    <2> HIDE DEF i, t, e
    <2>4. /\ cache' \in [Tokens -> OptId]
          /\ \A u \in Tokens : cache'[u] = cache[u] \/ (e # None /\ u = t /\ cache'[u] = e)
      BY <2>1, <2>2, <2>3 DEF PutBack, TypeOK
    <2>5. TypeOK'
      BY <2>1, <2>2, <2>3, <2>4 DEF TypeOK, Named, Reqs, Runs, Idle, NoSess
    <2>6. Named'
      BY <2>1, <2>2, <2>3, <2>4 DEF TypeOK, Named, Idle, NoSess, Reqs, Runs
    <2>7. Fresh'
      BY <2>1, <2>2, <2>3, <2>4 DEF TypeOK, Named, Fresh, Admin, Idle, Reqs
    <2>8. RowStaysDeleted'
      BY <2>1, <2>2, <2>3, <2>4 DEF TypeOK, Named, Fresh, RowStaysDeleted
    <2>9. Holders'
      BY <2>1, <2>2, <2>3, <2>4 DEF TypeOK, Named, Holders, CachedHolder, Idle, NoSess
    <2>10. Forgotten'
      BY <2>1, <2>2, <2>3, <2>4 DEF TypeOK, Named, RowStaysDeleted, Forgotten, CleanDeletionStays, Idle, NoSess
    <2> QED
      BY <2>5, <2>6, <2>7, <2>8, <2>9, <2>10
  <1>24. ASSUME NEW s \in Sessions, Killed(s) PROVE UsersInv'
    <2>1. /\ client' = client \ {sess[s].id}
          /\ sess' = [sess EXCEPT ![s] = NoSess]
          /\ UNCHANGED <<row, used, cache, req, gone, clean, dropped, held, calm>>
      BY <1>24 DEF Killed, Returns, removed
    <2>2. TypeOK'
      BY <2>1 DEF TypeOK, Named, Reqs, Runs, Idle, NoSess
    <2>3. Named'
      BY <2>1 DEF TypeOK, Named, Idle, NoSess, Reqs, Runs
    <2>4. Fresh'
      BY <2>1 DEF TypeOK, Named, Fresh, Admin, Idle, Reqs
    <2>5. RowStaysDeleted'
      BY <2>1 DEF TypeOK, Named, Fresh, RowStaysDeleted
    <2>6. Holders'
      BY <2>1 DEF TypeOK, Named, Holders, CachedHolder, Idle, NoSess
    <2>7. Forgotten'
      BY <2>1 DEF TypeOK, Named, RowStaysDeleted, Forgotten, CleanDeletionStays, Idle, NoSess
    <2> QED
      BY <2>2, <2>3, <2>4, <2>5, <2>6, <2>7
  <1>25. CASE UNCHANGED vars
    BY <1>25 DEF vars, TypeOK, Named, Fresh, RowStaysDeleted, Holders, CachedHolder,
                 Forgotten, CleanDeletionStays
  <1> QED
    BY <1>1, <1>2, <1>3, <1>4, <1>5, <1>6, <1>7, <1>8, <1>9, <1>10, <1>11, <1>12, <1>13, <1>14, <1>15, <1>16, <1>17, <1>18, <1>19, <1>20, <1>21, <1>22, <1>23, <1>24, <1>25 DEF Next

\* The invariant holds of every reachable state.
THEOREM UsersInvariant == Spec => []UsersInv
  BY InitUsers, StepUsers, PTL DEF Spec

\* The table, the cache, the requests and the goroutines stay well typed: ids
\* are generated once, and clients belong to ids that were generated.
THEOREM UserTypes == Spec => []TypeOK
  <1>1. UsersInv => TypeOK
    BY DEF UsersInv
  <1> QED
    BY <1>1, UsersInvariant, PTL

\* However creations, updates and deletions overlap, a removed user has no row again.
THEOREM RowTheorem == Spec => []RowStaysDeleted
  <1>1. UsersInv => RowStaysDeleted
    BY DEF UsersInv
  <1> QED
    BY <1>1, UsersInvariant, PTL

\* However requests, sessions and deletions overlap, a token found in
\* userinfocache names a user that has or had it.
THEOREM HolderTheorem == Spec => []CachedHolder
  <1>1. UsersInv => CachedHolder
    BY DEF UsersInv, Holders
  <1> QED
    BY <1>1, UsersInvariant, PTL

\* A user removed while nothing in memory held it has no client and no cached
\* entry again, whatever requests and sessions follow or overlap.
THEOREM CleanTheorem == Spec => []CleanDeletionStays
  <1>1. UsersInv => CleanDeletionStays
    BY DEF UsersInv, Forgotten
  <1> QED
    BY <1>1, UsersInvariant, PTL

=============================================================================
