-------------------------------- MODULE Users --------------------------------
(***************************************************************************)
(* The users table and the identity of a request: the admin API            *)
(* (users.Service over PostgresRepository) creates, updates and deletes    *)
(* users, DeleteUserComplete removes one with its session, and authalice   *)
(* turns the token of a request into a user through userinfocache.  What   *)
(* authalice found is held by the request and, after Connect, by a         *)
(* startClient goroutine, and both put it back into the cache later.  The  *)
(* table has a primary key on id and no key on token.                      *)
(***************************************************************************)
EXTENDS Naturals, FiniteSets

CONSTANTS UserIds,       \* ids GenerateRandomID can return (each once)
          Tokens,
          Requests,      \* requests in flight together
          Sessions,      \* startClient goroutines running together
          None,
          DbMayFail      \* TRUE: a statement may fail

ASSUME UsersAssumption == None \notin UserIds \cup Tokens /\ DbMayFail \in BOOLEAN

VARIABLES
    row,     \* row[i]: the token of user i, None when there is no such row
    used,    \* ids generated so far
    cache,   \* userinfocache: token to user id
    client,  \* users with a registered client
    req,     \* req[r]: the request being served
    sess,    \* sess[s]: a startClient goroutine
    gone,    \* history: users that DeleteUserComplete has removed
    clean,   \* history: of these, the ones nothing in memory held any more
    dropped, \* history: users that Service.Delete has removed
    held,    \* history: every <<user, token>> that the table has held
    calm     \* history: no two requests have overlapped so far

vars == <<row, used, cache, client, req, sess, gone, clean, dropped, held, calm>>
removed == <<gone, clean, dropped>>

OptId    == UserIds \cup {None}
OptToken == Tokens \cup {None}
Idle     == [st |-> "idle", id |-> None, tok |-> None, old |-> None]
NoSess   == [st |-> "none", id |-> None, tok |-> None, entry |-> None]
Reqs     == [st : {"idle", "insert", "update", "hook", "delete", "forget", "fill", "ready"},
             id : OptId, tok : OptToken, old : OptToken]
Runs     == [st : {"none", "launched", "registered", "qr", "alive"},
             id : OptId, tok : OptToken, entry : OptId]

TypeOK ==
    /\ row \in [UserIds -> OptToken] /\ \A i \in UserIds \ used : row[i] = None
    /\ used \subseteq UserIds /\ client \subseteq used
    /\ gone \subseteq used /\ clean \subseteq gone /\ dropped \subseteq used
    /\ held \subseteq UserIds \X Tokens
    /\ calm \in BOOLEAN
    /\ cache \in [Tokens -> OptId]
    /\ req \in [Requests -> Reqs]
    /\ sess \in [Sessions -> Runs]

Init ==
    /\ row = [i \in UserIds |-> None] /\ used = {}
    /\ cache = [t \in Tokens |-> None]
    /\ client = {} /\ gone = {} /\ clean = {} /\ dropped = {} /\ held = {}
    /\ req = [r \in Requests |-> Idle]
    /\ sess = [s \in Sessions |-> NoSess]
    /\ calm = TRUE

Quiet == \A r \in Requests : req[r] = Idle

\* a request begins, alone or next to others
Starts(r) ==
    /\ req[r] = Idle
    /\ calm' = (calm /\ Quiet)

Become(r, st, i, t, o) ==
    req' = [req EXCEPT ![r] = [st |-> st, id |-> i, tok |-> t, old |-> o]]

End(r) == req' = [req EXCEPT ![r] = Idle]

TokenExists(t) == \E i \in UserIds : row[i] = t

\* userinfocache.Set of what was found for the token before
PutBack(t, i) == cache' = IF i = None THEN cache ELSE [cache EXCEPT ![t] = i]

\* a request or a goroutine other than r still works with user i
Holds(r, i) ==
    \/ \E q \in Requests \ {r} : req[q].st \in {"fill", "ready"} /\ req[q].id = i
    \/ \E s \in Sessions : sess[s].st # "none" /\ i \in {sess[s].id, sess[s].entry}

-----------------------------------------------------------------------------
(* The admin API *)

\* Service.Create: 409 when the token exists, otherwise an id ...
Create(r) ==
    /\ Starts(r)
    /\ \E i \in UserIds \ used, t \in Tokens :
          /\ ~TokenExists(t)
          /\ used' = used \cup {i}
          /\ Become(r, "insert", i, t, None)
    /\ UNCHANGED <<row, cache, client, sess, removed, held>>

\* ... and the INSERT
CreateRow(r) ==
    /\ req[r].st = "insert"
    /\ row' = [row EXCEPT ![req[r].id] = req[r].tok]
    /\ held' = held \cup {<<req[r].id, req[r].tok>>}
    /\ End(r)
    /\ UNCHANGED <<used, cache, client, sess, removed, calm>>

\* Service.Update: the row exists, its token is read; the new token (None: the
\* patch has none) is not checked
Update(r) ==
    /\ Starts(r)
    /\ \E i \in UserIds, t \in OptToken :
          /\ row[i] # None
          /\ Become(r, "update", i, t, row[i])
    /\ UNCHANGED <<row, used, cache, client, sess, removed, held>>

\* Mutation of UpdateRow: the UPDATE becomes an upsert.
UpsertRow(r) ==
    /\ req[r].st = "update"
    /\ row' = [row EXCEPT ![req[r].id] = IF req[r].tok = None THEN @ ELSE req[r].tok]
    /\ held' = IF req[r].tok = None THEN held ELSE held \cup {<<req[r].id, req[r].tok>>}
    /\ Become(r, "hook", req[r].id, req[r].tok, req[r].old)
    /\ UNCHANGED <<used, cache, client, sess, removed, calm>>

\* UPDATE ... WHERE id, which finds no row if the user was deleted
UpdateRow(r) ==
    /\ req[r].st = "update"
    /\ IF row[req[r].id] = None \/ req[r].tok = None
       THEN UNCHANGED <<row, held>>
       ELSE /\ row' = [row EXCEPT ![req[r].id] = req[r].tok]
            /\ held' = held \cup {<<req[r].id, req[r].tok>>}
    /\ Become(r, "hook", req[r].id, req[r].tok, req[r].old)
    /\ UNCHANGED <<used, cache, client, sess, removed, calm>>

\* Mutation of UpdateHook: the entry moves to the new token.
UpdateHookMoves(r) ==
    /\ req[r].st = "hook"
    /\ cache' = [t \in Tokens |->
                    IF req[r].tok # None /\ t = req[r].tok THEN cache[req[r].old]
                    ELSE IF t = req[r].old THEN None ELSE cache[t]]
    /\ End(r)
    /\ UNCHANGED <<row, used, client, sess, removed, held, calm>>

\* updateHookFor: the old and the new token are forgotten
UpdateHook(r) ==
    /\ req[r].st = "hook"
    /\ cache' = [t \in Tokens |-> IF t \in {req[r].tok, req[r].old} THEN None ELSE cache[t]]
    /\ End(r)
    /\ UNCHANGED <<row, used, client, sess, removed, held, calm>>

\* Service.Delete: the row and nothing else
Delete(r) ==
    /\ Starts(r)
    /\ \E i \in UserIds :
          /\ row[i] # None
          /\ row' = [row EXCEPT ![i] = None]
          /\ dropped' = dropped \cup {i}
    /\ UNCHANGED <<used, cache, client, req, sess, gone, clean, held>>

-----------------------------------------------------------------------------
(* DeleteUserComplete *)

\* the row exists; its token is read (None: that query failed, which is logged)
DeleteUserComplete(r) ==
    /\ Starts(r)
    /\ \E i \in UserIds :
          /\ row[i] # None
          /\ \/ Become(r, "delete", i, row[i], None)
             \/ DbMayFail /\ Become(r, "delete", i, None, None)
    /\ UNCHANGED <<row, used, cache, client, sess, removed, held>>

\* logout, disconnect, then the DELETE
DeleteUserRow(r) ==
    /\ req[r].st = "delete"
    /\ row' = [row EXCEPT ![req[r].id] = None]
    /\ Become(r, "forget", req[r].id, req[r].tok, None)
    /\ UNCHANGED <<used, cache, client, sess, removed, held, calm>>

\* an INSERT, UPDATE or DELETE fails: 500
StatementFails(r) ==
    /\ DbMayFail /\ req[r].st \in {"insert", "update", "delete"}
    /\ End(r)
    /\ UNCHANGED <<row, used, cache, client, sess, removed, held, calm>>

\* the history of a complete deletion: clean when no request, no goroutine and
\* no other entry of the cache still has the user
Removed(r) ==
    LET i == req[r].id IN
    /\ gone' = gone \cup {i}
    /\ clean' = IF Holds(r, i) \/ \E t \in Tokens \ {req[r].tok} : cache[t] = i
                THEN clean ELSE clean \cup {i}
    /\ UNCHANGED dropped

\* Mutation of DeleteUserMemory: the cached entry stays.
DeleteUserMemoryKeepsCache(r) ==
    /\ req[r].st = "forget"
    /\ client' = client \ {req[r].id}
    /\ Removed(r)
    /\ End(r)
    /\ UNCHANGED <<row, used, cache, sess, held, calm>>

\* the clients and the cached entry of the token that was read; no kill is sent
DeleteUserMemory(r) ==
    /\ req[r].st = "forget"
    /\ client' = client \ {req[r].id}
    /\ cache' = [t \in Tokens |-> IF t = req[r].tok THEN None ELSE cache[t]]
    /\ Removed(r)
    /\ End(r)
    /\ UNCHANGED <<row, used, sess, held, calm>>

-----------------------------------------------------------------------------
(* authalice and the handlers behind it, which write the cache whether or not *)
(* their UPDATE found a row                                                   *)

\* a hit
AuthHit(r) ==
    /\ Starts(r)
    /\ \E t \in Tokens :
          /\ cache[t] # None
          /\ Become(r, "ready", cache[t], t, None)
    /\ UNCHANGED <<row, used, cache, client, sess, removed, held>>

\* a miss: SELECT ... WHERE token LIMIT 1, any of the rows ...
AuthQuery(r) ==
    /\ Starts(r)
    /\ \E t \in Tokens, i \in UserIds :
          /\ cache[t] = None /\ row[i] = t
          /\ Become(r, "fill", i, t, None)
    /\ UNCHANGED <<row, used, cache, client, sess, removed, held>>

\* ... which is cached without expiration
AuthFill(r) ==
    /\ req[r].st = "fill"
    /\ PutBack(req[r].tok, req[r].id)
    /\ Become(r, "ready", req[r].id, req[r].tok, None)
    /\ UNCHANGED <<row, used, client, sess, removed, held, calm>>

\* a handler that leaves userinfocache alone, a refused Connect among them
Answer(r) ==
    /\ req[r].st = "ready"
    /\ End(r)
    /\ UNCHANGED <<row, used, cache, client, sess, removed, held, calm>>

\* Disconnect, SetWebhook, SetHistory...: an UPDATE that leaves the token alone,
\* and the request's copy is cached again
PutUserInfo(r) ==
    /\ req[r].st = "ready"
    /\ PutBack(req[r].tok, req[r].id)
    /\ End(r)
    /\ UNCHANGED <<row, used, client, sess, removed, held, calm>>

\* Connect: the same with the events, and "go s.startClient(txtid, jid, token, ...)"
Connect(r) ==
    /\ req[r].st = "ready"
    /\ PutBack(req[r].tok, req[r].id)
    /\ \E s \in Sessions :
          /\ sess[s] = NoSess
          /\ sess' = [sess EXCEPT ![s] = [st |-> "launched", id |-> req[r].id,
                                          tok |-> req[r].tok, entry |-> None]]
    /\ End(r)
    /\ UNCHANGED <<row, used, client, removed, held, calm>>

-----------------------------------------------------------------------------
(* startClient *)

Run(s, st, entry) ==
    sess' = [sess EXCEPT ![s] = [st |-> st, id |-> sess[s].id, tok |-> sess[s].tok,
                                 entry |-> entry]]
Returns(s) == sess' = [sess EXCEPT ![s] = NoSess]

\* SetWhatsmeowClient
Register(s) ==
    /\ sess[s].st = "launched"
    /\ client' = client \cup {sess[s].id}
    /\ Run(s, "registered", None)
    /\ UNCHANGED <<row, used, cache, req, removed, held, calm>>

\* a new device: the cached entry of the token is taken once for all codes
QRStart(s) ==
    /\ sess[s].st = "registered"
    /\ Run(s, "qr", cache[sess[s].tok])
    /\ UNCHANGED <<row, used, cache, client, req, removed, held, calm>>

\* a known device is connected
Dialled(s) ==
    /\ sess[s].st = "registered"
    /\ Run(s, "alive", None)
    /\ UNCHANGED <<row, used, cache, client, req, removed, held, calm>>

\* the first QR connection failed
StartFails(s) ==
    /\ sess[s].st = "registered"
    /\ Returns(s)
    /\ UNCHANGED <<row, used, cache, client, req, removed, held, calm>>

\* a code: UPDATE ... WHERE id succeeds without a row too, and the entry is put back
QRCode(s) ==
    /\ sess[s].st = "qr"
    /\ PutBack(sess[s].tok, sess[s].entry)
    /\ UNCHANGED <<row, used, client, req, sess, removed, held, calm>>

\* "timeout"; the kill signal is taken next (Killed)
QRTimeout(s) ==
    /\ sess[s].st = "qr"
    /\ PutBack(sess[s].tok, sess[s].entry) \/ UNCHANGED cache
    /\ client' = client \ {sess[s].id}
    /\ Run(s, "alive", None)
    /\ UNCHANGED <<row, used, req, removed, held, calm>>

\* "success", or any other last event of the channel
QREnd(s) ==
    /\ sess[s].st = "qr"
    /\ PutBack(sess[s].tok, sess[s].entry) \/ UNCHANGED cache
    /\ Run(s, "alive", None)
    /\ UNCHANGED <<row, used, client, req, removed, held, calm>>

\* a kill signal, or the failure exit of the retry loop
Killed(s) ==
    /\ sess[s].st \in {"registered", "alive"}
    /\ client' = client \ {sess[s].id}
    /\ Returns(s)
    /\ UNCHANGED <<row, used, cache, req, removed, held, calm>>

Next ==
    \/ \E r \in Requests :
          \/ Create(r) \/ CreateRow(r) \/ Update(r) \/ UpdateRow(r) \/ UpdateHook(r) \/ Delete(r)
          \/ DeleteUserComplete(r) \/ DeleteUserRow(r) \/ StatementFails(r) \/ DeleteUserMemory(r)
          \/ AuthHit(r) \/ AuthQuery(r) \/ AuthFill(r)
          \/ Answer(r) \/ PutUserInfo(r) \/ Connect(r)
    \/ \E s \in Sessions :
          \/ Register(s) \/ QRStart(s) \/ Dialled(s) \/ StartFails(s)
          \/ QRCode(s) \/ QRTimeout(s) \/ QREnd(s) \/ Killed(s)

Spec == Init /\ [][Next]_vars

-----------------------------------------------------------------------------
(* Properties *)

\* However requests, sessions and deletions overlap, a token that authalice
\* finds in userinfocache lets its bearer act only for a user whose token it
\* is or once was: entries that come back late are stale and never foreign.
CachedHolder ==
    \A t \in Tokens : cache[t] # None => <<cache[t], t>> \in held

\* handlers.go: "user instance removed completely".  As long as no two requests
\* have overlapped, no client and no cached entry of the user is left or comes back.
CompleteDeletion ==
    calm => \A i \in gone : i \notin client /\ \A t \in Tokens : cache[t] # i

\* DeleteUserComplete is complete, however other requests overlap, for a user
\* that no request, no startClient and no other token held when it ended: no
\* later request, update or login brings a client or a cached entry back.
CleanDeletionStays ==
    \A i \in clean : i \notin client /\ \A t \in Tokens : cache[t] # i

\* However requests overlap, a user that was removed has no row again.
RowStaysDeleted ==
    \A i \in gone \cup dropped : row[i] = None

=============================================================================
