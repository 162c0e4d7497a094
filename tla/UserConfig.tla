------------------------------ MODULE UserConfig ------------------------------
(***************************************************************************)
(* One user's configuration: the users row and its copy in userinfocache,  *)
(* the handlers that write both, the admin service that writes the row and *)
(* invalidates the cache, and what an event delivery reads.                *)
(*                                                                         *)
(* A cached entry is a Go map (Values.m) shared by reference: authalice    *)
(* puts the same map in the request context, and updateUserInfo mutates it *)
(* in place.  Maps are objects here, the cache and requests refer to them. *)
(* A field is TRUE when it is set / enabled / non-empty.                   *)
(***************************************************************************)
EXTENDS Naturals, FiniteSets

CONSTANTS Tokens,      \* token values the row may have
          Requests,    \* requests that can be in flight together
          Objs,        \* Values maps alive at a time
          None

ASSUME ConfigAssumption == None \notin Tokens /\ None \notin Objs

Fields == {"webhook", "events", "hmac", "s3", "history", "proxy"}

VARIABLES
    rowTok,   \* the row's token, None once the row is deleted
    row,      \* row[f]: the row's columns
    val,      \* val[o][f]: the Values maps
    cache,    \* userinfocache: token -> map or None
    req,      \* req[r]: the request being served
    sesTok,   \* mycli.token of the live session, None before the first one
    qrObj,    \* myuserinfo captured by startClient's QR loop, or None
    qrTok,    \* the token that loop was started with
    calm      \* history: no request has overlapped another one or a QR login

vars == <<rowTok, row, val, cache, req, sesTok, qrObj, qrTok, calm>>
qrVars == <<qrObj, qrTok>>

Patch == UNION {[D -> BOOLEAN] : D \in SUBSET Fields}

Idle == [st |-> "idle", tok |-> None, obj |-> None, patch |-> <<>>, new |-> None]
ReqStates ==
    [st : {"fill", "ctx", "set", "patch", "update", "delete", "hook"}, tok : Tokens,
     obj : Objs \cup {None}, patch : Patch, new : Tokens \cup {None}] \cup {Idle}

TypeOK ==
    /\ rowTok \in Tokens \cup {None}
    /\ row \in [Fields -> BOOLEAN]
    /\ val \in [Objs -> [Fields -> BOOLEAN]]
    /\ cache \in [Tokens -> Objs \cup {None}]
    /\ req \in [Requests -> ReqStates]
    /\ sesTok \in Tokens \cup {None}
    /\ qrObj \in Objs \cup {None} /\ qrTok \in Tokens \cup {None}
    /\ calm \in BOOLEAN

\* f with the values of p where p has them
Over(p, f) == [x \in DOMAIN f |-> IF x \in DOMAIN p THEN p[x] ELSE f[x]]

Off == [f \in Fields |-> FALSE]

\* A process start: connectOnStartup caches connected rows, HMAC key included.
Init ==
    /\ rowTok \in Tokens
    /\ row \in {[Off EXCEPT !["webhook"] = w, !["events"] = w, !["hmac"] = h]
                   : w, h \in BOOLEAN}
    /\ req = [r \in Requests |-> Idle]
    /\ qrObj = None /\ qrTok = None
    /\ calm = TRUE
    /\ \/ /\ cache = [t \in Tokens |-> None]
          /\ val = [o \in Objs |-> Off]
          /\ sesTok = None
       \/ \E o \in Objs :
             /\ cache = [t \in Tokens |-> IF t = rowTok THEN o ELSE None]
             /\ val = [[x \in Objs |-> Off] EXCEPT ![o] = row]
             /\ sesTok = rowTok

Unreferenced(o) ==
    /\ \A t \in Tokens : cache[t] # o
    /\ \A r \in Requests : req[r].obj # o
    /\ qrObj # o

Quiet == \A r \in Requests : req[r] = Idle

\* a request begins, alone or next to others
Starts(r) ==
    /\ req[r] = Idle
    /\ calm' = (calm /\ Quiet)

To(r, st, p) == req' = [req EXCEPT ![r].st = st, ![r].patch = p]
Done(r)      == req' = [req EXCEPT ![r] = Idle]

-----------------------------------------------------------------------------
(* authalice *)

\* the token is cached: its map goes into the request context
AuthHit(r, t) ==
    /\ Starts(r)
    /\ cache[t] # None
    /\ req' = [req EXCEPT ![r] = [st |-> "ctx", tok |-> t, obj |-> cache[t], patch |-> <<>>,
                                  new |-> None]]
    /\ UNCHANGED <<rowTok, row, val, cache, sesTok, qrVars>>

\* a miss reads the row; the query tells whether there is an HMAC key but does
\* not select it
AuthQuery(r, t) ==
    /\ Starts(r)
    /\ cache[t] = None /\ rowTok = t
    /\ req' = [req EXCEPT ![r] = [st |-> "fill", tok |-> t, obj |-> None,
                                  patch |-> [row EXCEPT !["hmac"] = FALSE], new |-> None]]
    /\ UNCHANGED <<rowTok, row, val, cache, sesTok, qrVars>>

AuthFill(r) ==
    /\ req[r].st = "fill"
    /\ \E o \in Objs :
          /\ Unreferenced(o)
          /\ val' = [val EXCEPT ![o] = req[r].patch]
          /\ cache' = [cache EXCEPT ![req[r].tok] = o]
          /\ req' = [req EXCEPT ![r] = [@ EXCEPT !.st = "ctx", !.obj = o, !.patch = <<>>]]
    /\ UNCHANGED <<rowTok, row, sesTok, qrVars, calm>>

-----------------------------------------------------------------------------
(* Handlers: the database first, the cache after *)

\* UPDATE users SET ... WHERE id (the row may be gone)
WriteRow(p) == row' = IF rowTok = None THEN row ELSE Over(p, row)

\* SetWebhook and UpdateWebhook: without an events list the row keeps its
\* events while the cached ones become empty
SetWebhook(r) ==
    /\ req[r].st = "ctx"
    /\ \E w \in BOOLEAN :
          \/ /\ WriteRow([webhook |-> w])
             /\ To(r, "set", [webhook |-> w, events |-> FALSE])
          \/ \E e \in BOOLEAN :
                /\ WriteRow([webhook |-> w, events |-> e])
                /\ To(r, "set", [webhook |-> w, events |-> e])
    /\ UNCHANGED <<rowTok, val, cache, sesTok, qrVars, calm>>

DeleteWebhook(r) ==
    /\ req[r].st = "ctx"
    /\ WriteRow([webhook |-> FALSE, events |-> FALSE])
    /\ To(r, "set", [webhook |-> FALSE, events |-> FALSE])
    /\ UNCHANGED <<rowTok, val, cache, sesTok, qrVars, calm>>

\* Connect subscribes and starts a session under the request's token
ConnectEvents(r) ==
    /\ req[r].st = "ctx"
    /\ \E e \in BOOLEAN :
          /\ WriteRow([events |-> e]) \/ UNCHANGED row
          /\ To(r, "set", [events |-> e])
    /\ sesTok' = req[r].tok
    /\ UNCHANGED <<rowTok, val, cache, qrVars, calm>>

\* Disconnect clears the subscription
DisconnectEvents(r) ==
    /\ req[r].st = "ctx" /\ sesTok # None
    /\ WriteRow([events |-> FALSE]) \/ UNCHANGED row
    /\ To(r, "set", [events |-> FALSE])
    /\ UNCHANGED <<rowTok, val, cache, sesTok, qrVars, calm>>

\* A handler that writes one setting, then updates the cached map.  An UPDATE
\* that fails is answered with 500 and changes nothing.
Configure(r, f, b) ==
    /\ req[r].st = "ctx"
    /\ WriteRow([x \in {f} |-> b])
    /\ To(r, "patch", [x \in {f} |-> b])
    /\ UNCHANGED <<rowTok, val, cache, sesTok, qrVars, calm>>

\* refused without a client
SetHistory(r) == sesTok # None /\ \E b \in BOOLEAN : Configure(r, "history", b)

\* refused while connected, which a session need not be
SetProxy(r) == \E b \in BOOLEAN : Configure(r, "proxy", b)

ConfigureHmac(r)    == Configure(r, "hmac", TRUE)
DeleteHmacConfig(r) == Configure(r, "hmac", FALSE)

\* enabled or not; the S3 client is S3Media's subject
ConfigureS3(r) == \E b \in BOOLEAN : Configure(r, "s3", b)

\* DeleteS3Config: the row and the S3 client, not the cache
DeleteS3Config(r) ==
    /\ req[r].st = "ctx"
    /\ WriteRow([s3 |-> FALSE])
    /\ Done(r)
    /\ UNCHANGED <<rowTok, val, cache, sesTok, qrVars, calm>>

\* GetHistory with a cached limit of 0 throws the entry away
GetHistory(r) ==
    /\ req[r].st = "ctx"
    /\ cache' = IF val[req[r].obj]["history"] THEN cache
                ELSE [cache EXCEPT ![req[r].tok] = None]
    /\ Done(r)
    /\ UNCHANGED <<rowTok, row, val, sesTok, qrVars, calm>>

\* v := updateUserInfo(context map, ...); userinfocache.Set(token, v)
SetCtx(r) ==
    /\ req[r].st = "set"
    /\ val' = [val EXCEPT ![req[r].obj] = Over(req[r].patch, @)]
    /\ cache' = [cache EXCEPT ![req[r].tok] = req[r].obj]
    /\ Done(r)
    /\ UNCHANGED <<rowTok, row, sesTok, qrVars, calm>>

\* Mutation of PatchCached: the cached map is not updated.
PatchDropped(r) ==
    /\ req[r].st = "patch"
    /\ Done(r)
    /\ UNCHANGED <<rowTok, row, val, cache, sesTok, qrVars, calm>>

\* if cached, found := userinfocache.Get(token); found { update it, Set it }
PatchCached(r) ==
    /\ req[r].st = "patch"
    /\ LET o == cache[req[r].tok] IN
          val' = IF o = None THEN val
                 ELSE [val EXCEPT ![o] = Over(req[r].patch, @)]
    /\ Done(r)
    /\ UNCHANGED <<rowTok, row, cache, sesTok, qrVars, calm>>

-----------------------------------------------------------------------------
(* Admin: users.Service.Update and its hook, Delete, DeleteUserComplete *)

\* zero values mean "don't change", so only proxy and S3 can be switched off
AdminPatches ==
    {[x \in {f} |-> TRUE] : f \in {"webhook", "events", "history", "proxy", "s3"}}
    \cup {[x \in {f} |-> FALSE] : f \in {"proxy", "s3"}}

\* an admin call remembers the token that the row has when it begins
Admin(r, st) ==
    /\ Starts(r)
    /\ req' = [req EXCEPT ![r] = [st |-> st, tok |-> rowTok, obj |-> None, patch |-> <<>>,
                                  new |-> None]]
    /\ UNCHANGED <<rowTok, row, val, cache, sesTok, qrVars>>

\* Mutation of AdminUpdate: the row may be gone.
AdminUpdateNoRow(r) == Admin(r, "update")

\* Service.Update: ExistsByID and GetToken ...
AdminUpdate(r) == rowTok # None /\ Admin(r, "update")

\* ... then the UPDATE, of columns or of the token; it may fail, or find no row
AdminUpdateRow(r) ==
    /\ req[r].st = "update"
    /\ \/ /\ \E p \in AdminPatches : WriteRow(p)
          /\ req' = [req EXCEPT ![r].st = "hook"]
          /\ UNCHANGED rowTok
       \/ /\ \E t \in Tokens :
                /\ rowTok' = IF rowTok = None THEN None ELSE t
                /\ req' = [req EXCEPT ![r].st = "hook", ![r].new = t]
          /\ UNCHANGED row
       \/ Done(r) /\ UNCHANGED <<rowTok, row>>
    /\ UNCHANGED <<val, cache, sesTok, qrVars, calm>>

\* Mutation of AdminHook: only the new token is forgotten.
AdminHookNewOnly(r) ==
    /\ req[r].st = "hook"
    /\ LET new == IF req[r].new = None THEN req[r].tok ELSE req[r].new IN
          cache' = [t \in Tokens |-> IF t = new THEN None ELSE cache[t]]
    /\ Done(r)
    /\ UNCHANGED <<rowTok, row, val, sesTok, qrVars, calm>>

\* Mutation of AdminHook: the old token's map is kept for the new token.
AdminHookMoves(r) ==
    /\ req[r].st = "hook"
    /\ cache' = [t \in Tokens |-> IF t = req[r].new THEN cache[req[r].tok]
                                 ELSE IF req[r].new = None /\ t = req[r].tok THEN None
                                 ELSE cache[t]]
    /\ Done(r)
    /\ UNCHANGED <<rowTok, row, val, sesTok, qrVars, calm>>

\* updateHookFor forgets the old and the new token, DeleteUserComplete the token
\* it read
AdminHook(r) ==
    /\ req[r].st = "hook"
    /\ cache' = [t \in Tokens |-> IF t \in {req[r].tok, req[r].new} THEN None ELSE cache[t]]
    /\ Done(r)
    /\ UNCHANGED <<rowTok, row, val, sesTok, qrVars, calm>>

\* users.Service.Delete removes the row only
AdminDelete ==
    /\ rowTok # None
    /\ calm' = (calm /\ Quiet)
    /\ rowTok' = None
    /\ row' = Off
    /\ UNCHANGED <<val, cache, req, sesTok, qrVars>>

\* DeleteUserComplete reads the token, removes the row, unless that fails, and
\* then the cached token
DeleteComplete(r) == rowTok # None /\ Admin(r, "delete")

DeleteRow(r) ==
    /\ req[r].st = "delete"
    /\ \/ /\ rowTok' = None /\ row' = Off
          /\ req' = [req EXCEPT ![r].st = "hook"]
       \/ Done(r) /\ UNCHANGED <<rowTok, row>>
    /\ UNCHANGED <<val, cache, sesTok, qrVars, calm>>

-----------------------------------------------------------------------------
(* startClient's QR loop keeps the map it found when it started *)

QrStart ==
    /\ sesTok # None /\ qrObj = None
    /\ cache[sesTok] # None
    /\ qrObj' = cache[sesTok] /\ qrTok' = sesTok
    /\ calm' = FALSE
    /\ UNCHANGED <<rowTok, row, val, cache, req, sesTok>>

\* "code", "timeout" and "success" all put it back under the loop's token; the
\* last two end the loop
QrRefresh ==
    /\ qrObj # None
    /\ cache' = [cache EXCEPT ![qrTok] = qrObj]
    /\ UNCHANGED qrVars \/ (qrObj' = None /\ qrTok' = None)
    /\ UNCHANGED <<rowTok, row, val, req, sesTok, calm>>

Next ==
    \/ \E r \in Requests :
          \/ \E t \in Tokens : AuthHit(r, t) \/ AuthQuery(r, t)
          \/ AuthFill(r)
          \/ SetWebhook(r) \/ DeleteWebhook(r) \/ ConnectEvents(r) \/ DisconnectEvents(r)
          \/ SetHistory(r) \/ SetProxy(r) \/ ConfigureHmac(r) \/ DeleteHmacConfig(r)
          \/ ConfigureS3(r) \/ DeleteS3Config(r) \/ GetHistory(r)
          \/ SetCtx(r) \/ PatchCached(r)
          \/ AdminUpdate(r) \/ AdminUpdateRow(r) \/ AdminHook(r)
          \/ DeleteComplete(r) \/ DeleteRow(r)
    \/ AdminDelete
    \/ QrStart \/ QrRefresh

Spec == Init /\ [][Next]_vars

-----------------------------------------------------------------------------
(* What an event of the live session finds (sendEventWithWebHook) *)

Cached == sesTok # None /\ cache[sesTok] # None

\* getUserWebhookUrl knows only the cache
WebhookUrl == Cached /\ val[cache[sesTok]]["webhook"]

\* updateAndGetUserSubscriptions falls back to the row
Subscribed == IF Cached THEN val[cache[sesTok]]["events"]
              ELSE rowTok # None /\ row["events"]

\* the HMAC key comes from the cache or there is none
Signed == Cached /\ val[cache[sesTok]]["hmac"]

Delivers == WebhookUrl /\ Subscribed

-----------------------------------------------------------------------------
(* Properties *)

\* As long as no request has overlapped another one or a QR login, between
\* requests what is cached under the row's token says what the row
\* says about webhook, history and proxy, never claims an HMAC key that the row
\* does not have and does not miss that S3 was enabled.
CacheCoherent ==
    calm /\ Quiet /\ rowTok # None /\ cache[rowTok] # None =>
        /\ \A f \in {"webhook", "history", "proxy"} : val[cache[rowTok]][f] = row[f]
        /\ val[cache[rowTok]]["hmac"] => row["hmac"]
        /\ row["s3"] => val[cache[rowTok]]["s3"]

\* As long as no request has overlapped another one or a QR login, between
\* requests only the row's current token is cached: authalice refuses a token
\* that an admin replaced.
OldTokenForgotten ==
    calm /\ Quiet /\ rowTok # None => \A t \in Tokens : cache[t] # None => t = rowTok

\* Two tokens never share a Values map, so a write through one token cannot
\* change what another one sees.
TokensDoNotShare ==
    \A t, u \in Tokens : t # u /\ cache[t] # None => cache[t] # cache[u]

\* API.md: "All webhooks will include an x-hmac-signature header when HMAC is
\* configured".
WebhooksSigned ==
    calm /\ Quiet /\ rowTok # None /\ sesTok = rowTok /\ Delivers => (row["hmac"] => Signed)

=============================================================================
