---------------------------- MODULE ConfigProofs ----------------------------
(* Proofs about UserConfig for every number of tokens, requests and maps and,  *)
(* at the end, about the delivery of the events that a configuration lets      *)
(* through (WebhookDelivery), for every number of events, hooks and retries.   *)
EXTENDS UserConfig, WebhookDelivery, TLAPS

Busy(r) == req[r].st # "idle"

\* A request past the lookup holds a map, and one that read the row holds a full copy.
Holding ==
    \A r \in Requests :
        /\ req[r].st \in {"ctx", "set", "patch"} => req[r].obj \in Objs
        /\ req[r].st = "fill" => req[r].patch \in [Fields -> BOOLEAN]

\* o is reachable under the token t: cached, in a request's context or in the QR loop
Ref(o, t) ==
    \/ cache[t] = o
    \/ \E r \in Requests : req[r].obj = o /\ req[r].tok = t
    \/ qrObj = o /\ qrTok = t

\* Every map is reachable under one token only.
Single == \A o \in Objs : \A t, u \in Tokens : Ref(o, t) /\ Ref(o, u) => t = u

\* While calm, there is one request at a time and no QR loop.
Alone ==
    calm => /\ \A r, q \in Requests : Busy(r) /\ Busy(q) => r = q
            /\ qrObj = None

\* While calm, requests run under the row's token, and any other cached token is the
\* one that a running admin call is about to forget, with the row's.
Known ==
    calm /\ rowTok # None =>
        /\ \A t \in Tokens : cache[t] # None =>
              t = rowTok \/ \E r \in Requests : req[r].st = "hook" /\ req[r].tok = t
        /\ \A r \in Requests :
              /\ req[r].st \in {"fill", "ctx", "set", "patch", "update", "delete"} =>
                    req[r].tok = rowTok
              /\ req[r].st = "hook" => rowTok \in {req[r].tok, req[r].new}

\* v, a cached map, tells the truth about w, the row.
Coherent(v, w) ==
    /\ \A f \in {"webhook", "history", "proxy"} : v[f] = w[f]
    /\ v["hmac"] => w["hmac"]
    /\ w["s3"] => v["s3"]

\* While calm, the cached map is coherent with the row, or will be once the running
\* request has stored the copy it read or applied its patch.
Settling ==
    calm /\ rowTok # None =>
        /\ (\A r \in Requests : ~Busy(r)) /\ cache[rowTok] # None =>
              Coherent(val[cache[rowTok]], row)
        /\ \A r \in Requests :
              /\ req[r].st = "fill" => Coherent(req[r].patch, row)
              /\ req[r].st = "ctx" => req[r].obj = cache[rowTok] /\ Coherent(val[req[r].obj], row)
              /\ req[r].st \in {"set", "patch"} =>
                    /\ req[r].obj = cache[rowTok]
                    /\ Coherent(Over(req[r].patch, val[req[r].obj]), row)
              /\ req[r].st \in {"update", "delete"} /\ cache[rowTok] # None =>
                    Coherent(val[cache[rowTok]], row)

ConfigInv == TypeOK /\ Holding /\ Single /\ Alone /\ Known /\ Settling

-----------------------------------------------------------------------------
(* Patches and maps *)

Config == [Fields -> BOOLEAN]

\* A function on some of the fields is a patch.
LEMMA IsPatch ==
    ASSUME NEW D \in SUBSET Fields, NEW p \in [D -> BOOLEAN]
    PROVE  p \in Patch
  BY DEF Patch

\* The patches that the handlers build.
LEMMA HandlerPatches ==
    /\ <<>> \in Patch
    /\ \A w \in BOOLEAN : [webhook |-> w] \in Patch /\ [events |-> w] \in Patch
    /\ \A w, e \in BOOLEAN : [webhook |-> w, events |-> e] \in Patch
    /\ \A f \in Fields, b \in BOOLEAN : [x \in {f} |-> b] \in Patch
    /\ \A b \in BOOLEAN : [s3 |-> b] \in Patch
  <1>1. <<>> \in Patch
    <2>1. <<>> \in [{} -> BOOLEAN]
      OBVIOUS
    <2> QED BY <2>1, IsPatch
  <1>2. \A w \in BOOLEAN : [webhook |-> w] \in Patch /\ [events |-> w] \in Patch
    <2> SUFFICES ASSUME NEW w \in BOOLEAN
                 PROVE  [webhook |-> w] \in Patch /\ [events |-> w] \in Patch
      OBVIOUS
    <2>1. [webhook |-> w] \in [{"webhook"} -> BOOLEAN] /\ [events |-> w] \in [{"events"} -> BOOLEAN]
      OBVIOUS
    <2>2. {"webhook"} \in SUBSET Fields /\ {"events"} \in SUBSET Fields
      BY DEF Fields
    <2> QED BY <2>1, <2>2, IsPatch
  <1>3. \A w, e \in BOOLEAN : [webhook |-> w, events |-> e] \in Patch
    <2> SUFFICES ASSUME NEW w \in BOOLEAN, NEW e \in BOOLEAN
                 PROVE  [webhook |-> w, events |-> e] \in Patch
      OBVIOUS
    <2>1. [webhook |-> w, events |-> e] \in [{"webhook", "events"} -> BOOLEAN]
      OBVIOUS
    <2>2. {"webhook", "events"} \in SUBSET Fields
      BY DEF Fields
    <2> QED BY <2>1, <2>2, IsPatch
  <1>4. \A f \in Fields, b \in BOOLEAN : [x \in {f} |-> b] \in Patch
    <2> SUFFICES ASSUME NEW f \in Fields, NEW b \in BOOLEAN
                 PROVE  [x \in {f} |-> b] \in Patch
      OBVIOUS
    <2>1. [x \in {f} |-> b] \in [{f} -> BOOLEAN] /\ {f} \in SUBSET Fields
      OBVIOUS
    <2> QED BY <2>1, IsPatch
  <1>5. \A b \in BOOLEAN : [s3 |-> b] \in Patch
    <2> SUFFICES ASSUME NEW b \in BOOLEAN PROVE [s3 |-> b] \in Patch
      OBVIOUS
    <2>1. [s3 |-> b] \in [{"s3"} -> BOOLEAN]
      OBVIOUS
    <2>2. {"s3"} \in SUBSET Fields
      BY DEF Fields
    <2> QED BY <2>1, <2>2, IsPatch
  <1> QED BY <1>1, <1>2, <1>3, <1>4, <1>5

\* updateUserInfo leaves a full map.
LEMMA OverType ==
    ASSUME NEW p \in Patch, NEW f \in Config
    PROVE  Over(p, f) \in Config
  <1>1. PICK D \in SUBSET Fields : p \in [D -> BOOLEAN]
    BY DEF Patch
  <1> QED BY <1>1 DEF Over, Config

\* A map read field by field after a patch.
LEMMA OverAt ==
    ASSUME NEW p, NEW v \in Config, NEW f \in Fields
    PROVE  Over(p, v)[f] = IF f \in DOMAIN p THEN p[f] ELSE v[f]
  BY DEF Over, Config

\* Two patches that agree on the fields that matter keep a map and the row coherent.
LEMMA PatchBoth ==
    ASSUME NEW v \in Config, NEW w \in Config, Coherent(v, w), NEW p, NEW q,
           \A f \in Fields \ {"events"} :
               /\ f \in DOMAIN p <=> f \in DOMAIN q
               /\ f \in DOMAIN p => p[f] = q[f]
    PROVE  Coherent(Over(p, v), Over(q, w))
  <1>1. \A f \in Fields : /\ Over(p, v)[f] = IF f \in DOMAIN p THEN p[f] ELSE v[f]
                          /\ Over(q, w)[f] = IF f \in DOMAIN q THEN q[f] ELSE w[f]
    BY OverAt
  <1>2. \A f \in {"webhook", "history", "proxy", "hmac", "s3"} :
           /\ f \in Fields
           /\ \/ Over(p, v)[f] = Over(q, w)[f]
              \/ Over(p, v)[f] = v[f] /\ Over(q, w)[f] = w[f]
    BY <1>1 DEF Fields
  <1> HIDE DEF Over
  <1>3. \A f \in {"webhook", "history", "proxy"} : Over(p, v)[f] = Over(q, w)[f]
    BY <1>2 DEF Coherent
  <1>4. Over(p, v)["hmac"] => Over(q, w)["hmac"]
    BY <1>2 DEF Coherent
  <1>5. Over(q, w)["s3"] => Over(p, v)["s3"]
    BY <1>2 DEF Coherent
  <1> QED BY <1>3, <1>4, <1>5 DEF Coherent

-----------------------------------------------------------------------------
(* Requests *)

\* The shape of a request, field by field.
LEMMA ReqShape ==
    ASSUME TypeOK, NEW r \in Requests
    PROVE  /\ req[r] \in ReqStates
           /\ req[r].st \in {"idle", "fill", "ctx", "set", "patch", "update", "delete", "hook"}
           /\ req[r].obj \in Objs \cup {None} /\ req[r].patch \in Patch
           /\ req[r].tok \in Tokens \cup {None}
           /\ Busy(r) => req[r].tok \in Tokens
           /\ req[r].st = "idle" => req[r] = Idle /\ req[r].obj = None
  <1>1. req[r] \in ReqStates
    BY DEF TypeOK
  <1>2. CASE req[r] = Idle
    <2>1. <<>> \in Patch
      BY HandlerPatches
    <2>2. /\ Idle.st = "idle" /\ Idle.tok = None /\ Idle.obj = None /\ Idle.patch = <<>>
      BY DEF Idle
    <2> HIDE DEF Idle
    <2> QED BY <1>1, <1>2, <2>1, <2>2 DEF Busy
  <1>3. CASE req[r] # Idle
    <2>1. req[r] \in [st : {"fill", "ctx", "set", "patch", "update", "delete", "hook"}, tok : Tokens,
                      obj : Objs \cup {None}, patch : Patch, new : Tokens \cup {None}]
      BY <1>1, <1>3 DEF ReqStates
    <2> QED BY <1>1, <2>1 DEF Busy
  <1> QED BY <1>2, <1>3

\* A record with the right fields is a request.
LEMMA ReqMade ==
    ASSUME NEW st \in {"fill", "ctx", "set", "patch", "update", "delete", "hook"}, NEW t \in Tokens,
           NEW o \in Objs \cup {None}, NEW p \in Patch
    PROVE  [st |-> st, tok |-> t, obj |-> o, patch |-> p, new |-> None] \in ReqStates
  BY DEF ReqStates

\* Maps stay under one token if no step makes one reachable under another one.
LEMMA SingleKept ==
    ASSUME Single, \A o \in Objs : \A t \in Tokens : Ref(o, t)' => Ref(o, t)
    PROVE  Single'
  BY DEF Single

\* The initial states satisfy the invariant.
LEMMA InitConfig == Init => ConfigInv
  <1> SUFFICES ASSUME Init PROVE ConfigInv
    OBVIOUS
  <1> USE ConfigAssumption DEF ConfigAssumption
  <1>i. /\ Idle.st = "idle" /\ Idle.tok = None /\ Idle.obj = None /\ Idle \in ReqStates
    BY DEF Idle, ReqStates
  <1>r. /\ \A r \in Requests : req[r] = Idle
        /\ req \in [Requests -> ReqStates]
        /\ qrObj = None /\ qrTok = None /\ calm = TRUE /\ rowTok \in Tokens
    BY <1>i DEF Init
  <1>o. Off \in Config
    BY DEF Off, Config
  <1>w. row \in Config
    <2>1. PICK w \in BOOLEAN, h \in BOOLEAN :
             row = [Off EXCEPT !["webhook"] = w, !["events"] = w, !["hmac"] = h]
      BY DEF Init
    <2> QED BY <2>1, <1>o DEF Config
  <1>c. /\ val \in [Objs -> Config] /\ cache \in [Tokens -> Objs \cup {None}]
        /\ sesTok \in Tokens \cup {None}
        /\ \A t \in Tokens : cache[t] # None => t = rowTok /\ val[cache[t]] = row
    <2>1. CASE /\ cache = [t \in Tokens |-> None]
               /\ val = [o \in Objs |-> Off]
               /\ sesTok = None
      BY <2>1, <1>o
    <2>2. ASSUME NEW o \in Objs,
                 cache = [t \in Tokens |-> IF t = rowTok THEN o ELSE None],
                 val = [[x \in Objs |-> Off] EXCEPT ![o] = row],
                 sesTok = rowTok
          PROVE  /\ val \in [Objs -> Config] /\ cache \in [Tokens -> Objs \cup {None}]
                 /\ sesTok \in Tokens \cup {None}
                 /\ \A t \in Tokens : cache[t] # None => t = rowTok /\ val[cache[t]] = row
      BY <2>2, <1>o, <1>w, <1>r
    <2> QED BY <2>1, <2>2 DEF Init
  <1>1. TypeOK
    BY <1>r, <1>w, <1>c DEF TypeOK, Config
  <1> HIDE DEF Idle
  <1>2. Holding /\ Alone
    BY <1>r, <1>i DEF Holding, Alone, Busy
  <1>3. Single
    BY <1>r, <1>i, <1>c DEF Single, Ref
  <1>4. Known
    BY <1>r, <1>i, <1>c DEF Known
  <1>5. Coherent(row, row)
    BY DEF Coherent
  <1>6. Settling
    BY <1>r, <1>i, <1>c, <1>5 DEF Settling
  <1> QED BY <1>1, <1>2, <1>3, <1>4, <1>6 DEF ConfigInv

-----------------------------------------------------------------------------
(* What a step must do to keep the invariant *)

\* Requests other than r are left alone.
Only(r) == \A q \in Requests \ {r} : req'[q] = req[q]

\* A calm state stays calm only if the request that begins is alone.
LEMMA StartsAlone ==
    ASSUME ConfigInv, NEW r \in Requests, Starts(r), Only(r)
    PROVE  /\ calm' => calm /\ \A q \in Requests : ~Busy(q)
           /\ calm' \in BOOLEAN /\ req[r] = Idle /\ ~Busy(r)
  <1>1. Idle.st = "idle"
    BY DEF Idle
  <1> HIDE DEF Idle
  <1> QED BY <1>1 DEF ConfigInv, TypeOK, Starts, Quiet, Busy

\* The request of a calm state is the only one.
LEMMA OthersIdle ==
    ASSUME ConfigInv, calm, NEW r \in Requests, Busy(r)
    PROVE  \A q \in Requests \ {r} : ~Busy(q) /\ req[q].obj = None
  BY ReqShape DEF ConfigInv, Alone, Busy

\* authalice finds the token cached.
LEMMA AuthHitKeeps ==
    ASSUME ConfigInv, NEW r \in Requests, NEW t \in Tokens, AuthHit(r, t)
    PROVE  ConfigInv'
  <1> USE ConfigAssumption DEF ConfigAssumption
  <1> DEFINE a == [st |-> "ctx", tok |-> t, obj |-> cache[t], patch |-> <<>>, new |-> None]
  <1>1. /\ Starts(r) /\ cache[t] # None /\ req' = [req EXCEPT ![r] = a]
        /\ UNCHANGED <<rowTok, row, val, cache, sesTok, qrObj, qrTok>>
    BY DEF AuthHit, qrVars
  <1>2. /\ a.st = "ctx" /\ a.tok = t /\ a.obj = cache[t] /\ cache[t] \in Objs
        /\ a \in ReqStates
    <2>1. cache[t] \in Objs
      BY <1>1 DEF ConfigInv, TypeOK
    <2> QED BY <2>1, ReqMade, HandlerPatches
  <1> HIDE DEF a
  <1>3. /\ req' \in [Requests -> ReqStates] /\ req'[r] = a /\ Only(r)
    BY <1>1, <1>2 DEF ConfigInv, TypeOK, Only
  <1>4. /\ calm' => calm /\ \A q \in Requests : ~Busy(q)
        /\ calm' \in BOOLEAN
    BY <1>1, <1>3, StartsAlone
  <1>5. TypeOK'
    BY <1>1, <1>3, <1>4 DEF ConfigInv, TypeOK
  <1>6. Holding'
    BY <1>2, <1>3 DEF ConfigInv, Holding, Only
  <1>7. Single'
    <2>1. ASSUME NEW o \in Objs, NEW u \in Tokens, Ref(o, u)' PROVE Ref(o, u)
      BY <2>1, <1>1, <1>2, <1>3 DEF Ref, Only
    <2> QED BY <2>1, SingleKept DEF ConfigInv
  <1>8. Alone'
    BY <1>1, <1>3, <1>4 DEF ConfigInv, Alone, Busy, Only
  <1>9. calm' /\ rowTok # None => t = rowTok /\ Coherent(val[cache[t]], row)
    BY <1>1, <1>4 DEF ConfigInv, Known, Settling, Busy
  <1>10. Known'
    BY <1>1, <1>2, <1>3, <1>4, <1>9 DEF ConfigInv, Known, Busy, Only
  <1>11. Settling'
    BY <1>1, <1>2, <1>3, <1>4, <1>9 DEF ConfigInv, Settling, Busy, Only
  <1> QED BY <1>5, <1>6, <1>7, <1>8, <1>10, <1>11 DEF ConfigInv

\* authalice reads the row.
LEMMA AuthQueryKeeps ==
    ASSUME ConfigInv, NEW r \in Requests, NEW t \in Tokens, AuthQuery(r, t)
    PROVE  ConfigInv'
  <1> USE ConfigAssumption DEF ConfigAssumption
  <1> DEFINE p == [row EXCEPT !["hmac"] = FALSE]
             a == [st |-> "fill", tok |-> t, obj |-> None, patch |-> p, new |-> None]
  <1>1. /\ Starts(r) /\ rowTok = t /\ req' = [req EXCEPT ![r] = a]
        /\ UNCHANGED <<rowTok, row, val, cache, sesTok, qrObj, qrTok>>
    BY DEF AuthQuery, qrVars
  <1>c. Coherent(p, row) /\ p \in Config
    <2>1. row \in Config
      BY DEF ConfigInv, TypeOK, Config
    <2>2. p \in Config
      BY <2>1 DEF Config
    <2>3. /\ p["webhook"] = row["webhook"] /\ p["history"] = row["history"]
          /\ p["proxy"] = row["proxy"] /\ p["s3"] = row["s3"] /\ p["hmac"] = FALSE
      BY <2>1 DEF Config, Fields
    <2> HIDE DEF p
    <2> QED BY <2>2, <2>3 DEF Coherent
  <1> HIDE DEF p
  <1>2. /\ a.st = "fill" /\ a.tok = t /\ a.obj = None /\ a.patch = p
        /\ a \in ReqStates
    <2>1. p \in Patch
      BY <1>c, IsPatch DEF Config
    <2> QED BY <2>1, ReqMade
  <1> HIDE DEF a
  <1>3. /\ req' \in [Requests -> ReqStates] /\ req'[r] = a /\ Only(r)
    BY <1>1, <1>2 DEF ConfigInv, TypeOK, Only
  <1>4. /\ calm' => calm /\ \A q \in Requests : ~Busy(q)
        /\ calm' \in BOOLEAN
    BY <1>1, <1>3, StartsAlone
  <1>5. TypeOK'
    BY <1>1, <1>3, <1>4 DEF ConfigInv, TypeOK
  <1>6. Holding'
    BY <1>2, <1>3, <1>c DEF ConfigInv, Holding, Only, Config
  <1>7. Single'
    <2>1. ASSUME NEW o \in Objs, NEW u \in Tokens, Ref(o, u)' PROVE Ref(o, u)
      BY <2>1, <1>1, <1>2, <1>3 DEF Ref, Only
    <2> QED BY <2>1, SingleKept DEF ConfigInv
  <1>8. Alone'
    BY <1>1, <1>3, <1>4 DEF ConfigInv, Alone, Busy, Only
  <1>10. Known'
    BY <1>1, <1>2, <1>3, <1>4 DEF ConfigInv, Known, Busy, Only
  <1>11. Settling'
    BY <1>1, <1>2, <1>3, <1>4, <1>c DEF ConfigInv, Settling, Busy, Only
  <1> QED BY <1>5, <1>6, <1>7, <1>8, <1>10, <1>11 DEF ConfigInv

\* and caches what it read in a map of its own.
LEMMA AuthFillKeeps ==
    ASSUME ConfigInv, NEW r \in Requests, AuthFill(r)
    PROVE  ConfigInv'
  <1> USE ConfigAssumption DEF ConfigAssumption
  <1>1. PICK o \in Objs :
          /\ Unreferenced(o)
          /\ val' = [val EXCEPT ![o] = req[r].patch]
          /\ cache' = [cache EXCEPT ![req[r].tok] = o]
          /\ req' = [req EXCEPT ![r] = [req[r] EXCEPT !.st = "ctx", !.obj = o, !.patch = <<>>]]
    BY DEF AuthFill
  <1>f. req[r].st = "fill" /\ UNCHANGED <<rowTok, row, sesTok, qrObj, qrTok, calm>>
    BY DEF AuthFill, qrVars
  <1> DEFINE a == [req[r] EXCEPT !.st = "ctx", !.obj = o, !.patch = <<>>]
             t == req[r].tok
  <1>t. t \in Tokens /\ Busy(r) /\ req[r].patch \in Config
    BY <1>f, ReqShape DEF ConfigInv, Busy, Holding, Config
  <1>2. /\ a.st = "ctx" /\ a.tok = t /\ a.obj = o /\ a \in ReqStates
    <2>1. req[r] \in [st : {"fill", "ctx", "set", "patch", "update", "delete", "hook"}, tok : Tokens,
                      obj : Objs \cup {None}, patch : Patch, new : Tokens \cup {None}]
      BY <1>f, ReqShape DEF ConfigInv, ReqStates, Idle
    <2>2. a.st = "ctx" /\ a.tok = t /\ a.obj = o
      BY <2>1
    <2>3. ASSUME NEW e \in Patch
          PROVE  [req[r] EXCEPT !.st = "ctx", !.obj = o, !.patch = e] \in ReqStates
      BY <2>1, <2>3 DEF ReqStates
    <2> QED BY <2>2, <2>3, HandlerPatches
  <1> HIDE DEF a, t
  <1>3. /\ req' \in [Requests -> ReqStates] /\ req'[r] = a /\ Only(r)
    BY <1>1, <1>2 DEF ConfigInv, TypeOK, Only, a
  <1>4. /\ val' \in [Objs -> Config] /\ val'[o] = req[r].patch
        /\ \A x \in Objs \ {o} : val'[x] = val[x]
    BY <1>1, <1>t DEF ConfigInv, TypeOK, Config
  <1>c. /\ cache' \in [Tokens -> Objs \cup {None}] /\ cache'[t] = o
        /\ \A u \in Tokens \ {t} : cache'[u] = cache[u]
    BY <1>1, <1>t DEF ConfigInv, TypeOK, t
  <1>5. TypeOK'
    BY <1>f, <1>3, <1>4, <1>c DEF ConfigInv, TypeOK, Config
  <1>6. Holding'
    BY <1>2, <1>3 DEF ConfigInv, Holding, Only
  <1>7. Single'
    <2>1. ASSUME NEW x \in Objs, NEW u \in Tokens, Ref(x, u)'
          PROVE  IF x = o THEN u = t ELSE Ref(x, u)
      BY <2>1, <1>1, <1>2, <1>3, <1>c, <1>f DEF Ref, Only, Unreferenced
    <2> QED BY <2>1 DEF ConfigInv, Single
  <1>8. Alone'
    BY <1>f, <1>3, <1>t DEF ConfigInv, Alone, Busy, Only
  <1>o. calm => \A q \in Requests \ {r} : ~Busy(q)
    BY <1>t, OthersIdle
  <1>9. calm /\ rowTok # None => t = rowTok /\ Coherent(req[r].patch, row)
    BY <1>f DEF ConfigInv, Known, Settling, t
  <1>10. Known'
    BY <1>f, <1>2, <1>3, <1>9, <1>c, <1>o DEF ConfigInv, Known, Busy, Only
  <1>11. Settling'
    BY <1>f, <1>2, <1>3, <1>4, <1>9, <1>c, <1>o DEF Settling, Busy, Only
  <1> QED BY <1>5, <1>6, <1>7, <1>8, <1>10, <1>11 DEF ConfigInv

-----------------------------------------------------------------------------
(* Handlers *)

\* A handler writes the row and goes on to update the cached map with p.
LEMMA HandlerKeeps ==
    ASSUME ConfigInv, NEW r \in Requests, NEW nx \in {"set", "patch"}, NEW p \in Patch,
           req[r].st = "ctx", To(r, nx, p),
           row' \in Config, sesTok' \in Tokens \cup {None},
           rowTok # None => \A v \in Config : Coherent(v, row) => Coherent(Over(p, v), row'),
           UNCHANGED <<rowTok, val, cache, qrObj, qrTok, calm>>
    PROVE  ConfigInv'
  <1> USE ConfigAssumption DEF ConfigAssumption
  <1> DEFINE a == [req[r] EXCEPT !.st = nx, !.patch = p]
  <1>0. Busy(r) /\ req[r].obj \in Objs
    BY DEF ConfigInv, Busy, Holding
  <1>1. req[r] \in [st : {"fill", "ctx", "set", "patch", "update", "delete", "hook"}, tok : Tokens,
                    obj : Objs \cup {None}, patch : Patch, new : Tokens \cup {None}]
    BY ReqShape DEF ConfigInv, ReqStates, Idle
  <1>2. /\ a.st = nx /\ a.tok = req[r].tok /\ a.obj = req[r].obj /\ a.patch = p
        /\ a \in ReqStates
    BY <1>1 DEF ReqStates
  <1>m. req' = [req EXCEPT ![r] = a]
    BY DEF To, ConfigInv, TypeOK
  <1> HIDE DEF a
  <1>3. /\ req' \in [Requests -> ReqStates] /\ req'[r] = a /\ Only(r)
    BY <1>m, <1>2 DEF ConfigInv, TypeOK, Only
  <1>5. TypeOK'
    BY <1>3 DEF ConfigInv, TypeOK, Config
  <1>6. Holding'
    BY <1>0, <1>2, <1>3 DEF ConfigInv, Holding, Only
  <1>7. Single'
    <2>1. ASSUME NEW x \in Objs, NEW u \in Tokens, Ref(x, u)' PROVE Ref(x, u)
      BY <2>1, <1>2, <1>3 DEF Ref, Only
    <2> QED BY <2>1, SingleKept DEF ConfigInv
  <1>8. Alone'
    BY <1>0, <1>3 DEF ConfigInv, Alone, Busy, Only
  <1>o. calm => \A q \in Requests \ {r} : ~Busy(q)
    BY <1>0, OthersIdle
  <1>9. calm /\ rowTok # None => /\ req[r].obj = cache[rowTok]
                                 /\ Coherent(Over(p, val[req[r].obj]), row')
    <2>1. val[req[r].obj] \in Config
      BY <1>0 DEF ConfigInv, TypeOK, Config
    <2> QED BY <2>1 DEF ConfigInv, Settling
  <1>10. Known'
    BY <1>2, <1>3, <1>o DEF ConfigInv, Known, Busy, Only
  <1>11. Settling'
    BY <1>2, <1>3, <1>9, <1>o DEF Settling, Busy, Only
  <1> QED BY <1>5, <1>6, <1>7, <1>8, <1>10, <1>11 DEF ConfigInv

\* What an UPDATE leaves in the row.
LEMMA RowWritten ==
    ASSUME TypeOK, NEW p \in Patch, WriteRow(p)
    PROVE  row' \in Config /\ (rowTok # None => row' = Over(p, row))
  BY OverType DEF WriteRow, TypeOK, Config

\* The handlers of one setting: proxy, history, HMAC key, S3.
LEMMA ConfigureKeeps ==
    ASSUME ConfigInv, NEW r \in Requests, NEW f \in Fields, NEW b \in BOOLEAN, Configure(r, f, b)
    PROVE  ConfigInv'
  <1> DEFINE p == [x \in {f} |-> b]
  <1>1. /\ req[r].st = "ctx" /\ WriteRow(p) /\ To(r, "patch", p)
        /\ UNCHANGED <<rowTok, val, cache, sesTok, qrObj, qrTok, calm>>
    BY DEF Configure, qrVars
  <1>2. p \in Patch
    BY HandlerPatches
  <1> HIDE DEF p
  <1>3. row \in Config /\ row' \in Config /\ (rowTok # None => row' = Over(p, row))
    BY <1>1, <1>2, RowWritten DEF ConfigInv, TypeOK, Config
  <1>4. \A v \in Config : Coherent(v, row) => Coherent(Over(p, v), Over(p, row))
    BY <1>3, PatchBoth
  <1>5. sesTok' \in Tokens \cup {None}
    BY <1>1 DEF ConfigInv, TypeOK
  <1> QED BY <1>1, <1>2, <1>3, <1>4, <1>5, HandlerKeeps

\* The webhook handlers: the row may keep its events, the map never does.
LEMMA WebhookKeeps ==
    ASSUME ConfigInv, NEW r \in Requests, SetWebhook(r) \/ DeleteWebhook(r)
    PROVE  ConfigInv'
  <1>1. PICK w \in BOOLEAN, e \in BOOLEAN :
          /\ WriteRow([webhook |-> w]) \/ WriteRow([webhook |-> w, events |-> e])
          /\ To(r, "set", [webhook |-> w, events |-> e])
    BY DEF SetWebhook, DeleteWebhook
  <1>2. req[r].st = "ctx" /\ UNCHANGED <<rowTok, val, cache, sesTok, qrObj, qrTok, calm>>
    BY DEF SetWebhook, DeleteWebhook, qrVars
  <1> DEFINE p == [webhook |-> w, events |-> e]
             q == [webhook |-> w]
  <1>3. p \in Patch /\ q \in Patch
    BY HandlerPatches
  <1>4. /\ DOMAIN p = {"webhook", "events"} /\ DOMAIN q = {"webhook"}
        /\ p["webhook"] = q["webhook"]
    OBVIOUS
  <1>5. To(r, "set", p) /\ (WriteRow(q) \/ WriteRow(p))
    BY <1>1
  <1> HIDE DEF p, q
  <1>6. /\ row \in Config /\ row' \in Config
        /\ rowTok # None => row' = Over(q, row) \/ row' = Over(p, row)
    BY <1>5, <1>3, RowWritten DEF ConfigInv, TypeOK, Config
  <1>7. \A v \in Config : Coherent(v, row) => /\ Coherent(Over(p, v), Over(p, row))
                                             /\ Coherent(Over(p, v), Over(q, row))
    BY <1>4, <1>6, PatchBoth
  <1>8. sesTok' \in Tokens \cup {None}
    BY <1>2 DEF ConfigInv, TypeOK
  <1> QED BY <1>2, <1>3, <1>5, <1>6, <1>7, <1>8, HandlerKeeps

\* Connect and Disconnect change the events only, in the map even if not in the row.
LEMMA EventsKeep ==
    ASSUME ConfigInv, NEW r \in Requests, ConnectEvents(r) \/ DisconnectEvents(r)
    PROVE  ConfigInv'
  <1>1. PICK e \in BOOLEAN :
          /\ WriteRow([events |-> e]) \/ UNCHANGED row
          /\ To(r, "set", [events |-> e])
    BY DEF ConnectEvents, DisconnectEvents
  <1>2. /\ req[r].st = "ctx" /\ UNCHANGED <<rowTok, val, cache, qrObj, qrTok, calm>>
        /\ sesTok' = sesTok \/ sesTok' = req[r].tok
    BY DEF ConnectEvents, DisconnectEvents, qrVars
  <1> DEFINE p == [events |-> e]
  <1>3. p \in Patch /\ DOMAIN p = {"events"}
    BY HandlerPatches
  <1>5. To(r, "set", p) /\ (WriteRow(p) \/ UNCHANGED row)
    BY <1>1
  <1> HIDE DEF p
  <1>6. /\ row \in Config /\ row' \in Config
        /\ rowTok # None => row' = row \/ row' = Over(p, row)
    BY <1>5, <1>3, RowWritten DEF ConfigInv, TypeOK, Config
  <1>7. \A v \in Config : Coherent(v, row) => Coherent(Over(p, v), Over(p, row))
    BY <1>3, <1>6, PatchBoth
  <1>8. Over(p, row)["hmac"] = row["hmac"] /\ Over(p, row)["s3"] = row["s3"]
        /\ \A f \in {"webhook", "history", "proxy"} : Over(p, row)[f] = row[f]
    BY <1>3, <1>6, OverAt DEF Fields
  <1>9. \A v \in Config : Coherent(v, row) => Coherent(Over(p, v), row)
    BY <1>7, <1>8 DEF Coherent
  <1>10. sesTok' \in Tokens \cup {None}
    BY <1>2, ReqShape DEF ConfigInv, TypeOK
  <1> QED BY <1>2, <1>3, <1>5, <1>6, <1>7, <1>9, <1>10, HandlerKeeps

-----------------------------------------------------------------------------
(* The end of a request *)

\* A request that ends keeps the invariant if the cache it leaves refers to maps under
\* the same tokens, knows only the row's token and is coherent with the row.
LEMMA DoneKeeps ==
    ASSUME ConfigInv, NEW r \in Requests, Busy(r), Done(r),
           row' \in Config, val' \in [Objs -> Config], cache' \in [Tokens -> Objs \cup {None}],
           \A t \in Tokens : cache'[t] \in {None, cache[t]} \/
                             (t = req[r].tok /\ cache'[t] = req[r].obj),
           calm /\ rowTok # None => \A t \in Tokens : cache'[t] # None => t = rowTok,
           calm /\ rowTok # None /\ cache'[rowTok] # None =>
               Coherent(val'[cache'[rowTok]], row'),
           UNCHANGED <<rowTok, sesTok, qrObj, qrTok, calm>>
    PROVE  ConfigInv'
  <1> USE ConfigAssumption DEF ConfigAssumption
  <1>1. Idle \in ReqStates /\ Idle.st = "idle" /\ Idle.obj = None
    BY DEF Idle, ReqStates
  <1> HIDE DEF Idle
  <1>2. req' \in [Requests -> ReqStates] /\ req'[r] = Idle /\ Only(r)
    BY <1>1 DEF Done, ConfigInv, TypeOK, Only
  <1>3. TypeOK'
    BY <1>2 DEF ConfigInv, TypeOK, Config
  <1>4. Holding'
    BY <1>1, <1>2 DEF ConfigInv, Holding, Only
  <1>5. Single'
    <2>1. ASSUME NEW x \in Objs, NEW u \in Tokens, Ref(x, u)' PROVE Ref(x, u)
      BY <2>1, <1>1, <1>2 DEF Ref, Only
    <2> QED BY <2>1, SingleKept DEF ConfigInv
  <1>6. calm => \A q \in Requests : req'[q].st = "idle"
    BY <1>1, <1>2, OthersIdle DEF Only, Busy
  <1>7. Alone'
    BY <1>6 DEF ConfigInv, Alone, Busy
  <1>8. Known'
    BY <1>6 DEF Known
  <1>9. Settling'
    BY <1>6 DEF Settling
  <1> QED BY <1>3, <1>4, <1>5, <1>7, <1>8, <1>9 DEF ConfigInv

\* DeleteS3Config and GetHistory: S3 may stay cached as enabled, nothing else differs.
LEMMA PlainEndKeeps ==
    ASSUME ConfigInv, NEW r \in Requests, DeleteS3Config(r) \/ GetHistory(r)
    PROVE  ConfigInv'
  <1> USE ConfigAssumption DEF ConfigAssumption
  <1>0. /\ req[r].st = "ctx" /\ Busy(r) /\ Done(r) /\ req[r].tok \in Tokens
        /\ UNCHANGED <<rowTok, val, sesTok, qrObj, qrTok, calm>>
    BY ReqShape DEF DeleteS3Config, GetHistory, qrVars, Busy, ConfigInv
  <1>t. /\ row \in Config /\ val \in [Objs -> Config] /\ cache \in [Tokens -> Objs \cup {None}]
    BY DEF ConfigInv, TypeOK, Config
  <1>1. calm /\ rowTok # None =>
           /\ req[r].tok = rowTok /\ req[r].obj = cache[rowTok]
           /\ Coherent(val[cache[rowTok]], row)
           /\ \A t \in Tokens : cache[t] # None => t = rowTok
    <2>1. calm => \A q \in Requests : req[q].st # "hook"
      BY <1>0, OthersIdle DEF Busy
    <2> QED BY <2>1, <1>0 DEF ConfigInv, Known, Settling
  <1>2. CASE DeleteS3Config(r)
    <2> DEFINE p == [s3 |-> FALSE]
    <2>1. WriteRow(p) /\ UNCHANGED cache
      BY <1>2 DEF DeleteS3Config
    <2>2. p \in Patch
      BY HandlerPatches
    <2>a. DOMAIN p = {"s3"} /\ p["s3"] = FALSE
      OBVIOUS
    <2> HIDE DEF p
    <2>3. row' \in Config /\ (rowTok # None => row' = Over(p, row))
      BY <2>1, <2>2, RowWritten DEF ConfigInv
    <2>4. /\ Over(p, row)["s3"] = FALSE /\ Over(p, row)["hmac"] = row["hmac"]
          /\ \A f \in {"webhook", "history", "proxy"} : Over(p, row)[f] = row[f]
      BY <2>a, <1>t, OverAt DEF Fields
    <2>5. calm /\ rowTok # None => Coherent(val[cache[rowTok]], row')
      BY <1>1, <2>3, <2>4 DEF Coherent
    <2> QED BY <1>0, <1>1, <1>t, <2>1, <2>3, <2>5, DoneKeeps
  <1>3. CASE GetHistory(r)
    <2>1. /\ UNCHANGED row
          /\ \/ cache' = cache
             \/ cache' = [cache EXCEPT ![req[r].tok] = None]
      BY <1>3 DEF GetHistory
    <2>2. /\ cache' \in [Tokens -> Objs \cup {None}]
          /\ \A t \in Tokens : cache'[t] \in {None, cache[t]}
      BY <2>1, <1>t
    <2>r. rowTok \in Tokens \cup {None}
      BY DEF ConfigInv, TypeOK
    <2>3. /\ calm /\ rowTok # None => \A t \in Tokens : cache'[t] # None => t = rowTok
          /\ calm /\ rowTok # None /\ cache'[rowTok] # None =>
                Coherent(val'[cache'[rowTok]], row')
      BY <1>0, <1>1, <2>1, <2>2, <2>r
    <2> QED BY <1>0, <1>t, <2>1, <2>2, <2>3, DoneKeeps
  <1> QED BY <1>2, <1>3

\* The two ways a handler updates the cached map: through the context or the cache.
LEMMA UpdateKeeps ==
    ASSUME ConfigInv, NEW r \in Requests, SetCtx(r) \/ PatchCached(r)
    PROVE  ConfigInv'
  <1> USE ConfigAssumption DEF ConfigAssumption
  <1>0. /\ req[r].st \in {"set", "patch"} /\ Busy(r) /\ Done(r) /\ req[r].tok \in Tokens
        /\ req[r].obj \in Objs /\ req[r].patch \in Patch
        /\ UNCHANGED <<rowTok, row, sesTok, qrObj, qrTok, calm>>
    BY ReqShape DEF SetCtx, PatchCached, qrVars, Busy, ConfigInv, Holding
  <1>t. /\ row \in Config /\ val \in [Objs -> Config] /\ cache \in [Tokens -> Objs \cup {None}]
        /\ rowTok \in Tokens \cup {None}
    BY DEF ConfigInv, TypeOK, Config
  <1>v. \A o \in Objs : Over(req[r].patch, val[o]) \in Config
    BY <1>0, <1>t, OverType
  <1>1. calm /\ rowTok # None =>
           /\ req[r].tok = rowTok /\ req[r].obj = cache[rowTok]
           /\ Coherent(Over(req[r].patch, val[req[r].obj]), row)
           /\ \A t \in Tokens : cache[t] # None => t = rowTok
    <2>1. calm => \A q \in Requests : req[q].st # "hook"
      BY <1>0, OthersIdle DEF Busy
    <2> QED BY <2>1, <1>0 DEF ConfigInv, Known, Settling
  <1>2. CASE SetCtx(r)
    <2>1. /\ val' = [val EXCEPT ![req[r].obj] = Over(req[r].patch, val[req[r].obj])]
          /\ cache' = [cache EXCEPT ![req[r].tok] = req[r].obj]
      BY <1>2 DEF SetCtx
    <2>2. /\ val' \in [Objs -> Config]
          /\ val'[req[r].obj] = Over(req[r].patch, val[req[r].obj])
      BY <2>1, <1>0, <1>t, <1>v
    <2>3. /\ cache' \in [Tokens -> Objs \cup {None}] /\ cache'[req[r].tok] = req[r].obj
          /\ \A t \in Tokens : t # req[r].tok => cache'[t] = cache[t]
      BY <2>1, <1>0, <1>t
    <2>4. /\ calm /\ rowTok # None => \A t \in Tokens : cache'[t] # None => t = rowTok
          /\ calm /\ rowTok # None /\ cache'[rowTok] # None =>
                Coherent(val'[cache'[rowTok]], row')
      BY <1>0, <1>1, <2>2, <2>3
    <2> QED BY <1>0, <1>t, <2>2, <2>3, <2>4, DoneKeeps
  <1>3. CASE PatchCached(r)
    <2> DEFINE o == cache[req[r].tok]
    <2>1. /\ val' = IF o = None THEN val ELSE [val EXCEPT ![o] = Over(req[r].patch, val[o])]
          /\ UNCHANGED cache
      BY <1>3 DEF PatchCached
    <2>2. /\ val' \in [Objs -> Config]
          /\ o # None => val'[o] = Over(req[r].patch, val[o])
      BY <2>1, <1>0, <1>t, <1>v
    <2>4. calm /\ rowTok # None /\ cache'[rowTok] # None => Coherent(val'[cache'[rowTok]], row')
      BY <1>0, <1>1, <2>1, <2>2
    <2> QED BY <1>0, <1>1, <1>t, <2>1, <2>2, <2>4, DoneKeeps
  <1> QED BY <1>2, <1>3

-----------------------------------------------------------------------------
(* Admin calls *)

\* The hook forgets both tokens, and there was no other one.
LEMMA AdminHookKeeps ==
    ASSUME ConfigInv, NEW r \in Requests, AdminHook(r)
    PROVE  ConfigInv'
  <1> USE ConfigAssumption DEF ConfigAssumption
  <1>1. /\ req[r].st = "hook" /\ Done(r) /\ Busy(r)
        /\ cache' = [t \in Tokens |-> IF t \in {req[r].tok, req[r].new} THEN None ELSE cache[t]]
        /\ UNCHANGED <<rowTok, row, val, sesTok, qrObj, qrTok, calm>>
    BY DEF AdminHook, qrVars, Busy
  <1>t. /\ row \in Config /\ val \in [Objs -> Config] /\ cache \in [Tokens -> Objs \cup {None}]
        /\ rowTok \in Tokens \cup {None}
    BY DEF ConfigInv, TypeOK, Config
  <1>2. /\ cache' \in [Tokens -> Objs \cup {None}]
        /\ \A t \in Tokens : cache'[t] \in {None, cache[t]}
    BY <1>1, <1>t
  <1>3. calm /\ rowTok # None => \A t \in Tokens : cache'[t] = None
    <2> SUFFICES ASSUME calm, rowTok # None, NEW t \in Tokens, cache[t] # None
                 PROVE  t \in {req[r].tok, req[r].new}
      BY <1>1, <1>2
    <2>1. \A q \in Requests : req[q].st = "hook" => q = r
      BY <1>1, OthersIdle DEF Busy
    <2>2. rowTok \in {req[r].tok, req[r].new}
      BY <1>1 DEF ConfigInv, Known
    <2> QED BY <2>1, <2>2 DEF ConfigInv, Known
  <1> QED BY <1>1, <1>2, <1>3, <1>t, DoneKeeps

\* An admin call begins by remembering the token that the row has.
LEMMA AdminKeeps ==
    ASSUME ConfigInv, NEW r \in Requests, AdminUpdate(r) \/ DeleteComplete(r)
    PROVE  ConfigInv'
  <1> USE ConfigAssumption DEF ConfigAssumption
  <1>0. PICK st \in {"update", "delete"} : rowTok # None /\ Admin(r, st)
    BY DEF AdminUpdate, DeleteComplete
  <1> DEFINE a == [st |-> st, tok |-> rowTok, obj |-> None, patch |-> <<>>, new |-> None]
  <1>1. /\ Starts(r) /\ rowTok # None /\ req' = [req EXCEPT ![r] = a]
        /\ UNCHANGED <<rowTok, row, val, cache, sesTok, qrObj, qrTok>>
    BY <1>0 DEF Admin, qrVars
  <1>2. /\ a.st = st /\ a.tok = rowTok /\ a.obj = None /\ a \in ReqStates
    <2>1. rowTok \in Tokens
      BY <1>1 DEF ConfigInv, TypeOK
    <2> QED BY <2>1, ReqMade, HandlerPatches
  <1> HIDE DEF a
  <1>3. /\ req' \in [Requests -> ReqStates] /\ req'[r] = a /\ Only(r)
    BY <1>1, <1>2 DEF ConfigInv, TypeOK, Only
  <1>4. /\ calm' => calm /\ \A q \in Requests : ~Busy(q)
        /\ calm' \in BOOLEAN
    BY <1>1, <1>3, StartsAlone
  <1>5. TypeOK'
    BY <1>1, <1>3, <1>4 DEF ConfigInv, TypeOK
  <1>6. Holding'
    BY <1>2, <1>3 DEF ConfigInv, Holding, Only
  <1>7. Single'
    <2>1. ASSUME NEW o \in Objs, NEW u \in Tokens, Ref(o, u)' PROVE Ref(o, u)
      BY <2>1, <1>1, <1>2, <1>3 DEF Ref, Only
    <2> QED BY <2>1, SingleKept DEF ConfigInv
  <1>8. Alone'
    BY <1>1, <1>3, <1>4 DEF ConfigInv, Alone, Busy, Only
  <1>9. calm' => /\ \A t \in Tokens : cache[t] # None => t = rowTok
                 /\ cache[rowTok] # None => Coherent(val[cache[rowTok]], row)
    BY <1>1, <1>4 DEF ConfigInv, Known, Settling, Busy
  <1>10. Known'
    BY <1>1, <1>2, <1>3, <1>4, <1>9 DEF Known, Busy, Only
  <1>11. Settling'
    BY <1>1, <1>2, <1>3, <1>4, <1>9 DEF Settling, Busy, Only
  <1> QED BY <1>5, <1>6, <1>7, <1>8, <1>10, <1>11 DEF ConfigInv

\* Its statement fails, or writes or removes the row and leaves the hook to forget the
\* token that was remembered and the new one.
LEMMA AdminRowKeeps ==
    ASSUME ConfigInv, NEW r \in Requests, AdminUpdateRow(r) \/ DeleteRow(r)
    PROVE  ConfigInv'
  <1> USE ConfigAssumption DEF ConfigAssumption
  <1>0. /\ req[r].st \in {"update", "delete"} /\ Busy(r)
        /\ UNCHANGED <<val, cache, sesTok, qrObj, qrTok, calm>>
    BY DEF AdminUpdateRow, DeleteRow, qrVars, Busy
  <1>t. /\ row \in Config /\ val \in [Objs -> Config] /\ cache \in [Tokens -> Objs \cup {None}]
        /\ rowTok \in Tokens \cup {None}
    BY DEF ConfigInv, TypeOK, Config
  <1>o. calm => \A q \in Requests \ {r} : ~Busy(q)
    BY <1>0, OthersIdle
  <1>k. calm /\ rowTok # None =>
           /\ req[r].tok = rowTok
           /\ \A t \in Tokens : cache[t] # None => t = rowTok
           /\ cache[rowTok] # None => Coherent(val[cache[rowTok]], row)
    BY <1>0, <1>o DEF ConfigInv, Known, Settling, Busy
  <1>1. CASE Done(r) /\ UNCHANGED <<rowTok, row>>
    BY <1>1, <1>0, <1>t, <1>k, DoneKeeps
  <1>2. CASE ~(Done(r) /\ UNCHANGED <<rowTok, row>>)
    <2> DEFINE b(t) == [req[r] EXCEPT !.st = "hook", !.new = t]
    <2>r. req[r] \in [st : {"fill", "ctx", "set", "patch", "update", "delete", "hook"}, tok : Tokens,
                      obj : Objs \cup {None}, patch : Patch, new : Tokens \cup {None}]
      BY <1>0, ReqShape DEF ConfigInv, ReqStates, Idle
    <2>1. PICK t \in Tokens \cup {None} :
             /\ req' = [req EXCEPT ![r] = b(t)]
             /\ row' \in Config /\ rowTok' \in Tokens \cup {None}
             /\ rowTok' \in {None, rowTok, t}
             /\ rowTok = None => rowTok' = None
      <3>p. ASSUME NEW p \in AdminPatches PROVE p \in Patch
        <4>1. \E f \in Fields : \E c \in BOOLEAN : p = [x \in {f} |-> c]
          BY DEF AdminPatches, Fields
        <4> QED BY <4>1, HandlerPatches
      <3>h. req' = [req EXCEPT ![r].st = "hook"] => req' = [req EXCEPT ![r] = b(req[r].new)]
        <4>1. [req[r] EXCEPT !.st = "hook"] = b(req[r].new)
          BY <2>r
        <4> QED BY <4>1
      <3>n. req[r].new \in Tokens \cup {None}
        BY <2>r
      <3>1. CASE /\ \E p \in AdminPatches : WriteRow(p)
                 /\ req' = [req EXCEPT ![r].st = "hook"] /\ UNCHANGED rowTok
        <4>1. row' \in Config
          BY <3>1, <3>p, RowWritten DEF ConfigInv
        <4> QED BY <3>1, <3>h, <3>n, <4>1, <1>t
      <3>2. CASE /\ UNCHANGED row
                 /\ \E t \in Tokens : /\ rowTok' = IF rowTok = None THEN None ELSE t
                                      /\ req' = [req EXCEPT ![r].st = "hook", ![r].new = t]
        <4>1. PICK t \in Tokens : /\ rowTok' = IF rowTok = None THEN None ELSE t
                                  /\ req' = [req EXCEPT ![r].st = "hook", ![r].new = t]
          BY <3>2
        <4>2. req' = [req EXCEPT ![r] = b(t)]
          BY <4>1 DEF ConfigInv, TypeOK
        <4> QED BY <3>2, <4>1, <4>2, <1>t
      <3>3. CASE rowTok' = None /\ row' = Off /\ req' = [req EXCEPT ![r].st = "hook"]
        <4>1. row' \in Config
          BY <3>3 DEF Off, Config
        <4> QED BY <3>3, <3>h, <3>n, <4>1
      <3> QED BY <1>2, <3>1, <3>2, <3>3 DEF AdminUpdateRow, DeleteRow
    <2>2. /\ b(t).st = "hook" /\ b(t).tok = req[r].tok /\ b(t).new = t
          /\ b(t).obj = req[r].obj /\ b(t) \in ReqStates
      BY <2>r DEF ReqStates
    <2> HIDE DEF b
    <2>3. /\ req' \in [Requests -> ReqStates] /\ req'[r] = b(t) /\ Only(r)
      BY <2>1, <2>2 DEF ConfigInv, TypeOK, Only
    <2>4. TypeOK'
      BY <1>0, <2>1, <2>3 DEF ConfigInv, TypeOK, Config
    <2>5. Holding'
      BY <2>2, <2>3 DEF ConfigInv, Holding, Only
    <2>6. Single'
      <3>1. ASSUME NEW o \in Objs, NEW u \in Tokens, Ref(o, u)' PROVE Ref(o, u)
        BY <3>1, <1>0, <2>2, <2>3 DEF Ref, Only
      <3> QED BY <3>1, SingleKept DEF ConfigInv
    <2>7. Alone'
      BY <1>0, <2>3 DEF ConfigInv, Alone, Busy, Only
    <2>8. Known'
      BY <1>0, <1>k, <1>o, <2>1, <2>2, <2>3 DEF Known, Busy, Only
    <2>9. Settling'
      BY <1>0, <1>o, <2>2, <2>3 DEF Settling, Busy, Only
    <2> QED BY <2>4, <2>5, <2>6, <2>7, <2>8, <2>9 DEF ConfigInv
  <1> QED BY <1>1, <1>2

\* users.Service.Delete and the QR loop.  The loop puts a map back under the token it
\* was found under.
LEMMA OthersKeep ==
    ASSUME ConfigInv, AdminDelete \/ QrStart \/ QrRefresh
    PROVE  ConfigInv'
  <1> USE ConfigAssumption DEF ConfigAssumption
  <1>1. CASE AdminDelete
    <2>1. /\ rowTok' = None /\ row' = Off /\ calm' = (calm /\ Quiet)
          /\ UNCHANGED <<val, cache, req, sesTok, qrObj, qrTok>>
      BY <1>1 DEF AdminDelete, qrVars
    <2>2. Off \in [Fields -> BOOLEAN] /\ calm' \in BOOLEAN /\ (calm' => calm)
      BY <2>1 DEF Off, ConfigInv, TypeOK
    <2>3. TypeOK'
      BY <2>1, <2>2 DEF ConfigInv, TypeOK
    <2>4. Holding' /\ Single'
      BY <2>1 DEF ConfigInv, Holding, Single, Ref
    <2>5. Alone' /\ Known' /\ Settling'
      BY <2>1, <2>2 DEF ConfigInv, Alone, Busy, Known, Settling
    <2> QED BY <2>3, <2>4, <2>5 DEF ConfigInv
  <1>2. CASE QrStart
    <2>1. /\ sesTok # None /\ qrObj' = cache[sesTok] /\ qrTok' = sesTok /\ calm' = FALSE
          /\ UNCHANGED <<rowTok, row, val, cache, req, sesTok>>
      BY <1>2 DEF QrStart
    <2>2. TypeOK'
      BY <2>1 DEF ConfigInv, TypeOK
    <2>3. Holding' /\ Alone' /\ Known' /\ Settling'
      BY <2>1 DEF ConfigInv, Holding, Alone, Known, Settling
    <2>4. Single'
      <3>1. ASSUME NEW o \in Objs, NEW u \in Tokens, Ref(o, u)' PROVE Ref(o, u)
        BY <3>1, <2>1 DEF Ref
      <3> QED BY <3>1, SingleKept DEF ConfigInv
    <2> QED BY <2>2, <2>3, <2>4 DEF ConfigInv
  <1>3. CASE QrRefresh
    <2>1. /\ qrObj # None /\ cache' = [cache EXCEPT ![qrTok] = qrObj]
          /\ UNCHANGED <<qrObj, qrTok>> \/ (qrObj' = None /\ qrTok' = None)
          /\ UNCHANGED <<rowTok, row, val, req, sesTok, calm>>
      BY <1>3 DEF QrRefresh, qrVars
    <2>2. ~calm
      BY <2>1 DEF ConfigInv, Alone
    <2>3. /\ cache' \in [Tokens -> Objs \cup {None}]
          /\ \A t \in Tokens : cache'[t] = IF t = qrTok THEN qrObj ELSE cache[t]
      BY <2>1 DEF ConfigInv, TypeOK
    <2>4. TypeOK'
      BY <2>1, <2>3 DEF ConfigInv, TypeOK
    <2>5. Holding' /\ Alone' /\ Known' /\ Settling'
      BY <2>1, <2>2 DEF ConfigInv, Holding, Alone, Known, Settling
    <2>6. Single'
      <3>1. ASSUME NEW o \in Objs, NEW u \in Tokens, Ref(o, u)' PROVE Ref(o, u)
        BY <3>1, <2>1, <2>3 DEF Ref
      <3> QED BY <3>1, SingleKept DEF ConfigInv
    <2> QED BY <2>4, <2>5, <2>6 DEF ConfigInv
  <1> QED BY <1>1, <1>2, <1>3

-----------------------------------------------------------------------------
\* Every step keeps the invariant.
LEMMA StepConfig == ConfigInv /\ [Next]_vars => ConfigInv'
  <1> SUFFICES ASSUME ConfigInv, [Next]_vars PROVE ConfigInv'
    OBVIOUS
  <1>1. ASSUME NEW r \in Requests, NEW t \in Tokens, AuthHit(r, t) \/ AuthQuery(r, t)
        PROVE  ConfigInv'
    BY <1>1, AuthHitKeeps, AuthQueryKeeps
  <1>2. ASSUME NEW r \in Requests,
               \/ SetWebhook(r) \/ DeleteWebhook(r) \/ ConnectEvents(r) \/ DisconnectEvents(r)
        PROVE  ConfigInv'
    BY <1>2, WebhookKeeps, EventsKeep
  <1>3. ASSUME NEW r \in Requests,
               \/ SetHistory(r) \/ SetProxy(r) \/ ConfigureHmac(r) \/ DeleteHmacConfig(r)
               \/ ConfigureS3(r)
        PROVE  ConfigInv'
    <2>1. \E f \in Fields : \E b \in BOOLEAN : Configure(r, f, b)
      BY <1>3 DEF SetHistory, SetProxy, ConfigureHmac, DeleteHmacConfig, ConfigureS3, Fields
    <2> QED BY <2>1, ConfigureKeeps
  <1>4. ASSUME NEW r \in Requests,
               \/ AuthFill(r) \/ DeleteS3Config(r) \/ GetHistory(r) \/ SetCtx(r) \/ PatchCached(r)
        PROVE  ConfigInv'
    BY <1>4, AuthFillKeeps, PlainEndKeeps, UpdateKeeps
  <1>5. ASSUME NEW r \in Requests,
               \/ AdminUpdate(r) \/ AdminUpdateRow(r) \/ AdminHook(r)
               \/ DeleteComplete(r) \/ DeleteRow(r)
        PROVE  ConfigInv'
    BY <1>5, AdminKeeps, AdminRowKeeps, AdminHookKeeps
  <1>6. CASE UNCHANGED vars
    <2>1. TypeOK' /\ Holding' /\ Single'
      BY <1>6 DEF ConfigInv, vars, TypeOK, Holding, Single, Ref
    <2>2. Alone' /\ Known' /\ Settling'
      BY <1>6 DEF ConfigInv, vars, Alone, Busy, Known, Settling
    <2> QED BY <2>1, <2>2 DEF ConfigInv
  <1> QED BY <1>1, <1>2, <1>3, <1>4, <1>5, <1>6, OthersKeep DEF Next

\* The invariant holds in every state.
THEOREM ConfigInvariant == Spec => []ConfigInv
  BY InitConfig, StepConfig, PTL DEF Spec

\* Every variable keeps its type; in particular every cached map has all the fields.
THEOREM ConfigTypes == Spec => []TypeOK
  <1>1. ConfigInv => TypeOK
    BY DEF ConfigInv
  <1> QED BY <1>1, ConfigInvariant, PTL

\* Between requests that do not overlap, userinfocache says what the users row says
\* about webhook, history and proxy, claims no HMAC key the row does not have and does
\* not miss that S3 was enabled, whichever handlers and admin calls came before.
THEOREM CoherentTheorem == Spec => []CacheCoherent
  <1>1. ConfigInv => CacheCoherent
    <2> SUFFICES ASSUME ConfigInv, calm, Quiet, rowTok # None, cache[rowTok] # None
                 PROVE  Coherent(val[cache[rowTok]], row)
      BY DEF CacheCoherent, Coherent
    <2>1. Idle.st = "idle"
      BY DEF Idle
    <2> QED BY <2>1 DEF ConfigInv, Settling, Quiet, Busy
  <1> QED BY <1>1, ConfigInvariant, PTL

\* Between requests that do not overlap, only the token that the row has now is cached:
\* authalice refuses every token that an admin replaced.
THEOREM ForgottenTheorem == Spec => []OldTokenForgotten
  <1>1. ConfigInv => OldTokenForgotten
    <2> SUFFICES ASSUME ConfigInv, calm, Quiet, rowTok # None, NEW t \in Tokens, cache[t] # None
                 PROVE  t = rowTok
      BY DEF OldTokenForgotten
    <2>1. Idle.st = "idle"
      BY DEF Idle
    <2> QED BY <2>1 DEF ConfigInv, Known, Quiet
  <1> QED BY <1>1, ConfigInvariant, PTL

\* Two tokens never share a cached map, even if requests, admin calls and a QR login
\* overlap: what updateUserInfo writes for one token cannot be seen under another.
THEOREM ShareTheorem == Spec => []TokensDoNotShare
  <1>1. ConfigInv => TokensDoNotShare
    BY DEF ConfigInv, TypeOK, Single, Ref, TokensDoNotShare
  <1> QED BY <1>1, ConfigInvariant, PTL

-----------------------------------------------------------------------------
(* The delivery of an event that the configuration lets through: the retry     *)
(* loop of callHookWithHmac.                                                   *)

\* A goroutine in its retry loop has attempts left and no 2xx so far.
LoopInv ==
    \A c \in Calls :
        /\ call[c] = "trying" => att[c] < maxRetries
        /\ call[c] \in {"none", "spawned"} => att[c] = 0
        /\ call[c] # "ok" => got[c] = lost[c]
        /\ call[c] = "ok" => got[c] = lost[c] + 1

DeliveryInv ==
    DeliveryTypeOK /\ LoopInv /\ OutcomeTruthful /\ DuplicateOnlyAfterLoss

\* maxRetries is a natural number.
LEMMA RetriesNat == maxRetries \in Nat
  BY WebhookAssumption DEF maxRetries

\* The initial states satisfy the invariant.
LEMMA InitDelivery == DeliveryInit => DeliveryInv
  <1> SUFFICES ASSUME DeliveryInit PROVE DeliveryInv
    OBVIOUS
  <1>1. DeliveryTypeOK
    <2>1. 0 \in 0..maxRetries /\ 0 \in Nat
      BY RetriesNat
    <2> QED BY <2>1, Zenon DEF DeliveryInit, DeliveryTypeOK
  <1>2. LoopInv /\ OutcomeTruthful /\ DuplicateOnlyAfterLoss
    BY DEF DeliveryInit, LoopInv, OutcomeTruthful, DuplicateOnlyAfterLoss
  <1> QED BY <1>1, <1>2 DEF DeliveryInv

\* Every step keeps it.
LEMMA StepDelivery == DeliveryInv /\ [DeliveryNext]_deliveryVars => DeliveryInv'
  <1> SUFFICES ASSUME DeliveryInv, [DeliveryNext]_deliveryVars PROVE DeliveryInv'
    OBVIOUS
  <1> USE RetriesNat
  <1>1. ASSUME NEW e \in Events, SendEvent(e), UNCHANGED <<att, got, lost>>,
               http' \in BOOLEAN, ses' \in {"live", "timeout", "gaveUp", "ended"},
               crashed' \in BOOLEAN
        PROVE  DeliveryInv'
    <2>1. \A c \in Calls : call'[c] = call[c] \/ (call'[c] = "spawned" /\ call[c] = "none")
      BY <1>1 DEF SendEvent, Fresh, Calls, DeliveryInv, DeliveryTypeOK
    <2>2. call' \in [Calls -> {"none", "spawned", "trying", "ok", "failed", "dropped"}]
      BY <1>1 DEF SendEvent, DeliveryInv, DeliveryTypeOK
    <2> QED BY <1>1, <2>1, <2>2 DEF DeliveryInv, DeliveryTypeOK, LoopInv, OutcomeTruthful,
                                    DuplicateOnlyAfterLoss
  <1>2. ASSUME UNCHANGED <<call, att, got, lost>>, http' \in BOOLEAN,
               ses' \in {"live", "timeout", "gaveUp", "ended"}, crashed' \in BOOLEAN
        PROVE  DeliveryInv'
    BY <1>2 DEF DeliveryInv, DeliveryTypeOK, LoopInv, OutcomeTruthful,
       DuplicateOnlyAfterLoss
  <1>3. ASSUME NEW e \in Events, Emit(e) PROVE DeliveryInv'
    BY <1>3, <1>1 DEF Emit, DeliveryInv, DeliveryTypeOK
  <1>4. ASSUME NEW e \in Events, TimeoutEvent(e) PROVE DeliveryInv'
    BY <1>4, <1>1 DEF TimeoutEvent, DeliveryInv, DeliveryTypeOK
  <1>5. ASSUME NEW e \in Events, GiveUpEvent(e) PROVE DeliveryInv'
    BY <1>5, <1>1 DEF GiveUpEvent, DeliveryInv, DeliveryTypeOK
  <1>6. CASE TimeoutCleanup \/ GiveUpCleanup \/ Kill
    BY <1>6, <1>2 DEF TimeoutCleanup, GiveUpCleanup, Kill, DeliveryInv,
       DeliveryTypeOK
  <1>7. ASSUME NEW c \in Calls, Start(c) PROVE DeliveryInv'
    <2>1. UNCHANGED <<http, ses, att, got, lost>>
      BY <1>7 DEF Start
    <2>2. \/ UNCHANGED call /\ crashed' = TRUE
          \/ call' = [call EXCEPT ![c] = "dropped"] /\ UNCHANGED crashed
          \/ maxRetries # 0 /\ call' = [call EXCEPT ![c] = "trying"] /\ UNCHANGED crashed
      BY <1>7, Zenon DEF Start
    <2>3. http' \in BOOLEAN /\ crashed' \in BOOLEAN
      BY <2>1, <2>2, Zenon DEF DeliveryInv, DeliveryTypeOK
    <2>4. call[c] = "spawned"
      BY <1>7 DEF Start
    <2>5. CASE UNCHANGED call
      BY <2>1, <2>3, <2>5, <1>2 DEF DeliveryInv, DeliveryTypeOK
    <2>6. CASE call' = [call EXCEPT ![c] = "dropped"]
      BY <2>1, <2>3, <2>4, <2>6 DEF DeliveryInv, DeliveryTypeOK, LoopInv, OutcomeTruthful,
         DuplicateOnlyAfterLoss
    <2>7. CASE maxRetries # 0 /\ call' = [call EXCEPT ![c] = "trying"]
      BY <2>1, <2>3, <2>4, <2>7 DEF DeliveryInv, DeliveryTypeOK, LoopInv, OutcomeTruthful,
         DuplicateOnlyAfterLoss
    <2> QED BY <2>2, <2>5, <2>6, <2>7
  <1>8. ASSUME NEW c \in Calls, Post(c) PROVE DeliveryInv'
    <2>1. CASE Accepted(c)
      BY <1>8, <2>1 DEF Post, Accepted, DeliveryInv, DeliveryTypeOK, LoopInv,
         OutcomeTruthful, DuplicateOnlyAfterLoss
    <2>2. CASE NotConfirmed(c)
      BY <1>8, <2>2 DEF Post, NotConfirmed, RetryOrFail, DeliveryInv,
         DeliveryTypeOK, LoopInv,
         OutcomeTruthful, DuplicateOnlyAfterLoss
    <2>3. CASE Refused(c)
      BY <1>8, <2>3 DEF Post, Refused, RetryOrFail, DeliveryInv,
         DeliveryTypeOK, LoopInv,
         OutcomeTruthful, DuplicateOnlyAfterLoss
    <2> QED BY <1>8, <2>1, <2>2, <2>3 DEF Post
  <1>9. CASE UNCHANGED deliveryVars
    BY <1>9, <1>2 DEF deliveryVars, DeliveryInv, DeliveryTypeOK
  <1> QED BY <1>3, <1>4, <1>5, <1>6, <1>7, <1>8, <1>9 DEF DeliveryNext

\* The variables keep their types: att never exceeds maxRetries.
THEOREM WebhookTypes == DeliverySpec => []DeliveryTypeOK
  BY InitDelivery, StepDelivery, PTL DEF DeliverySpec, DeliveryInv

\* What callHookWithHmac logs at the end is what happened, for every retry
\* configuration and every way the session may end meanwhile.
THEOREM OutcomeTheorem == DeliverySpec => []OutcomeTruthful
  BY InitDelivery, StepDelivery, PTL DEF DeliverySpec, DeliveryInv

\* A receiver sees an event again only after one of its answers was lost.
THEOREM DuplicateTheorem == DeliverySpec => []DuplicateOnlyAfterLoss
  BY InitDelivery, StepDelivery, PTL DEF DeliverySpec, DeliveryInv

=============================================================================
