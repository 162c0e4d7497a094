------------------------------- MODULE Session -------------------------------
(***************************************************************************)
(* The life of one user's WhatsApp session: the startClient goroutines,    *)
(* the ClientManager registrations, the killchannel entry, the users row   *)
(* and the handlers Connect, Disconnect, Logout and DeleteUserComplete.    *)
(* Everything in the code is keyed by the user id, so one user is enough.  *)
(*                                                                         *)
(* A session is one run of startClient with its whatsmeow client and the   *)
(* kill channel made by the request that launched it.  Steps are cut where *)
(* the code calls the database or the network, so that handlers, event     *)
(* callbacks and session goroutines interleave there.                      *)
(***************************************************************************)
EXTENDS Naturals, FiniteSets

CONSTANTS Sessions,     \* the runs of startClient (bound on launches)
          Requests,     \* HTTP requests that can be in flight together
          None,         \* "no entry" in a Go map
          MaxCrashes,   \* bound on process restarts
          Serial,       \* TRUE: callers leave the previous session time to end
          DbMayFail     \* TRUE: a statement may fail (logged, then ignored)

ASSUME SessionAssumption ==
    /\ None \notin Sessions
    /\ MaxCrashes \in Nat
    /\ Serial \in BOOLEAN
    /\ DbMayFail \in BOOLEAN

VARIABLES
    pc,        \* pc[s]: where startClient of session s is
    link,      \* link[s]: the websocket of s's whatsmeow client
    dev,       \* dev[s]: s's client has a device id (Store.ID # nil)
    fails,     \* fails[s]: failed connection attempts of s
    pend,      \* pend[s]: whatsmeow events of s whose handler has not finished
    signal,    \* signal[s]: the one-slot kill channel made for s is full
    killCh,    \* killchannel[user]: the session whose channel it is, or None
    wa,        \* clientManager.whatsmeowClients[user]
    my,        \* clientManager.myClients[user]
    http,      \* clientManager.httpClients[user]
    db,        \* the users row
    paired,    \* the device store holds the device of the row's jid
    req,       \* req[r]: the handler running request r
    stopped,   \* sessions whose Disconnect or Logout was answered with 200
    up,        \* connectOnStartup has run in this process
    crashes

sessVars == <<pc, link, dev, fails, pend>>
regVars  == <<wa, my, http>>
vars == <<pc, link, dev, fails, pend, signal, killCh, wa, my, http, db, paired,
          req, stopped, up, crashes>>

maxConnectionRetries == 3

Launching == {"launched", "registered", "dialing", "qrDialing"}
Running   == Launching \cup {"qr", "qrSuccess", "failed", "alive", "killed"}
PCs       == Running \cup {"unused", "done"}
Links     == {"off", "up", "auth", "dropped"}
EventSet  == {"PairSuccess", "Connected", "LoggedOut", "LoggedOutKill"}
OptSession == Sessions \cup {None}
\* a handler, with the client it found registered
ReqStates == [op : {"idle", "connect"}, client : {None}]
        \cup [op : {"disconnect", "logout"}, client : Sessions]
        \cup [op : {"delete"}, client : OptSession]

TypeOK ==
    /\ pc \in [Sessions -> PCs]
    /\ link \in [Sessions -> Links]
    /\ dev \in [Sessions -> BOOLEAN]
    /\ fails \in [Sessions -> 0..maxConnectionRetries]
    /\ pend \in [Sessions -> SUBSET EventSet]
    /\ signal \in [Sessions -> BOOLEAN]
    /\ killCh \in OptSession
    /\ wa \in OptSession /\ my \in OptSession /\ http \in OptSession
    /\ db \in [exists : BOOLEAN, connected : BOOLEAN, jid : BOOLEAN, qr : BOOLEAN]
    /\ paired \in BOOLEAN
    /\ req \in [Requests -> ReqStates]
    /\ stopped \in SUBSET Sessions
    /\ up \in BOOLEAN
    /\ crashes \in 0..MaxCrashes

Idle == [op |-> "idle", client |-> None]

Init ==
    /\ pc = [s \in Sessions |-> "unused"]
    /\ link = [s \in Sessions |-> "off"]
    /\ dev = [s \in Sessions |-> FALSE]
    /\ fails = [s \in Sessions |-> 0]
    /\ pend = [s \in Sessions |-> {}]
    /\ signal = [s \in Sessions |-> FALSE]
    /\ killCh = None
    /\ wa = None /\ my = None /\ http = None
    \* a row as the users service creates it, or one left by an earlier process
    /\ \E conn, j \in BOOLEAN :
          /\ conn => j
          /\ db = [exists |-> TRUE, connected |-> conn, jid |-> j, qr |-> FALSE]
          /\ paired = j
    /\ req = [r \in Requests |-> Idle]
    /\ stopped = {}
    /\ up = FALSE
    /\ crashes = 0

-----------------------------------------------------------------------------
(* Helpers *)

\* whatsmeow's IsConnected and IsLoggedIn (nil-receiver safe)
IsConnected(c) == c # None /\ link[c] \in {"up", "auth"}
IsLoggedIn(c)  == c # None /\ link[c] = "auth"

\* UPDATE users SET ... WHERE id: no row, no effect; an error is only logged
UpdateRow(new) ==
    \/ db' = IF db.exists THEN new ELSE db
    \/ DbMayFail /\ UNCHANGED db

\* select { case killchannel[user] <- true: default: }
SendKill ==
    signal' = IF killCh = None THEN signal ELSE [signal EXCEPT ![killCh] = TRUE]

\* DeleteWhatsmeowClient, DeleteMyClient, DeleteHTTPClient
DeleteRegistrations == wa' = None /\ my' = None /\ http' = None

\* Mutation of Launch: an existing channel is reused.
LaunchKeepsChannel(s) ==
    /\ pc[s] = "unused"
    /\ pc' = [pc EXCEPT ![s] = "launched"]
    /\ killCh' = IF killCh = None THEN s ELSE killCh

\* killchannel[user] = make(chan bool, 1); go s.startClient(...)
Launch(s) ==
    /\ pc[s] = "unused"
    /\ pc' = [pc EXCEPT ![s] = "launched"]
    /\ killCh' = s

\* The discipline of a caller that waits for the previous session to be gone.
Quiescent == \A s \in Sessions : pc[s] \notin Running /\ pend[s] = {}
MayStart(op) ==
    Serial => /\ \A r \in Requests : req[r] = Idle
              /\ op = "connect" => Quiescent

-----------------------------------------------------------------------------
(* HTTP handlers *)

\* connectOnStartup: one session for a row with connected=1; an error of the
\* query, or of the scan of this row or an earlier one, is logged and ends it
ConnectOnStartup ==
    /\ ~up
    /\ up' = TRUE
    /\ \/ db.exists /\ db.connected /\ \E s \in Sessions : Launch(s)
       \/ (db.exists /\ db.connected => DbMayFail) /\ UNCHANGED <<pc, killCh>>
    /\ UNCHANGED <<link, dev, fails, pend, signal, regVars, db, paired, req,
                   stopped, crashes>>

Begin(r, op, c) == req' = [req EXCEPT ![r] = [op |-> op, client |-> c]]

\* Connect, up to its database write: refused when the registered client is
\* connected; nothing is reserved between this check and the launch
ConnectCheck(r) ==
    /\ up /\ db.exists /\ req[r] = Idle /\ MayStart("connect")
    /\ ~IsConnected(wa)
    /\ Begin(r, "connect", None)
    /\ UNCHANGED <<sessVars, signal, killCh, regVars, db, paired, stopped, up, crashes>>

\* Connect, after the write: a new kill channel replaces the entry
ConnectLaunch(r) ==
    /\ req[r].op = "connect"
    /\ \E s \in Sessions : Launch(s)
    /\ req' = [req EXCEPT ![r] = Idle]
    /\ UNCHANGED <<link, dev, fails, pend, signal, regVars, db, paired, stopped,
                   up, crashes>>

\* Disconnect: checks, then UPDATE users SET connected=0
DisconnectCheck(r) ==
    /\ up /\ db.exists /\ req[r] = Idle /\ MayStart("disconnect")
    /\ IsConnected(wa)
    /\ UpdateRow([db EXCEPT !.connected = FALSE])
    /\ Begin(r, "disconnect", wa)
    /\ UNCHANGED <<sessVars, signal, killCh, regVars, paired, stopped, up, crashes>>

\* Mutation of FinishStop: no kill signal.
FinishStopNoKill(r) ==
    /\ req[r].op \in {"disconnect", "logout"}
    /\ wa' = None
    /\ stopped' = stopped \cup {req[r].client}
    /\ req' = [req EXCEPT ![r] = Idle]
    /\ UNCHANGED <<sessVars, signal, killCh, my, http, db, paired, up, crashes>>

\* Disconnect and Logout end alike: drop the client, signal, answer 200
FinishStop(r) ==
    /\ req[r].op \in {"disconnect", "logout"}
    /\ wa' = None
    /\ SendKill
    /\ stopped' = stopped \cup {req[r].client}
    /\ req' = [req EXCEPT ![r] = Idle]
    /\ UNCHANGED <<sessVars, killCh, my, http, db, paired, up, crashes>>

\* Logout: whatsmeow unlinks the device, closes the socket, deletes the store;
\* an error answers 500 and changes nothing
LogoutCall(r) ==
    /\ up /\ db.exists /\ req[r] = Idle /\ MayStart("logout")
    /\ IsLoggedIn(wa)
    /\ link' = [link EXCEPT ![wa] = "off"]
    /\ dev' = [dev EXCEPT ![wa] = FALSE]
    /\ paired' = FALSE
    /\ Begin(r, "logout", wa)
    /\ UNCHANGED <<pc, fails, pend, signal, killCh, regVars, db, stopped, up, crashes>>

\* DeleteUserComplete: log out and disconnect the registered client ...
DeleteUserCall(r) ==
    /\ up /\ db.exists /\ req[r] = Idle /\ MayStart("delete")
    /\ IF wa # None
       THEN /\ link' = [link EXCEPT ![wa] = "off"]
            /\ dev' = IF IsConnected(wa) THEN [dev EXCEPT ![wa] = FALSE] ELSE dev
            /\ paired' = IF IsConnected(wa) THEN FALSE ELSE paired
       ELSE UNCHANGED <<link, dev, paired>>
    /\ Begin(r, "delete", wa)
    /\ UNCHANGED <<pc, fails, pend, signal, killCh, regVars, db, stopped, up, crashes>>

\* ... then DELETE the row and forget the registrations; no kill is sent
DeleteUserFinish(r) ==
    /\ req[r].op = "delete"
    /\ req' = [req EXCEPT ![r] = Idle]
    /\ \/ /\ db' = [db EXCEPT !.exists = FALSE, !.connected = FALSE,
                              !.jid = FALSE, !.qr = FALSE]
          /\ DeleteRegistrations
       \/ DbMayFail /\ UNCHANGED <<db, regVars>>
    /\ UNCHANGED <<sessVars, signal, killCh, paired, stopped, up, crashes>>

-----------------------------------------------------------------------------
(* startClient *)

\* GetDevice (a new device on error or when the store has none), NewClient,
\* SetWhatsmeowClient, SetMyClient.  The jid is the one the launch passed on,
\* from the row or from a cached copy of it, so a row without a jid does not
\* exclude that the stored device is found.
Register(s) ==
    /\ pc[s] = "launched"
    /\ \E found \in BOOLEAN :
          /\ found => paired
          /\ dev' = [dev EXCEPT ![s] = found]
    /\ wa' = s /\ my' = s
    /\ pc' = [pc EXCEPT ![s] = "registered"]
    /\ UNCHANGED <<link, fails, pend, signal, killCh, http, db, paired, req,
                   stopped, up, crashes>>

\* proxy lookup, SetHTTPClient, EnsureClientFromDB
Configure(s) ==
    /\ pc[s] = "registered"
    /\ http' = s
    /\ pc' = [pc EXCEPT ![s] = IF dev[s] THEN "dialing" ELSE "qrDialing"]
    /\ UNCHANGED <<link, dev, fails, pend, signal, killCh, wa, my, db, paired,
                   req, stopped, up, crashes>>

\* GetQRChannel and Connect of a new device; an error returns and leaves the
\* registrations behind
QRDial(s) ==
    /\ pc[s] = "qrDialing"
    /\ \/ /\ link' = [link EXCEPT ![s] = "up"]
          /\ pc' = [pc EXCEPT ![s] = "qr"]
       \/ /\ pc' = [pc EXCEPT ![s] = "done"]
          /\ UNCHANGED link
    /\ UNCHANGED <<dev, fails, pend, signal, killCh, regVars, db, paired, req,
                   stopped, up, crashes>>

\* qrChan "code": store the code
QRCode(s) ==
    /\ pc[s] = "qr" /\ link[s] = "up" /\ ~dev[s]
    /\ UpdateRow([db EXCEPT !.qr = TRUE])
    /\ UNCHANGED <<sessVars, signal, killCh, regVars, paired, req, stopped, up, crashes>>

\* Mutation of QRTimeout: cleans up without the kill signal.
QRTimeoutNoKill(s) ==
    /\ pc[s] = "qr" /\ ~dev[s]
    /\ link' = [link EXCEPT ![s] = "off"]
    /\ UpdateRow([db EXCEPT !.qr = FALSE])
    /\ DeleteRegistrations
    /\ pc' = [pc EXCEPT ![s] = "alive"]
    /\ UNCHANGED <<dev, fails, pend, signal, killCh, paired, req, stopped, up, crashes>>

\* qrChan "timeout" (whatsmeow has closed the socket), then the channel closes
QRTimeout(s) ==
    /\ pc[s] = "qr" /\ ~dev[s]
    /\ link' = [link EXCEPT ![s] = "off"]
    /\ UpdateRow([db EXCEPT !.qr = FALSE])
    /\ DeleteRegistrations
    /\ SendKill
    /\ pc' = [pc EXCEPT ![s] = "alive"]
    /\ UNCHANGED <<dev, fails, pend, killCh, paired, req, stopped, up, crashes>>

\* any other last qrChan event: logged, the channel closes
QRError(s) ==
    /\ pc[s] = "qr" /\ ~dev[s]
    /\ pc' = [pc EXCEPT ![s] = "alive"]
    /\ UNCHANGED <<link, dev, fails, pend, signal, killCh, regVars, db, paired,
                   req, stopped, up, crashes>>

\* qrChan "success"
QRSuccess(s) ==
    /\ pc[s] = "qrSuccess"
    /\ UpdateRow([db EXCEPT !.qr = FALSE, !.connected = TRUE])
    /\ pc' = [pc EXCEPT ![s] = "alive"]
    /\ UNCHANGED <<link, dev, fails, pend, signal, killCh, regVars, paired, req,
                   stopped, up, crashes>>

\* Mutation of Dial: the attempt counter starts again at the limit.
DialForever(s) ==
    /\ pc[s] = "dialing"
    /\ \/ /\ link' = [link EXCEPT ![s] = "up"]
          /\ pc' = [pc EXCEPT ![s] = IF fails[s] > 0 THEN "failed" ELSE "alive"]
          /\ UNCHANGED fails
       \/ /\ fails' = [fails EXCEPT ![s] = (@ + 1) % maxConnectionRetries]
          /\ UNCHANGED <<link, pc>>
    /\ UNCHANGED <<dev, pend, signal, killCh, regVars, db, paired, req, stopped,
                   up, crashes>>

\* one attempt of the retry loop; lastErr survives a later success
Dial(s) ==
    /\ pc[s] = "dialing"
    /\ \/ /\ link' = [link EXCEPT ![s] = "up"]
          /\ pc' = [pc EXCEPT ![s] = IF fails[s] > 0 THEN "failed" ELSE "alive"]
          /\ UNCHANGED fails
       \/ /\ fails' = [fails EXCEPT ![s] = @ + 1]
          /\ pc' = [pc EXCEPT ![s] =
                      IF fails[s] + 1 = maxConnectionRetries THEN "failed" ELSE @]
          /\ UNCHANGED link
    /\ UNCHANGED <<dev, pend, signal, killCh, regVars, db, paired, req, stopped,
                   up, crashes>>

\* Mutation of GiveUp: the registrations stay.
GiveUpKeepsClient(s) ==
    /\ pc[s] = "failed"
    /\ UpdateRow([db EXCEPT !.qr = FALSE, !.connected = FALSE])
    /\ pc' = [pc EXCEPT ![s] = "done"]
    /\ UNCHANGED <<link, dev, fails, pend, signal, killCh, regVars, paired, req,
                   stopped, up, crashes>>

\* the exit after the retries: clean up and return, without a Disconnect
GiveUp(s) ==
    /\ pc[s] = "failed"
    /\ DeleteRegistrations
    /\ UpdateRow([db EXCEPT !.qr = FALSE, !.connected = FALSE])
    /\ pc' = [pc EXCEPT ![s] = "done"]
    /\ UNCHANGED <<link, dev, fails, pend, signal, killCh, paired, req, stopped,
                   up, crashes>>

\* Mutation of ReceiveKill: the client is not disconnected.
ReceiveKillKeepsSocket(s) ==
    /\ pc[s] = "alive"
    /\ killCh # None /\ signal[killCh]
    /\ signal' = [signal EXCEPT ![killCh] = FALSE]
    /\ DeleteRegistrations
    /\ UpdateRow([db EXCEPT !.qr = FALSE, !.connected = FALSE])
    /\ pc' = [pc EXCEPT ![s] = "killed"]
    /\ UNCHANGED <<link, dev, fails, pend, killCh, paired, req, stopped, up, crashes>>

\* case <-killchannel[userID]: whoever polls first takes the signal of the
\* channel that is in the map now
ReceiveKill(s) ==
    /\ pc[s] = "alive"
    /\ killCh # None /\ signal[killCh]
    /\ signal' = [signal EXCEPT ![killCh] = FALSE]
    /\ link' = [link EXCEPT ![s] = "off"]
    /\ DeleteRegistrations
    /\ UpdateRow([db EXCEPT !.qr = FALSE, !.connected = FALSE])
    /\ pc' = [pc EXCEPT ![s] = "killed"]
    /\ UNCHANGED <<dev, fails, pend, killCh, paired, req, stopped, up, crashes>>

\* delete(killchannel, userID); return
DeleteKillChannel(s) ==
    /\ pc[s] = "killed"
    /\ killCh' = None
    /\ pc' = [pc EXCEPT ![s] = "done"]
    /\ UNCHANGED <<link, dev, fails, pend, signal, regVars, db, paired, req,
                   stopped, up, crashes>>

-----------------------------------------------------------------------------
(* whatsmeow (external) and the callbacks of myEventHandler *)

\* the phone scans the code: the device is stored, PairSuccess is dispatched
Pair(s) ==
    /\ pc[s] = "qr" /\ link[s] = "up" /\ ~dev[s]
    /\ dev' = [dev EXCEPT ![s] = TRUE]
    /\ paired' = TRUE
    /\ pend' = [pend EXCEPT ![s] = @ \cup {"PairSuccess"}]
    /\ UNCHANGED <<pc, link, fails, signal, killCh, regVars, db, req, stopped,
                   up, crashes>>

\* the server accepts the device; another socket of it gets "stream replaced"
Authenticate(s) ==
    /\ link[s] \in {"up", "dropped"} /\ dev[s] /\ pend[s] = {}
    /\ link' = [t \in Sessions |->
                  IF t = s THEN "auth" ELSE IF dev[t] THEN "off" ELSE link[t]]
    /\ pend' = [pend EXCEPT ![s] = {"Connected"}]
    /\ UNCHANGED <<pc, dev, fails, signal, killCh, regVars, db, paired, req,
                   stopped, up, crashes>>

\* the network drops; whatsmeow reconnects by itself (Authenticate)
LinkDrop(s) ==
    /\ link[s] = "auth"
    /\ link' = [link EXCEPT ![s] = "dropped"]
    /\ UNCHANGED <<pc, dev, fails, pend, signal, killCh, regVars, db, paired,
                   req, stopped, up, crashes>>

\* the phone unlinks the device
Unlink(s) ==
    /\ link[s] \in {"auth", "up"} /\ dev[s] /\ pend[s] = {}
    /\ link' = [link EXCEPT ![s] = "off"]
    /\ dev' = [dev EXCEPT ![s] = FALSE]
    /\ paired' = FALSE
    /\ pend' = [pend EXCEPT ![s] = {"LoggedOut"}]
    /\ UNCHANGED <<pc, fails, signal, killCh, regVars, db, req, stopped, up, crashes>>

\* events.PairSuccess: save the jid; the QR channel then reports "success"
OnPairSuccess(s) ==
    /\ "PairSuccess" \in pend[s]
    /\ UpdateRow([db EXCEPT !.jid = TRUE])
    /\ pend' = [pend EXCEPT ![s] = @ \ {"PairSuccess"}]
    /\ pc' = [pc EXCEPT ![s] = IF @ = "qr" THEN "qrSuccess" ELSE @]
    /\ UNCHANGED <<link, dev, fails, signal, killCh, regVars, paired, req,
                   stopped, up, crashes>>

\* events.Connected: connected=1, unless the push name is still empty
OnConnected(s) ==
    /\ "Connected" \in pend[s]
    /\ UpdateRow([db EXCEPT !.connected = TRUE]) \/ UNCHANGED db
    /\ pend' = [pend EXCEPT ![s] = @ \ {"Connected"}]
    /\ UNCHANGED <<pc, link, dev, fails, signal, killCh, regVars, paired, req,
                   stopped, up, crashes>>

\* events.LoggedOut: connected=0 ...
OnLoggedOut(s) ==
    /\ "LoggedOut" \in pend[s]
    /\ UpdateRow([db EXCEPT !.connected = FALSE])
    /\ pend' = [pend EXCEPT ![s] = (@ \ {"LoggedOut"}) \cup {"LoggedOutKill"}]
    /\ UNCHANGED <<pc, link, dev, fails, signal, killCh, regVars, paired, req,
                   stopped, up, crashes>>

\* Mutation of OnLoggedOutKill: no kill signal.
OnLoggedOutNoKill(s) ==
    /\ "LoggedOutKill" \in pend[s]
    /\ pend' = [pend EXCEPT ![s] = @ \ {"LoggedOutKill"}]
    /\ UNCHANGED <<pc, link, dev, fails, signal, killCh, regVars, db, paired, req,
                   stopped, up, crashes>>

\* ... and, after the webhook call, the deferred kill on whatever channel the
\* map holds by then
OnLoggedOutKill(s) ==
    /\ "LoggedOutKill" \in pend[s]
    /\ SendKill
    /\ pend' = [pend EXCEPT ![s] = @ \ {"LoggedOutKill"}]
    /\ UNCHANGED <<pc, link, dev, fails, killCh, regVars, db, paired, req,
                   stopped, up, crashes>>

\* the process dies: only the row and the device store survive (within the
\* bounds: a session is left for the next startup)
Crash ==
    /\ up /\ crashes < MaxCrashes
    /\ \E s \in Sessions : pc[s] = "unused"
    /\ crashes' = crashes + 1
    /\ up' = FALSE
    /\ pc' = [s \in Sessions |-> IF pc[s] = "unused" THEN "unused" ELSE "done"]
    /\ link' = [s \in Sessions |-> "off"]
    /\ pend' = [s \in Sessions |-> {}]
    /\ signal' = [s \in Sessions |-> FALSE]
    /\ killCh' = None
    /\ DeleteRegistrations
    /\ req' = [r \in Requests |-> Idle]
    /\ UNCHANGED <<dev, fails, db, paired, stopped>>

-----------------------------------------------------------------------------

Handler(r) ==
    ConnectLaunch(r) \/ FinishStop(r) \/ DeleteUserFinish(r)

API(r) ==
    ConnectCheck(r) \/ DisconnectCheck(r) \/ LogoutCall(r) \/ DeleteUserCall(r)

\* every step of startClient but the wait for a kill signal
StartClient(s) ==
    \/ Register(s) \/ Configure(s) \/ QRDial(s) \/ QRTimeout(s) \/ QRError(s)
    \/ QRSuccess(s) \/ Dial(s) \/ GiveUp(s) \/ DeleteKillChannel(s)

Callback(s) ==
    OnPairSuccess(s) \/ OnConnected(s) \/ OnLoggedOut(s) \/ OnLoggedOutKill(s)

Network(s) == Pair(s) \/ Authenticate(s) \/ LinkDrop(s) \/ Unlink(s)

Next ==
    \/ ConnectOnStartup
    \/ Crash
    \/ \E r \in Requests : API(r) \/ Handler(r)
    \/ \E s \in Sessions :
          \/ StartClient(s) \/ ReceiveKill(s) \/ QRCode(s)
          \/ Callback(s) \/ Network(s)

\* Goroutines that can run do run; whatsmeow's Connect returns and its QR
\* channel ends (codes run out after a few minutes).  Callers, the phone, the
\* network and crashes owe nothing.
Fairness ==
    /\ WF_vars(ConnectOnStartup)
    /\ \A r \in Requests : WF_vars(Handler(r))
    /\ \A s \in Sessions :
          WF_vars(StartClient(s)) /\ WF_vars(ReceiveKill(s)) /\ WF_vars(Callback(s))

Spec == Init /\ [][Next]_vars /\ Fairness

-----------------------------------------------------------------------------
(* Properties *)

\* A registered client whose startClient has returned (QR error exits leave
\* the registration) has no open socket: what the API reports as connected is
\* always driven by a goroutine that can still be killed.
RegisteredIsDriven ==
    \A c \in {wa, my, http} \ {None} : pc[c] = "done" => link[c] = "off"

\* A socket outlives its startClient only through the retry loop of wmiau.go:
\* one or two failed attempts followed by a successful one.
OrphanOnlyByRetry ==
    \A s \in Sessions :
        pc[s] = "done" /\ link[s] # "off" => fails[s] \in 1..(maxConnectionRetries - 1)

\* With callers that wait, every running goroutine polls its own channel and
\* at most one goroutine runs.
KillReachesSession ==
    Serial => \A s \in Sessions : pc[s] \in Running =>
                 killCh = s /\ \A t \in Sessions \ {s} : pc[t] \notin Running

\* With callers that wait, a session stays registered until it is asked to
\* stop: no other goroutine's cleanup takes its registration away.
RegisteredUntilStopped ==
    Serial => \A s \in Sessions :
        pc[s] \in Running \ {"launched", "killed"} =>
            wa = s \/ s \in stopped \/ signal[s] \/ ~db.exists

\* The failure exit of startClient, which reports "Failed to connect to
\* WhatsApp after all retry attempts", is taken only when every attempt failed.
FailureMeansAllAttempts ==
    \A s \in Sessions : pc[s] = "failed" => fails[s] = maxConnectionRetries

\* A session whose Disconnect or Logout was answered with success loses its
\* socket (the retry leak above aside).
StopTakesEffect ==
    \A s \in Sessions :
        s \in stopped ~> link[s] = "off" \/ fails[s] \in 1..(maxConnectionRetries - 1)

\* A device unlinked from the phone ends the session goroutine.
LoggedOutEndsSession ==
    \A s \in Sessions : "LoggedOut" \in pend[s] ~> pc[s] = "done"

\* startClient always reaches its keep-alive loop or returns.
StartDecides ==
    \A s \in Sessions : pc[s] = "launched" ~> pc[s] \in {"alive", "killed", "done"}

=============================================================================
