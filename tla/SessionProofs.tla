---------------------------- MODULE SessionProofs ----------------------------
(***************************************************************************)
(* Theorems about Session, for any sets of sessions and requests.          *)
(***************************************************************************)
EXTENDS Session, TLAPS

\* startClient opens the socket only when it dials, and has closed it when it
\* has taken a kill signal.
ClosedLinks ==
    \A s \in Sessions : pc[s] \in Launching \cup {"unused", "killed"} => link[s] = "off"

\* The retry loop leaves after the last attempt.
RetryBound ==
    \A s \in Sessions : pc[s] \in {"unused", "launched", "registered", "dialing"} =>
        fails[s] < maxConnectionRetries

\* The failure exit with an open socket follows a failed and a good attempt.
FailedLinks ==
    \A s \in Sessions :
        pc[s] = "failed" /\ link[s] # "off" => fails[s] \in 1..(maxConnectionRetries - 1)

\* The inductive invariant behind RegisteredIsDriven and OrphanOnlyByRetry.
LinkInv ==
    /\ TypeOK
    /\ ClosedLinks
    /\ RetryBound
    /\ FailedLinks
    /\ RegisteredIsDriven
    /\ OrphanOnlyByRetry

\* With callers that wait: requests do not overlap, a Connect in flight and a
\* process that is starting have no running session, and a running session is
\* alone and owns the killchannel entry.
SerialInv ==
    Serial =>
      /\ \A r1, r2 \in Requests : r1 # r2 => req[r1] = Idle \/ req[r2] = Idle
      /\ \A r \in Requests : req[r].op = "connect" =>
            \A s \in Sessions : pc[s] \notin Running
      /\ ~up => /\ \A r \in Requests : req[r] = Idle
                /\ \A s \in Sessions : pc[s] \notin Running
      /\ \A s \in Sessions : pc[s] \in Running =>
            killCh = s /\ \A t \in Sessions \ {s} : pc[t] \notin Running

-----------------------------------------------------------------------------

USE DEF maxConnectionRetries

LEMMA InitType == Init => TypeOK
  <1> SUFFICES ASSUME Init PROVE TypeOK
    OBVIOUS
  <1> USE SessionAssumption DEF Init, PCs, Running, Launching, Links, EventSet,
          ReqStates, OptSession, Idle
  <1>1. db \in [exists : BOOLEAN, connected : BOOLEAN, jid : BOOLEAN, qr : BOOLEAN]
        /\ paired \in BOOLEAN
    <2> PICK conn \in BOOLEAN, j \in BOOLEAN :
             /\ db = [exists |-> TRUE, connected |-> conn, jid |-> j, qr |-> FALSE]
             /\ paired = j
      BY Zenon
    <2> QED OBVIOUS
  <1>2. pc \in [Sessions -> PCs] /\ link \in [Sessions -> Links]
    OBVIOUS
  <1>3. req \in [Requests -> ReqStates] /\ pend \in [Sessions -> SUBSET EventSet]
    OBVIOUS
  <1>4. crashes \in 0..MaxCrashes
    BY DEF SessionAssumption
  <1>5. /\ fails \in [Sessions -> 0..maxConnectionRetries]
        /\ dev \in [Sessions -> BOOLEAN] /\ signal \in [Sessions -> BOOLEAN]
    OBVIOUS
  <1>6. /\ {killCh, wa, my, http} \subseteq OptSession
        /\ stopped \in SUBSET Sessions /\ up \in BOOLEAN
    OBVIOUS
  <1> HIDE DEF Init
  <1> QED BY <1>1, <1>2, <1>3, <1>4, <1>5, <1>6 DEF TypeOK

LEMMA InitLinkInv == Init => LinkInv
  <1> SUFFICES ASSUME Init PROVE LinkInv
    OBVIOUS
  <1>1. \A s \in Sessions : pc[s] = "unused" /\ link[s] = "off" /\ fails[s] = 0
    BY DEF Init
  <1>2. {wa, my, http} = {None}
    BY DEF Init
  <1> QED BY <1>1, <1>2, InitType DEF LinkInv, ClosedLinks, RetryBound,
             FailedLinks, RegisteredIsDriven, OrphanOnlyByRetry

\* The types, one handler or step at a time.
LEMMA TypeStep == TypeOK /\ RetryBound /\ [Next]_vars => TypeOK'
  <1> SUFFICES ASSUME TypeOK, RetryBound, [Next]_vars PROVE TypeOK'
    OBVIOUS
  <1> USE SessionAssumption DEF SessionAssumption, TypeOK, PCs, Running, Launching, Links, EventSet,
          ReqStates, OptSession, sessVars, regVars
  <1>1. CASE ConnectOnStartup
    BY <1>1 DEF ConnectOnStartup, Launch
  <1>2. CASE Crash
    <2>1. pc' \in [Sessions -> PCs] /\ link' \in [Sessions -> Links]
      BY <1>2 DEF Crash
    <2>2. /\ pend' \in [Sessions -> SUBSET EventSet]
          /\ signal' \in [Sessions -> BOOLEAN]
      BY <1>2 DEF Crash
    <2>3. req' \in [Requests -> ReqStates]
      BY <1>2 DEF Crash, Idle
    <2>4. crashes' \in 0..MaxCrashes /\ up' = FALSE
      <3>1. crashes < MaxCrashes /\ crashes' = crashes + 1 /\ up' = FALSE
        BY <1>2 DEF Crash
      <3>2. crashes \in 0..MaxCrashes /\ MaxCrashes \in Nat
        OBVIOUS
      <3> QED BY <3>1, <3>2
    <2> QED BY <1>2, <2>1, <2>2, <2>3, <2>4 DEF Crash, DeleteRegistrations
  <1>3. ASSUME NEW r \in Requests, API(r) PROVE TypeOK'
    <2>1. CASE ConnectCheck(r)
      BY <2>1 DEF ConnectCheck, Begin
    <2>2. CASE DisconnectCheck(r)
      BY <2>2 DEF DisconnectCheck, Begin, UpdateRow, IsConnected
    <2>3. CASE LogoutCall(r)
      BY <2>3 DEF LogoutCall, Begin, IsLoggedIn
    <2>4. CASE DeleteUserCall(r)
      BY <2>4 DEF DeleteUserCall, Begin, IsConnected
    <2> QED BY <1>3, <2>1, <2>2, <2>3, <2>4 DEF API
  <1>4. ASSUME NEW r \in Requests, Handler(r) PROVE TypeOK'
    <2>1. CASE ConnectLaunch(r)
      BY <2>1 DEF ConnectLaunch, Launch, Idle
    <2>2. CASE FinishStop(r)
      BY <2>2 DEF FinishStop, SendKill, Idle
    <2>3. CASE DeleteUserFinish(r)
      BY <2>3 DEF DeleteUserFinish, DeleteRegistrations, Idle
    <2> QED BY <1>4, <2>1, <2>2, <2>3 DEF Handler
  <1>5. ASSUME NEW s \in Sessions, StartClient(s) PROVE TypeOK'
    <2>1. CASE Register(s)  BY <2>1 DEF Register
    <2>2. CASE Configure(s) BY <2>2 DEF Configure
    <2>3. CASE QRDial(s)    BY <2>3 DEF QRDial
    <2>4. CASE QRTimeout(s)
      BY <2>4 DEF QRTimeout, UpdateRow, DeleteRegistrations, SendKill
    <2>5. CASE QRError(s)   BY <2>5 DEF QRError
    <2>6. CASE QRSuccess(s) BY <2>6 DEF QRSuccess, UpdateRow
    <2>7. CASE Dial(s)      BY <2>7 DEF Dial, RetryBound
    <2>8. CASE GiveUp(s)    BY <2>8 DEF GiveUp, UpdateRow, DeleteRegistrations
    <2>9. CASE DeleteKillChannel(s) BY <2>9 DEF DeleteKillChannel
    <2> QED BY <1>5, <2>1, <2>2, <2>3, <2>4, <2>5, <2>6, <2>7, <2>8, <2>9 DEF StartClient
  <1>6. ASSUME NEW s \in Sessions, ReceiveKill(s) PROVE TypeOK'
    BY <1>6 DEF ReceiveKill, UpdateRow, DeleteRegistrations
  <1>7. ASSUME NEW s \in Sessions, QRCode(s) PROVE TypeOK'
    BY <1>7 DEF QRCode, UpdateRow
  <1>8. ASSUME NEW s \in Sessions, Callback(s) PROVE TypeOK'
    <2>1. CASE OnPairSuccess(s) BY <2>1 DEF OnPairSuccess, UpdateRow
    <2>2. CASE OnConnected(s)   BY <2>2 DEF OnConnected, UpdateRow
    <2>3. CASE OnLoggedOut(s)   BY <2>3 DEF OnLoggedOut, UpdateRow
    <2>4. CASE OnLoggedOutKill(s) BY <2>4 DEF OnLoggedOutKill, SendKill
    <2> QED BY <1>8, <2>1, <2>2, <2>3, <2>4 DEF Callback
  <1>9. ASSUME NEW s \in Sessions, Network(s) PROVE TypeOK'
    <2>1. CASE Pair(s)         BY <2>1 DEF Pair
    <2>2. CASE Authenticate(s) BY <2>2 DEF Authenticate
    <2>3. CASE LinkDrop(s)     BY <2>3 DEF LinkDrop
    <2>4. CASE Unlink(s)       BY <2>4 DEF Unlink
    <2> QED BY <1>9, <2>1, <2>2, <2>3, <2>4 DEF Network
  <1>10. CASE UNCHANGED vars
    BY <1>10 DEF vars
  <1> QED
    BY <1>1, <1>2, <1>3, <1>4, <1>5, <1>6, <1>7, <1>8, <1>9, <1>10 DEF Next

-----------------------------------------------------------------------------
(* Sockets, goroutines and registrations *)

LEMMA StepLinkInv == LinkInv /\ [Next]_vars => LinkInv'
  <1> SUFFICES ASSUME LinkInv, [Next]_vars PROVE LinkInv'
    OBVIOUS
  <1>t. TypeOK /\ TypeOK'
    BY TypeStep DEF LinkInv
  <1> DEFINE Parts == ClosedLinks /\ RetryBound /\ FailedLinks
                      /\ RegisteredIsDriven /\ OrphanOnlyByRetry
  <1>p. SUFFICES Parts'
    BY <1>t DEF LinkInv
  <1>i. Parts
    BY DEF LinkInv
  <1> USE SessionAssumption DEF SessionAssumption, ClosedLinks, RetryBound,
          FailedLinks, RegisteredIsDriven, OrphanOnlyByRetry, Launching,
          sessVars, regVars
  <1>1. CASE ConnectOnStartup
    BY <1>1, <1>t, <1>i DEF ConnectOnStartup, Launch, TypeOK, OptSession
  <1>2. CASE Crash
    BY <1>2, <1>t, <1>i DEF Crash, DeleteRegistrations, TypeOK
  <1>3. ASSUME NEW r \in Requests, API(r) PROVE Parts'
    <2>1. CASE ConnectCheck(r)
      BY <2>1, <1>t, <1>i DEF ConnectCheck
    <2>2. CASE DisconnectCheck(r)
      BY <2>2, <1>t, <1>i DEF DisconnectCheck
    <2>3. CASE LogoutCall(r)
      BY <2>3, <1>t, <1>i DEF LogoutCall, TypeOK, OptSession
    <2>4. CASE DeleteUserCall(r)
      <3>1. UNCHANGED <<pc, fails, wa, my, http>>
        BY <2>4 DEF DeleteUserCall
      <3>2. \A t \in Sessions : link'[t] = link[t] \/ link'[t] = "off"
        BY <2>4, <1>t DEF DeleteUserCall, TypeOK, OptSession
      <3> QED BY <3>1, <3>2, <1>t, <1>i DEF TypeOK, OptSession
    <2> QED BY <1>3, <2>1, <2>2, <2>3, <2>4 DEF API
  <1>4. ASSUME NEW r \in Requests, Handler(r) PROVE Parts'
    <2>1. CASE ConnectLaunch(r)
      BY <2>1, <1>t, <1>i DEF ConnectLaunch, Launch, TypeOK, OptSession
    <2>2. CASE FinishStop(r)
      BY <2>2, <1>t, <1>i DEF FinishStop
    <2>3. CASE DeleteUserFinish(r)
      BY <2>3, <1>t, <1>i DEF DeleteUserFinish, DeleteRegistrations
    <2> QED BY <1>4, <2>1, <2>2, <2>3 DEF Handler
  <1>5. ASSUME NEW s \in Sessions, StartClient(s) PROVE Parts'
    <2> USE DEF TypeOK, OptSession
    <2>1. CASE Register(s)  BY <2>1, <1>t, <1>i DEF Register
    <2>2. CASE Configure(s) BY <2>2, <1>t, <1>i DEF Configure
    <2>3. CASE QRDial(s)    BY <2>3, <1>t, <1>i DEF QRDial
    <2>4. CASE QRTimeout(s)
      BY <2>4, <1>t, <1>i DEF QRTimeout, DeleteRegistrations
    <2>5. CASE QRError(s)   BY <2>5, <1>t, <1>i DEF QRError
    <2>6. CASE QRSuccess(s) BY <2>6, <1>t, <1>i DEF QRSuccess
    <2>7. CASE Dial(s)      BY <2>7, <1>t, <1>i DEF Dial
    <2>8. CASE GiveUp(s)    BY <2>8, <1>t, <1>i DEF GiveUp, DeleteRegistrations
    <2>9. CASE DeleteKillChannel(s)
      BY <2>9, <1>t, <1>i DEF DeleteKillChannel
    <2> QED BY <1>5, <2>1, <2>2, <2>3, <2>4, <2>5, <2>6, <2>7, <2>8, <2>9 DEF StartClient
  <1>6. ASSUME NEW s \in Sessions, ReceiveKill(s) PROVE Parts'
    BY <1>6, <1>t, <1>i DEF ReceiveKill, DeleteRegistrations, TypeOK
  <1>7. ASSUME NEW s \in Sessions, QRCode(s) PROVE Parts'
    BY <1>7, <1>t, <1>i DEF QRCode
  <1>8. ASSUME NEW s \in Sessions, Callback(s) PROVE Parts'
    <2>1. CASE OnPairSuccess(s)
      BY <2>1, <1>t, <1>i DEF OnPairSuccess, TypeOK, OptSession
    <2>2. CASE OnConnected(s)     BY <2>2, <1>t, <1>i DEF OnConnected
    <2>3. CASE OnLoggedOut(s)     BY <2>3, <1>t, <1>i DEF OnLoggedOut
    <2>4. CASE OnLoggedOutKill(s) BY <2>4, <1>t, <1>i DEF OnLoggedOutKill
    <2> QED BY <1>8, <2>1, <2>2, <2>3, <2>4 DEF Callback
  <1>9. ASSUME NEW s \in Sessions, Network(s) PROVE Parts'
    <2> USE DEF TypeOK, OptSession
    <2>1. CASE Pair(s)         BY <2>1, <1>t, <1>i DEF Pair
    <2>2. CASE Authenticate(s) BY <2>2, <1>t, <1>i DEF Authenticate
    <2>3. CASE LinkDrop(s)     BY <2>3, <1>t, <1>i DEF LinkDrop
    <2>4. CASE Unlink(s)       BY <2>4, <1>t, <1>i DEF Unlink
    <2> QED BY <1>9, <2>1, <2>2, <2>3, <2>4 DEF Network
  <1>10. CASE UNCHANGED vars
    BY <1>10, <1>t, <1>i DEF vars
  <1> QED
    BY <1>1, <1>2, <1>3, <1>4, <1>5, <1>6, <1>7, <1>8, <1>9, <1>10 DEF Next

\* Type correctness of every variable, in particular that the retry counter
\* of startClient stays within its bound.
THEOREM TypeCorrect == Spec => []TypeOK
  <1>1. LinkInv => TypeOK
    BY DEF LinkInv
  <1> QED BY <1>1, InitLinkInv, StepLinkInv, PTL DEF Spec

\* Whatever interleaves, a client that the ClientManager still holds after its
\* startClient returned has no open socket.
THEOREM DrivenTheorem == Spec => []RegisteredIsDriven
  <1>1. LinkInv => RegisteredIsDriven
    BY DEF LinkInv
  <1> QED BY <1>1, InitLinkInv, StepLinkInv, PTL DEF Spec

\* Whatever interleaves, only the retry loop's exit leaves a socket behind.
THEOREM OrphanTheorem == Spec => []OrphanOnlyByRetry
  <1>1. LinkInv => OrphanOnlyByRetry
    BY DEF LinkInv
  <1> QED BY <1>1, InitLinkInv, StepLinkInv, PTL DEF Spec

-----------------------------------------------------------------------------
(* One session at a time for callers that wait *)

LEMMA InitSerialInv == Init => SerialInv
  BY DEF Init, SerialInv, Running, Launching, Idle

LEMMA StepSerialInv == TypeOK /\ SerialInv /\ [Next]_vars => SerialInv'
  <1> SUFFICES ASSUME TypeOK, SerialInv, [Next]_vars, Serial PROVE SerialInv'
    BY DEF SerialInv
  <1> USE SessionAssumption DEF SessionAssumption, SerialInv, TypeOK, Running,
          Launching, sessVars, regVars, Idle
  <1>1. CASE ConnectOnStartup
    BY <1>1 DEF ConnectOnStartup, Launch
  <1>2. CASE Crash
    BY <1>2 DEF Crash
  <1>3. ASSUME NEW r \in Requests, API(r) PROVE SerialInv'
    <2>1. CASE ConnectCheck(r)
      BY <2>1 DEF ConnectCheck, Begin, MayStart, Quiescent
    <2>2. CASE DisconnectCheck(r)
      BY <2>2 DEF DisconnectCheck, Begin, MayStart
    <2>3. CASE LogoutCall(r)
      BY <2>3 DEF LogoutCall, Begin, MayStart
    <2>4. CASE DeleteUserCall(r)
      BY <2>4 DEF DeleteUserCall, Begin, MayStart
    <2> QED BY <1>3, <2>1, <2>2, <2>3, <2>4 DEF API
  <1>4. ASSUME NEW r \in Requests, Handler(r) PROVE SerialInv'
    <2>1. CASE ConnectLaunch(r)
      BY <2>1 DEF ConnectLaunch, Launch
    <2>2. CASE FinishStop(r)
      BY <2>2 DEF FinishStop
    <2>3. CASE DeleteUserFinish(r)
      BY <2>3 DEF DeleteUserFinish
    <2> QED BY <1>4, <2>1, <2>2, <2>3 DEF Handler
  <1>5. ASSUME NEW s \in Sessions, StartClient(s) PROVE SerialInv'
    <2>1. CASE Register(s)  BY <2>1 DEF Register
    <2>2. CASE Configure(s) BY <2>2 DEF Configure
    <2>3. CASE QRDial(s)    BY <2>3 DEF QRDial
    <2>4. CASE QRTimeout(s) BY <2>4 DEF QRTimeout
    <2>5. CASE QRError(s)   BY <2>5 DEF QRError
    <2>6. CASE QRSuccess(s) BY <2>6 DEF QRSuccess
    <2>7. CASE Dial(s)      BY <2>7 DEF Dial
    <2>8. CASE GiveUp(s)    BY <2>8 DEF GiveUp
    <2>9. CASE DeleteKillChannel(s) BY <2>9 DEF DeleteKillChannel
    <2> QED BY <1>5, <2>1, <2>2, <2>3, <2>4, <2>5, <2>6, <2>7, <2>8, <2>9 DEF StartClient
  <1>6. ASSUME NEW s \in Sessions, ReceiveKill(s) PROVE SerialInv'
    BY <1>6 DEF ReceiveKill
  <1>7. ASSUME NEW s \in Sessions, QRCode(s) PROVE SerialInv'
    BY <1>7 DEF QRCode
  <1>8. ASSUME NEW s \in Sessions, Callback(s) PROVE SerialInv'
    BY <1>8 DEF Callback, OnPairSuccess, OnConnected, OnLoggedOut, OnLoggedOutKill
  <1>9. ASSUME NEW s \in Sessions, Network(s) PROVE SerialInv'
    BY <1>9 DEF Network, Pair, Authenticate, LinkDrop, Unlink
  <1>10. CASE UNCHANGED vars
    BY <1>10 DEF vars
  <1> QED
    BY <1>1, <1>2, <1>3, <1>4, <1>5, <1>6, <1>7, <1>8, <1>9, <1>10 DEF Next

\* For callers that wait for the previous session to be gone, the kill channel
\* in the map is always the one of the only running startClient.
THEOREM KillReachesTheorem == Spec => []KillReachesSession
  <1>1. SerialInv => KillReachesSession
    BY DEF SerialInv, KillReachesSession
  <1> QED BY <1>1, InitSerialInv, StepSerialInv, TypeCorrect, PTL DEF Spec

-----------------------------------------------------------------------------
(* Registrations for callers that wait *)

\* A Disconnect or Logout in flight has found the session that is running.
StopsTheRunning ==
    Serial => \A r \in Requests : req[r].op \in {"disconnect", "logout"} =>
        \A s \in Sessions : pc[s] \in Running => s = req[r].client

\* What the two parts rest on: an open socket that is registered is driven, and
\* the driver is alone.
RegisteredInv == LinkInv /\ SerialInv /\ StopsTheRunning /\ RegisteredUntilStopped

\* A client that IsConnected reports is the client of the running session.
LEMMA ConnectedIsRunning ==
  ASSUME LinkInv, SerialInv, Serial, IsConnected(wa)
  PROVE  wa \in Sessions /\ \A s \in Sessions : pc[s] \in Running => s = wa
  <1>1. wa \in Sessions /\ link[wa] \in {"up", "auth"}
    BY DEF IsConnected, LinkInv, TypeOK, OptSession
  <1>2. pc[wa] \in PCs /\ pc[wa] \notin {"unused", "done"}
    BY <1>1 DEF LinkInv, TypeOK, ClosedLinks, RegisteredIsDriven, IsConnected
  <1>3. pc[wa] \in Running
    BY <1>2 DEF PCs
  <1> QED
    BY <1>1, <1>3 DEF SerialInv

LEMMA StepRegistered == RegisteredInv /\ [Next]_vars => RegisteredInv'
  <1> SUFFICES ASSUME RegisteredInv, [Next]_vars PROVE RegisteredInv'
    OBVIOUS
  <1>l. LinkInv /\ LinkInv' /\ SerialInv /\ SerialInv' /\ TypeOK
    BY StepLinkInv, StepSerialInv DEF RegisteredInv, LinkInv
  <1> DEFINE Parts == StopsTheRunning /\ RegisteredUntilStopped
  <1>p. SUFFICES ASSUME Serial PROVE Parts'
    BY <1>l DEF RegisteredInv, StopsTheRunning, RegisteredUntilStopped
  <1>i. Parts
    BY DEF RegisteredInv
  <1> USE SessionAssumption DEF StopsTheRunning, RegisteredUntilStopped, SerialInv, TypeOK,
          OptSession, Running, Launching, sessVars, regVars, Idle
  <1>1. CASE ConnectOnStartup
    BY <1>1, <1>l, <1>i DEF ConnectOnStartup, Launch
  <1>2. CASE Crash
    BY <1>2, <1>l DEF Crash
  <1>3. ASSUME NEW r \in Requests, API(r) PROVE Parts'
    <2>1. CASE ConnectCheck(r)
      BY <2>1, <1>l, <1>i DEF ConnectCheck, Begin
    <2>2. CASE DisconnectCheck(r)
      <3>1. \A s \in Sessions : pc[s] \in Running => s = wa
        BY <2>2, <1>l, <1>p, ConnectedIsRunning DEF DisconnectCheck
      <3>2. db'.exists = db.exists
        BY <2>2, <1>l DEF DisconnectCheck, UpdateRow
      <3> QED
        BY <2>2, <3>1, <3>2, <1>l, <1>i DEF DisconnectCheck, Begin
    <2>3. CASE LogoutCall(r)
      <3>1. IsConnected(wa)
        BY <2>3 DEF LogoutCall, IsLoggedIn, IsConnected
      <3>2. \A s \in Sessions : pc[s] \in Running => s = wa
        BY <3>1, <1>l, <1>p, ConnectedIsRunning
      <3> QED
        BY <2>3, <3>2, <1>l, <1>i DEF LogoutCall, Begin
    <2>4. CASE DeleteUserCall(r)
      BY <2>4, <1>l, <1>i DEF DeleteUserCall, Begin
    <2> QED BY <1>3, <2>1, <2>2, <2>3, <2>4 DEF API
  <1>4. ASSUME NEW r \in Requests, Handler(r) PROVE Parts'
    <2>1. CASE ConnectLaunch(r)
      BY <2>1, <1>l, <1>i DEF ConnectLaunch, Launch
    <2>2. CASE FinishStop(r)
      BY <2>2, <1>l, <1>i, <1>p DEF FinishStop
    <2>3. CASE DeleteUserFinish(r)
      BY <2>3, <1>l, <1>i DEF DeleteUserFinish, DeleteRegistrations
    <2> QED BY <1>4, <2>1, <2>2, <2>3 DEF Handler
  <1>5. ASSUME NEW s \in Sessions, StartClient(s) PROVE Parts'
    <2>1. CASE Register(s)  BY <2>1, <1>l, <1>i, <1>p DEF Register
    <2>2. CASE Configure(s) BY <2>2, <1>l, <1>i DEF Configure
    <2>3. CASE QRDial(s)    BY <2>3, <1>l, <1>i DEF QRDial
    <2>4. CASE QRTimeout(s)
      BY <2>4, <1>l, <1>i, <1>p DEF QRTimeout, SendKill
    <2>5. CASE QRError(s)   BY <2>5, <1>l, <1>i DEF QRError
    <2>6. CASE QRSuccess(s) BY <2>6, <1>l, <1>i DEF QRSuccess, UpdateRow
    <2>7. CASE Dial(s)      BY <2>7, <1>l, <1>i DEF Dial
    <2>8. CASE GiveUp(s)    BY <2>8, <1>l, <1>i, <1>p DEF GiveUp
    <2>9. CASE DeleteKillChannel(s) BY <2>9, <1>l, <1>i DEF DeleteKillChannel
    <2> QED BY <1>5, <2>1, <2>2, <2>3, <2>4, <2>5, <2>6, <2>7, <2>8, <2>9 DEF StartClient
  <1>6. ASSUME NEW s \in Sessions, ReceiveKill(s) PROVE Parts'
    BY <1>6, <1>l, <1>i, <1>p DEF ReceiveKill
  <1>7. ASSUME NEW s \in Sessions, QRCode(s) PROVE Parts'
    BY <1>7, <1>l, <1>i DEF QRCode, UpdateRow
  <1>8. ASSUME NEW s \in Sessions, Callback(s) PROVE Parts'
    <2>1. CASE OnPairSuccess(s)   BY <2>1, <1>l, <1>i DEF OnPairSuccess, UpdateRow
    <2>2. CASE OnConnected(s)     BY <2>2, <1>l, <1>i DEF OnConnected, UpdateRow
    <2>3. CASE OnLoggedOut(s)     BY <2>3, <1>l, <1>i DEF OnLoggedOut, UpdateRow
    <2>4. CASE OnLoggedOutKill(s) BY <2>4, <1>l, <1>i DEF OnLoggedOutKill, SendKill
    <2> QED BY <1>8, <2>1, <2>2, <2>3, <2>4 DEF Callback
  <1>9. ASSUME NEW s \in Sessions, Network(s) PROVE Parts'
    BY <1>9, <1>l, <1>i DEF Network, Pair, Authenticate, LinkDrop, Unlink
  <1>10. CASE UNCHANGED vars
    BY <1>10, <1>i DEF vars
  <1> QED
    BY <1>1, <1>2, <1>3, <1>4, <1>5, <1>6, <1>7, <1>8, <1>9, <1>10 DEF Next

\* For callers that wait, a session keeps its registration until a Disconnect,
\* a Logout, a kill signal or the deletion of its user.
THEOREM RegisteredTheorem == Spec => []RegisteredUntilStopped
  <1>1. Init => RegisteredInv
    <2>1. Init => StopsTheRunning /\ RegisteredUntilStopped
      BY DEF Init, StopsTheRunning, RegisteredUntilStopped, Running, Launching, Idle
    <2> QED
      BY <2>1, InitLinkInv, InitSerialInv DEF RegisteredInv
  <1>2. RegisteredInv => RegisteredUntilStopped
    BY DEF RegisteredInv
  <1> QED BY <1>1, <1>2, StepRegistered, PTL DEF Spec

=============================================================================
