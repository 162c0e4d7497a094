--------------------------- MODULE WebhookDelivery ---------------------------
(***************************************************************************)
(* Delivery of a session's events to the webhooks: sendEventWithWebHook    *)
(* starts one callHookWithHmac goroutine per destination, which fetches    *)
(* the user's HTTP client once and posts with retries, while startClient   *)
(* may be removing that client.  Events are subscribed ones.               *)
(***************************************************************************)
EXTENDS Naturals

CONSTANTS Events,        \* events the session emits (bound)
          Hooks,         \* destinations configured, among "user" and "global"
          RetryEnabled,  \* -webhookretry
          RetryCount,    \* -retrycount
          Endings        \* ways the session may end: "kill", "qrTimeout", "giveUp"

ASSUME WebhookAssumption ==
    /\ RetryEnabled \in BOOLEAN
    /\ RetryCount \in Nat

VARIABLES
    http,     \* clientManager.GetHTTPClient(user) is not nil
    ses,      \* where startClient is
    call,     \* call[c]: state of the goroutine for event c[1] and hook c[2]
    att,      \* att[c]: requests posted
    got,      \* got[c]: times the receiver processed the event
    lost,     \* lost[c]: of these, the ones not answered with a 2xx in time
    crashed   \* a goroutine panicked: the process is gone

deliveryVars == <<http, ses, call, att, got, lost, crashed>>

Calls == Events \X Hooks

maxRetries == IF RetryEnabled THEN RetryCount ELSE 1

DeliveryTypeOK ==
    /\ http \in BOOLEAN
    /\ ses \in {"live", "timeout", "gaveUp", "ended"}
    /\ call \in [Calls -> {"none", "spawned", "trying", "ok", "failed", "dropped"}]
    /\ att \in [Calls -> 0..maxRetries]
    /\ got \in [Calls -> Nat]
    /\ lost \in [Calls -> Nat]
    /\ crashed \in BOOLEAN

DeliveryInit ==
    /\ http = TRUE
    /\ ses = "live"
    /\ call = [c \in Calls |-> "none"]
    /\ att = [c \in Calls |-> 0]
    /\ got = [c \in Calls |-> 0]
    /\ lost = [c \in Calls |-> 0]
    /\ crashed = FALSE

-----------------------------------------------------------------------------
(* The session *)

Fresh(e) == \A h \in Hooks : call[<<e, h>>] = "none"

\* sendEventWithWebHook: "go" for each destination
SendEvent(e) ==
    /\ Fresh(e)
    /\ call' = [c \in Calls |-> IF c[1] = e THEN "spawned" ELSE call[c]]

\* myEventHandler or the QR loop reports an event
Emit(e) ==
    /\ ~crashed /\ ses = "live"
    /\ SendEvent(e)
    /\ UNCHANGED <<http, ses, att, got, lost, crashed>>

\* the QR code timed out: the event first ...
TimeoutEvent(e) ==
    /\ ~crashed /\ ses = "live" /\ "qrTimeout" \in Endings
    /\ SendEvent(e)
    /\ ses' = "timeout"
    /\ UNCHANGED <<http, att, got, lost, crashed>>

\* ... then the cleanup
TimeoutCleanup ==
    /\ ~crashed /\ ses = "timeout"
    /\ http' = FALSE
    /\ ses' = "ended"
    /\ UNCHANGED <<call, att, got, lost, crashed>>

\* the connection attempts failed: the cleanup first ...
GiveUpCleanup ==
    /\ ~crashed /\ ses = "live" /\ "giveUp" \in Endings
    /\ http' = FALSE
    /\ ses' = "gaveUp"
    /\ UNCHANGED <<call, att, got, lost, crashed>>

\* ... then the ConnectFailure event
GiveUpEvent(e) ==
    /\ ~crashed /\ ses = "gaveUp"
    /\ SendEvent(e)
    /\ ses' = "ended"
    /\ UNCHANGED <<http, att, got, lost, crashed>>

\* the kill signal of Disconnect, Logout or LoggedOut
Kill ==
    /\ ~crashed /\ ses = "live" /\ "kill" \in Endings
    /\ http' = FALSE
    /\ ses' = "ended"
    /\ UNCHANGED <<call, att, got, lost, crashed>>

-----------------------------------------------------------------------------
(* callHookWithHmac *)

\* GetHTTPClient; the first use of a nil client panics; with no attempt to
\* make the loop is skipped and nothing is logged
Start(c) ==
    /\ ~crashed /\ call[c] = "spawned"
    /\ IF maxRetries = 0
       THEN call' = [call EXCEPT ![c] = "dropped"] /\ UNCHANGED crashed
       ELSE IF http
       THEN call' = [call EXCEPT ![c] = "trying"] /\ UNCHANGED crashed
       ELSE crashed' = TRUE /\ UNCHANGED call
    /\ UNCHANGED <<http, ses, att, got, lost>>

\* Mutation of RetryOrFail: one attempt fewer.
RetryOrFailEarly(c) ==
    call' = [call EXCEPT ![c] = IF att[c] + 2 < maxRetries THEN "trying" ELSE "failed"]

RetryOrFail(c) ==
    call' = [call EXCEPT ![c] = IF att[c] + 1 < maxRetries THEN "trying" ELSE "failed"]

\* Mutation of Accepted: no return after a 2xx answer.
AcceptedContinues(c) ==
    /\ got' = [got EXCEPT ![c] = @ + 1]
    /\ RetryOrFail(c)
    /\ UNCHANGED lost

\* a 2xx answer
Accepted(c) ==
    /\ got' = [got EXCEPT ![c] = @ + 1]
    /\ call' = [call EXCEPT ![c] = "ok"]
    /\ UNCHANGED lost

\* processed, but no 2xx comes back: the answer is lost, comes after the
\* client's timeout, or is an error status of a receiver that did the work
NotConfirmed(c) ==
    /\ got' = [got EXCEPT ![c] = @ + 1]
    /\ lost' = [lost EXCEPT ![c] = @ + 1]
    /\ RetryOrFail(c)

\* unreachable, or an error status of a receiver that did nothing
Refused(c) ==
    /\ RetryOrFail(c)
    /\ UNCHANGED <<got, lost>>

\* Mutation of Post: a refused request is queued again and not counted.
PostRequeues(c) ==
    /\ ~crashed /\ call[c] = "trying"
    /\ \/ Accepted(c) /\ att' = [att EXCEPT ![c] = @ + 1]
       \/ NotConfirmed(c) /\ att' = [att EXCEPT ![c] = @ + 1]
       \/ call' = [call EXCEPT ![c] = "spawned"] /\ UNCHANGED <<att, got, lost>>
    /\ UNCHANGED <<http, ses, crashed>>

\* one turn of the retry loop; without -webhookretry there is only one
Post(c) ==
    /\ ~crashed /\ call[c] = "trying"
    /\ att' = [att EXCEPT ![c] = @ + 1]
    /\ Accepted(c) \/ NotConfirmed(c) \/ Refused(c)
    /\ UNCHANGED <<http, ses, crashed>>

DeliveryNext ==
    \/ \E e \in Events : Emit(e) \/ TimeoutEvent(e) \/ GiveUpEvent(e)
    \/ TimeoutCleanup \/ GiveUpCleanup \/ Kill
    \/ \E c \in Calls : Start(c) \/ Post(c)

\* Goroutines that can run do run; a post ends (30 s client timeout).
Fairness ==
    /\ WF_deliveryVars(TimeoutCleanup)
    /\ WF_deliveryVars(\E e \in Events : GiveUpEvent(e))
    /\ \A c \in Calls : WF_deliveryVars(Start(c)) /\ WF_deliveryVars(Post(c))

DeliverySpec == DeliveryInit /\ [][DeliveryNext]_deliveryVars /\ Fairness

-----------------------------------------------------------------------------
(* Properties *)

\* callHookWithHmac's last word is true: success means that the receiver
\* processed the event, "permanently failed" that every attempt was made and
\* none was answered with a 2xx.
OutcomeTruthful ==
    \A c \in Calls :
        /\ call[c] = "ok" => got[c] > 0
        /\ call[c] = "failed" => att[c] = maxRetries /\ got[c] = lost[c]

\* The receiver processes an event twice only if it did not confirm the first
\* time with a 2xx that arrived: the retry loop stops at the first one.
DuplicateOnlyAfterLoss ==
    \A c \in Calls : got[c] <= lost[c] + 1

\* Every delivery goroutine ends: accepted, given up or dropped, whatever the
\* receiver does, unless a panic ends the process first.
CallsEnd ==
    \A c \in Calls :
        call[c] = "spawned" ~> call[c] \in {"ok", "failed", "dropped"} \/ crashed

=============================================================================
