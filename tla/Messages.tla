------------------------------ MODULE Messages ------------------------------
(***************************************************************************)
(* One user's messages in one chat: the send handlers of the HTTP API, the *)
(* Message and HistorySync events, and what they share - the registered    *)
(* client, the remembered poll options, message_history and whatsmeow's    *)
(* message secrets.  The text and the media of a message are left out.     *)
(***************************************************************************)
EXTENDS Naturals, Sequences, FiniteSets

CONSTANTS Ids,        \* message ids
          None,       \* no message
          Ops,        \* the send handlers in use, a set of Handlers
          Requests,   \* HTTP requests (bound: each sends once)
          Events,     \* the goroutine that handles whatsmeow's events
          Limits,     \* values of the history setting; 0 disables it
          Sessions,   \* bound on sessions
          Arrivals    \* bound on events and history syncs

ASSUME MessagesAssumption ==
    /\ Limits \subseteq Nat /\ Limits # {} /\ IsFiniteSet(Limits) /\ None \notin Ids
    /\ Sessions \in Nat /\ Arrivals \in Nat
    /\ Events \notin Requests
    /\ IsFiniteSet(Ids) /\ IsFiniteSet(Requests)

VARIABLES
    client,    \* the registered client's session number, 0 when there is none
    limit,     \* users.history as cached in userinfo
    polls,     \* ids whose poll options are remembered (clientManager.pollOptions)
    rows,      \* message_history in timestamp order, oldest first
    secrets,   \* ids in whatsmeow_message_secrets
    act,       \* act[p]: what request or event handler p is doing
    sync,      \* ids the HistorySync goroutines have still to save
    arrived,   \* events and syncs so far
    seen,      \* history variable: what happened to ids, and rows no trim accounts for
    vote       \* history variable: the last poll vote whose options were looked up

vars == <<client, limit, polls, rows, secrets, act, sync, arrived, seen, vote>>

Procs    == Requests \cup {Events}
MaxLimit == CHOOSE l \in Limits : \A k \in Limits : k <= l
Saved    == {rows[i] : i \in 1..Len(rows)}

-----------------------------------------------------------------------------
(* The handlers that call WhatsApp, by what they do between "no session"    *)
(* and the answer: whether the call changes something or only reads, how a  *)
(* call that fails is answered (an error, or a text that Respond wraps with *)
(* success true), whether a file is uploaded first, whether the client is   *)
(* looked up once and kept or looked up at each use, whether a message goes *)
(* to the history and whether its poll options are remembered.              *)

Change == [does |-> "change", fails |-> "error", upload |-> "no", keeps |-> FALSE,
           history |-> FALSE, options |-> FALSE]
Read   == [Change EXCEPT !.does = "read"]
Sends  == [Change EXCEPT !.history = TRUE]
File   == [Sends EXCEPT !.upload = "must"]
Group  == [Change EXCEPT !.fails = "text"]     \* most group handlers
Lookup == [Read EXCEPT !.fails = "text"]

\* messages
SendDocument    == File
SendAudio       == [File EXCEPT !.keeps = TRUE]
SendImage       == File
SendSticker     == File
SendVideo       == File
SendContact     == Sends
SendLocation    == Sends
SendButtons     == [Sends EXCEPT !.upload = "may", !.keeps = TRUE]
SendList        == Sends
SendMessage     == Sends
SendPoll        == [Change EXCEPT !.options = TRUE]
DeleteMessage   == Change
SendEditMessage == Change
React           == Change

\* the account and its contacts
SetStatusMessage    == Change
CheckUser           == Read
GetUser             == Lookup
SendPresence        == Change
GetAvatar           == Read
GetContacts         == Read
updateUserBlocklist == [Change EXCEPT !.keeps = TRUE]
RejectCall          == Change
GetUserLID          == Read

\* chats
ChatPresence              == Change
MarkRead                  == Change
RequestUnavailableMessage == [Change EXCEPT !.keeps = TRUE]
ArchiveChat               == [Change EXCEPT !.keeps = TRUE]
DownloadImage             == Read
DownloadDocument          == Read
DownloadVideo             == Read
DownloadAudio             == Read
DownloadSticker           == Read

\* groups and newsletters
ListGroups              == Lookup
GetGroupInfo            == Lookup
GetGroupInviteLink      == Group     \* reset replaces the link
GroupJoin               == Group
CreateGroup             == Group
SetGroupLocked          == Group
SetDisappearingTimer    == Group
RemoveGroupPhoto        == Group
UpdateGroupParticipants == Group
GetGroupInviteInfo      == Lookup
SetGroupPhoto           == Group
SetGroupName            == Group
SetGroupTopic           == Group
GroupLeave              == Group
SetGroupAnnounce        == Group
ListNewsletter          == Lookup

Handlers ==
    {SendDocument, SendAudio, SendImage, SendSticker, SendVideo, SendContact, SendLocation,
     SendButtons, SendList, SendMessage, SendPoll, DeleteMessage, SendEditMessage, React}
    \cup {SetStatusMessage, CheckUser, GetUser, SendPresence, GetAvatar, GetContacts,
          updateUserBlocklist, RejectCall, GetUserLID}
    \cup {ChatPresence, MarkRead, RequestUnavailableMessage, ArchiveChat, DownloadImage,
          DownloadDocument, DownloadVideo, DownloadAudio, DownloadSticker}
    \cup {ListGroups, GetGroupInfo, GetGroupInviteLink, GroupJoin, CreateGroup,
          SetGroupLocked, SetDisappearingTimer, RemoveGroupPhoto, UpdateGroupParticipants,
          GetGroupInviteInfo, SetGroupPhoto, SetGroupName, SetGroupTopic, GroupLeave,
          SetGroupAnnounce, ListNewsletter}

ASSUME OpsAssumption == Ops \subseteq Handlers

Nobody == [st |-> "idle", op |-> React, id |-> None, limit |-> 0,
           held |-> 0, sent |-> 0, answer |-> "none"]

TypeOK ==
    /\ client \in 0..Sessions
    /\ limit \in Limits
    /\ polls \subseteq Ids /\ secrets \subseteq Ids /\ sync \subseteq Ids
    /\ rows \in Seq(Ids) /\ Len(rows) = Cardinality(Saved)     \* UNIQUE(user_id, message_id)
    /\ act \in [Procs -> [st : {"idle", "upload", "send", "options", "save",
                                "trimSecrets", "trimRows", "vote", "done"},
                          op : Handlers, id : Ids \cup {None}, limit : Limits \cup {0}, held : 0..Sessions,
                          sent : 0..Sessions, answer : {"none", "ok", "error", "text"}]]
    /\ arrived \in 0..Arrivals
    /\ seen \in [sessions : 0..Sessions, slack : Nat, lost : SUBSET Ids, secret : SUBSET Ids]
    /\ vote \in [due : BOOLEAN, options : BOOLEAN]

Init ==
    /\ client = 0 /\ limit \in Limits
    /\ polls = {} /\ rows = <<>> /\ secrets = {} /\ sync = {}
    /\ act = [p \in Procs |-> Nobody]
    /\ arrived = 0
    /\ seen = [sessions |-> 0, slack |-> 0, lost |-> {}, secret |-> {}]
    /\ vote = [due |-> FALSE, options |-> FALSE]

-----------------------------------------------------------------------------
(* The session *)

\* startClient registers a client
StartClient ==
    /\ client = 0 /\ seen.sessions < Sessions
    /\ client' = seen.sessions + 1
    /\ seen' = [seen EXCEPT !.sessions = @ + 1]
    /\ UNCHANGED <<limit, polls, rows, secrets, act, sync, arrived, vote>>

\* the kill signal: the client goes, and with it the user's poll options
DeleteMyClient ==
    /\ client # 0
    /\ client' = 0 /\ polls' = {}
    /\ UNCHANGED <<limit, rows, secrets, act, sync, arrived, seen, vote>>

\* SetHistory
SetHistory(l) ==
    /\ client # 0 /\ l # limit
    /\ limit' = l
    /\ UNCHANGED <<client, polls, rows, secrets, act, sync, arrived, seen, vote>>

-----------------------------------------------------------------------------
(* Requests *)

Go(p, st)      == act' = [act EXCEPT ![p].st = st]
Answer(p, how) == act' = [act EXCEPT ![p].st = "done", ![p].answer = how]

\* what the failure of a client call is answered; without a client the call
\* either returns an error too or panics, which Recover answers as an error
Failed(p) == {act[p].op.fails} \cup (IF client = 0 THEN {"error"} ELSE {})

\* a client call that can succeed: the client this handler would call is there
Reaches(p) == client # 0 /\ (act[p].op.keeps => client = act[p].held)

\* "no session", a payload that does not validate, or on to the first call
Begin(r) ==
    /\ act[r].st = "idle"
    /\ \/ Answer(r, "error")
       \/ /\ client # 0
          /\ \E op \in Ops, id \in Ids \cup {None} :
                /\ (id = None) = ~(op.history \/ op.options)
                /\ act' = [act EXCEPT ![r] =
                          [@ EXCEPT !.st = IF op.upload = "no" THEN "send" ELSE "upload",
                                    !.op = op, !.id = id,
                                    !.held = IF op.keeps THEN client ELSE 0]]
    /\ UNCHANGED <<client, limit, polls, rows, secrets, sync, arrived, seen, vote>>

\* fetch and Upload; only SendButtons goes on without its file
Upload(r) ==
    /\ act[r].st = "upload"
    /\ \/ Reaches(r) /\ Go(r, "send")
       \/ act[r].op.upload = "may" /\ Go(r, "send")
       \/ act[r].op.upload = "must" /\ Answer(r, "error")
    /\ UNCHANGED <<client, limit, polls, rows, secrets, sync, arrived, seen, vote>>

\* what follows an acknowledged SendMessage; only now is the history setting read
AfterSend(a) ==
    IF a.op.options THEN [a EXCEPT !.st = "options"]
    ELSE IF a.op.history /\ limit > 0 THEN [a EXCEPT !.st = "save", !.limit = limit]
    ELSE [a EXCEPT !.st = "done", !.answer = "ok"]

\* client.SendMessage, or the handler's other call: acknowledged (whatsmeow
\* keeps the secret of a poll), read with nothing to show for it (GetAvatar,
\* GetUserLID), or an error
Send(r) ==
    /\ act[r].st = "send"
    /\ \/ /\ Reaches(r)
          /\ act' = [act EXCEPT ![r] = AfterSend([@ EXCEPT !.sent = client])]
          /\ IF act[r].op.options
             THEN /\ secrets' = secrets \cup {act[r].id}
                  /\ seen' = [seen EXCEPT !.secret = @ \cup {act[r].id}]
             ELSE UNCHANGED <<secrets, seen>>
       \/ /\ Reaches(r) /\ act[r].op.does = "read"
          /\ act' = [act EXCEPT ![r] = [@ EXCEPT !.st = "done", !.sent = client,
                                                 !.answer = "error"]]
          /\ UNCHANGED <<secrets, seen>>
       \/ /\ \E how \in Failed(r) : Answer(r, how)
          /\ UNCHANGED <<secrets, seen>>
    /\ UNCHANGED <<client, limit, polls, rows, sync, arrived, vote>>

\* Mutation of SetPollOptions: the user's map is made anew for each poll.
SetPollOptionsResets(r) ==
    /\ act[r].st = "options"
    /\ polls' = {act[r].id}
    /\ Answer(r, "ok")
    /\ UNCHANGED <<client, limit, rows, secrets, sync, arrived, seen, vote>>

SetPollOptions(r) ==
    /\ act[r].st = "options"
    /\ polls' = polls \cup {act[r].id}
    /\ Answer(r, "ok")
    /\ UNCHANGED <<client, limit, rows, secrets, sync, arrived, seen, vote>>

-----------------------------------------------------------------------------
(* message_history: the end of a send handler and of a Message event *)

\* a request answers 200, the event handler waits for the next event
Finish(p) == IF p = Events THEN act' = [act EXCEPT ![p] = Nobody] ELSE Answer(p, "ok")

Insert(id) == rows' = Append(rows, id)

\* Mutation of saveMessageToHistory: its error becomes the request's answer.
SaveErrorAnswered(p) ==
    /\ act[p].st = "save"
    /\ \/ /\ act[p].id \notin Saved
          /\ Insert(act[p].id) /\ Go(p, "trimSecrets")
       \/ Answer(p, "error") /\ UNCHANGED rows
    /\ UNCHANGED <<client, limit, polls, secrets, sync, arrived, seen, vote>>

\* Mutation of saveMessageToHistory: the table has no UNIQUE key.
SaveWithoutKey(p) ==
    /\ act[p].st = "save"
    /\ Insert(act[p].id) /\ Go(p, "trimSecrets")
    /\ UNCHANGED <<client, limit, polls, secrets, sync, arrived, seen, vote>>

\* Mutation of saveMessageToHistory: nothing is trimmed.
SaveWithoutTrim(p) ==
    /\ act[p].st = "save"
    /\ \/ /\ act[p].id \notin Saved
          /\ Insert(act[p].id) /\ Finish(p)
       \/ Finish(p) /\ UNCHANGED rows
    /\ UNCHANGED <<client, limit, polls, secrets, sync, arrived, seen, vote>>

\* INSERT with the time now; an error (the id is there, or another) is logged
\* and the trim skipped
saveMessageToHistory(p) ==
    /\ act[p].st = "save"
    /\ \/ /\ act[p].id \notin Saved
          /\ Insert(act[p].id) /\ Go(p, "trimSecrets")
       \/ Finish(p) /\ UNCHANGED rows
    /\ UNCHANGED <<client, limit, polls, secrets, sync, arrived, seen, vote>>

\* the ids that ORDER BY timestamp DESC OFFSET n leaves
Excess(n) == {rows[i] : i \in {j \in 1..Len(rows) : j + n <= Len(rows)}}

\* a statement of the trim fails: logged, and the rows stay for the next trim
TrimFails(p) == Finish(p) /\ UNCHANGED <<rows, secrets>>

\* Mutation of TrimSecrets: the offset is one short.
TrimSecretsOneMore(p) ==
    /\ act[p].st = "trimSecrets"
    /\ \/ /\ secrets' = secrets \ Excess(act[p].limit - 1)
          /\ Go(p, "trimRows")
          /\ UNCHANGED <<rows, seen>>
       \/ /\ TrimFails(p)
          /\ seen' = [seen EXCEPT !.slack = @ + 1]
    /\ UNCHANGED <<client, limit, polls, sync, arrived, vote>>

\* trimMessageHistory, its two statements: the secrets, without which the rows
\* are not tried ...
TrimSecrets(p) ==
    /\ act[p].st = "trimSecrets"
    /\ \/ /\ secrets' = secrets \ Excess(act[p].limit)
          /\ Go(p, "trimRows")
          /\ UNCHANGED <<rows, seen>>
       \/ /\ TrimFails(p)
          /\ seen' = [seen EXCEPT !.slack = @ + 1]
    /\ UNCHANGED <<client, limit, polls, sync, arrived, vote>>

\* ... then the rows
TrimRows(p) ==
    /\ act[p].st = "trimRows"
    /\ LET n == act[p].limit IN
          \/ /\ rows' = IF Len(rows) > n THEN SubSeq(rows, Len(rows) - n + 1, Len(rows)) ELSE rows
             /\ seen' = [seen EXCEPT !.slack = 0, !.lost = @ \cup Excess(n)]
             /\ Finish(p)
             /\ UNCHANGED secrets
          \/ /\ TrimFails(p)
             /\ seen' = [seen EXCEPT !.slack = @ + 1, !.lost = @ \cup Excess(n)]
    /\ UNCHANGED <<client, limit, polls, sync, arrived, vote>>

\* Another user's trim of a chat they share: the secrets are deleted by message
\* id alone.
ForeignTrim(id) ==
    /\ id \in secrets
    /\ secrets' = secrets \ {id}
    /\ seen' = [seen EXCEPT !.lost = @ \cup {id}]
    /\ UNCHANGED <<client, limit, polls, rows, act, sync, arrived, vote>>

-----------------------------------------------------------------------------
(* Events *)

\* A message arrives, with or without a secret (whatsmeow stores it before the
\* event).  It is saved if it has content, history is on and userinfo is cached.
Message ==
    /\ client # 0 /\ act[Events].st = "idle" /\ arrived < Arrivals
    /\ arrived' = arrived + 1
    /\ \E id \in Ids, withSecret \in BOOLEAN :
          /\ secrets' = secrets \cup (IF withSecret THEN {id} ELSE {})
          /\ seen' = [seen EXCEPT !.secret = @ \cup (IF withSecret THEN {id} ELSE {})]
          /\ \/ /\ limit > 0
                /\ act' = [act EXCEPT ![Events] = [@ EXCEPT !.st = "save", !.id = id,
                                                            !.limit = limit]]
             \/ UNCHANGED act
    /\ UNCHANGED <<client, limit, polls, rows, sync, vote>>

\* A vote on a poll sent from here is decrypted with the poll's secret; without
\* it, or on another error, the handler goes on without the vote ...
DecryptPollVote ==
    /\ client # 0 /\ act[Events].st = "idle" /\ arrived < Arrivals
    /\ arrived' = arrived + 1
    /\ \E r \in Requests :
          /\ act[r].op.options /\ act[r].sent # 0
          /\ \/ /\ act[r].id \in secrets
                /\ act' = [act EXCEPT ![Events] = [@ EXCEPT !.st = "vote", !.id = act[r].id]]
             \/ UNCHANGED act
    /\ UNCHANGED <<client, limit, polls, rows, secrets, sync, seen, vote>>

\* ... and its hashes are matched with the remembered options.  The names are
\* due if the poll was answered 200 and the session that sent it still lasts.
GetPollOptions ==
    /\ act[Events].st = "vote"
    /\ LET id == act[Events].id IN
          vote' = [due |-> \E r \in Requests : /\ act[r].op.options /\ act[r].id = id
                                              /\ act[r].answer = "ok"
                                              /\ client # 0 /\ act[r].sent = client,
                   options |-> id \in polls]
    /\ act' = [act EXCEPT ![Events] = Nobody]
    /\ UNCHANGED <<client, limit, polls, rows, secrets, sync, arrived, seen>>

\* A HistorySync event hands its messages to a goroutine ...
HistorySync ==
    /\ client # 0 /\ act[Events].st = "idle" /\ arrived < Arrivals
    /\ arrived' = arrived + 1
    /\ \E id \in Ids : sync' = sync \cup {id}
    /\ UNCHANGED <<client, limit, polls, rows, secrets, act, seen, vote>>

\* ... that saves each one whatever the history setting, and does not trim
SyncSave(id) ==
    /\ id \in sync
    /\ sync' = sync \ {id}
    /\ \/ /\ id \notin Saved
          /\ Insert(id)
          /\ seen' = [seen EXCEPT !.slack = @ + 1]
       \/ UNCHANGED <<rows, seen>>     \* the id is there, or another error, logged
    /\ UNCHANGED <<client, limit, polls, secrets, act, arrived, vote>>

Next ==
    \/ StartClient \/ DeleteMyClient
    \/ \E l \in Limits : SetHistory(l)
    \/ \E r \in Requests : Begin(r) \/ Upload(r) \/ Send(r) \/ SetPollOptions(r)
    \/ \E p \in Procs : saveMessageToHistory(p) \/ TrimSecrets(p) \/ TrimRows(p)
    \/ Message \/ DecryptPollVote \/ GetPollOptions \/ HistorySync
    \/ \E id \in Ids : SyncSave(id) \/ ForeignTrim(id)

Spec == Init /\ [][Next]_vars

-----------------------------------------------------------------------------
(* Properties *)

\* However the two statements of several trims interleave, a row of the history
\* keeps the secret its message came with until a trim has gone for that row (also
\* when its second statement then failed) or another user's trim took the secret,
\* except while the trim that took it is about to take the row.
RowKeepsSecret ==
    \A id \in (Saved \cap seen.secret) \ (secrets \cup seen.lost) :
        \E p \in Procs : act[p].st = "trimRows" /\ id \in Excess(act[p].limit)

\* The history never exceeds the largest setting by more than the handlers about
\* to trim, the trims that failed and the synced messages since a trim last
\* worked: what a failure leaves behind goes with the next trim that works.
HistoryBounded ==
    Len(rows) <= MaxLimit + seen.slack
                 + Cardinality({p \in Procs : act[p].st \in {"trimSecrets", "trimRows"}})

\* Whatever happens to the session between a handler's lookups of its client, an
\* answer other than 200 to a handler that changes something means that no client
\* acknowledged the change: what comes after the call never turns it into a failure.
FailureMeansUnsent ==
    \A r \in Requests :
        act[r].answer \in {"error", "text"} /\ act[r].op.does = "change" => act[r].sent = 0

\* A vote whose secret is found, on a poll that was answered 200 in the session that
\* still lasts when the options are looked up, is resolved to their names.
VoteResolved == vote.due => vote.options

=============================================================================
