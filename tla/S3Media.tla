------------------------------- MODULE S3Media -------------------------------
(***************************************************************************)
(* One user's media delivery: the S3 columns of the users row, the client  *)
(* that S3Manager keeps for the user, the requests, logins and restarts    *)
(* that change it, and the Message events that download a media file,      *)
(* store it and put it in the webhook payload.  A configuration            *)
(* (credentials, bucket, public URL) is one value; files and keys are left *)
(* out.  The settings that a message reads are the copy in userinfocache,  *)
(* which may be older than the row in any of the ways that UserConfig and  *)
(* Users model: a message here reads any settings.                         *)
(***************************************************************************)
EXTENDS Naturals

CONSTANTS Confs,       \* S3 configurations (at least: the bucket)
          Msgs,        \* media messages (bound)
          Requests,    \* configuration requests in flight together
          None         \* no S3 / no entry

ASSUME S3Assumption == None \notin Confs

VARIABLES
    exists,   \* the user has a row
    row,      \* its S3 configuration, None when s3_enabled is false
    client,   \* S3Manager.clients[user] and .configs[user]
    boots,    \* configurations that startups and logins are about to initialise with
    req,      \* req[r]: the request being served
    msg       \* msg[m]: the Message event being handled

vars == <<exists, row, client, boots, req, msg>>

OptConf  == Confs \cup {None}
\* the forms that s3_enabled and media_delivery ("", base64, s3, both) ask for
Forms    == {"s3", "base64"}
MsgSteps == {"new", "ensure", "init", "download", "upload", "reinit", "get", "put", "link",
             "encode", "send", "done", "panicked"}
MsgType  == [st : MsgSteps,
             want : SUBSET Forms,
             conf : OptConf,     \* the configuration in use by the current call
             stored : OptConf,   \* where the file was put
             s3 : OptConf,       \* postmap["s3"]: what its URL and bucket name
             b64 : BOOLEAN,      \* postmap["base64"]
             errs : SUBSET {"download", "upload", "encode"},  \* history: logged errors
             robbed : BOOLEAN]   \* history: the client was removed during the upload
NoMsg == [st |-> "new", want |-> {}, conf |-> None, stored |-> None, s3 |-> None,
          b64 |-> FALSE, errs |-> {}, robbed |-> FALSE]
NoReq == [st |-> "idle", conf |-> None]

TypeOK ==
    /\ exists \in BOOLEAN /\ row \in OptConf /\ client \in OptConf /\ boots \subseteq Confs
    /\ req \in [Requests -> [st : {"idle", "client"}, conf : OptConf]]
    /\ msg \in [Msgs -> MsgType]

\* a user created through POST /admin/users, with or without s3Config
Init ==
    /\ exists = TRUE /\ row \in OptConf
    /\ client = None /\ boots = {}
    /\ req = [r \in Requests |-> NoReq]
    /\ msg = [m \in Msgs |-> NoMsg]

-----------------------------------------------------------------------------
(* Requests: the row first, then the client.  A statement that fails ends the *)
(* request before the client is touched.                                      *)

Uploading(m) == msg[m].st \in {"put", "link"}

\* InitializeS3Client, or RemoveClient when the configuration is disabled
SetClient(c) ==
    /\ client' = c
    /\ msg' = IF c # None THEN msg
              ELSE [m \in Msgs |-> [msg[m] EXCEPT !.robbed = @ \/ Uploading(m)]]

ClientNext(r, c) == req' = [req EXCEPT ![r] = [st |-> "client", conf |-> c]]

\* ConfigureS3: UPDATE ... WHERE id, which a removed user's cached token reaches too
ConfigureS3(r) ==
    /\ req[r].st = "idle"
    /\ \E c \in OptConf :
          /\ row' = IF exists THEN c ELSE row
          /\ ClientNext(r, c)
    /\ UNCHANGED <<exists, client, boots, msg>>

\* DeleteS3Config
DeleteS3Config(r) ==
    /\ req[r].st = "idle"
    /\ row' = None
    /\ ClientNext(r, None)
    /\ UNCHANGED <<exists, client, boots, msg>>

\* TestS3Connection: reads the row and initialises the client with it
TestS3Connection(r) ==
    /\ req[r].st = "idle" /\ row # None
    /\ ClientNext(r, row)
    /\ UNCHANGED <<exists, row, client, boots, msg>>

\* users.Service.Update with an s3Config; its hook is the second step
AdminUpdate(r) ==
    /\ req[r].st = "idle" /\ exists
    /\ \E c \in OptConf :
          /\ row' = c
          /\ ClientNext(r, c)
    /\ UNCHANGED <<exists, client, boots, msg>>

ApplyClient(r) ==
    /\ req[r].st = "client"
    /\ SetClient(req[r].conf)
    /\ req' = [req EXCEPT ![r] = NoReq]
    /\ UNCHANGED <<exists, row, boots>>

\* Service.Delete and DeleteUserComplete: the row goes, the S3 client stays
DeleteUser ==
    /\ exists
    /\ exists' = FALSE /\ row' = None
    /\ UNCHANGED <<client, boots, req, msg>>

-----------------------------------------------------------------------------
(* Startups and logins *)

\* EnsureClientFromDB, of connectOnStartup and of startClient: without a client
\* the configuration is read ...
LoginEnsure ==
    /\ client = None /\ row # None
    /\ boots' = boots \cup {row}
    /\ UNCHANGED <<exists, row, client, req, msg>>

\* ... and the client is initialised with it
LoginInit ==
    /\ \E c \in boots : SetClient(c) /\ boots' = boots \ {c}
    /\ UNCHANGED <<exists, row, req>>

\* the process restarts: clients, requests and messages under way are lost
Restart ==
    /\ client' = None /\ boots' = {}
    /\ req' = [r \in Requests |-> NoReq]
    /\ msg' = [m \in Msgs |-> IF msg[m].st \in {"new", "done", "panicked"} THEN msg[m]
                              ELSE [NoMsg EXCEPT !.st = "done"]]
    /\ UNCHANGED <<exists, row>>

-----------------------------------------------------------------------------
(* Message events *)

Step(m, st) == msg' = [msg EXCEPT ![m].st = st]
Use(m, st, c) == msg' = [msg EXCEPT ![m].st = st, ![m].conf = c]
Fail(m, st, e) == msg' = [msg EXCEPT ![m].st = st, ![m].errs = @ \cup {e}]
others == <<exists, row, client, boots, req>>

\* the settings, from the cached copy; on a miss base64 (the query compares the
\* BOOLEAN column s3_enabled with 1, which PostgreSQL refuses)
ReadSettings(m) ==
    /\ msg[m].st = "new"
    /\ \E want \in SUBSET Forms :
          msg' = [msg EXCEPT ![m].want = want,
                             ![m].st = IF "s3" \in want THEN "ensure" ELSE "download"]
    /\ UNCHANGED others

\* EnsureClientFromDB: a client is there, S3 is disabled or the query fails, or ...
EnsureClient(m) ==
    /\ msg[m].st = "ensure"
    /\ \/ Step(m, "download")
       \/ client = None /\ row # None /\ Use(m, "init", row)
    /\ UNCHANGED others

\* ... InitializeS3Client with the configuration that was read
InitClient(m) ==
    /\ msg[m].st \in {"init", "reinit"}
    /\ client' = msg[m].conf
    /\ Step(m, IF msg[m].st = "init" THEN "download" ELSE "get")
    /\ UNCHANGED <<exists, row, boots, req>>

\* Download and the temporary file; a failure leaves the payload without media
Download(m) ==
    /\ msg[m].st = "download"
    /\ \/ Step(m, IF "s3" \in msg[m].want THEN "upload" ELSE "encode")
       \/ Fail(m, "send", "download")
    /\ UNCHANGED others

\* Mutation of UploadError: processMedia returns.
UploadErrorReturns(m) == Fail(m, "send", "upload")

\* UploadToS3 and ProcessMediaForS3 return an error; processMedia goes on
UploadError(m) == Fail(m, "encode", "upload")

\* UploadToS3: GetClient; without a client EnsureClientFromDB, which may fail, ...
Upload(m) ==
    /\ msg[m].st = "upload"
    /\ \/ client # None /\ Use(m, "put", client)
       \/ client = None /\ row # None /\ Use(m, "reinit", row)
       \/ client = None /\ UploadError(m)
    /\ UNCHANGED others

\* ... and GetClient again
GetClient(m) ==
    /\ msg[m].st = "get"
    /\ IF client # None THEN Use(m, "put", client) ELSE UploadError(m)
    /\ UNCHANGED others

\* Mutation of Put: the error of PutObject is not looked at.
PutErrorIgnored(m) ==
    /\ msg[m].st = "put"
    /\ \/ msg' = [msg EXCEPT ![m].st = "link", ![m].stored = msg[m].conf]
       \/ Step(m, "link")
    /\ UNCHANGED others

\* PutObject with the client that was found, whatever became of it since
Put(m) ==
    /\ msg[m].st = "put"
    /\ \/ msg' = [msg EXCEPT ![m].st = "link", ![m].stored = msg[m].conf]
       \/ UploadError(m)
    /\ UNCHANGED others

\* Mutation of Link: no link without a client.
LinkSkipped(m) ==
    /\ msg[m].st = "link"
    /\ msg' = [msg EXCEPT ![m].st = "encode", ![m].s3 = client]
    /\ UNCHANGED others

\* GetPublicURL and m.configs[userID].Bucket read the manager again; a nil
\* configuration panics (whatsmeow recovers the handler; the event is lost)
Link(m) ==
    /\ msg[m].st = "link"
    /\ IF client = None THEN Step(m, "panicked")
       ELSE msg' = [msg EXCEPT ![m].st = "encode", ![m].s3 = client]
    /\ UNCHANGED others

\* fileToBase64, for "base64" and "both"; an error leaves the file out
Encode(m) ==
    /\ msg[m].st = "encode"
    /\ IF "base64" \notin msg[m].want THEN Step(m, "send")
       ELSE \/ msg' = [msg EXCEPT ![m].st = "send", ![m].b64 = TRUE]
            \/ Fail(m, "send", "encode")
    /\ UNCHANGED others

\* sendEventWithWebHook
Send(m) ==
    /\ msg[m].st = "send"
    /\ Step(m, "done")
    /\ UNCHANGED others

Handle(m) ==
    \/ ReadSettings(m) \/ EnsureClient(m) \/ InitClient(m) \/ Download(m) \/ Upload(m)
    \/ GetClient(m) \/ Put(m) \/ Link(m) \/ Encode(m) \/ Send(m)

Serve(r) ==
    \/ ConfigureS3(r) \/ DeleteS3Config(r) \/ TestS3Connection(r) \/ AdminUpdate(r)
    \/ ApplyClient(r)

Next ==
    \/ \E r \in Requests : Serve(r)
    \/ \E m \in Msgs : Handle(m)
    \/ DeleteUser \/ LoginEnsure \/ LoginInit \/ Restart

Spec == Init /\ [][Next]_vars

-----------------------------------------------------------------------------
(* Properties *)

\* However requests, logins and restarts interleave, a payload with an S3 link
\* stands for a file that was stored, and a file goes to S3 only under settings
\* that say so.
LinkOnlyIfStored ==
    \A m \in Msgs :
        /\ msg[m].s3 # None => msg[m].stored # None
        /\ msg[m].stored # None => "s3" \in msg[m].want

\* No upload is left without a trace: a file that was stored is named in the
\* payload that goes out, also when the client was removed or replaced meanwhile.
StoredIsLinked ==
    \A m \in Msgs :
        msg[m].st \in {"send", "done"} /\ msg[m].stored # None => msg[m].s3 # None

\* API.md: "If S3 upload fails, the webhook is still sent (without S3 data if
\* media_delivery is 's3' only)".  An upload that fails, for want of a client or
\* in PutObject, never costs the event, puts no S3 data and leaves the base64
\* form in; an event is lost only to a removal of the client during its upload.
WebhookStillSent ==
    \A m \in Msgs :
        /\ msg[m].st = "panicked" => msg[m].robbed
        /\ "upload" \in msg[m].errs => msg[m].st # "panicked" /\ msg[m].s3 = None
        /\ msg[m].st \in {"send", "done"} /\ msg[m].errs \subseteq {"upload"} =>
              ("base64" \in msg[m].want => msg[m].b64)

=============================================================================
