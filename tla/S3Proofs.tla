------------------------------ MODULE S3Proofs ------------------------------
(* Proofs about S3Media for every number of configurations, messages and requests. *)
EXTENDS S3Media, TLAPS

\* What is true of a message x while the manager's client is c: before the
\* upload is over it has stored and linked nothing and met no error; the steps
\* of an upload are taken under settings that ask for S3; and while the file is
\* put and linked, the client is there or was removed meanwhile.
Good(x, c) ==
    /\ x.st \in {"new", "ensure", "init", "download", "upload", "reinit", "get", "put"} =>
          x.s3 = None /\ x.stored = None /\ x.errs = {}
    /\ x.st \in {"ensure", "init", "upload", "reinit", "get", "put", "link"} => "s3" \in x.want
    /\ x.st \in {"init", "reinit", "put"} => x.conf # None
    /\ x.st \in {"put", "link"} => c # None \/ x.robbed
    /\ x.st = "link" => x.stored # None /\ x.s3 = None /\ x.errs = {}
    /\ x.st = "encode" => /\ x.errs \subseteq {"upload"}
                          /\ x.stored # None => x.s3 # None
    /\ x.s3 # None => x.stored # None
    /\ x.stored # None => "s3" \in x.want
    /\ x.st \in {"send", "done"} /\ x.stored # None => x.s3 # None
    /\ x.st = "panicked" => x.robbed
    /\ "upload" \in x.errs => x.st # "panicked" /\ x.s3 = None
    /\ x.st \in {"send", "done"} /\ x.errs \subseteq {"upload"} => ("base64" \in x.want => x.b64)

S3Inv == TypeOK /\ \A m \in Msgs : Good(msg[m], client)

\* The initial states satisfy the invariant.
LEMMA InitS3 == Init => S3Inv
  <1> SUFFICES ASSUME Init PROVE S3Inv
    OBVIOUS
  <1>1. NoMsg \in MsgType /\ Good(NoMsg, None)
    BY DEF NoMsg, MsgType, MsgSteps, OptConf, Good
  <1>2. NoReq \in [st : {"idle", "client"}, conf : OptConf]
    BY DEF NoReq, OptConf
  <1>3. TypeOK
    BY <1>1, <1>2 DEF Init, TypeOK, OptConf
  <1>4. \A m \in Msgs : Good(msg[m], client)
    BY <1>1 DEF Init
  <1> QED
    BY <1>3, <1>4 DEF S3Inv

\* A client that appears or is replaced disturbs no message.
LEMMA ClientAppears ==
    ASSUME NEW x, NEW c, NEW d, d # None, Good(x, c)
    PROVE  Good(x, d)
  BY DEF Good

\* A message that moves on while everything else stays as it is.
LEMMA OneMoves ==
    ASSUME S3Inv, NEW m \in Msgs, NEW x \in MsgType, Good(x, client),
           msg' = [msg EXCEPT ![m] = x], UNCHANGED others
    PROVE  S3Inv'
  <1>1. TypeOK'
    BY DEF S3Inv, TypeOK, others
  <1>2. client' = client /\ \A n \in Msgs : msg'[n] = IF n = m THEN x ELSE msg[n]
    BY DEF S3Inv, TypeOK, others
  <1>3. \A n \in Msgs : Good(msg'[n], client')
    BY <1>2 DEF S3Inv
  <1> QED
    BY <1>1, <1>3 DEF S3Inv

\* InitializeS3Client and RemoveClient keep what is true of the messages.
LEMMA SetClientKeeps ==
    ASSUME S3Inv, NEW c \in OptConf, SetClient(c)
    PROVE  /\ client' \in OptConf /\ msg' \in [Msgs -> MsgType]
           /\ \A m \in Msgs : Good(msg'[m], client')
  <1>1. client' = c
    BY DEF SetClient
  <1>2. CASE c # None
    <2>1. msg' = msg
      BY <1>2 DEF SetClient
    <2>2. \A m \in Msgs : Good(msg[m], c)
      BY <1>2, ClientAppears DEF S3Inv
    <2> QED
      BY <1>1, <2>1, <2>2 DEF S3Inv, TypeOK
  <1>3. CASE c = None
    <2>1. msg' = [m \in Msgs |-> [msg[m] EXCEPT !.robbed = @ \/ Uploading(m)]]
      BY <1>3 DEF SetClient
    <2>2. ASSUME NEW m \in Msgs
          PROVE  msg'[m] \in MsgType /\ Good(msg'[m], c)
      <3>1. msg[m] \in MsgType /\ Good(msg[m], client)
        BY DEF S3Inv, TypeOK
      <3>2. PICK b \in BOOLEAN : /\ msg'[m] = [msg[m] EXCEPT !.robbed = b]
                                 /\ msg[m].st \in {"put", "link"} => b
                                 /\ msg[m].robbed => b
        BY <2>1, <3>1 DEF Uploading, MsgType
      <3>3. msg'[m] \in MsgType
        BY <3>1, <3>2 DEF MsgType
      <3>4. Good(msg'[m], c)
        BY <3>1, <3>2 DEF MsgType, Good
      <3> QED
        BY <3>3, <3>4
    <2>3. msg' \in [Msgs -> MsgType]
      BY <2>1, <2>2
    <2> QED
      BY <1>1, <2>2, <2>3
  <1> QED
    BY <1>2, <1>3

\* Every step keeps the invariant.
LEMMA StepS3 == S3Inv /\ [Next]_vars => S3Inv'
  <1> SUFFICES ASSUME S3Inv, [Next]_vars PROVE S3Inv'
    OBVIOUS
  <1>0. TypeOK /\ \A m \in Msgs : msg[m] \in MsgType /\ Good(msg[m], client)
    BY DEF S3Inv, TypeOK
  <1>1. ASSUME NEW r \in Requests,
               ConfigureS3(r) \/ DeleteS3Config(r) \/ TestS3Connection(r) \/ AdminUpdate(r)
        PROVE  S3Inv'
    <2>1. PICK c \in OptConf, d \in OptConf :
             row' = d /\ req' = [req EXCEPT ![r] = [st |-> "client", conf |-> c]]
      BY <1>0, <1>1 DEF ConfigureS3, DeleteS3Config, TestS3Connection, AdminUpdate, ClientNext,
                        TypeOK, OptConf
    <2>2. UNCHANGED <<exists, client, boots, msg>>
      BY <1>1 DEF ConfigureS3, DeleteS3Config, TestS3Connection, AdminUpdate
    <2>3. TypeOK'
      BY <1>0, <2>1, <2>2 DEF TypeOK
    <2> QED
      BY <1>0, <2>2, <2>3 DEF S3Inv
  <1>2. ASSUME NEW r \in Requests, ApplyClient(r) PROVE S3Inv'
    <2>1. SetClient(req[r].conf) /\ req' = [req EXCEPT ![r] = NoReq] /\ UNCHANGED <<exists, row, boots>>
      BY <1>2 DEF ApplyClient
    <2>2. req[r].conf \in OptConf
      BY <1>0 DEF TypeOK
    <2>3. /\ client' \in OptConf /\ msg' \in [Msgs -> MsgType]
          /\ \A m \in Msgs : Good(msg'[m], client')
      BY <2>1, <2>2, SetClientKeeps
    <2>4. TypeOK'
      BY <1>0, <2>1, <2>3 DEF TypeOK, NoReq, OptConf
    <2> QED
      BY <2>3, <2>4 DEF S3Inv
  <1>3. ASSUME DeleteUser \/ LoginEnsure PROVE S3Inv'
    <2>1. UNCHANGED <<client, req, msg>>
      BY <1>3 DEF DeleteUser, LoginEnsure
    <2>2. TypeOK'
      BY <1>0, <1>3, <2>1 DEF DeleteUser, LoginEnsure, TypeOK, OptConf
    <2> QED
      BY <1>0, <2>1, <2>2 DEF S3Inv
  <1>4. ASSUME LoginInit PROVE S3Inv'
    <2>1. PICK c \in boots : SetClient(c) /\ boots' = boots \ {c}
      BY <1>4 DEF LoginInit
    <2>2. UNCHANGED <<exists, row, req>>
      BY <1>4 DEF LoginInit
    <2>3. /\ client' \in OptConf /\ msg' \in [Msgs -> MsgType]
          /\ \A m \in Msgs : Good(msg'[m], client')
      BY <1>0, <2>1, SetClientKeeps DEF TypeOK, OptConf
    <2>4. TypeOK'
      BY <1>0, <2>1, <2>2, <2>3 DEF TypeOK
    <2> QED
      BY <2>3, <2>4 DEF S3Inv
  <1>5. ASSUME Restart PROVE S3Inv'
    <2> DEFINE Lost == [NoMsg EXCEPT !.st = "done"]
    <2>1. /\ client' = None /\ boots' = {}
          /\ req' = [r \in Requests |-> NoReq]
          /\ msg' = [m \in Msgs |-> IF msg[m].st \in {"new", "done", "panicked"} THEN msg[m] ELSE Lost]
          /\ UNCHANGED <<exists, row>>
      BY <1>5 DEF Restart
    <2>2. Lost \in MsgType /\ Good(Lost, None)
      BY DEF NoMsg, MsgType, MsgSteps, OptConf, Good
    <2> HIDE DEF Lost
    <2>3. ASSUME NEW m \in Msgs PROVE msg'[m] \in MsgType /\ Good(msg'[m], None)
      <3>1. CASE msg[m].st \in {"new", "done", "panicked"}
        BY <1>0, <2>1, <3>1 DEF Good
      <3>2. CASE ~(msg[m].st \in {"new", "done", "panicked"})
        BY <2>1, <2>2, <3>2
      <3> QED
        BY <3>1, <3>2
    <2>4. TypeOK'
      BY <1>0, <2>1, <2>3 DEF TypeOK, NoReq, OptConf
    <2> QED
      BY <2>1, <2>3, <2>4 DEF S3Inv
  <1>6. ASSUME NEW m \in Msgs, ReadSettings(m) PROVE S3Inv'
    <2>1. PICK want \in SUBSET Forms :
             msg' = [msg EXCEPT ![m].want = want,
                                ![m].st = IF "s3" \in want THEN "ensure" ELSE "download"]
      BY <1>6 DEF ReadSettings
    <2>2. msg[m].st = "new" /\ UNCHANGED others /\ msg[m] \in MsgType /\ Good(msg[m], client)
      BY <1>0, <1>6 DEF ReadSettings
    <2> DEFINE x == [msg[m] EXCEPT !.want = want, !.st = IF "s3" \in want THEN "ensure" ELSE "download"]
    <2>3. msg' = [msg EXCEPT ![m] = x]
      BY <1>0, <2>1 DEF TypeOK
    <2>4. x \in MsgType
      BY <2>2 DEF MsgType, MsgSteps
    <2>5. Good(x, client)
      BY <2>2 DEF MsgType, Good
    <2> HIDE DEF x
    <2> QED
      BY <2>2, <2>3, <2>4, <2>5, OneMoves
  <1>7. ASSUME NEW m \in Msgs, EnsureClient(m) PROVE S3Inv'
    <2>0. UNCHANGED others /\ msg[m] \in MsgType /\ Good(msg[m], client)
      BY <1>0, <1>7 DEF EnsureClient
    <2>1. ASSUME Step(m, "download") PROVE S3Inv'
      <3> DEFINE x == [msg[m] EXCEPT !.st = "download"]
      <3>1. msg' = [msg EXCEPT ![m] = x]
        BY <1>0, <2>1 DEF TypeOK, Step, Use
      <3>2. x \in MsgType
        BY <1>0, <2>0, <1>7, <2>1 DEF EnsureClient, MsgType, MsgSteps, TypeOK, OptConf, Forms
      <3>3. Good(x, client)
        BY <1>0, <2>0, <1>7, <2>1 DEF EnsureClient, MsgType, Good, TypeOK, OptConf, Forms
      <3> HIDE DEF x
      <3> QED
        BY <2>0, <3>1, <3>2, <3>3, OneMoves
    <2>2. ASSUME client = None, row # None, Use(m, "init", row) PROVE S3Inv'
      <3> DEFINE x == [msg[m] EXCEPT !.st = "init", !.conf = row]
      <3>1. msg' = [msg EXCEPT ![m] = x]
        BY <1>0, <2>2 DEF TypeOK, Step, Use
      <3>2. x \in MsgType
        BY <1>0, <2>0, <1>7, <2>2 DEF EnsureClient, MsgType, MsgSteps, TypeOK, OptConf, Forms
      <3>3. Good(x, client)
        BY <1>0, <2>0, <1>7, <2>2 DEF EnsureClient, MsgType, Good, TypeOK, OptConf, Forms
      <3> HIDE DEF x
      <3> QED
        BY <2>0, <3>1, <3>2, <3>3, OneMoves
    <2> QED
      BY <1>7, <2>1, <2>2 DEF EnsureClient
  <1>8. ASSUME NEW m \in Msgs, InitClient(m) PROVE S3Inv'
    <2>1. msg[m].st \in {"init", "reinit"} /\ client' = msg[m].conf
          /\ UNCHANGED <<exists, row, boots, req>> /\ msg[m] \in MsgType /\ Good(msg[m], client)
      BY <1>0, <1>8 DEF InitClient
    <2> DEFINE x == [msg[m] EXCEPT !.st = IF msg[m].st = "init" THEN "download" ELSE "get"]
    <2>2. msg' = [msg EXCEPT ![m] = x]
      BY <1>0, <1>8 DEF InitClient, Step, TypeOK
    <2>3. msg[m].conf \in OptConf /\ msg[m].conf # None
      BY <2>1 DEF MsgType, Good
    <2>4. x \in MsgType
      BY <2>1 DEF MsgType, MsgSteps
    <2>5. Good(x, client')
      BY <2>1, <2>3 DEF MsgType, Good
    <2> HIDE DEF x
    <2>6. TypeOK'
      BY <1>0, <2>1, <2>2, <2>3, <2>4 DEF TypeOK
    <2>7. \A n \in Msgs : msg'[n] = IF n = m THEN x ELSE msg[n]
      BY <1>0, <2>2 DEF TypeOK
    <2>8. client' # None
      BY <2>1, <2>3
    <2>9. ASSUME NEW n \in Msgs PROVE Good(msg'[n], client')
      <3>1. CASE n = m
        BY <2>5, <2>7, <3>1
      <3>2. CASE n # m
        BY <1>0, <2>7, <2>8, <3>2, ClientAppears
      <3> QED
        BY <3>1, <3>2
    <2> QED
      BY <2>6, <2>9 DEF S3Inv
  <1>9. ASSUME NEW m \in Msgs, Download(m) PROVE S3Inv'
    <2>0. UNCHANGED others /\ msg[m] \in MsgType /\ Good(msg[m], client)
      BY <1>0, <1>9 DEF Download
    <2>1. ASSUME Step(m, IF "s3" \in msg[m].want THEN "upload" ELSE "encode") PROVE S3Inv'
      <3> DEFINE x == [msg[m] EXCEPT !.st = IF "s3" \in msg[m].want THEN "upload" ELSE "encode"]
      <3>1. msg' = [msg EXCEPT ![m] = x]
        BY <1>0, <2>1 DEF TypeOK, Step, Fail
      <3>2. x \in MsgType
        BY <1>0, <2>0, <1>9, <2>1 DEF Download, MsgType, MsgSteps, TypeOK, OptConf, Forms
      <3>3. Good(x, client)
        BY <1>0, <2>0, <1>9, <2>1 DEF Download, MsgType, Good, TypeOK, OptConf, Forms
      <3> HIDE DEF x
      <3> QED
        BY <2>0, <3>1, <3>2, <3>3, OneMoves
    <2>2. ASSUME Fail(m, "send", "download") PROVE S3Inv'
      <3> DEFINE x == [msg[m] EXCEPT !.st = "send", !.errs = @ \cup {"download"}]
      <3>1. msg' = [msg EXCEPT ![m] = x]
        BY <1>0, <2>2 DEF TypeOK, Step, Fail
      <3>2. x \in MsgType
        BY <1>0, <2>0, <1>9, <2>2 DEF Download, MsgType, MsgSteps, TypeOK, OptConf, Forms
      <3>3. Good(x, client)
        BY <1>0, <2>0, <1>9, <2>2 DEF Download, MsgType, Good, TypeOK, OptConf, Forms
      <3> HIDE DEF x
      <3> QED
        BY <2>0, <3>1, <3>2, <3>3, OneMoves
    <2> QED
      BY <1>9, <2>1, <2>2 DEF Download
  <1>10. ASSUME NEW m \in Msgs, Upload(m) PROVE S3Inv'
    <2>0. UNCHANGED others /\ msg[m] \in MsgType /\ Good(msg[m], client)
      BY <1>0, <1>10 DEF Upload
    <2>1. ASSUME client # None, Use(m, "put", client) PROVE S3Inv'
      <3> DEFINE x == [msg[m] EXCEPT !.st = "put", !.conf = client]
      <3>1. msg' = [msg EXCEPT ![m] = x]
        BY <1>0, <2>1 DEF TypeOK, Use, UploadError, Fail
      <3>2. x \in MsgType
        BY <1>0, <2>0, <1>10, <2>1 DEF Upload, MsgType, MsgSteps, TypeOK, OptConf, Forms
      <3>3. Good(x, client)
        BY <1>0, <2>0, <1>10, <2>1 DEF Upload, MsgType, Good, TypeOK, OptConf, Forms
      <3> HIDE DEF x
      <3> QED
        BY <2>0, <3>1, <3>2, <3>3, OneMoves
    <2>2. ASSUME client = None, row # None, Use(m, "reinit", row) PROVE S3Inv'
      <3> DEFINE x == [msg[m] EXCEPT !.st = "reinit", !.conf = row]
      <3>1. msg' = [msg EXCEPT ![m] = x]
        BY <1>0, <2>2 DEF TypeOK, Use, UploadError, Fail
      <3>2. x \in MsgType
        BY <1>0, <2>0, <1>10, <2>2 DEF Upload, MsgType, MsgSteps, TypeOK, OptConf, Forms
      <3>3. Good(x, client)
        BY <1>0, <2>0, <1>10, <2>2 DEF Upload, MsgType, Good, TypeOK, OptConf, Forms
      <3> HIDE DEF x
      <3> QED
        BY <2>0, <3>1, <3>2, <3>3, OneMoves
    <2>3. ASSUME UploadError(m) PROVE S3Inv'
      <3> DEFINE x == [msg[m] EXCEPT !.st = "encode", !.errs = @ \cup {"upload"}]
      <3>1. msg' = [msg EXCEPT ![m] = x]
        BY <1>0, <2>3 DEF TypeOK, Use, UploadError, Fail
      <3>2. x \in MsgType
        BY <1>0, <2>0, <1>10, <2>3 DEF Upload, MsgType, MsgSteps, TypeOK, OptConf, Forms
      <3>3. Good(x, client)
        BY <1>0, <2>0, <1>10, <2>3 DEF Upload, MsgType, Good, TypeOK, OptConf, Forms
      <3> HIDE DEF x
      <3> QED
        BY <2>0, <3>1, <3>2, <3>3, OneMoves
    <2> QED
      BY <1>10, <2>1, <2>2, <2>3 DEF Upload
  <1>11. ASSUME NEW m \in Msgs, GetClient(m) PROVE S3Inv'
    <2>0. UNCHANGED others /\ msg[m] \in MsgType /\ Good(msg[m], client)
      BY <1>0, <1>11 DEF GetClient
    <2>1. ASSUME client # None, Use(m, "put", client) PROVE S3Inv'
      <3> DEFINE x == [msg[m] EXCEPT !.st = "put", !.conf = client]
      <3>1. msg' = [msg EXCEPT ![m] = x]
        BY <1>0, <2>1 DEF TypeOK, Use, UploadError, Fail
      <3>2. x \in MsgType
        BY <1>0, <2>0, <1>11, <2>1 DEF GetClient, MsgType, MsgSteps, TypeOK, OptConf, Forms
      <3>3. Good(x, client)
        BY <1>0, <2>0, <1>11, <2>1 DEF GetClient, MsgType, Good, TypeOK, OptConf, Forms
      <3> HIDE DEF x
      <3> QED
        BY <2>0, <3>1, <3>2, <3>3, OneMoves
    <2>2. ASSUME UploadError(m) PROVE S3Inv'
      <3> DEFINE x == [msg[m] EXCEPT !.st = "encode", !.errs = @ \cup {"upload"}]
      <3>1. msg' = [msg EXCEPT ![m] = x]
        BY <1>0, <2>2 DEF TypeOK, Use, UploadError, Fail
      <3>2. x \in MsgType
        BY <1>0, <2>0, <1>11, <2>2 DEF GetClient, MsgType, MsgSteps, TypeOK, OptConf, Forms
      <3>3. Good(x, client)
        BY <1>0, <2>0, <1>11, <2>2 DEF GetClient, MsgType, Good, TypeOK, OptConf, Forms
      <3> HIDE DEF x
      <3> QED
        BY <2>0, <3>1, <3>2, <3>3, OneMoves
    <2> QED
      BY <1>11, <2>1, <2>2 DEF GetClient
  <1>12. ASSUME NEW m \in Msgs, Put(m) PROVE S3Inv'
    <2>0. UNCHANGED others /\ msg[m] \in MsgType /\ Good(msg[m], client)
      BY <1>0, <1>12 DEF Put
    <2>1. ASSUME msg' = [msg EXCEPT ![m].st = "link", ![m].stored = msg[m].conf] PROVE S3Inv'
      <3> DEFINE x == [msg[m] EXCEPT !.st = "link", !.stored = msg[m].conf]
      <3>1. msg' = [msg EXCEPT ![m] = x]
        BY <1>0, <2>1 DEF TypeOK, UploadError, Fail
      <3>2. x \in MsgType
        BY <1>0, <2>0, <1>12, <2>1 DEF Put, MsgType, MsgSteps, TypeOK, OptConf, Forms
      <3>3. Good(x, client)
        BY <1>0, <2>0, <1>12, <2>1 DEF Put, MsgType, Good, TypeOK, OptConf, Forms
      <3> HIDE DEF x
      <3> QED
        BY <2>0, <3>1, <3>2, <3>3, OneMoves
    <2>2. ASSUME UploadError(m) PROVE S3Inv'
      <3> DEFINE x == [msg[m] EXCEPT !.st = "encode", !.errs = @ \cup {"upload"}]
      <3>1. msg' = [msg EXCEPT ![m] = x]
        BY <1>0, <2>2 DEF TypeOK, UploadError, Fail
      <3>2. x \in MsgType
        BY <1>0, <2>0, <1>12, <2>2 DEF Put, MsgType, MsgSteps, TypeOK, OptConf, Forms
      <3>3. Good(x, client)
        BY <1>0, <2>0, <1>12, <2>2 DEF Put, MsgType, Good, TypeOK, OptConf, Forms
      <3> HIDE DEF x
      <3> QED
        BY <2>0, <3>1, <3>2, <3>3, OneMoves
    <2> QED
      BY <1>12, <2>1, <2>2 DEF Put
  <1>13. ASSUME NEW m \in Msgs, Link(m) PROVE S3Inv'
    <2>0. UNCHANGED others /\ msg[m] \in MsgType /\ Good(msg[m], client)
      BY <1>0, <1>13 DEF Link
    <2>1. ASSUME client = None, Step(m, "panicked") PROVE S3Inv'
      <3> DEFINE x == [msg[m] EXCEPT !.st = "panicked"]
      <3>1. msg' = [msg EXCEPT ![m] = x]
        BY <1>0, <2>1 DEF TypeOK, Step
      <3>2. x \in MsgType
        BY <1>0, <2>0, <1>13, <2>1 DEF Link, MsgType, MsgSteps, TypeOK, OptConf, Forms
      <3>3. Good(x, client)
        BY <1>0, <2>0, <1>13, <2>1 DEF Link, MsgType, Good, TypeOK, OptConf, Forms
      <3> HIDE DEF x
      <3> QED
        BY <2>0, <3>1, <3>2, <3>3, OneMoves
    <2>2. ASSUME client # None, msg' = [msg EXCEPT ![m].st = "encode", ![m].s3 = client] PROVE S3Inv'
      <3> DEFINE x == [msg[m] EXCEPT !.st = "encode", !.s3 = client]
      <3>1. msg' = [msg EXCEPT ![m] = x]
        BY <1>0, <2>2 DEF TypeOK, Step
      <3>2. x \in MsgType
        BY <1>0, <2>0, <1>13, <2>2 DEF Link, MsgType, MsgSteps, TypeOK, OptConf, Forms
      <3>3. Good(x, client)
        BY <1>0, <2>0, <1>13, <2>2 DEF Link, MsgType, Good, TypeOK, OptConf, Forms
      <3> HIDE DEF x
      <3> QED
        BY <2>0, <3>1, <3>2, <3>3, OneMoves
    <2> QED
      BY <1>13, <2>1, <2>2 DEF Link
  <1>14. ASSUME NEW m \in Msgs, Encode(m) PROVE S3Inv'
    <2>0. UNCHANGED others /\ msg[m] \in MsgType /\ Good(msg[m], client)
      BY <1>0, <1>14 DEF Encode
    <2>1. ASSUME "base64" \notin msg[m].want, Step(m, "send") PROVE S3Inv'
      <3> DEFINE x == [msg[m] EXCEPT !.st = "send"]
      <3>1. msg' = [msg EXCEPT ![m] = x]
        BY <1>0, <2>1 DEF TypeOK, Step, Fail
      <3>2. x \in MsgType
        BY <1>0, <2>0, <1>14, <2>1 DEF Encode, MsgType, MsgSteps, TypeOK, OptConf, Forms
      <3>3. Good(x, client)
        BY <1>0, <2>0, <1>14, <2>1 DEF Encode, MsgType, Good, TypeOK, OptConf, Forms
      <3> HIDE DEF x
      <3> QED
        BY <2>0, <3>1, <3>2, <3>3, OneMoves
    <2>2. ASSUME "base64" \in msg[m].want, msg' = [msg EXCEPT ![m].st = "send", ![m].b64 = TRUE] PROVE S3Inv'
      <3> DEFINE x == [msg[m] EXCEPT !.st = "send", !.b64 = TRUE]
      <3>1. msg' = [msg EXCEPT ![m] = x]
        BY <1>0, <2>2 DEF TypeOK, Step, Fail
      <3>2. x \in MsgType
        BY <1>0, <2>0, <1>14, <2>2 DEF Encode, MsgType, MsgSteps, TypeOK, OptConf, Forms
      <3>3. Good(x, client)
        BY <1>0, <2>0, <1>14, <2>2 DEF Encode, MsgType, Good, TypeOK, OptConf, Forms
      <3> HIDE DEF x
      <3> QED
        BY <2>0, <3>1, <3>2, <3>3, OneMoves
    <2>3. ASSUME "base64" \in msg[m].want, Fail(m, "send", "encode") PROVE S3Inv'
      <3> DEFINE x == [msg[m] EXCEPT !.st = "send", !.errs = @ \cup {"encode"}]
      <3>1. msg' = [msg EXCEPT ![m] = x]
        BY <1>0, <2>3 DEF TypeOK, Step, Fail
      <3>2. x \in MsgType
        BY <1>0, <2>0, <1>14, <2>3 DEF Encode, MsgType, MsgSteps, TypeOK, OptConf, Forms
      <3>3. Good(x, client)
        BY <1>0, <2>0, <1>14, <2>3 DEF Encode, MsgType, Good, TypeOK, OptConf, Forms
      <3> HIDE DEF x
      <3> QED
        BY <2>0, <3>1, <3>2, <3>3, OneMoves
    <2> QED
      BY <1>14, <2>1, <2>2, <2>3 DEF Encode
  <1>15. ASSUME NEW m \in Msgs, Send(m) PROVE S3Inv'
    <2>0. UNCHANGED others /\ msg[m] \in MsgType /\ Good(msg[m], client)
      BY <1>0, <1>15 DEF Send
    <2>1. ASSUME Step(m, "done") PROVE S3Inv'
      <3> DEFINE x == [msg[m] EXCEPT !.st = "done"]
      <3>1. msg' = [msg EXCEPT ![m] = x]
        BY <1>0, <2>1 DEF TypeOK, Step
      <3>2. x \in MsgType
        BY <1>0, <2>0, <1>15, <2>1 DEF Send, MsgType, MsgSteps, TypeOK, OptConf, Forms
      <3>3. Good(x, client)
        BY <1>0, <2>0, <1>15, <2>1 DEF Send, MsgType, Good, TypeOK, OptConf, Forms
      <3> HIDE DEF x
      <3> QED
        BY <2>0, <3>1, <3>2, <3>3, OneMoves
    <2> QED
      BY <1>15, <2>1 DEF Send
  <1>16. CASE UNCHANGED vars
    <2>1. TypeOK'
      BY <1>0, <1>16 DEF vars, TypeOK
    <2>2. client' = client /\ msg' = msg
      BY <1>16 DEF vars
    <2> QED
      BY <1>0, <2>1, <2>2 DEF S3Inv
  <1> QED
    BY <1>1, <1>2, <1>3, <1>4, <1>5, <1>6, <1>7, <1>8, <1>9, <1>10, <1>11, <1>12, <1>13, <1>14, <1>15, <1>16 DEF Next, Serve, Handle

\* The invariant holds of every reachable state.
THEOREM S3Invariant == Spec => []S3Inv
  BY InitS3, StepS3, PTL DEF Spec

\* Configurations, clients, requests and messages stay well typed.
THEOREM S3Types == Spec => []TypeOK
  <1>1. S3Inv => TypeOK
    BY DEF S3Inv
  <1> QED
    BY S3Invariant, <1>1, PTL

\* Under any interleaving of messages, requests, logins and restarts a payload
\* carries an S3 link only for a file that was stored.
THEOREM StoredTheorem == Spec => []LinkOnlyIfStored
  <1>1. S3Inv => LinkOnlyIfStored
    BY DEF S3Inv, Good, LinkOnlyIfStored
  <1> QED
    BY S3Invariant, <1>1, PTL

\* Under any interleaving a file that was stored is named in the payload that goes out.
THEOREM LinkedTheorem == Spec => []StoredIsLinked
  <1>1. S3Inv => StoredIsLinked
    BY DEF S3Inv, Good, StoredIsLinked
  <1> QED
    BY S3Invariant, <1>1, PTL

\* Under any interleaving an upload that fails costs neither the event nor its
\* base64 form; only a removal of the client during an upload loses an event.
THEOREM StillSentTheorem == Spec => []WebhookStillSent
  <1>1. S3Inv => WebhookStillSent
    BY DEF S3Inv, Good, WebhookStillSent
  <1> QED
    BY S3Invariant, <1>1, PTL

=============================================================================
