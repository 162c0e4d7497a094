--------------------------- MODULE MessagesProofs ---------------------------
(* Proofs about Messages, for any ids, requests, handlers, limits and bounds. *)
EXTENDS Messages, FiniteSetTheorems, SequenceTheorems, TLAPS

-----------------------------------------------------------------------------
(* The handlers and the records of what runs *)

HandlerType ==
    [does : {"change", "read"}, fails : {"error", "text"}, upload : {"no", "may", "must"},
     keeps : BOOLEAN, history : BOOLEAN, options : BOOLEAN]

ActType ==
    [st : {"idle", "upload", "send", "options", "save", "trimSecrets", "trimRows",
           "vote", "done"},
     op : Handlers, id : Ids \cup {None}, limit : Limits \cup {0}, held : 0..Sessions,
     sent : 0..Sessions, answer : {"none", "ok", "error", "text"}]

\* Every handler is one of the kinds that the steps of a request tell apart.
LEMMA HandlerShape == \A h \in Handlers : h \in HandlerType
  <1>1. Change \in HandlerType
    BY DEF Change, HandlerType
  <1>2. Read \in HandlerType /\ Sends \in HandlerType /\ Group \in HandlerType
    BY <1>1 DEF Read, Sends, Group, HandlerType
  <1>3. File \in HandlerType /\ Lookup \in HandlerType
    BY <1>2 DEF File, Lookup, HandlerType
  <1>4. {SendDocument, SendImage, SendSticker, SendVideo, SendContact, SendLocation, SendList,
         SendMessage, DeleteMessage, SendEditMessage, React} \subseteq HandlerType
    BY <1>1, <1>2, <1>3 DEF SendDocument, SendImage, SendSticker, SendVideo, SendContact,
       SendLocation, SendList, SendMessage, DeleteMessage, SendEditMessage, React
  <1>5. {SendAudio, SendButtons, SendPoll, updateUserBlocklist, RequestUnavailableMessage,
         ArchiveChat} \subseteq HandlerType
    <2>1. SendAudio \in HandlerType /\ SendButtons \in HandlerType
      BY <1>2, <1>3 DEF SendAudio, SendButtons, HandlerType
    <2>2. SendPoll \in HandlerType
      BY <1>1 DEF SendPoll, HandlerType
    <2>3. [Change EXCEPT !.keeps = TRUE] \in HandlerType
      BY <1>1 DEF HandlerType
    <2> QED
      BY <2>1, <2>2, <2>3 DEF updateUserBlocklist, RequestUnavailableMessage, ArchiveChat
  <1>6. {SetStatusMessage, CheckUser, GetUser, SendPresence, GetAvatar, GetContacts, RejectCall,
         GetUserLID, ChatPresence, MarkRead, DownloadImage, DownloadDocument, DownloadVideo,
         DownloadAudio, DownloadSticker} \subseteq HandlerType
    BY <1>1, <1>2, <1>3 DEF SetStatusMessage, CheckUser, GetUser, SendPresence, GetAvatar,
       GetContacts, RejectCall, GetUserLID, ChatPresence, MarkRead, DownloadImage,
       DownloadDocument, DownloadVideo, DownloadAudio, DownloadSticker
  <1>7. {ListGroups, GetGroupInfo, GetGroupInviteLink, GroupJoin, CreateGroup, SetGroupLocked,
         SetDisappearingTimer, RemoveGroupPhoto, UpdateGroupParticipants, GetGroupInviteInfo,
         SetGroupPhoto, SetGroupName, SetGroupTopic, GroupLeave, SetGroupAnnounce,
         ListNewsletter} \subseteq HandlerType
    BY <1>2, <1>3 DEF ListGroups, GetGroupInfo, GetGroupInviteLink, GroupJoin, CreateGroup,
       SetGroupLocked, SetDisappearingTimer, RemoveGroupPhoto, UpdateGroupParticipants,
       GetGroupInviteInfo, SetGroupPhoto, SetGroupName, SetGroupTopic, GroupLeave,
       SetGroupAnnounce, ListNewsletter
  <1> QED
    BY <1>4, <1>5, <1>6, <1>7 DEF Handlers

\* A handler trims to a natural number of rows.
LEMMA LimitNat ==
  ASSUME act \in [Procs -> ActType], NEW p \in Procs
  PROVE  act[p].limit \in Nat /\ (act[p].limit = 0 \/ act[p].limit \in Limits)
  <1>1. \A x \in Limits \cup {0} : x \in Nat
    BY MessagesAssumption DEF MessagesAssumption
  <1>2. act[p] \in ActType
    OBVIOUS
  <1>3. act[p].limit \in Limits \cup {0}
    BY <1>2 DEF ActType
  <1> QED
    BY <1>1, <1>3

\* Handler p moves on and is answered so; what it was asked to do stays.
Moves(p, st, how) ==
    /\ act' \in [Procs -> ActType]
    /\ \A q \in Procs \ {p} : act'[q] = act[q]
    /\ act'[p].st = st /\ act'[p].answer = how
    /\ act'[p].op = act[p].op /\ act'[p].id = act[p].id /\ act'[p].limit = act[p].limit
    /\ act'[p].sent = act[p].sent

LEMMA GoMoves ==
  ASSUME act \in [Procs -> ActType], NEW p \in Procs,
         NEW st \in {"send", "trimSecrets", "trimRows"}, Go(p, st)
  PROVE  Moves(p, st, act[p].answer)
  BY DEF Go, Moves, ActType

LEMMA AnswerMoves ==
  ASSUME act \in [Procs -> ActType], NEW p \in Procs,
         NEW how \in {"ok", "error", "text"}, Answer(p, how)
  PROVE  Moves(p, "done", how)
  <1> DEFINE b == [act[p] EXCEPT !.st = "done", !.answer = how]
  <1>1. act' = [act EXCEPT ![p] = b]
    BY DEF Answer
  <1>2. act[p] \in ActType
    OBVIOUS
  <1>3. /\ b \in ActType /\ b.st = "done" /\ b.answer = how
        /\ b.op = act[p].op /\ b.id = act[p].id /\ b.limit = act[p].limit /\ b.sent = act[p].sent
    BY <1>2 DEF ActType
  <1> HIDE DEF b
  <1> QED
    BY <1>1, <1>3 DEF Moves

\* Nobody is a record of the table.
LEMMA NobodyTyped == Nobody \in ActType
  <1>1. React \in Handlers
    BY DEF Handlers
  <1> QED
    BY <1>1, MessagesAssumption DEF Nobody, ActType, MessagesAssumption

-----------------------------------------------------------------------------
(* The rows as a set *)

\* message_history has one row per id
Distinct == \A i, j \in 1..Len(rows) : rows[i] = rows[j] => i = j

\* The saved ids are as many as the rows.
LEMMA SavedCount ==
  ASSUME NEW S, NEW s \in Seq(S)
  PROVE  LET T == {s[i] : i \in 1..Len(s)}
         IN  /\ IsFiniteSet(T) /\ Cardinality(T) \in Nat /\ Cardinality(T) <= Len(s)
             /\ (\A i, j \in 1..Len(s) : s[i] = s[j] => i = j) => Cardinality(T) = Len(s)
  <1> DEFINE T == {s[i] : i \in 1..Len(s)}
  <1>1. Len(s) \in Nat /\ s \in [1..Len(s) -> T]
    BY LenProperties
  <1>2. s \in Surjection(1..Len(s), T)
    BY <1>1 DEF Surjection
  <1>3. IsFiniteSet(1..Len(s)) /\ Cardinality(1..Len(s)) = Len(s)
    BY <1>1, FS_Interval
  <1>4. /\ IsFiniteSet(T) /\ Cardinality(T) <= Len(s)
        /\ Cardinality(T) = Len(s) <=> s \in Injection(1..Len(s), T)
    BY <1>2, <1>3, FS_Surjection
  <1>5. Cardinality(T) \in Nat
    BY <1>4, FS_CardinalityType
  <1>6. (\A i, j \in 1..Len(s) : s[i] = s[j] => i = j) => s \in Injection(1..Len(s), T)
    BY <1>1 DEF Injection, IsInjective
  <1> QED
    BY <1>4, <1>5, <1>6

\* The largest history setting bounds them all.
LEMMA MaxLimitBounds == MaxLimit \in Limits /\ MaxLimit \in Nat /\ \A k \in Limits : k <= MaxLimit
  <1> USE MessagesAssumption DEF MessagesAssumption
  <1> DEFINE Above(l) == {k \in Limits : k > l}
             T == {Above(l) : l \in Limits}
  <1>1. T # {} /\ T \subseteq FiniteSubsetsOf(Limits)
    <2>1. \A l \in Limits : Above(l) \in SUBSET Limits /\ IsFiniteSet(Above(l))
      BY FS_Subset
    <2> QED
      BY <2>1 DEF FiniteSubsetsOf
  <1>2. PICK x \in T : \A y \in T : ~(<<y, x>> \in StrictSubsetOrdering(Limits))
    <2> HIDE DEF T
    <2> QED
      BY <1>1, FS_StrictSubsetOrderingWellFounded, WFMin
  <1>3. PICK l \in Limits : x = Above(l)
    OBVIOUS
  <1>4. Above(l) = {}
    <2> SUFFICES ASSUME NEW k \in Above(l) PROVE FALSE
      OBVIOUS
    <2>1. k \in Limits /\ k > l /\ k \notin Above(k)
      OBVIOUS
    <2>a. \A j \in Limits : j > k => j > l
      BY <2>1
    <2>2. Above(k) \subseteq Above(l) /\ Above(k) # Above(l)
      BY <2>1, <2>a
    <2>3. <<Above(k), Above(l)>> \in StrictSubsetOrdering(Limits)
      BY <2>2 DEF StrictSubsetOrdering
    <2> QED
      BY <1>2, <1>3, <2>1, <2>3
  <1>5. \A k \in Limits : k <= l
    BY <1>4
  <1> QED
    BY <1>5 DEF MaxLimit

-----------------------------------------------------------------------------
(* Requests, from the first lookup of the client to the answer *)

\* What is known of a handler by how far it is: nothing is sent before the call,
\* nothing is answered before the end, a message that is saved or whose options
\* are remembered has an id, and a change that was sent is not answered as failed.
Phase(a) ==
    /\ a.st \in {"idle", "upload", "send"} => a.sent = 0
    /\ a.st # "done" => a.answer = "none"
    /\ a.st \in {"upload", "send"} /\ (a.op.history \/ a.op.options) => a.id \in Ids
    /\ a.st \in {"options", "save"} => a.id \in Ids
    /\ a.answer \in {"error", "text"} /\ a.op.does = "change" => a.sent = 0

\* sessions are numbered in order
Numbered ==
    /\ client <= seen.sessions
    /\ \A p \in Procs : act[p].sent <= seen.sessions

\* A poll has an id and is never saved, and once it is answered its options are known for as
\* long as the session that sent it lasts.
PollKept ==
    \A r \in Requests : act[r].op.options =>
        /\ act[r].st \notin {"save", "trimSecrets", "trimRows"}
        /\ act[r].sent # 0 => act[r].id \in Ids
        /\ act[r].answer = "ok" /\ client # 0 /\ act[r].sent = client => act[r].id \in polls

MsgInv ==
    /\ TypeOK /\ Distinct
    /\ \A p \in Procs : Phase(act[p])
    /\ Numbered /\ PollKept /\ VoteResolved

\* The types of everything but act and rows.
Scalars ==
    /\ client \in 0..Sessions /\ limit \in Limits
    /\ polls \subseteq Ids /\ secrets \subseteq Ids /\ sync \subseteq Ids
    /\ arrived \in 0..Arrivals
    /\ seen \in [sessions : 0..Sessions, slack : Nat, lost : SUBSET Ids, secret : SUBSET Ids]
    /\ vote \in [due : BOOLEAN, options : BOOLEAN]

LEMMA TypeParts ==
    (TypeOK /\ Distinct) <=> (Scalars /\ Distinct /\ rows \in Seq(Ids) /\ act \in [Procs -> ActType])
  <1>1. rows \in Seq(Ids) /\ Distinct => Len(rows) = Cardinality(Saved)
    BY SavedCount DEF Distinct, Saved
  <1> QED
    BY <1>1 DEF TypeOK, Scalars, ActType

LEMMA InitMessages == Init => MsgInv
  <1> SUFFICES ASSUME Init PROVE MsgInv
    OBVIOUS
  <1> USE MessagesAssumption DEF MessagesAssumption
  <1>1. Scalars
    BY DEF Init, Scalars
  <1>2. rows = <<>> /\ act = [p \in Procs |-> Nobody] /\ client = 0 /\ seen.sessions = 0
    BY DEF Init
  <1>3. rows \in Seq(Ids) /\ Distinct
    BY <1>2, EmptySeq DEF Distinct
  <1>4. act \in [Procs -> ActType]
    BY <1>2, NobodyTyped
  <1>5. \A p \in Procs : act[p] = Nobody
    BY <1>2
  <1>6. /\ Nobody.st = "idle" /\ Nobody.answer = "none" /\ Nobody.sent = 0
    BY DEF Nobody
  <1>7. \A p \in Procs : Phase(act[p])
    BY <1>5, <1>6 DEF Phase
  <1>8. Numbered /\ PollKept
    BY <1>2, <1>5, <1>6 DEF Numbered, PollKept, Procs
  <1>9. VoteResolved
    BY DEF Init, VoteResolved
  <1> QED
    BY <1>1, <1>3, <1>4, <1>7, <1>8, <1>9, TypeParts DEF MsgInv

\* Appending an id that is not there, and dropping the oldest rows, keep the key.
LEMMA InsertDistinct ==
  ASSUME rows \in Seq(Ids), Distinct, NEW id \in Ids, id \notin Saved, Insert(id)
  PROVE  rows' \in Seq(Ids) /\ Distinct' /\ Saved' = Saved \cup {id}
  <1>1. /\ rows' \in Seq(Ids) /\ Len(rows') = Len(rows) + 1 /\ Len(rows) \in Nat
        /\ \A i \in 1..Len(rows) : rows'[i] = rows[i]
        /\ rows'[Len(rows) + 1] = id
    BY AppendProperties, LenProperties DEF Insert
  <1>2. Distinct'
    BY <1>1 DEF Distinct, Saved
  <1>3. Saved' = Saved \cup {id}
    BY <1>1 DEF Saved
  <1> QED
    BY <1>1, <1>2, <1>3

\* What TrimRows leaves: the newest n rows, in their order.
LEMMA Trimmed ==
  ASSUME rows \in Seq(Ids), NEW n \in Nat, Len(rows) > n,
         rows' = SubSeq(rows, Len(rows) - n + 1, Len(rows))
  PROVE  /\ rows' \in Seq(Ids) /\ Len(rows') = n
         /\ \A i \in 1..n : rows'[i] = rows[i + (Len(rows) - n)]
  <1>1. Len(rows) \in Nat /\ \A i \in 1..Len(rows) : rows[i] \in Ids
    BY LenProperties
  <1> DEFINE m == Len(rows) - n + 1
  <1>2. m \in Int /\ \A i \in m..Len(rows) : rows[i] \in Ids
    BY <1>1
  <1>3. /\ rows' \in Seq(Ids)
        /\ Len(rows') = IF m <= Len(rows) THEN Len(rows) - m + 1 ELSE 0
        /\ \A i \in 1..(Len(rows) - m + 1) : rows'[i] = rows[m + i - 1]
    BY <1>1, <1>2, SubSeqProperties
  <1>4. Len(rows) - m + 1 = n
    BY <1>1
  <1> QED
    BY <1>1, <1>3, <1>4

\* The type invariant of the next state from its parts.
LEMMA TypeNext ==
    Scalars' /\ Distinct' /\ rows' \in Seq(Ids) /\ act' \in [Procs -> ActType] => TypeOK'
  <1>1. rows' \in Seq(Ids) /\ Distinct' => Len(rows') = Cardinality(Saved')
    BY SavedCount DEF Distinct, Saved
  <1> QED
    BY <1>1 DEF TypeOK, Scalars, ActType

\* A handler that saved its message ends: the event handler waits for the next
\* event, a request is answered 200.
LEMMA FinishMoves ==
  ASSUME act \in [Procs -> ActType], NEW p \in Procs, Finish(p)
  PROVE  /\ act' \in [Procs -> ActType]
         /\ \A q \in Procs \ {p} : act'[q] = act[q]
         /\ \/ p = Events /\ act'[p] = Nobody
            \/ p \in Requests /\ Moves(p, "done", "ok")
  <1>1. CASE p = Events
    <2>1. act' = [act EXCEPT ![p] = Nobody]
      BY <1>1 DEF Finish
    <2> QED
      BY <1>1, <2>1, NobodyTyped
  <1>2. CASE p # Events
    <2>1. Answer(p, "ok") /\ p \in Requests
      BY <1>2 DEF Finish, Procs
    <2>2. Moves(p, "done", "ok")
      BY <2>1, AnswerMoves
    <2> QED
      BY <2>1, <2>2 DEF Moves
  <1> QED
    BY <1>1, <1>2

\* Every step keeps the invariant of the requests.
LEMMA StepMessages == MsgInv /\ [Next]_vars => MsgInv'
  <1> SUFFICES ASSUME MsgInv, [Next]_vars PROVE MsgInv'
    OBVIOUS
  <1>t. Scalars /\ Distinct /\ rows \in Seq(Ids) /\ act \in [Procs -> ActType]
    BY TypeParts DEF MsgInv
  <1>i. (\A p \in Procs : Phase(act[p])) /\ Numbered /\ PollKept /\ VoteResolved
    BY DEF MsgInv
  <1>n. ASSUME Scalars', Distinct', rows' \in Seq(Ids), act' \in [Procs -> ActType],
               \A p \in Procs : Phase(act'[p]), Numbered', PollKept', VoteResolved'
        PROVE  MsgInv'
    BY <1>n, TypeNext DEF MsgInv
  <1>r. Requests \subseteq Procs /\ Events \in Procs /\ Events \notin Requests
    BY MessagesAssumption DEF MessagesAssumption, Procs
  <1>h. \A p \in Procs : act[p].op \in HandlerType
    BY <1>t, HandlerShape DEF ActType
  <1>b. Sessions \in Nat /\ Arrivals \in Nat /\ Limits \subseteq Nat /\ None \notin Ids
    BY MessagesAssumption DEF MessagesAssumption
  <1>1. CASE StartClient
    <2>1. /\ client' = seen.sessions + 1 /\ seen.sessions < Sessions
          /\ seen' = [seen EXCEPT !.sessions = @ + 1]
          /\ UNCHANGED <<limit, polls, rows, secrets, act, sync, arrived, vote>>
      BY <1>1 DEF StartClient
    <2>2. Scalars' /\ seen'.sessions = seen.sessions + 1 /\ seen.sessions \in Nat
      BY <2>1, <1>t, <1>b DEF Scalars
    <2>3. \A p \in Procs : act[p].sent \in Nat /\ act[p].sent <= seen.sessions
      BY <1>t, <1>i, <1>b DEF ActType, Numbered
    <2>4. Numbered' /\ PollKept'
      BY <2>1, <2>2, <2>3, <1>i, <1>r DEF Numbered, PollKept
    <2> QED
      BY <2>1, <2>2, <2>4, <1>t, <1>i, <1>n DEF Distinct, Phase, VoteResolved
  <1>2. CASE DeleteMyClient
    <2>1. /\ client' = 0 /\ polls' = {}
          /\ UNCHANGED <<limit, rows, secrets, act, sync, arrived, seen, vote>>
      BY <1>2 DEF DeleteMyClient
    <2>2. Scalars' /\ Numbered'
      BY <2>1, <1>t, <1>i, <1>b DEF Scalars, Numbered
    <2> QED
      BY <2>1, <2>2, <1>t, <1>i, <1>n DEF Distinct, Phase, VoteResolved, PollKept
  <1>3. ASSUME NEW l \in Limits, SetHistory(l) PROVE MsgInv'
    <2>1. limit' = l /\ UNCHANGED <<client, polls, rows, secrets, act, sync, arrived, seen, vote>>
      BY <1>3 DEF SetHistory
    <2> QED
      BY <2>1, <1>t, <1>i, <1>n DEF Scalars, Distinct, Phase, VoteResolved, Numbered, PollKept
  <1>4. ASSUME NEW r \in Requests, Begin(r) PROVE MsgInv'
    <2>1. act[r].st = "idle" /\ UNCHANGED <<client, limit, polls, rows, secrets, sync, arrived, seen, vote>>
      BY <1>4 DEF Begin
    <2>2. Scalars' /\ Distinct' /\ rows' \in Seq(Ids) /\ VoteResolved'
      BY <2>1, <1>t, <1>i DEF Scalars, Distinct, VoteResolved
    <2>3. act[r].sent = 0 /\ act[r].answer = "none" /\ act[r].held \in 0..Sessions
      BY <2>1, <1>i, <1>r, <1>t DEF Phase, ActType
    <2>4. CASE Answer(r, "error")
      <3>1. Moves(r, "done", "error")
        BY <2>4, <1>t, <1>r, AnswerMoves
      <3>2. Phase(act'[r])
        BY <3>1, <2>3 DEF Moves, Phase
      <3>3. Numbered' /\ PollKept'
        BY <3>1, <2>1, <1>i, <1>r DEF Moves, Numbered, PollKept
      <3> QED
        BY <3>1, <3>2, <3>3, <2>2, <1>i, <1>n DEF Moves
    <2>5. CASE ~Answer(r, "error")
      <3>1. PICK op \in Ops, id \in Ids \cup {None} :
               /\ client # 0
               /\ (id = None) = ~(op.history \/ op.options)
               /\ act' = [act EXCEPT ![r] =
                          [@ EXCEPT !.st = IF op.upload = "no" THEN "send" ELSE "upload",
                                    !.op = op, !.id = id,
                                    !.held = IF op.keeps THEN client ELSE 0]]
        BY <1>4, <2>5 DEF Begin
      <3>2. op \in Handlers /\ op \in HandlerType
        BY OpsAssumption, HandlerShape
      <3> DEFINE b == [act[r] EXCEPT !.st = IF op.upload = "no" THEN "send" ELSE "upload",
                                     !.op = op, !.id = id,
                                     !.held = IF op.keeps THEN client ELSE 0]
      <3>3. act[r] \in ActType /\ (IF op.keeps THEN client ELSE 0) \in 0..Sessions
        BY <1>t, <1>r, <1>b DEF Scalars
      <3>4. /\ b \in ActType /\ b.st \in {"send", "upload"} /\ b.answer = "none" /\ b.sent = 0
            /\ b.op = op /\ b.id = id
        BY <3>2, <3>3, <2>3 DEF ActType
      <3>5. act' = [act EXCEPT ![r] = b]
        BY <3>1
      <3> HIDE DEF b
      <3>6. /\ act' \in [Procs -> ActType] /\ act'[r] = b
            /\ \A q \in Procs \ {r} : act'[q] = act[q]
        BY <3>4, <3>5, <1>t, <1>r
      <3>7. op.history \/ op.options => id \in Ids
        BY <3>1, <3>2 DEF HandlerType
      <3>8. Phase(act'[r])
        BY <3>4, <3>6, <3>7 DEF Phase
      <3>9. Numbered' /\ PollKept'
        BY <3>4, <3>6, <2>1, <2>3, <1>i, <1>r DEF Numbered, PollKept
      <3> QED
        BY <3>6, <3>8, <3>9, <2>2, <1>i, <1>n
    <2> QED
      BY <2>4, <2>5
  <1>5. ASSUME NEW r \in Requests, Upload(r) PROVE MsgInv'
    <2>1. act[r].st = "upload" /\ UNCHANGED <<client, limit, polls, rows, secrets, sync, arrived, seen, vote>>
      BY <1>5 DEF Upload
    <2>2. Scalars' /\ Distinct' /\ rows' \in Seq(Ids) /\ VoteResolved'
      BY <2>1, <1>t, <1>i DEF Scalars, Distinct, VoteResolved
    <2>3. Phase(act[r]) /\ act[r].answer = "none"
      BY <2>1, <1>i, <1>r DEF Phase
    <2>4. Moves(r, "send", "none") \/ Moves(r, "done", "error")
      <3>1. Go(r, "send") \/ Answer(r, "error")
        BY <1>5 DEF Upload
      <3> QED
        BY <3>1, <2>3, <1>t, <1>r, GoMoves, AnswerMoves
    <2>5. Phase(act'[r])
      BY <2>1, <2>3, <2>4 DEF Moves, Phase
    <2>6. Numbered' /\ PollKept'
      BY <2>1, <2>4, <1>i, <1>r DEF Moves, Numbered, PollKept
    <2> QED
      BY <2>2, <2>4, <2>5, <2>6, <1>i, <1>n DEF Moves
  <1>6. ASSUME NEW r \in Requests, Send(r) PROVE MsgInv'
    <2>1. act[r].st = "send" /\ UNCHANGED <<client, limit, polls, rows, sync, arrived, vote>>
      BY <1>6 DEF Send
    <2>2. Distinct' /\ rows' \in Seq(Ids) /\ VoteResolved'
      BY <2>1, <1>t, <1>i DEF Distinct, VoteResolved
    <2>3. /\ Phase(act[r]) /\ act[r].answer = "none" /\ act[r].sent = 0
          /\ act[r] \in ActType /\ act[r].op \in HandlerType /\ client \in 0..Sessions
          /\ limit \in Limits
      BY <2>1, <1>i, <1>r, <1>h, <1>t DEF Phase, Scalars
    <2>s. /\ Scalars' /\ seen'.sessions = seen.sessions
      <3>1. \/ /\ act[r].op.options
               /\ secrets' = secrets \cup {act[r].id}
               /\ seen' = [seen EXCEPT !.secret = @ \cup {act[r].id}]
            \/ UNCHANGED <<secrets, seen>>
        BY <1>6 DEF Send
      <3>2. act[r].op.options => act[r].id \in Ids
        BY <2>1, <2>3 DEF Phase
      <3> QED
        BY <3>1, <3>2, <2>1, <1>t DEF Scalars
    <2>4. CASE \E how \in Failed(r) : Answer(r, how)
      <3>1. PICK how \in {"error", "text"} : Answer(r, how)
        BY <2>3, <2>4 DEF Failed, HandlerType
      <3>2. Moves(r, "done", how)
        BY <3>1, <1>t, <1>r, AnswerMoves
      <3>3. Phase(act'[r])
        BY <3>2, <2>3 DEF Moves, Phase
      <3>4. Numbered' /\ PollKept'
        BY <3>2, <2>1, <2>s, <1>i, <1>r DEF Moves, Numbered, PollKept
      <3> QED
        BY <2>2, <2>s, <3>2, <3>3, <3>4, <1>i, <1>n DEF Moves
    <2> DEFINE c == [act[r] EXCEPT !.sent = client]
               e == [act[r] EXCEPT !.st = "done", !.sent = client, !.answer = "error"]
    <2>5. PICK b \in {AfterSend(c), e} :
             \/ act' = [act EXCEPT ![r] = b] /\ (b = AfterSend(c) \/ act[r].op.does = "read")
             \/ \E how \in Failed(r) : Answer(r, how)
      BY <1>6 DEF Send
    <2>6. CASE act' = [act EXCEPT ![r] = b] /\ (b = AfterSend(c) \/ act[r].op.does = "read")
      <3>1. /\ c \in ActType /\ c.answer = "none" /\ c.sent = client
            /\ c.op = act[r].op /\ c.id = act[r].id
        BY <2>3 DEF ActType
      <3>2. CASE b = AfterSend(c)
        <4> HIDE DEF c, e
        <4>1. \/ /\ c.op.options /\ b = [c EXCEPT !.st = "options"]
              \/ /\ ~c.op.options /\ c.op.history /\ b = [c EXCEPT !.st = "save", !.limit = limit]
              \/ /\ ~c.op.options /\ b = [c EXCEPT !.st = "done", !.answer = "ok"]
          BY <3>2 DEF AfterSend
        <4>2. /\ b \in ActType /\ b.sent = client /\ b.op = act[r].op /\ b.id = act[r].id
              /\ \/ b.op.options /\ b.st = "options" /\ b.answer = "none"
                 \/ ~b.op.options /\ b.op.history /\ b.st = "save" /\ b.answer = "none"
                 \/ ~b.op.options /\ b.st = "done" /\ b.answer = "ok"
          <5>1. CASE c.op.options /\ b = [c EXCEPT !.st = "options"]
            BY <5>1, <3>1 DEF ActType
          <5>2. CASE /\ ~c.op.options /\ c.op.history
                     /\ b = [c EXCEPT !.st = "save", !.limit = limit]
            BY <5>2, <3>1, <2>3 DEF ActType
          <5>3. CASE ~c.op.options /\ b = [c EXCEPT !.st = "done", !.answer = "ok"]
            BY <5>3, <3>1 DEF ActType
          <5> QED
            BY <4>1, <5>1, <5>2, <5>3
        <4>3. /\ act' \in [Procs -> ActType] /\ act'[r] = b
              /\ \A q \in Procs \ {r} : act'[q] = act[q]
          BY <4>2, <2>6, <1>t, <1>r
        <4>4. Phase(act'[r])
          BY <4>2, <4>3, <2>1, <2>3 DEF Phase
        <4>5. Numbered' /\ PollKept'
          BY <4>2, <4>3, <2>1, <2>3, <2>s, <1>i, <1>r DEF Numbered, PollKept, Phase
        <4> QED
          BY <2>2, <2>s, <4>3, <4>4, <4>5, <1>i, <1>n
      <3>3. CASE b = e /\ act[r].op.does = "read"
        <4>1. /\ e \in ActType /\ e.sent = client /\ e.op = act[r].op /\ e.id = act[r].id
              /\ e.st = "done" /\ e.answer = "error"
          BY <2>3 DEF ActType
        <4> HIDE DEF c, e
        <4>2. /\ act' \in [Procs -> ActType] /\ act'[r] = e
              /\ \A q \in Procs \ {r} : act'[q] = act[q]
          BY <4>1, <3>3, <2>6, <1>t, <1>r
        <4>3. Phase(act'[r])
          BY <4>1, <4>2, <3>3 DEF Phase
        <4>4. Numbered' /\ PollKept'
          BY <4>1, <4>2, <2>1, <2>3, <2>s, <1>i, <1>r DEF Numbered, PollKept, Phase
        <4> QED
          BY <2>2, <2>s, <4>2, <4>3, <4>4, <1>i, <1>n
      <3> QED
        BY <3>2, <3>3, <2>6
    <2> QED
      BY <2>4, <2>5, <2>6
  <1>7. ASSUME NEW r \in Requests, SetPollOptions(r) PROVE MsgInv'
    <2>1. /\ act[r].st = "options" /\ polls' = polls \cup {act[r].id}
          /\ UNCHANGED <<client, limit, rows, secrets, sync, arrived, seen, vote>>
      BY <1>7 DEF SetPollOptions
    <2>2. Phase(act[r]) /\ act[r].id \in Ids
      BY <2>1, <1>i, <1>r DEF Phase
    <2>3. Scalars' /\ Distinct' /\ rows' \in Seq(Ids) /\ VoteResolved'
      BY <2>1, <2>2, <1>t, <1>i DEF Scalars, Distinct, VoteResolved
    <2>4. Moves(r, "done", "ok")
      BY <1>7, <1>t, <1>r, AnswerMoves DEF SetPollOptions
    <2>5. Phase(act'[r])
      BY <2>2, <2>4 DEF Moves, Phase
    <2>6. Numbered' /\ PollKept'
      BY <2>1, <2>4, <1>i, <1>r DEF Moves, Numbered, PollKept
    <2> QED
      BY <2>3, <2>4, <2>5, <2>6, <1>i, <1>n DEF Moves
  <1>8. ASSUME NEW p \in Procs, act[p].st \in {"save", "trimSecrets", "trimRows"}, Finish(p),
               UNCHANGED <<client, polls, vote>>, seen'.sessions = seen.sessions,
               Scalars', Distinct', rows' \in Seq(Ids)
        PROVE  MsgInv'
    <2>1. /\ act' \in [Procs -> ActType]
          /\ \A q \in Procs \ {p} : act'[q] = act[q]
          /\ \/ p = Events /\ act'[p] = Nobody
             \/ p \in Requests /\ Moves(p, "done", "ok")
      BY <1>8, <1>t, FinishMoves
    <2>2. CASE p = Events /\ act'[p] = Nobody
      <3>1. Nobody.st = "idle" /\ Nobody.answer = "none" /\ Nobody.sent = 0
        BY DEF Nobody
      <3>2. Phase(act'[p])
        BY <2>2, <3>1 DEF Phase
      <3>3. seen.sessions \in Nat
        BY <1>t, <1>b DEF Scalars
      <3>4. Numbered' /\ PollKept'
        BY <2>1, <2>2, <3>1, <3>3, <1>8, <1>i, <1>r DEF Numbered, PollKept
      <3> QED
        BY <2>1, <3>2, <3>4, <1>8, <1>i, <1>n DEF VoteResolved
    <2>3. CASE p \in Requests /\ Moves(p, "done", "ok")
      <3>1. Phase(act'[p])
        BY <2>3, <1>i DEF Moves, Phase
      <3>2. ~act[p].op.options
        BY <2>3, <1>8, <1>i DEF PollKept
      <3>3. Numbered' /\ PollKept'
        BY <2>3, <3>2, <1>8, <1>i, <1>r DEF Moves, Numbered, PollKept
      <3> QED
        BY <2>1, <3>1, <3>3, <1>8, <1>i, <1>n DEF VoteResolved
    <2> QED
      BY <2>1, <2>2, <2>3
  <1>9. ASSUME NEW p \in Procs, NEW st \in {"trimSecrets", "trimRows"}, Go(p, st),
               act[p].st \in {"save", "trimSecrets"},
               UNCHANGED <<client, polls, vote, seen>>,
               Scalars', Distinct', rows' \in Seq(Ids)
        PROVE  MsgInv'
    <2>1. Phase(act[p]) /\ act[p].answer = "none"
      BY <1>9, <1>i DEF Phase
    <2>2. Moves(p, st, "none")
      BY <2>1, <1>9, <1>t, GoMoves
    <2>3. Phase(act'[p])
      BY <2>1, <2>2 DEF Moves, Phase
    <2>4. Numbered' /\ PollKept'
      BY <2>2, <1>9, <1>i, <1>r DEF Moves, Numbered, PollKept
    <2> QED
      BY <2>2, <2>3, <2>4, <1>9, <1>i, <1>n DEF Moves, VoteResolved
  <1>10. ASSUME NEW p \in Procs, saveMessageToHistory(p) PROVE MsgInv'
    <2>1. act[p].st = "save" /\ UNCHANGED <<client, limit, polls, secrets, sync, arrived, seen, vote>>
      BY <1>10 DEF saveMessageToHistory
    <2>2. Scalars' /\ act[p].id \in Ids
      BY <2>1, <1>t, <1>i DEF Scalars, Phase
    <2>3. CASE act[p].id \notin Saved /\ Insert(act[p].id) /\ Go(p, "trimSecrets")
      BY <2>1, <2>2, <2>3, <1>t, <1>9, InsertDistinct
    <2>4. CASE Finish(p) /\ UNCHANGED rows
      BY <2>1, <2>2, <2>4, <1>t, <1>8 DEF Distinct
    <2> QED
      BY <1>10, <2>3, <2>4 DEF saveMessageToHistory
  <1>11. ASSUME NEW p \in Procs, TrimSecrets(p) PROVE MsgInv'
    <2>1. act[p].st = "trimSecrets" /\ UNCHANGED <<client, limit, polls, sync, arrived, vote>>
      BY <1>11 DEF TrimSecrets
    <2>2. CASE Go(p, "trimRows") /\ secrets' \subseteq secrets /\ UNCHANGED <<rows, seen>>
      <3>1. Scalars' /\ Distinct' /\ rows' \in Seq(Ids)
        BY <2>1, <2>2, <1>t DEF Scalars, Distinct
      <3> QED
        BY <2>1, <2>2, <3>1, <1>9
    <2>3. CASE TrimFails(p) /\ seen' = [seen EXCEPT !.slack = @ + 1]
      <3>1. Scalars' /\ Distinct' /\ rows' \in Seq(Ids) /\ seen'.sessions = seen.sessions
        <4>1. /\ seen' \in [sessions : 0..Sessions, slack : Nat, lost : SUBSET Ids,
                            secret : SUBSET Ids]
              /\ seen'.sessions = seen.sessions
          BY <2>3, <1>t DEF Scalars
        <4> QED
          BY <2>1, <2>3, <4>1, <1>t DEF Scalars, Distinct, TrimFails
      <3> QED
        BY <2>1, <2>3, <3>1, <1>8 DEF TrimFails
    <2>4. \/ Go(p, "trimRows") /\ secrets' \subseteq secrets /\ UNCHANGED <<rows, seen>>
          \/ TrimFails(p) /\ seen' = [seen EXCEPT !.slack = @ + 1]
      BY <1>11 DEF TrimSecrets
    <2> QED
      BY <2>2, <2>3, <2>4
  <1>12. ASSUME NEW p \in Procs, TrimRows(p) PROVE MsgInv'
    <2> DEFINE n == act[p].limit
    <2>1. /\ act[p].st = "trimRows" /\ Finish(p)
          /\ \/ rows' = IF Len(rows) > n THEN SubSeq(rows, Len(rows) - n + 1, Len(rows)) ELSE rows
             \/ rows' = rows
          /\ \/ seen' = [seen EXCEPT !.slack = 0, !.lost = @ \cup Excess(n)]
             \/ seen' = [seen EXCEPT !.slack = @ + 1, !.lost = @ \cup Excess(n)]
          /\ UNCHANGED <<client, limit, polls, secrets, sync, arrived, vote>>
      BY <1>12 DEF TrimRows, TrimFails
    <2>2. n \in Nat
      BY <1>t, LimitNat
    <2> HIDE DEF n
    <2>3. Len(rows) \in Nat /\ \A i \in 1..Len(rows) : rows[i] \in Ids
      BY <1>t, LenProperties
    <2>4. Excess(n) \subseteq Ids
      BY <2>3 DEF Excess
    <2>5. Scalars' /\ seen'.sessions = seen.sessions
      <3>1. seen.slack \in Nat /\ seen.lost \cup Excess(n) \subseteq Ids
        BY <2>4, <1>t DEF Scalars
      <3>2. /\ seen' \in [sessions : 0..Sessions, slack : Nat, lost : SUBSET Ids,
                          secret : SUBSET Ids]
            /\ seen'.sessions = seen.sessions
        <4> DEFINE L == seen.lost \cup Excess(n)
        <4>1. \/ seen' = [seen EXCEPT !.slack = 0, !.lost = L]
              \/ seen' = [seen EXCEPT !.slack = seen.slack + 1, !.lost = L]
          BY <2>1
        <4>2. /\ seen \in [sessions : 0..Sessions, slack : Nat, lost : SUBSET Ids,
                           secret : SUBSET Ids]
              /\ seen.slack + 1 \in Nat /\ L \in SUBSET Ids
          BY <3>1, <1>t DEF Scalars
        <4> HIDE DEF L
        <4>3. ASSUME NEW k \in Nat
              PROVE  /\ [seen EXCEPT !.slack = k, !.lost = L]
                           \in [sessions : 0..Sessions, slack : Nat, lost : SUBSET Ids,
                                secret : SUBSET Ids]
                     /\ [seen EXCEPT !.slack = k, !.lost = L].sessions = seen.sessions
          BY <4>2
        <4> QED
          BY <4>1, <4>2, <4>3
      <3> QED
        BY <2>1, <3>2, <1>t DEF Scalars
    <2>6. Distinct' /\ rows' \in Seq(Ids)
      <3>1. CASE Len(rows) > n /\ rows' # rows
        <4>1. /\ rows' \in Seq(Ids) /\ Len(rows') = n
              /\ \A i \in 1..n : rows'[i] = rows[i + (Len(rows) - n)]
          BY <2>1, <2>2, <3>1, <1>t, Trimmed
        <4>2. ASSUME NEW i \in 1..n, NEW j \in 1..n, rows'[i] = rows'[j] PROVE i = j
          <5> DEFINE d == Len(rows) - n
          <5>1. i + d \in 1..Len(rows) /\ j + d \in 1..Len(rows)
            BY <2>2, <2>3, <3>1
          <5>2. rows[i + d] = rows[j + d]
            BY <4>1, <4>2
          <5>3. i + d = j + d
            BY <5>1, <5>2, <1>t DEF Distinct
          <5> QED
            BY <5>3, <2>2, <2>3
        <4>3. Distinct'
          BY <4>1, <4>2 DEF Distinct
        <4> QED
          BY <4>1, <4>3
      <3>2. CASE ~(Len(rows) > n) \/ rows' = rows
        BY <3>2, <2>1, <1>t DEF Distinct
      <3> QED
        BY <3>1, <3>2
    <2> QED
      BY <2>1, <2>5, <2>6, <1>8
  <1>13. CASE Message
    <2>1. PICK id \in Ids, S \in SUBSET Ids :
             /\ secrets' = secrets \cup S
             /\ seen' = [seen EXCEPT !.secret = @ \cup S]
             /\ \/ limit > 0 /\ act' = [act EXCEPT ![Events] = [@ EXCEPT !.st = "save", !.id = id,
                                                                        !.limit = limit]]
                \/ UNCHANGED act
      <3>1. PICK id \in Ids, w \in BOOLEAN :
             /\ secrets' = secrets \cup (IF w THEN {id} ELSE {})
             /\ seen' = [seen EXCEPT !.secret = @ \cup (IF w THEN {id} ELSE {})]
             /\ \/ limit > 0 /\ act' = [act EXCEPT ![Events] = [@ EXCEPT !.st = "save", !.id = id,
                                                                        !.limit = limit]]
                \/ UNCHANGED act
        BY <1>13 DEF Message
      <3>2. (IF w THEN {id} ELSE {}) \in SUBSET Ids
        OBVIOUS
      <3> QED
        BY <3>1, <3>2
    <2>2. /\ act[Events].st = "idle" /\ arrived' = arrived + 1 /\ arrived < Arrivals
          /\ UNCHANGED <<client, limit, polls, rows, sync, vote>>
      BY <1>13 DEF Message
    <2>3. Scalars' /\ seen'.sessions = seen.sessions
      BY <2>1, <2>2, <1>t, <1>b DEF Scalars
    <2>4. Distinct' /\ rows' \in Seq(Ids) /\ VoteResolved'
      BY <2>2, <1>t, <1>i DEF Distinct, VoteResolved
    <2>5. CASE UNCHANGED act
      BY <2>2, <2>3, <2>4, <2>5, <1>t, <1>i, <1>n DEF Numbered, PollKept, Phase
    <2>6. CASE act' = [act EXCEPT ![Events] = [@ EXCEPT !.st = "save", !.id = id, !.limit = limit]]
      <3> DEFINE b == [act[Events] EXCEPT !.st = "save", !.id = id, !.limit = limit]
      <3>1. act[Events] \in ActType /\ Phase(act[Events]) /\ limit \in Limits
        BY <1>t, <1>i, <1>r DEF Scalars
      <3>2. /\ b \in ActType /\ b.st = "save" /\ b.id = id /\ b.op = act[Events].op
            /\ b.answer = act[Events].answer /\ b.sent = act[Events].sent
        BY <3>1 DEF ActType
      <3>3. act' = [act EXCEPT ![Events] = b]
        BY <2>6
      <3> HIDE DEF b
      <3>4. /\ act' \in [Procs -> ActType] /\ act'[Events] = b
            /\ \A q \in Procs \ {Events} : act'[q] = act[q]
        BY <3>2, <3>3, <1>t, <1>r
      <3>5. Phase(act'[Events])
        BY <3>1, <3>2, <3>4, <2>2 DEF Phase
      <3>6. Numbered' /\ PollKept'
        BY <3>2, <3>4, <2>2, <2>3, <1>i, <1>r DEF Numbered, PollKept
      <3> QED
        BY <3>4, <3>5, <3>6, <2>3, <2>4, <1>i, <1>n
    <2> QED
      BY <2>1, <2>5, <2>6
  <1>14. CASE DecryptPollVote
    <2>1. /\ act[Events].st = "idle" /\ arrived' = arrived + 1 /\ arrived < Arrivals
          /\ UNCHANGED <<client, limit, polls, rows, secrets, sync, seen, vote>>
      BY <1>14 DEF DecryptPollVote
    <2>2. Scalars' /\ Distinct' /\ rows' \in Seq(Ids) /\ VoteResolved'
      BY <2>1, <1>t, <1>i, <1>b DEF Scalars, Distinct, VoteResolved
    <2>3. PICK id \in Ids :
             \/ act' = [act EXCEPT ![Events] = [@ EXCEPT !.st = "vote", !.id = id]]
             \/ UNCHANGED act
      <3>2. PICK r \in Requests :
               /\ act[r].op.options /\ act[r].sent # 0
               /\ \/ /\ act[r].id \in secrets
                     /\ act' = [act EXCEPT ![Events] = [@ EXCEPT !.st = "vote", !.id = act[r].id]]
                  \/ UNCHANGED act
        BY <1>14 DEF DecryptPollVote
      <3>3. act[r].id \in Ids
        BY <3>2, <1>i, <1>r DEF PollKept
      <3> QED
        BY <3>2, <3>3
    <2>4. CASE UNCHANGED act
      BY <2>1, <2>2, <2>4, <1>t, <1>i, <1>n DEF Numbered, PollKept, Phase
    <2>5. CASE act' = [act EXCEPT ![Events] = [@ EXCEPT !.st = "vote", !.id = id]]
      <3> DEFINE b == [act[Events] EXCEPT !.st = "vote", !.id = id]
      <3>1. act[Events] \in ActType /\ Phase(act[Events])
        BY <1>t, <1>i, <1>r
      <3>2. /\ b \in ActType /\ b.st = "vote" /\ b.id = id /\ b.op = act[Events].op
            /\ b.answer = act[Events].answer /\ b.sent = act[Events].sent
        BY <3>1 DEF ActType
      <3>3. act' = [act EXCEPT ![Events] = b]
        BY <2>5
      <3> HIDE DEF b
      <3>4. /\ act' \in [Procs -> ActType] /\ act'[Events] = b
            /\ \A q \in Procs \ {Events} : act'[q] = act[q]
        BY <3>2, <3>3, <1>t, <1>r
      <3>5. Phase(act'[Events])
        BY <3>1, <3>2, <3>4, <2>1 DEF Phase
      <3>6. Numbered' /\ PollKept'
        BY <3>2, <3>4, <2>1, <1>i, <1>r DEF Numbered, PollKept
      <3> QED
        BY <3>4, <3>5, <3>6, <2>2, <1>i, <1>n
    <2> QED
      BY <2>3, <2>4, <2>5
  <1>18. CASE GetPollOptions
    <2>1. /\ act' = [act EXCEPT ![Events] = Nobody]
          /\ UNCHANGED <<client, limit, polls, rows, secrets, sync, arrived, seen>>
      BY <1>18 DEF GetPollOptions
    <2> DEFINE due == \E r \in Requests : /\ act[r].op.options /\ act[r].id = act[Events].id
                                          /\ act[r].answer = "ok"
                                          /\ client # 0 /\ act[r].sent = client
               options == act[Events].id \in polls
    <2>2. vote' = [due |-> due, options |-> options]
      BY <1>18 DEF GetPollOptions
    <2>3. due \in BOOLEAN /\ options \in BOOLEAN
      OBVIOUS
    <2>4. due => options
      BY <1>i DEF PollKept
    <2> HIDE DEF due, options
    <2>5. vote' \in [due : BOOLEAN, options : BOOLEAN] /\ VoteResolved'
      BY <2>2, <2>3, <2>4 DEF VoteResolved
    <2>6. Scalars' /\ Distinct' /\ rows' \in Seq(Ids)
      BY <2>1, <2>5, <1>t DEF Scalars, Distinct
    <2>7. /\ act' \in [Procs -> ActType] /\ act'[Events] = Nobody
          /\ \A q \in Procs \ {Events} : act'[q] = act[q]
      BY <2>1, <1>t, <1>r, NobodyTyped
    <2>8. /\ Nobody.st = "idle" /\ Nobody.answer = "none" /\ Nobody.sent = 0
          /\ seen.sessions \in Nat
      BY <1>t, <1>b DEF Nobody, Scalars
    <2>9. Phase(act'[Events])
      BY <2>7, <2>8 DEF Phase
    <2>10. Numbered' /\ PollKept'
      BY <2>1, <2>7, <2>8, <1>i, <1>r DEF Numbered, PollKept
    <2> QED
      BY <2>5, <2>6, <2>7, <2>9, <2>10, <1>i, <1>n
  <1>19. ASSUME NEW id \in Ids, ForeignTrim(id) PROVE MsgInv'
    <2>1. /\ secrets' = secrets \ {id} /\ seen' = [seen EXCEPT !.lost = @ \cup {id}]
          /\ UNCHANGED <<client, limit, polls, rows, act, sync, arrived, vote>>
      BY <1>19 DEF ForeignTrim
    <2>2. Scalars' /\ seen'.sessions = seen.sessions
      BY <2>1, <1>t DEF Scalars
    <2> QED
      BY <2>1, <2>2, <1>t, <1>i, <1>n DEF Distinct, Numbered, PollKept, Phase, VoteResolved
  <1>15. CASE HistorySync
    <2>1. PICK id \in Ids : sync' = sync \cup {id}
      BY <1>15 DEF HistorySync
    <2>2. /\ arrived' = arrived + 1 /\ arrived < Arrivals
          /\ UNCHANGED <<client, limit, polls, rows, secrets, act, seen, vote>>
      BY <1>15 DEF HistorySync
    <2>3. Scalars'
      BY <2>1, <2>2, <1>t, <1>b DEF Scalars
    <2> QED
      BY <2>2, <2>3, <1>t, <1>i, <1>n DEF Distinct, Numbered, PollKept, Phase, VoteResolved
  <1>16. ASSUME NEW id \in Ids, SyncSave(id) PROVE MsgInv'
    <2>1. /\ sync' = sync \ {id}
          /\ UNCHANGED <<client, limit, polls, secrets, act, arrived, vote>>
      BY <1>16 DEF SyncSave
    <2>2. \/ /\ id \notin Saved /\ Insert(id)
             /\ seen' = [seen EXCEPT !.slack = @ + 1]
          \/ UNCHANGED <<rows, seen>>
      BY <1>16 DEF SyncSave
    <2>3. Scalars' /\ seen'.sessions = seen.sessions
      BY <2>1, <2>2, <1>t DEF Scalars
    <2>4. Distinct' /\ rows' \in Seq(Ids)
      <3>1. CASE id \notin Saved /\ Insert(id)
        BY <3>1, <1>t, InsertDistinct
      <3>2. CASE UNCHANGED rows
        BY <3>2, <1>t DEF Distinct
      <3> QED
        BY <2>2, <3>1, <3>2
    <2> QED
      BY <2>1, <2>3, <2>4, <1>t, <1>i, <1>n DEF Numbered, PollKept, Phase, VoteResolved
  <1>17. CASE UNCHANGED vars
    BY <1>17, <1>t, <1>i, <1>n DEF vars, Scalars, Distinct, Numbered, PollKept, Phase, VoteResolved
  <1> QED
    BY <1>1, <1>2, <1>3, <1>4, <1>5, <1>6, <1>7, <1>10, <1>11, <1>12, <1>13, <1>14, <1>15,
       <1>16, <1>17, <1>18, <1>19 DEF Next

-----------------------------------------------------------------------------
(* Secrets and rows under interleaved trims *)

\* the ids of a table that keeps its n newest rows would lose
Oldest(s, n) == {s[i] : i \in {j \in 1..Len(s) : j + n <= Len(s)}}

LEMMA ExcessIsOldest == \A n : Excess(n) = Oldest(rows, n)
  BY DEF Excess, Oldest

\* A secret that came and is gone is accounted for, or the trim that took it is
\* about to take its row; whether the row was ever saved does not matter.
SecretsAccounted ==
    \A id \in seen.secret \ (secrets \cup seen.lost) :
        \E p \in Procs : act[p].st = "trimRows" /\ id \in Oldest(rows, act[p].limit)

\* A trim to n rows leaves what a trim to fewer would take in its place.
LEMMA OldestAfterTrim ==
  ASSUME rows \in Seq(Ids), NEW n \in Nat, NEW m \in Nat,
         NEW id \in Oldest(rows, m) \ Oldest(rows, n),
         rows' = IF Len(rows) > n THEN SubSeq(rows, Len(rows) - n + 1, Len(rows)) ELSE rows
  PROVE  id \in Oldest(rows', m)
  <1>1. Len(rows) \in Nat
    BY LenProperties
  <1>2. PICK j \in 1..Len(rows) : j + m <= Len(rows) /\ id = rows[j]
    BY DEF Oldest
  <1>3. ~(j + n <= Len(rows))
    BY <1>2 DEF Oldest
  <1>4. CASE Len(rows) > n
    <2> DEFINE k == j - (Len(rows) - n)
    <2>1. /\ Len(rows') = n /\ \A i \in 1..n : rows'[i] = rows[i + (Len(rows) - n)]
      BY <1>4, Trimmed
    <2>2. k \in 1..n /\ k + m <= n /\ k + (Len(rows) - n) = j
      BY <1>1, <1>2, <1>3, <1>4
    <2>3. rows'[k] = id
      BY <2>1, <2>2, <1>2
    <2> HIDE DEF k
    <2> QED
      BY <2>1, <2>2, <2>3 DEF Oldest
  <1>5. CASE ~(Len(rows) > n)
    BY <1>2, <1>5 DEF Oldest
  <1> QED
    BY <1>4, <1>5

\* A new row pushes the others towards the end of the history.
LEMMA OldestAfterInsert ==
  ASSUME rows \in Seq(Ids), NEW x \in Ids, Insert(x), NEW m \in Nat
  PROVE  Oldest(rows, m) \subseteq Oldest(rows', m)
  <1>1. /\ Len(rows) \in Nat /\ Len(rows') = Len(rows) + 1
        /\ \A i \in 1..Len(rows) : rows'[i] = rows[i]
    BY AppendProperties, LenProperties DEF Insert
  <1>2. ASSUME NEW j \in 1..Len(rows), j + m <= Len(rows) PROVE rows[j] \in Oldest(rows', m)
    <2>1. j \in 1..Len(rows') /\ j + m <= Len(rows') /\ rows'[j] = rows[j]
      BY <1>1, <1>2
    <2> QED
      BY <2>1 DEF Oldest
  <1> QED
    BY <1>2 DEF Oldest

\* Steps that take no secret, remove no row and move no handler that is about
\* to trim its rows keep the account.
LEMMA AccountKept ==
  ASSUME SecretsAccounted, rows \in Seq(Ids), act \in [Procs -> ActType],
         UNCHANGED rows \/ (\E x \in Ids : Insert(x)),
         \A p \in Procs : act[p].st = "trimRows" => act'[p] = act[p],
         seen'.secret \ secrets' \subseteq seen.secret \ secrets,
         seen.lost \subseteq seen'.lost
  PROVE  SecretsAccounted'
  <1> SUFFICES ASSUME NEW id \in seen'.secret \ (secrets' \cup seen'.lost)
               PROVE  \E p \in Procs : act'[p].st = "trimRows" /\ id \in Oldest(rows', act'[p].limit)
    BY DEF SecretsAccounted
  <1>1. PICK p \in Procs : act[p].st = "trimRows" /\ id \in Oldest(rows, act[p].limit)
    BY DEF SecretsAccounted
  <1>2. act'[p] = act[p] /\ act[p].limit \in Nat
    BY <1>1, LimitNat
  <1>3. Oldest(rows, act[p].limit) \subseteq Oldest(rows', act[p].limit)
    BY <1>2, OldestAfterInsert
  <1> QED
    BY <1>1, <1>2, <1>3


\* handlers between their INSERT and the end of their trim
Trimming == {p \in Procs : act[p].st \in {"trimSecrets", "trimRows"}}

\* What HistoryBounded counts is a natural number.
LEMMA TrimmingCount ==
    /\ IsFiniteSet(Trimming) /\ Cardinality(Trimming) \in Nat
    /\ IsFiniteSet(Trimming') /\ Cardinality(Trimming') \in Nat
  <1>1. IsFiniteSet(Procs)
    BY MessagesAssumption, FS_AddElement DEF MessagesAssumption, Procs
  <1>2. Trimming \in SUBSET Procs /\ Trimming' \in SUBSET Procs
    BY DEF Trimming
  <1>3. IsFiniteSet(Trimming) /\ IsFiniteSet(Trimming')
    BY <1>1, <1>2, FS_Subset
  <1> QED
    BY <1>3, FS_CardinalityType

\* HistoryBounded in these terms.
LEMMA Bound ==
    /\ HistoryBounded <=> Len(rows) <= MaxLimit + seen.slack + Cardinality(Trimming)
    /\ HistoryBounded' <=> Len(rows') <= MaxLimit + seen'.slack + Cardinality(Trimming')
  BY DEF HistoryBounded, Trimming, MaxLimit

\* Steps that leave the handlers that trim alone, and save only what they count
\* as slack, keep the bound.
LEMMA BoundKept ==
  ASSUME HistoryBounded, rows \in Seq(Ids), seen.slack \in Nat, seen'.slack \in Nat,
         \/ UNCHANGED rows /\ seen'.slack = seen.slack
         \/ (\E x \in Ids : Insert(x)) /\ seen'.slack = seen.slack + 1,
         \A p \in Trimming : act'[p] = act[p]
  PROVE  HistoryBounded'
  <1>1. Len(rows) \in Nat /\ \A x \in Ids : Insert(x) => Len(rows') = Len(rows) + 1
    BY AppendProperties, LenProperties DEF Insert
  <1>2. Trimming \subseteq Trimming'
    BY DEF Trimming
  <1>3. Cardinality(Trimming) <= Cardinality(Trimming')
    BY <1>2, TrimmingCount, FS_Subset
  <1>4. Len(rows) <= MaxLimit + seen.slack + Cardinality(Trimming)
    BY Bound
  <1>5. Len(rows') <= MaxLimit + seen'.slack + Cardinality(Trimming')
    <2>1. CASE UNCHANGED rows /\ seen'.slack = seen.slack
      BY <2>1, <1>1, <1>3, <1>4, TrimmingCount, MaxLimitBounds
    <2>2. CASE (\E x \in Ids : Insert(x)) /\ seen'.slack = seen.slack + 1
      <3>1. Len(rows') = Len(rows) + 1
        BY <2>2, <1>1
      <3> QED
        BY <3>1, <2>2, <1>1, <1>3, <1>4, TrimmingCount, MaxLimitBounds
    <2> QED
      BY <2>1, <2>2
  <1> QED
    BY <1>5, Bound

\* A handler that gives up its trim leaves one more row than it should.
LEMMA BoundGivenUp ==
  ASSUME HistoryBounded, rows \in Seq(Ids), seen.slack \in Nat, NEW p \in Trimming,
         UNCHANGED rows, seen'.slack = seen.slack + 1,
         \A q \in Procs \ {p} : act'[q] = act[q]
  PROVE  HistoryBounded'
  <1>1. Len(rows) \in Nat
    BY LenProperties
  <1>2. Trimming \ {p} \subseteq Trimming'
    BY DEF Trimming
  <1>3. Cardinality(Trimming \ {p}) = Cardinality(Trimming) - 1
    BY TrimmingCount, FS_RemoveElement
  <1>4. Cardinality(Trimming \ {p}) <= Cardinality(Trimming')
    BY <1>2, TrimmingCount, FS_Subset
  <1>5. Len(rows) <= MaxLimit + seen.slack + Cardinality(Trimming)
    BY Bound
  <1>6. Len(rows') <= MaxLimit + seen'.slack + Cardinality(Trimming')
    BY <1>1, <1>3, <1>4, <1>5, TrimmingCount, MaxLimitBounds
  <1> QED
    BY <1>6, Bound

\* Every step keeps both.
LEMMA StepHistory ==
    MsgInv /\ SecretsAccounted /\ HistoryBounded /\ [Next]_vars => SecretsAccounted' /\ HistoryBounded'
  <1> DEFINE Goal == SecretsAccounted' /\ HistoryBounded'
  <1> SUFFICES ASSUME MsgInv, SecretsAccounted, HistoryBounded, [Next]_vars PROVE Goal
    OBVIOUS
  <1>t. Scalars /\ Distinct /\ rows \in Seq(Ids) /\ act \in [Procs -> ActType]
    BY TypeParts DEF MsgInv
  <1>p. \A p \in Procs : Phase(act[p])
    BY DEF MsgInv
  <1>s. seen.slack \in Nat
    BY <1>t DEF Scalars
  <1>k. ASSUME \/ UNCHANGED rows /\ seen'.slack = seen.slack
               \/ (\E x \in Ids : Insert(x)) /\ seen'.slack = seen.slack + 1,
               \A p \in Procs : act[p].st \in {"trimSecrets", "trimRows"} => act'[p] = act[p],
               seen'.secret \ secrets' \subseteq seen.secret \ secrets,
               seen.lost \subseteq seen'.lost
        PROVE  Goal
    <2>1. SecretsAccounted'
      BY <1>k, <1>t, AccountKept
    <2>2. HistoryBounded'
      BY <1>k, <1>t, <1>s, BoundKept DEF Trimming
    <2> QED
      BY <2>1, <2>2
  <1>o. ASSUME NEW p \in Procs, act[p].st \notin {"trimSecrets", "trimRows"},
               \A q \in Procs \ {p} : act'[q] = act[q], UNCHANGED <<rows, secrets, seen>>
        PROVE  Goal
    BY <1>o, <1>k
  <1>r. Requests \subseteq Procs /\ Events \in Procs
    BY DEF Procs
  <1>1. CASE StartClient \/ DeleteMyClient \/ (\E l \in Limits : SetHistory(l))
    <2>1. UNCHANGED <<rows, secrets, act>> /\ seen'.secret = seen.secret
          /\ seen'.lost = seen.lost /\ seen'.slack = seen.slack
      BY <1>1, <1>t DEF StartClient, DeleteMyClient, SetHistory, Scalars
    <2> QED
      BY <2>1, <1>k
  <1>2. ASSUME NEW r \in Requests, Begin(r) \/ Upload(r) \/ SetPollOptions(r) PROVE Goal
    <2>1. /\ act[r].st \in {"idle", "upload", "options"}
          /\ \A q \in Procs \ {r} : act'[q] = act[q]
          /\ UNCHANGED <<rows, secrets, seen>>
      BY <1>2, <1>t DEF Begin, Upload, SetPollOptions, Go, Answer
    <2> QED
      BY <2>1, <1>o, <1>r
  <1>3. ASSUME NEW r \in Requests, Send(r) PROVE Goal
    <2>1. act[r].st = "send" /\ UNCHANGED rows
      BY <1>3 DEF Send
    <2>2. \A q \in Procs \ {r} : act'[q] = act[q]
      BY <1>3, <1>t DEF Send, Answer
    <2>3. \/ /\ secrets' = secrets \cup {act[r].id}
             /\ seen' = [seen EXCEPT !.secret = @ \cup {act[r].id}]
          \/ UNCHANGED <<secrets, seen>>
      BY <1>3 DEF Send
    <2>4. /\ seen'.secret \ secrets' \subseteq seen.secret \ secrets
          /\ seen'.lost = seen.lost /\ seen'.slack = seen.slack
      BY <2>3, <1>t DEF Scalars
    <2> QED
      BY <2>1, <2>2, <2>4, <1>k, <1>r
  <1>4. ASSUME NEW p \in Procs, saveMessageToHistory(p) PROVE Goal
    <2>1. act[p].st = "save" /\ UNCHANGED <<secrets, seen>> /\ act[p].id \in Ids
      BY <1>4, <1>p DEF saveMessageToHistory, Phase
    <2>2. CASE Finish(p) /\ UNCHANGED rows
      <3>1. \A q \in Procs \ {p} : act'[q] = act[q]
        BY <2>2, <1>t, FinishMoves
      <3> QED
        BY <2>1, <2>2, <3>1, <1>o
    <2>3. CASE act[p].id \notin Saved /\ Insert(act[p].id) /\ Go(p, "trimSecrets")
      <3>1. Moves(p, "trimSecrets", act[p].answer)
        BY <2>3, <1>t, GoMoves
      <3>2. SecretsAccounted'
        BY <2>1, <2>3, <3>1, <1>t, AccountKept DEF Moves
      <3>3. Len(rows) \in Nat /\ Len(rows') = Len(rows) + 1
        BY <2>1, <2>3, <1>t, AppendProperties, LenProperties DEF Insert
      <3>4. Trimming' = Trimming \cup {p} /\ p \notin Trimming
        BY <2>1, <3>1 DEF Moves, Trimming
      <3>5. Cardinality(Trimming') = Cardinality(Trimming) + 1
        BY <3>4, TrimmingCount, FS_AddElement
      <3>6. Len(rows) <= MaxLimit + seen.slack + Cardinality(Trimming)
        BY Bound
      <3>11. Len(rows') <= MaxLimit + seen'.slack + Cardinality(Trimming')
        BY <2>1, <3>3, <3>5, <3>6, <1>s, TrimmingCount, MaxLimitBounds
      <3>12. HistoryBounded'
        BY <3>11, Bound
      <3> QED
        BY <3>2, <3>12
    <2> QED
      BY <1>4, <2>2, <2>3 DEF saveMessageToHistory
  <1>f. ASSUME NEW p \in Trimming, TrimFails(p), seen'.slack = seen.slack + 1,
               seen'.secret = seen.secret, seen.lost \subseteq seen'.lost,
               act[p].st = "trimRows" => Oldest(rows, act[p].limit) \subseteq seen'.lost
        PROVE  Goal
    <2>1. UNCHANGED <<rows, secrets>> /\ p \in Procs
      BY <1>f DEF TrimFails, Trimming
    <2>2. \A q \in Procs \ {p} : act'[q] = act[q]
      BY <2>1, <1>f, <1>t, FinishMoves DEF TrimFails
    <2>3. HistoryBounded'
      BY <2>1, <2>2, <1>f, <1>t, <1>s, BoundGivenUp
    <2>4. ASSUME NEW id \in seen'.secret \ (secrets' \cup seen'.lost)
          PROVE  \E q \in Procs : act'[q].st = "trimRows" /\ id \in Oldest(rows', act'[q].limit)
      <3>1. PICK q \in Procs : act[q].st = "trimRows" /\ id \in Oldest(rows, act[q].limit)
        BY <2>1, <2>4, <1>f DEF SecretsAccounted
      <3>2. q # p
        BY <3>1, <2>4, <1>f
      <3> QED
        BY <3>1, <3>2, <2>1, <2>2
    <2>5. SecretsAccounted'
      BY <2>4 DEF SecretsAccounted
    <2> QED
      BY <2>3, <2>5
  <1>5. ASSUME NEW p \in Procs, TrimSecrets(p) PROVE Goal
    <2>1. act[p].st = "trimSecrets"
      BY <1>5 DEF TrimSecrets
    <2>2. CASE /\ secrets' = secrets \ Excess(act[p].limit)
               /\ Go(p, "trimRows") /\ UNCHANGED <<rows, seen>>
      <3>1. secrets' = secrets \ Oldest(rows, act[p].limit)
        BY <2>2, ExcessIsOldest
      <3>2. Moves(p, "trimRows", act[p].answer)
        BY <2>2, <1>t, GoMoves
      <3>3. Trimming' = Trimming
        BY <2>1, <3>2 DEF Moves, Trimming
      <3>4. HistoryBounded'
        BY <2>2, <3>3, Bound
      <3>5. ASSUME NEW id \in seen.secret \ (secrets' \cup seen.lost)
            PROVE  \E q \in Procs : act'[q].st = "trimRows" /\ id \in Oldest(rows', act'[q].limit)
        <4>1. CASE id \in secrets
          BY <4>1, <2>2, <3>1, <3>2, <3>5 DEF Moves
        <4>2. CASE id \notin secrets
          <5>1. PICK q \in Procs : act[q].st = "trimRows" /\ id \in Oldest(rows, act[q].limit)
            BY <4>2, <3>5 DEF SecretsAccounted
          <5> QED
            BY <5>1, <2>1, <2>2, <3>2 DEF Moves
        <4> QED
          BY <4>1, <4>2
      <3>6. SecretsAccounted'
        BY <2>2, <3>5 DEF SecretsAccounted
      <3> QED
        BY <3>4, <3>6
    <2>3. CASE TrimFails(p) /\ seen' = [seen EXCEPT !.slack = @ + 1]
      <3>1. /\ seen'.slack = seen.slack + 1 /\ seen'.secret = seen.secret
            /\ seen'.lost = seen.lost
        BY <2>3, <1>t DEF Scalars
      <3>2. p \in Trimming
        BY <2>1 DEF Trimming
      <3> QED
        BY <2>1, <2>3, <3>1, <3>2, <1>f
    <2> QED
      BY <1>5, <2>2, <2>3 DEF TrimSecrets
  <1>6. ASSUME NEW p \in Procs, TrimRows(p) PROVE Goal
    <2> DEFINE n == act[p].limit
    <2>1. act[p].st = "trimRows"
      BY <1>6 DEF TrimRows
    <2>2. n \in Nat /\ n <= MaxLimit
      BY <1>t, LimitNat, MaxLimitBounds
    <2>3. CASE TrimFails(p) /\ seen' = [seen EXCEPT !.slack = @ + 1, !.lost = @ \cup Excess(n)]
      <3>1. /\ seen'.slack = seen.slack + 1 /\ seen'.secret = seen.secret
            /\ seen'.lost = seen.lost \cup Oldest(rows, n)
        BY <2>3, <1>t, ExcessIsOldest DEF Scalars
      <3>2. p \in Trimming
        BY <2>1 DEF Trimming
      <3> QED
        BY <2>3, <3>1, <3>2, <1>f
    <2>4. CASE /\ rows' = IF Len(rows) > n THEN SubSeq(rows, Len(rows) - n + 1, Len(rows)) ELSE rows
               /\ seen' = [seen EXCEPT !.slack = 0, !.lost = @ \cup Excess(n)]
               /\ Finish(p) /\ UNCHANGED secrets
      <3>1. \A q \in Procs \ {p} : act'[q] = act[q]
        BY <2>4, <1>t, FinishMoves
      <3>2. /\ seen'.lost = seen.lost \cup Oldest(rows, n)
            /\ seen'.secret = seen.secret /\ seen'.slack = 0
        BY <2>4, <1>t, ExcessIsOldest DEF Scalars
      <3>3. ASSUME NEW id \in seen'.secret \ (secrets' \cup seen'.lost)
            PROVE  \E q \in Procs : act'[q].st = "trimRows" /\ id \in Oldest(rows', act'[q].limit)
        <4>1. PICK q \in Procs : act[q].st = "trimRows" /\ id \in Oldest(rows, act[q].limit)
          BY <2>4, <3>2, <3>3 DEF SecretsAccounted
        <4>2. id \notin Oldest(rows, n) /\ q # p
          BY <3>2, <3>3, <4>1
        <4>3. act[q].limit \in Nat
          BY <1>t, LimitNat
        <4>4. id \in Oldest(rows', act[q].limit)
          <5> DEFINE m == act[q].limit
          <5> HIDE DEF m, n
          <5> QED
            BY <2>2, <2>4, <4>1, <4>2, <4>3, <1>t, OldestAfterTrim DEF m
        <4> QED
          BY <3>1, <4>1, <4>2, <4>4
      <3>4. SecretsAccounted'
        BY <3>3 DEF SecretsAccounted
      <3>5. Len(rows') <= n /\ Len(rows') \in Nat
        <4> HIDE DEF n
        <4>1. CASE Len(rows) > n
          BY <4>1, <2>2, <2>4, <1>t, Trimmed
        <4>2. CASE ~(Len(rows) > n)
          BY <4>2, <2>2, <2>4, <1>t, LenProperties
        <4> QED
          BY <4>1, <4>2
      <3>6. Len(rows') <= MaxLimit + seen'.slack + Cardinality(Trimming')
        <4> HIDE DEF n
        <4> QED
          BY <2>2, <3>2, <3>5, TrimmingCount, MaxLimitBounds
      <3> QED
        BY <3>4, <3>6, Bound
    <2> QED
      BY <1>6, <2>3, <2>4 DEF TrimRows
  <1>7. CASE Message
    <2>1. PICK S :
             secrets' = secrets \cup S /\ seen' = [seen EXCEPT !.secret = @ \cup S]
      BY <1>7 DEF Message
    <2>2. /\ act[Events].st = "idle" /\ UNCHANGED rows
          /\ \A q \in Procs \ {Events} : act'[q] = act[q]
      BY <1>7, <1>t DEF Message
    <2>3. /\ seen'.secret \ secrets' \subseteq seen.secret \ secrets
          /\ seen'.lost = seen.lost /\ seen'.slack = seen.slack
      BY <2>1, <1>t DEF Scalars
    <2> QED
      BY <2>2, <2>3, <1>k, <1>r
  <1>8. CASE DecryptPollVote \/ GetPollOptions \/ HistorySync
    <2>1. /\ act[Events].st \in {"idle", "vote"} /\ UNCHANGED <<rows, secrets, seen>>
          /\ \A q \in Procs \ {Events} : act'[q] = act[q]
      BY <1>8, <1>t DEF DecryptPollVote, GetPollOptions, HistorySync
    <2> QED
      BY <2>1, <1>o, <1>r
  <1>9. ASSUME NEW id \in Ids, SyncSave(id) PROVE Goal
    <2>1. UNCHANGED <<secrets, act>>
      BY <1>9 DEF SyncSave
    <2>2. \/ Insert(id) /\ seen' = [seen EXCEPT !.slack = @ + 1]
          \/ UNCHANGED <<rows, seen>>
      BY <1>9 DEF SyncSave
    <2>3. /\ \/ UNCHANGED rows /\ seen'.slack = seen.slack
             \/ Insert(id) /\ seen'.slack = seen.slack + 1
          /\ seen'.secret = seen.secret /\ seen'.lost = seen.lost
      BY <2>2, <1>t DEF Scalars
    <2> QED
      BY <2>1, <2>3, <1>k
  <1>11. ASSUME NEW id \in Ids, ForeignTrim(id) PROVE Goal
    <2>1. /\ secrets' = secrets \ {id} /\ seen' = [seen EXCEPT !.lost = @ \cup {id}]
          /\ UNCHANGED <<rows, act>>
      BY <1>11 DEF ForeignTrim
    <2>2. /\ seen'.lost = seen.lost \cup {id} /\ seen'.secret = seen.secret
          /\ seen'.slack = seen.slack
      BY <2>1, <1>t DEF Scalars
    <2>3. SecretsAccounted'
      BY <2>1, <2>2 DEF SecretsAccounted
    <2>4. HistoryBounded'
      BY <2>1, <2>2, <1>t, <1>s, BoundKept
    <2> QED
      BY <2>3, <2>4
  <1>10. CASE UNCHANGED vars
    BY <1>10, <1>k DEF vars
  <1> QED
    BY <1>1, <1>2, <1>3, <1>4, <1>5, <1>6, <1>7, <1>8, <1>9, <1>10, <1>11 DEF Next

-----------------------------------------------------------------------------
(* Theorems *)

\* The invariant of requests, rows, sessions and polls holds of every reachable state.
THEOREM MessagesInvariant == Spec => []MsgInv
  BY InitMessages, StepMessages, PTL DEF Spec

\* Types, and one row per message id whatever sends, events and syncs insert.
THEOREM MessageTypes == Spec => []TypeOK
  <1>1. MsgInv => TypeOK
    BY DEF MsgInv
  <1> QED
    BY <1>1, MessagesInvariant, PTL

\* For every handler and however sessions come and go meanwhile, an answer other
\* than 200 to a change means that no client acknowledged it.
THEOREM UnsentTheorem == Spec => []FailureMeansUnsent
  <1>1. MsgInv => FailureMeansUnsent
    BY DEF MsgInv, Phase, FailureMeansUnsent, Procs
  <1> QED
    BY <1>1, MessagesInvariant, PTL

\* A vote on an answered poll finds the options as long as the session lasts.
THEOREM VoteTheorem == Spec => []VoteResolved
  <1>1. MsgInv => VoteResolved
    BY DEF MsgInv
  <1> QED
    BY <1>1, MessagesInvariant, PTL

\* Secrets and counts hold of every reachable state.
THEOREM HistoryInvariant == Spec => [](SecretsAccounted /\ HistoryBounded)
  <1>1. Init => SecretsAccounted /\ HistoryBounded
    <2> SUFFICES ASSUME Init PROVE SecretsAccounted /\ HistoryBounded
      OBVIOUS
    <2>1. rows = <<>> /\ seen.secret = {} /\ seen.slack = 0
      BY DEF Init
    <2>2. Len(rows) = 0
      BY <2>1
    <2>3. Len(rows) <= MaxLimit + seen.slack + Cardinality(Trimming)
      BY <2>1, <2>2, TrimmingCount, MaxLimitBounds
    <2>4. HistoryBounded
      BY <2>3, Bound
    <2> QED
      BY <2>1, <2>4 DEF SecretsAccounted
  <1> QED
    BY <1>1, StepHistory, MessagesInvariant, PTL DEF Spec

\* However the two statements of several trims interleave and fail, a row loses its
\* secret only to a trim that goes for the row, or to another user's.
THEOREM SecretTheorem == Spec => []RowKeepsSecret
  <1>1. SecretsAccounted => RowKeepsSecret
    BY ExcessIsOldest DEF SecretsAccounted, RowKeepsSecret
  <1> QED
    BY <1>1, HistoryInvariant, PTL

\* The history exceeds the largest setting by no more than the handlers about to
\* trim it, the trims that failed and the synced messages since a trim worked.
THEOREM BoundTheorem == Spec => []HistoryBounded
  BY HistoryInvariant, PTL
=============================================================================
