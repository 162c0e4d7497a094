---------------------------- MODULE HistoryProofs ----------------------------
(* Proofs about HistoryRequest for every number of messages, chats and        *)
(* requests.                                                                  *)
EXTENDS HistoryRequest, SequenceTheorems, TLAPS

ReqType ==
    [st : {"new", "chat", "id", "build", "target", "say", "done", "error"},
     obj : Objects \cup {None}, plain : BOOLEAN, sent : Infos \cup {None},
     said : Infos \cup {None}, mixed : BOOLEAN]

\* Whoever holds the Info of a message holds it after its event arrived, a request
\* that found no entry holds an Info of its own, and one that started holds one.
Holding ==
    /\ last # None => ev[last] # "new"
    /\ \A r \in Requests :
          /\ req[r].obj \in Msgs => ev[req[r].obj] # "new"
          /\ req[r].obj \in Requests => req[r].obj = r
          /\ req[r].st # "new" => req[r].obj # None

\* What is in the Infos that no query parameter has reached.
Untouched ==
    /\ \A m \in Msgs \ touched : ev[m] # "new" => info[m] = Own(m)
    /\ \A r \in Requests : req[r].plain => info[r] = Zero

\* From Build to the answer, the Info still says what was asked for, unless another
\* request wrote to it; a request asks nothing before that.
Asking ==
    \A r \in Requests :
        /\ req[r].st \in {"new", "chat", "id", "build"} => req[r].sent = None
        /\ req[r].st \in {"target", "say"} /\ ~req[r].mixed => req[r].sent = info[req[r].obj]

HistInv ==
    /\ TypeOK /\ Holding /\ Untouched /\ Asking
    /\ EventKeepsInfo /\ PlainRequestAsksLast /\ AnswerNamesRequest

-----------------------------------------------------------------------------
\* An Info with one of its fields overwritten is an Info.
LEMMA FieldWritten ==
    ASSUME NEW i \in Infos
    PROVE  /\ \A c \in Chats : [i EXCEPT !["chat"] = c] \in Infos
           /\ \A m \in Msgs : [i EXCEPT !["id"] = m] \in Infos
  BY DEF Infos

\* The shape of a request, field by field.
LEMMA ReqShape ==
    ASSUME TypeOK, NEW r \in Requests
    PROVE  /\ req[r] \in ReqType
           /\ req[r].obj \in Objects \cup {None} /\ req[r].plain \in BOOLEAN
           /\ req[r].mixed \in BOOLEAN
           /\ req[r].sent \in Infos \cup {None} /\ req[r].said \in Infos \cup {None}
  BY DEF TypeOK, ReqType

\* The initial states satisfy the invariant.
LEMMA InitHistory == Init => HistInv
  <1> SUFFICES ASSUME Init PROVE HistInv
    OBVIOUS
  <1> USE HistoryAssumption DEF HistoryAssumption
  <1>1. Zero \in Infos /\ NoReq \in ReqType
    BY DEF Zero, Infos, NoReq, ReqType
  <1>2. TypeOK
    BY <1>1 DEF Init, TypeOK, ReqType
  <1>3. Holding /\ Untouched /\ Asking
    BY DEF Init, Holding, Untouched, Asking, NoReq, Objects
  <1>4. EventKeepsInfo /\ PlainRequestAsksLast /\ AnswerNamesRequest
    BY DEF Init, EventKeepsInfo, PlainRequestAsksLast, AnswerNamesRequest, NoReq
  <1> QED BY <1>2, <1>3, <1>4 DEF HistInv

-----------------------------------------------------------------------------
(* Message events *)

\* An event that arrives writes an Info that nobody holds yet.
LEMMA ReceiveKeeps ==
    ASSUME HistInv, NEW m \in Msgs, Receive(m)
    PROVE  HistInv'
  <1> USE HistoryAssumption DEF HistoryAssumption, HistInv
  <1>1. /\ ev[m] = "new" /\ info' = [info EXCEPT ![m] = Own(m)] /\ last' = m
        /\ ev' = [ev EXCEPT ![m] = "handling"]
        /\ UNCHANGED <<rows, hook, req, touched>>
    BY DEF Receive
  <1>2. Own(m) \in Infos /\ m \in Objects
    BY DEF Own, Infos, Objects
  <1>3. TypeOK'
    BY <1>1, <1>2 DEF TypeOK
  <1>4. info'[m] = Own(m) /\ (\A o \in Objects \ {m} : info'[o] = info[o])
    BY <1>1, <1>2 DEF TypeOK
  <1>5. /\ ev'[m] = "handling" /\ (\A x \in Msgs : ev[x] # "new" => ev'[x] # "new")
        /\ \A x \in Msgs \ {m} : ev'[x] = ev[x]
    BY <1>1 DEF TypeOK
  <1>6. \A r \in Requests : req[r].obj # m /\ r \in Objects /\ r # m
    BY <1>1 DEF Holding, Objects
  <1>7. Holding'
    BY <1>1, <1>5 DEF Holding
  <1>8. Untouched'
    BY <1>1, <1>4, <1>5, <1>6 DEF Untouched, Objects
  <1>9. Asking'
    <2> SUFFICES ASSUME NEW r \in Requests
                 PROVE  /\ req[r].st \in {"new", "chat", "id", "build"} => req[r].sent = None
                        /\ req[r].st \in {"target", "say"} /\ ~req[r].mixed =>
                              req[r].sent = info'[req[r].obj]
      BY <1>1 DEF Asking
    <2>1. req[r].st # "new" => req[r].obj \in Objects \ {m}
      BY <1>6, ReqShape DEF Holding
    <2> QED BY <2>1, <1>4 DEF Asking
  <1>10. EventKeepsInfo' /\ PlainRequestAsksLast' /\ AnswerNamesRequest'
    BY <1>1 DEF EventKeepsInfo, PlainRequestAsksLast, AnswerNamesRequest
  <1> QED BY <1>3, <1>7, <1>8, <1>9, <1>10

\* The row of a message is made from the Info its event carries by then.
LEMMA SaveKeeps ==
    ASSUME HistInv, NEW m \in Msgs, Save(m)
    PROVE  HistInv'
  <1> USE DEF HistInv
  <1> DEFINE x == [of |-> m, info |-> info[m]]
  <1>1. /\ ev[m] = "handling" /\ ev' = [ev EXCEPT ![m] = "saved"]
        /\ rows' = Append(rows, x) \/ UNCHANGED rows
        /\ UNCHANGED <<info, last, hook, req, touched>>
    BY DEF Save
  <1>2. x \in [of : Msgs, info : Infos] /\ x.of = m /\ x.info = info[m]
    BY DEF TypeOK, Objects
  <1>3. m \notin touched => info[m] = Own(m)
    BY <1>1 DEF Untouched
  <1> HIDE DEF x
  <1>4. rows' \in Seq([of : Msgs, info : Infos])
    <2> DEFINE R == [of : Msgs, info : Infos]
    <2>1. rows \in Seq(R) /\ x \in R
      BY <1>2 DEF TypeOK
    <2> HIDE DEF R
    <2>2. rows' \in Seq(R)
      BY <2>1, <1>1, AppendProperties
    <2> QED BY <2>2 DEF R
  <1>5. TypeOK'
    BY <1>1, <1>4 DEF TypeOK
  <1>6. \A y \in Msgs : ev'[y] = "new" <=> ev[y] = "new"
    BY <1>1 DEF TypeOK
  <1>7. Holding' /\ Untouched' /\ Asking'
    <2>1. Holding'
      BY <1>1, <1>6 DEF Holding, TypeOK
    <2>2. Untouched'
      BY <1>1, <1>6 DEF Untouched
    <2>3. Asking'
      BY <1>1 DEF Asking
    <2> QED BY <2>1, <2>2, <2>3
  <1>8. EventKeepsInfo'
    <2>1. CASE UNCHANGED rows
      BY <1>1, <2>1 DEF EventKeepsInfo
    <2>2. CASE rows' = Append(rows, x)
      <3>1. ASSUME NEW i \in DOMAIN rows', rows'[i].of \notin touched
            PROVE  rows'[i].info = Own(rows'[i].of)
        <4>0. rows \in Seq([of : Msgs, info : Infos])
          BY DEF TypeOK
        <4>1. rows'[i] = x \/ (i \in DOMAIN rows /\ rows'[i] = rows[i])
          BY <2>2, <4>0, <1>2, <3>1
        <4> QED BY <4>1, <3>1, <1>2, <1>3 DEF EventKeepsInfo
      <3> QED BY <3>1, <1>1 DEF EventKeepsInfo
    <2> QED BY <1>1, <2>1, <2>2
  <1>9. PlainRequestAsksLast' /\ AnswerNamesRequest'
    BY <1>1 DEF PlainRequestAsksLast, AnswerNamesRequest
  <1> QED BY <1>5, <1>7, <1>8, <1>9

\* The same of its webhook.
LEMMA PostKeeps ==
    ASSUME HistInv, NEW m \in Msgs, Post(m)
    PROVE  HistInv'
  <1> USE DEF HistInv
  <1>1. /\ ev[m] = "saved" /\ ev' = [ev EXCEPT ![m] = "done"]
        /\ hook' = [hook EXCEPT ![m] = info[m]]
        /\ UNCHANGED <<info, last, rows, req, touched>>
    BY DEF Post
  <1>2. info[m] \in Infos /\ (m \notin touched => info[m] = Own(m))
    BY <1>1 DEF Untouched, TypeOK, Objects
  <1>3. TypeOK'
    BY <1>1, <1>2 DEF TypeOK
  <1>4. \A y \in Msgs : ev'[y] = "new" <=> ev[y] = "new"
    BY <1>1 DEF TypeOK
  <1>5. Holding'
    BY <1>1, <1>4 DEF Holding, TypeOK
  <1>6. Untouched'
    BY <1>1, <1>4 DEF Untouched
  <1>7. Asking'
    BY <1>1 DEF Asking
  <1>8. EventKeepsInfo'
    <2>1. \A y \in Msgs \ touched : hook'[y] \in {None, Own(y)}
      BY <1>1, <1>2 DEF EventKeepsInfo, TypeOK
    <2> QED BY <1>1, <2>1 DEF EventKeepsInfo
  <1>9. PlainRequestAsksLast' /\ AnswerNamesRequest'
    BY <1>1 DEF PlainRequestAsksLast, AnswerNamesRequest
  <1> QED BY <1>3, <1>5, <1>6, <1>7, <1>8, <1>9

\* An entry that expires is only let go.
LEMMA ExpireKeeps ==
    ASSUME HistInv, Expire
    PROVE  HistInv'
  <1> USE DEF HistInv
  <1>1. last' = None /\ UNCHANGED <<info, ev, rows, hook, req, touched>>
    BY DEF Expire, evVars
  <1>2. TypeOK' /\ Holding'
    BY <1>1 DEF TypeOK, Holding
  <1>3. Untouched' /\ Asking'
    BY <1>1 DEF Untouched, Asking
  <1>4. EventKeepsInfo' /\ PlainRequestAsksLast' /\ AnswerNamesRequest'
    BY <1>1 DEF EventKeepsInfo, PlainRequestAsksLast, AnswerNamesRequest
  <1> QED BY <1>2, <1>3, <1>4

-----------------------------------------------------------------------------
(* RequestHistorySync *)

\* What must hold of a request for the invariant, given the Infos.
ReqInv(r, a) ==
    /\ a.obj \in Msgs => ev[a.obj] # "new"
    /\ a.obj \in Requests => a.obj = r
    /\ a.st # "new" => a.obj # None
    /\ a.plain => info[r] = Zero
    /\ a.st \in {"new", "chat", "id", "build"} => a.sent = None
    /\ a.st \in {"target", "say"} /\ ~a.mixed => a.sent = info[a.obj]
    /\ a.plain /\ a.sent # None /\ a.obj \notin touched =>
          a.sent = IF a.obj = r THEN Zero ELSE Own(a.obj)
    /\ a.st = "done" /\ ~a.mixed => a.said = a.sent

\* The invariant says that of every request.
LEMMA ReqInvs == HistInv => \A r \in Requests : ReqInv(r, req[r])
  BY DEF HistInv, Holding, Untouched, Asking, PlainRequestAsksLast, AnswerNamesRequest, ReqInv

\* A request that moves on without writing keeps the invariant if it keeps its part.
LEMMA MoveKeeps ==
    ASSUME HistInv, NEW r \in Requests, NEW a \in ReqType, ReqInv(r, a),
           req' = [req EXCEPT ![r] = a],
           UNCHANGED <<info, last, ev, rows, hook, touched>>
    PROVE  HistInv'
  <1> USE DEF HistInv
  <1>1. TypeOK'
    BY DEF TypeOK, ReqType
  <1>2. \A q \in Requests : req'[q] = IF q = r THEN a ELSE req[q]
    BY DEF TypeOK
  <1>3. \A q \in Requests : ReqInv(q, req'[q])
    BY <1>2, ReqInvs
  <1>4. Holding'
    BY <1>3 DEF Holding, ReqInv
  <1>5. Untouched'
    BY <1>3 DEF Untouched, ReqInv
  <1>6. Asking'
    BY <1>3 DEF Asking, ReqInv
  <1>7. PlainRequestAsksLast' /\ AnswerNamesRequest'
    BY <1>3 DEF PlainRequestAsksLast, AnswerNamesRequest, ReqInv
  <1>8. EventKeepsInfo'
    BY DEF EventKeepsInfo
  <1> QED BY <1>1, <1>4, <1>5, <1>6, <1>7, <1>8

\* A parameter is written through the pointer: the Info of one message or of the
\* request itself changes, and everybody who holds it is told.
LEMMA WriteKeeps ==
    ASSUME HistInv, NEW r \in Requests, NEW next \in {"id", "build"}, NEW i \in Infos,
           req[r].st \in {"chat", "id"},
           info' = [info EXCEPT ![req[r].obj] = i],
           touched' = touched \cup ({req[r].obj} \cap Msgs),
           req' = [q \in Requests |->
                     IF q = r THEN [req[r] EXCEPT !.st = next, !.plain = FALSE]
                     ELSE IF req[q].obj = req[r].obj THEN [req[q] EXCEPT !.mixed = TRUE]
                     ELSE req[q]],
           UNCHANGED <<last, ev, rows, hook>>
    PROVE  HistInv'
  <1> USE HistoryAssumption DEF HistoryAssumption
  <1> DEFINE o == req[r].obj
  <1>0. o \in Objects /\ (o \in Requests => o = r) /\ o # None
    BY ReqInvs, ReqShape DEF HistInv, ReqInv
  <1>1. /\ req'[r] \in ReqType /\ req'[r].st = next /\ req'[r].plain = FALSE
        /\ req'[r].obj = o /\ req'[r].sent = req[r].sent /\ req'[r].mixed = req[r].mixed
    BY ReqShape DEF HistInv, ReqType
  <1>2. ASSUME NEW q \in Requests, q # r
        PROVE  /\ req'[q] \in ReqType
               /\ req'[q].st = req[q].st /\ req'[q].obj = req[q].obj
               /\ req'[q].plain = req[q].plain /\ req'[q].sent = req[q].sent
               /\ req'[q].said = req[q].said
               /\ req'[q].mixed = (req[q].mixed \/ req[q].obj = o)
    BY <1>2, ReqShape DEF HistInv, ReqType
  <1>3. /\ info' \in [Objects -> Infos] /\ \A x \in Objects \ {o} : info'[x] = info[x]
        /\ touched' \subseteq Msgs /\ touched \subseteq touched'
        /\ o \in Msgs => o \in touched'
    BY <1>0 DEF HistInv, TypeOK
  <1>4. TypeOK'
    <2>1. req' \in [Requests -> ReqType]
      <3>1. \A q \in Requests : req'[q] \in ReqType
        BY <1>1, <1>2
      <3> HIDE DEF ReqType
      <3> QED BY <3>1
    <2> QED BY <2>1, <1>3 DEF HistInv, TypeOK, ReqType
  <1>5. \A q \in Requests : ReqInv(q, req[q])
    BY ReqInvs
  <1>6. ASSUME NEW q \in Requests
        PROVE  /\ req'[q].obj \in Msgs => ev[req'[q].obj] # "new"
               /\ req'[q].obj \in Requests => req'[q].obj = q
               /\ req'[q].st # "new" => req'[q].obj # None
               /\ req'[q].plain => info'[q] = Zero
               /\ req'[q].st \in {"new", "chat", "id", "build"} => req'[q].sent = None
               /\ req'[q].st \in {"target", "say"} /\ ~req'[q].mixed =>
                     req'[q].sent = info'[req'[q].obj]
               /\ req'[q].plain /\ req'[q].sent # None /\ req'[q].obj \notin touched' =>
                     req'[q].sent = IF req'[q].obj = q THEN Zero ELSE Own(req'[q].obj)
               /\ req'[q].st = "done" /\ ~req'[q].mixed => req'[q].said = req'[q].sent
    <2>1. CASE q = r
      BY <2>1, <1>0, <1>1, <1>5 DEF ReqInv
    <2>2. CASE q # r
      <3>1. q \in Objects \ {o}
        BY <2>2, <1>0 DEF Objects
      <3>2. req[q].st # "new" /\ req[q].obj # o => info'[req[q].obj] = info[req[q].obj]
        BY <1>3, <1>5, ReqShape DEF HistInv, ReqInv
      <3>3. req[q].mixed \in BOOLEAN
        BY ReqShape DEF HistInv
      <3> QED BY <2>2, <1>2, <1>3, <1>5, <3>1, <3>2, <3>3 DEF ReqInv
    <2> QED BY <2>1, <2>2
  <1>7. Holding'
    BY <1>6 DEF HistInv, Holding
  <1>8. Untouched'
    <2>1. \A m \in Msgs \ touched' : ev[m] # "new" => info'[m] = Own(m)
      BY <1>3 DEF HistInv, Untouched, Objects
    <2> QED BY <2>1, <1>6 DEF Untouched
  <1>9. Asking'
    BY <1>6 DEF Asking
  <1>10. PlainRequestAsksLast' /\ AnswerNamesRequest'
    BY <1>6 DEF PlainRequestAsksLast, AnswerNamesRequest
  <1>11. EventKeepsInfo'
    BY <1>3 DEF HistInv, EventKeepsInfo
  <1> QED BY <1>4, <1>7, <1>8, <1>9, <1>10, <1>11 DEF HistInv

\* The two steps that may write.
LEMMA OverrideKeeps ==
    ASSUME HistInv, NEW r \in Requests, OverrideChat(r) \/ OverrideId(r)
    PROVE  HistInv'
  <1>0. req[r] \in ReqType /\ ReqInv(r, req[r])
    BY ReqShape, ReqInvs DEF HistInv
  <1>s. ASSUME NEW next \in {"id", "build"}, req[r].st \in {"chat", "id"}, Skip(r, next),
               UNCHANGED <<last, evVars>>
        PROVE  HistInv'
    <2> DEFINE a == [req[r] EXCEPT !.st = next]
    <2>1. a \in ReqType /\ req' = [req EXCEPT ![r] = a]
      BY <1>0, <1>s DEF Skip, To, ReqType
    <2>2. /\ a.st = next /\ a.obj = req[r].obj /\ a.plain = req[r].plain
          /\ a.sent = req[r].sent /\ a.said = req[r].said /\ a.mixed = req[r].mixed
      BY <1>0 DEF ReqType
    <2>3. UNCHANGED <<info, last, ev, rows, hook, touched>>
      BY <1>s DEF Skip, evVars
    <2> HIDE DEF a
    <2>4. ReqInv(r, a)
      BY <1>0, <1>s, <2>2 DEF ReqInv
    <2> QED BY <2>1, <2>3, <2>4, MoveKeeps
  <1>i. req[r].st # "new" => req[r].obj \in Objects /\ info[req[r].obj] \in Infos
    BY <1>0, ReqShape DEF HistInv, TypeOK, ReqInv
  <1>1. CASE OverrideChat(r)
    <2>0. req[r].st = "chat" /\ UNCHANGED <<last, evVars>>
      BY <1>1 DEF OverrideChat
    <2>1. CASE Skip(r, "id")
      BY <2>0, <2>1, <1>s
    <2>2. ASSUME NEW c \in Chats, Write(r, "chat", "id", c) PROVE HistInv'
      <3> DEFINE i == [info[req[r].obj] EXCEPT !["chat"] = c]
      <3>1. i \in Infos
        BY <1>i, <2>0, FieldWritten
      <3>2. info' = [info EXCEPT ![req[r].obj] = i]
        BY <2>2 DEF Write
      <3> HIDE DEF i
      <3> QED BY <2>0, <2>2, <3>1, <3>2, WriteKeeps DEF Write, evVars
    <2> QED BY <1>1, <2>1, <2>2 DEF OverrideChat
  <1>2. CASE OverrideId(r)
    <2>0. req[r].st = "id" /\ UNCHANGED <<last, evVars>>
      BY <1>2 DEF OverrideId
    <2>1. CASE Skip(r, "build")
      BY <2>0, <2>1, <1>s
    <2>2. ASSUME NEW m \in Msgs, Write(r, "id", "build", m) PROVE HistInv'
      <3> DEFINE i == [info[req[r].obj] EXCEPT !["id"] = m]
      <3>1. i \in Infos
        BY <1>i, <2>0, FieldWritten
      <3>2. info' = [info EXCEPT ![req[r].obj] = i]
        BY <2>2 DEF Write
      <3> HIDE DEF i
      <3> QED BY <2>0, <2>2, <3>1, <3>2, WriteKeeps DEF Write, evVars
    <2> QED BY <1>2, <2>1, <2>2 DEF OverrideId
  <1> QED BY <1>1, <1>2

\* The others read the Info the request holds, or nothing.
LEMMA RequestKeeps ==
    ASSUME HistInv, NEW r \in Requests,
           Request(r) \/ Build(r) \/ SendRequest(r) \/ Answer(r)
    PROVE  HistInv'
  <1> USE HistoryAssumption DEF HistoryAssumption
  <1>0. req[r] \in ReqType /\ ReqInv(r, req[r])
    BY ReqShape, ReqInvs DEF HistInv
  <1>f. UNCHANGED <<info, last, ev, rows, hook, touched>>
    BY DEF Request, Build, SendRequest, Answer, evVars
  <1>i. req[r].st # "new" => req[r].obj \in Objects /\ info[req[r].obj] \in Infos
    BY <1>0, ReqShape DEF HistInv, TypeOK, ReqInv
  <1>1. CASE Request(r)
    <2> DEFINE b == IF last # None THEN last ELSE r
               a == [req[r] EXCEPT !.st = "chat", !.obj = b]
    <2>1. /\ b \in Objects /\ (b \in Msgs => ev[b] # "new") /\ (b \in Requests => b = r)
          /\ b # None
      BY DEF HistInv, TypeOK, Holding, Objects
    <2> HIDE DEF b
    <2>2. a \in ReqType /\ req' = [req EXCEPT ![r] = a] /\ req[r].st = "new"
      BY <1>0, <1>1, <2>1 DEF Request, ReqType, b
    <2>3. /\ a.st = "chat" /\ a.obj = b /\ a.plain = req[r].plain
          /\ a.sent = req[r].sent /\ a.said = req[r].said /\ a.mixed = req[r].mixed
      BY <1>0 DEF ReqType
    <2> HIDE DEF a
    <2>4. ReqInv(r, a)
      BY <1>0, <2>1, <2>2, <2>3 DEF ReqInv
    <2> QED BY <1>f, <2>2, <2>4, MoveKeeps
  <1>2. CASE Build(r)
    <2> DEFINE a == [req[r] EXCEPT !.st = "target", !.sent = info[req[r].obj]]
    <2>0. req[r].st = "build"
      BY <1>2 DEF Build
    <2>1. a \in ReqType
      BY <1>0, <1>i, <2>0 DEF ReqType
    <2>m. req' = [req EXCEPT ![r] = a]
      BY <1>2 DEF Build, HistInv, TypeOK
    <2>2. /\ a.st = "target" /\ a.obj = req[r].obj /\ a.plain = req[r].plain
          /\ a.sent = info[req[r].obj] /\ a.said = req[r].said /\ a.mixed = req[r].mixed
      BY <1>0 DEF ReqType
    <2>3. \/ req[r].obj = r
          \/ req[r].obj \in Msgs /\ req[r].obj # r
             /\ (req[r].obj \notin touched => info[req[r].obj] = Own(req[r].obj))
      BY <1>0, <1>i, <2>0 DEF ReqInv, HistInv, Untouched, Objects
    <2> HIDE DEF a
    <2>4. ReqInv(r, a)
      BY <1>0, <2>0, <2>2, <2>3 DEF ReqInv
    <2> QED BY <1>f, <2>1, <2>m, <2>4, MoveKeeps
  <1>3. CASE SendRequest(r)
    <2>0. req[r].st = "target"
      BY <1>3 DEF SendRequest
    <2>1. CASE To(r, "say")
      <3> DEFINE a == [req[r] EXCEPT !.st = "say"]
      <3>1. a \in ReqType /\ req' = [req EXCEPT ![r] = a]
        BY <1>0, <2>1 DEF To, ReqType
      <3>2. /\ a.st = "say" /\ a.obj = req[r].obj /\ a.plain = req[r].plain
            /\ a.sent = req[r].sent /\ a.said = req[r].said /\ a.mixed = req[r].mixed
        BY <1>0 DEF ReqType
      <3> HIDE DEF a
      <3>4. ReqInv(r, a)
        BY <1>0, <2>0, <3>2 DEF ReqInv
      <3> QED BY <1>f, <3>1, <3>4, MoveKeeps
    <2>2. CASE req' = [req EXCEPT ![r].st = "error", ![r].sent = None]
      <3> DEFINE a == [req[r] EXCEPT !.st = "error", !.sent = None]
      <3>1. a \in ReqType
        BY <1>0 DEF ReqType
      <3>m. req' = [req EXCEPT ![r] = a]
        BY <2>2 DEF HistInv, TypeOK
      <3>2. /\ a.st = "error" /\ a.obj = req[r].obj /\ a.plain = req[r].plain
            /\ a.sent = None /\ a.said = req[r].said /\ a.mixed = req[r].mixed
        BY <1>0 DEF ReqType
      <3> HIDE DEF a
      <3>4. ReqInv(r, a)
        BY <1>0, <2>0, <3>2 DEF ReqInv
      <3> QED BY <1>f, <3>1, <3>m, <3>4, MoveKeeps
    <2> QED BY <1>3, <2>1, <2>2 DEF SendRequest
  <1>4. CASE Answer(r)
    <2> DEFINE a == [req[r] EXCEPT !.st = "done", !.said = info[req[r].obj]]
    <2>0. req[r].st = "say"
      BY <1>4 DEF Answer
    <2>1. a \in ReqType
      BY <1>0, <1>i, <2>0 DEF ReqType
    <2>m. req' = [req EXCEPT ![r] = a]
      BY <1>4 DEF Answer, HistInv, TypeOK
    <2>2. /\ a.st = "done" /\ a.obj = req[r].obj /\ a.plain = req[r].plain
          /\ a.sent = req[r].sent /\ a.said = info[req[r].obj] /\ a.mixed = req[r].mixed
      BY <1>0 DEF ReqType
    <2> HIDE DEF a
    <2>4. ReqInv(r, a)
      BY <1>0, <2>0, <2>2 DEF ReqInv
    <2> QED BY <1>f, <2>1, <2>m, <2>4, MoveKeeps
  <1> QED BY <1>1, <1>2, <1>3, <1>4

-----------------------------------------------------------------------------
\* Every step keeps the invariant.
LEMMA StepHistory == HistInv /\ [Next]_vars => HistInv'
  <1> SUFFICES ASSUME HistInv, [Next]_vars PROVE HistInv'
    OBVIOUS
  <1>1. ASSUME NEW m \in Msgs, Receive(m) \/ Save(m) \/ Post(m) PROVE HistInv'
    BY <1>1, ReceiveKeeps, SaveKeeps, PostKeeps
  <1>2. ASSUME NEW r \in Requests,
               \/ Request(r) \/ OverrideChat(r) \/ OverrideId(r)
               \/ Build(r) \/ SendRequest(r) \/ Answer(r)
        PROVE  HistInv'
    BY <1>2, RequestKeeps, OverrideKeeps
  <1>3. CASE UNCHANGED vars
    <2>1. TypeOK' /\ Holding' /\ Untouched' /\ Asking'
      BY <1>3 DEF HistInv, vars, TypeOK, Holding, Untouched, Asking
    <2>2. EventKeepsInfo' /\ PlainRequestAsksLast' /\ AnswerNamesRequest'
      BY <1>3 DEF HistInv, vars, EventKeepsInfo, PlainRequestAsksLast, AnswerNamesRequest
    <2> QED BY <2>1, <2>2 DEF HistInv
  <1> QED BY <1>1, <1>2, <1>3, ExpireKeeps DEF Next

\* The invariant holds in every state.
THEOREM HistoryInvariant == Spec => []HistInv
  BY InitHistory, StepHistory, PTL DEF Spec

\* Every variable keeps its type; in particular only Infos of messages get into
\* lastMessageCache and rows always describe a message.
THEOREM HistoryTypes == Spec => []TypeOK
  <1>1. HistInv => TypeOK
    BY DEF HistInv
  <1> QED BY <1>1, HistoryInvariant, PTL

\* The history row and the webhook of a message describe that message as long as no
\* query parameter of RequestHistorySync was written into its Info, however many
\* events and requests are handled at a time.
THEOREM EventTheorem == Spec => []EventKeepsInfo
  <1>1. HistInv => EventKeepsInfo
    BY DEF HistInv
  <1> QED BY <1>1, HistoryInvariant, PTL

\* A history request without parameters asks from a message as it was received or
\* from nothing, unless earlier parameters are left in the cached Info.
THEOREM PlainTheorem == Spec => []PlainRequestAsksLast
  <1>1. HistInv => PlainRequestAsksLast
    BY DEF HistInv
  <1> QED BY <1>1, HistoryInvariant, PTL

\* The answer of RequestHistorySync names what was asked for, unless another request
\* wrote to the same Info in between; the arrival of messages never interferes.
THEOREM AnswerTheorem == Spec => []AnswerNamesRequest
  <1>1. HistInv => AnswerNamesRequest
    BY DEF HistInv
  <1> QED BY <1>1, HistoryInvariant, PTL

=============================================================================
