---------------------------- MODULE HistoryRequest ----------------------------
(***************************************************************************)
(* Asking WhatsApp for older messages of one user: RequestHistorySync and  *)
(* the Message events whose MessageInfo it starts from.                    *)
(*                                                                         *)
(* lastMessageCache holds a pointer into the event that is being handled.  *)
(* RequestHistorySync writes its query parameters through that pointer, so *)
(* MessageInfos are objects here: one per event, one per request that      *)
(* found no entry.  Of their fields Chat and ID are kept; IsFromMe and     *)
(* Timestamp are overridden the same way.                                  *)
(***************************************************************************)
EXTENDS Naturals, Sequences

CONSTANTS Msgs,       \* received messages (bound)
          Chats,
          ChatOf,     \* ChatOf[m]: the chat m was sent in
          Requests,   \* calls of GET /session/history (bound)
          None

ASSUME HistoryAssumption ==
    /\ ChatOf \in [Msgs -> Chats]
    /\ None \notin Msgs \cup Chats \cup Requests
    /\ Msgs \cap Requests = {}

VARIABLES
    info,    \* info[o]: the MessageInfo objects
    last,    \* lastMessageCache[user]: an object or None
    ev,      \* ev[m]: how far the handler of m's event is
    rows,    \* message_history, in the order of its timestamps (of: history)
    hook,    \* hook[m]: the Info in m's webhook, or None
    req,     \* req[r]: the request being served
    touched  \* history: messages whose Info a query parameter has overwritten

vars == <<info, last, ev, rows, hook, req, touched>>

Infos   == [chat : Chats \cup {None}, id : Msgs \cup {None}]
Zero    == [chat |-> None, id |-> None]
Own(m)  == [chat |-> ChatOf[m], id |-> m]
Objects == Msgs \cup Requests

\* plain: the query has had no parameter so far; mixed: history, another request
\* has written to the same object meanwhile
NoReq == [st |-> "new", obj |-> None, plain |-> TRUE, sent |-> None, said |-> None,
          mixed |-> FALSE]

TypeOK ==
    /\ info \in [Objects -> Infos]
    /\ last \in Msgs \cup {None}
    /\ ev \in [Msgs -> {"new", "handling", "saved", "done"}]
    /\ rows \in Seq([of : Msgs, info : Infos])
    /\ hook \in [Msgs -> Infos \cup {None}]
    /\ req \in [Requests -> [st : {"new", "chat", "id", "build", "target", "say", "done", "error"},
                             obj : Objects \cup {None}, plain : BOOLEAN, sent : Infos \cup {None},
                             said : Infos \cup {None}, mixed : BOOLEAN]]
    /\ touched \subseteq Msgs

Init ==
    /\ info = [o \in Objects |-> Zero]
    /\ last = None
    /\ ev = [m \in Msgs |-> "new"]
    /\ rows = <<>>
    /\ hook = [m \in Msgs |-> None]
    /\ req = [r \in Requests |-> NoReq]
    /\ touched = {}

evVars == <<ev, rows, hook>>

-----------------------------------------------------------------------------
(* Message events *)

\* Mutation of Receive: the Info is copied into the object that is cached.
ReceiveInPlace(m) ==
    /\ ev[m] = "new"
    /\ LET o == IF last = None THEN m ELSE last IN
          info' = [info EXCEPT ![m] = Own(m), ![o] = Own(m)] /\ last' = o
    /\ ev' = [ev EXCEPT ![m] = "handling"]
    /\ UNCHANGED <<rows, hook, req, touched>>

\* lastMessageCache.Set(mycli.userID, &evt.Info)
Receive(m) ==
    /\ ev[m] = "new"
    /\ info' = [info EXCEPT ![m] = Own(m)]
    /\ last' = m
    /\ ev' = [ev EXCEPT ![m] = "handling"]
    /\ UNCHANGED <<rows, hook, req, touched>>

\* after the media: saveMessageToHistory, if the user keeps a history
Save(m) ==
    /\ ev[m] = "handling"
    /\ rows' = Append(rows, [of |-> m, info |-> info[m]]) \/ UNCHANGED rows
    /\ ev' = [ev EXCEPT ![m] = "saved"]
    /\ UNCHANGED <<info, last, hook, req, touched>>

\* sendEventWithWebHook marshals the event
Post(m) ==
    /\ ev[m] = "saved"
    /\ hook' = [hook EXCEPT ![m] = info[m]]
    /\ ev' = [ev EXCEPT ![m] = "done"]
    /\ UNCHANGED <<info, last, rows, req, touched>>

\* the entry expires after a day
Expire ==
    /\ last # None
    /\ last' = None
    /\ UNCHANGED <<info, evVars, req, touched>>

-----------------------------------------------------------------------------
(* RequestHistorySync *)

To(r, st) == req' = [req EXCEPT ![r].st = st]

\* Mutation of Request: the empty MessageInfo is put in the cache.
RequestCaches(r) ==
    /\ req[r].st = "new"
    /\ req' = [req EXCEPT ![r].st = "chat", ![r].obj = IF last # None THEN last ELSE r]
    /\ last' = IF last # None THEN last ELSE r
    /\ UNCHANGED <<info, evVars, touched>>

\* (refused without a client:) the cached pointer, or an empty MessageInfo
Request(r) ==
    /\ req[r].st = "new"
    /\ req' = [req EXCEPT ![r].st = "chat", ![r].obj = IF last # None THEN last ELSE r]
    /\ UNCHANGED <<info, last, evVars, touched>>

\* the parameter of a field is absent (or does not parse): on to the next step
Skip(r, next) == To(r, next) /\ UNCHANGED <<info, touched>>

\* info.<field> = v, for everyone who holds the object
Write(r, f, next, v) ==
    /\ info' = [info EXCEPT ![req[r].obj][f] = v]
    /\ touched' = touched \cup ({req[r].obj} \cap Msgs)
    /\ req' = [q \in Requests |->
                 IF q = r THEN [req[r] EXCEPT !.st = next, !.plain = FALSE]
                 ELSE IF req[q].obj = req[r].obj THEN [req[q] EXCEPT !.mixed = TRUE]
                 ELSE req[q]]

\* Mutation of OverrideChat: a chat that does not parse is written as well.
OverrideChatUnparsed(r) ==
    /\ req[r].st = "chat"
    /\ \/ To(r, "id") /\ info' = [info EXCEPT ![req[r].obj].chat = None] /\ UNCHANGED touched
       \/ \E c \in Chats : Write(r, "chat", "id", c)
    /\ UNCHANGED <<last, evVars>>

\* chat_jid
OverrideChat(r) ==
    /\ req[r].st = "chat"
    /\ Skip(r, "id") \/ \E c \in Chats : Write(r, "chat", "id", c)
    /\ UNCHANGED <<last, evVars>>

\* oldest_msg_id
OverrideId(r) ==
    /\ req[r].st = "id"
    /\ Skip(r, "build") \/ \E m \in Msgs : Write(r, "id", "build", m)
    /\ UNCHANGED <<last, evVars>>

\* BuildHistorySyncRequest copies what the object says now (it does not touch
\* its receiver, so a client that is gone by now does not matter yet)
Build(r) ==
    /\ req[r].st = "build"
    /\ req' = [req EXCEPT ![r].st = "target", ![r].sent = info[req[r].obj]]
    /\ UNCHANGED <<info, last, evVars, touched>>

\* SendMessage to the own device.  It may fail; a client or device that is gone
\* (nil) panics, for httpmw.Recover to answer 500.  Nothing is asked then.
SendRequest(r) ==
    /\ req[r].st = "target"
    /\ To(r, "say") \/ req' = [req EXCEPT ![r].st = "error", ![r].sent = None]
    /\ UNCHANGED <<info, last, evVars, touched>>

\* Mutation of Answer: the answer is made from the cache.
AnswerFromCache(r) ==
    /\ req[r].st = "say"
    /\ req' = [req EXCEPT ![r].st = "done", ![r].said = info[IF last = None THEN r ELSE last]]
    /\ UNCHANGED <<info, last, evVars, touched>>

\* the answer reads the object again
Answer(r) ==
    /\ req[r].st = "say"
    /\ req' = [req EXCEPT ![r].st = "done", ![r].said = info[req[r].obj]]
    /\ UNCHANGED <<info, last, evVars, touched>>

Next ==
    \/ Expire
    \/ \E m \in Msgs : Receive(m) \/ Save(m) \/ Post(m)
    \/ \E r \in Requests :
          \/ Request(r) \/ OverrideChat(r) \/ OverrideId(r)
          \/ Build(r) \/ SendRequest(r) \/ Answer(r)

Spec == Init /\ [][Next]_vars

-----------------------------------------------------------------------------
(* Properties *)

\* The history row and the webhook of a message describe that message, unless
\* the parameters of a history request were written through the cached pointer.
EventKeepsInfo ==
    /\ \A m \in Msgs \ touched : hook[m] \in {None, Own(m)}
    /\ \A i \in DOMAIN rows : rows[i].of \notin touched => rows[i].info = Own(rows[i].of)

\* A request without parameters asks from a message as it was received, or from
\* nothing, unless parameters of an earlier request are left in the cached Info.
PlainRequestAsksLast ==
    \A r \in Requests :
        req[r].plain /\ req[r].sent # None /\ req[r].obj \notin touched =>
            req[r].sent = IF req[r].obj = r THEN Zero ELSE Own(req[r].obj)

\* The answer of a request names what was asked for, unless another request
\* wrote to the same Info meanwhile; events never do.
AnswerNamesRequest ==
    \A r \in Requests : req[r].st = "done" /\ ~req[r].mixed => req[r].said = req[r].sent

=============================================================================
