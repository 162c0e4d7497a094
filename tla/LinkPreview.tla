----------------------------- MODULE LinkPreview -----------------------------
(***************************************************************************)
(* Link previews: getOpenGraphData, which SendMessage calls with the       *)
(* context of its request.  A miss in openGraphCache joins the URL's       *)
(* flight (openGraphGroup); the caller that opens the flight leads it: it  *)
(* waits for one of its user's slots, at most five seconds and no longer   *)
(* than its request lives, fetches the page and its image, and caches what *)
(* it got for everyone.  Pages are left out: a preview is full, bare (no   *)
(* image) or empty.                                                        *)
(***************************************************************************)
EXTENDS Naturals, FiniteSets

CONSTANTS Callers,  \* SendMessage requests with a link, each one call (bound)
          Users, Urls,
          Limit,    \* openGraphUserFetchLimit
          None

Previews == {"full", "bare", "empty"}

ASSUME PreviewAssumption ==
    /\ IsFiniteSet(Callers) /\ None \notin Callers \cup Previews
    /\ Limit \in Nat \ {0}

VARIABLES
    call,     \* call[c]: the call of getOpenGraphData
    dead,     \* calls whose context is over
    flight,   \* flight[u]: the leader of u's flight, or None
    pool,     \* pool[i]: tokens in the channel of user i
    cache,    \* openGraphCache
    failed    \* history: URLs whose page a fetch has tried and not got

vars == <<call, dead, flight, pool, cache, failed>>

Fetching == {"page", "image", "store", "return"}
Leading  == {"acquire"} \cup Fetching
Steps    == {"idle", "miss", "wait", "done"} \cup Leading

Calls    == [st : Steps, url : Urls \cup {None}, user : Users \cup {None}, res : Previews]
NoCall   == [st |-> "idle", url |-> None, user |-> None, res |-> "empty"]
Answered == [st |-> "done", url |-> None, user |-> None, res |-> "empty"]

TypeOK ==
    /\ call \in [Callers -> Calls]
    /\ \A c \in Callers : call[c].st \notin {"idle", "done"} =>
          call[c].url \in Urls /\ call[c].user \in Users
    /\ dead \subseteq Callers
    /\ flight \in [Urls -> Callers \cup {None}]
    /\ pool \in [Users -> 0..Limit]
    /\ cache \in [Urls -> Previews \cup {None}]
    /\ failed \subseteq Urls

Init ==
    /\ call = [c \in Callers |-> NoCall]
    /\ dead = {}
    /\ flight = [u \in Urls |-> None]
    /\ pool = [i \in Users |-> 0]
    /\ cache = [u \in Urls |-> None]
    /\ failed = {}

Url(c)  == call[c].url
User(c) == call[c].user
To(c, st, res) ==
    call' = [call EXCEPT ![c] = [st |-> st, url |-> Url(c), user |-> User(c), res |-> res]]

\* the flight is over: singleflight forgets it and hands its result to everyone,
\* for the message to be sent with
Land(c) ==
    /\ call' = [d \in Callers |->
                   IF d = c \/ (call[d].st = "wait" /\ Url(d) = Url(c)) THEN Answered ELSE call[d]]
    /\ flight' = [flight EXCEPT ![Url(c)] = None]
    /\ dead' = dead \ {c}

ReleaseSlot(c) == pool' = [pool EXCEPT ![User(c)] = @ - 1]

-----------------------------------------------------------------------------

\* a context that is still looked at ends: the client of the request goes away
\* (any time), or the five seconds of a leader are over (see Spec)
Expire(c) ==
    /\ call[c].st \in {"miss", "acquire", "page", "image"} /\ c \notin dead
    /\ dead' = dead \cup {c}
    /\ UNCHANGED <<call, flight, pool, cache, failed>>

\* SendMessage with linkPreview: openGraphCache.Get
Call(c) ==
    /\ call[c].st = "idle"
    /\ \E u \in Urls, i \in Users :
          call' = [call EXCEPT ![c] =
                      IF cache[u] # None THEN Answered
                      ELSE [st |-> "miss", url |-> u, user |-> i, res |-> "empty"]]
    /\ UNCHANGED <<dead, flight, pool, cache, failed>>

\* openGraphGroup.Do: lead the URL's flight or wait for it
Join(c) ==
    /\ call[c].st = "miss"
    /\ IF flight[Url(c)] = None
       THEN To(c, "acquire", "empty") /\ flight' = [flight EXCEPT ![Url(c)] = c] /\ UNCHANGED dead
       ELSE To(c, "wait", "empty") /\ dead' = dead \ {c} /\ UNCHANGED flight
    /\ UNCHANGED <<pool, cache, failed>>

\* userPool <- struct{}{}, while the channel has room
Acquire(c) ==
    /\ call[c].st = "acquire" /\ pool[User(c)] < Limit
    /\ pool' = [pool EXCEPT ![User(c)] = @ + 1]
    /\ To(c, "page", "empty")
    /\ UNCHANGED <<dead, flight, cache, failed>>

\* Mutation of GiveUp: the empty preview is cached.
GiveUpCaches(c) ==
    /\ call[c].st = "acquire" /\ c \in dead
    /\ cache' = [cache EXCEPT ![Url(c)] = "empty"]
    /\ Land(c)
    /\ UNCHANGED <<pool, failed>>

\* <-ctx.Done(): an error for the whole flight, nothing cached.  With room in
\* the channel as well, select takes either.
GiveUp(c) ==
    /\ call[c].st = "acquire" /\ c \in dead
    /\ Land(c)
    /\ UNCHANGED <<pool, cache, failed>>

\* fetchOpenGraphData: the page arrives, unless the context is over
FetchPage(c) ==
    /\ call[c].st = "page" /\ c \notin dead
    /\ To(c, "image", "bare")
    /\ UNCHANGED <<dead, flight, pool, cache, failed>>

\* Mutation of FetchFails: the request is made without the context.
FetchHangs(c) ==
    /\ call[c].st \in {"page", "image"} /\ c \notin dead
    /\ To(c, "store", call[c].res)
    /\ failed' = IF call[c].st = "page" THEN failed \cup {Url(c)} ELSE failed
    /\ UNCHANGED <<dead, flight, pool, cache>>

\* the page or the image does not: refused, too large, not decodable, or too late
FetchFails(c) ==
    /\ call[c].st \in {"page", "image"}
    /\ To(c, "store", call[c].res)
    /\ failed' = IF call[c].st = "page" THEN failed \cup {Url(c)} ELSE failed
    /\ UNCHANGED <<dead, flight, pool, cache>>

\* fetchOpenGraphImage: a thumbnail
FetchImage(c) ==
    /\ call[c].st = "image" /\ c \notin dead
    /\ To(c, "store", "full")
    /\ UNCHANGED <<dead, flight, pool, cache, failed>>

\* Mutation of Panic: the slot is released by a statement after the fetch.
PanicKeepsSlot(c) ==
    /\ call[c].st \in {"page", "image"}
    /\ Land(c)
    /\ UNCHANGED <<pool, cache, failed>>

\* a parser or decoder panics: recovered as an error, then the deferred release
Panic(c) ==
    /\ call[c].st \in {"page", "image"}
    /\ Land(c)
    /\ ReleaseSlot(c)
    /\ UNCHANGED <<cache, failed>>

\* openGraphCache.Set, whatever was fetched
Store(c) ==
    /\ call[c].st = "store"
    /\ cache' = [cache EXCEPT ![Url(c)] = call[c].res]
    /\ To(c, "return", call[c].res)
    /\ UNCHANGED <<dead, flight, pool, failed>>

\* the deferred release of the slot, the end of the flight
Return(c) ==
    /\ call[c].st = "return"
    /\ ReleaseSlot(c)
    /\ Land(c)
    /\ UNCHANGED <<cache, failed>>

\* an entry expires after five minutes
Evict(u) ==
    /\ cache[u] # None
    /\ cache' = [cache EXCEPT ![u] = None]
    /\ UNCHANGED <<call, dead, flight, pool, failed>>

Next ==
    \/ \E c \in Callers :
          \/ Expire(c) \/ Call(c) \/ Join(c) \/ Acquire(c) \/ GiveUp(c) \/ FetchPage(c)
          \/ FetchFails(c) \/ FetchImage(c) \/ Panic(c) \/ Store(c) \/ Return(c)
    \/ \E u \in Urls : Evict(u)

\* The timer of a leader's context, and goroutines that can run.  Nothing makes
\* a page arrive: a fetch ends in time because its context does.
Spec ==
    /\ Init /\ [][Next]_vars
    /\ \A c \in Callers :
          /\ WF_vars(Join(c)) /\ WF_vars(GiveUp(c)) /\ WF_vars(Store(c)) /\ WF_vars(Return(c))
          /\ WF_vars(call[c].st # "miss" /\ Expire(c))
          /\ WF_vars(c \in dead /\ FetchFails(c))

-----------------------------------------------------------------------------
(* Properties *)

\* The tokens in a user's channel are its fetches under way, at most
\* openGraphUserFetchLimit, whatever way earlier fetches ended: no slot leaks.
Held(i) == {c \in Callers : call[c].st \in Fetching /\ User(c) = i}
SlotsHeld == \A i \in Users : pool[i] = Cardinality(Held(i))

\* A full pool of one user, or a panic, blanks the previews of nobody but the
\* flight's: an empty preview is cached only if a fetch of the page was tried
\* and did not get it.
StarvationNotCached ==
    \A u \in Urls : cache[u] = "empty" => u \in failed

\* Every SendMessage gets past its preview, however slow pages are and however
\* many wait for slots.
CallsAnswered ==
    \A c \in Callers : call[c].st # "idle" ~> call[c].st = "done"

=============================================================================
