-------------------------- MODULE LinkPreviewProofs --------------------------
(* Proofs about LinkPreview for any callers, users, URLs and any limit. *)
EXTENDS LinkPreview, FiniteSetTheorems, TLAPS

\* What a leader holds before it stores: an empty preview stands for a page
\* that was tried, a page without an image yet is bare.
ResultInv ==
    \A c \in Callers :
        /\ call[c].st \in {"store", "return"} /\ call[c].res = "empty" => Url(c) \in failed
        /\ call[c].st = "image" => call[c].res = "bare"

\* Flights and their leaders belong to each other, and nobody waits for a
\* flight that is not there.
Flights ==
    /\ \A c \in Callers : call[c].st \in Leading => flight[Url(c)] = c
    /\ \A c \in Callers : call[c].st = "wait" => flight[Url(c)] # None
    /\ \A u \in Urls : flight[u] # None => call[flight[u]].st \in Leading /\ Url(flight[u]) = u

PreviewInv ==
    TypeOK /\ Flights /\ ResultInv /\ StarvationNotCached /\ SlotsHeld

\* The initial states satisfy the invariant.
LEMMA InitPreview == Init => PreviewInv
  <1> SUFFICES ASSUME Init PROVE PreviewInv
    OBVIOUS
  <1>1. \A c \in Callers : call[c] = NoCall
    BY DEF Init
  <1>2. TypeOK
    <2>1. NoCall \in Calls
      BY DEF NoCall, Calls, Steps, Previews
    <2>2. \A c \in Callers : call[c].st = "idle"
      BY <1>1 DEF NoCall
    <2>3. dead \subseteq Callers /\ failed \subseteq Urls
      BY DEF Init
    <2>4. pool \in [Users -> 0..Limit]
      BY PreviewAssumption DEF Init
    <2> QED BY <2>1, <2>2, <2>3, <2>4 DEF Init, TypeOK
  <1>3. Flights /\ ResultInv /\ StarvationNotCached
    BY <1>1, PreviewAssumption DEF Init, NoCall, Flights, ResultInv, StarvationNotCached, Leading, Fetching, Previews
  <1>4. SlotsHeld
    <2> SUFFICES ASSUME NEW i \in Users PROVE pool[i] = Cardinality(Held(i))
      BY DEF SlotsHeld
    <2>1. Held(i) = {}
      BY <1>1 DEF Held, NoCall, Fetching
    <2> QED BY <2>1, FS_EmptySet DEF Init
  <1> QED BY <1>2, <1>3, <1>4 DEF PreviewInv

\* The fetches of a user are finitely many.
LEMMA HeldFinite == ASSUME NEW i PROVE IsFiniteSet(Held(i))
  <1>1. Held(i) \subseteq Callers
    BY DEF Held
  <1> QED BY <1>1, FS_Subset, PreviewAssumption

\* Calls that keep their side of the slots keep the accounts.
LEMMA SlotsSame ==
    ASSUME SlotsHeld, UNCHANGED pool,
           \A d \in Callers : (call'[d].st \in Fetching <=> call[d].st \in Fetching)
                              /\ (call[d].st \in Fetching => call'[d].user = call[d].user)
    PROVE  SlotsHeld'
  <1> SUFFICES ASSUME NEW i \in Users PROVE pool'[i] = Cardinality(Held(i)')
    BY DEF SlotsHeld
  <1>1. Held(i)' = Held(i)
    BY DEF Held, User
  <1> QED BY <1>1 DEF SlotsHeld

\* A fetch that ends gives back its slot.
LEMMA SlotReleased ==
    ASSUME TypeOK, SlotsHeld, NEW c \in Callers, call[c].st \in Fetching, ReleaseSlot(c),
           call'[c].st \notin Fetching,
           \A d \in Callers \ {c} : (call'[d].st \in Fetching <=> call[d].st \in Fetching)
                              /\ (call[d].st \in Fetching => call'[d].user = call[d].user)
    PROVE  SlotsHeld' /\ pool' \in [Users -> 0..Limit]
  <1>0. User(c) \in Users /\ pool \in [Users -> 0..Limit]
    BY DEF TypeOK, Fetching, User
  <1>1. c \in Held(User(c))
    BY DEF Held, User
  <1>2. ASSUME NEW i \in Users PROVE pool'[i] = Cardinality(Held(i)') /\ pool'[i] \in 0..Limit
    <2>1. CASE i = User(c)
      <3>1. Held(i)' = Held(i) \ {c}
        BY <1>1, <2>1 DEF Held, User
      <3>2. Cardinality(Held(i) \ {c}) = Cardinality(Held(i)) - 1
        BY <1>1, <2>1, HeldFinite, FS_RemoveElement
      <3>3. Held(i) # {} /\ Cardinality(Held(i)) \in Nat
        BY <1>1, <2>1, HeldFinite, FS_CardinalityType
      <3>4. Cardinality(Held(i)) # 0
        BY <3>3, HeldFinite, FS_EmptySet
      <3>5. pool'[i] = pool[i] - 1 /\ pool[i] = Cardinality(Held(i))
        BY <1>0, <2>1 DEF ReleaseSlot, SlotsHeld
      <3>6. pool[i] \in 0..Limit /\ Limit \in Nat
        BY <1>0, PreviewAssumption
      <3> QED BY <3>1, <3>2, <3>3, <3>4, <3>5, <3>6
    <2>2. CASE i # User(c)
      <3>1. Held(i)' = Held(i)
        BY <2>2 DEF Held, User
      <3> QED BY <1>0, <2>2, <3>1 DEF ReleaseSlot, SlotsHeld
    <2> QED BY <2>1, <2>2
  <1>3. pool' = [i \in Users |-> pool'[i]]
    BY <1>0 DEF ReleaseSlot
  <1> QED BY <1>2, <1>3 DEF SlotsHeld

\* The end of a flight keeps everything but the slots, which are the caller's matter.
LEMMA LandKeeps ==
    ASSUME PreviewInv, NEW c \in Callers, call[c].st \in Leading, Land(c), UNCHANGED <<cache, failed>>
    PROVE  /\ call' \in [Callers -> Calls]
           /\ \A d \in Callers : call'[d].st \notin {"idle", "done"} =>
                 call'[d].url \in Urls /\ call'[d].user \in Users
           /\ dead' \subseteq Callers /\ flight' \in [Urls -> Callers \cup {None}]
           /\ cache' \in [Urls -> Previews \cup {None}] /\ failed' \subseteq Urls
           /\ Flights' /\ ResultInv' /\ StarvationNotCached'
           /\ call'[c].st \notin Fetching
           /\ \A d \in Callers \ {c} : (call'[d].st \in Fetching <=> call[d].st \in Fetching)
                              /\ (call[d].st \in Fetching => call'[d].user = call[d].user)
  <1> DEFINE over(d) == d = c \/ (call[d].st = "wait" /\ Url(d) = Url(c))
  <1>1. \A d \in Callers : call'[d] = IF over(d) THEN Answered ELSE call[d]
    BY DEF Land
  <1>2. /\ TypeOK /\ Flights /\ ResultInv /\ StarvationNotCached
        /\ Url(c) \in Urls
    BY DEF PreviewInv, TypeOK, Url, Leading, Fetching
  <1>3. Answered \in Calls
    BY DEF Answered, Calls, Steps, Previews
  <1>4. call' \in [Callers -> Calls]
    BY <1>2, <1>3 DEF Land, TypeOK
  <1>5. \A d \in Callers : call'[d].st \notin {"idle", "done"} =>
           call'[d].url \in Urls /\ call'[d].user \in Users
    BY <1>1, <1>2 DEF TypeOK, Answered
  <1>6. /\ dead' \subseteq Callers /\ flight' \in [Urls -> Callers \cup {None}]
        /\ cache' \in [Urls -> Previews \cup {None}] /\ failed' \subseteq Urls
    BY <1>2 DEF Land, TypeOK
  <1>7. \A u \in Urls : flight'[u] = IF u = Url(c) THEN None ELSE flight[u]
    BY <1>2 DEF Land, TypeOK
  <1>8. Flights'
    <2>1. \A d \in Callers : ~over(d) => call'[d] = call[d] /\ call'[d].url = call[d].url
      BY <1>1
    <2>2. \A d \in Callers : call'[d].st \in {"wait"} \cup Leading => ~over(d)
      BY <1>1 DEF Answered, Leading, Fetching
    <2>3. \A d \in Callers : ~over(d) /\ call[d].st \in {"wait"} \cup Leading =>
             Url(d) \in Urls /\ Url(d) # Url(c)
      BY <1>2 DEF TypeOK, Flights, Url, Leading, Fetching
    <2>4. \A d \in Callers : call'[d].st \in Leading => flight'[call'[d].url] = d
      BY <1>2, <1>7, <2>1, <2>2, <2>3 DEF Flights, Url
    <2>5. \A d \in Callers : call'[d].st = "wait" => flight'[call'[d].url] # None
      BY <1>2, <1>7, <2>1, <2>2, <2>3 DEF Flights, Url
    <2>6. ASSUME NEW u \in Urls, flight'[u] # None
          PROVE  call'[flight'[u]].st \in Leading /\ call'[flight'[u]].url = u
      <3>1. u # Url(c) /\ flight'[u] = flight[u] /\ flight[u] \in Callers
        BY <1>2, <1>7, <2>6 DEF TypeOK
      <3>2. call[flight[u]].st \in Leading /\ Url(flight[u]) = u
        BY <1>2, <2>6, <3>1 DEF Flights
      <3>3. ~over(flight[u])
        BY <3>1, <3>2 DEF Leading, Fetching
      <3> QED BY <2>1, <3>1, <3>2, <3>3 DEF Url
    <2> QED BY <2>4, <2>5, <2>6 DEF Flights, Url
  <1>9. ResultInv' /\ StarvationNotCached'
    BY <1>1, <1>2 DEF ResultInv, StarvationNotCached, Url, Answered
  <1>10. /\ call'[c].st \notin Fetching
         /\ \A d \in Callers \ {c} : (call'[d].st \in Fetching <=> call[d].st \in Fetching)
                              /\ (call[d].st \in Fetching => call'[d].user = call[d].user)
    BY <1>1 DEF Answered, Fetching
  <1> QED BY <1>4, <1>5, <1>6, <1>8, <1>9, <1>10

\* A step of one call changes its state and its result.
LEMMA Moved ==
    ASSUME TypeOK, NEW c \in Callers, NEW st \in Steps, NEW res \in Previews, To(c, st, res)
    PROVE  /\ call' \in [Callers -> Calls]
           /\ \A d \in Callers : /\ call'[d].url = call[d].url /\ call'[d].user = call[d].user
                                 /\ call'[d].st = IF d = c THEN st ELSE call[d].st
                                 /\ call'[d].res = IF d = c THEN res ELSE call[d].res
  <1> DEFINE new == [st |-> st, url |-> Url(c), user |-> User(c), res |-> res]
  <1>1. call \in [Callers -> Calls] /\ call' = [call EXCEPT ![c] = new]
    BY DEF TypeOK, To
  <1>2. new \in Calls
    BY <1>1 DEF Calls, Url, User
  <1>3. new.st = st /\ new.url = call[c].url /\ new.user = call[c].user /\ new.res = res
    BY DEF Url, User
  <1> HIDE DEF new
  <1> QED BY <1>1, <1>2, <1>3

\* A step that moves one call, without ending its flight, within its state's
\* meaning: a leader stays a leader.
LEMMA MoveKeeps ==
    ASSUME PreviewInv, NEW c \in Callers, NEW st \in Steps, NEW res \in Previews,
           call[c].st \in Leading, st \in Leading, To(c, st, res), UNCHANGED flight
    PROVE  /\ call' \in [Callers -> Calls]
           /\ \A d \in Callers : call'[d].st \notin {"idle", "done"} =>
                 call'[d].url \in Urls /\ call'[d].user \in Users
           /\ Flights'
           /\ \A d \in Callers : /\ call'[d].url = call[d].url /\ call'[d].user = call[d].user
                                 /\ call'[d].st = IF d = c THEN st ELSE call[d].st
                                 /\ call'[d].res = IF d = c THEN res ELSE call[d].res
  <1>1. TypeOK /\ Flights
    BY DEF PreviewInv
  <1>2. /\ call' \in [Callers -> Calls]
        /\ \A d \in Callers : /\ call'[d].url = call[d].url /\ call'[d].user = call[d].user
                              /\ call'[d].st = IF d = c THEN st ELSE call[d].st
                              /\ call'[d].res = IF d = c THEN res ELSE call[d].res
    BY <1>1, Moved
  <1>3. \A d \in Callers : call'[d].st \notin {"idle", "done"} =>
           call'[d].url \in Urls /\ call'[d].user \in Users
    BY <1>1, <1>2 DEF TypeOK, Leading, Fetching
  <1>4. Flights'
    <2>1. \A d \in Callers : (call'[d].st \in Leading <=> call[d].st \in Leading)
                              /\ (call'[d].st = "wait" => call[d].st = "wait")
      BY <1>2 DEF Leading, Fetching
    <2>2. \A u \in Urls : flight[u] # None => flight[u] \in Callers
      BY <1>1 DEF TypeOK
    <2> QED BY <1>1, <1>2, <2>1, <2>2 DEF Flights, Url
  <1> QED BY <1>2, <1>3, <1>4

\* Every step keeps the invariant.
LEMMA StepPreview == PreviewInv /\ [Next]_vars => PreviewInv'
  <1> SUFFICES ASSUME PreviewInv, [Next]_vars PROVE PreviewInv'
    OBVIOUS
  <1>t. TypeOK /\ Flights /\ ResultInv /\ StarvationNotCached /\ SlotsHeld
    BY DEF PreviewInv
  <1>1. ASSUME NEW c \in Callers, Expire(c) PROVE PreviewInv'
    <2>1. UNCHANGED <<call, flight, pool, cache, failed>> /\ dead' = dead \cup {c}
      BY <1>1 DEF Expire
    <2>2. TypeOK'
      BY <1>t, <2>1 DEF TypeOK
    <2>3. Flights' /\ ResultInv' /\ StarvationNotCached'
      BY <1>t, <2>1 DEF Flights, ResultInv, StarvationNotCached, Url
    <2>4. SlotsHeld'
      BY <1>t, <2>1, SlotsSame
    <2> QED BY <2>2, <2>3, <2>4 DEF PreviewInv
  <1>2. ASSUME NEW c \in Callers, Call(c) PROVE PreviewInv'
    <2>1. PICK u \in Urls, i \in Users :
             call' = [call EXCEPT ![c] = IF cache[u] # None THEN Answered
                         ELSE [st |-> "miss", url |-> u, user |-> i, res |-> "empty"]]
      BY <1>2 DEF Call
    <2> DEFINE new == call'[c]
    <2>2. /\ new \in Calls
          /\ new.st \in {"done", "miss"}
          /\ new.st # "done" => new.url \in Urls /\ new.user \in Users
      BY <1>t, <2>1 DEF TypeOK, Calls, Answered, Steps, Previews
    <2>3. \A d \in Callers \ {c} : call'[d] = call[d]
      BY <1>t, <2>1 DEF TypeOK
    <2>4. call[c].st = "idle" /\ UNCHANGED <<dead, flight, pool, cache, failed>>
      BY <1>2 DEF Call
    <2>5. call' = [call EXCEPT ![c] = new]
      BY <1>t, <2>1 DEF TypeOK
    <2> HIDE DEF new
    <2>6. TypeOK'
      BY <1>t, <2>2, <2>3, <2>4, <2>5 DEF TypeOK
    <2>7. \A d \in Callers : call'[d].st \in {"wait"} \cup Leading =>
             d # c /\ call'[d] = call[d]
      BY <2>2, <2>3 DEF new, Leading, Fetching
    <2>8. \A l \in Callers : call[l].st \in Leading => call'[l] = call[l]
      BY <2>3, <2>4 DEF Leading, Fetching
    <2>9. Flights'
      <3>1. \A v \in Urls : flight[v] # None => flight[v] \in Callers
        BY <1>t DEF TypeOK
      <3> QED BY <1>t, <2>4, <2>7, <2>8, <3>1 DEF Flights, Url
    <2>10. ResultInv' /\ StarvationNotCached'
      BY <1>t, <2>2, <2>3, <2>4 DEF ResultInv, StarvationNotCached, Url, new
    <2>11. SlotsHeld'
      BY <1>t, <2>2, <2>3, <2>4, SlotsSame DEF new, Fetching
    <2> QED BY <2>6, <2>9, <2>10, <2>11 DEF PreviewInv
  <1>3. ASSUME NEW c \in Callers, Join(c) PROVE PreviewInv'
    <2>0. /\ call[c].st = "miss" /\ UNCHANGED <<pool, cache, failed>>
          /\ Url(c) \in Urls /\ User(c) \in Users
      BY <1>3, <1>t DEF Join, TypeOK, Url, User
    <2>1. {"acquire", "wait"} \subseteq Steps /\ "empty" \in Previews
      BY DEF Steps, Leading, Previews
    <2>2. CASE flight[Url(c)] = None
      <3>1. To(c, "acquire", "empty") /\ flight' = [flight EXCEPT ![Url(c)] = c] /\ UNCHANGED dead
        BY <1>3, <2>2 DEF Join
      <3>m. /\ call' \in [Callers -> Calls]
            /\ \A d \in Callers : /\ call'[d].url = call[d].url /\ call'[d].user = call[d].user
                                  /\ call'[d].st = IF d = c THEN "acquire" ELSE call[d].st
                                  /\ call'[d].res = IF d = c THEN "empty" ELSE call[d].res
        BY <1>t, <2>1, <3>1, Moved
      <3>2. \A u \in Urls : flight'[u] = IF u = Url(c) THEN c ELSE flight[u]
        BY <1>t, <3>1 DEF TypeOK
      <3>3. TypeOK'
        BY <1>t, <2>0, <3>m, <3>1 DEF TypeOK, Url, User
      <3>4. None \notin Callers
        BY PreviewAssumption
      <3>5. Flights'
        <4>1. \A d \in Callers : d # c /\ call[d].st \in {"wait"} \cup Leading =>
                 Url(d) \in Urls /\ Url(d) # Url(c)
          BY <1>t, <2>2, <3>4 DEF TypeOK, Flights, Url, Leading, Fetching
        <4>2. \A d \in Callers : d # c => call'[d].st = call[d].st
          BY <3>m, <3>1
        <4>3. call'[c].st = "acquire" /\ flight'[call[c].url] = c /\ "acquire" \in Leading
          BY <2>0, <3>m, <3>1, <3>2 DEF Url, Leading
        <4>4. \A d \in Callers : call'[d].url = call[d].url
          BY <3>m, <3>1
        <4>5. \A d \in Callers : call'[d].st \in Leading => flight'[call[d].url] = d
          BY <1>t, <3>2, <4>1, <4>2, <4>3 DEF Flights, Url
        <4>6. \A d \in Callers : call'[d].st = "wait" => flight'[call[d].url] # None
          BY <1>t, <3>2, <4>1, <4>2, <4>3 DEF Flights, Url
        <4>7. ASSUME NEW u \in Urls, flight'[u] # None
              PROVE  call'[flight'[u]].st \in Leading /\ call[flight'[u]].url = u
          <5>1. CASE u = Url(c)
            BY <3>2, <4>3, <5>1 DEF Url
          <5>2. CASE u # Url(c)
            <6>1. flight'[u] = flight[u] /\ flight[u] \in Callers
              BY <1>t, <3>2, <4>7, <5>2 DEF TypeOK
            <6>2. call[flight[u]].st \in Leading /\ Url(flight[u]) = u
              BY <1>t, <4>7, <6>1 DEF Flights
            <6> QED BY <4>2, <4>3, <6>1, <6>2 DEF Url
          <5> QED BY <5>1, <5>2
        <4>8. \A u \in Urls : flight'[u] # None => flight'[u] \in Callers
          BY <1>t, <3>2 DEF TypeOK
        <4> QED BY <4>4, <4>5, <4>6, <4>7, <4>8 DEF Flights, Url
      <3>6. ResultInv' /\ StarvationNotCached'
        BY <1>t, <2>0, <3>m, <3>1 DEF ResultInv, StarvationNotCached, Url
      <3>7. SlotsHeld'
        BY <1>t, <2>0, <3>m, <3>1, SlotsSame DEF Fetching
      <3> QED BY <3>3, <3>5, <3>6, <3>7 DEF PreviewInv
    <2>3. CASE flight[Url(c)] # None
      <3>1. To(c, "wait", "empty") /\ dead' = dead \ {c} /\ UNCHANGED flight
        BY <1>3, <2>3 DEF Join
      <3>m. /\ call' \in [Callers -> Calls]
            /\ \A d \in Callers : /\ call'[d].url = call[d].url /\ call'[d].user = call[d].user
                                  /\ call'[d].st = IF d = c THEN "wait" ELSE call[d].st
                                  /\ call'[d].res = IF d = c THEN "empty" ELSE call[d].res
        BY <1>t, <2>1, <3>1, Moved
      <3>2. TypeOK'
        BY <1>t, <2>0, <3>m, <3>1 DEF TypeOK, Url, User
      <3>3. \A d \in Callers : call[d].st \in Leading => call'[d].st = call[d].st
        BY <2>0, <3>m, <3>1 DEF Leading, Fetching
      <3>4. Flights'
        <4>1. \A d \in Callers : call'[d].st \in Leading => call[d].st \in Leading
          BY <2>0, <3>m, <3>1 DEF Leading, Fetching
        <4>2. \A d \in Callers : call'[d].st = "wait" => d = c \/ call[d].st = "wait"
          BY <3>m, <3>1
        <4>3. \A u \in Urls : flight[u] # None => flight[u] \in Callers
          BY <1>t DEF TypeOK
        <4>4. \A d \in Callers : call'[d].url = call[d].url
          BY <3>m, <3>1
        <4> QED BY <1>t, <2>3, <3>1, <3>3, <4>1, <4>2, <4>3, <4>4 DEF Flights, Url
      <3>5. ResultInv' /\ StarvationNotCached'
        BY <1>t, <2>0, <3>m, <3>1 DEF ResultInv, StarvationNotCached, Url
      <3>6. SlotsHeld'
        BY <1>t, <2>0, <3>m, <3>1, SlotsSame DEF Fetching
      <3> QED BY <3>2, <3>4, <3>5, <3>6 DEF PreviewInv
    <2> QED BY <2>2, <2>3
  <1>4. ASSUME NEW c \in Callers, Acquire(c) PROVE PreviewInv'
    <2>1. /\ call[c].st = "acquire" /\ To(c, "page", "empty") /\ UNCHANGED <<dead, flight, cache, failed>>
          /\ pool[User(c)] < Limit /\ pool' = [pool EXCEPT ![User(c)] = @ + 1]
      BY <1>4 DEF Acquire
    <2>2. /\ "page" \in Steps /\ "empty" \in Previews /\ "acquire" \in Leading
          /\ "page" \in Leading /\ "page" \in Fetching /\ "acquire" \notin Fetching
      BY DEF Steps, Leading, Fetching, Previews
    <2>3. /\ call' \in [Callers -> Calls]
          /\ \A d \in Callers : call'[d].st \notin {"idle", "done"} =>
                call'[d].url \in Urls /\ call'[d].user \in Users
          /\ Flights'
          /\ \A d \in Callers : /\ call'[d].url = call[d].url /\ call'[d].user = call[d].user
                                /\ call'[d].st = IF d = c THEN "page" ELSE call[d].st
                                /\ call'[d].res = IF d = c THEN "empty" ELSE call[d].res
      BY <2>1, <2>2, MoveKeeps
    <2>4. User(c) \in Users /\ pool \in [Users -> 0..Limit] /\ Limit \in Nat
      BY <1>t, <2>1, PreviewAssumption DEF TypeOK, User
    <2>5. pool' \in [Users -> 0..Limit]
      BY <2>1, <2>4
    <2>6. TypeOK'
      BY <1>t, <2>1, <2>3, <2>5 DEF TypeOK
    <2>8. ResultInv' /\ StarvationNotCached'
      BY <1>t, <2>1, <2>3 DEF ResultInv, StarvationNotCached, Url
    <2>9. SlotsHeld'
      <3> SUFFICES ASSUME NEW i \in Users PROVE pool'[i] = Cardinality(Held(i)')
        BY DEF SlotsHeld
      <3>1. CASE i = User(c)
        <4>1. Held(i)' = Held(i) \cup {c} /\ c \notin Held(i)
          BY <2>1, <2>2, <2>3, <3>1 DEF Held, User
        <4>2. Cardinality(Held(i) \cup {c}) = Cardinality(Held(i)) + 1
          BY <4>1, HeldFinite, FS_AddElement
        <4>3. pool'[i] = pool[i] + 1
          BY <2>1, <2>4, <3>1
        <4> QED BY <1>t, <4>1, <4>2, <4>3 DEF SlotsHeld
      <3>2. CASE i # User(c)
        <4>1. Held(i)' = Held(i)
          BY <2>1, <2>2, <2>3, <3>2 DEF Held, User
        <4>2. pool'[i] = pool[i]
          BY <2>1, <2>4, <3>2
        <4> QED BY <1>t, <4>1, <4>2 DEF SlotsHeld
      <3> QED BY <3>1, <3>2
    <2> QED BY <2>3, <2>6, <2>8, <2>9 DEF PreviewInv
  <1>5. ASSUME NEW c \in Callers, GiveUp(c) PROVE PreviewInv'
    <2>1. call[c].st = "acquire" /\ Land(c) /\ UNCHANGED <<pool, cache, failed>>
      BY <1>5 DEF GiveUp
    <2>2. call[c].st \in Leading /\ call[c].st \notin Fetching
      BY <2>1 DEF Leading, Fetching
    <2>3. /\ call' \in [Callers -> Calls]
          /\ \A d \in Callers : call'[d].st \notin {"idle", "done"} =>
                call'[d].url \in Urls /\ call'[d].user \in Users
          /\ dead' \subseteq Callers /\ flight' \in [Urls -> Callers \cup {None}]
          /\ cache' \in [Urls -> Previews \cup {None}] /\ failed' \subseteq Urls
          /\ Flights' /\ ResultInv' /\ StarvationNotCached'
          /\ call'[c].st \notin Fetching
          /\ \A d \in Callers \ {c} : (call'[d].st \in Fetching <=> call[d].st \in Fetching)
                              /\ (call[d].st \in Fetching => call'[d].user = call[d].user)
      BY <2>1, <2>2, LandKeeps
    <2>4. TypeOK'
      BY <1>t, <2>1, <2>3 DEF TypeOK
    <2>5. SlotsHeld'
      BY <1>t, <2>1, <2>2, <2>3, SlotsSame
    <2> QED BY <2>3, <2>4, <2>5 DEF PreviewInv
  <1>6. ASSUME NEW c \in Callers, call[c].st \in Fetching, Land(c), ReleaseSlot(c),
               UNCHANGED <<cache, failed>>
        PROVE  PreviewInv'
    <2>1. call[c].st \in Leading
      BY <1>6 DEF Leading
    <2>2. /\ call' \in [Callers -> Calls]
          /\ \A d \in Callers : call'[d].st \notin {"idle", "done"} =>
                call'[d].url \in Urls /\ call'[d].user \in Users
          /\ dead' \subseteq Callers /\ flight' \in [Urls -> Callers \cup {None}]
          /\ cache' \in [Urls -> Previews \cup {None}] /\ failed' \subseteq Urls
          /\ Flights' /\ ResultInv' /\ StarvationNotCached'
          /\ call'[c].st \notin Fetching
          /\ \A d \in Callers \ {c} : (call'[d].st \in Fetching <=> call[d].st \in Fetching)
                              /\ (call[d].st \in Fetching => call'[d].user = call[d].user)
      BY <1>6, <2>1, LandKeeps
    <2>3. SlotsHeld' /\ pool' \in [Users -> 0..Limit]
      BY <1>6, <1>t, <2>2, SlotReleased
    <2>4. TypeOK'
      BY <2>2, <2>3 DEF TypeOK
    <2> QED BY <2>2, <2>3, <2>4 DEF PreviewInv
  <1>7. ASSUME NEW c \in Callers, Panic(c) \/ Return(c) PROVE PreviewInv'
    BY <1>6, <1>7 DEF Panic, Return, Fetching
  <1>8. ASSUME NEW c \in Callers, NEW st \in {"image", "store", "return"}, NEW res \in Previews,
               call[c].st \in Fetching, To(c, st, res), UNCHANGED <<dead, flight, pool>>,
               failed \subseteq failed', failed' \subseteq Urls,
               st = "image" => res = "bare",
               st # "image" /\ res = "empty" => Url(c) \in failed',
               cache' = cache \/ (cache' = [cache EXCEPT ![Url(c)] = res] /\ st # "image")
        PROVE  PreviewInv'
    <2>1. /\ st \in Steps /\ st \in Leading /\ st \in Fetching /\ call[c].st \in Leading
      BY <1>8 DEF Steps, Leading, Fetching
    <2>2. /\ call' \in [Callers -> Calls]
          /\ \A d \in Callers : call'[d].st \notin {"idle", "done"} =>
                call'[d].url \in Urls /\ call'[d].user \in Users
          /\ Flights'
          /\ \A d \in Callers : /\ call'[d].url = call[d].url /\ call'[d].user = call[d].user
                                /\ call'[d].st = IF d = c THEN st ELSE call[d].st
                                /\ call'[d].res = IF d = c THEN res ELSE call[d].res
      BY <1>8, <2>1, MoveKeeps
    <2>4. Url(c) \in Urls
      BY <1>8, <1>t DEF TypeOK, Url, Fetching
    <2>5. TypeOK'
      BY <1>8, <1>t, <2>2, <2>4 DEF TypeOK
    <2>6. ResultInv'
      BY <1>8, <1>t, <2>2 DEF ResultInv, Url
    <2>7. StarvationNotCached'
      <3>1. CASE cache' = cache
        BY <1>8, <1>t, <3>1 DEF StarvationNotCached
      <3>2. CASE cache' = [cache EXCEPT ![Url(c)] = res] /\ st # "image"
        BY <1>8, <1>t, <2>4, <3>2 DEF StarvationNotCached, TypeOK
      <3> QED BY <1>8, <3>1, <3>2
    <2>8. SlotsHeld'
      BY <1>8, <1>t, <2>1, <2>2, SlotsSame
    <2> QED BY <2>2, <2>5, <2>6, <2>7, <2>8 DEF PreviewInv
  <1>9. ASSUME NEW c \in Callers, FetchPage(c) PROVE PreviewInv'
    <2>1. failed \subseteq Urls /\ "bare" \in Previews /\ "page" \in Fetching
      BY <1>t DEF TypeOK, Previews, Fetching
    <2> QED BY <1>8, <1>9, <2>1 DEF FetchPage
  <1>10. ASSUME NEW c \in Callers, FetchFails(c) PROVE PreviewInv'
    <2>1. /\ failed \subseteq Urls /\ Url(c) \in Urls /\ call[c].res \in Previews
          /\ call[c].st \in Fetching
      BY <1>10, <1>t DEF FetchFails, TypeOK, Calls, Fetching, Url
    <2>2. call[c].st = "image" => call[c].res # "empty"
      BY <1>t DEF ResultInv
    <2>3. /\ failed \subseteq failed' /\ failed' \subseteq Urls
          /\ call[c].res = "empty" => Url(c) \in failed'
      BY <1>10, <2>1, <2>2 DEF FetchFails
    <2>4. To(c, "store", call[c].res) /\ UNCHANGED <<dead, flight, pool, cache>>
      BY <1>10 DEF FetchFails
    <2> QED BY <1>8, <2>1, <2>3, <2>4
  <1>11. ASSUME NEW c \in Callers, FetchImage(c) PROVE PreviewInv'
    <2>1. failed \subseteq Urls /\ "full" \in Previews /\ "image" \in Fetching
      BY <1>t DEF TypeOK, Previews, Fetching
    <2> QED BY <1>8, <1>11, <2>1 DEF FetchImage
  <1>12. ASSUME NEW c \in Callers, Store(c) PROVE PreviewInv'
    <2>1. /\ failed \subseteq Urls /\ call[c].res \in Previews /\ "store" \in Fetching
          /\ call[c].res = "empty" => Url(c) \in failed
      BY <1>12, <1>t DEF Store, TypeOK, Calls, ResultInv, Fetching
    <2> QED BY <1>8, <1>12, <2>1 DEF Store
  <1>13. ASSUME NEW u \in Urls, Evict(u) PROVE PreviewInv'
    <2>1. UNCHANGED <<call, dead, flight, pool, failed>> /\ cache' = [cache EXCEPT ![u] = None]
      BY <1>13 DEF Evict
    <2>2. TypeOK'
      BY <1>t, <2>1 DEF TypeOK
    <2>3. Flights' /\ ResultInv'
      BY <1>t, <2>1 DEF Flights, ResultInv, Url
    <2>4. StarvationNotCached'
      <3>1. None # "empty"
        BY PreviewAssumption DEF Previews
      <3> QED BY <1>t, <2>1, <3>1 DEF StarvationNotCached, TypeOK
    <2>5. SlotsHeld'
      BY <1>t, <2>1, SlotsSame
    <2> QED BY <2>2, <2>3, <2>4, <2>5 DEF PreviewInv
  <1>14. CASE UNCHANGED vars
    <2>1. UNCHANGED <<call, dead, flight, pool, cache, failed>>
      BY <1>14 DEF vars
    <2>2. TypeOK' /\ Flights' /\ ResultInv' /\ StarvationNotCached'
      BY <1>t, <2>1 DEF TypeOK, Flights, ResultInv, StarvationNotCached, Url
    <2>3. SlotsHeld'
      BY <1>t, <2>1, SlotsSame
    <2> QED BY <2>2, <2>3 DEF PreviewInv
  <1> QED BY <1>1, <1>2, <1>3, <1>4, <1>5, <1>7, <1>9, <1>10, <1>11, <1>12, <1>13, <1>14 DEF Next

\* The specification keeps the invariant.
THEOREM PreviewInvariant == Spec => []PreviewInv
  BY InitPreview, StepPreview, PTL DEF Spec

\* Calls, flights, pools and cache keep their types; a pool never exceeds the limit.
THEOREM PreviewTypes == Spec => []TypeOK
  <1>1. PreviewInv => TypeOK
    BY DEF PreviewInv
  <1> QED BY PreviewInvariant, <1>1, PTL

\* For any limit and any number of callers, the tokens in a user's channel are
\* its fetches under way: timeouts, cancellations and panics leak no slot.
THEOREM SlotTheorem == Spec => []SlotsHeld
  <1>1. PreviewInv => SlotsHeld
    BY DEF PreviewInv
  <1> QED BY PreviewInvariant, <1>1, PTL

\* A full pool, a cancelled wait or a panic caches nothing: an empty preview in
\* the cache comes from a page that was tried.
THEOREM StarvationTheorem == Spec => []StarvationNotCached
  <1>1. PreviewInv => StarvationNotCached
    BY DEF PreviewInv
  <1> QED BY PreviewInvariant, <1>1, PTL

=============================================================================
