# zapfast in TLA+

zapfast is a multi-user WhatsApp gateway: an HTTP API over whatsmeow, with
PostgreSQL for users, history and device stores, webhooks for events, and S3 for
media. This directory holds TLA+ models of the parts that keep state, TLC
configurations that check them on small instances, and TLAPS proofs of the
invariants that matter most. Paths below are relative to the repository.

## 1. Inventory

| Part | State | Operations | What is hard |
|---|---|---|---|
| Session life cycle (`cmd/api/wmiau.go`, `handlers.go`, `clients.go`) | three registries of `ClientManager`, `killchannel` map, users row (`connected`, `jid`, `qrcode`), sockets | `Connect`, `Disconnect`, `Logout`, `DeleteUserComplete`, `connectOnStartup`, `startClient`, `myEventHandler` | several goroutines per user, check-then-act, one kill channel per user, restarts |
| Configuration and cache (`handlers.go`, `wmiau.go`, `users_adapter.go`) | users row, `userinfocache` (Go maps shared by reference, no expiration) | webhook, history, proxy, HMAC, S3 handlers, `authalice`, admin update, QR loop | two copies, stale re-insertion, different fill paths |
| Webhook delivery (`helpers.go`, `wmiau.go`) | one goroutine per event and hook, the user's HTTP client | `sendEventWithWebHook`, `callHookWithHmac` | retries, lost answers, client removed underneath |
| S3 and media (`s3manager.go`, `media.go`) | S3 client and config per user, row, cache | configuration handlers, deletion of users, `EnsureClientFromDB`, `UploadToS3`, `ProcessMediaForS3`, `processMedia` | the client is changed in the middle of an upload |
| Sending and history (`handlers.go`, `db.go`, `wmiau.go`) | `message_history`, whatsmeow's message secrets, poll options | 14 send handlers, Message, poll vote, HistorySync, trim | trims in two statements that may fail, secrets shared by users of one group, answers after partial failure |
| Migrations (`migrations.go`) | migrations table, schema | `initializeSchema` | several replicas at once, crashes |
| Users and authentication (`internal/users`, `handlers.go`) | users table, cache by token | create, update, delete, complete deletion, `authalice`, `Connect` and `startClient` as holders of a user | check-then-insert, tokens that move, entries and clients that come back |
| Chat, group, contact, presence, download, newsletter handlers (`handlers.go`) | none of their own | one whatsmeow call each | the client is looked up again for the call, after the session may have ended |
| History sync request (`handlers.go`, `wmiau.go`) | `lastMessageCache` | `RequestHistorySync` | a pointer shared with the event handler, written by requests |
| Link previews (`helpers.go`) | `openGraphCache`, single flights, a semaphore per user | `getOpenGraphData` | callers share a leader's context, slots and result; panics |
| Media conversion, HMAC crypto, routes, middleware, health, worker stub | none | pure or wiring | - |

The parts meet in the users row and in three in-memory structures:
`ClientManager`, `userinfocache` and `killchannel`. HTTP handlers run one
goroutine per request, each session has its `startClient` goroutine, whatsmeow
calls `myEventHandler` from its own, and every webhook is another goroutine.
`ClientManager` and the cache lock single operations; nothing spans two.
`PROJECT.json` lists the hazards that follow from this, at their lines.

## 2. Modules

Each module models one user (everything is keyed by user id), except `Users` and
`LinkPreview` (several users) and `Migrations` (several processes). Actions are cut
where the code calls the database, the network or another goroutine. What the
code does between two such calls is one step.

| Module | Models | Proofs |
|---|---|---|
| `Session` | session life cycle, whatsmeow as an environment | `SessionProofs` |
| `UserConfig` (`MCUserConfig`) | row and cached maps as objects with references | `ConfigProofs` |
| `WebhookDelivery` | deliveries against the end of the session | `ConfigProofs` |
| `S3Media` (`MCS3Media`) | S3 columns, S3 client, media messages | `S3Proofs` |
| `Messages` (`MCMessages`) | the 48 handlers that call WhatsApp, history, secrets, polls | `MessagesProofs` |
| `Migrations` | replicas at startup | `MigrationsProofs` |
| `SchemaUpgrade` | what the migrations promise; `Migrations` implements it | `MigrationsProofs` |
| `Users` (`MCUsers`) | admin service, authentication by token, who holds a user and puts it back | `UsersProofs` |
| `LinkPreview` | cache, flights and slots of link previews | `LinkPreviewProofs` |
| `HistoryRequest` (`MCHistoryRequest`) | the cached last message, history requests and the events that share it | `HistoryProofs` |

The MC modules define symmetry sets, views and operation sets only.

**Session.** A session is one run of `startClient`, with its client and the kill
channel made for it. `pc[s]` follows the function: `launched`, `registered`,
`dialing` (retry loop), `qrDialing`, `qr`, `qrSuccess`, `failed`, `alive`
(keep-alive loop), `killed`, `done`. `killCh` is the map entry, a session or
`None`; a goroutine polls the entry that is there *now*, as the code does.
`link` and `dev` are whatsmeow's socket and device, moved by the external actions
`Pair`, `Authenticate`, `LinkDrop`, `Unlink`. Handlers take two steps around their
database write or network call. `OnLoggedOut` and `OnLoggedOutKill` are the
handler and its deferred kill, with the webhook work between them. `stopped` is a
history variable: sessions whose stop was answered with 200. `ConnectOnStartup` may
find nothing although the row is connected: its query or its scan failed (`DbMayFail`).
`Register` may find the device or not: the jid comes from the launch, which has it from
the row or from a cached copy.

**UserConfig.** Cached `Values` are Go maps; `authalice` puts the same map into
the request context and `updateUserInfo` mutates it in place. So `val` holds map
objects, and the cache, requests and the QR loop refer to them. Handlers write
the row first (`SetWebhook`, `Configure`, ...) and the cache afterwards, through the
context map (`SetCtx`) or the entry found in the cache (`PatchCached`).
The admin's `Update` reads the token (`AdminUpdate`), writes the row
(`AdminUpdateRow`) and forgets both tokens (`AdminHook`), and other updates may come
between; `DeleteComplete` and `DeleteRow` are DeleteUserComplete in the same way. Their
statements may fail or find no row. `WebhookUrl`, `Subscribed` and `Signed` are what an
event delivery reads. `calm` is a history variable (see section 3).

**WebhookDelivery.** `Start` is `GetHTTPClient` with its first use, `Post` one
turn of the retry loop with the three outcomes a sender cannot always tell apart. An
answer other than 2xx does not say that nothing was done: `Refused` is a receiver that
left the event alone, and a receiver that did the work and then answered with an error
is, like one whose answer was lost, `NotConfirmed`, and counted in `lost`.
`TimeoutEvent`/`TimeoutCleanup` and `GiveUpCleanup`/`GiveUpEvent` keep the order
of the code. `callHookFileWithHmac` never runs (every caller passes `""`).

**S3Media.** A message goes through `ReadSettings`, `EnsureClient`, `InitClient`,
`Download`, `Upload`, `GetClient`, `Put`, `Link`, `Encode`, `Send`; the manager is looked
up again at each step, and downloads, uploads and encodings may fail. The user may have
been created with or without S3. Requests write the row first and then the client
(`ApplyClient`), `TestS3Connection` initialises the client with what it read, deleting a
user leaves the client, logins initialise one from the row in two steps, and a restart
forgets it. The settings a message reads are the cached copy, which may be older than
the row in many ways (`UserConfig`), so `ReadSettings` takes any. `InitializeS3Client`
cannot fail, so no step for its error. `robbed` and `errs` are history: the client was
removed during this upload, the errors that were logged.

**Messages.** A handler is a record of what distinguishes its control: whether its
call changes something or reads, how a failed call is answered, whether it uploads
first, keeps the client or looks it up at each use, saves history, remembers poll
options. The simple chat, group and contact handlers are rows of the same table and
run through the same `Begin` and `Send`. `text` is the answer of the handlers that
give `Respond` a string for an error (code 500, success true). Message contents are
left out. `rows` is one chat's history in
timestamp order; all writers use the current time. The history limit is read after the
send. `TrimSecrets` and `TrimRows` are the two statements of a trim; each may fail,
which is logged. The first deletes by message id alone, so another user of the group
takes this user's secrets: `ForeignTrim`. A vote is decrypted and then matched with the
options (`DecryptPollVote`, `GetPollOptions`). `seen` is history: how many trims
failed and how many rows were synced since a trim last worked (`slack`), the messages
that a trim went for (`lost`), the secrets that ever came (`secret`).

**Migrations.** A migration's SQL is one idempotent change. PostgreSQL makes a
second INSERT of a key wait for the first transaction, then fail. `OneUpgrade` is
the refinement: with `done` the migrations whose changes are committed and `open` the
replicas that serve, every behaviour of the replicas is one of `SchemaUpgrade`.

**Users.** `AuthQuery`/`AuthFill` are the two halves of a cache miss; `Create`, `Update`
and `DeleteUserComplete` read and write in several steps, and statements may fail.
`Connect` only launches a session: `Register` puts its client into the manager later,
`QRStart` takes the cached entry once, and every `QRCode` puts it back under the token
that the launch passed on. `gone`, `clean`, `dropped` and `held` are history variables:
users removed completely, those of them that no request, goroutine or other entry held
at that moment, users removed by Delete, and every pair of user and token that the
table has held.

**LinkPreview.** A call is at the cache (`Call`), joins or opens a flight (`Join`),
and as a leader goes through `acquire`, `page`, `image`, `store`, `return`. `Expire`
ends a leader's context: its five seconds, or the client of the request going away.
A fetch can fail or panic at every point; `Land` is singleflight handing the result
to all who wait. `failed` is a history variable.

**HistoryRequest.** `info` holds MessageInfo objects, one per event and per request;
`last` is the reference in `lastMessageCache`. A request reads the reference, writes
its parameters field by field into whatever it refers to, builds the message and
reports from the same object. `Save` and `Post` are the event handler reading its own
`evt.Info` at those moments. `touched` (objects written to by a request) and `mixed`
are history variables. The automatic sync after a login is not in the model: it never
runs (section 6).

## 3. Runs

Some guarantees hold for everyone, some only for callers that do not overlap. In
`Session`, `Serial = TRUE` restricts callers, not the program: a Connect only once
the previous session is gone. In `UserConfig` nothing is restricted: the history
variable `calm` becomes FALSE for good when requests overlap each other or a QR login,
and the weaker guarantees are stated with `calm` as their hypothesis, in the same run as
the unconditional ones. What these leave out is what section 4 lists. The properties of
`S3Media`, `Messages`, `LinkPreview` and the `users` run hold under every interleaving;
where the code loses something, they name the one cause (`robbed`, `lost`, `slack`,
`clean`).

Passing runs:

| Run | Shows |
|---|---|
| `session_serial` | careful callers, a crash with the start after it, failing database calls: kills reach their session, stops and unlinks take effect, `startClient` decides |
| `config` | maps are never shared between tokens, whatever overlaps, a QR login included; while calm, cached webhook, history and proxy agree with the row and old tokens are forgotten |
| `webhook` | truthful outcomes, duplicates only after an answer that did not confirm; every delivery ends (or the process did, section 4) |
| `s3` | a link in the payload exactly for a stored file; a failed upload never costs the event or its base64 form, which only the removal of the client in the middle of the upload does |
| `messages` | history bound and secrets kept with their rows, up to failed trims and other users' trims; a failure answer to a change means that nothing was acknowledged, also when the client vanishes between two lookups; votes on answered polls resolved |
| `migrations` | applied once, in order, recorded; the replicas together implement `SchemaUpgrade`; all end up serving |
| `users` | under any overlap: a removed row never returns, a cached token names only users whose token it is or was, and a user that nothing held when completely removed does not come back |
| `link_preview` | slots are held exactly while fetching, also through panics; waiting in vain is never cached; every call is answered |
| `history_request` | rows, webhooks, requests and answers say what they should wherever no request wrote to a shared MessageInfo |

Violation runs, each a sentence of the documentation or of a log message that TLC
refutes (`findings` in `PROJECT.json` quotes it):

| Run | Shows |
|---|---|
| `session_retry` | a connection that succeeds at a later attempt is reported as "failed after all retry attempts", and its socket is orphaned |
| `config_hmac` | after a cache miss webhooks are not signed although an HMAC key is configured |
| `users_removed` | the client of a user "removed completely" is registered by the goroutine of an earlier Connect, without overlapping requests |

### Bounds

Two sessions let one session's goroutine, callbacks and cleanup run beside the
start of the next; connection attempts are bounded by the code (3). One crash, with
a session left for the restart, and database calls that fail. Two tokens and three maps let a token change while
a request holds the old map and the QR loop another. Two events and two hooks with
two attempts: one answer lost and one retry, for deliveries of the same and of
different events (no attempt and a single one are covered by the theorems only). Two S3 configurations (a change is visible), two messages and two requests. Three message ids with limits 1 and 2, two requests
and one event: a trim always has something to drop and meets a trim with another
limit; of the 48 handlers five stand for the kinds of control that meet every
branch (upload required, upload optional with a kept client, poll, a change answered
with a text, a read). Three replicas, two migrations, one crash. Two users and
two tokens (a token can move and come back), two requests and a session at once. Three previews of two users and two URLs with one slot per user: a
leader with a follower and a third that waits for the slot, on the same or another
page. Two messages in different chats and two history requests: one request's
parameters meet the other's, and a message arrives between. The views (`ConfigView`,
`View` of `MCUsers`, `HistoryView`) leave out only what no later guard or property reads. Deadlock checking is off because bounded inputs end.

### Fairness

Weak fairness for goroutines that can run: the Go scheduler is fair to them.
`QRTimeout`/`QRError`: whatsmeow's codes run out after minutes. `Dial`: `Connect`
returns. `Post`: the HTTP client has a 30 s timeout. `Migrations`: an exited
container is restarted. `LinkPreview`: a leader's context ends after five seconds,
and a fetch whose context is over returns. Callers, the phone, the network, crashes, `LinkDrop` and
new events have no fairness. Liveness runs use no symmetry.

## 4. Where code and documentation disagree

Met while modelling and reproducible in the models by stating the quoted sentence
as a property; the first three are runs.

- `wmiau.go:610`: `lastErr` is not reset when a later attempt succeeds, so the exit
  that logs "Failed to connect to WhatsApp after all retry attempts" is also taken
  with an open socket (`session_retry`).
- `handlers.go:186`: the entry `authalice` caches has `HasHmac` but no key; API.md:
  "All webhooks will include an `x-hmac-signature` header when HMAC is configured"
  (`config_hmac`).
- `wmiau.go:421`, `:516`: `startClient`, launched by a Connect that was answered at once
  (`Immediate`), registers its client, and its QR loop puts the cached entry back, after
  DeleteUserComplete answered "user instance removed completely" (`users_removed`).
  After a token was replaced, the loop brings the old one back in the same way.
- `handlers.go:278`: a Connect during a slow dial replaces the kill channel; the
  signal of a Disconnect answered 200 can be taken by the other goroutine
  (`StopTakesEffect` with `Serial = FALSE`).
- `handlers.go:5362`: DeleteUserComplete ("user instance removed completely") sends
  no kill signal; the goroutine polls on.
- `handlers.go:554`: "Update only webhook" empties the cached subscriptions.
- `handlers.go:5873`: DeleteS3Config leaves the cached S3 settings, although API.md:1441
  says "Remove S3 configuration and revert to base64-only delivery".
- `users.go:254`, `handlers.go:5349`: neither deletion removes the S3 client of the user.
  `s3manager.go:84`, `handlers.go:5675`: overlapping configuration requests and logins
  may leave another client than the row's.
- `wmiau.go:228`, `:246`: a query or a scan that fails in `connectOnStartup` leaves rows
  with connected=1 without a session until the next start. `wmiau.go:703`: a Connected
  event handled after a Disconnect writes connected=1, and the next start brings the
  session back.
- `wmiau.go:148`: without a cached entry (after an admin update, or GetHistory with
  history 0) events find no webhook until the user's next request.
- `handlers.go:201`, `:275`: a request in flight puts a replaced token, or a user
  that was completely removed, back into the cache (`OldTokenForgotten` without
  `calm`, `CleanDeletionStays` for `gone`).
- `helpers.go:238`: `-retrycount`, "Number of times to retry failed webhooks", counts
  attempts; 0 drops the event silently.
- `wmiau.go:537`, `:619`: "Send webhook notifying QR timeout before cleanup" only
  spawns the delivery; the ConnectFailure event is sent after its HTTP client was
  removed. Either delivery may use a nil client, which ends the process (`crashed`).
- `s3manager.go:370`: a configuration removed between upload and link is a nil
  dereference; API.md: "If S3 upload fails, the webhook is still sent"
  (`WebhookStillSent` without `robbed`). A configuration replaced there makes the link
  name a bucket that does not hold the file.
- `wmiau.go:827`: on a cache miss the query compares a BOOLEAN column with 1, which
  PostgreSQL rejects: no S3 data. `media.go:90`: an empty `media_delivery` sends
  media in neither form.
- `handlers.go:2766`: a vote handled before SendPoll stored the options is not
  resolved, although `wmiau.go:865` names only a restart as a reason.
  `db.go:122`: once a trim took a poll's secret, votes have no hashes either; `db.go:113`: the trim of
  another user of the group takes it too, since secrets go by message id alone.
- `db.go:122`, `:126`: a trim that fails is only logged: the rows above the limit stay,
  some without their secrets, until the next trim of that chat.
- `internal/users/users.go:276`: two concurrent creations with one token succeed, and an
  update to a token in use does; `:254`: Delete leaves a cached token valid.
- `wmiau.go:824`, `handlers.go:2979`: RequestHistorySync writes its query parameters
  through the pointer in `lastMessageCache`. The next request without parameters asks
  from there, and an event that is still being handled is saved and delivered with
  them (`PlainRequestAsksLast`, `EventKeepsInfo` without `touched`).
- `helpers.go:199`: the context of a flight is that of its leader's request: a client
  that goes away during the fetch leaves an empty preview for everyone for five
  minutes. `helpers.go:173`: a follower of another user fails when the leader's user
  has no free slot.
- `handlers.go:4930` and its siblings: a failed call is answered with code 500 and
  `"success": true`.

## 5. Proofs

All hold for every value of the constants that satisfies the named assumptions.

- `SessionProofs`: `RegisteredIsDriven` and `OrphanOnlyByRetry` need no caller
  discipline. They are proved from `LinkInv`, which adds to the types that a session
  before its first dial has no socket (`ClosedLinks`), that failed attempts stay
  within the loop's bound (`RetryBound`), and that a failed session with a socket
  came through the retry loop (`FailedLinks`). `KillReachesSession` is proved from
  `SerialInv`: requests do not overlap, a pending Connect or a starting process
  means that no session runs, and a running session is alone and owns `killCh`.
  `RegisteredUntilStopped` needs both invariants and `StopsTheRunning`: the client
  that a pending Disconnect or Logout holds is the one that runs, if any does. Without
  it a stale request could take the registration of a newer session.
- `ConfigProofs`: `TokensDoNotShare` holds under every interleaving but is not
  inductive, because a map may come back into the cache from a request's context or
  from the QR loop. `Single` counts those references too: every map is reachable
  under one token only, and `AuthFill` takes a map that nothing reaches.
  `OldTokenForgotten` and `CacheCoherent` are about calm executions: `Alone` (one
  request at a time, no QR loop), `Known` (requests run under the row's token; another
  cached token is one that a running admin call is about to forget) and `Settling`:
  the map is coherent with the row, or will be once the running request has stored the
  copy it read or applied its patch. `PatchBoth` is the lemma about
  `updateUserInfo`: two patches that agree except on the events keep map and row
  coherent.
- `ConfigProofs`, last section, is about `WebhookDelivery` (whose definitions `Init`,
  `Next` and so on are therefore prefixed): `LoopInv` ties attempts to the state of a delivery (`trying` has
  attempts left) and outcomes to answers (`got = lost` until accepted, then one more).
- `S3Proofs`: `Good(x, c)` says what is true of one message by how far it is, given the
  manager's client: nothing is stored, linked or failed before the upload is over, an
  upload runs only under settings that ask for S3, and between the lookup of the client
  and the link the client is there or was removed meanwhile. A step of a message concerns
  that message only (`OneMoves`); a client that appears disturbs no message
  (`ClientAppears`), and a removal marks the uploads it meets (`SetClientKeeps`).
- `MigrationsProofs`: `Bookkeeping` ties each replica's position to the recorded
  prefix (everything below it is recorded, what it read is a subset), `Transactions`
  says that an open transaction changes the schema once unless its migration was
  recorded meanwhile, and that one replica at most holds a migration's key, which
  is then not yet recorded. `UpgradeRefinement` uses them step by step: `Commit` maps
  to `Upgrade` of the next migration, `Serve` to `Open`, `Crash` to `Close`, the rest
  to stuttering.
- `LinkPreviewProofs`: `Flights` (a leader is the one its URL's flight names, and a
  named leader leads) says which call lands a flight; `SlotsHeld` is proved with the
  cardinality lemmas for one caller entering or leaving `Held(i)`;
  `StarvationNotCached` needs `ResultInv`: a leader about to store an empty preview
  has tried the page and failed.
- `UsersProofs`: `RowStaysDeleted` is not inductive, since an INSERT may still be on
  its way. `Fresh` says that an id before its INSERT is known to its own request only
  and to no deletion; `Named` that whatever requests, sessions and the table's history
  name was generated. `CachedHolder` needs `Holders`: requests and QR loops too only hold
  pairs that the table has held, so whatever they put back is one. `CleanDeletionStays`
  needs `Forgotten`: nobody holds a user that was removed cleanly, and nobody can get hold
  of one, because a miss needs a row and a hit an entry.
- `MessagesProofs`: `MsgInv` says what is known of a handler by how far it is
  (`Phase`: nothing is sent before the call, nothing answered before the end), that
  sessions are numbered in order, so that a handler's `sent` cannot name a session
  to come (`Numbered`), and that a poll that was answered has its options for as long as
  its session lasts (`PollKept`). `FailureMeansUnsent` and `VoteResolved` follow, the latter also between the two steps of
  a vote.
  `RowKeepsSecret` is strengthened to `SecretsAccounted`, which also covers messages
  whose row is not saved yet; the lemmas about `Oldest` (what a trim to n rows would
  take, before and after another trim or insert) carry it through two interleaved
  trims; what a trim goes for is in `lost`, whether its second statement works or not.
  `HistoryBounded` counts a handler that is about to trim, a failed trim or a synced
  message for every row above the limit (`BoundKept`, `BoundGivenUp`: a trim that fails
  leaves the set of those about to trim and enters `slack`), with the largest setting obtained from the finiteness of
  `Limits`.
- `HistoryProofs`: `Holding` says that whoever holds the Info of a message holds it
  after its event arrived, so `Receive` never writes to an Info that somebody has
  read; a request that found no entry holds an Info of its own. `Untouched` gives the
  contents of the Infos that no parameter reached, `Asking` that from `Build` to the
  answer the Info still says what was sent unless `mixed`. `WriteKeeps` is the
  interesting step: a parameter written through the pointer.

Type invariants are proved for every module with a specification but `SchemaUpgrade`.
The runs of `Session`, `WebhookDelivery`, `S3Media`, `Migrations`, `LinkPreview` and
`Users` leave them out, as they do `AppliedInOrder` and `ServesMigrated`, which are
proved and follow from the refinement; the others check `TypeOK` as well. Every
safety invariant of a passing run is a theorem.

Only model-checked: all liveness (`StartDecides`, `StopTakesEffect`,
`LoggedOutEndsSession`, `CallsEnd`, `AllServe`,
`CallsAnswered`), which is out of the prover's reach, and the three violations, which
are counterexamples.

## 6. Not modelled

Message contents, formatting and validation details (they decide only whether a
request starts); handlers that only read the row or the session (`GetStatus`,
`GetWebhook`, `ListUsers`, ...); `publishSentMessageEvent`, which builds an event and
drops it; the pages and images behind a preview; media conversion; encryption; HTTP wiring; the health endpoint; the worker stub.
Go data races on `killchannel` (accesses are atomic here). The automatic history sync
after a QR login: it is guarded by a query of the column `days_to_sync_history`
(`wmiau.go:735-740`), which no migration creates (`migrations.go:18-74`), so that the
query fails and `syncHistoryForChat` is never reached. PairSuccess's rewrite of the
cached entry that it just read (`wmiau.go:722-729`): only the jid changes.
DeleteUserComplete's file and S3 cleanup (the bucket's
contents are not state of any module). Two replicas that reconnect the same user: the
rows would be shared, but what happens between the two sockets is WhatsApp's doing.

## 7. Plan

Done: the core in the order Session, UserConfig, WebhookDelivery, S3Media, Messages,
Migrations, Users; then SchemaUpgrade and its refinement, LinkPreview,
HistoryRequest, the simple handlers in `Messages`; eight proof modules, with a theorem
for every safety invariant of the passing runs. Next:

1. Proofs: action properties of the modules that have invariants only (what a step of
   `Messages` or `UserConfig` may never do).
2. Model: `DeleteAllUserObjects` with its batches against uploads in flight; two
   replicas that reconnect the same user; overlapping callers in `Session`, with the
   history variables that name what each overlap costs.
3. Abstract specifications: a user's session as "absent, starting, live" that
   `Session` under `Serial` implements.
