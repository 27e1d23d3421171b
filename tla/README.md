# YYB Go: TLA+ models, model checking and proofs

YYB Go (`src/yyb_go`) is one process: a web service that logs WeChat accounts in by
QR code, keeps their credentials alive, keeps an mmtls session per account and
network egress, and runs mini-program calls over those sessions. State lives in a
SQLite file (accounts, sessions, proxies), in the QR directory (one image per login)
and in memory (QR sessions, semaphores, mutexes). `src/yyb-proxy` is a small HTTP
CONNECT proxy of its own.

This directory models the parts in which goroutines, the network, time and crashes
meet, and the bytes of a call over the short link; it checks them with TLC, and proves
with TLAPS what matters most of the pool, of the calls over it, of credential renewal, of
the QR login, of the account handlers and of the schema migration.

## 1. Inventory

Paths are below `src/yyb_go/`.

| Component | Code | State | Operations | Correct when |
|---|---|---|---|---|
| Session pool | `internal/protocol/pool.go` | `sessions` rows, mutex per account and proxy, two channel semaphores | `run`, `state`, `loginAndSession`, `sendEnvelope`, `Invalidate` | one login per key at a time and only when needed; locks and slots always come back; sessions stay with their account and proxy |
| Wxapp calls | `httpapi/app.go` (`invokeWXApp`, `callWXApp` ...) | none of its own; account `status` | peek, first run, invalidate, refresh, second run | a failed session is not used again, repeats are bounded, the status is not spoiled by a client that left |
| Credential renewal | `app.go` (`refreshLiveness`), `protocol/loginbuffer.go` | `credentials_json`, `login_buffer`, `status`, `last_checked_at` | refresh token exchange, fetch login buffer, store | the stored refresh token is the one upstream accepts |
| Scheduler | `httpapi/scheduler.go` | one goroutine, a pass every 30 minutes limited to 25 | `renewLoop`, `runRenew`, `renewAccount` | passes end, disabled accounts rest, expired ones are tried for an hour |
| QR login | `internal/qr/qr.go`, `app.go` (`handleQRRoot`, `handleQR`) | `App.qrSessions`, image files, session objects with a mutex | create, poll, confirm, prune, clean up | the authorize code is exchanged once, files go with sessions, a finished scan is not lost |
| Store | `internal/store/store.go` | SQLite tables, one connection | one statement per operation | foreign keys and unique keys hold |
| Schema migration | `store.go` (`Open`, `migrateSessionsTable`) | tables, indexes and rows of the file | move of `wmpf_sessions`, schema, default features, each statement a commit of its own | what this release stored is not lost wherever it stops, it can be taken up again, an old database opens and serves |
| Account and proxy administration | `app.go`, `store.go` | accounts, proxies, features, audit log | resolve, bind, disable, delete, resync, batch, PATCH | handlers do not undo each other or write to somebody else's account; a batch answers for every id |
| HTTPDNS and targets | `internal/protocol/newdns.go` | cache with a TTL | lookup, order targets | no answer is used beyond its time |
| mmtls client | `internal/protocol/mmtls_*.go` | handshake keys, sequence numbers | handshake, seal, open | both sides agree on record numbers and keys; connections are closed |
| Short link | `shortlink.go`, `pool.go` (`sendEnvelope`) | one connection per target | early-data request, answer read to the end of the stream | the result is the server's whole answer; an exchange ends in its time |
| Message codec | `internal/protocol/ilink.go`, `bytes.go` | none | varint, protobuf, LZ4, package heads, transfer packets | the server reads what was asked, the client reads what was answered |
| Dialling | `internal/protocol/transport.go` | none | direct, SOCKS5, CONNECT, fallback, each with a deadline | traffic leaves where the caller allows; nothing is left open or unread |
| `yyb-proxy` | `src/yyb-proxy/main.go` | two copying goroutines per tunnel | CONNECT | both ends are closed |
| HTTP surface | routing, pages, OpenAPI, flags | none | | |

**Interactions.** An HTTP handler resolves an account, and `invokeWXApp` calls the
pool up to twice with a renewal in between. The scheduler renews the same accounts
with no lock shared with the handlers; both write rows by id. The pool reads
accounts and writes `sessions` and the `uin` column. Deleting an account removes its
sessions by a foreign key. A confirmed scan upserts an account that renewals may be
working on. All database statements go through one connection.

**What is hard.** (1) requests for one key that miss the cache together; (2) six
returns of `Pool.state` that give back a mutex and perhaps a slot; (3) a context that
ends at any statement, with the clean-up statements under the same context; (4) rows
that change under a snapshot: deleted accounts, rescans, overlapping renewals; (5)
tokens rotated upstream whose answer is lost; (6) keep lists copied under a mutex and
used after it; (7) restarts between any two statements; (8) a handshake over a stream
that arrives in pieces and breaks anywhere; (9) the end of a stream taken for the end of
an answer, behind a tunnel that turns a break into a close; (10) a migration of several
statements that commit one by one. `PROJECT.json` lists each hazard at its line.

## 2. Modules

| Module | What it is |
|---|---|
| `SessionCache` | abstract single-flight cache per key: what the pool promises |
| `SessionPool` | the pool: `Pool.run` statement by statement over the tables |
| `SessionPoolProofs` | types, semaphores, key mutexes, single flight, rows of accounts and of proxies, and that the pool implements `SessionCache` (TLAPS) |
| `WxappCall` | `invokeWXApp` composed with the pool (extends `SessionPool`) |
| `WxappProofs` | the composition: failed sessions, repeats, calls whose client is gone, and the pool's invariants in it (TLAPS) |
| `Renewal` | `refreshLiveness`, the scheduler, scans, disabling, deletion |
| `RenewalProofs` | tokens, disabled accounts, passes out of time (TLAPS) |
| `QrLogin` | QR sessions, image files, the session objects, the phone |
| `QrLoginProofs` | exchanges, image files, authorized sessions (TLAPS) |
| `Accounts` | the handlers of `/accounts/*`, the batch, scans; the proxies table |
| `AccountsProofs` | settings, profiles, stale ids, batches (TLAPS) |
| `Migration` | `store.Open` statement by statement, and the two releases that serve from the file |
| `MigrationProofs` | what is kept and what alone can be lost, rows sound, opened databases complete (TLAPS) |
| `HttpDns` | HTTPDNS lookups over the shared cache, choice and order of targets |
| `Mmtls` | one mmtls connection: records, handshake, application packet; the server is external |
| `Login` | `loginAndSession`: extends `HttpDns` and `Mmtls` with the loop over the targets |
| `LoginProofs` | records and handshakes, the session, the connections and the lookups of a login (TLAPS) |
| `Codec` | the bytes of a mini-program call, as functions |
| `Envelope` | a request and its answer, as the client and the server read them (extends `Codec`) |
| `Tunnel` | `yyb-proxy`: CONNECT, its two connections and the two copying goroutines |
| `Dial` | `dialTCP`: direct, SOCKS5, CONNECT, deadlines and the fallback (extends `Tunnel`) |
| `ShortLink` | `sendEnvelope` over its targets: extends `Dial` and `Envelope` with the server |
| `ShortLinkProofs` | the way a call goes, its time, whole answers and whose fault a failure is (TLAPS) |
| `MCSessionPool`, `MCWxappCall`, `MCRenewal`, `MCQrLogin`, `MCAccounts`, `MCLogin`, `MCShortLink`, `MCMigration` | instances for TLC |

### How the models correspond to the code

* **Steps.** One database statement, one mutex or semaphore operation, and one start
  or outcome of a network exchange are one step each; purely local code goes with the
  statement before or after it. The store opens SQLite with one connection, so
  statements do not overlap. Deferred calls happen in the step that returns
  (`leaveState`, `release`).
* **Program counters.** `pc`, `stage`, `wpc` and `rpc` name the statement a goroutine
  executes next.
* **Contexts.** `cancelled` and `dead` hold the goroutines whose context is done. Every
  statement and exchange under such a context fails; `lock.Lock()` does not look at it.
* **SessionPool.** `sessions` is the table by (account, `tcp_proxy`), `live` the keys
  whose `expires_at` lies ahead. A session is known by the login that made it
  (request, call, proxy). `stateFails` and `opFails` are the two error returns of
  `Pool.run`'s loop with its second, direct, attempt. `dialTCP` gives the ways a
  connection may leave, so a proxy that is down is a choice.
* **WxappCall.** `stage` is the place in `invokeWXApp`; a step of the pool inside a run
  is the pool's own action (`InPool`), and `run` enters it under the HTTP request's context.
  Within one `sendEnvelope` the envelope goes to target after target (the loop of `send0RTT`);
  `exchanges` counts every single one, as each may have executed the operation: a send that
  fails adds all targets of the session, one that succeeds some of them (`offered`).
* **Renewal.** A row keeps `status`, the disabled flag, `last_checked_at` in passes, and
  its credentials as the number of the refresh token in them. Upstream (external)
  accepts the token issued last and may rotate it at an exchange, also when the answer
  is lost. `spoilt` is a history variable: accounts for which a rotated token was
  dropped or overwritten.
* **QrLogin.** `qrSessions` is the map, `images` the files, `code`, `jar` and `buffer` the
  fields of the session objects. A handler keeps the object after the map lost the id.
  WeChat (external) honours an authorize code once. `Known` are sessions whose POST /qr
  was answered before the instance begins.
* **Accounts.** `apc` is the next statement of a handler, `acc` the account it has read,
  `todo` what is left of its list. `chosen` is what an administrator set last; a rescan writes
  the nickname over the remark (store.go:266), and from there to the next choice nothing is
  promised of it. Profiles are told apart by the scan they come from.
  `disabled` stands for `bound_proxy` too: both are set by their handlers alone. A request
  in `left` has a context that is done, and all its statements fail. The credentials
  and the status that a refresh writes are in `Renewal`, the cascade to sessions in
  `SessionPool`.
* **HttpDns.** `now` is the local variable of `getDNSParsed`; `parsed[l].asked` records when
  the answer was asked for. IPs are numbers, answers are lists of targets per domain.
* **Mmtls, Login.** `mc` is the struct `mmtlsClient`, `hpc` the place in the handshake. A
  record is two units of the byte stream and `Read` takes any number of units; a record
  opens under the key, number and type it was sealed with. Keys are named by label,
  direction and the transcript they are derived from, as the key agreement makes the
  secret the same on both sides. The server numbers its records and derives its keys as
  the client expects it to (external): what is checked is that the client's own counting,
  buffering and feeding is consistent through every chunking, refusal and break.
  `open` and `deferred` are the connections of a login and those that a deferred call will
  close. `SessionPool` sees a login as one exchange with an outcome (`LoginSucceeds`,
  `LoginFails`).
* **Migration.** `objects` holds the tables and indexes of the file, `opc` the next statement
  of `Open`; each statement commits by itself, may fail when the ten seconds of `Open` are
  over, and the process may stop before it. The older release (external) keeps its
  sessions in `wmpf_sessions` and may be started on the file in between. `owed` is a history
  variable: each session by account, proxy and start as it was written, until it is overwritten
  under its key or deleted, whatever the tables do with it; `beside` marks what the older release
  writes into a file that has the table of this one too. `INSERT OR IGNORE`
  leaves out a row whose id or whose (account, proxy) is taken, and the drop of the old table
  then loses it: `LossIsCollision` says that nothing else does.
* **Codec, Envelope.** A byte is a number from 0 to 255; a byte of a sealed text is a negative
  one that carries the key, so that a slice opens only if it is a whole sealed text under the
  right key. What may fail returns a set, empty for an error. Names (URLs, hosts,
  devices) are cut to a few bytes. The session info takes the low `UinBits` of a uin (32 in the
  code), the head all of it. `buildRecord` gives no record for a payload over `MaxRecord` (0xffff in the
  code), and the request goes without it, as the code drops the error; `fits` says of a call that all its
  records and its uin have room. The server side of `Envelope` reads the request by its
  format, not with the client's own encoder.
* **Tunnel, Dial, ShortLink.** A connection is a queue of units for each direction and the
  state of its two ends; what was sent before a close is still read, a reset may be noticed
  before it. Time passes in ticks, of which the timeout of a dial, a dialog and an exchange is
  `T`; a wait ends in the tick of its deadline. A send has a context of its own that ends `T` after its
  start. `via` records how each connection was dialled and `blame` whose fault the failures
  were. The SOCKS5 proxy and the server are external; `yyb-proxy` is `Tunnel`. What the
  bytes of a call come to is computed once per call (`accepts`, `parses`; `CallAssumption`)
  as it does not depend on the way the connection goes.

## 3. Runs

| Run | Instance | Shows |
|---|---|---|
| `pool` | 2 requests with 2 calls each, 1 account, with and without a proxy, 1 slot per semaphore | types, mutexes, slots, single flight, row and proxy isolation, refinement of `SessionCache`, every call returns |
| `wxapp` | 2 requests with both runs, with and without a proxy, 2 targets per session | own sessions not reused, envelopes handed to a target are bounded in number, cancelled calls write nothing, answers |
| `wxapp_retry` | the same with a default proxy | **finding**: the second run may use the direct session the first failed on |
| `renewal` | 1 handler, the scheduler, 1 account, 2 tokens, 2 passes | the token kept, disabled accounts, timeouts, passes end |
| `renewal_window` | 5 passes | **finding**: an expired account is tried for ever |
| `qr` | 3 requests, a shown session and a second id | one exchange at a time, authorized sessions stay, no image file leaks, answers |
| `qr_image` | 2 requests, 2 ids | **finding**: a creation removes the image of a later one |
| `accounts` | 2 requests, 2 accounts, 3 scans, a batch of 2 ids, 1 proxy | settings stay, profiles are not mixed, stale writes miss, batches answer for every id |
| `login` | 2 of 3 hosts, 4 flights, 2 lookups and a rival's, TTL of 1 in 2 ticks | record numbers and keys agree, the session can be used, connections are closed, answers are fresh, the login ends |
| `shortlink` | 2 connections, 2 targets, a timeout of 1 tick of 5, 15 calls | the code is the server's, failures of a call that fits are others' doing, egress and time are kept, tunnels end |
| `migration` | 2 accounts, 2 proxies, 2 row ids, 4 starts | nothing of this release, or of the older one alone, is lost between the tables, the rest only by a collision, rows sound, an open database is complete, starts end |
| `migration_columns` | the same | **finding**: a database of an older release opens, and then no account can be looked up |

Each module has one type invariant by name; only that of the pool is an invariant of a run,
the others (`WxTypeOK`, `RenewTypeOK`, `QrTypeOK`, `AdminTypeOK`, `LoginTypeOK`) document the
variables. Four statements stand in the modules without a run because the code does not
keep them: `LoginLeavesByProxy` (the login of a proxied session may fall back to a direct
connection), `ExpiredIsAboutTheRow` (a renewal from an old snapshot may mark a renewed account
as expired), `ToggleKeepsUrl` (the page's switch of a proxy empties its URL) and
`StoredKeysSurvive` (a session the older release writes beside the table of this one, under an
id that another account or proxy has there, is left out of the copy and dropped).

**Bounds.** Two requests suffice for the pool's conflicts: each is between one request
and one other that holds or replaces what it read; two calls per request let one meet
its own leftovers. One slot per semaphore makes every wait happen; the theorems hold
for any number of requests, slots, proxies and accounts. `MaxCalls`
caps calls per request. One account is enough in `Renewal` because workers of different accounts
share only the scheduler's lists; two tokens let a rotated one be overtaken, two
passes let a snapshot of the first meet the list of the second. Three
requests in `QrLogin` are a creation, a poll and a confirm, or a poll and two confirms of the
shown session; two ids are needed for keep lists to miss one. In `Accounts` two requests
and three scans let an account be deleted and scanned again, or scanned twice, while a
request works on what it read, with another account beside it. In `Login` one connection
fails at each step and a second one follows; the third host is cut off by `MaxTargets`. In
`ShortLink` two connections are a proxied dial and its fallback, or two targets; the calls are
every way of connecting with one request, and every form of request and answer (each
operation, lengths on both sides of 15, 128 and 255, matches that overlap, odd heads,
each transcript and number) over a direct connection. `MaxRecord` is set to the longest envelope among
them exactly; one call is a byte longer, and one has a uin wider than the 24 bits of the
instance. In `wxapp` two targets tell a
send that stops at the first from one that goes on; `wxapp_retry` has one, as it is not about targets. In `Migration` four starts are the
older release, this one stopped, the older one again and this one to the end, so that both
tables exist with ids that collide.
`AllReturned`,
`AllAnswered`, `AllQuiet`, `AllServed`, `AllAdministered`, `Returned` and their like are the stuttering ends of the bounded
instances, so that any other stop is reported as a deadlock.

**Fairness.** Weak fairness of a goroutine's steps: a goroutine that can run does run;
an exchange ends because each has a deadline (dialling, reading, the HTTP client, 35 s
for a long poll); channels and mutexes of Go pass on to those who wait (`sync.Mutex`
has a starvation mode). Weak fairness is per goroutine, never per outcome: nothing says
that an exchange ever succeeds, that a token is renewed, or that the world acts. The
runs check that waiting for others is not for ever in the bounded instances, where the number
of competitors is finite. `LoginReturns` rests on a peer that does not go on for ever: the read deadline
starts again with every `Read` (`mmtls_client.go:82`), so a peer that sends a byte now and then
could keep a login; the stream of the model is finite. In `ShortLink` the client's steps,
dials, the clock and the goroutines of the tunnels are fair, the server and the SOCKS5 proxy
never: they may keep silent. In `Migration` only the next statement of `Open` is fair
(SQLite answers, or the ten seconds end), never a release that serves.

## 4. Proofs

The constants are constrained by the named assumptions of the modules only, such as
`PoolAssumption`: positive slot counts, a finite set of requests (needed to count holders), and
`None` distinct from everything it stands beside. Others say of what form the external side is:
flights are sequences of handshake messages (`FlightAssumption`), HTTPDNS answers are lists of
targets (`AnswerAssumption`), a SOCKS5 address has the length of its type (`BoundAssumption`),
and a call has a connection for each target (`ConnAssumption`). Each theorem holds for any
number of requests, accounts, proxies, scans, passes, starts, lookups and targets, for every
flight and every timeout.

* **`SlotsCorrect`, `TypeCorrect`.** That the counts equal the holders is not inductive
  without knowing when `acct` is set, and `loginUsed - 1` stays a natural number only
  if there is a holder. The inductive invariant `Counted` joins the frame conditions, types
  and `SlotsMatchHolders`; each action adds or removes one request to a finite set.
* **`LocksCorrect`, `LoginsAreSingle`.** `Guarded` says who owns a mutex is inside the lock,
  who is inside owns its key's mutex, and a loader's key has no live row. A step that
  makes a key live is a `SaveSession` of the request that owns the mutex, so no other
  loader of the key exists.
* **`RowsBelong`, `ProxiesIsolated`.** `Belonging` adds that a request about to store has
  recorded the uin unless its account is gone or its context is done; `Isolated` that the
  session a request holds was made for the proxy it works for.
* **`PoolRefinesCache`.** Every step maps to a step of `SessionCache` or a stutter, under
  `Usable` (the session a lookup would return) and `LoadingBy` (the owner of the key's
  mutex while it logs in). It uses the invariants above.
* **`CallsKeepThePool`** (`WxappProofs`). `WxappCall` runs the pool's own actions, removes rows
  beside it (`DropIsOfThePool`: a step of the pool's environment, or none) and starts the second
  run under a context that may be done, which the pool by itself does not (`RunKeepsPool`).
* **`FailedSessionsStayOut`, `RepeatsAreBounded`, `GoneClientsWriteNothing`**. What a call is about
  to send over has not failed it, if it is of the call's own proxy. That rests on `Removed` (a
  session that failed the call is out of its row, about to be removed, or the call will not look
  there again, because it is over or its client has left), on `Unsaved` (a session not stored
  yet is in no row, held by nobody else and has failed nobody, so storing it brings nothing
  back) and on `AllMade` (a login is counted before the session it makes, so a new session
  differs from all seen before). `Spent` counts exchanges along the stages of a call,
  `MaxTargets` for each send that is over.
* **`TokensAreKept`** (`RenewalProofs`). `Current`: what a worker is going to store is what
  upstream accepts; `StoredOrHeld`: a token that upstream accepts and the row does not have is held
  by a worker that got it. **`DisabledAccountsRest`** needs `ListedEnabled` for the lists of a
  pass.
* **`ExchangesExclude`, `NoImageLeaks`, `ScansAreNotDropped`** (`QrLoginProofs`). `QrInv` says that who
  talks to WeChat holds the mutex of its session, that a new session is in the map for its creator
  alone until the answer, and why a handler drops one.
* **`SettingsLast`, `ProfilesDoNotMix`, `NobodyElsesAccount`** (`AccountsProofs`). `Snapshots`: what a
  handler has read and is about to write by id is of the same openid as the row of that id, if
  there is one, because ids only grow. `SettingsLast` is about the proxy and the disabled flag without
  exception, and about the remark between a choice and the next scan. **`ListsAreAnswered`** counts: what is answered and what
  is left make up what was asked.
* **`NothingIsLost`, `OnlyCollisionsLose`, `RowsStaySound`, `OpenMeansComplete`** (`MigrationProofs`). `Tables` says which
  tables exist before each statement, `Merged` that each old row is in the new table, or has its id or
  key taken there, before the old one is dropped, `History` where a session that was written is: in the
  new table once there is one and in the old one before, unless it was written beside the new one.
* **`EveryRecordIsTaken`, `ClientIsNotAtFault`, `SessionsAreUsable`** (`LoginProofs`). That the next
  record opens cannot be said of the stream in pieces: a record may be half in `rxbuf`, half on
  the wire, with others in `recq`. `ServerSent` is what the server has sent as a function of its
  state, a sequence that only grows at its end, and `Flow` says that records taken, queue, buffer
  and wire are that sequence cut in four, so every chunking is one case. `Agreed` says that both
  sides hash the same transcript, `ClientAt` and `ServerAt` what each holds at its place in the
  handshake, `UpAt` what the client has sent that is not read yet. `MmtlsInv` is their
  conjunction; the session's ticket and hash follow from `SessionAt`, which `LoginInv` adds.
* **`NoConnectionIsLeftOpen`**, **`NoStaleAnswer`** (`LoginProofs`). `Connections` says which connection
  each step of the loop over the targets has open and which are deferred. `DnsInv` says that
  the age of a cached answer counts from the start of the lookup that asked for it, however
  lookups overtake each other, so the cache entry never outlives `CacheTTL` from there.
* **`SendsOnlyTheAllowedWay`, `SlotIsGivenBack`** (`ShortLinkProofs`). `WayInv`: how the connection in
  use was dialled and for which target (`Ways`), connections not dialled yet are untouched
  (`Later`), those behind are closed (`Earlier`), and each wait ends with its deadline, which
  never exceeds the context's (`InTime`).
* **`NoHalfAnswer`, `OthersAreToBlame`** (`ShortLinkProofs`). `Using` follows the units of the
  connection in use: over a direct one and through SOCKS5, what was sent is what was read and
  what is on its way, the dialog ending exactly where the answer begins; through CONNECT the same for
  each half of the tunnel, whose two goroutines may each close what the other still copies.
  `Answered` says that a result is read from the whole answer of the server of that connection. The
  two theorems have one hypothesis each on the bytes of the calls, `CodecReadsRightly` (the
  client finds in an answer what it says) and `CodecIsRead` (the server can read the envelope of
  a call that fits, the client the answer). That the request of such a call has all its records under
  the numbers the server counts is proved (`RequestIsWhole`, `FittingIsAccepted`), and
  `OthersAreToBlame` speaks of these calls only: a longer one fails by the client's own doing. They speak of recursive functions over bytes and cannot be proved for
  every call here. TLC does find them true of the calls of `shortlink`: every one of them gets over a
  direct connection to the server and back, so a call for which one of them were false would violate
  `CodeIsTheAnswers` or `FailsByOthersOnly` in that run, as the mutants of `Codec` and `Envelope` do.

Only model-checked: all liveness (`EveryCallReturns`, `EveryInvocationAnswered`, `PassEnds`,
`RequestsAnswered`, `LoginReturns`, `TunnelsEnd`, `StartsOpen`), which is out of the prover's
reach, and what the recursive functions of `Codec` and `Envelope` compute, which would need
induction over data. Every other property of a passing run is stated by a theorem.

## 5. Not modelled

Features after their insertion, avatars, the audit log, JSON shapes and the listings carry no
property here. A failed write of an image file is dropped by the code and left out. mmtls
records of a login are symbolic, and so are all keys. The message of a login (the hybrid key exchange of
`ilink.go`, the fields of the login buffer) is taken or not, and the JSON form in which
the answers of the phone and operate calls are returned (`protobufToMap`) is left out. The bytes of a transfer packet
shorter than its own head are not among the answers of the server. `yyb-proxy` also forwards plain
HTTP requests, which this program never sends. Resolving an account by uin or id
(`ResolveAccount`) is resolving by openid in the models. `refreshAll` is not modelled because
nothing calls it (`POST /accounts/refresh` without `ref` answers 400, although
docs/docs/API_SUMMARY.md says that it refreshes all accounts). Routing, pages, OpenAPI and flags
have no state of their own.

## 6. Plan

Done: all modules of section 2. Open:

1. `Login` as an implementation of the login step of `SessionPool`, and `ShortLink` of its
   exchange: a usable session, or an error, at the end of the loop over the targets.
2. The message of a login in `Codec`, with `sessionExpiresAt`.
3. Theorems about single steps of the codec that need no induction (a head, a field, a record),
   to narrow `CodecIsRead` and `CodecReadsRightly` to their loops.
