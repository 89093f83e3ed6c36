# Verification of the session sharing service

TLA+ models of the program in `src/` that shares a few ChatGPT accounts between teams: TLC
model-checks them on small instances, and TLAPS proves the invariants that matter most for every
value of the constants.

## 1. The system

```
Codex client --WebSocket/HTTP--> Relay --WebSocket tunnel--> Host agent --> account workers --> provider
     web panel --HTTP-----------> Relay --SQL--> PostgreSQL <--SQL-- Host agent (reports, startup turns)
                                        access-cli --file--> registry of tokens <--file-- Host agent
```

| Component | State | Operations | Interacts with |
|---|---|---|---|
| Access registry, `access-store.ts` | one JSON file of device tokens: account, reservation, expiry, disabled and revoked, quota ledger | issue, updatePolicy, disable, enable, revoke, reactivate, revokeAll, revokeForAccount, recordUsage, updateAccountLimit, touch | host agent, `access-cli`; read by the access sync |
| Registry file, `access-store.ts`, and its like in `account-store.ts` | the file, a lock file, a promise chain per process | queue, acquire, take over when older than 30 s, read, replace by renaming, release | two processes on one disk |
| Startup turns, `session-start.ts` and `20260907130000_session_start_jobs.sql` | one job row per reservation; a `running` flag per host; the provider's threads | claim, submit, send, acknowledge, poll, report | host agent, database, account workers |
| Host agent, `host-agent.ts` | workers, local streams, provider requests under way, the tunnel socket | control commands, access sync every second, account refresh, provider requests, local streams, reconnect | everything on the host |
| Relay, `relay.ts`, `protocol.ts` | the tunnel, the synced devices, clients' streams, pending control and provider requests | upgrade, tunnel messages, syncs, fail closed, admin and user API, provider proxy | clients, host agent, database |
| Provider proxy, `oauth-responses-broker.ts` | requests under way with their AbortControllers, usage parsers | execute, retry after a token refresh, abort | relay, host agent, provider |
| Reservations, SQL migrations and the user API of `relay.ts` | reservations, busy slots, quota audits | request, approve, reject, cancel, session, end, expire | relay, host agent, startup turns |
| Account registry, `account-store.ts` | accounts file with one default account | add, remove, set-default | host agent |
| Account workers, `account-worker.ts` | per account an app-server process, a control connection with pending requests | start, stop, request, openStream, exit and close events | host agent |
| Sessions of the panel, `postgres.ts`, `auth.ts`, `client.ts` | rows with hashed access and refresh tokens; one session in the browser's storage | login, refresh, logout, authenticate | relay, the tabs of a browser |
| Rate limiter, quota windows, reports | attempts per key; none; none | check, record, prune; pure functions | relay, host agent |

What is hard in it: two processes write the registry; the relay decides on a copy of the registry
that arrives later over a queue; claims, submissions and reports of a startup turn are separate calls
that fail independently of their effects; every handler of the host and the relay awaits in the middle,
and other handlers run there; a client's stream and a provider request have an end on each side of a
tunnel that breaks; tabs share one storage and each of them refreshes the session in it.

What makes each component correct:

- **Access registry.** An account has one customer at a time; consumed quota is charged once, to all
  tokens of the session, and never handed back by a reissue or a reset; the block flag is exact.
- **Registry file.** Its users see one atomic registry: no reported operation is lost, no two overlap.
- **Startup turns.** One turn per reservation; what may have been sent is never sent again and stays
  visible; reports are true; the attempts are limited, also for claims that overlap.
- **Relay and access sync.** Nobody is admitted without a fresh tunnel; a revoked or expired token is
  off the relay with the next sync, and what an older snapshot brings back does not stay.
- **Streams.** Frames arrive in order and whole; the two ends of a stream end together.
- **Provider proxy.** Each request ends once, whole only if the host reported it whole; an aborted one
  is not charged; a withdrawn token does not reach the provider.
- **Reservations.** No two that hold a place overlap on an account; the grants of a week fit together into
  what the account has left of it; tokens belong to granted reservations, and a session whose calls did
  not fail can be ended.
- **Accounts and workers.** The default account exists; a removal leaves no tokens; every process
  has its owner; a request goes out only on an initialized connection and ends.
- **Sessions of the panel.** A line of sessions has one that is usable; a sign-out that revokes its session
  ends the line.

`PROJECT.json` lists the hazards of this code at their lines, with the properties that cover them.

## 2. Modules

| Module | What it is |
|---|---|
| `AccessStore` | the registry: one action per operation of `AccessStore`, each a whole read-modify-write |
| `RegistryFile` | below it: queues, lock file, read and rename, crashes of two processes |
| `RegistryPromise` | an atomic registry, which `RegistryFile` implements |
| `SessionStart` | the startup queue: SQL claim and update, `SessionStarter` on every host, the provider |
| `AccessSync` | the host's access sync, the tunnel, and the relay's gate for `/codex` |
| `Streams` | a client's connection through relay and tunnel to an app-server, both ways |
| `ProviderRequest` | a client's POST through relay, tunnel, host and broker to the provider, and the answer |
| `ProviderPromise` | what a client is promised of an answer, which `ProviderRequest` implements |
| `Reservation` | bookings and approvals as transactions, single updates, session tokens and their links |
| `AccountControl` | account registry, map of workers, app-server processes and the control commands |
| `AccountWorker` | the control connection of one worker: sockets, shared opening, requests |
| `PanelAuth` | session rows in the database and the tabs of a browser with one storage |
| `MC…` | instances: sizes, readings, symmetry |
| `SessionStartProofs`, `AccessSyncProofs`, `StreamsProofs`, `ProviderRequestProofs`, `ReservationProofs`, `PanelAuthProofs` | the inductive invariant and the theorems of the module they are named after |
| `RegistryProofs` | those of `AccessStore` and of `RegistryFile` |
| `AccountProofs` | those of `AccountControl` and of `AccountWorker` |

The last two extend two specifications each, so `RegistryFile` and `AccountWorker` prefix the usual names
(`FileInit`, `FileSpec`, `WorkerInit`, `WorkerSpec`).

How they compose: `AccessStore` takes each operation as atomic, and `RegistryFile` is the reason it
may (`AccountControl` relies on the same of the accounts file); `AccessSync` takes from the registry
only which tokens are active, flagged or expired, each free to change at any time; `Streams`,
`ProviderRequest` and `Reservation` take from the gate only that a token is listed or not, and from
the tunnel that it is in order and may break. Each has the whole of relay, tunnel and host that its
question involves, so no property depends on a component being quiet.

In all modules what the code does between two awaits is one action, and never part of one. Where no other
action reads or changes what several awaits in a row have to do with (the preparation of a startup turn, its
polling, a body that is read), they are one action too; each of its outcomes is one of the action's.

### AccessStore

`registry` is the `devices` array. A record keeps what the code decides on: account, reservation,
revoked, disabled, expiry, weekly limit, and the ledger (`base`, `budget`, `consumed`, `last`, the last
reading `used`, `duration`, `resetsAt`, and `limited` for `usageLimitReachedAt # null`). Left out:
labels, hashes, keys, user ids, allowed models, `lastSeenAt`, the observed-token counters; nothing in
the store depends on them. Percentages are integers (the code rounds to four decimals).
`accountResetsAt` and `windowResetsAt` are one field: the second is the first in another format, kept
when a reading has none. `UpdatePolicy` takes `Keep` for an absent option. `IssueManual` and
`IssueSession` are the two callers of `issue` (`access.issue` and `session.issue` of the host).
`Reactivate` lifts a revocation, which README.md:9 calls permanent; the model follows the code.

Three history variables serve the properties: `revived` (entries whose expiry was moved after it had
passed), `paused` (entries ever disabled or revoked), `floor` (highest ledger stored by `recordUsage`
for a reservation on an account).

### RegistryFile and RegistryPromise

`pc` is where each operation stands, from its place in the promise chain of its process (`chain`)
through the lock (`open`, `stat`, `remove`) to the work (`read`, `write`, `replace`, `release`). The
registry is abstracted to the set of operations it reflects, `file`; what an operation has read is its
`snapshot`. A lock file has an owner and an `age`; a waiter looks at the age and removes the file in two
steps, as `stat` and `rm` are. A holder removes whatever lock file there is. Creating, reading, writing
and looking may fail (`CreateFails`, `FileFails`, `WaitFails`); a rename that the platform refuses
removes the registry first and renames then (`RenameRefused`). A crash ends the operations of one
process and leaves lock and file as they are. Histories: `usurped` (a working holder lost its lock
file) and `refused` (such a rename happened).

The refinement maps the file to the abstract registry and the operations done and changed to
the acknowledged ones; `usurped \/ refused` ends the promise, and nothing else does: in particular no
crash and no error.

### SessionStart

`job` is the table, `statements` the claim statements between their snapshot and their write, `task`
where `start()` of each host stands; a step ends at an await. A claim is one READ COMMITTED statement:
`ClaimSnapshot` chooses the candidates, `ClaimWrite` writes them. The `FOR UPDATE OF r SKIP LOCKED` of
the claim locks reservations and skips those in the hands of another statement; it neither locks nor
rechecks the job, and the upsert has no condition on it, so `ClaimWrite` takes the job as it finds it.
A claim token is the number of the attempt. Every call to the database may throw with or without its
effect (`Update`, `ClaimWrite` without delivery); `turn/start` may be lost, rejected or acknowledged;
`Crash` drops a host's tasks while its statements go on; in a host whose claim is running it stands for a
lost connection too. Preparation and polling are one step each. The history variable
`overtaken` names the reservations whose job a claim took back although it was no longer claimable.

### AccessSync

The three parts and their state: the registry (`active`, `flagged`, `expired`: what `AccessStore`
promises, each token free to change at any time) and the account's `worker`; the host (`link`, `calls`,
`lastSynced`); the relay (`tunnel`, `registered`, `accessSynced`, `account`, `devices`, `streams`).
`wire` is the tunnel from host to relay, in order; a lost connection leaves a prefix of it to be read.
`syncAccess` is three steps because it awaits: `SyncStart` (the check that the tunnel is open),
`SyncRead` (`accessStore.active()`), and `SyncSend`, which sends revocations and list without an await
in between; the audits and the SSH file separate the last two, and `SyncFail` is any of those awaits
throwing. Nothing keeps one call from starting while another is under way, so `Calls` is a set. A call
keeps going when the tunnel is lost and then sends on the new one. `lastSynced` is shared by all calls
and emptied by open and close events. `account` is the relay's entry for the one account: `none` until
an `accounts.sync`; `spent` is a ready account whose reading exceeds the tokens' limits. `status().ready`
only asks for a ready account, while admission also asks that the token is not limited.

Times are ages in `age`, counted up to the first value over the limit; `SyncTimeout` is twice
`HeartbeatTimeout`, as in `isFresh`. `Tick` may fire at any time, so every timer may be late. No variable
is a history: what names a token on its way, `Outstanding`, is counted in `calls` and `wire`. Left out:
several accounts; streams are members of a set, whose frames are in `Streams`.

### Streams

Both ends of a stream: the relay's `client` (`leaving` is a connection that is gone while its close event
has not been seen; streams are in the table until it has), and the host's `localStreams` with the
`socket` to the app-server and the `pending` frames. Frames carry a number, so gaps and changes of order
show, and a kind: `plain`, `list` for `model/list` and its answer, `ask` for a request of the app-server
that has the id of one. A client uses one id for each of its `model/list`s, whenever it likes: `listIds`
has the streams with a pending one, also of requests the policy itself answered (`ClientFrameDenied`),
and `asked` what the app-server has not answered. `toHost` and `toRelay` are the tunnel in each
direction; a tunnel the host has lost swallows what the relay sends. `Admit` and `Bar` stand for the
syncs of `AccessSync`, of one token. `DropTunnel` is the relay giving up on a tunnel that the host still
reads from. Histories: `overflowed`, `used` (when the id was last used up), `leaked` (lists shown
unfiltered).

### ProviderRequest and ProviderPromise

One POST at the relay: `Arrive` is the admission by token, `Forward` the end of the body, after which the
request is in `pending` and on the tunnel; `Timeout`, `ClientClosed` and `FailClosed` are the ways the
relay ends it alone. A new tunnel fails closed only where an old one is known (`TakeOver`); a request
forwarded while there was none stays pending into the new one (`Accept`). On the host `task` is where the
handler stands: validation against the registry, the account's credentials, the fetch with one retry
after a 401 and a refresh, the parts of the answer, the metering in `onEnd`, the audit, the report.
`controllers` are the broker's AbortControllers; an abort for a request that has none is lost. `upstream`
is what the provider has produced. A tunnel that is lost or dropped, a host that restarts and a
revocation may come at any step.

`ProviderPromise` has only the provider's `upstream` and the written `response`: parts in order, none
before it was produced, and an end that is `whole` only after everything. `how` is how the host's
message ended it, which the client sees as an end of the body; after `failClosed` the body just ends too
(relay.ts:2456), so a streaming client has to look for the final event of the stream.

### Reservation

A slot is `SlotTicks` ticks. `tx` are the transactions of request and approval: they take the account's
advisory lock (`Locked`), look for overlaps and capacity (`Begin`), pass the triggers (`CheckCapacity`),
and meet the exclusion constraint when they commit. A reading of a `week` has its usage and the tick of
its reset: grants that start after the reset are not counted, and after it no week is known until the
next reading. Rejection, expiry, cancellation and link are single statements, which wait for a row lock
(`RowLocked`) but not for the advisory lock. `Put` is every write with the trigger that keeps the busy
slots. Expiry happens when the administrator's list is read, as in the code, and only then. A call of a
user is a `call`: the relay reads the row, sends `session.issue` to the host (`inbox`), gives up after 20
seconds while the host may still issue (`ControlTimeout`), links the first token or undoes it; a link
that reports an error is undone (`LinkFails`), one that throws ends the call and leaves the token
(`LinkThrows`), and either may have taken effect. `tokens` are the live ones on the host, which a `Tick`
expires; the host refuses an account that has another holder. `End` revokes the token that is linked, and
only that: a second token of a session lives until it expires. Histories: `seen` (reading with which an
account was last found to have room), `late` (cancelled after their start, because the cancellation had
read the row before), `failed` (a call timed out, threw, or could not undo).

### AccountControl

Commands of the relay run beside each other as `Tasks`; each action is the part of one between two
awaits. A worker object is a number: in the map `workers`, and with a process it has a handle of
(`handled`), one it lost the handle of (`stray`), or one it has killed and not yet seen exit (`exiting`).
Starting a worker spawns a process and probes it; removing an account stops its worker, forgets it,
revokes its tokens and removes it from the registry, and other commands run between these. Histories:
`stopped`, `twice` (started while started or stopped), `dropped` (forgotten by a removal that another
removal's worker came between), `overlapped` (given a token beside its removal or after it). `Grant` is the
admin who gives an account a token by `access.issue`, `access.update-policy` or `access.reactivate`: the access
registry behind them does not know which accounts there are. `ensurePrimary` and
`removePlaceholder` run before the first command, which `Init` assumes; `setEnabled` has no caller.

### AccountWorker

Sockets are numbered; every one that is alive keeps its event handlers, and they act on the one state of
the worker. One that the app-server closes is `leaving` until its close event: its requests still wait,
and the next one opens another socket beside it. `ensureControl` hands out the initialized connection,
the opening under way, or a new one. `crossed` says that a socket opened while an older one had not
closed, which happens after an `initialize` that timed out or was refused, a close that has not been
seen, and a stop.

### PanelAuth

A session is its number; `line` is the login it descends from. A refresh in the database revokes and
inserts in one transaction (`Rotate`); logout is by access token. A tab waits at `call`, `login`,
`rotate` or `logout` and hears of the result later, while other tabs change the storage. Answers get
lost after they took effect (`RotateLost`, `LogoutLost`, and logins in `LoginFails`), and a 401 may come of a
database that failed (`Unauthorized`). `signedOut` names the sessions that a sign-out found unrevoked.

## 3. Runs

| Run | Instance | Shows |
|---|---|---|
| `Access` | 1 account, 2 reservations, 2 tokens, 2 readings, budget 2 of 3, clock 0..1, expiries 1 and 2 | `ExclusiveUnlessRevived`, `BudgetFlagExact`, `SessionLedgerFloor`, `SessionAgrees`, `LedgerNeverShrinks` |
| `RegistryFile` | 2 operations of the host, 1 of the command line tool, 1 crash | `OneHolder`, `CallsEnd`, `KeepsPromise` |
| `Startup` | 2 hosts, 1 reservation, limit of 3 claims, clock 0..3, 1 restart | `AtMostOneTurnUnlessOvertaken`, `SentStaysVisible`, `ReportsHold`, `ClaimsBounded` |
| `Sync` | 1 token that may expire and run out of quota, 2 calls, timeout 0, 3 states of the worker | `StaleListsRunOut`, `FailsClosed` |
| `SyncLive` | the same with 2 states of the worker | `BarredLeaves`, `EntitledReturns` |
| `Streams` | 1 stream, 3 frames each way, 2 pending frames, 2 lost tunnels | `FramesInOrder`, `ListsFiltered`, `EndsTogether` |
| `Provider` | 1 request, answers of 2 parts, 2 lost tunnels | `PendingWhileOpen`, `ChargedOnce`, `StaleNeverFetched`, `RequestsEnd`, `TasksEnd`, `KeepsPromise` |
| `ProviderRevoked` | the same | violation of `RevokedGetsNothing` |
| `Booking` | 2 reservations of 1 account, 2 transactions, 2 calls, slots of 2 ticks, clock 0..2, resets 2 and 3 | `NoOverlap`, `CommitmentsFit`, `TokenNeedsGrant`, `OneCustomer`, `SessionsCanEnd`, `LinkedOnce` |
| `AccountControl` | primary and one more account, 2 commands at a time, 3 workers, 1 fault | `DefaultRegistered`, `TokensHaveAccounts`, `ServersOwned` |
| `AccountWorker` | 2 requests at a time, 3 sockets, 1 stop | `SentInitialized`, `PendingOnOpen`, `RequestsEnd` |
| `PanelAuth` | 3 tabs, 3 sessions | `OneOfALine`, `SignOutEnds`, `StoredIsNewest` |

### Bounds

`Max…` constants bound the models only; the proofs hold for each of their values, and for any sets.

*Registry.* Two tokens are enough: each property relates two entries, and the operations touch an entry
and its peers uniformly. Expiries 1 and 2 on a clock of 0..1 let one token expire while the other lives,
and be revived afterwards. 100 is scaled down to 3 and so is the cap of 10 000, so that cap and full
window are reached.

*Registry file.* Two operations of one process and one of another is the smallest instance with both
exclusions, the queue and the lock. A takeover needs a holder that is slow or dead and two
waiters; three operations are that. `StaleAfter = 1` makes every age but 0 stale, and `Tick` may
come anywhere.

*Startup.* Two hosts and three claims allow a claim to be overtaken and retaken; `RetryAfter = 0` makes
one tick the age of a stale claim. The window is the clock but for its last instant: in three instants
claims reach the limit, and those that overlap exceed it by as many as `ClaimsBounded` says. Reservations meet
only in the limit of 16 to a claim; one is checked.

*Sync.* One token is enough because every action treats tokens one by one, except that a list
replaces all of them at once. Two calls are what an overlap needs. `MaxWire` bounds the messages in the
tunnel at the moment of a send (a send adds a revocation and a list, so more are under way). With a
timeout of 0 every `Tick` makes a silent tunnel overdue, which is the schedule that breaks most. `Metered`
and `Expiring` name the tokens whose quota or expiry may change: in both runs the token's, so that all four
cases of `BarredLeaves` occur. `WorkerStates` leaves out, of `SyncLive`, a worker whose reading exceeds the
limits, which the relay treats as a token out of quota.

*Streams.* Streams meet only in the limit per token and in the shared queues, which stay in order for
each of them; so one is checked, and the limit does not bite there. Two pending frames with three
to send make the buffer overflow, and two lost tunnels a second stream of life on both ends: one loss
seen by the relay first and one by the host first. Ids belong to their stream, and of one stream the client
uses one id, for as many requests as it likes: requests with other ids do not meet in the table.

*Provider.* A request touches no state of another but the token's and the tunnel's, which are free to
change. Two parts give a first, a last and an answer cut between them.

*Booking.* Two slots of two ticks on one account: adjacent, overlapping and immediate reservations that
start inside a slot. A budget of 2 of 3 percent makes two grants exceed the week. Resets 2 and 3 are one
that the clock reaches and one behind which no grant begins. `MaxTokens` bounds the tokens issued for two
reservations together, so that one may have two of them, or each one.

*AccountControl, AccountWorker.* Two commands or requests are a pair that overlaps; three sockets are
the one in use, one that opened beside it and the next. With two commands no removal can be dropped
between two others, so the exception `dropped` of `ServersOwned` does not occur in the run; the
theorem covers any number.

*PanelAuth.* Three sessions: a login and two refreshes, or two logins and a refresh; three tabs
because the third can act between the request and the answer of a race of two.

Deadlock is checked except where the instance stops by a bound: the clock (`Access`, `Startup`,
`Booking`), operations called once (`RegistryFile`), workers and sockets (`AccountControl`,
`AccountWorker`).

### Fairness

- `SyncLive`: weak fairness of the timers that start calls and prune, of the relay's message handler and
  of its close event. Strong fairness of `SyncRead`, `SyncSend` and `AccountsSync`: a call may fail any
  number of times and lose its turn to a lost connection, but reading the registry and writing the SSH
  file do not fail for ever, in one call or another (which one is not assumed); sends wait in the model
  only for its bound on the tunnel. Nothing is assumed of the tunnel, the worker or the clients;
  `EntitledReturns` asks for a tunnel that stays up.
- `RegistryFile`: an operation that can go on does, and time passes. A crash is never forced.
- `Provider`: the relay's timer fires and each step of the host ends (the provider's fetch has a
  timeout and so has the refresh). Nothing is assumed of the client, and not of its close event either:
  the relay begins to listen for it only when the body has been read (relay.ts:1935), so a
  close before that may never be heard, and the timer has to end the request.
- `Streams`: both sides handle what has arrived; a handshake with the app-server ends by its timeout of
  ten seconds; sockets that are closing close; the relay sees the close of a client that is gone (it
  terminates one that misses its pings for 45 s) and of a tunnel, and the host that of a tunnel.
  Nothing is assumed of clients, app-servers, the frames they send or the ids they use.
- `AccountWorker`: a request that has its connection is sent, its timer and that of `initialize` fire,
  and a connection attempt succeeds or fails. Nothing is assumed of the app-server's answers.

## 4. What the checks found

One run is a disagreement with the documentation, `ProviderRevoked`: the HANDOFF document, line 418, says that
revocation and the end of the time abort an active request. `access.revoke` and an access sync close
the streams of the token but leave its `pendingProviderRequests`, so the rest of an answer under way is
written to the client. A request that was still being read is refused by the host, which looks
at the registry again (`StaleNeverFetched`).

The other properties hold, with exceptions that are part of their statement. Each exception is a case
the code allows, and TLC reaches it (but `dropped`, see above); a property that omitted it would be violated:

- `revived` (`ExclusiveUnlessRevived`): `updatePolicy` moves the expiry of an expired token without the
  conflict check of `issue` and `reactivate`; an account then has two live holders.
- `paused` (`SessionAgrees`): tokens of a session drift apart while one is disabled, because
  `updateAccountLimit` meters each active token by itself.
- `overtaken` (`AtMostOneTurnUnlessOvertaken`): a claim overlapping the submission of the previous
  claimant takes the job back. It needs a host that is slow for two minutes and a claim whose snapshot
  is older than the commit of the submission; then the turn is sent twice.
- `ClaimsBounded` is not the limit of attempts: claims whose snapshots are older than the last write all count.
- `StaleListsRunOut` is no more than that: of two overlapping `syncAccess` calls the one that read first may
  send last, and the relay lists a revoked token again, once for each such list, until the next sync.
  `BarredLeaves` shows that the token leaves for good.
- `usurped`, `refused` (`KeepsPromise` of the file): a holder slower than 30 seconds loses its lock; two
  waiters that judge one lock stale remove two; a refused rename has removed the registry already.
- `late` (`TokenNeedsGrant`): a cancellation updates the row it read before the reservation began.
  `OneCustomer` holds even then, because the host asks its own registry.
- `failed`, `late` (`SessionsCanEnd`): after a call that timed out, threw or could not undo, a token may live
  that no reservation names; of a session with a second token only the linked one can be ended. Such tokens
  end with their expiry.
- `CommitmentsFit` speaks of the week a grant was decided in: grants that start after its reset are not
  counted against those before it, so the grants of an account may exceed what it has left at the moment.
- `SignOutEnds` speaks of a sign-out that revokes: one with a token that a refresh has replaced revokes
  nothing, and the next session of its line stays valid. `lost` (`StoredIsNewest`): an answer that is lost
  takes its session along.
- `overlapped` (`TokensHaveAccounts`): a session issued beside the removal of its account stays, and an admin
  may give an account a token beside its removal or after it.
- `twice`, `dropped` (`ServersOwned`): a second start of a worker spawns a second process and drops the
  handle of the first.
- `crossed` (`SentInitialized`): an answer to an old connection's `initialize` marks a new one initialized.
- `overflowed` (`EndsTogether`): a stream whose pending frames overflow is closed on the host and the
  relay is not told; its client waits.
- `used` (`ListsFiltered`): the id of a pending `model/list` is used up by whatever comes with it first, a
  request of the app-server or the answer to another `model/list` of a client that uses the id twice, and the
  list that follows is not filtered.

Two facts that no property states: `applyAccountsSync` refreshes the one `lastSyncAt`, so account syncs
keep the gate open on an access list that fails to be synced (relay.ts:2200); and a pending
reservation whose time has passed occupies its slot until an administrator opens the list.

## 5. Proofs

44 theorems in eight modules; every safety property of a passing run is one of them. All follow one
pattern: an inductive invariant, a lemma for the initial state, one lemma per action or group of
actions, and `PTL` at the end. The assumptions are those the modules state of their constants, and
nothing else but where it is named below. What each invariant adds to the properties:

`RegistryProofs`, the devices: the shape of session entries (a token with a reservation has an account, a
base and a budget), and that a positive `floor` has an entry behind it. The shape is needed because a
session's flag is exact only when it is budgeted; the entry because a reissue copies the ledger from an
existing entry. `LedgerMonotonic` follows from a lemma per operation on `consumed`. Assumption: budgets
lie in 1..100 as `session.issue` clamps them. `LedgersAgree` is over a second invariant, `Agree`: the
tokens of a session have one `base` at all times (`OneBase`), and while all are active and none was ever
stopped or revived they have one whole ledger (`OneLedger`). That they consumed the same is not inductive:
the next reading adds the difference to `last`, or nothing when `duration` and `resetsAt` say that the
week is another one, so tokens that differ in any of these would part at the next reading. And a
token that is disabled or revoked is recorded in `paused` (`StoppedArePaused`), since readings pass it by.

`RegistryProofs`, the file: every operation under way is in the queue of its process, at its head once
begun (`Turns`); whoever works owns the lock file (`HolderHasLock`); what it knows of the registry is
true while it does (`KnowsFile`). With them every step of the file is a step of `RegistryPromise` or none,
which `FileKeepsPromise` states: the refinement is proved, not only checked.

`SessionStartProofs`: what a statement saw was claimable (`SnapshotsClaimable`); tokens of running tasks
are at most the job's and held by one host (`TokensIssued`, `TokensUnique`); a host about to send holds
the job, marked submitting, and nothing has been sent (`SenderHoldsJob`); what later steps rely on was
really seen (`TasksHold`). A claim gives a job a token above every token in use, so a submitter that lost
its claim is refused by the token check. `ClaimsAreBounded` counts the claims being made: one of a host at
most (`OneClaimAHost`), and orphans as many as restarts (`ClaimsInv`); it assumes finitely many hosts.

`AccessSyncProofs` has two. `GateInv` adds `RegisterSent` and `RegisterFirst` to `FailsClosed`: while the
host's socket is up and the relay has not seen a registration, the tunnel is not empty and begins with
one; calls from before a reconnection do no harm because the open event registers before any of them can
send. `StaleListsEnd` needs types only: each step, of any number of calls, adds no list that names a
token which cannot be read, and a list that arrives is off the tunnel.

`StreamsProofs`: the frames of a stream in a tunnel carry the numbers that follow what the other end has
received and kept, and while the tunnel is whole none is missing (`UpNumbered`, `DownNumbered`). Frames
of all streams share the queue, so the invariant asks for a function that numbers the positions of the
queue for one stream; a message that is sent, handled or lost with a suffix of the queue has a lemma on
what becomes of such a function. The frames to the host only fit if it is asked to open a stream
once and before any of them (`OpenFirst`), if a socket that is open has taken what was kept for it
(`Socket`), and if nothing of a stream is on its way before its client connects (`Untouched`). Filtering rests
on what is known of the requests for lists, whose numbers only grow: of those that have not been answered, the
relay has the id pending unless it was used up after them.

`ProviderRequestProofs`: what a task has done by its step (`TaskShape`), that a withdrawn token stops it
(`StaleStopped`); that nothing is asked of the host before the body has been read, and once after it
(`Forwarded`, `RequestedOnce`); that only a task that was begun answers, its head before its parts
(`HeadFirst`), and that the parts on the way complete those written, all of them before an end
(`Accounted`). The last is why an answer ends as `whole` only when it is: a lost tunnel takes a suffix of
what was sent, so no `end` arrives behind a lost part, and the next tunnel finds nothing pending.
`ProxyKeepsPromise` maps every step to a step of the promise or none, as `FileKeepsPromise` does.

`ReservationProofs`: a transaction owns its reservation, which is new or pending (`TxOwns`); only
approved ones have a device (`DeviceApproved`); a request at the host is that of the call it names, or
the call has failed (`RequestOfCall`); a call that knows of a device is right (`LinkedKnown`); whatever
is issuing or issued was granted (`SessionsGranted`); a live token is linked or about to be seen to
(`TokensSeenTo`). `NeverOverlap` needs `TxOwns`, since an approval moves a reservation that nobody else
may be moving. `LinksOnce` comes out of the same invariant. `EndIsPossible` adds that the devices and the
tokens are numbered within those issued (`Marks`), and follows with `TokensSeenTo`: a token that no call
is at work on has a reservation with a device. `CommitmentsHold` adds `Capacity`: one transaction to an
account, because of the advisory lock (`OneTx`), and what the triggers computed before the commit still
holds at the commit (`TxFits`), since every other step only lowers what an account is committed to before
the reset it was read with. The sum over reservations is `SumFunctionOnSet`, a fold over finite sets;
rows are finitely many (`RowsFinite`), whatever the set of reservations. The library's induction theorems
take an operator as a parameter and cannot be used, so the lemmas on the sum (`SumUnfolds`, `SumTakes`,
`SumGrows`) go by the smallest counterexample, which well-foundedness of the subsets of a finite set
provides.

`PanelAuthProofs`: a line begins with its oldest session (`LinesGoBack`), a session on its way to a tab
is good and nobody has it yet (`Fresh`), and whoever waits with a session waits with one that exists
(`Sent`).

`AccountProofs`, the commands: what a command holds at each step (`TaskShape`), for tokens that an issue was
checked against a registered account or one removed beside it (`IssuesRegistered`) and that a removal past
its revocation finds none (`RemovedRevoked`), for processes that a worker leaves the map stopped or dropped
(`InMapOrLeft`) and a stopped one is dead unless started again (`StoppedDead`).

`AccountProofs`, the worker: the shared opening has not been settled (`OpeningUnsettled`), and while
connections do not cross, the pending `initialize` and the answer acted on are those of the control socket
(`Uncrossed`).

Only model-checked: liveness (`BarredLeaves`, `EntitledReturns`, `RequestsEnd`, `TasksEnd`,
`CallsEnd`, `EndsTogether`), which is out of the prover's reach, and the violation of `RevokedGetsNothing`.
No module declares a RECURSIVE operator.

## 6. Plan

1. An abstract gate (a set of tokens, lagging behind the registry) implemented by `AccessSync`.
2. The rate limiter: that pruning is not observable; the observed-token counters of the registry.
3. The weekly window of a snapshot and the aggregation of reports as functions, checked against
   reference definitions.

## 7. Not modelled

- Reports (`report-aggregator.ts`, `report-exporter.ts`): pure functions over snapshots into tables, PDF
  and CSV, without state of their own.
- Web panel, but for its session client: rendering and polling of the relay's API, which decide nothing
  on the server. The legacy prototype, the deployment, migration and backup scripts are outside the
  running program.
- Rate limiter: a counter per key over one clock; keys do not meet and nothing interleaves.
- Quota windows: the selection of the weekly window of a snapshot; the models take its result as a reading.
- SSH key files and command line parsing: I/O over the state of the registry.
- Of modelled components: profiles, settings and read-only routes of the relay's API, telemetry and
  audits of the host, labels and counters of the registry, parsing and validation of messages.

These make up most of the lines of the repository. The models cover the state machines of the server:
most of `access-store.ts`, `session-start.ts`, the slot and startup migrations, the handlers of tunnel,
streams, provider requests and sessions in `relay.ts`, `host-agent.ts`, `oauth-responses-broker.ts` and
`account-worker.ts`, and the session client of the panel. Reasons per component are in `components`.
