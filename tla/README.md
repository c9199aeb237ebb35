# Sploot in TLA+

Sploot is a private media library: a Go server over SQLite and a media directory
(`apps/server`), a browser extension (`apps/extension`), a web application served
by the server, an MCP adapter (`apps/mcp`), and tools for portable snapshots. This
directory holds TLA+ models of the parts whose correctness depends on
interleavings, crashes, lost acknowledgements and timeouts, the TLC runs that
check them on small instances, and proofs checked by TLAPS that hold for every
value of the constants.

All paths below are relative to the repository; `server/` abbreviates
`apps/server/internal/`.

## Inventory

| Component | State | Operations | What is hard | What makes it correct | Modelled by |
| --- | --- | --- | --- | --- | --- |
| save boundary (`server/ingest`, `server/medialock`) | tables `assets`, `asset_embeddings`, `asset_purges`, `upload_idempotency`; media files and spools; two directory locks | save, replay of a receipt, permanent deletion, resumption at start, opening media | two transactions per save with file I/O between them, leases, lost commit acknowledgements, crashes, deletion against readers | saved assets are whole, receipts final, nothing acknowledged is lost, purges final and finished, bytes within the limit | `Ingest`, `IngestRefinement`, `OwnedLibrary` |
| compute admission (`server/embedding/admission.go`) | one slot, a queue of queries, a waiting executor, a burst counter | acquire, release, withdrawal | a grant racing the end of the granted context; starvation | no lost slot, bounded overtaking | `ComputeAdmission` |
| service lifecycle (`apps/server/cmd/sploot/main.go`) and native engine (`server/inference/engine.go`) | request admission, preparation, executor, engine | serve, prepare the model, search, index, shut down | the order of the joins; cancellation of a request, of the service, of both | the engine is closed after its last use, and the process returns | `Service` |
| indexing queue (`server/embedding/worker.go`) | one row per asset with attempts, token, lease, cooldown, model version | prepare, claim, complete, fail, retry | lapsed leases with late results, trash and deletion under an inference, crashes, changes of model | finite work, honoured leases, final results, nothing stranded | `Indexing` |
| library service and search pages (`server/library`, `server/embedding/search.go`) | assets, tags, share slugs; a cursor in the client's hands | update, trash, restore, share, revoke, tag, list, search | links that outlive their sharing, pages over a changing library, limits and merges of tags | an ended link stays ended, pages neither repeat nor skip, names unique and limits kept | `Library` |
| accounts (`server/auth`) | users, sessions, tokens, pairings, invitations | register, log in, change a password, pair a device, mint, claim an invitation | hashes verified outside the transaction that relies on them; single consumption | a changed password ends other authority; one credential per grant | `Accounts` |
| portable snapshots (`server/recovery`) | snapshot directory with a manifest in two phases, restore target | back up, resume, verify, restore | a source that changes between phases, interruption, deletion, damaged bytes, a target that changes | what is restored is whole, without authority; nothing is overwritten | `Snapshots` |
| web application (`server/web/static`) | pending saves in IndexedDB, one page per tab | queue, claim, send, finish, retry, remove, sign out | several tabs, one cookie, frozen tabs, aborted requests that are served | no file is lost from when it is taken and no link from when it is stored, each lands in the account that took it | `WebUploads`, `WebUploadsRefinement`, `Outbox` |
| extension save queue (`apps/extension`) | stored save jobs, alarm, two promise chains | capture, recover, attempt, retry, discard | suspended workers, operations that time out and end late | each save settles once under the authority it began with | `ExtensionQueue`, `ExtensionQueueRefinement`, `Outbox` |
| extension pairing (`auth-manager.ts`) | stored connection | pair, poll, disconnect, invalidate | answers lost, operations outlived by their requests | a session the extension forgot is dead | `PairedDevice` |
| predecessor import (`server/predecessor`) | a new data directory | validate, import, publish | offline, one process | all or nothing | its result only, a start of `Accounts` |
| HTTP API and pages, MCP client, configuration, tooling, interface studies | none of their own | decode, authorise, render, stream | — | — | not modelled |

Interaction: the HTTP API calls the services in process; services share one
SQLite database whose transactions are all immediate (`server/database`), so
writers are serialised. The save boundary, deletions, media reads and backups
(possibly separate processes) share two `flock`s. Saving leaves an indexing row
behind, which is all the indexing queue learns of it; searches and the indexing
executor share the compute slot. The extension, the web application and the MCP
client retry saves with an idempotency key; the first two name the account they
believe in, and the server refuses when its session is another's.

## Modules

### `Ingest` — the save boundary

| Model | Code |
| --- | --- |
| `assets`, `purges`, `claims`, `intents` | tables `assets`, `asset_purges`, `upload_idempotency`, rows of `asset_embeddings` |
| `files`, `spools` | published media files, `.ingest-*` directories |
| `admission` | exclusive lock on the media directory |
| `shared`, `exclusive` | lock on the library directory |
| `save[s].pc` | where `saveRequest` is: `receipt`/`replay` (inside `claim`), `admission`/`library` (locks), `spool`, `early` (first transaction), `prepare`, `original`/`poster` (publishing files), `final` (last transaction), then the deferred calls `exit`, `unlock`, `release` |
| `save[s].outcome` | `stagedWrite.outcome` |
| `save[s].gone` | history: identifiers with a deletion record when the request arrived |
| `purge[p].pc` | where `Purge`, or `resumePurges` for `Boot`, is |
| `read[r]` | `OpenMedia`, or a backup from its lock to its last copy |
| `Crash`, `StartServer` … `Serve` | the process ends at any point; `New` with `resumePurges` runs before requests |

A transaction is one step. Its commit has three outcomes (`Commits`):
acknowledged, applied without acknowledgement, neither. A deadline, a full disk
or a failing statement is `Refuse` (saves) or `AbandonPurge` (deletions). A
lease or a retained receipt may expire at any time: a request's deadline runs on
the monotonic clock, the lease on the wall clock, so a lease can lapse under a
request that is still running, for instance after the machine was suspended.
`FlockExcludes` says whether the file system enforces advisory locks. With
enforcement the second duplicate check of a save is never needed; without it the
final transaction must be sufficient alone, which is what its comment claims
(`ingest.go:234-235`).

Abstracted: every asset costs one unit of storage; decoding, fetching, tags and
the answers' wording are left out; original and poster stand for all files of an
asset. A server crash ends the server's media readers but not a backup, which is
a process of its own.

### `OwnedLibrary` and `IngestRefinement` — what saving promises

`OwnedLibrary` is the abstract specification: an owner saves, trashes, restores
and purges, each in one step; content already kept is not saved again; only trash
is purged; a purge is final; an asset is readable from save to purge.
`IngestRefinement` maps `Ingest` to it (an asset is purged once it has a deletion
record, and readable while its row and all of its files exist).

### `ComputeAdmission` — the compute slot

Each section under the mutex is an action; a context ends (`Cancel`) between any
two of them. `granted` is a waiter whose channel was closed but which has not run;
`entering` a caller that has the slot and has yet to look at its context again.
`overtaken` is a history variable. `ComputeAdmissionProofs` holds its theorems.

### `Service` — the process around it

`Service` extends `ComputeAdmission`, as the embedding service extends its
admission: every action of it is one of `ComputeAdmission` with what happens to the
caller, or leaves the admission alone.

| Model | Code (`apps/server/cmd/sploot/main.go`, `server/inference/engine.go`, `server/embedding/search.go`) |
| --- | --- |
| `main` | how far `serve` has come: `serving` until the context ends, `sealing`, `shutdown`, then one value per join, `engine` and `returned` |
| `ctx`, `accepting` | the service context; the sealed admission of requests |
| `prep`, `status`, `engine` | the goroutine that prepares the model, what the embedding service says of it, the native sessions |
| `worker` | the goroutine of the indexing executor |
| `at[c]` | where a request handler, or an iteration of the executor, is: in the handler, waiting for or holding the slot, in the native code |

A handler's context ends when its client leaves (`Abandon`) or with the service
(`Propagate`); a native inference cannot be interrupted, so `Compute` ends by itself.

### `Indexing` — the durable indexing queue

`rows` is `asset_embeddings`, `exec[e]` the executor of a server process: `idle`
between two claims, `infer` between the claim's commit and the engine's answer,
`complete` or `fail` before the settling update. Lease and cooldown are Booleans
that time flips. A claim's token is its executor: an executor has one claim at a
time and a row remembers only the last claim, so the identity of the claim within
one executor is never needed. Several executors are server processes whose lives
overlap on one library, which nothing in the code prevents and the token fence is
for. `Prepared` is what a process does on its start with the model version it was
built with, upgrade or rollback. `RestoreSnapshot` continues the library from a
portable snapshot of its present state (a library restored from an older one
continues from an earlier state of the same behaviours). `work` is a history
variable: inferences begun in the current cycle of attempts.

### `ExtensionQueue` — the extension's save queue

The source is `apps/extension/entrypoints/background/context-menu-save-queue.ts`
with the parts of `auth-manager.ts`, `save-flow.ts`, `context-menu.ts` and
`shared/api-client.ts` that it calls.

| Model | Code |
| --- | --- |
| `jobs`, `alarm` | the queue in `chrome.storage.local`, the wake-up alarm |
| `instance`, `user` | the stored connection: its instance, and its session's user |
| `requests`, `x` | the exclusive chain (`exclusively`): what waits on it, and the operation at its head, with the queue it read (`seen`), the account it read (`known`) and the saves its pass has yet to attempt (`left`) |
| `w[First]`, `w[Second]` | the two workers of a recovery pass, each in a `processJob`: `pc` is the account check, the upload, or the mutation it is about to make |
| `late` | an attempt that timed out: from the deadline to `releaseTimedOutProcessing` |
| `chain` | the mutation chain (`mutateJobs`), free or held by a worker or by `late` |
| `sched[p]` | where a process is in `scheduleContextMenuSaveQueueWakeup`: every `writeJobs` ends with it |
| `published` | whether `lastState` of the running worker holds the connection |
| `prompting` | signed-out captures inside `promptUserSignIn` |
| `worker` | the service worker: running, suspended when it has nothing to do, or ended at any point |
| `capture`, `kept`, `ended`, `begun`, `landed` | history variables |

The program has one thread; every `await` of a storage call, an alarm call, a
request or a chain lies between two actions. Storage calls take effect in the
order in which they are issued, so a read is part of the step that issues it and
its result is used in a later one. A mutation is therefore two steps (`Enter`
reads, the mutation writes what it read with one row changed) followed by the two
of scheduling, and an exclusive operation is `Take` (reads) and one step that
decides and writes. `Forget` is what the memory of a worker loses.

Abstracted. A time is a flag that the clock sets: `due` (the backoff is over or,
for a save in progress, it is stale) and `age` (0, past the seven days since its
creation, past those since it ended). A processing token is random in the code;
the model takes a number no copy of the row's generation still mentions. Bytes are counted in saves.
Storage calls do not fail and a save has its bytes, so the branch of `processJob`
for a save without owner or bytes is not reached. Requests queue in the order of
their arrival; waiters of the mutation chain enter in any order, which contains the
code's. The saves of a pass are taken in any order. The write of a recovery and
the scheduling after it share one look at the alarm. Pairing is its outcome
(`SignIn`); its polls are not modelled.

The instance's `Scopes` is a set of records, each of which bounds one kind of
execution (captures, room in the queue, attempts, ends of the worker, changes of
the connection, and whether timeouts, failing account checks and ageing occur); an
execution chooses one at its start.

### `Accounts` — authority and how it ends

| Model | Code (`server/auth`) |
| --- | --- |
| `epoch[u]` | `users.password_hash`: 0 for a claimable account, a new number for each password |
| `minted`, `live` | rows of `auth_sessions` and `upload_tokens` ever inserted, in order, and those not deleted, revoked or expired; each with the epoch and the grant it came from |
| `pair[p]`, `link[u]` | `device_requests`, `account_invitations` |
| `cookie[b]`, `browser[t]` | the cookie of a browser, which its tabs share |
| `req[t]` | a request between what it read (a hash, a session, an invitation) and the transaction that acts on it |

Verifying a password takes long and happens outside any transaction, so a login, a
password change and a claim of an invitation are two steps each; all else may happen
between. An answer reaches its tab after the transaction or never (`Answered`).
Rate limits, names and the account page are left out. A token's or session's expiry
may come at any time.

### `PairedDevice` — the extension that pairs

`PairedDevice` extends `Accounts` with the extension's end of a pairing
(`auth-manager.ts`): `conn` is the stored connection, `x` the one operation at the
head of the exclusive chain, `sent` the requests the server has yet to handle.
A request outlives the operation that sent it: the server may handle it after the
operation's deadline or after the worker ended. `delivered` remembers which sessions
the connection held.

### `Library` — an owner's library and its pages

`asset[a]` is a row of `assets` with its tags, `name[t]` a row of `tags`, `slugs` and
`ended` the share links drawn and ended. Every change is one immediate transaction and
one step. A listing (`list`) is one read transaction per page; what it keeps between
two pages is only what the cursor encodes: the order and filter it is bound to, the
time of its first page, and the place of its last row (`server/library/list.go`,
`server/embedding/search.go`). `Before` is the order of the SQL, `Eligible` the rows
after the cursor, and `steady`, `moved`, `seen`, `twice` are history. Similarities,
names' case folding, statistics and rendering are left out; a relevance is a key.

### `Snapshots` — backup, resume and restore

`snap[s]` is a snapshot directory with its manifest's phase, the frozen database and
its media; `target[t]` a path to restore to; `job[c]` a command with the step it is
at. Several commands run beside the running library (`live`, `bytes`), which saves,
detaches and unlinks meanwhile. A command may be interrupted between any two steps,
and stored bytes may rot at any time (`RotOriginal`, `RotCopy`, `RotDatabase`), so that every
comparison with a receipt is needed. A file is absent, whole or damaged; an asset
has one; SQLite's online backup restarts when its source is written, so that it
holds the database of the instant it finishes.

### `WebUploads` — the pending saves of the web pages

| Model | Code (`server/web/static`) |
| --- | --- |
| `store[i]` | the record in IndexedDB (`upload-store.js`) with its owner, claim generation and whether its lease runs |
| `tab[t]`, `job[t][i]` | the page's account and state, and the job it has for a capture (`app.js`) |
| `cookie` | the account whose session the browser holds |
| `wire` | requests sent, with the server's answer |
| `saved`, `fate` | in which libraries a capture landed; whether its user took it or gave it up |
| `Files` | captures with `job.file` until their record is stored; the others are links |
| `Memory(t)` | jobs without a record: being stored, or refused by the store |

Files and links go through the same `enqueueUpload`, `persistUpload` and `uploadStore.add`.
They differ in two places: `signOut` refuses to leave while a file has no record, and does not
look for links (`app.js:287`), and only a file's bytes are read under the claim.
Every transaction of the store is one step. A lease may lapse at any moment, as in a
suspended tab. An aborted request may have been served, may be served later or never.
The server's part is only that it saves under the session's account or refuses
(`SameAccount`); what saving promises is `Ingest`.

### `Outbox` and its two refinements — what a client that saves promises

The extension and the web pages save through code that shares nothing, and promise the
same: `Outbox` is their abstract specification. A capture is taken, kept, sent by one
attempt at a time, put back, and over: while it is being sent, only by having landed; while it is kept,
also because its user drops it or its place is reclaimed. A capture that is not `Promised` is the outbox's
only from the moment it is kept, and may be declined before. What is over stays over, and a request may arrive
late, twice or without an answer, but always with one account. One step may move several
captures, as one write of the queue or one end of the worker does.

| Refinement | `"sending"` | `"kept"` | `"over"` |
| --- | --- | --- | --- |
| `ExtensionQueueRefinement` | the stored row is `processing` | the stored row is in any other state | the row left the queue by landing, discarding or reclaiming |
| `WebUploadsRefinement` | the record is `uploading` under a claim whose lease runs | the record is stored otherwise, or an open page has a file in memory | nobody holds it, and it was dropped or is in a library |

The extension promises every capture it acknowledged, the web pages every file (`Promised`); a link
in a page's memory is at stage `"none"`, since a sign-out may discard it. A promised capture that was
taken and is nowhere has the stage `"lost"`, which an outbox does not have; nor may a link that was
stored return to `"none"`.

The MC modules add symmetry sets where no liveness is checked. `MCLibrary` also splits the executions: each is
about one kind of listing, about tags or about shares, and changes that have no effect on
that are left out of it; tags get their identifiers in one order, since nothing depends on
which one a tag gets; and an execution about a listing ends with its last page.

## Runs

| Run | Instance | Shows |
| --- | --- | --- |
| `saves` | 2 saves, 1 deletion, 1 owner, 1 content, 1 key, no limit, 1 crash, I/O faults, locks that do not exclude | `SavedWhole`, `AcknowledgedNeverLost`, `ReceiptsResolve`, `PurgedNeverAnswered`, `CompletedPurgeReclaimed`, `ReceiptIsFinal`; `Ingest` implements `OwnedLibrary` (`ImplementsLibrary`) |
| `progress` | 2 saves, 1 deletion, 1 reader or backup, limit 1, 1 crash, fair | `ReadersKeepTheirMedia`, `RetainedWithinLimit`, `LeftoversExplained`; requests that wait for each other's polled locks all end (`RequestsSettle`), and the start finishes interrupted deletions (`InterruptedPurgeResumes`) |
| `service` | 3 clients, 1 executor, queue of 2, burst of 1, fair | `BoundedOvertaking`, `ReturnsAlone`, `EveryWaiterGetsTurn`, `ShutdownCompletes` |
| `indexing` | 2 executors, 2 versions, 1 asset, 3 attempts (the code's), 3 stops, 1 retry, 1 restore, fair | `BoundedWork`, `NoMixedVectors`, `ResultsAreFinal`, `LeaseHonoured`, `EveryAssetSettles` |
| `indexing_snapshot` | 1 executor, 1 asset, 1 restore | **violated**, see below |
| `queue` | seven scopes: two captures and an end of the worker; two captures in competition for one place across a change of account; one capture across two instances and users; retried with an end of the worker; ageing and checked in vain; timing out, twice or with an end of the worker | `CapturesKept`, `NoResurrection`, `LandsWhereCaptured`, `AttemptsBounded`, `AlarmArmed`; `ExtensionQueue` implements `Outbox` (`ImplementsOutbox`) |
| `queue_overwritten` | 2 captures, 2 attempts, timeouts | **violated**, see below |
| `accounts` | 1 account, 2 browsers in 2 tabs, 1 pairing, 2 passwords, 2 invitations, 3 credentials, the extension | `AuthorityIsCurrent`, `GrantsUsedOnce`, `ForgottenIsRevoked` |
| `library` | 3 assets, 2 sort keys, pages of 1; or 2 assets with 4 tags, 4 names, up to 2 names in a request, at most 3 tags of the owner and 2 of an asset; or 2 assets with 2 links | `PagesFaithful`, `EndedSharesStayEnded`, `TagsConsistent` |
| `snapshots` | 3 assets, 2 commands, 1 snapshot directory, 2 targets | `RestoredIsWhole`, `FrozenMediaKept`, `FrozenAndNeverOverwritten` |
| `uploads` | 2 tabs, 2 accounts, 1 capture, a file or a link, 2 claims | `FilesStayUntilSaved`, `LandsInOneAccount`, `LiveClaimIsFenced`; `WebUploads` implements `Outbox` (`ImplementsOutbox`) |
| `uploads_link` | 1 tab, 1 account, 1 link | **violated**, see below |

Bounds. Requests to the save boundary are served at most once, so two savers already
meet every pairing of two request positions: the races of the code are between two
holders of one key, two saves of one content, or a save and a deletion. A retry is
the second saver with the key of the first. Without enforced locks (`saves`) every
overlap of a save with another or a deletion occurs, and the final transaction must be sufficient
alone, which is what its comment claims (`ingest.go:234-235`); with them (`progress`)
the locks themselves are the subject. `MaxAssets` is the number of identifiers ever generated and at
least the number of savers, so it never stops a save. One crash may hit any point of
any request and is followed by a start that may be interleaved with backups. A limit
of one asset makes every second save meet the limit. Indexing properties speak of
one asset at a time. In `service` a queue of two is refused and overtaken with
three clients; a burst of one makes the bound matter at once; the code's limits (four
and four) are covered by the theorems. Two captures are what the two workers of
an extension's pass can hold at once, and what one stale write of the queue needs to lose;
properties of one save's attempts have one capture with the interruptions and
clocks that concern them. The queue's five attempts are two here, since the first
and the last are what is special. Two passwords let a request
begun under one end under another; two browsers let one end the other's authority,
and their tabs are two because a tab has one request at a time. Three assets and
pages of one give a first, a middle and a last row, any of which may move;
four names let a request of two meet the owner's limit of three with none, one or both of its names in
use already, and the limit of two on an asset binds before the owner's does; a tag more
than the limit lets one be deleted and another made. Two commands overlap on one directory, and two targets
tell a restore from what appears elsewhere. One capture is enough for two tabs to
contend for (`MaxTaken`: an execution takes the file or the link), and two claims let a late one meet a newer; captures meet only in the count
of the store, which `PersistUpload` may refuse at any time anyway. Counters of the models are
bounded by `MaxCrashes`, `MaxStops`, `MaxRetries`, `MaxRestores`, `MaxAssets`,
`MaxMinted`, `MaxEpoch`, `MaxInvitations`, `MaxSlugs`, `MaxClock`, `MaxClaims`,
`MaxTaken`, `MaxWaiting` and the scopes of the queue, the requests of `library` by `MaxNames`. The theorems hold for any of them.

Deadlock is checked in the runs of `Ingest`, `Indexing` and `ExtensionQueue`. It is
not where an execution may really stop: the process of `Service` returns, and a
library, its accounts, commands or pages stop when the bounds of the instance are
used up and nobody asks for more.

Fairness. Requests already accepted, the start of the service, readers, callers in
or granted the compute slot, the executor after a cancellation, the preparation of the model, the joins of a
shutdown, executors and clocks are weakly fair: goroutines are scheduled, every
inference, request and poll has a deadline, and a stopped process is started again
by its supervisor. Nobody is obliged to make requests, searches or shutdowns; crashes,
cancellations, timeouts, lapses of leases and receipts are not fair (except that
an indexing lease and a cooldown do run out). Three limits of
the liveness results: locks are polled without a queue, and the run's requests are
finitely many, so starvation of a deletion by an endless overlap of readers is
outside it (the request then ends by its deadline); `progress` assumes that unlinks
eventually succeed; and in `indexing` the owner's retries are bounded, since the untimed
model lets an owner rearm an asset before each claim for ever, which the code's
cooldowns of seconds do not.

### What a run disproves

`indexing_snapshot`: `sanitizeDatabase` (`server/recovery/database.go:124`) turns
every claim in progress into a waiting row and keeps its attempts. If that claim
was the asset's final attempt the restored row is `pending` with
`attempts = maxAttempts`. `claimNext` selects rows with fewer attempts only, and
gives up only rows that are `processing`, so the row is never tried and never
failed, and remains "pending" until its owner asks for a retry. The comment on
`Run` (`server/embedding/worker.go:26-29`) says an interrupted final attempt "must
become failed". Without snapshots every asset settles (`indexing`, whose
`EveryAssetSettles` therefore excepts restored libraries).

`queue_overwritten`: admissions, recoveries, retries and discards are ordered by the
exclusive chain, the attempts within a recovery by the mutation chain. The
release of an attempt that timed out (`releaseTimedOutProcessing`,
`context-menu-save-queue.ts:310`) is only on the mutation chain and may run when the
recovery that began it is over. It reads the queue; a capture is admitted, written
and acknowledged; then the release writes the queue it had read, without that
capture. The comment at line 914 says of an admitted capture that its bytes "are
already durable". The same property holds without two captures and timeouts at once (`queue`): no
other pair of writers has this race.

`uploads_link`: a link is taken, and the store refuses it because the queue is full or the storage
fails; its page says "Keep this page open until it can be stored" (`app.js:1006`). The user signs
out: `signOut` looks for a job with a file and no record (`app.js:287`), which a job for a link
(`app.js:1272`, `1293`) never is, so the logout is sent, and when it is confirmed the page navigates
away (`app.js:295`) with the only copy of the link. The `beforeunload` handler asks under the same
condition (`app.js:1329`) and stays silent. The page's own text says that pending captures "are kept
in this browser until saved or explicitly removed" (`templates/layout.html:80`), and beside the
sign-out button that they "stay in this browser" (`templates/pages.html:43`). The same happens to a
link taken while `signOut` awaits what is being stored (`app.js:286`). For files the promise holds
(`FilesStayUntilSaved`, in `uploads` and as a theorem), and a link that was stored is never
lost (`ImplementsOutbox`).

Not a violated property, but a comment the code does not keep: a timed-out save stays
`processing` with `processingSettling` and "must settle before its token can be
retried" (line 43), while a recovery with trigger `startup` resets every save in
progress (lines 712-722), and a running worker asks for several: at its start, at
`onStartup`, and whenever the connection is published as signed in. The save is then
uploaded again beside its first upload. Its idempotency key makes the server answer
both with one asset, and the token keeps the first from touching the row afterwards,
which `queue` checks as a part of `ImplementsOutbox`: what is over stays over. `ExtensionQueueProofs` proves it
as `NoResurrection` too.

## Proofs

Every theorem is about the specification itself, for any values of the constants that
satisfy the named assumptions of the module.

`ComputeAdmissionProofs`, for any queries and executors and any limits:

* `TypeCorrect`: `Spec => []TypeOK`. The only step that is not immediate is
  `RemoveQuery`, which keeps a sequence of queries (`RemoveQueryType`).
* `SlotSafety`: `Spec => [](MutualExclusion /\ SlotNeverLost /\ WaitersQueued /\ WorkConserving)`.
  The four together are inductive, and none of them alone: passing the slot on
  grants the head of the queue, which is a waiting caller only by `WaitersQueued`;
  the next holder is alone only because the slot was taken exactly by the one who
  releases it. `RemoveQueryMembers` says that removing position `i` of a
  queue without repetitions removes exactly that caller.
* `OvertakingIsBounded`: `Spec => []BoundedOvertaking`, from the invariant that
  `overtaken` equals `burst` while an executor waits and that `burst <= MaxBurst`.

There also, for the running `Service`:

* `ServiceImplementsAdmission`: `ServiceSpec => Spec`. Every step of the service is a
  step of the admission or a stutter, so the theorems above hold in the process.
* `ReturnsAlways` (`ReturnsAlone`). Two invariants: `Placed` says where a caller in
  each state of the admission is, `Joined` what each join of the shutdown leaves
  behind (after the executor's join no executor holds or waits, and so on), which is what
  lets the engine's close come last.

`IndexingProofs`, for any assets, executors, model versions and attempts:

* `WorkIsBounded` (`BoundedWork`) and `VectorsNeverMix` (`NoMixedVectors`) from
  `IndexInv`. That an asset's inferences are at most the limit is not inductive
  alone: they are covered by the attempts in its row (`RowGood`), which no crash,
  recovery or snapshot lowers, and a row is claimed only below the limit. A lone
  executor meets only results of its own model because there is one executor until two
  overlap (`Sole`), its start rearms the others, and only a working executor writes more.
  `StepKeeps` is the frame of all steps but those that start a process.
* `ResultsAreFinalAlways` (`ResultsAreFinal`) and `LeaseHonouredAlways`
  (`LeaseHonoured`), action properties, from one statement of what may become of a
  row in a step (`Outcome`): an executor settles only the row it holds
  (`SettleLeaves`), a claim takes only lapsed and waiting rows (`ClaimLeaves`), and a
  cooldown ends only on a row that waits.

`IngestProofs`, for any sets of requests, owners, keys and contents, any limit, any
number of crashes, with or without I/O faults and enforced locks:

* `TypeCorrect`: `Spec => []TypeOK`. Not inductive alone: `TypeInv` adds that a
  request under way names its owner, content and, where it publishes, its fresh
  identifier (`RequestsKnown`), and that rows name theirs (`RowsKnown`).
* `SavedWholeAlways`: `Spec => []SavedWhole`, and `DeletionReclaims`:
  `Spec => []CompletedPurgeReclaimed`, from one inductive invariant `MediaInv`
  relative to `TypeInv`. A save makes a row whole at its last commit only because
  it published both files before (`Staged`) and nobody has removed them since; its
  cleanup destroys nothing retained only because a save whose outcome is
  "uncommitted" has an identifier that neither a row nor a deletion knows
  (`StagingUnowned`) and that no other save has (`IdsFresh`, `SaversApart`); a
  deletion may unlink only because its asset is detached and never comes back
  (`Detached`, `PurgedGone`), and by its position the first file is gone when the
  second goes. Most steps move no file and change no row: `QuietStep` proves
  `MediaInv` for all of them, so that only six actions are argued one by one. The
  locks are not used: the theorems hold for `FlockExcludes = FALSE`.

* `AcknowledgedIsKept` (`AcknowledgedNeverLost`), `ReceiptsAlwaysResolve`
  (`ReceiptsResolve`) and `PurgedStaysGone` (`PurgedNeverAnswered`) from
  `AnswerInv`: what a request answers belongs to its owner, retained or purged
  (`Belongs`), what it saw purged when it began stays purged, and once it no
  longer looks a receipt up its answer is none of that. The three depend on each
  other: a replay is safe because receipts resolve, and receipts resolve because a
  claim is completed only with an asset of its owner. `BelongsKept` is the frame: no
  step takes an asset from its owner except into the owner's own tombstone.
* `ReceiptStaysFinal` (`ReceiptIsFinal`), an action property, from `TypeInv` and
  the fence: only a request whose claim is still in progress completes it.
* `IngestImplementsLibrary` (`ImplementsLibrary`): `Spec => Library!Spec` under the
  refinement mapping of `IngestRefinement`. An asset is readable in the abstract library
  exactly if it is retained (`ReadableIsRetained`, from `MediaInv`). `TableStep` says what a step
  of the save boundary does to the tables - inserts one row whole, moves one between live
  and trashed, detaches one, completes one deletion, or leaves them alone - and each of these is a step of the
  library or a stutter; a row that is not retained says nothing more (`BlankRows`).
* `StorageIsLimited` (`RetainedWithinLimit`), from `ChargedWithinLimit`: live and trashed rows and
  pending intents together are within the limit. What is on disk of a detached asset is only charged
  for while its intent is pending, because a completed deletion left no file (`MediaInv`), and the
  charge goes from a row to its intent in one transaction.
* `ReadersAreSafe` (`ReadersKeepTheirMedia`), where the file system enforces the locks
  (`FlockExcludes`, an assumption of the theorem as of the code). `LockInv`: a reader past its lock holds the shared lock, a
  deletion between its detachment and its completion the exclusive one, from the process or
  from the start of the service, and the two are never held together; so no row that a
  reader has read goes (`RowsHeld`), and `MediaInv` gives the files.
* `LeftoversAccountedFor` (`LeftoversExplained`), where unlinks succeed (`~IOFaults`; a failed unlink does
  leave a file). `LeftoverInv` adds that a save before its preparation has no
  identifier, and that a committed one is in the library or was purged since.

`AccountsProofs`, for any accounts, tabs, browsers, pairings and caps:

* `AuthorityStaysCurrent` (`AuthorityIsCurrent`) and `GrantsAreUsedOnce`
  (`GrantsUsedOnce`) from `AccountsInv`. That live credentials carry the present
  password is not inductive alone: a session is minted from what a request read
  earlier, and is current only because the transaction compares the hash again, and an
  approved pairing because its owner's password has not changed since. A grant is used once because
  every credential of a pairing finds it consumed, and every claim of a link finds
  the account with a password.
* `PairedImplementsAccounts`: `AllSpec => Spec`; with the extension, the server's
  accounts are still those of `Accounts`, so that `PairedAuthorityIsCurrent` is a corollary.
* `ForgottenStaysRevoked` (`ForgottenIsRevoked`). `DeviceInv` says what the operation at the
  head of the chain may believe (`Asked`): an answer "ok" to a disconnection is only there when
  the session is dead, and dead sessions stay dead.

`LibraryProofs`, for any finite sets of assets, tags and names and any limits:

* `ListingsAreFaithful` (`PagesFaithful`). `Before` is a strict total order on places;
  a page is an initial part of the rows after the cursor and has a last row (the rank
  of a row is the cardinality of what is before it). `Resumable` relates the cursor to
  the history: a steady row is shown or still after the cursor, and a row shown is not after it unless it moved.
* `LinksStayEnded` (`EndedSharesStayEnded`): links are distinct and at most the number drawn,
  an ended one is on no asset.
* `TagsStayConsistent` (`TagsConsistent`): new tags are in bijection with fresh names, so that
  the count of the request is the count of what it adds.

`SnapshotsProofs`, for any assets, commands, directories and targets:

* `RestoresAreWhole` (`RestoredIsWhole`), `BackupsKeepTheirMedia` (`FrozenMediaKept`) and
  `SnapshotsStayFrozen` (`FrozenAndNeverOverwritten`) from `SnapshotsInv`: what a command
  relies on at its step (`JobInv`: the directory is in the phase that fits it, the database is
  portable when its manifest is written, what is about to be published was verified),
  that one command writes a directory's database (`OneWriter`), that frozen databases
  are portable, and that a retained asset has its original.

`WebUploadsProofs`, for any tabs, accounts, captures and limits:

* `FilesAreKept` (`FilesStayUntilSaved`), `OneAccountPerCapture` (`LandsInOneAccount`) and
  `ClaimsAreFenced` (`LiveClaimIsFenced`) from `UploadsInv`: all that mentions a capture, in a
  page, in the store, on the wire or in a library, is of one account (`OneAccount`); a live
  claim belongs to a record that is uploading, and a confirmation to a capture in a library
  (`Grounded`), which is why deleting the record loses nothing; a closed page has no jobs and
  a page that is leaving no file in memory (`PagesKnown`). `JobStepKeeps` and `PageStepKeeps`
  state what a step of a capture and of a page may change, and most actions
  only have to be shown to be such steps.
* `UploadsImplementOutbox` (`ImplementsOutbox`): `Spec => Outbox!Spec` under the mapping of
  `WebUploadsRefinement`, for files from their capture and for links from their storage. Each step
  is described per capture by `Moved` (it rests, or moves between two stages as an outbox does). That what is over never returns needs two facts beside the
  safety properties: a page writes a record only for a capture it holds in memory, and what
  only a page's memory holds neither the store nor another page has (`MemoryApart`);
  and a record under a live claim is removed only by the attempt that holds the claim, whose
  answer came from a library (`Grounded`).

`ExtensionQueueProofs`, for any captures, accounts and scopes, so for any number of ends of the
browser, changes of the connection and attempts that fail or time out:

* `TypeCorrect` (`TypeOK`), `SavesLandWhereCaptured` (`LandsWhereCaptured`) and
  `AttemptsAreBounded` (`AttemptsBounded`) from `Inv`, the conjunction of `FrameInv` and
  `QueueInv`. None of the three is inductive alone, because a row has copies: the one that is
  stored, those in the queues read by the exclusive chain, by a worker in its mutation and by a
  late release, and the one an attempt works from (`Copy`). `RowsOK` says of each that its owner fits
  the capture, that it counts the attempts begun, and that an account an upload of the save reached or may
  yet reach (`Reaches`) is its owner; then it does not matter which copy is written back. A save
  at its limit is not claimed again because it is not pending in anything its claim may read
  (`Spent`), and a capture still to be admitted has no trace yet (`Early`). `FrameInv`
  is the control: which process may be at which step, and that no two attempts have the same save.
* `TheAlarmIsArmed` (`AlarmArmed`) from `Awake`. Whoever clears the alarm found nothing waiting, and
  nobody else can make a save wait before it has cleared it: a worker and a late attempt that set the
  alarm hold the mutation chain, and the exclusive chain sets it before its pass starts and after
  it is over (`Turned`); a late release writes a save only when one waits already (`LateWakes`),
  and an operation that read the queue before such a release has read a save that waits (`Followed`).
  A save that waits without an alarm has a recovery before it (`Recovering`), whose last write sets the alarm.
* `CapturesAreKept` (`CapturesKept`) and `NothingResurrected` (`NoResurrection`), where no attempt
  times out or there is one capture (`Separate`), from `Whole`. The workers of a pass run only between
  two operations of the exclusive chain and their mutations one after the other, so that without a late
  attempt every queue that may be written back has its saves in the states they are in. A late release runs
  beside the exclusive chain: what either has read may then differ from what is stored, but only as a
  save that waits differs from one that is processed (`Close`), and the save to be released is
  neither terminal nor gone (`Releasing`). An operation that drops a save drops a terminal one,
  or evicts one that waits for another capture. The hypothesis is needed: with timeouts and two captures TLC
  finds both false, by a release that writes back the other save or writes over it
  (`queue_overwritten` is the run of the first property).
* `QueueImplementsOutbox` (`ImplementsOutbox`): `Spec => Outbox!Spec` under the mapping of
  `ExtensionQueueRefinement`, under the same hypothesis, without which an acknowledged capture gets the
  stage `"lost"`. The safety properties of the states do not tell why a row left. `Traced` does: every process
  at work on a save works on an acknowledged one (`Acknowledged`), what a worker is about to
  remove has landed (`Receipted`), and without timeouts the exclusive operation works from a queue with the states that are
  stored (`Current`), so that what it drops or evicts was in the state it saw. `Progress` says of each step how every
  capture moves (`Moved`) and where a save arrives (`Arrives`), and `OutboxStep` reads an
  outbox's step off it.

Every invariant, action property and refinement that a passing run checks is stated by one of these
theorems. Model-checked only: the liveness properties (`RequestsSettle`, `InterruptedPurgeResumes`,
`EveryWaiterGetsTurn`, `ShutdownCompletes`, `EveryAssetSettles`), since fairness and `ENABLED`
are outside the prover. `WaitingIsClaimable` is false (`indexing_snapshot`), `CapturesKept` without its
hypothesis (`queue_overwritten`), and `CapturesStayUntilSaved` of links (`uploads_link`).

## Not modelled

* Interface studies (`explorations/`, `docs/design-labs/`): static prototypes of screens
  with made-up data. They are about half of the repository's lines of implementation
  and have no state a specification could speak of.
* HTTP decoding and rendering, export, the MCP client, configuration, logging, media decoding
  and posters, fetching of URLs, native inference, tokenisation, download of the model, badges,
  screenshots and notifications: sequential data processing, presentation or I/O without shared state of their own. Their
  outcomes (a spool is complete or refused, an inference succeeds or fails, the model is
  ready or not) are inputs of the models.
* The predecessor import: an offline, single-process conversion that ends in one rename.
  Only what it leaves, claimable accounts, is modelled.
* That every save of the extension ends some day: it depends on the browser, which may never start an
  ended worker again, and on the network. What the code has to see to, that a save which waits
  finds a running worker or a set alarm, is the invariant `AlarmArmed`.
* Failing storage calls in the extension and the sizes of its captures; the bytes' quota of the
  web store; rate limits of the accounts; migrations.
* A duplicate found only by the last transaction while locks exclude cannot occur, and the save boundary's cleanup
  after it is reached only in the run without enforced locks.

## Plan

What remains is failing storage calls in `ExtensionQueue`: one worker of a pass may then end before the
other (`context-menu-save-queue.ts:774`), the exclusive section is left while a save is under way, and the
invariant that a pass has the exclusive chain to itself (`FrameInv`) no longer holds as it stands.
