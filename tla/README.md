# Verification of the PhotoBox API

PhotoBox is a Django/Celery service for photographers: originals are uploaded
to Cloudflare R2 (in bulk through presigned tickets, or one by one on a "fast
lane"), charged to a workspace's storage quota, delivered to clients through
galleries with magic links, PINs and ZIP archives, and removed by retention
sweeps.  Nearly every hazard of this code is an interleaving: HTTP workers,
at-least-once webhooks, redelivered Celery tasks, beat sweeps that may run in
two containers at once, and R2, whose objects are outside every transaction.

This directory holds TLA+ modules translated from the source, the TLC
configurations that check them, and theorems that TLAPS proves for every value
of the constants.  `PROJECT.json` maps each definition to the lines it stands
for, each hazard to its line, and each run to the properties it checks.

    tlc -workers 2 -config lanes.cfg MCPhotoLifecycle.tla
    tlc -workers 2 -config services.cfg MCServices.tla
    tlapm PhotoLifecycleProofs.tla

## 1. Inventory

Paths are relative to `src/app`.

| component | state it keeps | operations | talks to | correct when |
|---|---|---|---|---|
| Storage quota ledger `core/quota.py` | `Workspace.storage_used_bytes`, `storage_limit_bytes` | reserve, release | every upload, failure and deletion path; billing writes the limit | the counter is the sum of what is charged and not refunded; headroom is never handed out twice |
| Heavy lane `ingestion/views.py` | `Photo` rows PENDING to READY / QUARANTINED, presigned tickets, R2 objects | bulk ticket (commit), browser POST to R2, R2 webhook | quota, R2, derivative tasks | one row, one charge, one transition per ticket whatever R2 delivers |
| Abandoned-upload reaper `ingestion/tasks.py` | none of its own: a list it read | scan, HEAD, settle | quota, R2 | every ticket is settled in the end; a row settled by another is left alone |
| Fast lane `gallery/views.py`, `gallery/tasks.py` | `Photo` rows without a key, monitor task | create, dispatch, monitor, self-heal, abandon, delete | quota, R2, Celery | a row is never READY without its object; refunds happen once |
| Failure and purge `gallery/photo_failure.py`, `asset_purge.py` | queued purge tasks | fail and refund, purge | quota, R2 | a poison pill refunds once; a purge never hits a delivered photo |
| Retention `gallery/retention.py` | gallery clock, READY to EXPIRED to gone | expire, hard delete, purge links and archives | quota, R2 | idempotent under overlap |
| Scene and event deletion `gallery/views.py` | cascades over photos | destroy | (nothing) | storage is reconciled |
| Web derivative `gallery/tasks.py` | derivative key, object in R2, copy in the CDN | build, upload, save the key | R2, failure path | every key is collected by whoever settles the row; no orphan object but the raced and the lost ones |
| Hashes and bursts `gallery/tasks.py`, `burst_cluster.py`, `phash.py` | hash, debounce lock, cluster ids | hash, ask, group | the scene's rows | no hashed photo is forgotten; clusters are independent of order |
| ZIP lease `gallery/zip_lease.py` | Redis slots, per-gallery counter | acquire, heartbeat, release (Lua) | archive jobs | at most N builds; a slot is freed in the end |
| Archive jobs `gallery/tasks.py`, `client_views.py` | job status, object | request, build, resume stale | lease, R2 multipart sink | one build per job; a stale job is restarted, a live one is not |
| Client access `client_views.py`, `client_auth.py`, `pin_gate.py` | magic links, `pin_version`, attempt counters, guest tokens | request, consume, PIN check, revoke by PIN change | cache, notifications | a link is used once; a changed PIN ends old sessions; attempts are bounded |
| Billing `billing/`, `checkout/` | subscription, processed events, dead letters, callback tokens, checkout lock | webhook ingest and apply, dunning, M-Pesa callback, session | quota limit | events apply once; a cancellation is not undone by an older event |
| Custom-domain index `core/domain_index.py` | cache entries | lookup and fill, invalidate | `Workspace.save` | what was cached before a domain moves does not survive the move |
| Rate limiter `core/rate_limiter.py` | sliding window in Redis | allow | all views | never more than the limit in any window |
| Watermark, pagination, batches | none | pure functions | views, tasks | equal to their reference definitions |
| Account deletion `core/signals.py`, `core/tasks.py` | keys collected before a cascade | collect, delete, purge | R2 | every object of the account is purged or excused |
| Registration and login `user/` | lockout counters | register, login | allauth, simplejwt | attempts bounded |
| Security headers, HMAC, CORS, Turnstile; search; share codes; deployment | none | stateless | | not modelled |

Behaviours that are hard, and where they bite (all lines in `PROJECT.json`,
`hazards`): sizes and statuses read before a row lock and used after it; R2
events delivered late, twice, or never; a process dying between a commit and
the dispatch it triggers; overlapping beat runs; leases and caches that expire
under a live holder; provider events out of order; requests that save every column
of a row they read earlier; transactions that lock the same rows in different
orders.

## 2. What is modelled

    QuotaLedger  <-- StorageAccount          (what the ledger promises)
        ^                 ^
        |                 | Account == INSTANCE ... WITH
        +--- PhotoLifecycle <-- MCPhotoLifecycle           lanes, deliveries, ...
                  ^
    QuotaLedgerProofs <-- PhotoLifecycleProofs

    ZipLease <-- ArchiveJob <-- MCArchiveJob               archives
        ^------- LeaseHolders ---------------+
                                             |
    GalleryDoor, MagicLinks, PinGate <-- MCAccess          access, old_code_returns
                                             |
    BillingWebhooks (retries_exhausted), Checkout, DarajaCallback,
    WorkspaceRow (MCWorkspaceRow: branding_overspend), PhotoObjects,
    SlidingWindow, UploadSink, KeysetPages, BurstSchedule, BurstGroups,
    QuietCorner, RowLocks ---------------+-- MCServices    services

    ZipLease <-- LeaseHolders <-- LeaseProofs <-- ArchiveProofs --> ArchiveJob
    MCAccess <-- AccessProofs
    MCServices <-- ServicesProofs --> MoneyProofs, LeaseProofs, PictureProofs

In all of them a `transaction.atomic()` block that locks its row is one
action; each read outside a lock, each R2, Redis or cache call and each enqueue
after a commit is an action of its own, so that every other actor may run in
between.  `RowLocks` looks inside the locked transactions.  History variables
(`billed`, `undone`, `late`, `raced`, ...) are read by properties and never by
the guard of a step of the code.

### 2.1 Uploads and the ledger

**QuotaLedger** is the arithmetic of `core/quota.py`: `CanReserve`,
`AfterRelease` (with its floor at zero and its no-op for non-positive
amounts) and `Total`, the sum of the sizes of a set of files.  `Total` is
written as the cardinality of a set of (file, byte) pairs so that facts about
sums follow from the cardinality of unions; no recursion is involved.

**StorageAccount** is the abstract specification: uploads *hold* bytes;
`used` is always the sum of what is held; bytes are granted to uploads that
hold none and only within the limit in force; afterwards they can only be
given back.  The limit may move at any time, even below what is held.

**PhotoLifecycle** is one workspace with one gallery.  Its variables are
the columns the handlers share (`status`, `size`, `processed`, `used`,
`limit`), R2 (`object`, the events it has emitted, `notified`), the clock as
far as code looks at it (`age` of a ticket, `gallery`), and what each
concurrent actor remembers from *before* it took a lock:

| variable | remembered by | read at | used at |
|---|---|---|---|
| `hook` | a webhook request: declared size, HEAD result | `ingestion/views.py:676-703` | `:744-833` |
| `mon` | a fast-lane monitor: whether the object was there | `gallery/tasks.py:205-247` | `:253-278`, `:597-637` |
| `reap` | a reaper run: listed rows and their HEAD results | `ingestion/tasks.py:26-47` | `:66-95` |
| `snap` | a hard delete: row ids and the refund it added up | `gallery/retention.py:120-139` | `:141-156` |
| `deriv`, `purging` | Celery tasks queued after a commit | | |

The history variable `billed` holds the photos charged and not yet refunded.

Status `NONE` stands for "no row yet" and `GONE` for "row deleted".  Failed
requests (402, 403, 409) leave no trace and have no action.  The worker that
dies is `HookDrop`, `ReapAbort`, `HardDeleteFails`, `PurgeLost`, and the
"lost" outcome of `FastDispatch`; redelivery is the choice in `DerivPoison`
to leave the task queued, and the repeated `HookRead` of one event.

`VaultPut` is external: the monitor waits for an object that nothing in the
repository stores (`docs/pipelines/upload-pipelines.md:29-32` speaks of a
worker that uploads the file; `process_fast_lane_asset` only looks for it).
`VaultPhoto` says for which uploads someone does.  `ClientPut` is the browser;
the ticket's policy bounds the body it may store.

### 2.2 Archives

**ZipLease** is the three Lua scripts of `gallery/zip_lease.py` as operators
over the lease keys, the sorted set of slots and the gallery counters, each
with the ticks it has left.  The script compares slot scores with the caller's
clock; the workers' clocks are taken to agree.  **LeaseHolders** adds
what workers believe (`believes`): they may stall while time passes, extend,
release late, or die.  **ArchiveJob** uses the same operators under the job rows,
the broker's messages, the objects and the purge task:

| variable | stands for | changed by |
|---|---|---|
| `status`, `scope`, `age`, `exp` | `GalleryArchiveJob` rows; `updated_at` never moves after creation, as `.update()` does not touch it | both request views, the build, the purge, the gallery's deletion |
| `object` | ZIPs in R2 | `Store`, `PurgeObject` |
| `queue`, `run` | messages with the retries used; builds in the workers | `Enqueue`, `Start`, `Retry`, `Crash`, `Redeliver` |
| `client`, `listed` | a request between its checks and its enqueue; jobs a purge has read | `AskFull`, `AskFavorites`, `PurgeList` |

`Crash` returns the message to the queue (late acknowledgement), `Redeliver` is
the broker's visibility timeout under a live build.  A finished archive's 24
hours are taken to be longer than the life of any message about it (`Quiet`).

### 2.3 Ways into a gallery

**GalleryDoor** is the `Event` row under concurrent requests of the photographer
(`EditRead`, `EditPin` or `EditKeepPin`, `EditSave`, `Stamp`: read the row, change
the PIN, write *every* column, stamp the expiry), `RotateCode`, and guests
whose token is issued in a later step than their PIN was checked.  **MagicLinks** is one
address's links: asked for (count, then create), mailed, redeemed under a row
lock, swept by two beat tasks with the sessions and favourites that hang on them.
**PinGate** is the two cache counters, every `get`, `incr` and `set` a step.

### 2.4 Money

**BillingWebhooks**: payloads are numbered as the provider sends them, delivered
in any order and more than once; a task finds the database locked, fails, is
poisoned or dies (it is acknowledged early); the replay ledger may be pruned.
`Finish`, `Retry`, `Exhaust` and `Poison` are the four ways out of the task.
**Checkout** is the five-second lock that nobody owns; **DarajaCallback** the
single-use secret and the replay ledger of M-Pesa callbacks.

### 2.5 The workspace row, objects, and the rest

* **WorkspaceRow**: a PATCH of the branding reads the row and saves all its
  columns, next to uploads that charge it and lookups that fill the host
  cache; `save()` looks at the old row without a lock and invalidates the hosts
  one by one inside the transaction.  `refilled` notes, for a PATCH that has not
  committed, the hosts a lookup cached after it had dealt with them; `late` the
  hosts whose entry a commit overtook.  Both depend on when a lookup read and
  wrote, not on what the save chooses to invalidate, so a save that forgets a
  host is caught.  The one exception, `missed`, is made only when another save of
  the workspace committed between this one's look at the row and its lock.
* **PhotoObjects**: the keys of a photo as they are collected by the failure path,
  the owner, the sweep or an account deletion, against a derivative being
  written and a CDN that fetches it.  The deletion of a scene or an event takes
  any set of rows and collects nothing (`CascadeDelete`); `orphaned` has the
  photos it took.  A purge may leave keys that R2 refused in an answer nobody
  reads (`unpurged`), and copies the CDN was not told of (`unflushed`).
* **SlidingWindow**: the rate limiter's script with the caller's skewed clock.
* **UploadSink**: the multipart sink with both of its callers and their failures.
* **KeysetPages**: the three orders of reading a table that changes meanwhile.
* **BurstSchedule**: hashing, the debounce lock, the countdown and the grouping's
  read and write.  **BurstGroups**: bands, candidate pairs in any order,
  union-find with ranks and path compression, one union per step.
* **QuietCorner**: the summed-area tables pixel by pixel, the scaling, and the
  choice with its tolerance; rounding is Python's, to even.
* **RowLocks**: the rows each locked transaction locks, in order and with their
  PostgreSQL lock mode.  A `FOR UPDATE` over a join locks every joined table, so
  the webhook locks photo, scene, event and workspace; an inserted photo takes a
  key-share lock on its scene at commit.  A deadlock is broken by failing one
  transaction (`BreakDeadlock`); `StopWaiting` is NOWAIT and `lock_timeout`.

## 3. Properties and runs

| property | kind | what it says |
|---|---|---|
| `TypeOK` | invariant | types |
| `LedgerExact` | invariant | `used` is exactly the sum of the bills not settled; every live row has one, no FAILED row has |
| `LedgerInv` | invariant | `LedgerExact` with what makes it inductive (section 5) |
| `ReadyHasOriginal` | invariant | a delivered photo has its original in R2 and no purge is coming for it |
| `NoOversell` | action property | a step that makes live bytes grow leaves them within the limit |
| `NoResurrection` | action property | GONE is final; FAILED, QUARANTINED, EXPIRED are never delivered again; FAILED is never charged again |
| `ImplementsAccount` | refinement | every step is a step of `StorageAccount` or stutters |
| `AbandonedSettled` | liveness | a PENDING ticketed row does not stay PENDING |
| `DownloadServes` | invariant | a URL the status view hands out leads to a stored ZIP |
| `BuildsApart` | invariant | no more builds of a gallery overlap than its cap allows, until it has been building without a pause for as long as its counter lives (`since`) |
| `OnlyHolderFrees` | action property | a lease ends by time or by the run that holds it |
| `GlobalCap`, `GalleryCapHolds` | invariants | live leases stay within the fleet's cap, and within the gallery's while its counter has not expired under one |
| `RotationRevokes` | invariant | a guest who is let in knows the PIN of the moment, unless a PATCH wrote back or counted on from a `pin_version` another had overtaken (`undone`) |
| `ExpiryKept` | action property | a stamped expiry is neither lost nor moved, but for a PATCH that had read the row before (`undone`) |
| `LinkBound`, `ConsumeOnce` | invariants | live links exceed the limit by concurrent requests at most; a link opens one session |
| `AttemptsBounded` | invariant | wrong PINs before the lockout are bounded by the attempts that race |
| `BooksAgree`, `AppliedOnce`, `Converges` | invariants | subscription, user, workspace and audit log agree; a payload takes effect once per pruning of the ledger; when all is handled and nothing lost or overtaken, the books are what the provider knows |
| `CheckoutsBounded`, `DarajaOnce` | invariants | each lock that expires lets one more checkout in; one callback per secret is accepted |
| `CacheFresh` | invariant | a host entry that was cached when a save came to it does not survive the save: a wrong one was written by a lookup that raced a commit, or two saves raced for the workspace (`late`) |
| `NothingLeft` | invariant | of a photo that failed, or that its owner, the hard delete or the account's deletion took, no object and no copy remains but what a purge will delete, what the last one left (`unpurged`, `unflushed`), and what was written behind the back of whoever last collected the keys (`raced`); photos of a deleted scene or event (`orphaned`) are excepted, unless a hard delete or an account deletion that had read their keys commits |
| `WindowHolds` | invariant | no window shorter by the clocks' difference admits more than the limit |
| `UploadWhole` | invariant | an object is the whole stream, once and in order |
| `SeenOnce` | invariant | no row twice; no row that stays is skipped |
| `BurstsCatchUp`, `GroupsAreBursts` | invariants | a hashed photo is grouped or will be, or its request is known to be lost (`forgotten`, `vain`); groups are the chains of near photos, whatever the order |
| `LogoInQuietCorner` | invariant | the corner chosen is inside, and the quietest beyond the tolerance, by the squared differences of all its pairs of pixels |
| `DeadlocksExplained` | invariant | a deadlock needs an upload, a grouping, a first subscription, or two statements over several photos |
| `LiveBytesCovered`, `DeletesReconcile`, `FastLaneReconciles`, `OldCodesDead`, `ExhaustedKept`, `NoOverspend` | documented claims | see findings |

| run | instance | question |
|---|---|---|
| `lanes` | one heavy and one fast photo, sizes 1 and 2, limit 3, one webhook worker, one hard delete | do the lanes, the owner, the poison pill, expiry and hard delete keep ledger, rows and R2 together? |
| `deliveries` | two tickets, two webhook workers, two reapers, limit 1 or 2 | do duplicated and reordered deliveries, overlapping reapers and a moving limit? |
| `reaper_liveness` | two tickets, one reaper, fairness | is every ticket settled? |
| `overlapping_hard_delete` | two hard deletes over two photos | violation: refunded twice |
| `deletes_reconcile` | one ticket, owner deletes | violation: cascade keeps the charge |
| `fast_lane_reconciles` | one fast photo, fairness | violation: PENDING for ever |
| `archives` | one job of a gallery with two scopes, two build runs, one request, one retry, one lost worker or double delivery | do rows, messages, leases and objects stay together? |
| `access` | two editors and a guest; three links, two requests and two redemptions; three attempts at a PIN | who gets in? |
| `services` | thirteen components, small instances of each | is each right by itself? |
| `old_code_returns` | `access` | violation: a PATCH brings a rotated code back |
| `retries_exhausted` | one payload, one retry, two faults | violation: spent retries leave no dead letter |
| `branding_overspend` | one PATCH next to uploads | violation: used bytes are written back |

`access` and `services` put components side by side that share no variable:
`part` is chosen at the start, one component works and the others rest.  Nothing
is lost by it, as no property speaks of two of them, and it is not a product of
their state spaces.  The values `Quiet`, `OnePages`, `OneGroups` and `OneCorner`
only give resting components a single state.

Bounds of the photo's life cycle, and why they are enough.  *Two photos*: rows interact only through the
ledger, so one photo to be refunded wrongly and one to be hidden by it show
every interference.  *Sizes 1 and 2*: the smallest choice with an undersized
upload (declared 2, stored 1), which is the only way a charge shrinks.
*Limit 3 against 2+2*: one photo of each size fits, two large ones do not;
in `deliveries` the limits 1 and 2 make two tickets fit or compete.  *Two
webhook workers and two reapers*: a duplicate needs one other copy of the
actor; a third adds no new pair of stale read and locked write.  The ages of
a ticket (usable, lapsed, reapable) and of the gallery (live, due, over) are
the only distinctions the code makes of time.  Nothing else is capped: the
state space is finite because ids are not reused, except that the number of
times an object is stored or a webhook redelivered is *not* bounded, it only
revisits states.  Symmetry (`deliveries`) permutes photos, workers and
reapers, which that instance uses alike; it is not used with liveness.
`CHECK_DEADLOCK FALSE` because a workspace whose photos are all settled and
deleted legitimately stops.

Bounds of the other runs.  `archives`: the per-gallery cap of one, a lease of
two ticks and a counter of eight make every expiry happen under a live build;
two runs are a build and its redelivery or retry; one fault, because it already
gives two copies of the message.  Two *jobs* of one gallery, and a gallery next
to another, are met in `services` (`LeaseHolders`: three jobs, two galleries) and, for the builds themselves, in
the proof of `BuildsApart` (section 5).
`access`: two editors are needed to lose an update (symmetry permutes them); two
PINs and two dates let the second replace the first; one live link allowed, two
requests: the limit is overrun; three attempts against a limit of two.
`services`: three payloads of one subscription are a creation, a change and a
cancellation, each delivered twice, one retry, one pruning, one fault; three
buyers and two expired locks; two secrets, two callbacks, two result codes; two
tenants, one host that they hand to each other, two PATCHes (symmetric) that may
be of one tenant, and a lookup, which races one change and is made wrong by
another; two derivations and two purge attempts; two replicas
whose clocks differ by one, windows of four ticks until eight; up to nine units
in parts of two, three parts allowed, so that the limit is hit; three ids at two
instants in pages of one; four photos with hashes of two bits; five canvases for
the five ways through the search; three transactions over two photos, as two
rows and a third party are the shortest cycle that is not a pair.
`CHECK_DEADLOCK FALSE` in these runs: events, links, ids and rows are used up.

Fairness (`LiveSpec`).  Time passes and beat keeps starting the reaper: weak
fairness of `TicketAges` and `ReapScan`.  A HEAD, and the settling of a row
behind a `nowait` lock, may fail any number of times but not for ever: strong
fairness of `ReapHead` and `ReapSettle`; `ReapAbort` and a contended
`ReapSkip` remain free to happen in between.  For the fast lane Celery runs
what was queued and R2 answers in the end.  *No* fairness is assumed of
browsers, webhook deliveries, the photographer or purges.

## 4. Findings

* `overlapping_hard_delete`: `gallery/retention.py:5` requires every task to
  be idempotent because two beat containers may overlap.  The refund of a hard
  delete is the sum of a list read before the transaction and does not depend
  on the rows the delete removed, so two runs with the same list refund it
  twice and the ledger falls below what live rows occupy.
* `deletes_reconcile`: `docs/security/security-architecture.md:28` says deletes
  reconcile storage usage; deleting a scene or an event cascades to its photos
  and neither refunds nor purges them.
* `fast_lane_reconciles`: `docs/pipelines/upload-pipelines.md:61` says workers
  reconcile or refund a fast-lane upload later; a row whose task was not queued
  after the commit is looked for by nothing (the reaper selects rows with an
  object key).  The same end is reached in a Celery worker when
  `task.retry(exc=exc)` runs out of retries and raises `exc` instead of
  reaching the `on_exhausted` branch of `core/celery_retry.py:52-73`.
* `old_code_returns`: `gallery/models.py:159` says of a rotation "old code
  404s"; a PATCH in progress saves every column of the row it read, the old
  share code among them (`gallery/serializers.py:121`).
* `retries_exhausted`: `core/celery_retry.py:59` says the callback runs when the
  retries are spent; in a worker `task.retry(exc=exc)` raises `exc` itself then,
  so a payload that met a locked database to the end is no dead letter.
* `branding_overspend`: `docs/security/security-architecture.md:27` says atomic
  updates prevent concurrent overspend; the branding's PATCH saves the
  `storage_used_bytes` it read (`gallery/views.py:286-296`).

Behaviours the properties permit because the code means them or no
statement contradicts them: an anomalous late webhook moves a FAILED or
EXPIRED row to QUARANTINED (`ingestion/views.py:763`), and a QUARANTINED row
that the owner deletes is not refunded, its status not being in
`_QUOTA_CHARGED_STATUSES`; two requests may create two archive jobs of
one gallery (both are on the lease); a PATCH that dies between its save and the
stamp leaves a published gallery without expiry; two PIN changes may take the same
`pin_version`; two subscriptions of one user leave the books with the last event;
a webhook that PostgreSQL fails to break a deadlock answers 200 and is not sent
again, and the reaper settles its row later; a purge whose worker died before it
was queued, and a derivative written while the keys of its photo were collected,
leave objects that nothing looks for.  Three more are at odds with what a document
says, and are in the model without a run of their own: the photos of a deleted scene
or event leave their objects in R2, though "Hard delete from R2 after grace expires"
(`docs/security/security-architecture.md:60`; the cascade is that of
`deletes_reconcile`); a key that R2 refused counts as deleted, its errors being read
by nobody (`gallery/storage.py:488-492`), though the purge is called fail-closed
(`gallery/asset_purge.py:50`); a lookup that read a host before a save and writes
after its invalidation leaves the old answer for the whole TTL, though
`core/domain_index.py:11` promises automatic invalidation.  The properties
name these cases in a history variable or in their words, and hold for the rest;
PROJECT.json lists those no property covers as hazards without one.

## 5. Proofs

Every invariant, action property and refinement that a passing run checks is
also a theorem, for all values of the constants that the module's named
assumptions admit; the one exception is liveness (section 6).

| module | about | theorems (property) |
|---|---|---|
| `QuotaLedgerProofs` | sums of bytes over finite sets | lemmas on `Total` and the ledger's moves |
| `PhotoLifecycleProofs` | uploads and the ledger | `TypeCorrect` (`TypeOK`), `LedgerInvariant` (`LedgerInv`)*, `LedgerIsExact` (`LedgerExact`)*, `LiveCovered` (`LiveBytesCovered`)*, `SettledStaysSettled` (`NoResurrection`), `OriginalsKept` (`ReadyHasOriginal`), `HeadroomHandedOutOnce` (`NoOversell`)*, `LedgerImplementsAccount` (`ImplementsAccount`)* |
| `LeaseProofs` | the three Lua scripts and their holders | `HolderInvariant`, `FleetIsRationed` (`GlobalCap`), `GalleriesAreRationed` (`GalleryCapHolds`) |
| `ArchiveProofs` | archive jobs | `ArchivesTyped` (`ArchiveTypeOK`), `HandedOutIsStored` (`DownloadServes`), `OnlyHoldersFree` (`OnlyHolderFrees`), `BuildsStayApart` (`BuildsApart`) |
| `AccessProofs` | door, links, PIN gate | `RotationLocksGuestsOut` (`RotationRevokes`), `ExpiryIsKept` (`ExpiryKept`), `LinksOpenOnce` (`ConsumeOnce`), `LiveLinksBounded` (`LinkBound`), `WrongPinsBounded` (`AttemptsBounded`), `AccessTyped` (`AccessTypeOK`) |
| `MoneyProofs` | webhooks, checkout, M-Pesa | `BillingInvariant`, `BooksAlwaysAgree` (`BooksAgree`), `EffectsAreOnce` (`AppliedOnce`), `BooksConverge` (`Converges`), `DoubleTapsBounded` (`CheckoutsBounded`), `SecretAcceptedOnce` (`DarajaOnce`) |
| `PictureProofs` | what is made and kept of a photo | `NothingStays` (`NothingLeft`), `UploadsAreWhole` (`UploadWhole`), `NoShotDropped` (`BurstsCatchUp`), `GroupingIsRight` (`GroupsAreBursts`), `QuietCornerChosen` (`LogoInQuietCorner`) |
| `ServicesProofs` | the rest, and the composition | `DeadlocksAreExplained` (`DeadlocksExplained`), `LocksTypeCorrect`, `CacheStaysFresh` (`CacheFresh`), `LimitHolds` (`WindowHolds`), `PagesGiveEachRowOnce` (`SeenOnce`), `PartsBehave`, `ServicesTyped` (`ServicesTypeOK`) |

Theorems marked * assume `SingleHardDelete`: two runs of the hard delete never
overlap.  The code does not ensure it; the run `overlapping_hard_delete` shows
that without it they are false.

Assumptions on constants, all of them named where the constants are declared
and evaluated by the runs.  `PhotoAssumption`, `SizeAssumption`: finite, disjoint lanes, sizes
positive as the serializers demand.  `LeaseAssumption`: caps and lives are
natural numbers, the lease key's empty value is no run.  The settings of the PIN gate, the rate
limiter, pages, parts and bursts are positive integers, as they are in
`app/settings.py` or at the module's head; requests, sessions, photos
and rows are finitely many where their number matters.  `WindowAssumption` also has the
replicas' clocks behind by less than a window: with more there is no window left
to speak of.  `GroupAssumption` makes times
integers, `CornerAssumption` widths, margins and luminances natural numbers.

*The ledger.*  `LedgerExact` (the counter is the sum of the open bills) is not
inductive: a webhook refunds `declared - head` from a declared size it read
earlier, and a hard delete refunds a sum it computed earlier.  `LedgerInv` adds
what these two still know: `HooksCurrent` (a webhook that can still change the
row holds the row's present size, because only one that finds the row
PENDING shrinks it, and then it is PENDING no longer) and `SnapsCurrent` (the
rows a hard delete has read are billed still, cannot come back to life, and
add up to its refund).  Its preservation reduces every action to one of four
lemmas: `QuietStep` (the ledger is left alone), `ChargeStep`, `SettleStep` (one
charged row is failed or deleted with its refund), and `HookReadsStep`; the
undersize refund and the hard delete are proved on their own.  That the floor
at zero of `release_workspace_bytes` is never what decides is a consequence
(`AfterReleaseExact`).

*Rows.*  Every action moves a status along one of the seven arrows of `Moves`
and bills a row only at birth (`Follows`, one lemma per group of actions).
`RowsInv` (bills belong to rows that exist and have not failed; webhooks and
hard deletes hold rows that were created) makes this usable at every step,
and `SettledStaysSettled` follows.

*Originals.*  `ReadyHasOriginal` is inductive together with `PurgesSettled` (only
failed, quarantined or deleted rows have a purge under way, and none of them
comes back) and `ProbesCurrent` (an object that a webhook or a monitor saw is
still there if the row may still become READY): a HEAD outside the lock is
safe because nothing but a purge removes an object.

*Account.*  From both invariants, every step is one of three kinds
(`StepKinds`): it bills new rows within the limit (`Grants`), no bill and no
row grows (`Shrinks`), or only the limit moves.  `HeadroomHandedOutOnce` and
the refinement, with what a photo is billed as what its upload holds, are
read off these kinds.  The proof uses the invariants in the state *after* the
step as well: that is where the new sum is known to equal the counter.

*Row locks.*  `ServicesProofs` gives every row a rank (photo and link, scene,
event, subscription, user, workspace).  `DeedsRise`: every transaction outside
the reversed ones locks by rising rank, but for the two photos of a statement
over many.  `WaitRises`: who is waited for and waits itself wants a row of
higher rank.  So in a set that waits for itself nobody wants the workspace, then
nobody the user, and so on down to the photos, where only a statement over
many can hold one and want another (`NoRisingDeadlock`).  Any number of
transactions and photos; `FrameAssumption` says that a photo is none of the other rows.

*Leases.*  `HolderInv`: a live lease has its slot (`SlotsCoverLeases`), and
until the gallery's counter expires it covers the live leases of the gallery
(`CountersCover`).  The fleet's cap needs the slots because what the script
compares with the capacity is the set of slots, not the leases; a slot is
dropped only when its time is over, which is when its lease is.

*Archives.*  `JobsInv` says that a ZIP is stored before its row is completed and
stays while the row is handed out: this needs that the message, the build, the
request and the purge of an expired row do not meet (`MessagesOnce`).
`BuildsApart` needs a count of time instead: `Covered` bounds the builds by the
counter, and adds the counter's remaining life to the time the gallery has been
building, which together stay at least a full life.  The clock
`since` belongs to the gallery and not to a build, and must: a build whose
heartbeats have outlived the gallery's counter takes *another* build off the
counter when it releases its lease, and a third may start although neither of
the two that then overlap has outlived anything.

*Ways in.*  `VersionsInOrder`: until some PATCH wrote a version back, whatever was read
of the row is older than the row or has its PIN.  `LinkInv` has links numbered
as they are created, rows locked by one redeemer each, and `RoomForAskers`: a
request that has counted the links leaves room for one.  The PIN gate is
the hardest of the three, because a late first `set(1)` forgets what others counted:
`HiddenLimited` bounds what k late counts may still hide by an arithmetic
series; with `CounterLimited` and `UncountedKnown` it is inductive, and the
bound that `AttemptsBounded` states is its value when no late count is left.

*Money.*  `BillingInv` relates four histories.  `ProviderSent` and
`CreatedOnce` say what the provider may have sent, `InOrder` that the
subscription is what the payloads handled say as long as none overtook another,
`LedgerCounts` that effects are counted by the replay ledger and its prunings.
When all payloads are handled, `InOrder` over all of them is `ProviderSent`, and
`Converges` follows.  `CheckoutsBounded` and `DarajaOnce` are
inductive with `LinksHaveRows` and `SecretsHeldOnce`.

*Objects.*  `NothingLeft` is about settled photos; the invariant also speaks of the
others.  Whoever collects the keys of a photo must find its derivative noted in
the row, or the run that writes it must be known to race (`DerivativesKnown`,
`RacesKnown`).  Keys read by a hard delete or an account deletion cover what there
is of each photo until they are committed, or somebody else has settled the photo
meanwhile and queued its keys (`SweepCovers`, `AccountCovers`); a cascade is not
somebody else, it settles and queues nothing (`OrphansGone`), so what was read
before it still covers its photos.  `SettledExcused` then carries each excuse from
key to purge and from purge to what it leaves.

*Sink, cache, window, pages.*  `SinkInv`: while the writer writes, parts tile the
bytes flushed and are all full; only a close makes the last one short.  `CacheFresh`
needs `WritersApart`, a written row has one writer, and `DealtWith`: while a PATCH
has written and not committed, a host whose owner its commit will change is still to
be invalidated, or has no entry, or one that a lookup put there since (`refilled`),
or was missed because another save overtook its look at the row (`missed`).  At the
commit nothing is left to deal with, and only the hosts of the two versions of the
row change hands (`OwnerMoves`).  `WindowInv`: every admitted hit
that is young enough is in the set under its own number with a score
not behind its time (`HitsKept`), and the key outlives it (`KeyLives`); so the
script's count is not less than the hits of any window.  `PageInv`: keys given
rise strictly in the reader's order, the cursor is the last of them, and a
row that was there all along is given or still ahead.

*Bursts.*  `BurstsCatchUp` needs that a debounce lock has a task queued for when
it is free (`LockHasTask`), and that a grouping sees at least what the last one
saw (`ReadersSeeMore`).  `GroupsAreBursts` is about union-find: parent pointers
form a forest whose ranks rise to the root and are bounded by the unions made
(`Forest`); trees are closed under nearness and nothing else (`TreesAreLinked`);
a candidate pair that no longer waits is in one tree (`PairsJoined`).  Trees are
described by the sets that contain them whole (`WholeTrees`), so no
transitive closure is computed.  The lower bound uses a pigeonhole: two hashes
that differ in fewer bits than there are bands agree in one.

*Watermark.*  `CornerInv`: each table holds, above and to the left of the
pixel that is next, the sum of what was read (`Sums`, for the luminance and for
its square).  Four reads then give the sum under the logo (`FourReads`, by
inclusion and exclusion), and n times the sum of squares less the square of the
sum is the sum of the squared differences of all pairs (`VarianceOfPairs`, by
induction on the luminances: `StaysZero` says that a quantity that does not
change when a value is added is zero).  `Choose` compares these numbers, so the
corner it takes is the quietest by the definition.  Sums are `Total` of
QuotaLedger: what counts bytes over photos counts luminance over pixels.

*Side by side.*  `PartsBehave` and `AccessIsAllThree`: in `services` and `access`
each component behaves as it does alone, so the theorems about it hold of the
runs' specifications.  `ServicesTyped` and `AccessTyped` are the runs' type
invariants.  The initial states of groups and watermark differ while they rest,
so `ChosenInv` takes these two up when they are at work.

## 6. Not modelled, and the plan

Only model-checked: liveness (`AbandonedSettled` under `LiveSpec`; fairness and
ENABLED are outside the prover's reach), and the refutation of the documented claims in
section 4, which are counterexamples and need no proof.

Left out of the modules: request validation, HMAC and bucket-name checks (they
drop requests before any state is touched), file names and key formats,
presigned-URL contents other than the size bound and the expiry, logging and
message texts; decoding and rendering of images; a second gallery in
PhotoLifecycle (galleries share only the ledger); archive keys in an
account deletion (handled like photo keys); the mail of a publication.

Assumed: Redis keeps its data while it is up; workers' clocks agree where a ZIP
lease is taken; a finished archive outlives the messages about it; a user buys
one subscription at a time in `services`.

Components without a module, and why:

* *Throttles built on REST framework* (`gallery/throttles.py`): history lists
  that are read, extended and written back by library code, which bounds nothing
  under concurrency and is not in the repository.  The rate limiter of
  `core/rate_limiter.py`, which is, is in SlidingWindow.
* *Registration and login* (`user/`): allauth and simplejwt, not in the
  repository.  The registration limiter (`user/views.py:63-67`) counts with an
  `incr` of a key nothing creates, so it keeps no state to model.
* *Security headers, HMAC, CORS, Turnstile, visibility checks*: stateless.
* *Search, share-code generation*: stateless, or a uniqueness constraint of the
  database; rotation is in GalleryDoor.
* *Deployment, edge worker, documentation site*: no state of the program.

Planned next:

1. What the code promises beyond the properties: that `ExhaustedKept` and
   `OldCodesDead` hold in the cases the findings leave, as theorems with the case
   excluded by name.
2. Refinements: `StorageAccount` for the workspace row as branding sees it, and a
   counting semaphore for the ZIP lease while no counter lapses.
3. The safety half of `AbandonedSettled`: a ticket that can be reaped is always
   one step of the reaper away from being settled.
4. The remaining hazard of a ticket used again after its webhook
   (`gallery/storage.py:414`).
