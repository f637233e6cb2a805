# A TLA+ verification of ghsync

ghsync keeps a PostgreSQL mirror of GitHub repositories, pull requests, stacks
and checks. Webhooks are hints; every row is written from an answer of GitHub;
work items are derived from the rows; consumers follow a change stream. The
design rules are the constraints C-I, C-C, C-B, C-Q, C-R, C-D, C-S, C-P and
C-O of `src/docs/SYNC_ENGINE.md` (section 3). This project models the protocols
that keep those rules under concurrency and failure. TLC checks them on small
instances and TLAPS proves the most important ones for every instance.

## 1. The system

| Part | State | Operations | Meets |
|---|---|---|---|
| Ingress (`internal/ingress`) | `webhook_deliveries` | verify, insert once per GUID, answer 200 | dispatcher, gap healer |
| Dispatcher (`internal/dispatch`) | the same rows, claims | claim a batch (SKIP LOCKED), classify, bump generations and insert jobs, record results; park, requeue | refresh queue, branch push |
| Refresh queue (`internal/queue`) | `refresh_intent_generations`, River jobs | insert, run, complete, retry, discard, reconcile orphans | every producer of signals |
| Fetch handlers (`internal/fetch/handler.go`) | none of their own | observe, ask GitHub, apply or retry, enqueue follow-ups | store, budget gate |
| Fetch coordinator, discovery gate | batches; semaphores by name | share one GraphQL call; discover a repository once | fetch handlers |
| Entity store (`internal/store`) | cached rows, observation versions, dirty marks | apply, touch, tombstone | deriver, outbox |
| Branch push (`internal/store/branch.go`) | push generations, page manifest | claim generations, hint SHAs, refresh targets page by page | direct refresh |
| Derivation (`internal/derive`) | `derivation_dirty`, work items | claim scopes, load a snapshot, write items, clear marks | entity writers, watermarker |
| Outbox and watermark (`internal/outbox`, `internal/stream`) | `change_events`, `stream_watermark`, `stream_horizons` | fenced insert, publish `safe_seq`, prune | writers, consumers |
| Stream client (`pkg/streamclient`) | `consumer_cursors`, the projection | bootstrap, tail, resync | retention |
| Budget gate and tokens (`internal/budget`, `internal/gh/token.go`) | slots, reservations, observed limits, backoffs, the token | admit, sleep, observe, exchange a token, close | lease |
| Budget lease (`internal/budget/lease.go`) | `installation_budgets` | acquire, renew, save, watch expiry, drain, release | gate, other processes |
| Sweeps (`internal/sweep`) | `sweep_cursors`, `sweep_seen_keys`, `sweep_pages` | schedule stale rows; walk a listing, verify what is missing | refresh queue |
| Backfill (`internal/fetch/backfill.go`) | backfill cursors and children | page through repositories, stacks, pull requests; wait for their refreshes | refresh queue, drift |
| Drift detector (`internal/drift`) | sample cursor, `drift_findings` | sample, compare, heal, escalate, resolve | refresh workers |
| Gap healer (`internal/sweep/gap.go`) | `gap_heal_cursors` | list pages, compare, ask for redelivery, continue, restart | ingress |
| Retention (`internal/sweep/retention.go`) | payloads of deliveries | prune | dispatcher |

What makes it hard to test: sequence numbers become visible out of order;
REPEATABLE READ snapshots meet retention; River drops an insert while a job of
the same arguments runs; responses overtake each other at equal `updated_at`;
pages shift while they are walked; a validator outlives the row it stood for;
pushes arrive in reverse order and claim the work of jobs that already run;
leases expire under their holders; one call nests in another's slot; every
transaction may crash between any two statements. `PROJECT.json` lists these
hazards with the line at which each bites.

## 2. Modules

The modules hold the control of the code: every state change with its guard,
its early returns and its error paths. Data are reduced to what the properties
tell apart: a SHA is a number that grows with the remote, `updated_at` is a
stamp that may repeat, a payload is the set of intents it yields, a validator
is the representation it stands for, a deadline is the time left until it or
the fact that it has passed. `PROJECT.json` ("map") gives the source lines of
every definition; an SQL statement is mapped to its generated text in
`internal/store/dbgen`.

| Module | Models | Composition |
|---|---|---|
| `ChangeStream` | outbox writers, watermarker, retention, stream client | implements `PublishedLog` |
| `PublishedLog` | abstract: an append-only log with an in-order reader | |
| `RefreshQueue` | one pointer identity: generation, River jobs by variant, workers, orphan reconciler | |
| `WebhookIngest` | ingress, dispatcher, parking and requeue, payload retention | EXTENDS `RefreshQueue` |
| `PullRequestRefresh` | direct refresh, branch pushes with their page, stack-membership resolution, the row | EXTENDS `RefreshQueue` |
| `RepositoryRefresh` | plain and head-observing repository refresh, default-branch pushes | EXTENDS `RefreshQueue` |
| `PullRequestCache` | the rows of one pull request and its child collections against old, partial and missing responses | |
| `StackMembership` | stacks and their members, conditional requests, follow-up refreshes, branch hints, summary suppression | |
| `ConditionalListing` | check runs and repository rules: paged listings with one validator | |
| `FetchCoordinator` | shared GraphQL batches of pull-request refreshes | |
| `DiscoveryGate` | the reference-counted semaphore around repository discovery | |
| `BranchPages` | the page manifest of a push: execution, rescue, failure, finalization, healing | |
| `Derivation` | entity writers, deriver, watermarker at the fence and the row locks | |
| `StalenessSchedule` | kickoffs, spread starts and fan-outs against the staleness bound | |
| `ListingSweep` | one scope of a listing sweep: cursor, page jobs, overlap passes, missing entities | |
| `Backfill` | installation and repository cursors, page jobs, children | |
| `DriftDetector` | a sampling pass beside the refresh workers, branch pushes and their page jobs | |
| `DeliveryGap` | GitHub's list, gap-heal jobs, cursor row and lease | |
| `BudgetGate` | admission, headroom, slots, backoff, token exchange, Close, the stored snapshot and the gate restored from it, GitHub's count | |
| `BudgetLease` | the lease row, runtimes, maintenance loop, watchdog, Close, crash | |
| `MC...` | the instances TLC runs (section 3) | |
| `ChangeStreamProofs`, `JobProofs`, `PullRequestRefreshProofs`, `PassProofs`, `FetchProofs`, `CacheProofs`, `BudgetProofs`, `ReconcileProofs` | theorems (section 4) | |

How state corresponds to code:

* **ChangeStream.** `open` and `fence` are the advisory lock of
  `outbox.AcquireWriterFence` (shared) and of `Watermarker.Step` (exclusive);
  `queue` is PostgreSQL's lock queue, behind which new writers wait. `wm[p]` is
  how far process p's `Step` is and what it has read. `session[s]` is a client
  transaction with its snapshot; `stale` records that another transaction has
  updated the cursor row since, which REPEATABLE READ answers with a
  serialization failure. `committed` and `seen` are history: what was ever
  written, and what the consumer's projection reflects.
* **RefreshQueue.** `gen` and `done` are `generation` and
  `completed_generation`; `job[v]` is the state of River's unique job of
  variant v; `started[v]` is the generation the worker read when it began.
  `listed` is the orphan reconciler between its read and its re-check.
  River is modelled from its use: unique insertion, retries, discard.
* **WebhookIngest.** `ready` is the claim order of the due rows, `batch[p]` the
  rows a dispatcher's transaction has locked; one commit signals the queue and
  records all results. `signal` is history.
* **PullRequestRefresh.** `row` is the cached SHA and `updated_at`, `version`
  the entity's observation version, `page[b]` the work item of push b with the
  generation it claimed, `fetch[f]` an execution between its begin-observation,
  its request and its apply.
* **RepositoryRefresh.** The same for the repository row, with the two
  variants that share one generation.
* **PullRequestCache.** `hist` is every representation GitHub has had; one step
  is one transaction that applies any of them through any endpoint, or a 404.
  `rows` has one row for each child collection, `snap` the change snapshot.
  `reported` is history.
* **StackMembership.** `layout` is GitHub's truth, `stackRow` and `pullRow` the
  two cached views with their validators, `queued` and `running` the refresh
  jobs. `settled` and `mixed` are history.
* **ConditionalListing.** `row` holds the items, each with its validator
  (checks), `syncState` the validator of rules; `fetch[w]` is a refresh with
  the pages it has collected. `excused` is history (section 6).
* **FetchCoordinator.** `batches` are the batches made, `current` the one in the
  coordinator's map; `rank` is the order `sort.Slice` gave the members of a batch
  and `todo` those whose turn is still to come in the loop the batch is in;
  `items[i]` is what a caller has observed and whether it has committed,
  `channel[i]` what was sent to it. Other writers commit in between (`Rival`).
* **DiscoveryGate.** `table` is the map's entry for the name; dropped entries
  stay with the callers that hold them, so several semaphores can exist.
* **BranchPages.** `branch` is the `branch_reconciliations` row, `manifest` its
  pages, `executions` what each worker still has to refresh; a refresh of a
  target is one step, whose fence `PullRequestRefresh` models in detail.
* **Derivation.** `tx[w]` is an entity writer with the scopes it still has to
  mark, `pass[d]` a derivation pass with the scopes it has claimed and their
  snapshot, `rowLock` the locks of `derivation_dirty`, `fence` the advisory lock with
  its queue. A work item is the snapshot it was derived from, because
  derivation is a pure function of it.
* **StalenessSchedule.** `age` is the time since `last_checked_at`, `due` the
  time until the row's queued refresh has completed, `sinceKick` that since the
  last kickoff. A kickoff happens once a cadence, a refresh completes within
  the headroom: both are the contract's assumptions (C-R1).
* **ListingSweep.** `row`, `seen` and `pages` are the three sweep tables, `job`
  River's page jobs, unique by arguments. A validator covers the entries of a page
  and not the link to the next one: a 304 takes the link from the stored page
  (`ServedPage`). `throughout` and `removals` are history.
* **Backfill.** `cursor` is the row of the installation or of a repository,
  `jobs` River's page jobs, `child` the `backfill_children` with the generation
  each waits for. A job that has returned keeps its arguments taken until River
  records it ("finishing"); jobs of the same cursor may wait for that together, and
  a worker that dies before it runs its job again (`JobRescued`). `stable`,
  `closed`, `outrun` and the pass number of a job are history.
* **DriftDetector.** `sample` is the inspection in progress: what was sampled,
  what GitHub answered, which version was current. One entity kind stands for
  the six that the same code inspects. A change reaches the cache as a signal
  (`Deliver`) or as a branch push (`DispatchPush`), which rewrites the SHA of a row
  it matches, moves no version, leaves the generations equal and queues a page
  job (`page`) that the quiescence check does not know. `diverged` and `hinted` are
  history.
* **DeliveryGap.** `listing` is GitHub's list, newest first; deliveries may be
  listed late behind newer ones, age out of the lookback and disappear.
  `window` is the `gap_heal_cursors` row, `exec[j]` a job's memory,
  `continuation` the scheduled continuation jobs. `owed` is history.
* **BudgetGate.** `held[a]` is an admission ("slot", or "nested" in the slot of
  another call), `pool` the gate's observation, `server` GitHub's own count,
  `answer[a]` the headers on their way back. `Mint` is the exchange of an
  installation token, a call through the same gate. `saved` is the snapshot in
  `installation_budgets`, written at any time and when the gate closes;
  `NewLeased` replaces the gate, after a close or at any moment (the holder died or
  lost its lease), by one restored from `saved`. `lag` and `unseen` are history:
  the points of the running window that the snapshot, or the gate, has no count of.
* **BudgetLease.** The row, and for each process its gate (`avail`,
  `leaseLeft`, `backoff`), its maintenance loop's store call (`op`, `opLeft`) and
  its watchdog (`expiry`, `update`). `Tick` takes one unit off every deadline.
  Database and process clocks are assumed to agree; the code compares a
  process clock with a deadline the database computed.

## 3. Runs

`tlc -workers 2 -config <run>.cfg <module>` in this directory; each run takes
from seconds to about three minutes.

Components that share no state are checked in one run: the MC module extends
them (`MCService` instantiates the gate under names of its own, because it shares
names with the others), and a variable `focus`, chosen in the initial state, says which of them the behaviour is about.
`FocusNext` then allows exactly that component's steps, so the state space is the
sum of the components' and not their product.

| Run | Module | Question | Properties |
|---|---|---|---|
| `stream_safety` | MCChangeStream | Can a consumer miss or repeat an event? | NoCommitBelowSafeSeq, NoGap, ImplementsPublishedLog |
| `stream_live` | MCChangeStream | Does every committed event reach the consumer? | EventuallySeen |
| `repo_jobs` | MCRepositoryRefresh | Can the queue lose a signal or complete it early? Do follow-ups bring stacks and members in line, and is what a 304 confirms right? | OutstandingLosesWorkOnlyByDiscard, CompletionCoversOnlyItsSnapshot, EverySignalCompletes; ConfirmedIsCurrent, FollowupsComplete |
| `pull` | MCPullRequestRefresh | Does a cached pull request follow its remote, never backwards? | QuiescentIsFresh, CacheNeverRegresses, SignalsReachTheRow |
| `fetch` | MCFetch | Can two callers discover one repository, one batch answer wrongly, a push be finalized early, old responses mix with new ones, a listing be confirmed wrongly? | OneDiscovery; BlameIsLocal, SuccessIsOwn, EveryCallerIsAnswered; CompletionCoversTargets, ReconciliationCompletes; CollectionIsOneResponse, RefreshConverges, ChangesAreEmitted; ConfirmedListing |
| `derive` | MCDerivation | Can fence and row locks deadlock, a cache change be left without a mark; does the dirty set drain? | NoFenceCycle, DirtyCoversCache, DirtyIsDerived (and deadlock) |
| `reconcile` | MCReconcile | Do schedule, sweeps, backfill and drift sampling cover everything? | WithinStalenessBound; SweepSeesStableEntities, SweepsConverge; BackfillIsComplete, BackfillFinishes; FindingsAreReal, DriftIsMeasured |
| `service` | MCService | Is an acknowledged delivery served and never lost; does every call through the gate return? | AckedIsReplayable, AckedIsServed; EveryCallReturns |
| `handoff` | MCHandoff | Can two processes admit calls at once or forget a backoff; does a gap pass leave a delivery behind; do the floors hold with answers out of order and gates restored from an old snapshot? | AdmitsOnlyAsOwner, HonoursPersistedBackoff; BoundaryCovers, DeepPassCovers; HeadroomKept |
| `repo_head` | RepositoryRefresh | Does the cached default head converge? (violated, section 5) | HeadConverges |
| `sweep_overlap` | ListingSweep | Does a sweep always have its next page job? (violated) | OverlapPassIsScheduled |
| `older_response` | PullRequestCache | Is an older response discarded? (violated) | OlderResponseIsDiscarded |

Every property of a passing run has a mutated operator beside the one it
changes (`PruneWithoutHorizon`, `FinalizedEarly`, `ClaimBeforeFence`, ...), with
which the same run fails; `PROJECT.json` ("mutants") pairs them. They are
otherwise unused. The type invariants (`TypeOK`, `QueueTypeOK`, ...) are parts of
the inductive invariants that are proved.

Some liveness properties are written `[]<>(P => Q)` rather than `P ~> Q`: in each
of them the environment is bounded, so that from some point on P is stable, and
the two forms say the same of these models.

### Bounds, and why they suffice for the question

* **stream_safety**: two writers and two sequence numbers are the least with
  which a lower number commits after a higher one; page size 1 makes delivery
  take two pages; two sessions of one consumer contend for the cursor. One fault
  (a timeout, an expiry, a crash, a rollback) can fall anywhere. The theorems
  hold for any size. **stream_live**: two watermarkers, so that a lost lease
  must be taken over.
* **repo_jobs**: three generations are a signal, one that coalesces onto the
  running job and one after it; one discard; one push that claims. For the
  stacks: two stacks, two pull requests, three layouts (a member leaves, moves
  or changes position), two changes at GitHub, one refresh from outside, two
  refreshes under way at once, one push, one stack that may answer 404.
* **pull**: two pushes, of which only the second moves `updated_at`
  (`StepStamp`), give responses that timestamps cannot order. A membership
  resolution is explored with two signals and without failures
  (`MembershipBound`).
* **fetch**: three discoverers and three gate entries, so that an entry is
  dropped and made again; three callers in batches of two, two of them for
  the same pull request, one that may leave, one poisoned node, one rival
  commit of the repository with two attempts; two pushes of up to two targets
  on pages of one, and one disturbance (a direct signal, a failed target or a
  rescued job); two changes of a pull request, heard in any order through
  three endpoints; three items on pages of one, so that an item can move to a
  page that is still to be read, with versions that have no time, a time, and
  the same time with another content; three edits, two refreshes that may
  overlap, and a third with two items (`ListingBound`).
* **derive**: two writers (pull rows; stack, check and repository rows), one
  pull request that moves between its own scope and a stack's, one deriver with
  a cap of one scope, the watermarker. Deadlock is checked.
* **reconcile**: a bound of 8 gives a cadence of 6, a headroom of 1 and one unit
  to spare, the tightest integers the configuration allows, with two rows; two or
  three listed rows on pages of two with one edit and two faults, so that a page
  shifts, a full last page gets a successor or a job fails in mid-pass; two
  repositories, one of them already onboarded, one or two pull requests on pages
  of one, one edit or one dead worker during the scan (`MaxPullEdits`), and up to
  two jobs that have returned and are not recorded (`MaxUnrecorded`), the least
  with which a third pass meets a job of the first; two sampled entities, one that
  pushes rewrite (`Targets`) and one that no refresh can heal, one sample a pass,
  two changes and one failed fetch.
* **service**: two deliveries of one pointer, one of which the deployed
  classifier rejects; batches of two; two dispatchers; one upset, one queue
  fault. The gate has one slot and calls of three pools, so that a call and
  the token exchange it needs compete for it.
* **handoff**: two processes, one unit of lease and of backoff, one call in flight
  for each; each runtime persists one backoff at a time (`OneBackoff`). Pages of
  one entry, two pages a job, three listed deliveries of which one is late and
  one is lost, one that ages, so that GitHub can reject a stored cursor; two
  interchangeable jobs (symmetry), two tokens, one fault. Three gate calls, one of
  each class: the interactive one exchanges its token in the pool of the other
  two (`GatePools`); two slots, three points in a window, one fault (a holder that
  dies, a cancelled call, a 429) besides orderly closes.
* **repo_head**: two linked pushes, no failure. **sweep_overlap**: three
  entities on pages of two, no edit and no fault. **older_response**: two changes.

`CHECK_DEADLOCK FALSE` stands where the system may rest: all signals served,
all calls made, all deliveries listed.

### Fairness

Only what the deployment keeps running is fair. Remote changes, new signals,
calls, prunes, failures, crashes and lease expiry never are.

* `Fairness` (ChangeStream): transactions end; the watermarker's ticker and the
  client's Tail loop run for ever; a resync is answered with a bootstrap, as
  `streamclient` asks of its user. The exclusive fence and the cursor lock need
  strong fairness: both are lock queues in PostgreSQL, interrupted by
  transactions that end.
* `RepoFairness`, `PullFairness`, `IngestFairness`: River runs queued jobs, an
  execution's next step happens, the dispatcher polls, the orphan reconciler
  is a periodic job. A retry is River's, a discard is a bounded fault.
* `DeriveFairness`: the deriver polls, PostgreSQL grants queued locks in order,
  the watermarker's transactions end. Writers are not obliged to rest;
  `DirtyIsDerived` is conditional on it because SKIP LOCKED passes over a scope
  that is locked at each claim.
* `GateFairness`: goroutines run, GitHub answers or the call times out,
  callers close bodies, windows and backoffs end.
* ListingSweep: kickoffs are periodic jobs, River works page jobs, and the refresh
  of each entity that is queued runs (weak). Backfill: River starts and completes
  jobs (weak); a job that
  is retried again and again commits at last (strong, because `JobFails`
  disables the commit each time). DriftDetector: the periodic pass and the
  refreshes go on (weak); webhooks may stay undelivered. FetchCoordinator: timers
  fire and goroutines run. BranchPages: River runs the page jobs it holds.
* The fairness of a `focus` run is that of its components, conjoined with the
  focus they belong to.

## 4. What is proved

TLAPS checks every step of the eight proof modules. `MaxSeq`, `MaxGen`, `Bound`
and the other numbers are arbitrary naturals, the sets arbitrary; the named
assumptions say what little is asked of them, and TLC evaluates them in the
runs. None of the properties is inductive by itself. Each proof therefore has
an invariant of the name `...Inv`, which TLC checked on the instances of the
runs, and larger ones, before it was proved: it holds initially, every action
preserves it (one lemma for each), and it implies the property.

* **ChangeStreamProofs** (from `StreamNone`, `StreamMaxSeq`, `StreamMaxFaults`,
  `StreamPageSize`, `StreamPruneBatch`). A page is right only if its snapshot was
  complete. `StreamInv` adds `SeqInv`
  (numbers are issued in order and only open transactions have pending events),
  `FenceInv` (the holder of the fence excludes writers, and its target was issued
  before), `PrunedWithinHorizon`, `SnapshotOK` (a snapshot holds all events up to
  its `safe_seq`, and its cursor is current unless it is stale) and
  `OneLockPerStream`. Theorems: `StreamInvariant`, `StreamTypes`, `FenceIsSafe`,
  `HorizonIsWithinSafeSeq`, `ConsumerHasNoGap`, `CursorIsMonotonic`, and
  `StreamRefinesLog`, that ChangeStream implements
  `PublishedLog`. A publication is an Append because nothing commits at or below
  `safe_seq`; a page is a Read because it is complete; a bootstrap is a Restart;
  the rest stutters.
* **JobProofs** (from `PlainVariant`, `QueueMaxGen`, `QueueMaxFaults`,
  `IngestAttempts`, `StackConstants`). For the queue by itself (`QueueSpec`):
  `QueueInvariant`, `CompletedWithinIssuedHolds`, `WorkLostOnlyByDiscard`,
  `CompletionCoversSnapshot`;
  the run `repo_jobs` checks the last two in composition. For ingestion:
  `AcknowledgedStaysReplayable`. `IngestInv` says that a row has its payload
  until it is processed, that a claim holds pending rows and no other claim
  holds them, and that what is about to be answered has a row: so neither a
  prune between claim and commit nor a requeue can leave an acknowledged
  delivery without its payload. `IngestImplementsQueue`: every step of the
  composition is a step of `RefreshQueue` or a stutter, so the theorems about
  the queue hold behind the dispatchers. For the stacks: `ValidatorsStandForRows`.
  `MembershipInv` says that a row with a validator is live and is what GitHub
  answered with it (`StackOK`, `PullOK`), that no row is newer than GitHub, and
  that a response which was not overtaken is no older than the row, and finds
  the validator it was asked with still stored if it is a 304.
* **PullRequestRefreshProofs** (from `PullMaxRemote`, `PullStamp` and the queue's
  assumptions): `RowNeverRegresses` and `RestShowsTheLastSignal`. `PullInv` orders
  the generation row and the direct job (`QueueInOrder`), the pages and the
  generations they claimed (`PagesInOrder`), what each execution has observed and
  fetched (`FetchesInOrder`) and the row (`RowInOrder`); `Fresh`, which needs that
  no membership resolution has interfered, says that an execution whose fence
  and observation still hold has fetched nothing older than the row, and that
  whoever may still write after a signal has fetched since. The fence alone does
  not suffice, nor does the observation version: the proof of each apply uses
  both. `PullImplementsQueue` is the refinement of the queue.
* **PassProofs** (from `DeriveProcesses`, `GapConstants`):
    * `DirtyMarksCoverTheCache`. `DeriveInv` says that a pass holds the row locks
      of the marks it has claimed (`ClaimsAreLocked`), that a writer which has
      written its row waits for, or holds, the mark of every scope the change is
      visible in (`WritesAreMarked`), that one writer at a time is at an entity,
      and that the snapshot of a pass is current when it commits
      (`SnapshotsAreCurrent`).
    * `FenceComesFirst`, no deriver and no watermarker in a cycle of waiting
      transactions. `FenceInv` says that a process is at the fence once, holding
      it or at one place of the queue (`FenceIsOrderly`), and that row locks are
      held and waited for by holders of the fence only (`LocksUnderFence`). What a
      process waits for then lies in the holders and the places before its own,
      a set that nobody in it waits out of; `NoFenceCycle` names that set instead
      of a chain of processes, so no induction is needed.
    * `BoundaryIsCovered` and `DeepPassesCover`, for the gap healer. `GapInv` says
      that deliveries have one place each and the aged ones the last
      (`ListingOK`), that a window has taken care of everything between its
      newest delivery and its cursor (`WindowOK`), and that the page of each
      execution, also of one that has lost its window, holds what was listed
      after the cursor it asked with, or leaves it to the pages after it
      (`ExecOK`). `OwedOK` is the same for what a deep pass owes.
* **FetchProofs** (from `MaxEntriesIsNat`, `BranchConstants`, `CoordinatorConstants`):
    * `DiscoveryIsExclusive`, one caller at a time discovers a repository, and
      `EntriesAreDropped`, an entry is in the map only while somebody refers to
      it. `GateInv` says that all callers in the gate hold the same entry, the
      one in the map, and that `refs` and `owner` are who is where.
    * `CompletedMeansCovered`. `BranchInv` says that an execution that has not
      failed has covered the targets it left behind (`ProgressIsCovered`), that
      a completed page is covered, and that the row is complete only with all
      its pages; a target is covered when it was refreshed since the push or a
      newer signal is on its way for it, which is what the fence turns away.
    * `FailuresAreLocal` and `SuccessesAreOwn`. `CoordinatorInv` says that a caller
      is in one batch until it is answered, that the version of a pull request
      nobody else is after moves only with its caller's commit, so that its
      observation is still current when its turn comes (`CallerOK`,
      `HealthyCommits`), that each attempt at the repository has met another
      commit of it (`AttemptsMeetCommits`), and that the outcome kept for a pull
      request is that of a member whose turn was (`OutcomesAreOwn`).
* **CacheProofs** (from `ListingAssumption`):
    * `CollectionsAreOneResponse`, `RefreshesConverge` and
      `VisibleChangesAreEmitted`, for the rows of one pull request. `CacheInv` says
      that no representation GitHub has had, and nothing in the cache, is newer
      than the last one (`HistoryGrows`, `CacheNotAhead`), and that each guarded
      row is the one its last accepted response asks for (`RowsAreReported`).
      `Replaces` states what each of the six collection queries may do to a row.
    * `ValidatorStandsForRows` and `ListingsAreAccounted`, for check runs and rules.
      `ListingInv` says that all known check runs have the same validator, that
      the pages a refresh has collected contain the first page that its
      validator names, that the rows are those the stored validator stands for,
      and that a refresh that was not overtaken read the validator that is still
      stored. A 304 is answered with the validator that was read and not with
      the one that is stored: that is why the last part is needed.
* **BudgetProofs** (from `LeaseConstants`, `GateConstants`):
    * `LeaseInvariant`, `OnlyOwnerAdmits`, `PersistedBackoffIsHonoured` and
      `StoredBackoffIsOnlyRaised`. `LeaseInv` says that every deadline a runtime
      may come to rely on, in its gate or in a renewal still on its way back, is
      covered by the row (`ClaimOK`), that a gate is open only in a running
      runtime (`PhaseOK`) and that the owner's backoff covers the row's and all
      that are being written (`BackoffOK`).
    * `FloorsAreKept`. `GateInv` says that an admitted call has its admission until
      it is over (`AdmissionsAreHeld`), and that what the gate believes to be left
      is within what GitHub has left, the points taken unseen and the answers on
      their way. The gate takes the least of the readings of a window, and
      answers arrive in any order: `WithinCount` therefore speaks of every set of
      answers that may arrive next. `StoredInv` says the same of the stored
      snapshot and its `lag`, so that a gate restored from it, with the calls of the
      dead holder gone and their requests perhaps still arriving, satisfies
      `GateInv` again (`TakeoverStep`).
* **ReconcileProofs** (from `ScheduleAssumption`, the validation of the
  configuration, `SweepConstants` and `DriftConstants`):
    * `StalenessIsBounded`, C-R1 for every bound and every set of rows. A row is
      safe either because its job completes in time or because the next kickoff
      still finds it young enough to start at once (`ScheduleInv`);
      `SpreadMeetsDeadline` and `InsertOnlyExpedites` are the two facts of the
      code it rests on.
    * `StableEntitiesAreSeen`. A page is a range of places in the listing, and an
      addition moves entries towards the end only, where the pass meets them.
      `SweepInv` says that what the pass has not seen has its place on the page
      just fetched or on one still to be asked for (`Ahead`), or that a removal
      has spoiled this pass and the sweep owes another one (`SweepWillSee`).
      `LinkedPages` says that a stored page links to the next one or to none: a
      304 therefore serves the current entries, and what its old link can hide is
      what lies behind a page it calls the last (`ServedKeepsAhead`).
    * `OnlyDriftIsReported`. Versions of a row only grow, so one that is reread
      with the sampled version was not written since GitHub was asked, by a
      refresh or a page job (`PassIsPast`, `SampleInv`). A push moves no version;
      the invariant follows the row up to the first push that rewrites it
      (`hinted`), and an earlier push does no harm, since the reread sees it.

Where a proof needs the least or the greatest of a set of numbers (the next
place in a listing, the newest member of a stack), it takes a minimal element by
`WFMin` of the library (`HasLeast`), which needs no induction of its own.

A leaf that says `Zenon` needs no arithmetic; the others are left to the SMT
solver.

Only model-checked:

* the liveness properties `EventuallySeen`, `EverySignalCompletes`,
  `SignalsReachTheRow`, `EveryCallerIsAnswered`, `ReconciliationCompletes`,
  `DirtyIsDerived`, `SweepsConverge`, `BackfillFinishes`, `DriftIsMeasured`,
  `AckedIsServed` and `EveryCallReturns`: they rest on fairness, which the prover
  does not treat;
* `BackfillIsComplete`: its invariant has to follow the scan of each repository,
  as `SweepInv` does, through River's page jobs, the cursors of two levels and the
  children at once; no proof of it is kept here;
* `FollowupsComplete`: whether the chain of follow-ups reaches every row depends
  on how successive layouts of the stacks overlap; it is checked for those of
  the run, and no invariant for arbitrary ones has been written.

## 5. Defects the model shows

* **`repo_head`** ends in a violation of `HeadConverges`. Two linked default-branch
  pushes are dispatched in reverse order while the head-observing job of the
  first dispatch is running. The second push claims the repository's generation
  (bumps and completes it) and inserts its own head-observing job, which River
  drops because one is running. That job's write is refused as overtaken, and its
  completion inserts no follow-up, since no generation is outstanding. The system
  is idle with the cached head one push behind, although
  `src/internal/dispatch/dispatcher.go:465-469` says that one observation "closes
  that gap".
* **`sweep_overlap`** ends in a violation of `OverlapPassIsScheduled`. When a pull-request
  listing fits one page, the page job that restarts the pass inserts a job with
  its own arguments, cursor "1", while it is running; River drops the insert.
  The overlap pass that `sweep/sweep_db_test.go:659` says is scheduled starts only
  with the next kickoff, which resumes the row (`SweepsConverge` holds because of
  it). Backfill avoids the same trap with an alternating bit
  (`fetch/backfill.go:410-411`), and `BackfillFinishes` fails without it.
* **`older_response`** ends in a violation of `OlderResponseIsDiscarded`. C-C2
  (`SYNC_ENGINE.md:133-135`) says that a write older than the stored version is
  discarded. The parent row and the guarded collections refuse an older
  response, but `ReplaceReviewThreads` compares no version of the pull
  request, so `applyPullRequest` replaces the threads by older ones.
  `CollectionIsOneResponse` is what holds of the guarded collections, and
  `RefreshConverges` says that the next full refresh repairs all of them.

## 6. Known divergences, read from the code

The models leave these behaviours in, except where it says otherwise, and the
properties are stated around them.

* `SYNC_ENGINE.md:164` says a page target that loses an observation conflict lost
  to newer truth. A stack-membership resolution (`fetch/handler.go:411`) is not
  fenced by the pull request's generation: it may have fetched before the push,
  overwrite the push's hint and make the page give up
  (`store/observation.go:297`). The properties of `pull` except behaviours with
  a resolution.
* The repository row for a 304 is read (`fetch/handler.go:157`) before the
  observation version is taken (171), so a commit between the two is undone
  when the saved row is written back (C-C2). The rules refresh has the same
  order (`fetch/handler.go:287` and 291) for the validator.
* Check runs are read page by page, so an item can be heard on two pages, in two
  versions. `ReplaceCheckRuns` is one INSERT ... ON CONFLICT and fails when it
  would affect the row twice (`ApplyChecksFails`): the job is tried again. Where
  only the last entry is accepted it succeeds, with a validator that stands for
  the other version.
* A 404 for a check listing is applied with an empty validator. A row that was
  tombstoned before keeps its old one, and `GetCheckRunsFetchMetadata` takes the
  validator of the lowest ID: a later 304 can confirm tombstoned rows.
  `ConfirmedListing` sets this, an item heard in two versions and the order of
  the rules refresh aside (`excused`).
* A 304 for the first page of check runs confirms all pages. An item on a later
  page that changes in place, with the same total count, is not seen.
  `ConfirmedListing` speaks of the first page, and of all rows only where there
  is no other.
* `ApplyChecksObserved` resolves the scopes to mark (`store/checks.go:119`) before
  a pull-request write moves the pull request to another scope; the new scope
  can be derived before the checks commit and then keeps no mark. The work item
  of the model has no checks, so `DirtyCoversCache` does not see it.
* A token exchange runs under `context.WithoutCancel` (`gh/token.go:172`) inside
  the slot of a call that may be cancelled and return the slot, so that one more
  request than the ceiling (C-B6) can be under way. The call that started the
  exchange can also leave before the exchange is admitted; callers that joined
  then hold all slots and wait for it until its thirty seconds are over.
  `EveryCallReturns` holds because of that timeout.
* When River runs a gap continuation job twice and the second execution restarts
  the window under the continuation's own token, the first execution can complete
  the restarted deep pass, because cursor and token are equal again. The
  obligation `owed` is dropped for such a window (`SharesToken`).
* The validator of a listing page is compared by GitHub with the page's body; the
  link to the next page is a header. When entries are added behind a full last
  page, that page is still answered 304, and `sweep/reconcile.go:236` takes the
  stored link, "no next page": the sweep completes without the new entries, and so
  does every later one until the page itself changes. `SweepSeesStableEntities`
  sets the entries such a 304 hid from the sweep aside (`BehindOldEnd`), and
  `SweepsConverge` those that are hidden now (`hidden`); both claim everything else.
* The pass bit of a backfill cursor repeats every second pass
  (`fetch/backfill.go:408-413`): a page job whose completion River has not recorded
  when the pass after the next inserts the same arguments swallows that insert, and
  nothing moves the backfill on but a new start from the CLI. `BackfillFinishes`
  excepts a backfill that was outrun in this way, and only that.
* A branch push that rewrites a row between the drift detector's read of GitHub
  and its transaction is noticed by none of the rechecks: `last_checked_at` and the
  observation version stay (`dbgen/branch.sql.go:145-242`), the generations are
  advanced together (70-86), and the arguments of the page job have no key
  (`queue/refresh.go:266-273`). The row then differs from the older answer and a
  false finding is recorded (`drift/drift.go:491`) with a heal that the next pass
  resolves. `FindingsAreReal` excepts exactly that inspection.
* A gate restored after a crash believes the snapshot, which is up to thirty
  seconds old (`budget/lease.go:24`): it can admit background calls into the floor
  (C-B3) by as many points as the dead holder spent since. `HeadroomKept` counts
  them in `unseen`; a gate that closes stores its last observations, and nothing is
  lost but the answers that never came.
* The overlap pass of sweeps and backfills is good for one removal: two
  removals, in two passes, can hide the same entity twice. The next sweep finds
  it. `SweepSeesStableEntities` and `BackfillIsComplete` say so (`removals <= 1`).
* A page that was fetched for a cursor row which is reaped and made again
  meanwhile is taken by the new sweep, although it is older than that sweep.
  `SweepSeesStableEntities` claims nothing of such a sweep (`Vouched`).
* A repository page job that is discarded in phase "waiting" is not inserted
  again, so the backfill does not resume by itself (C-O5). `BackfillFinishes`
  assumes that retries end in a commit.
* `sweep/sweep.go:199-201` speaks of a further 5% safety margin; `dueBefore`
  subtracts cadence and headroom only, so the margin is the age from which a
  row is due, not a reserve. `WithinStalenessBound` holds with it.
* A change of the stacks amid refreshes (a member leaves and joins again), or an
  entity that answers 404, can cut the chain of follow-ups. `FollowupsComplete`
  excepts both; the sweeps are the floor (`SYNC_ENGINE.md:58-59`).
* After a branch hint has moved `head_sha`, the refresh of the pull request
  finds old and new head equal and enqueues no refresh of checks
  (`fetch/handler.go:1240`).
* In a batch with the same pull request twice, the node is found for one of the
  two; the other is told that the batch omitted it and is retried by River.
  Which one depends on `sort.Slice`, which is not stable beyond twelve items.
* A sample that fails permanently stops the drift pass at its kind; a row that
  is tombstoned while it has an open finding leaves the finding open.
* A tombstone of a pull request leaves its review threads live.

## 7. Abstractions

* One pointer identity, one pull request, one repository, one consumer name:
  the rows of different identities do not meet in the protocols modelled.
  StackMembership is where several meet.
* The classifier is the set of deliveries that yield the intent. Conversion of
  GitHub's nodes to rows is what the comparisons look at: SHA, `updated_at`,
  ETag, membership, and which collections an endpoint knows.
* A refresh is one step in ListingSweep, Backfill and BranchPages, and three in
  DriftDetector; PullRequestRefresh and RepositoryRefresh model it in full.
* An answer costs zero or one point, the amount the gate reserves.
* River's rescue of a job whose worker still runs is modelled for branch pages,
  which hold no pointer lock; for refreshes the per-pointer lock excludes it. In
  Backfill the rescued job is one whose worker died.
* The stacks listing of a backfill has one page, so that a step of the stacks
  phase to its next page is not taken; the pull-request listing takes the same
  step, with more to get wrong.
* FetchCoordinator leaves out the deadline that the callers of a batch share and
  the errors of the repository's transaction that are no conflict: both fail
  the callers of the batch together, for a reason none of them causes, and River
  retries them.
* A gap-heal kickoff has a token of its own. River's retry of a failed kickoff
  under the same token appears only as a continuation that runs twice.
* Derivation has no writer for branch hints (`dbgen/branch.sql.go:134-303`, called
  under the fence from `dispatch/dispatcher.go:392-417`). It rewrites SHAs and marks
  the scopes of the rows in the same statement; what keeps it apart from the writer
  of an entity is the lock of the entity's row and not the advisory lock.
* The lease in BudgetLease and the gate in BudgetGate are not composed: the second
  takes from the first that there is one gate at a time, and lets it be replaced
  at any moment. Of the backoffs, a replaced gate keeps any subset.
* The fairness of the deriver and of the dispatcher is that of a process which is
  started again when its loop returns an error (`derive/derive.go:351-356`,
  `dispatch/dispatcher.go:159-161`).
* DriftDetector starts from a cache in line with GitHub.

## 8. Not modelled

* Change-input hydration and CODEOWNERS: the code parses, hashes and asks a
  library for matches. PullRequestCache has their result (files and owners).
* The rules that turn a snapshot into work items: a pure function; a work item
  is the snapshot it came from.
* Registration of workers and periodic jobs (`sweep.go`): wiring; the jobs are the
  kickoffs of StalenessSchedule, ListingSweep, DeliveryGap and DriftDetector.
* The GitHub client's request building, decoding and signatures; configuration,
  connection set-up and migrations; metrics, tracing and heartbeats, on which
  no decision depends.
* The example API, `stream-tail` and the test tools (`fakegithub`, `replay`,
  `loadgen`, `ghrecord`, `conformance`): consumers and substitutes of the system.
* Clock skew between database and processes (section 2, BudgetLease).
