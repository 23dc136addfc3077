# A TLA+ verification of trw-memory

trw-memory is a memory store for agents: rows in SQLite with vectors beside them, a tier mirror of
recently used rows, a background graph, a sync with a remote platform, and a per-user loopback daemon
that serves all of it to MCP clients. This directory models it in TLA+, checks the models with TLC on
small instances, and proves the safety of eighteen of them (the rows under the tools and their review, the
store lock, the registry of live stores, the recovery of a store file, the graph pool, the write lane, the retry queue, the daemons and
their clients, the revisions of the sync, the paged push, the events of the platform, the YAML files, the
import of a checkout, the team namespaces, the cache of embedding providers, the moves of namespaces, the
maintenance) for every instance with TLAPS. `PROJECT.json` lists the components, runs, mutants, hazards,
findings, theorems, and, for every definition, the source lines it stands for. Paths below are relative to
`src/src/trw_memory/`.

    tlc -config MCStoreLock.cfg MCStoreLock     # a run: its module and its configuration
    tlapm StoreLockProofs.tla                   # the proofs about a module

## 1. The system

### Components, state and operations

| Component | State | Operations |
|---|---|---|
| Store lock, `_store_lock.py` | per process: one descriptor on `<db>.oplock`, counts of users, shares and opens, the exclusive hold, the kernel lock it asked for; per context: owned holds | acquire with a deadline, release, deferred release by a finalizer, descriptor sweep |
| Live store registry, `_live_stores.py` | connections per inode, leases of plain readers, parked and deferred descriptors, read locks | connect, close, finalize, admit and close a reader, read lock |
| Graph pool, `_graph_worker_pool.py`, `_graph_threads.py` | worker per store, its queue, per-owner counts, abandonment marks | submit, take, retire, die, close with deadline, stop at exit |
| Graph, `graph.py`, `_graph_*.py` | edges, validation counts; in memory, a namespace's vectors and sibling stores' | enrich, backfill, cross-validate, decay, walk, cluster |
| Storage engine, `storage/` | rows, vectors, full text, tag and anchor postings, edges, tombstones; or one YAML file per row | store, store many, update, delete, purge, list, search, sweep, open, migrate |
| Store recovery, `storage/_recovery.py`, `_snapshot.py`, `_schema*.py` | marker, rotated backups, verdict, snapshots, schema version | rotate, salvage, rebuild, refuse, resume, snapshot, restore, migrate |
| Row tools, `tools/*.py`, `lifecycle/correction.py`, `consolidation` | none of their own: they prepare off the lane and commit on it | store, update, forget, recall, re-embed, consolidate, correct |
| Retrieval, `retrieval/`, `tools/recall.py`, `client.py` | none | acquire, rank, fuse, re-rank, supplement, filter, answer |
| Tiers, `lifecycle/tiers/` | hot copies per process, one warm sidecar file and its parse, cold archive | mirror, demote, seed, search, archive, promote, forget |
| Maintenance, `tools/maintain.py`, `_maintain_sweep.py`, `lifecycle/verification_pass.py` | stamp, resumable sweep, daily snapshots | decay, verify in slices, snapshot |
| Deduplication, `lifecycle/dedup.py` | none | check one entry, go over a list |
| Quarantine and audit, `security/` | quarantine store, review log, ledger; hash-chained log, write windows | hold, approve, reject, forget; append, compact, charge, refund |
| Namespaces, `namespaces/` | registry rows, progress of moves | rename, merge; ensure, promote, complete, expire |
| Checkout import, `tools/checkout_import.py` | a private copy | copy, compare, merge |
| Sync out: `sync/delta.py`, `retry_queue.py` | `sync_seq`, `sync_hash`, `last_synced_at`, remote ids; a JSONL file | publish, acknowledge, page, mark; enqueue, drain, clear |
| Sync in: `sync/subscriber.py`, `_client_sse.py`, `_client_org_shared.py` | the listener's connection, cached events, pending retirements | listen, stop, fetch, screen, retire |
| Embedding providers, `embeddings/_provider_cache.py` | providers per model, pending builds, policy stamp | ask, build, publish, wait, reset |
| Write lane, `daemon/_lane.py`, `_offload.py` | queue, time served per tenant, running job, a one-thread executor | submit, dispatch, cancel, drain |
| Daemon lifecycle, `daemon/_instance.py`, `_serve.py`, `_drain.py` | discovery record, drain key, a door and the calls inside | claim, publish, serve, drain, exit |
| Daemon client, `daemon/client.py`, `_upgrade.py`, `_spawn.py` | the daemon it is attached to | attach, spawn, call, retry, replace |

### How they interact

A tool call enters through the daemon (client, discovery record, door), is authorized, and runs either
in a worker thread or as a job of the write lane. Either way it opens a backend: that takes an `open`
hold of the store lock and is counted in the live store registry, both of which live for as long as the
connection does. A write stores row and vector in one transaction, hands the graph pool a job that will
open the store again in a worker thread, mirrors the row into the tiers and, in the SDK, publishes it
in the background; a publish that fails goes to the retry queue. Recovery, import, migration and
snapshots take exclusive or quiescing holds. The store lock and the registry share one further thing:
closing *any* descriptor of a file drops *all* POSIX locks the process has on it.

### What is hard here, and what correctness means

* **Store lock** - counts, a descriptor and a kernel lock have to agree while threads, processes,
  finalizers and crashes interleave. Correct: incompatible operations are never inside together; the
  lock a hold relies on is in the kernel's table; every acquire ends.
* **Registry** - no descriptor is closed on an inode with a live connection; a connect waits, but ends.
* **Graph pool** - one writer per store across retirement and death; after `close()` nothing starts;
  every handle finishes.
* **Rows** - work is prepared off the lane from a row that others may change before the write. Correct:
  no vector beside another text, nothing forgotten or retired comes back, merges are whole.
* **Sync out** - answers arrive late, twice, out of order or not at all. Correct: a row is clean only if its
  present text was accepted; no queued record is lost or tried for ever.
* **Lane** - a lost wakeup, a starving tenant, a drain that drops what runs.
* **Daemon** - crashes, reused pids, drains and upgrades. Correct: one daemon accepts calls, its record
  survives slow predecessors, a drain costs nobody a call, a call is not applied twice.
* **Tables** - a write touches up to seven tables, by processes that lack some of the extensions. Correct:
  each index answers what a scan of the rows would.
* **Recovery, migration, snapshots** - a kill between two renames; another process that opens in between.
  Correct: no committed row is lost.
* **Tiers, files, audit log** - copies and caches of files that several processes append to and replace.
  Correct: no update is lost, no text comes back, no record disappears.
* **Long operations** - rename, merge, import, sweeps and enrichment give way between batches. Correct: each
  ends in what its uninterrupted run would have made, or says that it did not; nobody's row is overwritten.
* **Answers** - a recall goes through some fifteen stages that each cut, add or reorder. Correct: the answer
  has every row it owes, in the order its scores give, and none it must not show.

`PROJECT.json` lists 40 such hazards with their lines and the properties that would catch each.

## 2. The modules

| Module | Models | Run |
|---|---|---|
| `StoreAccess` | the abstract promise of the store lock | (refined in `store_lock`) |
| `StoreLock`, `MCStoreLock` | `_store_lock.py` | `store_lock` |
| `StoreLockProofs`, `GraphPoolProofs` | theorems of the module each is named after | |
| `LiveStoresProofs` | theorems of `LiveStores` and `StoreRecovery` | |
| `RetryQueueProofs`, `SyncRowsProofs` | theorems of `RetryQueue` and `PushCycle`, of `SyncRows` and `RemoteEvents` | |
| `RowsProofs` | theorems of `MemoryRows` and `Review` | |
| `DaemonProofs` | theorems of `DaemonService`, `DaemonLane`, `Namespaces`, `Maintenance` | |
| `StoresProofs` | theorems of `YamlStore`, `CheckoutImport`, `TeamSpaces`, `EmbedCache` | |
| `LiveStores`, `MCLiveStores` | `_live_stores.py` | `live_stores` |
| `GraphPool`, `MCGraphPool` | `_graph_worker_pool.py`, `_graph_threads.py`, `close_client` | `graph_pool` |
| `RetryQueue`, `MCRetryQueue` | `sync/retry_queue.py` | `retry_queue` |
| `PushCycle` | the daemon's paged push | `push_cycle` |
| `DaemonLane` | the write lane on its executor, and its shutdown | `daemon_lane` |
| `DaemonService`, `MCDaemonService` | daemon processes, record, drain, clients | `daemon_service` |
| `StoreRecovery` | opens, recovery, migration, snapshot and restore of a store file | `openings` |
| `RemoteEvents` | the event stream, shared rows and retirements | `openings` |
| `Ranking`, `Recall` | `retrieval/`, and one recall by the SDK or the tool around it | `library` |
| `Tiers` | `lifecycle/tiers/` | `library`, `tiers_forget` |
| `Namespaces` | `namespaces/curate.py` and its tools | `library` |
| `Maintenance` | `memory_maintain`, `memory_verify`, decay, snapshots | `library` |
| `MemoryRows` | store, update, forget, consolidate, recall, re-embed over rows, vectors, mirror | `rows` |
| `SyncRows` | the SDK's publishes, acknowledgements and retry drain | `openings` |
| `Review` | quarantine, review and ledger of one id | `rows` |
| `GraphEnrich` | enrichment, backfill, cross-project validation | `rows` |
| `Dedup` | `lifecycle/dedup.py` | `rows` |
| `SqliteStore` | the tables under every write, the open, schema 5 | `stores` |
| `PagedReads` | limited reads, full-text pages, sweeps | `stores` |
| `AuditTrail` | write intake, rate limit, audit log | `stores` |
| `YamlStore` | `storage/yaml_backend.py` | `stores` |
| `CheckoutImport` | `memory_import_checkout` | `stores` |
| `GraphIndex`, `GraphWalk` | the vector index in memory; walks and clusters | `stores` |
| `EmbedCache` | `embeddings/_provider_cache.py` and the load | `stores` |
| `TeamSpaces` | a team namespace from first row to expiry | `stores` |
| `MCOpenings`, `MCLibrary`, `MCRows`, `MCStores` | small instances of the above | as named |

What one action is differs by module and follows the code's own atomicity: one section under the
module's lock (`StoreLock`, `LiveStores`, `GraphPool`, `DaemonLane`, `EmbedCache`), one section under a
file's lock (`RetryQueue`, `AuditTrail`, `YamlStore`, `Tiers`), one SQLite transaction or one statement
outside any (`MemoryRows`, `SyncRows`, `PushCycle`, `SqliteStore`, `PagedReads`, `GraphIndex`,
`GraphEnrich`, `GraphWalk`, `Review`, `Namespaces`, `TeamSpaces`), one file operation, message or wait
(`StoreRecovery`, `CheckoutImport`, `DaemonService`, `RemoteEvents`, `Maintenance`). `Ranking`, `Recall`
and `Dedup` are mostly functions of the rows they are given; in `Recall` a behaviour chooses the rows and
one step answers them, stage by stage of the pipeline.

The modules `MCOpenings`, `MCLibrary`, `MCRows` and `MCStores` put several modules side by side that
share no state: they extend those that have theorems, so that their assumptions are evaluated, and
instantiate most of the others. The initial state chooses one (`part`), and only that one moves while the variables of
the others rest at a fixed value; an invariant of a part is stated as `part = "..." => ...`, or is one that
the fixed value satisfies. So a run of
theirs checks each instance completely, one after the other, not their product.

### StoreLock

The registry `_FILES` is a family of functions on processes (`users`, `shared`, `opens`, `exclusive`,
`kernel`), `_QUEUE` is `queue`, `_OWNED` is `owned`. `klock` is the kernel's side: the lock it really
has for each process. A hold goes idle, pinned (`_pin`), held (`_acquire_locked`, one `Attempt` per
poll), sweeping (`_release_locked` done, `_sweep` to come), idle; a refused or timed out acquire goes
through `Fail` and `Unpin`. `ReleaseSoon` is a finalizer that finds `_R` taken and queues; `Drain` is
whoever next gets the lock. `CopyContext` is `contextvars`: a thread or task started with a copy of a
context takes part in its holds. `LeaseReader` and `CloseReader` are the other descriptors on the lock
file, whose close would drop the process's lock. `Crash` returns everything of a process to zero.

### LiveStores, GraphPool

`LiveStores` has inodes of stores and sidecars; `klocks` is what the kernel has for this process.
`AfterClose` is what POSIX does at a close, `Connected` and `SQLiteDrops` what SQLite's unix VFS does, all
external. A file replaced between a check and an open shows as a reader that opens another inode than it
checked. In `GraphPool`, `wpc` follows a worker through its loop. `Submit` finds a registered worker,
`SubmitCreating` replaces one that is gone or retires an idle one at the cap, `SubmitRefused` is a pool
that is stopping. `Die` is any exception that leaves `_run`. `BeginClose`, `Drained` and `Abandon` are
`close_client`.

### StoreRecovery

A store file has rows in its pages and rows committed to the `-wal` beside it; backups, marker, verdict
and snapshots are files with names and times. Processes open the store under the lock that `StoreLock`
promises: an open finds it missing, sound, old, busy, damaged or under somebody's marker, and salvages,
rotates (the store, then its `-wal`), rebuilds from the cold tier, refuses with a verdict, resumes a
recovery, or migrates with a copy first. A kill may come between any two file operations. Pruning
leaves the newest backups there is `room` for: `corrupt_backup_keep` less the backups with names of before the
rotation, which count against it and are never pruned. The insert of a salvaged row may fail. Eight windows in
which the code itself leaves a store in a state it cannot mend have names (`torn`, `unrecorded`, `stale`,
`late`, `remarked`, `another`, `pruned`, `dropped`) and `StoreRecovers` excepts exactly them; section 5 says what
they are.

### MemoryRows, SyncRows, Review, GraphEnrich, Dedup

`MemoryRows` has `rows`, `vec` and `tier` per id; a job carries the rows and vector records it read
(`seen`, `records`) from step to step. A text is the pair of jobs that wrote its summary and its detail;
`by`, the last writer, stands for the rest of the row, so equality of two rows is equality of
`revision_of`. Jobs off the lane (`memory_store`, `memory_recall`, `memory_reembed`, the search of a
consolidation) interleave freely; jobs on it (`memory_update`, `memory_forget`, `_write_cluster`) exclude
each other through `lane`. `MergeFails` and `UpdateFails` are the lane's statement deadline.

`SyncRows` has one row (rows do not interact), the background publishes of its revisions, and a drain; a
text stands for its `sync_hash`. `Review` has one id in the quarantine store, the log, the ledger and the
active store: a hold, an approval, a rejection and a forget are each several commits with a kill between
any two. `GraphEnrich` follows a pass from the row it was told of, over the `CANDIDATE_LIMIT` most recently updated
candidates, edges and the sibling store's cached vectors, to the merge of a match under both stores' locks. `Dedup` checks an incoming entry
and goes over a list pair by pair; cosines are integers in thousandths, so the boundaries of the skip and
merge bands are met exactly; a merge writes into the survivor, so its cosines may be others afterwards.

### SqliteStore, PagedReads, YamlStore, AuditTrail

`SqliteStore` has the whole of the tables in `db` and every write as what it makes of them; a process
without `sqlite-vec` or FTS5 leaves an index behind: `unindexed` and `stray` are the keys it missed, and `orphans`
the edges that were filed to a row already gone. `PagedReads` has a
read in progress, its cursor and the SELECTs it has made; a place of the read's order may be empty, good,
undecodable, refused by the filter, or blocked by the ledger. `YamlStore` has a file per id and the calls
in progress; only an update takes the file's lock. `AuditTrail` has the log as a sequence of records whose
hash is the sequence under them, the cached heads of two processes, compaction with its manifest, and the
minute windows of the rate limit, each charge with the clock that it read before it waited for the file's lock.

### Tiers, Namespaces, TeamSpaces, Maintenance

`Tiers` has rows, each process's hot copies in order of use, the lines of the sidecar file (whole, torn or
fused) with the parse each process keeps, and the archive. `Namespaces` has a move's progress in memory and
on disk, the keyset cursor, and tenants who write, delete and link between two batches; the command
line's move over two files commits one after the other. `lastStamp` is the clock of the rows' stamps,
`torn` a progress file that a kill or a failed write left unreadable, and `RemoveFile` the operator who
takes it away; one bound, `MAX_MOVE_KILLS`, counts kills and failed writes. `TeamSpaces` has a team's rows, the project's
copies of them, the registry's lifecycle and a clock in hours. `Maintenance` has the stamp file, the sweep
that a later call resumes, a checkout that moves, other hands' writes between a page and its verdicts, and
the daily snapshots with their restore.

### CheckoutImport, GraphIndex, GraphWalk, EmbedCache, RemoteEvents, Recall

`CheckoutImport` has the checkout's file as two halves of a version, written in place or through a `-wal`,
while it is copied; then the comparison off the lane and the merge on it. `GraphIndex` is the incremental
refresh: token, feed, proofs and vectors are read one after the other while anybody writes. `GraphWalk`
is the breadth-first walk by pages under its two budgets, against the rows in reach by distance. `EmbedCache` has a stack of at most two calls per thread. `RemoteEvents` has the
listening thread line by line and, beside it, recalls that take the pending retirements, apply, fetch,
screen and answer. `Ranking` states each stage of the pipeline once; `Recall` composes them as
`client.py` and `tools/recall.py` do.

### RetryQueue, PushCycle, DaemonLane, DaemonService

`RetryQueue` has the file as a sequence of lines. A drain snapshots, publishes record by record without
the file lock, and writes back what it keeps followed by what arrived. `Interrupt` is a crash or an
unexpected error in between, `Tear` a damaged line. `PushCycle` has the page cursor over
`(sync_seq, id)` and the external client that pages, sends, marks and goes on; an `Edit` numbers from the row, a
`StoreWrite` from the copy its writer read.

In `DaemonLane`, `stage` follows the job in `_running`: picked by a dispatch, its executor looked up,
handed to it, started, ended. `calls` counts dispatches on their way, which submit and release make
outside the lock. Time appears only as the ranking sees it: `served` is the order in which tenants were
last served, `Age` marks a background job that waited `AGING_SECONDS`. The shutdown goes through the five
steps of `_serve.py` in their order. In `DaemonService` a process is a pid and an OS start, so a pid can be
reused; `disc` and `key` are the two files. A daemon claims, publishes, listens, drains or idles out,
finishes its calls and releases; a client attaches, spawns and polls, or replaces an older daemon, calls,
reads `tools/list` after the answer where it would, and retries. Every deadline may pass at any moment it
is waited for.

## 3. The runs

Every passing run ends with no error, its state space searched completely; every property of it has a
mutant in `PROJECT.json`, a plausible bug of the code that TLC then finds.

| Run | Bounds | Shows |
|---|---|---|
| `store_lock` | 2 processes, 3 contexts (2 share a process), 5 holds: two opens, recover, import, serve; 27,016 states | `ExclusiveAlone`, `QuiescingAlone`, `KernelBacksHolds`, refinement of `StoreAccess`, `AcquireEnds` |
| `live_stores` | 2 stores, 2 connections to one, 3 readers (one on a sidecar), 2 parked at most; 2,434 states | `LocksKept`: no close drops a lock that a connection, lease or read lock relies on; `ConnectEnds` |
| `graph_pool` | 2 stores, 2 worker objects under a cap of 1, 3 jobs of 2 owners; 117,208 states | `OneWriterPerStore`; `NoStartAfterClose`: nothing starts after its owner closed; `HandlesFinish` |
| `retry_queue` | 3 records of 2 namespaces, 2 drainers, depth 2, 2 retries, 2 mishaps; 468,549 states | `RecordsKept`: none lost, none sent twice but by an interrupted drain, none given up before its last try; `QueuedLeaves` |
| `push_cycle` | 3 rows in pages of 2, one held back, 2 edits, 1 writer with a copy of its own, 1 ledger change, 1 failed send; 221,362 states | `CycleExact`: clean is pushed unless a number was used twice, a cycle has every row once; `DirtyIsPushed` |
| `daemon_lane` | 3 tenants with a job each, one in the background, `SERVED_MAX` 2, 2 dispatches at once; 70,346 states | `LaneKept`: a job that can run has a dispatch on its way, and the lane is not free under a body; `NoStartWithdrawn`; `EverySubmitEnds` |
| `daemon_service` | 3 daemon starts, one pid reused, 2 clients of different majors; 329,551 states | `OneFindable`, `CallsKept` (a drain costs no call; a call is applied once, or once per attempt if it may be replayed or lists the tools after it), `DoorSettles` |
| `openings` | sync: 2 writers, 2 publishes, 3 edits, 1 retry, 2 failed sends; store: 2 processes, 3 rows of which one is only in the cold tier, one damage, one kill, failed insert or backup out of order, 2 opens and one more after those, 1 snapshot kept, and a cold tier, a backup of before or no room beside old-named ones, or none of these; remote: 1 item, 2 events, 2 recalls, 1 cut or failed update, 2 switches; 3.3 million states, up to symmetry of the processes and of the recalls | `SyncedIsPushed`: a clean row's text was accepted, and in the end is the one the platform has; `StoreRecovers`: no step or kill loses a committed row outside the named windows; `RemoteSound`: the listener ends when told to, no retirement it took in is forgotten, nothing refused, or told by the stream as retired, is shown |
| `library` | recall: pools of 3 rows of 9 kinds, with and without models, weights, budgets; tiers: 2 processes, 2 entries, 4 calls and faults of 7 calls and 2 faults or kills; moves: 2 ids, batches of 1, 2 writes of others, 1 kill or failed write; upkeep: 3 places, 2 calls, 3 of: two days, a write, a fault or kill; 1,182,787 states | `OrderExplained`, `AnswerComplete`, `TiersKept`, `RowsTravel`, `EvidenceKept`, `SaysWhatIsDone` |
| `rows` | tools: 2 rows, any 3 of 9 calls; review: 2 holds, 3 reviews, 1 kill; enrichment: 2 rows and 3 siblings of which 2 are compared, a pass and a backfill; dedup: 3 entries, every cosine of three; 3.3 million states | `RowsWhole`, `NothingComesBack`, `ReviewSound`, `SimilarRowsSound` |
| `stores` | tables: 2 namespaces that share 2 ids, a full process and a bare one, 4 writes, an old schema; reads: 2 of 4 places, 1 write; trail: 2 processes, limit 1, 3 ticks, 1 fault; files: 3 calls on 2 ids, 1 kill; import: 3 rows, 2 owner's and 2 tenants' writes (3 together), 2 runs; index: 2 rows, feed of 1, 2 vector writes; walk: 3 graphs of 4 nodes; team: 2 rows, 3 stores, 2 promotions; models: 2 threads, 3 asks, 1 change, 2 steps of a fetch, 1 load failed or wait timed out; 2.1 million states, up to symmetry of the threads | `ReadsExact`, `TrailKept`, `FilesKept`, `GraphAnswers`, `ProvidersSound`, `ImportSound`, `TeamSound` |
| `tiers_forget` | the tiers of `library` alone: 2 stores, a recall and a forget, 1 process, no fault | expects a violation of `ErasedEverywhere`, see section 5 |

Why the bounds are enough: each hazard needs two, rarely three, actors. `store_lock` has every pair of
kinds of operation that differ in the code (shared and exclusive, quiescing and not, owned and not) both
within and across processes. `live_stores` has two connections so that one stays live while the other
closes, and a second store for the reader that opens another inode. `graph_pool` meets its cap with one
worker and needs a second to replace it. `retry_queue` overflows a queue of two with three records.
In `push_cycle` three rows make a full page and a short one. `daemon_lane` evicts from a memory of two
with three tenants. In `daemon_service` a client of each major and three starts give a predecessor, a
successor and a process with the predecessor's pid. `openings` has the acknowledgement of one writer's publish overtake the
other's edit, and a retry of a text that was sent meanwhile; its store needs a process that dies and one that
finds what it left, and the opening after the kill finds what the opening before it had moved. In `library` a recall needs one
row to be ranked, one to be cut and one to be promoted over it; the tiers one call in the middle of its
writes, one that interferes and one that reads; a move one row moved, one left and one that arrives. In
`rows` the tools make one call that works from what it read, one that changes it and one that changes it
back; two rows are the smallest cluster; three entries are the smallest chain in which a survivor of one
pair is retired by the next. In `stores` two ids in two namespaces meet every lookup by id alone; reads of
two with four places have a page that empties and one that refills; two owner's writes tear a copy and
mend it.

Counters that the code does not bound are bounded in guards: the `MAX_...` constants named `EDITS`, `MOVES`,
`FAILS`, `MISHAPS`, `CALLS`, `WRITES`, `KILLS`, `FAULTS`, `DAMAGE`, `OPENS`, `EVENTS`, `MISSES`, `SWITCHES`,
`ASKS`, `CHANGES`, `FETCHES`, `UPSETS`, `STORES`, `PROMOTIONS`, `IMPORTS`, `TENANT`, `DAY`, `NOW`, `CLOCK`, each with a prefix of
its module where two would share a name. `MAX_PARKED`, `MAX_COUNT`, `MAX_QUEUE_DEPTH`, `MAX_RETRIES`, `SERVED_MAX`,
`HOT_MAX`, `COMPACT_MIN_DEAD`, `BATCH_LIMIT`, `VERIFY_PAGE`, `KEEP_DAILY`, `FEED_LIMIT`, `MAX_INDEX_ROWS`,
`CACHE_MAX`, `CANDIDATE_LIMIT`, `MAX_CACHED_BYTES`, `WRITES_PER_MINUTE` and `RETENTION` are the code's own limits, made small.
Runs in which the actors may stop (every call made, every bound reached, the daemon down) say
`CHECK_DEADLOCK FALSE`.

### Fairness

Only threads that the code itself keeps running are fair; nobody need call, release, edit, crash or
close.

* `StoreLock`: weak fairness of `Attempt` (the poll), `Unpin`, `FinishRelease` (finally clauses) and
  `Drain` (the next holder of `_R`, or the finalizer itself).
* `LiveStores`: weak fairness of the drain; strong fairness of a waiting connect, which looks again
  every half second, and of closes and unlocks, which stand in finally clauses but are interrupted by
  drains that in the code are part of the same critical section.
* `GraphPool`: a started worker runs its loop; a drain ends, by its deadline at the latest.
* `RetryQueue`: a drain runs on (sends have a timeout), and each client starts one again and again, which
  it does on entry and on every store.
* `PushCycle`: the client comes back each cycle.
* `DaemonLane`: threads are scheduled, a body ends (its statements are interrupted at the deadline),
  time passes.
* `DaemonService`: daemons and clients keep running; the watchdog polls.

`openings`, `library`, `rows`, `stores` and `tiers_forget` check safety alone.

## 4. What is proved

The theorems hold for every value of the constants that satisfies the assumption at the head of the module
(`LiveStoresAssumption`, ...): sets that are counted are finite, `None` is no job, limits that the code
divides or counts by are positive. The `MAX_...` bounds that only keep TLC's state space finite may be any
number, so the theorems are about executions of any length. Every proof has the same form: an invariant,
stated beside the properties in the module itself, that holds initially and that every action keeps (a lemma
per action, in it a step per conjunct the action can disturb), and the property as a consequence of it, in
one state or, for an action property, in one step. The invariant is called `IInv`, or after its module where
a run or a proof takes several together: `LaneIInv`, `ReviewIInv`, `FileIInv`, `ImportIInv`, `TeamIInv`,
`EmbedIInv`, `SpaceIInv`, `SweepIInv`, `EventIInv`, `PushIInv`, `RecoveryIInv`. TLC agreed with each of them on the instance of the module's run before
it was proved.

### Rows under the tools

* `RowsAreWhole` - no vector is left beside a text it was not computed from, or beside no row; no original of
  a consolidation is archived into a row that is not there, and a merge that was rolled back leaves nothing;
  whatever stores, corrections, forgets, re-embeds and consolidations overlap, fail or are killed.
* `NothingReturns` - no late write brings back a forgotten row or makes a retired one active.

The assumption is that a store, an update or a forget is about a stored row's id (`On \in [Job -> Id]`), which
is never that of a row a consolidation makes: a forget of the merged row itself would leave its
originals archived into nothing. `MergedWhole` is not inductive: it says nothing of a merge before it failed. `MergesInOrder` adds
that the new row is there from its creation until it is undone and that no original names it before
`_archive_originals`, so a rollback finds nothing to restore. The vector argument needs that an update that
may commit still has its row, since only a forget on the lane could have taken it (`UpdateHasRow`), and that a
row's text is never the text of no row (`TypeOK`), so that a re-embed that finds its text finds a row.
`RowsStay` disposes of the many steps that change neither; the others have a lemma each.

### Quarantine and review

`ReviewIsSound` - a text that is held or was rejected is not served from either place, an id is resolved at
most once, a held row leaves the quarantine store only when it is active or was forgotten, and no review
writes over a row that was stored while the other was held; each of the several commits of a hold, an approval
and a rejection may be the last of its process.

Which ledger row counts is the latest of its text, in the code a scan from the end. `LedgerBlocks` says of it
only what the reads need, that the latest row of a held or rejected text blocks it, and `Latest` is stated
by its order and not by `SelectSeq`, so that an append is a case distinction. `ReviewHasHeld` carries what a
review found from its compare to its last commit: until it deletes the held row, that row is still the one it
read, which holds because calls between commits exclude each other (`InsideIsLocked`). `ResolvedOnce` says that a
review about to log finds no resolution in the log, so that no second one is written.

### Store lock

`StoreLockProofs`, for every set of processes, contexts and holds that satisfies
`StoreLockAssumption` (`Hold` is finite, each hold has a context, each context a process, each operation
is one of the eight):

* `TypeCorrect` - `Spec => []TypeOK`; in particular no count goes below zero.
* `ExclusiveSafety` - a live exclusive hold has no live hold of another process, and no second exclusive
  one, beside it.
* `QuiescingSafety` - during a quiescing hold the opens of its own process belong to contexts that have
  part in it.
* `KernelSafety` - the kernel's lock of each process is exactly what its live holds need, and what the
  registry believes.
* `Refinement` - `Spec => AccessSpec`: the lock implements `StoreAccess` under `live <- Live` and
  `family <- owned`.

None of these is inductive: `ExclusiveAlone` says nothing of the counts from which `Target` computes the
kernel lock, and a lock may have been stripped by a sweep. The invariant `IInv` adds that every count is
the number of holds it stands for (`CountsRight`), that `exclusive` names the one live exclusive hold
(`ExclusiveRight`), that the descriptor stays open while it is used and no reader's descriptor can then be
closed (`DescriptorKept`), that the kernel grants no conflicting locks (`KernelTable`), that table and
registry agree (`KernelBacksHolds`, `BeliefIsTruth`), and that queue and ownership name live holds
(`QueueSound`, `OwnedSound`). There is one lemma per action (`PinKeeps`, `AcquireKeeps`, `ReleaseKeeps`,
...), with one step per conjunct the action can disturb; `Invariance` puts them together. The safety
theorems follow from `IInv` in one state each. For the refinement, an `Acquire` is a `Take`, a release, a
drain and a crash are `Drop`s, a copied context is a `Share`, everything else stutters. `Counting` is the
one fact about cardinalities, from the library's theorems on finite sets.

### Live store registry

`LockSafety` - whatever descriptors of a store or sidecar are opened, parked, deferred and closed by hand, by
the registry or by SQLite, every open connection and every holder of a read lock keeps its kernel lock.
`LocksKept` alone is not inductive, as a count that is too low would let a close through. `IInv` adds that
`open` counts the connections of a store and `readLock` the holders of an inode (`CountsRight`,
`ReadersRight`), that a holder of a read lock still has its lease (`HoldersLeased`), that an inode with a
leased or deferred reader has no connection (`LeaseOrOpen`), and that what is parked is parked because its
file is live (`ParkedLive`). With these a close either meets an inode without connections and holders, or does
not happen. `Counting` is what the cardinalities need.

### Recovery of a store

`StoreIsRecovered` - however many processes open a store file, recover it, migrate it, snapshot it or restore it,
wherever they are killed and whatever pages are damaged between: outside the named windows, committed rows that
nothing destroyed are in the store at the path, in the backup its marker names, or in the hand of the one process
that moves them; a store that has opened has them all; under the strict policy a store nothing was left of does
not open empty; a migrated store has its copy. Any number of rotations, and of backups kept, is covered.

`RecoveryIInv` has four layers, each of which needs the one before.

* *Who may act.* `HoldsFit` ties each step to a hold and `ExclusiveIsAlone` says that an exclusive one is the only
  one; the module takes that rule from the store lock (proved of `StoreLock`). So whoever is between two moves is
  the only process whose step the others could disturb: the steps without a hold (`Quiet`) claim little, and
  `AloneKeeps` carries them over what an exclusive holder does to the files.
* *Which file is meant.* `FilesDiffer`: a number is given once, so the marker names one backup or the store
  itself, and a -wal belongs to one file. `StepFits` says what each step of a recovery relies on: the marker
  stands, names the newest backup while it is being made, and pruning keeps that one while there is room for one and
  it sorts last (`KeptIs`, `PruneIs`); else the window `pruned` is hit and only its number is known.
* *Where the rows are.* `RowsKept` is stronger than `RowsReachable`: owed rows are in the file, its -wal, or what a
  salvage of the named backup would read (`Salvageable`); `StepKeeps` follows them through what the process holds
  in memory, from the salvage to the commit of the restored rows. It is claimed outside `torn`, `stale`,
  `remarked`, `pruned` and `dropped` (`Clear`), the windows in which the code does lose rows.
* *What a refusal leaves.* `RuinedIsKnown`: a ruined store under the strict policy has something in it, or a
  recovery of it is due, or it was refused and the verdict says so or is about to (`Refused`).

### Graph pool

* `OneWriter` - until exit, no two jobs of one store run together, whatever workers retire, die, are
  replaced or drain meanwhile.
* `ClosedStartsNothing` - once `close()` has returned, no job of that client starts.

The guard of a start reads counts and registrations, so `IInv` says what they mean: a job is in one queue or
one worker's hands (`JobsAreOnce`), in the stage its place implies (`StagesAgree`); `pending` of a worker
and the counts of an owner are cardinalities of such sets (`PendingRight`, `OwnersRight`); before exit a
worker that has jobs and may run one is the registered one of its store (`BusyIsRegistered`), which is what a
retirement with `pending = 0` and the replacement of a dead worker must not break; and a job its closed owner
left waiting belongs to an owner that is marked (`ClosedIsMarked`), which is what the removal of the mark
must not break. `TakeHead`, `AppendJob` and `AppendStop` are the queue's operations as sets of jobs.

### Write lane

* `LaneSafety` - a body that runs has the lane, and a free lane with a job that can run has a dispatch on
  its way: no wakeup is lost, whatever callers submit and cancel.
* `DrainedStartsNothing` - once the executor is shut for the drain, no job starts.

The first is inductive but for the types. The second needs `DrainedIsShut`: from the drain on, the executor is
shut and no job is between its hand-over and its start.

### Retry queue

`RecordSafety` - a record that `enqueue` accepted is in the file until it was sent or tried `MAX_RETRIES`
times; it is sent a second time only for a drain that was interrupted; it is given up only after its tries.
A drain works from a snapshot while others append, evict and clear, so `IInv` relates three sequences: keys
are once in each (`KeysOnce`), the drain keeps only records it has been at (`DrainKeepsPast`), what is sent or
given up is in neither file nor snapshot (`StatusAgrees`), the records still to be written off were sent only by
drains that did not end (`UnsentOfDrain`), a record's count of retries is at most its tries (`TriesCounted`),
and one the drain does not keep was sent or had its tries (`DoneIsOver`). `Picked`, from a well-founded
minimum, says what the model's `Pick` selects: each of the wanted lines, in order.

### Revisions of the sync

`CleanIsPushed` - a row is marked clean only for a text that the platform accepted; and, unless a publish was
given up or a revision number was used twice (section 5), once nothing is unacknowledged a clean row is what the
platform has, however writes, sends, drains and acknowledgements overtake each other. The difficult case is an
old text that reaches the platform after a newer one. `OvertakenIsOutstanding` is the argument: when the
platform has another text than an acknowledged row, the snapshot of that other text is still to be acknowledged
or sent again, and its acknowledgement cannot match the row's revision, so it makes the row dirty. For that the
snapshots have to be of revisions the row had (`Revisions`), what counts as sent must have been accepted
(`SentIsAccepted`), and a drain must not forget what it has taken before it has written (`DrainRemembers`).

### The push cycle

`CycleIsExact` - the text of a clean row was accepted by the platform and is the one it has, unless the id gave
one number to two revisions; and a cycle that was not cut short has given every row that needed a push from its
beginning to its end exactly once, whatever rows are edited, stored from a stale copy, forgotten, blocked or released between two of its
steps. `PagesHold` says that a page is of different revisions, each no later than its row's own and of a row that
is still dirty, so that a mark that finds the revision unchanged finds the text that was sent (`SentIsThere`). The
second half is `SteadyOwed`: a steady row was given once and is behind the position, or is still ahead of it or in
the page being filled. That the cut of a query passes over nobody is a fact about the smallest so many of a finite
set of pairs in their order, proved from the library's theorems on cardinality.

### Events of the platform

`RemoteIsSound` - a stopped or switched off subscriber has no connection that reads, a retirement that an event
told, or that passed the dedup and the gate of a fetch, is pending, being applied or marked on its row, and a recall
shows no text the gate refused, no item that the stream had told to be retired before, and none twice; whatever cuts, reconnects, failed updates, recalls and switches
overlap. `EventIInv` rests on the platform telling nothing of an item after its retirement (`RetiredLast`) and on
an open connection going on after the last event handled (`StreamInOrder`): so an event that is cached is newer than
what the cache has, and what was told as retired is not cached again (`CacheHolds`). `RecallHolds` follows a recall
from the retirements it took to what it has found, which it may show.

### Daemons and clients

* `OneDaemon` - one daemon at a time accepts calls for a root and its record can be found, whatever
  crashes, drains, is slow to exit, or has a pid that was used before.
* `CallsSafe` - a drain that lets its daemon exit leaves no call in flight; a call is applied once, or once in
  each of its two attempts if its tool may be replayed or `tools/list` follows the answer (section 5).

`IInv` adds that of the processes with one pid all but the last are gone (`PidsReused`), that the claim's lock is
held from the check of the record to its replacement, by a process that met no listening one (`ClaimIsLocked`,
`ClaimIsAlone`), that a call in flight has a client waiting for it (`InFlightIsWaited`), that one drain at a
time has the door shut and an exit for a drain keeps it shut (`DrainShutsDoor`, `DrainExitIsShut`), and that a
call that may still be applied was not applied in this attempt (`AppliedInAttempt`). The lemmas go by the
half that a step changes (`ClientOnly`, `DaemonOnly`, `Together`), so that each action has to show only what it
does to its own.

### YAML files

`FilesAreKept` - updates of one row compose field by field, no rewrite passes over evidence it could not parse
nor invents a claim that was not there, and a listing answers every row that was there, in its namespace, from
its beginning to its end, whatever is replaced or unlinked while it reads. Only the read-modify-write of an
update locks its file; stores, unlinks and listings do not. So `FileIInv` says of a call with the lock what its row owes to the updates before it and that
the file is still the one it read (`WriteHolds`, `Rewrites`), of a call without the lock that it has only what it
found (`StepKind`), and of a listing in progress that each steady row is among what it has found or what it has
still to read, and was there to be found in its namespace (`SteadyIsThere`).

### Import of a checkout

`ImportIsSound` - the copy that an import uses is one committed version of the checkout's store, though it is
copied half by half while its owner writes, a merge changes no row of anybody and adds rows as the copy has
them, a rerun converges, and the answer says what was done. `UsedIsVersion` is the heart: the copy passed the compare
of the file's stamp, and `ReadIsCurrent` says that with the stamp unchanged what was read is still what is there,
`QuietIsWhole` that a store without a sidecar is one version. `PlanAgrees` takes the plan from the compare, off the
lane, to the merge on it; `RowsAreCopies`, that rows no tenant wrote are some merged version's, is what `Converges`
needs; `MergedIsCommitted` is the answer's half.

### Team namespaces

`TeamIsSound` - a completed team has had every important row of its promotion copied, whatever kills and failures
came before; no promotion writes over a promoted row that a tenant has revised or copies again what a completed
team had; an expired team stays expired. `PromotionPasses` follows a promotion that is killed, repeated and met
by forgets: what it has passed is copied, what is left is the team's, and in the project's own file each row
it meets is one it had seen there. `ThereWasCopied` says that nothing is in the project by another way.

### Embedding providers

`ProvidersAreSound` - since the last reset one load of a model is shared at a time; what a call is given is of the
policy that it read, from a load begun after the last reset before the call; a model that was whole on disk is
never reported missing; and a thread that loads waits for no other's load, unless the load it made in between
took its flag down. `EmbedIInv` relates three places that refer to each other: the cache and its pending builds
(`CacheHolds`), each call's frame (`FrameHolds`, with `BuildHolds` for a load that others share), and every two
frames (`FramesApart`: shared loads have holders of their own, and one that somebody waits for began after it
asked). `ThreadHolds` is about the flag of a thread that loads, which a nested call may clear (section 5).

### Moves of namespaces

* `RowsAreMoved` - whatever tenants write, delete and link between two batches, and wherever a kill falls,
  every row is in one of the two namespaces with its last text and, if it was embedded, its vector beside it, and
  every link is in one of them.
* `MovesAreHonest` - a move that comes to answer "complete" has left in the source only rows it had skipped for a
  conflict, unless a row of the source was deleted meanwhile; a rename puts a row only beside rows it put there
  itself, unless one of the destination was deleted meanwhile.

`RowsTravel` is not inductive without `HalfwayIsCopied`: the second commit of a move over two files deletes the
source's rows, so the first has to have left each of them in the destination. For `MoveHonest` the hard part
is that a completion is judged by counts, not by rows: the code compares the number skipped with the number
left. `SkipsCounted` says that the rows behind the cursor are at least as many as were skipped and, if they are as
many, are exactly those; `MovesCounted` says the same of the rows counted as moved. Both have to hold of the
progress in the file as well as of the one in memory, and `SavedIsCurrent` relates the two, because a daemon that
was killed resumes from the file. The lemmas about cardinality come from the library's theorems on finite sets.

### Maintenance

* `EvidenceIsKept` - a verification never puts claims it read back over newer ones, a verdict has the evidence
  for it as long as the claims it was given on are the row's, and decay takes every row once before any twice, unless a kill came between a window and its stamp.
* `StampsAreHonest` - the stamp of a finished maintenance is written only when no row is left that was
  there before the sweep began, was not checked, and is due.

`DecayInOrder` says that the rows up to where decay stands have one decay more than the others, which needs the
stamp and the call in progress together (`DecayStands`). The sweep is cut into pages, resumed by a later call and
discarded when the store file was replaced. `SweepIsAhead` says that rows still due lie behind the cursor or
on the page, `SavedSweepIsAhead` the same of a sweep in the stamp file, for the file it was of; a page leaves out no row
up to its last, by the lemmas on `Firsts`, the smallest so many of a finite set. `PageInPhase` keeps a page to
its phase, so that a window of decay cannot end a sweep. `RowsEvident` has the verdicts of the snapshot too, since
a restore brings them back. A correction that replaces the claims leaves the verdict (section 5): `judged` tells
the two apart.

### What is only model-checked

* Liveness (`AcquireEnds`, `ConnectEnds`, `HandlesFinish`, `QueuedLeaves`, `DirtyIsPushed`,
  `EverySubmitEnds`, `DoorSettles`): the prover handles neither fairness nor `ENABLED`.
* `OrderExplained` and `AnswerComplete` (`Ranking`, `Recall`), `TiersKept` (`Tiers`), `SimilarRowsSound` (`Dedup`, `GraphEnrich`), `ReadsExact`
  (`SqliteStore`, `PagedReads`), `TrailKept` (`AuditTrail`), `GraphAnswers` (`GraphIndex`, `GraphWalk`): these modules
  filter, sort or fold sequences and sets (`SelectSeq`, `SetToSortSeq`, `FoldSet`, recursive functions), and what such
  a definition computes for every input is an induction over data, for which the prover has no rule it can
  instantiate.
* `SaysWhatIsDone` as the run states it, of two modules side by side; its halves `MoveHonest` and `StampHonest` are
  proved of the modules they are about.
* That the descriptors of `StoreLock` and those of `LiveStores` do not disturb each other: the code keeps them on
  different files, and each module has the kernel's rules for its own.

## 5. Where the code and its documents disagree

One run expects a violation. `tiers_forget`: `lifecycle/tiers/_runtime.py:260` says a forget deletes "an
entry from EVERY runtime tier (hot, warm, and cold)". A recall that read the row before the forget mirrors
its answer after it (`remember_entries_data_in_tiers`, off the lane, `tools/recall.py:427`), and the copies
are back; a second forget finds no row and answers `not_found` before it looks at the tiers
(`tools/forget.py:126-135`).

The models and the reading of the code for them met more; the properties above except these windows by
name or state what holds around them.

* **Sync out.** `store()` numbers a revision from its writer's copy (`_crud_ops.py:152`), so two stores off the lane
  may give two texts one `sync_seq`, and a row forgotten and stored anew starts at 1. `ack_revision` compares the
  hash too for that reason (`delta.py:227`); `mark_synced` compares the number alone (`delta.py:189-193`) and marks
  the text that was not pushed, though `tools/sync.py:72` says a row edited after it was paged stays dirty.
* **Daemon client.** `never_sent` takes any refused connection as proof that the call was not sent, but the
  session reads `tools/list` after the answer; a daemon that dies in between has a call applied twice that
  may not be replayed.
* **Retired rows.** `tier_candidates` filters on the copy's own status; a consolidation archives its
  originals without refreshing their copies, and `memory_recall` answers them, although `README.md:229`
  says superseded rows are excluded by default.
* **Retrieval.** Candidates are indexed by id though rows are keyed by namespace and id
  (`retrieval/pipeline.py:274`, `tools/recall.py:271`). The cross-encoder sorts after the validity prior that is to
  keep closed rows behind open ones (`pipeline.py:381`). `blend_recency` says "appended after all fused
  entries" and sorts them in by score. The SDK filters for security after limit and budget, which
  `tools/recall.py:374-381` calls a defect where the tool did it. A hit may be suppressed for a conflicting
  row that is itself dropped later. A load of the re-ranker that fails may overwrite one that succeeded
  (`reranker.py:133`). When retrieval found nothing, the scores do not explain the order of the supplements.
* **Recovery.** A kill between the two moves of a rotation leaves the `-wal` beside no store
  (`_corrupt_backup.py:112-115`); a refusal may be killed between removing the marker and writing its
  verdict; a restore may leave the old `-wal` beside the new file; an open that looked for the marker before
  there was one opens the store of a killed recovery (`_init_helpers.py:151`), recovers it, and replaces the
  first marker; a recovery may be of a file that is no longer the damaged one. A verdict "running" whose
  process died refuses every open. `_restore_rows` passes over a
  row whose insert fails and commits the rest (`_recovery.py:222-228`). Backups with old names count against
  `corrupt_backup_keep` and are never pruned (`_corrupt_backup.py:136-160`), so where they fill it the backup just
  rotated is deleted before it is salvaged, and the store opens empty, under the strict policy too; the same
  happens to one made in the second of another or after the clock was moved back, which sorts before them (`:154`).
* **Maintenance.** `memory_update` with new assertions replaces that column alone (`lifecycle/correction.py:198-200`,
  `storage/_crud_ops.py:313-427`): the row keeps "verified" or "stale" for claims nobody has checked until the next
  sweep visits it. `VerdictsStand` is about verdicts whose claims are still the row's.
* **SQLite store.** OFFSET paging skips rows under others' deletes; `find_active_by_content` may find only a
  blocked row; a keyset sweep ends at a short page; a stale full-text rowid is not harmless
  (`_query_ops.py:474-477`). An update with an explicit old `updated_at` is missed by the change feed
  (`_change_feed.py:17-19`).
* **YAML store.** An update moves a row to the namespace it was called with; a delete or purge may unlink
  another namespace's row stored meanwhile; an update in flight resurrects a deleted row;
  `increment_recall_access` loses increments.
* **Quarantine.** A half-finished approval answers "conflict" for ever with the row hidden until it is
  rejected; an id once resolved cannot be reviewed again; `memory_quarantine_list` lists rejected rows.
* **Audit.** A batch that fails midway leaves rows without record; a torn line makes each new process's
  stores fail at maintenance; a conflict leaves no record. A charge reads the clock before it waits for the lock of
  the window's file and drops the stamps after it (`security/runtime.py:182,197`), so a write that a later one
  overtook there lets a minute have more than its limit: `RateKept` excepts the minutes that meet the time
  between the two clocks.
* **Tiers.** A forget of an entry that is only in the archive reports `not_found` and leaves it; one killed
  after the row leaves the copies, and its retry finds nothing; a torn line of a forgotten id stays on disk.
  A stale archive copy, or a second promotion at once, restores an old text over a newer row; a promotion's
  rollback deletes a row it did not create; one between an archive's write and its delete loses the entry. A
  stale evictee of one process overwrites the newer snapshot of another. `_runtime.py:242` says a failed warm
  write must not lose an entry from both tiers; that holds of a recall's batch, but an entry whose own warm
  write failed (`_runtime.py:212`) is dropped from hot when its demotion fails too (`_manager.py:98-117`):
  `MirrorKept` asks of it only to be in hot until then.
* **Namespaces.** A merge whose last pass moves nothing while another row lands behind its cursor raises, and
  so does every later call, though the result says to call again (`curate.py:293-299`). A refused rename leaves
  its progress, which can refuse an empty destination later or let a rename move onto foreign rows. A kill
  between the two commits of a two-file rename leaves both copies, which a merge then skips as conflicts,
  though `:206-207` says it finishes them. A row the ledger withholds is counted and not listed, so its move
  never completes. The progress file may be torn, and then refuses; a move that completed and could not
  remove it stays in memory, and later calls answer "complete" after one batch each
  (`tools/namespace_admin.py:80-94`).
* **Team spaces.** `memory_maintain` promotes into the team's own file where namespaces have their own,
  because it passes no store factory (`tools/maintain.py:218`), and then completes the team. Rows stored to a
  completed team are never promoted and, after expiry, never recalled.
* **Maintenance.** A kill between a decay's commit and its stamp decays a window twice. A day's snapshot taken
  with the clock moved back is pruned at once.
* **Graph.** Edges have no foreign key, so an enrichment of a row deleted meanwhile leaves edges that a later
  row of that id inherits; `detect_clusters`, `propagate_impact` and conflicts key by id alone; the merge of a
  cross-validated entry rewrites the outcome history, and an append outside its lock is lost.
* **Remote events.** The listener ends on a payload its projection refuses, or when the watcher closes a
  client that is registered and not entered, and is not started again, against
  `sync/_remote_common.py:126-127`. A retirement only a fetch reported leaves the cached event, and one that its
  dedup drops (the recall has the row it was published from, or one of its text) or its gate refuses is not recorded
  at all (`sync/_remote_fetch.py:198-207`, before `_client_org_shared.py:126`): the row stays unmarked and a cached
  copy goes on being shown, though `mark_fetch_retirements` speaks of the "markers returned from remote fetches".
  One of an unknown id stays pending for ever; the answer of a withheld query is not deduplicated.
* **Embedding providers.** A nested build clears `building`, and its outer builder may then wait for another,
  against `_provider_cache.py:117-120`. A policy that changes twice during a load caches a provider of the
  policy in between, against `:33-34`.
* **Deduplication.** The calibration maps 0.75 and 0.85 to one threshold, so a configuration that passes
  "Merge must be strictly below skip" (`dedup.py:134`) never merges. `batch_dedup` keys by id alone. A merge appends to the
  survivor's detail (`dedup.py:287-300`), which is compared too (`:212`), so that a second pass over its result may
  find duplicates again: `PassIsWhole` claims that one pass is enough for the texts as they were listed.

## 6. What is not modelled

* `StoreLock`: acquisition when the directory is missing or read-only, and a replaced lock file.
* `LiveStores`: the fork handler. Sidecars are modelled; whether a reader of one may be closed by hand
  under a live store is not promised and no run states it.
* `GraphPool`: the pool reset of the test-suite and the slices a job is cut into.
* `MemoryRows`: the SDK's own store (no revision compare), supersession and revision-conditional patches,
  forgets by query and by actor. After a crash between the two transactions of a consolidation both the
  merged row and its originals remain, still active: the code has nothing that would finish or undo it, and
  `RowsWhole` does not ask for it. A store made while the model was refused keeps an older vector, which
  `RowsWhole` excepts.
* `SyncRows`: labels and quarantine on the way out.
* `DaemonService`: autostart switched off, the launcher record, a process whose start time cannot be
  read, legacy daemons, tokens and version gates, several calls per client. Key and record are written in
  one step, a refused wait is part of the retry, and a SIGKILL by a client is a `Crash`.
* `StoreRecovery`: the bytes of a damaged page; what of a page can be salvaged is a choice.
* `Ranking`, `Recall`: scores inside BM25, the vectors and the cross-encoder are chosen by the initial state;
  parsing of queries, tags, types and `min_score`; a re-rank without a floor (`pipeline.py:439`), as both surfaces
  take theirs from `hybrid_policy`, which sets one. Rows do not change during a recall.
* `PagedReads`: the first full-text page is `min(4 * top_k, 500)`, here `OVERFETCH`; filters are one
  predicate.
* `Review`: no intake stage of this commit sets `quarantined`, so `store_quarantined_entry` is an operation
  of the API whose callers' branches are not taken.
* `AuditTrail`: maintenance that is queued rather than inline, and the detectors.
* `Tiers`: the vectors of the warm database; `cold_archive_entry` has no caller but the API. Several
  namespaces.
* `Namespaces`: the text of identities, worktree detection. `Maintenance`: if the checkout vanishes within a
  slice, rows count as processed unchecked. `TeamSpaces`: hours after completion;
  several teams; a team of more than 10,000 rows, of which a promotion lists the first 10,000
  (`tools/consolidate.py:112`) and completes the team with the rest in it: `TeamSound` is about teams within the listing.
* `GraphIndex`: two writes do not stamp one instant; explicit older stamps and re-embeds are seen at the next
  reconcile. `GraphWalk`: derived tag edges and edges older than schema 5. `propagate_impact` and conflicts.
* `CheckoutImport`: transport only; hard links, a replaced leaf or private copy, and the walk that finds the
  checkout.
* `RemoteEvents`: the behaviour of the HTTP library and the platform's replay after `Last-Event-ID` are
  external; an event is its id line and its data line; what the two dedups drop and the label policy are choices.
* `EmbedCache`: fork and environment roots are part of the policy; a load nests one call, which the shipped
  factory never does.
* `Dedup`: `batch_dedup`, `check_duplicate` and `merge_entries` are library API without callers here.
* Whole components with their reason: see `PROJECT.json`. Cryptography, redaction, text detectors, label
  rules, vector clocks (no caller outside the tests), tracing and argument parsing are data transformations
  with no protocol.

## 7. What is left

The parts of the system that have behaviour are modelled, and the eighteen modules whose state is rows, counts,
locks, files and phases are proved. What could come next: `TiersKept`, once the parse of the sidecar's lines is
stated by its result and not by a fold; and a module that has `StoreLock` and `LiveStores` over one kernel.
