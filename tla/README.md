# TLA+ specifications of the lru cache library

The library under `src/` is a header-only C++ cache: a front end
(`unified_cache`) over exchangeable eviction strategies, a concurrent hash
table with lock-free reads, deferred memory reclamation, and the locks all of
that rests on. This directory models the parts whose correctness depends on
interleavings or on long sequences of calls, checks them with TLC on small
instances, and proves the central safety properties of eight of them with
TLAPS for every number of threads, items, slots and counters.

## 1. Inventory

For every component: the state it keeps, its operations, what it interacts
with, what is hard about it and what makes it correct. Sections 2 and 9 say
which of them are modelled.

### Locks and counters

| Component | State | Operations | Hard | Correct when |
|---|---|---|---|---|
| `distributed_shared_mutex` (`detail/distributed_mutex.hpp`, `native_wait_ops.hpp`) | one word of writer flags, a reader counter per node, fairness mode, start of the writer's wait | `lock`, `try_lock`, `unlock`, `lock_shared`, `try_lock_shared`, `unlock_shared`, `set_fairness`, NUMA routing | the writer adds up the readers node by node while they come and go; sleeping and waking on one word | readers and a writer never overlap; no sleeper is forgotten |
| `shared_spinlock` (`detail/concurrent_hash_table.hpp`) | one word of flags and reader count, fairness mode, start of the wait | as above | readers count themselves in before they know whether they may stay, and back out; one wake-up for many sleepers | the same |
| `seqlock`, `cache_stats` (`detail/foundation.hpp`, `core.hpp`) | a word per object, the counters | snapshot, reset, assignment of one object to another | snapshots without a lock; assignments that claim two locks | a snapshot comes from one moment; assignments do not deadlock |
| `striped_mutex`, `periodic_worker` (`detail/foundation.hpp`) | an array of mutexes; a thread, its interval and stop flag | lock by hash; start, stop, set_interval, the tick | stop against the worker's wait; lock order of several stripes | stop returns; no tick after it |

### Items and their memory

| Component | State | Operations | Hard | Correct when |
|---|---|---|---|---|
| reference word and `read_handle` (`detail/refcount.hpp`, `core.hpp`) | access count, linked and exclusive bits of every item | `incRef`, `decRef`, `markForEviction`, `unmarkForEviction`, link, unlink | look-ups pin items without a lock while a writer evicts them | an item that is pinned is neither moved from nor retired |
| `epoch_reclamation`, `hazptr` (`detail/`) | epochs and slots of the threads, hazard pointers, retire lists | enter and leave, protect, retire, reclaim, forced advance | reclaiming while threads enter; slots that run out; a stuck reader | nothing is freed that a reader may still see; what is retired is freed in the end |
| memory (`memory.hpp`, `compressed_ptr.hpp`, `chained_item.hpp`) | slabs, size classes, free lists, chunks | allocate, free, move slabs between classes | a slab that moves while one of its items is pinned | the accounting adds up; a block has one owner |

### Tables and strategies

| Component | State | Operations | Hard | Correct when |
|---|---|---|---|---|
| `concurrent_hash_table` (`detail/`) | buckets, bucket versions, two arrays during a rehash | find, find-and-pin (optimistic, lock-free, locked), insert, erase, rehash step | a look-up that races with an erase or the migration of its bucket | a present key is found, an erased one is not returned |
| `mm_lru` (`mm.hpp`) | the list, insertion point and tail segment, eviction cursor, pending deletions, capacities | set, add, replace, get, peek, del, force_del, pop, pop_lru, flush, evict, max_size, max_memory, set_config, replace_node, expiry | pointers kept between calls; unsigned counters; pinned and vetoed items in every scan | the books agree, budgets hold, pinned items stay, the oldest goes first |
| `mm_fifo`, `mm_2q`, `mm_tiny_lfu`, `mm_wtiny_lfu`, `sharded_mm_lru` (`mm.hpp`) | their queues, ghosts, sketches, shards | the same interface | moves between queues; capacities split over queues or shards | sizes add up; an item is in one queue |
| TTL index (`detail/ttl_heap.hpp`, `ttl.hpp`) | min-heap of expiries, deferred entries | push, sweep, rebuild | stale entries; pinned items | expired items go, live ones stay |
| admission, sketches, histograms (`admission.hpp`, `detail/count_min_sketch.hpp`, `space_saving.hpp`, `latency_histogram.hpp`) | counters | record, estimate, decay | numerical error | bounds on the estimates |

### Front ends and services

| Component | State | Operations | Hard | Correct when |
|---|---|---|---|---|
| `unified_cache` (`cache_trait.hpp`, `lru.hpp`) | closed and quiesced flags, stripes, workers, a strategy | set, get, cas, del, bulk calls, shutdown, quiesce, resume | promotion by try-lock; shutdown against handles; callbacks after unlocking | no write after close; the drain ends |
| TLS rings and events (`tls_ring.hpp`, `event_tracker.hpp`) | rings per thread, backup, drain worker | push, drain, overflow | the drain against a thread's exit; full rings | events are delivered once or counted as dropped |
| `singleflight` (`detail/`) | flights per key | acquire, complete, wait | completing against a new miss | one leader per flight; followers get its result |
| hot keys (`hot_key_replica.hpp`) | copies of a hot key under other keys of the same cache, the registry | register, replicated set, cas and get, unregister | a write of several copies against reads, evictions and other writes | the copies agree once the writes are done; none outlives its registration |
| `tiered_storage.hpp`, `shared_memory_backend.hpp`, `serialization.hpp`, `warm_cache.hpp` | backend, pending write-backs, files, deltas | write-back, attach, save, load | crashes between steps; order of writes to one key | the old or the new snapshot; no acknowledged write lost |
| `pooled_cache.hpp`, `compact_cache.hpp`, `reshard_utils.hpp` | pools, buckets | resize, rebalance | sizes of pools over time | the sizes add up |

How they interact: `unified_cache` takes a `distributed_shared_mutex` (or a
stripe) and calls its strategy; the strategy keeps items in its list and in
the hash table, whose buckets are guarded by `shared_spinlock`; look-ups take
no lock, find the item under an epoch or hazard pointer and pin it through its
reference word; the strategy unlinks items under the exclusive lock and
retires them to the reclaimer; statistics are published through `seqlock`.

## 2. Modules

| Module | Models | One step is |
|---|---|---|
| `RWLock` | what a readers-writer lock promises its callers | abstract |
| `DistributedMutex` | `distributed_shared_mutex` | one access to an atomic |
| `SharedSpinlock` | `shared_spinlock`, the lock of a bucket | one access to an atomic |
| `Seqlock` | `seqlock`, snapshots, resets and assignments of `cache_stats` | one access to the word or to a counter |
| `ItemPin` | reference word, `read_handle`, the operations of `mm_lru` that take items out, the reclaimer | one atomic access or statement |
| `HashTable` | one segment of `concurrent_hash_table`: chained and F14 buckets, three look-ups, two kinds of rehash | one access to a shared word, or a bucket under its lock |
| `SafeReclamation` | what deferred reclamation promises | abstract |
| `EpochDomain` | `epoch_domain` | one access to shared memory |
| `HazptrDomain` | `hazptr_domain`, `hazptr_holder` and the four read protocols over them | one access to shared memory |
| `HazptrSlots` | the pool of hazard slots: thread caches, free list, scan, growth | one access to shared memory |
| `EvictionContract` | what an eviction strategy promises the cache | abstract |
| `MmLru` | `mm_lru` | one call (calls hold the exclusive lock) |
| `MmQueues`, `MmFifo`, `Mm2Q`, `MmTinyLfu`, `MmWTinyLfu` | the queue strategies and what they share | one call |
| `ShardedLru` | `sharded_mm_lru` with quotas and expiry, as `unified_cache` calls it | operators only |
| `UnifiedCache` | the operations of `unified_cache` with their locks, gates and reports, over `ShardedLru` | what happens between taking or releasing locks and checking flags |
| `Fetch` | `get_or_fetch`, `try_get_or_fetch` and `singleflight` | one look at the flights, the cache or the provider |
| `TlsRing`, `EventTracker` | the rings of deferred promotions and of events, their drains | one access to a ring or a locked section |
| `Lifecycle` | workers, handles, shutdown, quiesce and the destructor | one statement of the protocol |
| `TieredCache` | read-through, write-through, write-back and the circuit breaker | a locked section or a call of the backend |
| `TtlCache` | `ttl_cache` and the expiry index | one call of the cache |
| `SlabAllocator`, `MemoryMonitor` | blocks, slabs and free lists; budget, guards and rate window | one atomic access or locked section |
| `FrequencySketch`, `SpaceSaving` | the count-min sketch with its decay; the top-k summary | one cell; one heap entry |
| `HotKeys` | `hot_key_replica_manager` | one call of the cache |
| `MC…` | instances for TLC | |
| `…Proofs` | theorems and proofs about the module of that name | |

An `MC` module that checks several components (`MCReclaim`, `MCEviction`,
`MCServices`, `MCStorage`, `MCMemory`) has a variable `part`, chosen in the
initial state: a behaviour is a behaviour of one component, the others keep one
of their initial states. So one run asks one question of a family of
components, and none of them is simplified by being put beside another.

**DistributedMutex.** `state` is `state_` as the set of its flags, `readers`
the reader nodes as the sets of threads they count, `waitStart` whether
`writer_wait_start_ns_` is set, `seen` the local copy of the word the thread
waits on, and `scan` how far its `sum_readers()` has got. The labels in `pc`
are the atomic accesses of the methods. `NativeWait` selects futex-style waits
or the condition-variable fallback. Left out: moving a thread to another
reader node during a critical section, latency counters.

**SharedSpinlock.** As above with one word. `slips` is a history variable: the
two ways in which the wake-up of a queued writer gets lost.

**RWLock.** `writers` and `sharers` are the callers inside;
`AcquireExclusive`, `AcquireShared` and `Release` are the only steps. Both
locks are shown to implement it: their callers may rely on it and nothing else.

**Seqlock.** A counter's value is the write section it comes from, which is
all that tearing is about. Objects are numbers, their addresses, by which the
guard of two objects orders its locks.

**ItemPin.** A handle finds an item (`Find`), pins it (`PinFound`,
`PinLocked`), is copied and released. The writer under the exclusive lock runs
`insert`, `evict`, `flush`, `force_del`, `pop`, the TTL sweep's erasure
(`expire`) or the clean-up of pending deletions (`sweep`), one statement a
step. `Reclaim` frees retired items, `Allocate` uses their memory again. The
reclaimer is external here; the two domains below are its models.

**HashTable.** Array `g` is the g-th array ever installed; pointer and mask are
stored one after the other, as in the code. A chain is a sequence, versions
are kept as parities, and a reader's flag `clean` falls when one it has loaded
moves. A scenario, chosen in `Init`, fixes the probing mode, the kind of
rehash, the writes and the look-ups. The node-based layout differs in keeping
an assigned value in the existing node and is not modelled apart. The check for
a miss that the pinning look-up makes before it takes a lock is the optimistic
look-up, on the installed array at the start of the call and, during a rehash,
on a bucket strictly ahead of the migration (`DualOptBegin`).

**EpochDomain.** `local` and `cache` are the stamps and each thread's slot,
`buf`, `pending` and the detached chains hold what is retired, `ref` what a
reader refers to. A thread's nested calls (a retirement that flushes, advances
the epoch and starts a pass) are labels on its `stack`. `forced` records that
the operator's policy skipped a reader. Both domains implement
**SafeReclamation**: an object is published, unlinked, retired once and freed
once, and freed only while no reader holds a reference it took while the
object was published.

**HazptrDomain.** `hp` are the two slots of a reader, `head` and `nxt` the
chain, `version` the chunk's version. A pass detaches the pending list,
reverses it if it has a batch size, counts and scans the slots, frees or keeps
node by node and puts the rest back, which may start a nested pass: `stack`
holds the return labels, `reg[t].owed` what each open pass still owes the
ledger. Readers follow one of four protocols; `Validated` are the two that
publish, re-validate and then use. Slot allocation is **HazptrSlots**.

**MmLru.** `mm` is the strategy's state as a record and a method is an
operator on it, named as in the code. A key stands for its item. `due` is the
set of items whose next read promotes them; `held` counts force-deleted items
that callers still hold. `jumped` (the item under the cursor was promoted) and
`alarm` (a failed assertion, a victim that was not the oldest, a use of an
evicted item) are history. The loops of `update_lru_insertion_point` are in
closed form. A lock-free pin in the middle of a call is `ItemPin`'s subject.

**MmQueues and its four strategies.** The same style; queues with the newest
item at the head. Which of two keys the sketch has seen more often is a free
choice (`FrequencySketch` models the sketch). `rebuild_from_serialized` is an
action of 2Q, TinyLFU and W-TinyLFU. `call` records the last call and the key it
named, so that **EvictionContract**, which the strategies implement, can say of
each call what it may do to the items: which may leave, enter, be pinned or
change their size. No action reads `call`.

**UnifiedCache.** `call[t]` is where a thread is in its operation, `owner` the
shard locks, `stripes` the thread that sweeps under all stripe locks, `mode`
the flags closed, quiesced, frozen and critical, `oom` the report of critical
memory. A `menu`, chosen in `Init`, says which operations the threads call,
with which keys, values, capacities, memory budgets and overflow policy. Every
item counts one towards a memory budget; the watermarks are percentages of it.
`max_size`, `max_memory` and `set_max_memory` give shard after shard its part of
the limit (`quota`, `share`) and shrink it, under the stripe locks alone. The
capacity gate makes its tries one by one (`EnforceTry`, `EnforceEvict`,
`EnforceProgress`) and compares sizes of the whole cache, which other threads
change in between. What the memory monitor admits is a free choice here
(`check_memory_admission`); `MemoryMonitor` models the decision.

**Fetch.** `inflight` maps a key to its flight; the cache behind it is the set
of keys it holds, and writers, evictions, shutdown and memory pressure come
from outside at any time. A provider may throw; it returns.

**TlsRing, EventTracker.** An access or event is its serial number. The owner,
the background pass and the thread's exit each read and move head, tail and
flag in the order of the code. A thread that asks another one for a drain raises
its flag (`RaiseFlag`) and counts the request (`CountRequest`) in two steps; the
owner lowers the flag, drains, looks at the count and lowers it, apart as well.
The flush callback is the caller's and need not drain; the ring then drops its
oldest entry.

**Lifecycle.** `Control` starts, stops and destroys; users hold handles and
make no call once the destructor has begun, but may release a handle then.

**TieredCache.** Values are the numbers of the writes; one thread mutates, the
others read. `truth` is the last mutation of a key and whether its write to
the backend succeeded. The worker takes an entry, writes it and completes it;
the backend may fail at any call. A striped primary runs the write-back callback
under the lock of the shard; a primary with one lock lets the lock go first and
then flushes its callbacks (`flush_guard`), so an evicted value waits in
`evicted` and other calls go on meanwhile (`FlushGuard`). A write-back that ran
after a later mutation of its key marks the key `late`. A queue of capacity zero
writes at once.

**TtlCache.** The expiry of a value and of its item are two fields; the heap is
a bag of entries, stale ones included.

**SlabAllocator.** The head of a free list is a block and a counter; callers
overwrite their blocks, the link included. **MemoryMonitor.** Guards reserve by
compare-and-swap, validate, and commit or give back. **FrequencySketch** counts
and halves cell by cell; **SpaceSaving** searches its heap entry by entry;
**HotKeys** writes copy after copy through a cache that may take a write, refuse
it silently or throw; `missed` are the copies that did not get the last write,
`left` those that a removal or a registration that threw left behind.

## 3. Atomicity, memory order and bounds

- Steps interleave as in a sequentially consistent execution. The words of the
  locks, items, slots and free lists are changed by read-modify-write
  instructions or sequentially consistent stores, with exceptions that a model
  at this level cannot show: the `acquire` increment in `try_lock_shared()` (a
  full barrier on x86) and the missing store-load order in the epoch domain's
  `exit_critical()` (section 7).
- Reader counters are sets of threads: a thread is counted at most once in
  these protocols (`ReadersCounted`, `PinsCounted`).
- A futex wait compares the word with the expected value and goes to sleep in
  one step; sleepers may also wake spuriously. In the condition-variable
  fallback the predicate reads the flags and the counters one by one, holding
  the mutex that a waker needs.
- Time is a free choice where the code compares clocks: "the writer has waited
  longer than the timeout", "the slot is older than the force-advance timeout",
  "the ring looks dormant", "the wait timed out". `TtlCache`, whose subject is
  expiry, has a clock (`Tick`).
- Counters of calls, records, writes and epochs are bounded by constants named
  `Max…`; the theorems hold for every value of them. Tags and counters that
  wrap in the code wrap in the model where that matters (`TagMod`, `CountMod`,
  `SizeMod`); the 32-bit tag of the hazard free list is taken not to wrap
  between a load and its compare-and-swap.
- Deadlock is checked in every run but those of the two locks, the hash table
  and the reclaimers, where each thread makes a bounded number of calls, or the
  nodes to retire run out, and the system then stops.

## 4. Runs

| Run | Instance | Checks | Result |
|---|---|---|---|
| `dm_all` | 3 threads, 2 reader nodes, every operation, condition-variable waits | `ExclusionInvariant`, `ImplementsRWLock` | pass |
| `dm_blocking` | 3 threads, of which one or two write, one call each, futex waits, fair | `EveryCallReturns` | pass |
| `spin_all` | 2 writers and 2 readers, every operation, one call each | `StrandedOnlyBySlip`, `ImplementsRWLock` | pass |
| `seq_snapshot` | 3 threads, 2 objects of 2 counters, 2 write sections | `SeqlockInvariant`, `SomeWriterRuns` | pass |
| `ht_all` | writer, reader, balancer; 3 nodes, 2 keys that share a bucket before the rehash and not after; both layouts, both rehashes | `EveryNodePlaced`, `MissIsAbsent` | pass |
| `reclaim` | epochs: a reader, a writer that also synchronizes, 2 objects, 3 epochs; hazard pointers: a reader, a writer, 3 nodes, four protocols; slots: 2 threads, 2 batches | `BooksExact`, `SyncWaitsForReaders`, `ImplementsSafeReclamation`, `HazptrReclaimsSafely` | pass |
| `eviction` | five strategies, 3 keys, every call in any order | `BooksAgree`, `ImplementsContract`, `WithinBudget`, `EvictionOrder`, `ItemsStay`, `SegmentsHold` | pass |
| `cache` | 2 threads, 2 shards, 3 keys, ten mixes of operations | `CacheBooks`, `ShardExclusive`, `CriticalReported`, `GrowthWithinQuota`, `WrittenByHolder` | pass |
| `services` | 2 threads fetching a key; 2 threads with access rings; an event ring; a cache with its workers and a user | `FlightsLed`, `NothingDropped`, `NoWorkerOutlivesCache`, `NothingStaysBehind`, `CallsComeBack` | pass |
| `storage` | 2 readers, a mutator and the write-back worker in five configurations; a cache with expiry, 2 keys | `LastMutationWins`, `FetchesLed`, `ExpiryExact`, `TiersLive`, `ExpiredGo` | pass |
| `memory` | 2 items and 2 handles against every operation, and against those with a barrier; slabs, guards, sketch, summary, hot keys with 2 threads | `PinsHold`, `SlabsConserved`, `MonitorExact`, `FrequenciesBounded`, `CopiesFollow`, `PendingIsRetired` | pass |
| `pin_expire` | 2 items, insertions and the expiry sweep | `PinnedIsLive` | violated |

What the less obvious properties say:

- `ExclusionInvariant`, `SeqlockInvariant` and, inside `PinsHold`,
  `PinInvariant` are the inductive invariants of section 6; the safety property
  each is for is one of its conjuncts or follows in one step.
- `StrandedOnlyBySlip`: threads are left asleep on a lock nobody uses only
  after one of the two slips of section 7. The spinlock does not promise more.
- `EveryNodePlaced`: every node is in the bucket where a look-up would search
  it, and nowhere else, at every moment of an incremental migration and of the
  swap of the arrays. `MissIsAbsent`: a miss that is reported (validated, or
  under the lock) is of a key that was absent at some moment of the call.
- `BooksExact`: every retired object is in one of a buffer, the pending list, a
  detached chain or freed; the ledger is exact over nested passes; no reader
  that keeps its protocol looks into freed memory; a hazard slot has one owner
  and the count of active slots covers those in use.
- `BooksAgree`, `WithinBudget`, `EvictionOrder`, `ItemsStay`, `SegmentsHold`:
  map, lists, flags and memory count agree; after a call the capacities hold
  unless what is left cannot be evicted; victims come from the right end;
  pinned items stay and inserts are refused only for a reason; segments and
  windows keep their sizes. Where the code promises less than one would expect
  the property says so: an eviction may take the item under the cursor even if
  it was just promoted (`jumped`), W-TinyLFU shelters protected items, the
  assertions on the tail segment need an insertion point.
- `ImplementsContract`: every call of a queue strategy does what
  `EvictionContract` allows that call: only `force_del` takes an item that is
  held, `del` and `pop` take the item they name and no other, a flush takes
  everything that is not held, the sweep exactly the expired items that are not
  held, and what leaves to make room is neither held nor vetoed.
- `ShardExclusive`: two threads are in one shard only if one of them is in
  `pop_lru`, `max_size`, `max_memory` or `set_max_memory`, which go in under the
  stripe locks alone (section 7).
- `NothingDropped`, `NothingStaysBehind`: no access or event disappears
  uncounted, the count of drain requests covers the open ones, and what a silent
  thread left is handed over in the end. The access rings run with the default
  automatic drain and the background pass, or with a ring of one entry that
  overflows and no pass; section 7 has what happens otherwise.
- `LastMutationWins` is about configurations that do not read through; with
  read-through an older value may be promoted again. It excepts the keys whose
  write-back callback ran after a later mutation, which takes a primary that is
  not striped (section 7).
- `CopiesFollow`: without overlapping writes the copies of a hot key agree, but
  for those a refused or throwing write did not reach, and after the
  registration has ended no copy remains, but for those a removal or a throwing
  registration left (section 7).

Why the bounds are enough for the cases that matter. *Mutex:* two reader nodes
let a scan pass one node while a reader enters it or leaves the other; the
thread that may be reader or writer gives two queued writers, or one writer
with two readers of which one must be woken by the other. *Spinlock:* two
writers make the shared wait flag ambiguous, two readers give one that backs
out while the other leaves. *Sequence lock:* two assignments in opposite
directions plus a reader; two counters are what a torn read needs. *Pins:* two
handles let one be copied from the other while the writer looks at the count;
two items let a flush claim one and skip a pinned one. `MaxRef` 2 reaches the
limit of the counter with both handles. *Table:* two keys in one bucket that
part in the larger array, and two nodes of one key, make both halves of a
migration and an assignment; one rehash is enough, since the protocol keeps
nothing from one to the next but the parity. *Reclamation:* a tag, the epoch
after it and the one that makes it old need three epochs; nesting depth 2 has
an inner and an outer exit; buffer capacity 2 and threshold 0 or 1 make
flushes, automatic passes and nested passes happen with two or three nodes;
batches of one slot make the pool grow while the free list is in use.
*Strategies:* three items have an oldest, a youngest and one between; sizes 1
and 2 against small memory caps make one item too large, two fit, or one
eviction not enough; `SearchTries` and `MaxPending` 1 make those limits bite.
The eviction run identifies states that differ in `call` only (`VIEW`): it is
read in the step that sets it and never afterwards. *Cache:* two keys in one
shard and one in the other; quotas of one and two items; values differ only
where cas compares them; `MaxReclaimTries` 2 stands for the gate's 8 tries and
is reached with and without progress; `MaxPending` 1 makes `force_del` refuse;
limits are at least the number of shards, to which the code raises smaller
ones. *Services:* two threads are a leader and a follower, an owner and a pass,
or two that ask each other for drains; a ring of capacity 1 is full after one
access, one of 4 drains at 2. *Storage:* three writes to one or two keys
overtake each other in a queue that is always full or never, with either kind of
primary, or are written at once at capacity zero; thresholds of 2 make a breaker
trip and close again. *Memory:* two blocks in a slab, two
slabs, or two nodes; two guards against a budget of five with reservations of
two; four keys for two counters.

Every property has a mutant of the code, a plausible mistake that makes TLC
find it violated. `PROJECT.json` lists them; in the modules their definitions
stand before the operation they replace.

## 5. Fairness

Weak fairness only, of steps the code or the operating system guarantees:

- `DistributedMutex`: each thread's steps inside a call, that is, a thread that
  is not asleep runs, and a critical section ends. Nothing makes a thread call
  again, and a sleeping thread runs on only if another one wakes it, so
  `EveryCallReturns` is about wake-ups.
- `ItemPin`: handles are released in the end; the holder of the exclusive lock
  proceeds; and writers keep coming, which the background cleaner alone
  guarantees by calling `evict_expired()` on an interval. Look-ups and the
  reclaimer have no fairness.
- `Fetch`: a thread inside a call goes on, and a provider returns or throws.
- `TlsRing`, `EventTracker`: an owner finishes the call it is in; the drain
  worker, a periodic task, passes again and again. Nothing makes an owner
  record or drain.
- `Lifecycle`: user calls, worker threads and the controlling thread go on once
  begun; a user may keep a handle only for a while.
- `TieredCache`: readers and the mutator finish their calls, the write-back
  worker runs, the cooldown of the breaker passes. Nothing makes the backend
  succeed; `BreakerRecovers` supposes that failures have ended.
- `TtlCache`: calls finish, handles are dropped, the cleaner comes round and
  time passes.

## 6. Proofs

Each `…Proofs` module proves for every value of the constants:

| Theorem | States | Along |
|---|---|---|
| `TypeCorrect` | `Spec => []TypeOK` of the mutex | induction over the actions |
| `ExclusionIsInvariant`, `MutexIsExclusive` | mutual exclusion with any number of threads and reader nodes and either wait mechanism | `ExclusionInvariant` |
| `MutexImplementsRWLock` | the mutex implements `RWLock` | the same, step by step |
| `SpinlockIsSound`, `SpinlockImplementsRWLock` | the spinlock implements `RWLock` | `SpinInvariant` |
| `SleepersAreWoken` | `Spec => []StrandedOnlyBySlip`: no sleeper of the spinlock is forgotten but by a slip | `WakeInvariant` |
| `SeqlockIsSound`, `CleanSnapshotsAreWhole` | a snapshot begun outside a write section is whole | `SeqlockInvariant` |
| `WritersGoOn` | `Spec => []SomeWriterRuns`: writers of one or two objects never wait in a circle | `WaitOrder` |
| `PinsAreTracked`, `PinProtects` | a held handle reads a live item, if writers use operations with a barrier | `PinInvariant` |
| `ItemsRetireOnce` | `Spec => []RetireOnce`, with every operation | `PlaceInvariant` |
| `EpochIsSound`, `ReadersAreSafe` | no reader holds a freed object, unless the policy skipped a reader | `EpochInvariant` |
| `SynchronizeWaits` | `synchronize_epoch()` returns true only when the readers it found have left | the same |
| `EpochReclaimsSafely` | `epoch_domain` implements `SafeReclamation` | the same, step by step |
| `HazptrIsSound`, `ValidatedReadersAreSafe` | a reader that publishes, re-validates and then uses never looks into a freed node | `HazptrInvariant` |
| `HazptrReclaimsSafely` | `hazptr_domain` implements `SafeReclamation` | the same, step by step |
| `FetchIsSound`, `FlightsAreLed` | a flight has one leader at work, a waiting follower has a leader | `FetchInvariant` |
| `LocksFit`, `LocksAreHeld`, `ShardsAreExclusive` | a call of `unified_cache` holds a lock exactly while it works under it; two meet in a shard only through the four calls under the stripe locks alone | `LockInvariant` |
| `CriticalIsReported` | no entry into critical memory mode goes unreported | the same |

The inductive invariants and why they are needed:

- **`ExclusionInvariant`.** Mutual exclusion alone is not inductive: a writer
  that has scanned half of the counters relies on nobody entering behind the
  scan. The parts say that the flag has one owner (`FlagHasOwner`), that a
  reader inside is counted (`ReadersCounted`), and that with the flag set
  readers inside are on nodes the scan has yet to visit (`ScanSeesReaders`,
  `ScansStartAtOne`).
- **`SpinInvariant`.** The flag has one owner; the count is exactly the readers
  inside and backing out; a reader that may enter shuts writers out; and what
  a compare-and-swap expects is a word that allows it.
- **`WakeInvariant`.** Who waits saw a reason to wait in the copy of the word
  it compares (`SleepersSaw`), a wait flag belongs to a writer awake or asleep
  (`QueueHasWriter`), and while somebody sleeps and nothing has slipped, the
  lock is held, or readers are inside and will find the flag, or a thread is on
  its way to try or to wake (`WakeToCome`). The compare-and-sleep step keeps
  it: the word is still what the sleeper saw, so the reason still stands.
- **`SeqlockInvariant`.** One writer an object (`OneWriter`), objects whole
  outside write sections, partly written ones written up to `pos`, and a clean
  reader's snapshot agrees with the object as long as the word stands.
- **`WaitOrder`.** Claimed objects have owners, an owner claims in the order of
  addresses, and the claimed addresses are bounded. The owner of the highest
  claimed object cannot be waiting, which is well-founded induction on
  addresses; no bound on threads or objects is needed.
- **`PinInvariant`.** The count is exact (`PinsCounted`); what has left the
  cache is unpinned and cannot be pinned again (`GoneIsUnpinned`); only the
  claimed item is exclusive, and unpinned (`ExclusiveIsClaimed`); values are
  moved out of leaving items only (`MovedIsLeaving`); and what the writer
  knows at each statement (`WriterKnows`, `TodoIsThere`). It holds for writers
  restricted to `BarrierOps`; the theorems carry that hypothesis, and
  `pin_expire` shows it is needed.
- **`PlaceInvariant`.** Retiring once needs no word about pins, and so no
  hypothesis on the operations: an item is linked, in the writer's hands,
  pending, retired or freed (`PlacesApart`), and the writer's statement says
  which (`WriterPlaces`).
- **`EpochInvariant`.** A reader that holds a claimed object was stamped before
  the claim, so its stamp is at most the object's tag (`Tags`); a scan that
  has passed its slot saw that stamp and one that has not will; the minimum
  found is at most the tag, and the test for reclaiming fails. The rest says
  who owns slots (`SlotsOwned`, `Stamps`), what is claimed (`Claims`) and which
  return labels a thread may hold (`StackFits`).
- **`HazptrInvariant`.** What `head` and the links show is linked (`ChainLive`,
  and no node leads to itself, `NoLoops`), detached lists hold claimed nodes
  only (`Lists`), so a node that re-validation accepts is in no detached list.
  A pass that detaches it later scans after that: it has found the node in the
  reader's slot or still has the slot to scan (`Covered`). For the F14 slot, a
  version that stands means a head that stands (`StampFits`). The fast path
  that skips the scan when no slot is active, batches and nested passes are
  covered.
- **`FetchInvariant`.** The property itself, with what a thread's place in the
  code says of its part in a flight (`RolesFit`).
- **`LockInvariant`.** What a thread's place in its call says of the locks it
  holds and of its report (`CallOK`), and that a thread owns one shard lock at
  most. What the calls do to the shards is not looked at.

Assumptions on the constants: the mutex has at least one reader node and
`NodeOf` maps threads to nodes; the spinlock's set of threads is finite (its
counter is a cardinality); `MaxRef` and `MaxPending` are naturals; objects of
the sequence lock are a nonempty set of naturals, their addresses; in the
epoch domain the null pointer is no object and the bounds are naturals; for
flights and cache calls, "no thread" is no thread. TLC evaluates them in the
runs of these modules. The hazard theorems have theirs as a hypothesis
(`Setting`: the chain at first is a sequence of nodes without repetition, the
null pointer is no node, and the protocols are the four). For the two refinements of
`SafeReclamation`, `reachable`, `retired` and `ref` are mapped as the
`INSTANCE` in each domain's module says; a reader of the hazard domain refers
to a node from its re-validation until it is done.

Only model-checked, and why:

- Liveness under fairness is beyond this prover: `EveryCallReturns`,
  `PendingIsRetired`, `NothingStaysBehind`, `CallsComeBack`, `TiersLive`,
  `ExpiredGo`.
- What is counted by folding or summing over a set of threads, shards or keys
  needs an induction over finite sets that the provers cannot be given:
  `BooksExact` (its sums; its `NoUseAfterFree` is proved in both domains),
  `GrowthWithinQuota`, `WrittenByHolder` and `CacheBooks`, whose operators of
  `ShardedLru` are folds (the lock part of `CacheBooks` is proved,
  `LocksAreHeld`).
- `MmLru` has recursive operators, and the strategies share its run and their
  loops: `BooksAgree`, `ImplementsContract`, `WithinBudget`, `EvictionOrder`,
  `ItemsStay`, `SegmentsHold`.
- The modules without a proof module: `EveryNodePlaced` and `MissIsAbsent`,
  `NothingDropped`, `NoWorkerOutlivesCache`, `LastMutationWins` and
  `FetchesLed`, `ExpiryExact`, `SlabsConserved`, `MonitorExact`,
  `FrequenciesBounded`, `CopiesFollow`. `LastMutationWins` is not true for
  every value of its constants (section 7), so there is no theorem to prove.

## 7. Findings and observations

The run marked "violated" shows a disagreement between the code and what it
says of itself: `pin_expire`, the expiry sweep tests the pins and then moves
the value out and retires the item with no barrier in between
(`src/mm.hpp:2387`), so a look-up that pins it meanwhile holds a retired item.

What follows was met while modelling and has no run of its own. Where a
definition states what a comment says and the model refutes it, its name is
given; it is kept in its module and can be put into a cfg in place of the
properties there.

*Locks.*
- A failing `try_lock()` of the mutex raises the writer flag and clears it
  without waking readers that went to sleep on it
  (`src/detail/distributed_mutex.hpp:506`; `ParkedHasWaker`). The back-out of a
  reader in the condition-variable fallback notifies nobody.
- A reader of the spinlock that backs out of its increment wakes nobody, even
  when it was the last (`src/detail/concurrent_hash_table.hpp:216`), and the one
  wake-up of a last reader may go to a reader: the two slips of
  `StrandedOnlyBySlip`.
- A reader that samples and compares within one write section accepts a torn
  snapshot (`src/detail/foundation.hpp:198`; `SnapshotIsWhole`).

*Table.*
- `insert_or_assign` on an existing key in F14 mode does not store the value
  (3070–3077, 3125–3132 of `concurrent_hash_table.hpp`).
- The lock-free walk (2041–2088) and `find_hazptr_embedded` (5810–5821) step
  from node to node without validating again. The flag of a rehash is set
  before the new array is published and cleared before the swap, and the
  pointer is swapped before the mask; look-ups rely on the seqlock for all
  three.
- A thread in the loop of `rehash_finish_f14` (5216–5270) when another thread
  finishes sees the progress go back to zero, migrates nothing and spins until
  the next rehash; the balancer calls it as a step that "respects the per-call
  budget" (`cache_trait.hpp:9445`).

*Reclamation.*
- The chain walks over hazard pointers look into nodes they have loaded before
  publishing (`WalkProtected`); the proofs cover the two protocols that
  re-validate.
- A dead entry popped from the free list of slots can be its head again before
  it is released (917–924 of `hazptr.hpp`; `DeadEntryRemoved`). The slot is not
  handed out twice.
- `exit_critical()` of the epoch domain may miss the notification it owes a
  waiting `synchronize_epoch()` where stores may pass later loads (the wait has
  a time limit); the comment of `synchronize_epoch()` promises more than the
  readers that were inside; one thread-local slot serves all domains.

*Strategies.*
- A value that grows past the memory cap may evict its own item, which is then
  read (`src/mm.hpp:2257`; `UpdatedItemStays`); `set_with_expiry` writes the
  expiry after such an update. `update_existing` swaps the value under readers
  (`src/mm.hpp:2235`).
- Promotion leaves the eviction cursor on the promoted item, so the next
  eviction takes the item just used. A `flush` that leaves pinned items takes
  the insertion point away and can leave a tail flag that is not counted. The
  memory loop of `insert_new` gives up silently and `add()` returns true.
  `replace_node` does not adjust the memory count; nothing calls it.
- `mm_tiny_lfu::get` can return a handle to an item its own promotion evicted
  (5782–5788); its window ignores the predicate that the comment at 2357 says
  is asked. `mm_wtiny_lfu` tries only the tail of Protection (8200–8205). 2Q
  demotes to the tail of Cold, so what is demoted goes first.
- `rebuild_from_serialized` keeps pinned items and inserts the saved ones
  beside them, so a key may be there twice, and loses expiries
  (`serialization.hpp`, 989–1040).

*Cache.*
- `pop_lru`, `max_size`, `max_memory` and `set_max_memory` write shards, and
  `snapshot_keys` reads them, without the shard lock: the stripe locks they take
  exclude each other and not the calls on one key (5129–5147, 6860–6938 of
  `cache_trait.hpp`). `ShardExclusive` excepts the four that write.
- Writers that have passed the entry check store after `quiesce()` has returned
  (7970 against 2549 of `cache_trait.hpp`); `set_multi`, `get_multi`, `promote`
  and `get_or_fetch` do not ask; `get_with_ttl` serves a closed cache.
- The capacity gate compares sizes of the whole cache taken apart. When another
  thread inserts in between, it may delete a key that was only updated, which
  "must never be rolled back" (11421–11423 against 11452–11454 of
  `cache_trait.hpp`). Critical mode stays until `set_max_memory`.
- A plain `set()` keeps the expiry of the expired item it overwrites, and
  `add()` on an expired item returns false. `pop` reads before it removes, and
  a lock-free look-up may pin between the two. `fast_get` fires no hit
  callback; `get_shared_cached` may return a stale value (4937–4948); a
  reference from `get_view` outlives its handle.
- `get_or_fetch` may store a value older than a `del` that came in between. A
  provider that fetches the same key waits for itself.

*Services.*
- The destructor marks the cache dead before it waits for the handles, and a
  handle released after that is not counted off, so the wait runs into its
  limit although every handle is gone (`cache_trait.hpp:1123` against
  1148–1154; `HandlesCounted`). A release that has counted itself off still
  reads the cache's state, when `shutdown_and_wait()` may have returned and the
  cache be gone (`core.hpp`, 3141–3152; `SafeToDestroy`).
- `periodic_worker::stop()` notifies without the mutex, so it waits for the
  worker's deadline at worst; two concurrent stops can destroy a joinable
  thread; the `start_…` calls do not ask whether the cache is closed.
- With the automatic drain off, an access can be overwritten uncounted
  (`NothingLost`), and the background pass and the owner can hand one over
  twice (`HandedOverOnce`, against 2172–2175 of `tls_ring.hpp`). The
  number of open requests can stay one too high for good, after an exit during a
  pass or when the owner answers between the flag and the count (2079–2081
  against 1651): `drain_all_threads_sync` then waits its whole limit. With three
  threads the number can be lowered for a request that is not counted yet, and
  `drain_all_threads_sync` can return early. A ring that
  overflowed is never force-flushed; `drain_all_threads_sync` discards keys;
  caches with one key type share a ring.
- The event worker takes only its own ring through `process_events`; the test
  of the log's state and its use are apart; a report may be torn; `set_config`
  resizes the log under a reader.

*Storage and expiry.*
- A full write-back queue drops its oldest entry with the record of its key,
  also while an older write of that key is at the backend. With two keys and
  room for one the old value lands last (`tiered_storage.hpp`, 963–968, against
  1057–1061; `LastMutationWins` with such a configuration).
- With a primary that is not striped, `safe_cache` for one, the callback of an
  eviction runs after the lock is gone (`cache_trait.hpp`, 2696–2697 and
  11017–11020). Another thread's `set` of that key can complete in between; the
  old value is then queued after it and written last, against
  `tiered_storage.hpp`, 1263–1268 (`LastMutationAlwaysWins`).
- A read-through may promote a value older than a concurrent set or del. In
  `HALF_OPEN` every caller is let through; `error_reset_interval` is documented
  (269) and unused; followers of a failed fetch get an empty value; concurrent
  sets may leave the tiers different.
- Jitter is added after the clamp and can exceed the maximum expiry; `flush`
  leaves the index as it is; a sweep with a batch size gives up on a busy
  stripe.

*Memory and hot keys.*
- Three guards can commit more than the budget (comment at 1417–1421 of
  `memory.hpp`; `HardCap`). The throttle flag is not cleared without a budget
  (870), nobody reads `bg_eviction_requested_`, the admission check counts the
  gauge twice, and `reset()` under guards makes the reserved count wrap.
- The slab allocator accepts a second free of a block; the peak is
  under-reported.
- Overlapping writes can leave copies of a hot key that differ for good
  (`ReplicasConverge`, against line 36 of `hot_key_replica.hpp`), and a pinned
  copy that `unregister` could not remove stays. The manager does not learn
  whether a write took place: `set()` refuses silently in critical memory mode
  and throws in a closed or quiesced cache (`cache_trait.hpp`, 2543–2556,
  2625–2629), so `replicated_set` can leave old copies beside new ones
  (`hot_key_replica.hpp`, 640–644), and a registration that is left by an
  exception leaves copies without metadata (411–415), which no `unregister`
  removes.

## 8. Working with the project

`tlc -config <run>.cfg <module>` in this directory repeats a run; the module of
each is in `PROJECT.json`. `tlapm <module>.tla` checks a proof module; the
larger ones (`EpochDomainProofs`, `HazptrDomainProofs`, `UnifiedCacheProofs`)
take between ten and twenty minutes from nothing. `USE` at the head of a proof
module names the provers that its steps try in turn; a step that names one is
given that one only. When the code changes,
`PROJECT.json` says under "map" which definition stands for which lines. A
change to an action asks for its run, for the lemma of that action in the proof
module, and for the mutants of its properties.

## 9. Not modelled

Parts of the modelled components that are left out are named in section 2 and
in the notes of `PROJECT.json`. Not modelled at all:

- `serialization.hpp`, `warm_cache.hpp`, `shared_memory_backend.hpp`: encoding,
  files and operating-system calls. What a restored snapshot does to a strategy
  is an action of three of them.
- `pooled_cache.hpp`, `compact_cache.hpp`, `chained_item.hpp`: bookkeeping over
  caches, or sequential structures behind one lock.
- `admission.hpp` and the latency histogram: pure decisions and counters.
- `atomic_shared_ptr`: a wrapper of the standard library's.
- Build support, tests, benchmarks, examples and fuzzers.
