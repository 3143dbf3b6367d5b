---------------------------- MODULE UnifiedCache ----------------------------
(***************************************************************************)
(* unified_cache (cache_trait.hpp) over a sharded mm_lru: threads calling  *)
(* the public operations at the same time.  A call is a sequence of steps: *)
(* the entry check, the drain of deferred promotions, the shard lock, the  *)
(* work under the lock, the capacity gate, the unlock and what follows it. *)
(* Reads take their handle without a lock and promote afterwards, under    *)
(* the lock if they get it at once and through the access ring otherwise.  *)
(* Calls on the whole cache (evict, pop_lru, flush, max_size, max_memory,  *)
(* set_max_memory) take the stripe locks, which the calls on one key never *)
(* look at: what they do to a shard is excluded by the shard's own lock or *)
(* not at all.                                                             *)
(*                                                                         *)
(* The access rings are one set of recorded keys, any part of which a      *)
(* drain may obtain (TlsRing has the rings).  The memory monitor, where it *)
(* is active, may refuse any write it is asked about (MemoryMonitor has    *)
(* its reasons).                                                           *)
(***************************************************************************)
EXTENDS ShardedLru

CONSTANTS
  Threads, NoThread,
  CasRetries,         \* max_retries of cas
  MaxReclaimTries,    \* kMaxReclaimTries of the capacity gate
  Menus               \* bound: what a behaviour draws from, a set of records with
                      \*   ops, keys, vals  the operations and their arguments
                      \*   cap, caps        max_size at the start, and what max_size is called with
                      \*   budget, budgets  the same of max_memory
                      \*   handles          the read_handles alive at once
                      \*   defer            config().defer_promotion
                      \*   monitor          memory_monitor::active
                      \*   soft, critical   the memory watermarks, in per cent
                      \*   policy           overflow_policy_value: "allow", "reject", "force"

ASSUME CacheAssumption == NoThread \notin Threads /\ \A m \in Menus : m.keys \subseteq Keys

VARIABLES
  mm,        \* the sharded_mm_lru
  owner,     \* per shard, the thread that holds its write lock
  stripes,   \* the thread that holds all the stripe locks
  mode,      \* closed_, quiesced_, frozen (quiesce returned), memory_critical_mode_
  pending,   \* keys recorded in access rings and not promoted yet
  oom,       \* "none", "pending" or "told": the latest out-of-memory event
  call,      \* per thread, the call in progress
  menu       \* the member of Menus this behaviour draws from

vars == <<mm, owner, stripes, mode, pending, oom, call, menu>>

Idle == [op |-> "none", at |-> "idle", todo |-> {}, val |-> NoValue, want |-> NoValue,
         before |-> 0, seen |-> 0, tries |-> 0, evt |-> FALSE]

(* What an operation does on its way.                                      *)
Expiring  == {"set_with_ttl", "set_with_absolute_expiry"}
Refusable == {"set", "set_prehashed", "add", "replace", "cas", "cas_retry"} \cup Expiring
Draining  == {"set", "set_prehashed", "add", "replace"} \cup Expiring
Rechecked == {"set", "add"} \cup Expiring
Capped    == {"set", "set_prehashed", "add"} \cup Expiring
Enforced  == {"set"} \cup Expiring
Pressing  == {"set", "set_prehashed"}
Removing  == {"del", "del_ex", "remove", "force_del", "pop"}
Unchecked == {"set_multi", "get_multi", "promote"}
KeyOps    == Refusable \cup Removing \cup Unchecked
Resizing  == {"max_size", "max_memory", "set_max_memory"}
Sweeping  == {"evict", "pop_lru", "flush"} \cup Resizing
StripeOnly == {"pop_lru"} \cup Resizing

(* The threads working on a shard: the holder of its lock, and a call on   *)
(* the whole cache that has stepped into it (the shard is in "before").    *)
Working(s) ==
  {t \in Threads : owner[s] = t \/ (call[t].at \in {"touch", "flushing"} /\ call[t].before = s)}

(* Two threads in one shard are a data race: what follows is undefined, so *)
(* the behaviour ends there.                                               *)
NoRace == \A s \in Shards : Cardinality(Working(s)) <= 1
At(t, where) == call[t].at = where /\ NoRace
Go(t, where) == call' = [call EXCEPT ![t].at = where]
Return(t) == call' = [call EXCEPT ![t] = Idle]

-----------------------------------------------------------------------------
(* Entry.  A closed or quiesced cache throws, a cache in critical memory   *)
(* mode refuses what could grow it; del and its kin ignore that verdict.   *)
pre_write_check(t, op, K, v, w) ==
  /\ ~mode.closed /\ ~mode.quiesced
  /\ call' = [call EXCEPT ![t] =
       [Idle EXCEPT !.op = op, !.todo = K, !.val = v, !.want = w,
                    !.at = IF mode.critical /\ op \in Refusable THEN "refused"
                           ELSE IF op \in Draining THEN "drain"
                           ELSE IF op = "cas_retry" THEN "peek" ELSE "want"]]

(* set_multi, get_multi and promote are called without the check.          *)
Unguarded(t, op, K, v) ==
  call' = [call EXCEPT ![t] = [Idle EXCEPT !.op = op, !.todo = K, !.val = v, !.at = "want"]]

BeginKey(t) ==
  /\ At(t, "idle")
  /\ \E op \in menu.ops \cap (KeyOps \ Unchecked), k \in menu.keys, v \in menu.vals, w \in menu.vals :
       /\ op \in Removing => v = w
       /\ op \notin {"cas", "cas_retry"} => w = v
       /\ pre_write_check(t, op, {k}, v, w)
  /\ UNCHANGED <<mm, owner, stripes, mode, pending, oom, menu>>

BeginMulti(t) ==
  /\ At(t, "idle")
  /\ \E op \in menu.ops \cap Unchecked,
     K \in (SUBSET menu.keys) \ {{}}, v \in menu.vals :
       /\ op = "promote" => Cardinality(K) = 1
       /\ Unguarded(t, op, K, v)
  /\ UNCHANGED <<mm, owner, stripes, mode, pending, oom, menu>>

(* The refusal is reported through the reject callback, or not at all.     *)
report_write_rejected(t) ==
  /\ At(t, "refused") /\ Return(t)
  /\ UNCHANGED <<mm, owner, stripes, mode, pending, oom, menu>>

(* promote_keys: the keys whose shard lock can be had are moved to the     *)
(* front, the others go back to the ring.  (Here and in the other steps    *)
(* that enter and leave a shard at once, a shard that a call without the   *)
(* lock has stepped into counts as taken: that race shows with the longer  *)
(* steps.)                                                                 *)
promote_keys(m, K) == FoldSet(LAMBDA k, n : mm_promote(n, k), m, K)
Reachable(K) == {k \in K : Working(ShardOf[k]) = {}}

maybe_drain_tls_ring_pre_evict(t) ==
  /\ At(t, "drain") /\ Go(t, "want")
  /\ \E K \in IF menu.defer THEN SUBSET pending ELSE {{}} :
       mm' = promote_keys(mm, Reachable(K)) /\ pending' = pending \ Reachable(K)
  /\ UNCHANGED <<owner, stripes, mode, oom, menu>>

(* drain_access_ring, from the background worker.                          *)
drain_access_ring ==
  /\ NoRace /\ pending # {} /\ ~mode.closed
  /\ \E K \in (SUBSET pending) \ {{}} :
       /\ Reachable(K) = K
       /\ mm' = promote_keys(mm, K) /\ pending' = pending \ K
  /\ UNCHANGED <<owner, stripes, mode, oom, call, menu>>

acquire_write_lock_for_key(t) ==
  /\ At(t, "want")
  /\ \E k \in call[t].todo : /\ owner[ShardOf[k]] = NoThread
                             /\ owner' = [owner EXCEPT ![ShardOf[k]] = t]
  /\ Go(t, "in")
  /\ UNCHANGED <<mm, stripes, mode, pending, oom, menu>>

Key(t) == CHOOSE k \in call[t].todo : owner[ShardOf[k]] = t
Mine(t) == {k \in call[t].todo : owner[ShardOf[k]] = t}

-----------------------------------------------------------------------------
(* Under the shard lock.                                                   *)
Doing(t, op) == At(t, "in") /\ call[t].op = op

(* apply_overflow_policy_for_set: a new key over a full shard is refused,  *)
(* or makes the tail go whether it is held or not.                         *)
Overflows(m, k) == k \notin Visible(m) /\ ShardSize(m, ShardOf[k]) >= m.quota[ShardOf[k]]
Admitted(t) == ~(menu.policy = "reject" /\ Overflows(mm, Key(t)))
apply_overflow_policy_for_set(m, k) ==
  IF menu.policy = "force" /\ Overflows(m, k) /\ ShardSize(m, ShardOf[k]) > 0
  THEN mm_force_del(m, peek_lru_tail_key(m, ShardOf[k])) ELSE m

(* The work is done on m: its size counts from before the insertion.       *)
Store(t, m, next) ==
  /\ mm' = next
  /\ call' = [call EXCEPT ![t].before = size(m),
                          ![t].at = IF call[t].op \in Enforced THEN "enforce"
                                    ELSE IF call[t].op \in Pressing THEN "press" ELSE "leave"]
  /\ UNCHANGED <<owner, stripes, mode, pending, oom, menu>>

(* recheck_shutdown_in_lock: set, set_with_ttl and add look at closed_     *)
(* again, the others do not.                                               *)
recheck_shutdown_in_lock(t) ==
  /\ At(t, "in") /\ call[t].op \in Rechecked /\ mode.closed
  /\ Go(t, "leave")
  /\ UNCHANGED <<mm, owner, stripes, mode, pending, oom, menu>>

Open(t) == call[t].op \in Rechecked => ~mode.closed

(* check_memory_admission: the monitor says no (a cas asks it once it has  *)
(* found the value it expects).                                            *)
Matches(t, k) == k \in Visible(mm) /\ mm.val[k] = call[t].want
check_memory_admission(t) ==
  /\ At(t, "in") /\ menu.monitor
  /\ \/ call[t].op \in Capped /\ Open(t)
     \/ call[t].op \in {"cas", "cas_retry"} /\ Matches(t, Key(t))
  /\ Go(t, "leave")
  /\ UNCHANGED <<mm, owner, stripes, mode, pending, oom, menu>>

RejectInsert(t) ==
  /\ At(t, "in") /\ call[t].op \in Capped /\ Open(t) /\ ~Admitted(t)
  /\ Go(t, "leave")
  /\ UNCHANGED <<mm, owner, stripes, mode, pending, oom, menu>>

StoreBy(t, Op(_, _, _)) ==
  /\ Open(t) /\ Admitted(t)
  /\ LET m == apply_overflow_policy_for_set(mm, Key(t))
     IN  Store(t, m, Op(m, Key(t), call[t].val))

set(t) == Doing(t, "set") /\ StoreBy(t, mm_set)
set_prehashed(t) == Doing(t, "set_prehashed") /\ StoreBy(t, mm_set)

(* The expiry is computed before the call gets the lock: it can be over by *)
(* then.  A duration of zero means none.                                   *)
set_with_expiry_ns_impl(t) ==
  \E ttl \in {"none", "live", "dead"} :
    StoreBy(t, LAMBDA m, k, v : mm_set_with_expiry(m, k, v, ttl))
set_with_ttl(t) == Doing(t, "set_with_ttl") /\ set_with_expiry_ns_impl(t)
set_with_absolute_expiry(t) ==
  Doing(t, "set_with_absolute_expiry") /\ set_with_expiry_ns_impl(t)

add(t) == Doing(t, "add") /\ StoreBy(t, mm_add)
replace(t) == Doing(t, "replace") /\ Store(t, mm, mm_replace(mm, Key(t), call[t].val))

(* cas looks again under the lock and stores over the value it expects.    *)
cas(t) ==
  /\ Doing(t, "cas")
  /\ Store(t, mm, IF Matches(t, Key(t)) THEN mm_set_held(mm, Key(t), call[t].val) ELSE mm)

(* cas with retries looks before it takes the lock and starts over when    *)
(* the value has changed in between, three times in all; "before" counts.  *)
CasPeek(t) ==
  /\ At(t, "peek")
  /\ \E k \in call[t].todo :
       call' = [call EXCEPT ![t] = IF Matches(t, k) /\ @.before < CasRetries
                                   THEN [@ EXCEPT !.at = "want", !.before = call[t].before + 1] ELSE Idle]
  /\ UNCHANGED <<mm, owner, stripes, mode, pending, oom, menu>>

(* Mutant: the second look, under the lock, is missing.                    *)
cas_retryBlind(t) ==
  /\ Doing(t, "cas_retry")
  /\ Store(t, mm, mm_set(mm, Key(t), call[t].val))

cas_retry(t) ==
  /\ Doing(t, "cas_retry")
  /\ \/ /\ Matches(t, Key(t))
        /\ Store(t, mm, mm_set_held(mm, Key(t), call[t].val))
     \/ /\ ~Matches(t, Key(t))
        /\ owner' = [owner EXCEPT ![ShardOf[Key(t)]] = NoThread]
        /\ Go(t, "peek")
        /\ UNCHANGED <<mm, stripes, mode, pending, oom, menu>>

del(t) == Doing(t, "del") /\ Store(t, mm, mm_del(mm, Key(t)))
remove(t) == Doing(t, "remove") /\ Store(t, mm, mm_del(mm, Key(t)))

(* del_ex takes an expired item for absent and leaves it.                  *)
del_ex(t) ==
  Doing(t, "del_ex") /\ Store(t, mm, IF Key(t) \in Visible(mm) THEN mm_del(mm, Key(t)) ELSE mm)
pop(t) == Doing(t, "pop") /\ Store(t, mm, mm_pop(mm, Key(t)))
force_del(t) == Doing(t, "force_del") /\ Store(t, mm, mm_force_del(mm, Key(t)))

(* set_multi, get_multi: the keys of one shard after the other, without    *)
(* those the monitor refuses.                                              *)
set_multi(t) ==
  /\ Doing(t, "set_multi")
  /\ \E K \in SUBSET Mine(t) :
       /\ K = Mine(t) \/ menu.monitor
       /\ Store(t, mm, FoldSet(LAMBDA k, m : mm_set(m, k, call[t].val), mm, K))
get_multi(t) ==
  /\ Doing(t, "get_multi")
  /\ Store(t, mm, FoldSet(LAMBDA k, m :
                            IF k \in Visible(m) /\ Handles(m) < menu.handles
                            THEN mm_promote(peek_for_get(m, k), k) ELSE m, mm, Mine(t)))
promote(t) == Doing(t, "promote") /\ Store(t, mm, promote_keys(mm, Mine(t)))

-----------------------------------------------------------------------------
(* enforce_capacity_after_insert, which counts every shard: one eviction   *)
(* at a time while the cache is over max_size_, from the best shard if its *)
(* lock is free; the caller holds the lock of its own.  Each try compares  *)
(* the size of the whole cache before and after it, whatever other threads *)
(* did in between, and one without progress is the last.  If the cache is  *)
(* still over, and larger than before the insertion, the key goes again.   *)
CanEvict(m) ==
  /\ size(m) > 0 /\ Working(BestShard(m)) = {} /\ Evictable(m, BestShard(m)) # {}
evict_lru(m) == IF CanEvict(m) THEN EvictFrom(m, BestShard(m)) ELSE m

AfterGate(t) == Go(t, IF call[t].op \in Pressing THEN "press" ELSE "leave")

EnforceDone(t) ==
  /\ At(t, "enforce") /\ size(mm) <= mm.cap /\ AfterGate(t)
  /\ UNCHANGED <<mm, owner, stripes, mode, pending, oom, menu>>

EnforceTry(t) ==
  /\ At(t, "enforce") /\ size(mm) > mm.cap
  /\ call' = [call EXCEPT ![t].at = "reclaim", ![t].seen = size(mm)]
  /\ UNCHANGED <<mm, owner, stripes, mode, pending, oom, menu>>

EnforceEvict(t) ==
  /\ At(t, "reclaim") /\ Go(t, "progress")
  /\ mm' = evict_lru(mm)
  /\ UNCHANGED <<owner, stripes, mode, pending, oom, menu>>

EnforceProgress(t) ==
  /\ At(t, "progress")
  /\ call' = [call EXCEPT ![t].tries = @ + 1,
       ![t].at = IF size(mm) < call[t].seen /\ call[t].tries + 1 < MaxReclaimTries
                 THEN "enforce" ELSE "rollback"]
  /\ UNCHANGED <<mm, owner, stripes, mode, pending, oom, menu>>

EnforceRollback(t) ==
  /\ At(t, "rollback") /\ AfterGate(t)
  /\ mm' = IF size(mm) > mm.cap /\ size(mm) > call[t].before
           THEN mm_force_del(mm, Key(t)) ELSE mm
  /\ UNCHANGED <<owner, stripes, mode, pending, oom, menu>>

(* check_memory_pressure: above the critical watermark the cache refuses   *)
(* writes, below the soft one it takes them again.  The thread that enters *)
(* the mode reports it, once it has let the lock go.                       *)
Above(m, percent) == 100 * size(m) >= percent * m.budget
Pressure(m, c) ==
  IF Above(m, menu.critical) THEN TRUE ELSE IF ~Above(m, menu.soft) THEN FALSE ELSE c
Entered(m, c) == Pressure(m, c) /\ ~c
Forgotten == IF mode.critical /\ ~Pressure(mm, TRUE) /\ oom = "told" THEN "none" ELSE oom

(* Mutant: only set sends the event.                                       *)
check_memory_pressureQuiet(t) ==
  /\ At(t, "press")
  /\ mode' = [mode EXCEPT !.critical = Pressure(mm, @)] /\ oom' = Forgotten
  /\ call' = [call EXCEPT ![t].at = "leave",
                          ![t].evt = call[t].op = "set" /\ Entered(mm, mode.critical)]
  /\ UNCHANGED <<mm, owner, stripes, pending, menu>>

check_memory_pressure(t) ==
  /\ At(t, "press")
  /\ mode' = [mode EXCEPT !.critical = Pressure(mm, @)] /\ oom' = Forgotten
  /\ call' = [call EXCEPT ![t].at = "leave", ![t].evt = Entered(mm, mode.critical)]
  /\ UNCHANGED <<mm, owner, stripes, pending, menu>>

unlock(t) ==
  /\ At(t, "leave")
  /\ owner' = [s \in Shards |-> IF owner[s] = t THEN NoThread ELSE owner[s]]
  /\ call' = [call EXCEPT ![t] =
       IF call[t].todo # Mine(t) THEN [@ EXCEPT !.todo = call[t].todo \ Mine(t), !.at = "want"]
       ELSE IF call[t].evt THEN [@ EXCEPT !.at = "notify"] ELSE Idle]
  /\ UNCHANGED <<mm, stripes, mode, pending, oom, menu>>

(* dispatch_oom_event: to the handler at once, or to the slot the callback *)
(* worker empties.                                                         *)
dispatch_oom_event(t) ==
  /\ At(t, "notify") /\ Return(t)
  /\ oom' \in {"pending", "told"}
  /\ UNCHANGED <<mm, owner, stripes, mode, pending, menu>>

drain_oom_events ==
  /\ NoRace /\ oom = "pending" /\ oom' = "told"
  /\ UNCHANGED <<mm, owner, stripes, mode, pending, call, menu>>

-----------------------------------------------------------------------------
(* Reads: the handle first, without a lock.                                *)
Hit(t, op, how) ==
  /\ At(t, "idle") /\ op \in menu.ops
  /\ \E k \in Visible(mm) :
       /\ Handles(mm) < menu.handles
       /\ mm' = peek_for_get(mm, k)
       /\ call' = [call EXCEPT ![t] = [Idle EXCEPT !.op = how, !.at = "hit", !.todo = {k}]]
  /\ UNCHANGED <<owner, stripes, mode, pending, oom, menu>>

get(t) == ~mode.closed /\ Hit(t, "get", "get")
try_get(t) == ~mode.closed /\ Hit(t, "try_get", "get")
get_prehashed(t) == ~mode.closed /\ Hit(t, "get_prehashed", "get")
fast_get(t) == ~mode.closed /\ Hit(t, "fast_get", "fast_get")

(* get_with_ttl serves a closed cache as well.                             *)
get_with_ttl(t) == Hit(t, "get_with_ttl", "get")

(* bulk_get: key after key, always through the ring.                       *)
bulk_get(t) ==
  /\ At(t, "idle") /\ "bulk_get" \in menu.ops /\ ~mode.closed
  /\ \E K \in (SUBSET menu.keys) \ {{}} :
       call' = [call EXCEPT ![t] = [Idle EXCEPT !.op = "bulk_get", !.at = "bulk", !.todo = K]]
  /\ UNCHANGED <<mm, owner, stripes, mode, pending, oom, menu>>
BulkHit(t) ==
  /\ At(t, "bulk")
  /\ \E k \in call[t].todo :
       /\ LET hit == k \in Visible(mm) /\ Handles(mm) < menu.handles IN
            /\ mm' = IF hit THEN peek_for_get(mm, k) ELSE mm
            /\ pending' = IF hit THEN pending \cup {k} ELSE pending
       /\ call' = [call EXCEPT ![t] = IF @.todo = {k} THEN Idle ELSE [@ EXCEPT !.todo = call[t].todo \ {k}]]
  /\ UNCHANGED <<owner, stripes, mode, oom, menu>>

(* Then the promotion: under the lock if it is free at once, and through   *)
(* the access ring when it is not, when promotions are deferred, and in    *)
(* fast_get always.                                                        *)
PromoteHit(t) ==
  /\ At(t, "hit") /\ call[t].op = "get" /\ ~menu.defer
  /\ Reachable(call[t].todo) = call[t].todo
  /\ mm' = promote_keys(mm, call[t].todo) /\ Return(t)
  /\ UNCHANGED <<owner, stripes, mode, pending, oom, menu>>

record_access_in_ring(t) ==
  /\ At(t, "hit")
  /\ call[t].op = "get" /\ ~menu.defer => Reachable(call[t].todo) = {}
  /\ pending' = pending \cup call[t].todo /\ Return(t)
  /\ UNCHANGED <<mm, owner, stripes, mode, oom, menu>>

Release ==
  /\ NoRace
  /\ \/ \E k \in Keys : mm.held[k] > 0 /\ mm' = ReleaseItem(mm, k)
     \/ \E s \in Shards : \E i \in DOMAIN mm.loose[s] : mm' = ReleaseLoose(mm, s, i)
  /\ UNCHANGED <<owner, stripes, mode, pending, oom, call, menu>>

(* An item's time comes, and the cleaner's turn in a shard.                *)
Expire ==
  /\ NoRace
  /\ \E k \in Keys : mm.ttl[k] = "live" /\ mm' = [mm EXCEPT !.ttl[k] = "dead"]
  /\ UNCHANGED <<owner, stripes, mode, pending, oom, call, menu>>

evict_expired(s) ==
  /\ NoRace /\ Working(s) = {} /\ ~mode.closed
  /\ SweepShard(mm, s) # mm /\ mm' = SweepShard(mm, s)
  /\ UNCHANGED <<owner, stripes, mode, pending, oom, call, menu>>

-----------------------------------------------------------------------------
(* Calls on the whole cache.  acquire_write_lock takes every stripe.  The  *)
(* calls that change a limit ask neither whether the cache is closed nor   *)
(* whether it is quiesced, and drain nothing.                              *)
BeginSweep(t) ==
  /\ At(t, "idle")
  /\ \E op \in menu.ops \cap Sweeping :
       /\ op \notin Resizing => ~mode.closed /\ ~mode.quiesced
       /\ call' = [call EXCEPT ![t] =
            [Idle EXCEPT !.op = op, !.at = IF op \in Resizing THEN "want" ELSE "drain"]]
  /\ UNCHANGED <<mm, owner, stripes, mode, pending, oom, menu>>

acquire_write_lock(t) ==
  /\ At(t, "want") /\ call[t].op \in Sweeping /\ stripes = NoThread
  /\ stripes' = t
  /\ call' = [call EXCEPT ![t].at = "sweep", ![t].before = 1]
  /\ UNCHANGED <<mm, owner, mode, pending, oom, menu>>

EndSweep(t) ==
  /\ At(t, "swept") /\ stripes' = NoThread
  /\ IF call[t].op = "set_max_memory" THEN Go(t, "recheck") ELSE Return(t)
  /\ UNCHANGED <<mm, owner, mode, pending, oom, menu>>

Sweep(t, op) == At(t, "sweep") /\ call[t].op = op

(* evict: one item, from the best shard, if its lock is free.              *)
evict(t) ==
  /\ Sweep(t, "evict") /\ Go(t, "swept")
  /\ mm' = evict_lru(mm)
  /\ UNCHANGED <<owner, stripes, mode, pending, oom, menu>>

(* flush: the shards in turn, each under its lock.                         *)
LockShard(t, s) == owner[s] = NoThread /\ owner' = [owner EXCEPT ![s] = t]

(* Mutant: flush relies on the stripe locks.                               *)
flushUnlocked(t) ==
  /\ Sweep(t, "flush") /\ call[t].before \in Shards
  /\ Go(t, "flushing")
  /\ UNCHANGED <<mm, owner, stripes, mode, pending, oom, menu>>

flush(t) ==
  /\ Sweep(t, "flush") /\ call[t].before \in Shards
  /\ LockShard(t, call[t].before)
  /\ Go(t, "flushing")
  /\ UNCHANGED <<mm, stripes, mode, pending, oom, menu>>

flush_shard(t) ==
  /\ At(t, "flushing")
  /\ mm' = FlushShard(mm, call[t].before)
  /\ owner' = [s \in Shards |-> IF owner[s] = t THEN NoThread ELSE owner[s]]
  /\ call' = [call EXCEPT ![t].at = IF @ = "flushing" /\ call[t].before + 1 \in Shards
                                    THEN "sweep" ELSE "swept",
                          ![t].before = @ + 1]
  /\ UNCHANGED <<stripes, mode, pending, oom, menu>>

(* pop_lru and the calls that change a limit step into shards with no      *)
(* shard lock at all.                                                      *)
PopFrom(t) ==
  /\ Sweep(t, "pop_lru")
  /\ call' = [call EXCEPT ![t].at = IF size(mm) = 0 THEN "swept" ELSE "touch",
                          ![t].before = IF size(mm) = 0 THEN @ ELSE FirstShard(mm)]
  /\ UNCHANGED <<mm, owner, stripes, mode, pending, oom, menu>>

pop_lru(t) ==
  /\ At(t, "touch") /\ call[t].op = "pop_lru"
  /\ mm' = mm_pop_lru(mm, call[t].before) /\ Go(t, "swept")
  /\ UNCHANGED <<owner, stripes, mode, pending, oom, menu>>

max_size(t) ==
  /\ Sweep(t, "max_size") /\ Go(t, "touch")
  /\ \E n \in menu.caps : mm' = [mm EXCEPT !.cap = n]
  /\ UNCHANGED <<owner, stripes, mode, pending, oom, menu>>

max_memory(t) ==
  /\ Sweep(t, "max_memory") \/ Sweep(t, "set_max_memory")
  /\ Go(t, "touch")
  /\ \E b \in menu.budgets : mm' = [mm EXCEPT !.budget = b]
  /\ UNCHANGED <<owner, stripes, mode, pending, oom, menu>>

(* Shard after shard gets its part of the limit and shrinks to it.         *)
NextShard(t) ==
  call' = [call EXCEPT ![t].at = IF call[t].before + 1 \in Shards THEN @ ELSE "swept",
                       ![t].before = @ + 1]

distribute_max_size(t) ==
  /\ At(t, "touch") /\ call[t].op = "max_size"
  /\ LET s == call[t].before
     IN  mm' = shrink_to_fit([mm EXCEPT !.quota[s] = QuotaOf(mm.cap, s)], s)
  /\ NextShard(t)
  /\ UNCHANGED <<owner, stripes, mode, pending, oom, menu>>

distribute_max_memory(t) ==
  /\ At(t, "touch") /\ call[t].op \in {"max_memory", "set_max_memory"}
  /\ LET s == call[t].before
     IN  mm' = shrink_to_fit([mm EXCEPT !.share[s] = QuotaOf(mm.budget, s)], s)
  /\ NextShard(t)
  /\ UNCHANGED <<owner, stripes, mode, pending, oom, menu>>

(* Once set_max_memory has let the stripes go it looks at the pressure.    *)
set_max_memory(t) ==
  /\ At(t, "recheck")
  /\ mode' = [mode EXCEPT !.critical = Pressure(mm, @)] /\ oom' = Forgotten
  /\ call' = [call EXCEPT ![t] =
       IF Entered(mm, mode.critical) THEN [@ EXCEPT !.at = "notify"] ELSE Idle]
  /\ UNCHANGED <<mm, owner, stripes, pending, menu>>

-----------------------------------------------------------------------------
(* Lifecycle.  shutdown closes first, waits for nobody, and promotes what  *)
(* is left in the rings.                                                   *)
shutdown(t) ==
  /\ "shutdown" \in menu.ops /\ At(t, "idle") /\ ~mode.closed
  /\ mode' = [mode EXCEPT !.closed = TRUE]
  /\ call' = [call EXCEPT ![t] = [Idle EXCEPT !.op = "shutdown", !.at = "last_drain"]]
  /\ UNCHANGED <<mm, owner, stripes, pending, oom, menu>>

LastDrain(t) ==
  /\ At(t, "last_drain") /\ Return(t)
  /\ mm' = promote_keys(mm, Reachable(pending)) /\ pending' = pending \ Reachable(pending)
  /\ UNCHANGED <<owner, stripes, mode, oom, menu>>

(* quiesce turns writers away and waits until no handle is left; when it   *)
(* gives up it lets the writers in again.                                  *)
quiesce(t) ==
  /\ "quiesce" \in menu.ops /\ At(t, "idle") /\ ~mode.closed /\ ~mode.quiesced
  /\ mode' = [mode EXCEPT !.quiesced = TRUE]
  /\ call' = [call EXCEPT ![t] = [Idle EXCEPT !.op = "quiesce", !.at = "await"]]
  /\ UNCHANGED <<mm, owner, stripes, pending, oom, menu>>

wait_for_handles_to_drain(t) ==
  /\ At(t, "await") /\ Return(t)
  /\ \/ Handles(mm) = 0 /\ mode' = [mode EXCEPT !.frozen = TRUE]
     \/ Handles(mm) > 0 /\ mode' = [mode EXCEPT !.quiesced = FALSE]
  /\ UNCHANGED <<mm, owner, stripes, pending, oom, menu>>

resume ==
  /\ NoRace /\ mode.frozen
  /\ mode' = [mode EXCEPT !.quiesced = FALSE, !.frozen = FALSE]
  /\ UNCHANGED <<mm, owner, stripes, pending, oom, call, menu>>

-----------------------------------------------------------------------------
Init ==
  /\ menu \in Menus /\ mm = Empty(menu.cap, menu.budget)
  /\ owner = [s \in Shards |-> NoThread] /\ stripes = NoThread
  /\ mode = [closed |-> FALSE, quiesced |-> FALSE, frozen |-> FALSE, critical |-> FALSE]
  /\ pending = {} /\ oom = "none" /\ call = [t \in Threads |-> Idle]

Enter(t) == BeginKey(t) \/ BeginMulti(t) \/ BeginSweep(t) \/ get(t) \/ try_get(t)
              \/ get_prehashed(t) \/ fast_get(t) \/ get_with_ttl(t) \/ bulk_get(t)
              \/ shutdown(t) \/ quiesce(t)
Body(t) == set(t) \/ set_prehashed(t) \/ set_with_ttl(t) \/ set_with_absolute_expiry(t)
             \/ add(t) \/ replace(t) \/ cas(t) \/ cas_retry(t)
             \/ del(t) \/ remove(t) \/ del_ex(t) \/ pop(t) \/ force_del(t) \/ set_multi(t) \/ get_multi(t) \/ promote(t)
Step(t) ==
  \/ report_write_rejected(t) \/ maybe_drain_tls_ring_pre_evict(t)
  \/ acquire_write_lock_for_key(t) \/ acquire_write_lock(t)
  \/ recheck_shutdown_in_lock(t) \/ check_memory_admission(t) \/ RejectInsert(t) \/ Body(t)
  \/ EnforceDone(t) \/ EnforceTry(t) \/ EnforceEvict(t) \/ EnforceProgress(t)
  \/ EnforceRollback(t)
  \/ check_memory_pressure(t) \/ unlock(t) \/ dispatch_oom_event(t)
  \/ CasPeek(t) \/ BulkHit(t) \/ PromoteHit(t) \/ record_access_in_ring(t)
  \/ evict(t) \/ flush(t) \/ flush_shard(t) \/ PopFrom(t) \/ pop_lru(t)
  \/ max_size(t) \/ distribute_max_size(t) \/ max_memory(t) \/ distribute_max_memory(t)
  \/ EndSweep(t) \/ set_max_memory(t)
  \/ LastDrain(t) \/ wait_for_handles_to_drain(t)
Background ==
  drain_access_ring \/ drain_oom_events \/ Release \/ Expire \/ resume
    \/ \E s \in Shards : evict_expired(s)

(* The cache rests: closed with no call left, or after a race.             *)
Rest ==
  /\ \/ ~NoRace
     \/ \A t \in Threads : call[t] = Idle
  /\ UNCHANGED vars

Next == Background \/ Rest \/ \E t \in Threads : Enter(t) \/ Step(t)
Spec == Init /\ [][Next]_vars

-----------------------------------------------------------------------------
(* A thread holds a shard lock exactly while its call is at a step under   *)
(* that lock, on every path out of the call, and the stripes exactly while *)
(* it sweeps.                                                              *)
Locking == {"in", "enforce", "reclaim", "progress", "rollback", "press", "leave", "flushing"}
Sweeps == {"sweep", "touch", "flushing", "swept"}
LocksHeld ==
  \A t \in Threads : /\ call[t].at \in Locking <=> \E s \in Shards : owner[s] = t
                     /\ call[t].at \in Sweeps <=> stripes = t

(* Structure, from states of the shards to the steps of the calls: an item *)
(* is in its own shard, once; only cached items have a value, an expiry or *)
(* handles; the handles within their bound; the locks with the steps.      *)
CacheBooks ==
  /\ \A s \in Shards : \A i, j \in DOMAIN mm.lru[s] :
       /\ ShardOf[mm.lru[s][i]] = s
       /\ mm.lru[s][i] = mm.lru[s][j] => i = j
  /\ \A k \in Keys : k \in Cached(mm) <=> mm.val[k] # NoValue
  /\ \A k \in Keys \ Cached(mm) : mm.held[k] = 0 /\ mm.ttl[k] = "none"
  /\ Handles(mm) \in 0..menu.handles
  /\ LocksHeld

(* Two threads in one shard at once: one of them is pop_lru, max_size,     *)
(* max_memory or set_max_memory, which go into the shards under the stripe *)
(* locks alone.  The keyed calls, flush and evict never meet.              *)
ShardExclusive ==
  \A s \in Shards : Cardinality(Working(s)) > 1 =>
    \E t \in Working(s) : call[t].op \in StripeOnly

(* A shard grows only within its quota and its share of the memory,        *)
(* whichever call makes it grow: the insertion that finds only held items  *)
(* gives up instead.                                                       *)
GrowthWithinQuota ==
  [][\A s \in Shards : ShardSize(mm', s) > ShardSize(mm, s)
       => ShardSize(mm', s) <= mm'.quota[s] /\ ShardSize(mm', s) <= mm'.share[s]]_vars

(* Critical mode never goes unnoticed: the handler was told, the event is  *)
(* in its slot, or the thread that entered the mode is still to send it.   *)
CriticalReported ==
  mode.critical => oom # "none" \/ \E t \in Threads : call[t].evt \/ call[t].at = "notify"

(* A value appears under its key only by the thread that holds the shard's *)
(* lock and brought that value, and a cas puts it over the value it was    *)
(* told to expect, whatever happened between the caller's read and the     *)
(* lock.                                                                   *)
WrittenByHolder ==
  [][\A k \in Keys : mm.val[k] # mm'.val[k] /\ mm'.val[k] # NoValue
       => \E t \in Threads : /\ owner[ShardOf[k]] = t /\ call[t].val = mm'.val[k]
                             /\ call[t].op \in {"cas", "cas_retry"} => mm.val[k] = call[t].want]_vars
=============================================================================
