----------------------------- MODULE ShardedLru -----------------------------
(***************************************************************************)
(* sharded_mm_lru (mm.hpp): a cache split into shards, each an mm_lru with *)
(* its own quota and its own exclusive lock, and what the cache layer above *)
(* does to it.  The module is a library of operators on the record m:      *)
(*   lru[s]   the keys of shard s, most recently used first                *)
(*   val[k]   the cached value, NoValue when k is not cached               *)
(*   ttl[k]   "none", "live" (expires later) or "dead" (expired, not swept)*)
(*   held[k]  the read_handles on the item cached under k                  *)
(*   loose[s] pending_deletion_: per item that was removed while held, the *)
(*            read_handles still on it                                     *)
(*   cap      max_size_, and quota[s], shard s's part of it                *)
(*   budget   max_memory_, and share[s], shard s's part of it              *)
(* An item weighs one unit of memory.                                      *)
(* A shard is mm_lru with its refresh time at 0, no insertion point and no *)
(* eviction predicate; what those add is modelled in MmLru.                *)
(***************************************************************************)
EXTENDS Integers, Sequences, FiniteSets, FiniteSetsExt

CONSTANTS
  Keys, Values, NoValue,
  Shards,     \* 1 .. num_shards_
  ShardOf,    \* shard_for: the shard each key hashes to
  MaxPending  \* max_pending_deletion of a shard, 0 for none

ASSUME ShardAssumption ==
  /\ Shards = 1 .. Cardinality(Shards) /\ Shards # {}
  /\ ShardOf \in [Keys -> Shards]
  /\ NoValue \notin Values /\ MaxPending \in Nat

(* distribute_max_size and distribute_max_memory: the remainder goes to    *)
(* the first shards.                                                       *)
QuotaOf(n, s) ==
  n \div Cardinality(Shards) + (IF s <= n % Cardinality(Shards) THEN 1 ELSE 0)

Empty(n, b) ==
  [lru |-> [s \in Shards |-> <<>>], val |-> [k \in Keys |-> NoValue],
   ttl |-> [k \in Keys |-> "none"], held |-> [k \in Keys |-> 0],
   loose |-> [s \in Shards |-> <<>>],
   cap |-> n, quota |-> [s \in Shards |-> QuotaOf(n, s)],
   budget |-> b, share |-> [s \in Shards |-> QuotaOf(b, s)]]

shard_for(k) == ShardOf[k]
ShardSize(m, s) == Len(m.lru[s])
size(m) == FoldSet(LAMBDA s, n : n + ShardSize(m, s), 0, Shards)
Cached(m) == UNION {Range(m.lru[s]) : s \in Shards}

(* contains, peek and get take an expired item for absent.                 *)
Visible(m) == {k \in Cached(m) : m.ttl[k] # "dead"}
Handles(m) == FoldSet(LAMBDA k, n : n + m.held[k], 0, Keys)
                + FoldSet(LAMBDA s, n : n + FoldFunction(+, 0, m.loose[s]), 0, Shards)

Without(q, k) == SelectSeq(q, LAMBDA x : x # k)

(* An item leaves its shard; while there are handles on it, it waits.      *)
Awaiting(q, n) == IF n > 0 THEN Append(q, n) ELSE q

(* Mutant: the expiry of the item stays behind.                            *)
DropKeepsExpiry(m, k) ==
  [m EXCEPT !.lru[ShardOf[k]] = Without(@, k), !.val[k] = NoValue,
            !.held[k] = 0, !.loose[ShardOf[k]] = Awaiting(@, m.held[k])]

Drop(m, k) ==
  [m EXCEPT !.lru[ShardOf[k]] = Without(@, k), !.val[k] = NoValue, !.ttl[k] = "none",
            !.held[k] = 0, !.loose[ShardOf[k]] = Awaiting(@, m.held[k])]

mm_promote(m, k) ==
  IF k \in Cached(m)
  THEN [m EXCEPT !.lru[ShardOf[k]] = <<k>> \o Without(@, k)] ELSE m

(* A handle to the item, taken without a lock.                             *)
peek_for_get(m, k) == [m EXCEPT !.held[k] = @ + 1]

(* A handle is released, on a cached item or on one that only waits for it *)
(* (cleanup_pending_deletion then frees the item).                         *)
ReleaseItem(m, k) == [m EXCEPT !.held[k] = @ - 1]
ReleaseLoose(m, s, i) ==
  [m EXCEPT !.loose[s] = SelectSeq([@ EXCEPT ![i] = @ - 1], LAMBDA n : n > 0)]

-----------------------------------------------------------------------------
(* One shard's eviction: the oldest item nobody holds.                     *)
Evictable(m, s) == {k \in Range(m.lru[s]) : m.held[k] = 0}
Age(m, k) == CHOOSE i \in DOMAIN m.lru[ShardOf[k]] : m.lru[ShardOf[k]][i] = k
Oldest(m, s) ==
  CHOOSE k \in Evictable(m, s) : \A x \in Evictable(m, s) : Age(m, x) <= Age(m, k)
EvictFrom(m, s) == IF Evictable(m, s) = {} THEN m ELSE Drop(m, Oldest(m, s))

(* Evicts until n items are left, or none that could go.                   *)
Trim(m, s, n) ==
  LET over == ShardSize(m, s) - n
      gone == {k \in Evictable(m, s) :
                 Cardinality({x \in Evictable(m, s) : Age(m, x) >= Age(m, k)}) <= over}
  IN  FoldSet(LAMBDA k, r : Drop(r, k), m, gone)

(* should_evict: over the quota or over the share.                         *)
shrink_to_fit(m, s) == Trim(m, s, Min({m.quota[s], m.share[s]}))

(* Mutant: links the item whether the eviction made room or not.           *)
LinkNewAnyway(m, k, v, ttl) ==
  [m EXCEPT !.lru[ShardOf[k]] = <<k>> \o @, !.val[k] = v, !.ttl[k] = ttl]

LinkNew(m, k, v, ttl) ==
  IF ShardSize(m, ShardOf[k]) >= Min({m.quota[ShardOf[k]], m.share[ShardOf[k]]}) THEN m
  ELSE [m EXCEPT !.lru[ShardOf[k]] = <<k>> \o @, !.val[k] = v, !.ttl[k] = ttl]

(* insert_new evicts one item at the quota and gives up where that did not *)
(* make room, then as many as the item's memory takes, and gives up again  *)
(* where they cannot go.                                                   *)
MakeRoom(m, s) == IF ShardSize(m, s) >= m.quota[s] THEN EvictFrom(m, s) ELSE m
MakeSpace(m, s) == IF ShardSize(m, s) >= m.quota[s] THEN m ELSE Trim(m, s, m.share[s] - 1)
insert_new(m, k, v, ttl) ==
  LinkNew(MakeSpace(MakeRoom(m, ShardOf[k]), ShardOf[k]), k, v, ttl)

(* update_existing leaves the item's expiry as it was, and shrinks a shard *)
(* that is too large, which can cost the item itself.                      *)
update_existing(m, k, v) ==
  shrink_to_fit(mm_promote([m EXCEPT !.val[k] = v], k), ShardOf[k])

mm_set(m, k, v) ==
  IF k \in Cached(m) THEN update_existing(m, k, v) ELSE insert_new(m, k, v, "none")

(* cas stores while it holds a handle to the item.                         *)
mm_set_held(m, k, v) == ReleaseItem(mm_set(peek_for_get(m, k), k, v), k)

SetExpiry(m, k, ttl) == IF k \in Cached(m) THEN [m EXCEPT !.ttl[k] = ttl] ELSE m
mm_set_with_expiry(m, k, v, ttl) ==
  IF k \in Cached(m) THEN SetExpiry(update_existing(m, k, v), k, ttl)
  ELSE insert_new(m, k, v, ttl)

mm_add(m, k, v) ==
  IF k \in Cached(m) THEN mm_promote(m, k) ELSE insert_new(m, k, v, "none")

mm_replace(m, k, v) == IF k \in Cached(m) THEN update_existing(m, k, v) ELSE m

(* del, pop and the TTL sweep spare an item that is held.  force_del does  *)
(* not, unless as many removed items as the shard allows wait for their    *)
(* handles.  None of del, pop and force_del looks at the expiry.           *)
mm_del(m, k) == IF k \in Cached(m) /\ m.held[k] = 0 THEN Drop(m, k) ELSE m
mm_pop(m, k) == IF k \in Cached(m) /\ m.held[k] = 0 THEN Drop(m, k) ELSE m
pending_deletion_at_cap(m, s) == MaxPending > 0 /\ Len(m.loose[s]) >= MaxPending
mm_force_del(m, k) ==
  IF k \in Cached(m) /\ (m.held[k] > 0 => ~pending_deletion_at_cap(m, ShardOf[k]))
  THEN Drop(m, k) ELSE m

peek_lru_tail_key(m, s) == m.lru[s][Len(m.lru[s])]

(* flush of one shard keeps the items that are held.                       *)
FlushShard(m, s) == FoldSet(LAMBDA k, n : Drop(n, k), m, Evictable(m, s))

(* evict_expired of one shard.                                             *)
SweepShard(m, s) ==
  FoldSet(LAMBDA k, n : Drop(n, k), m, {k \in Evictable(m, s) : m.ttl[k] = "dead"})

-----------------------------------------------------------------------------
(* evict_lru: the shard to take from, an over-quota one before any other,  *)
(* then the largest, then the first.  The quota it compares with is        *)
(* max_size_ / num_shards_, without the remainder.                         *)
OverQuota(m, s) == ShardSize(m, s) > m.cap \div Cardinality(Shards)
Better(m, a, b) ==
  \/ OverQuota(m, a) /\ ~OverQuota(m, b)
  \/ OverQuota(m, a) = OverQuota(m, b) /\ ShardSize(m, a) > ShardSize(m, b)
BestShard(m) ==
  CHOOSE s \in Shards : /\ ShardSize(m, s) > 0
                        /\ \A x \in Shards : ~Better(m, x, s)
                        /\ \A x \in Shards : x < s => Better(m, s, x)

(* pop_lru takes the tail of the first shard that is not empty, unless the *)
(* tail is held.                                                           *)
FirstShard(m) == Min({s \in Shards : ShardSize(m, s) > 0})
mm_pop_lru(m, s) == mm_del(m, peek_lru_tail_key(m, s))

=============================================================================
