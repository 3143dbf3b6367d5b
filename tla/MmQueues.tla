------------------------------ MODULE MmQueues ------------------------------
(***************************************************************************)
(* What the queue based eviction strategies of mm.hpp share (mm_fifo,      *)
(* mm_2q, mm_tiny_lfu, mm_wtiny_lfu): items in intrusive queues with the   *)
(* newest at the head, handles that pin items, an eviction predicate, the  *)
(* deferred deletion list, item expiry and two capacities.                 *)
(*                                                                         *)
(* Every call of a strategy runs under the cache's write lock and is one   *)
(* step.  The state is the record mm; a method is an operator from a state *)
(* to the state it leaves.  A key stands for its item, so the queues are   *)
(* also the map.  An item that left the cache while it was held (it waits  *)
(* in pending_deletion_) is only counted, until its handle goes.           *)
(***************************************************************************)
EXTENDS Integers, FiniteSets, SequencesExt

CONSTANTS
  Keys,                  \* the keys callers use
  NoItem,                \* the null item pointer
  ValueSizes,            \* what calc_item_memory returns for some value
  SizeCaps, MemoryCaps,  \* the values callers give max_size and max_memory
  Predicates,            \* the sets of keys an eviction predicate vetoes
  SearchTries,           \* eviction_search_tries
  TtlKeys,               \* the keys callers give an expiry
  MaxHandles             \* bound: items that callers hold at a time

VARIABLES
  mm,    \* the strategy's state
  call   \* the last call: its kind and the key it names

vars == <<mm, call>>

Calls(op, k) == call' = [op |-> op, key |-> k]

-----------------------------------------------------------------------------
(* Queues.                                                                 *)

Items(m) == UNION {Range(m.q[i]) : i \in DOMAIN m.q}
size(m) == Cardinality(Items(m))
queue_id(m, k) == CHOOSE i \in DOMAIN m.q : k \in Range(m.q[i])
tail(m, i) == IF m.q[i] = <<>> THEN NoItem ELSE Last(m.q[i])
Without(s, k) == SelectSeq(s, LAMBDA x : x # k)
remove(m, k) == [m EXCEPT !.q = [i \in DOMAIN m.q |-> Without(m.q[i], k)]]
link_at_head(m, i, k) == [m EXCEPT !.q[i] = <<k>> \o @]
link_at_tail(m, i, k) == [m EXCEPT !.q[i] = Append(@, k)]
move_to_head(m, k) == LET i == queue_id(m, k) IN link_at_head(remove(m, k), i, k)

(* Step is repeated while Holds; every useful repetition removes or moves  *)
(* an item, so there are never more than there are keys.                   *)
While(Holds(_), Step(_), m) ==
  FoldLeft(LAMBDA n, i : IF Holds(n) THEN Step(n) ELSE n, m,
           [i \in 1 .. Cardinality(Keys) |-> i])

-----------------------------------------------------------------------------
(* Capacity, the victim search and removal.                                *)

should_evict(m) == size(m) > m.maxSize \/ m.mem > m.maxMemory

(* From the tail, pinned items are skipped for free and vetoed ones count  *)
(* as tries.                                                               *)
VictimIn(m, s) ==
  LET free == SelectSeq(Reverse(s), LAMBDA k : k \notin m.pinned)
      fit == {i \in DOMAIN free : free[i] \notin m.vetoed}
      first == CHOOSE i \in fit : \A j \in fit : i <= j
  IN  IF fit = {} \/ first > SearchTries THEN NoItem ELSE free[first]

(* The unpinned tail pop_lru and evict_from look for: pinned items are     *)
(* tries here, and the predicate is not asked.                             *)
UnpinnedIn(m, s) ==
  LET back == Reverse(s)
      fit == {i \in DOMAIN back : back[i] \notin m.pinned}
      first == CHOOSE i \in fit : \A j \in fit : i <= j
  IN  IF fit = {} \/ first > SearchTries THEN NoItem ELSE back[first]

(* The item leaves its queue and the map, and its memory is given back.    *)
Drop(m, k) ==
  [remove(m, k) EXCEPT !.mem = @ - m.size[k], !.size[k] = 0, !.accessed = @ \ {k},
                       !.due = @ \ {k}, !.ttl = @ \ {k}, !.late = @ \ {k}]

(* An item of the given memory joins queue i.                              *)
Linked(m, i, k, mem, expiring) ==
  [link_at_head(m, i, k) EXCEPT
     !.mem = @ + mem, !.size[k] = mem,
     !.ttl = IF expiring THEN @ \cup {k} ELSE @]

Resized(m, k, mem) == [m EXCEPT !.mem = @ - m.size[k] + mem, !.size[k] = mem]
Expiring(m, k) == [m EXCEPT !.ttl = @ \cup {k}, !.late = @ \ {k}]

(* erase_impl and pop leave a pinned item alone.                           *)
Erased(m, k) == IF k \in Items(m) \ m.pinned THEN Drop(m, k) ELSE m

(* A pinned item leaves the cache too, and waits for its handle.           *)
Forced(m, k) ==
  IF k \notin Items(m) THEN m
  ELSE IF k \in m.pinned THEN [Drop(m, k) EXCEPT !.pinned = @ \ {k}, !.held = @ + 1]
  ELSE Drop(m, k)

DropAll(m, S) == FoldSet(LAMBDA k, n : Drop(n, k), m, S)

-----------------------------------------------------------------------------
(* Calls, handles and time.                                                *)

Free == Cardinality(mm.pinned) + mm.held < MaxHandles
Pinned(m, k) == [m EXCEPT !.pinned = @ \cup {k}]

Release(k) == k \in mm.pinned /\ mm' = [mm EXCEPT !.pinned = @ \ {k}]
ReleaseOrphan ==
  mm.held > 0 /\ mm' = [mm EXCEPT !.held = @ - 1]

(* The refresh time has passed since every item's last promotion.          *)
Tick == mm.due # Items(mm) /\ mm' = [mm EXCEPT !.due = Items(mm)]
Late(k) == k \in mm.ttl \ mm.late /\ mm' = [mm EXCEPT !.late = @ \cup {k}]

Blank(queues) ==
  [q |-> [i \in queues |-> <<>>], accessed |-> {}, due |-> {}, ttl |-> {}, late |-> {},
   pinned |-> {}, held |-> 0, size |-> [k \in Keys |-> 0], mem |-> 0,
   maxSize |-> 0, maxMemory |-> 0, vetoed |-> {}]
NoCall == call = [op |-> "none", key |-> NoItem]

-----------------------------------------------------------------------------
(* The frequency sketch of the TinyLFU strategies: a counter for each key  *)
(* that saturates at SketchMax and is halved when the sketch decays.       *)

CONSTANT SketchMax   \* bound: a counter saturates here, not at 2^32 - 1

record(m, k) == [m EXCEPT !.freq[k] = IF @ < SketchMax THEN @ + 1 ELSE @]
sketch_reset(m) == [m EXCEPT !.freq = [k \in Keys |-> 0]]
step_decay ==
  /\ \E k \in Keys : mm.freq[k] > 0
  /\ mm' = [mm EXCEPT !.freq = [k \in Keys |-> @[k] \div 2]]

-----------------------------------------------------------------------------
(* What every strategy is checked against.                                 *)

(* An item is in one queue, once; current_memory is what the items need;   *)
(* handles and expiries are those of cached items.                         *)
Books ==
  /\ \A i, j \in DOMAIN mm.q :
       IsInjective(mm.q[i]) /\ (i # j => Range(mm.q[i]) \cap Range(mm.q[j]) = {})
  /\ mm.mem = FoldSet(LAMBDA k, sum : mm.size[k] + sum, 0, Items(mm))
  /\ mm.pinned \cup mm.ttl \subseteq Items(mm) /\ mm.late \subseteq mm.ttl

Evictable(m) == Items(m) \ (m.pinned \cup m.vetoed)

(* A call that adds an item, enlarges one or sets a capacity.              *)
Grows ==
  \/ mm.maxSize # mm'.maxSize \/ mm.maxMemory # mm'.maxMemory
  \/ \E k \in Items(mm') : mm'.size[k] > mm.size[k]

(* Without a predicate, such a call leaves a cache that admits items over  *)
(* a capacity.                                                             *)
OverBudget == Grows /\ mm.vetoed = {} /\ mm'.maxSize > 0 /\ should_evict(mm')
=============================================================================
