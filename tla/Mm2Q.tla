-------------------------------- MODULE Mm2Q --------------------------------
(***************************************************************************)
(* The 2Q strategy (mm.hpp, class mm_2q): new items enter Hot, a second    *)
(* reference takes an item to Warm, what overflows either goes to the tail *)
(* of Cold, and victims come from Cold, then Hot, then Warm.  The keys of  *)
(* items evicted before a second reference are remembered in a ghost queue *)
(* (A1out); a remembered key that comes back enters Warm at once.          *)
(***************************************************************************)
EXTENDS MmQueues

CONSTANT Configs   \* [hot, warm, ghost: tenths, entries, onWrite]: mm_2q_config

kQueueHot == 0
kQueueWarm == 1
kQueueCold == 2
Queues == {kQueueHot, kQueueWarm, kQueueCold}

(* Ratios are tenths here; a product is rounded down as the code's casts.  *)
expected_queue_size(m, i) ==
  IF i = kQueueHot THEN (size(m) * m.config.hot) \div 10 ELSE (size(m) * m.config.warm) \div 10

ghost_capacity(m) ==
  IF m.config.ghost = 0 THEN 0
  ELSE IF m.config.entries > 0 THEN m.config.entries
  ELSE (m.maxSize * m.config.hot * m.config.ghost) \div 100

-----------------------------------------------------------------------------
(* The ghost queue, oldest key first.                                      *)

ghost_trim(m) ==
  LET over == Len(m.ghost) - ghost_capacity(m) IN
  IF over > 0 THEN [m EXCEPT !.ghost = SubSeq(@, over + 1, Len(@))] ELSE m
ghost_take(m, k) == [m EXCEPT !.ghost = Without(@, k)]
ghost_clear(m) == [m EXCEPT !.ghost = <<>>]

ghost_record(m, k) == ghost_trim([m EXCEPT !.ghost = Append(Without(@, k), k)])

-----------------------------------------------------------------------------
(* Moving items.                                                           *)

move_to_queue(m, k, i) == link_at_head(remove(m, k), i, k)
ToColdTail(m, i) == link_at_tail(remove(m, tail(m, i)), kQueueCold, tail(m, i))

(* Warm is cut to its share first, then Hot; the overflow joins Cold at    *)
(* its tail, tail first.  rebalance_on_record_access has its default, true.*)
rebalance(m) ==
  LET WarmOver(n) == Len(n.q[kQueueWarm]) > expected_queue_size(n, kQueueWarm)
      HotOver(n) == Len(n.q[kQueueHot]) > expected_queue_size(n, kQueueHot)
      FromWarm(n) == ToColdTail(n, kQueueWarm)
      FromHot(n) == ToColdTail(n, kQueueHot)
  IN  While(HotOver, FromHot, While(WarmOver, FromWarm, m))

PromoteCold(m, k) ==
  rebalance([move_to_queue(m, k, kQueueWarm) EXCEPT !.accessed = @ \cup {k}])

(* The access counts only when the refresh time has passed.                *)
record_access_at(m, k) ==
  IF k \notin m.due THEN m
  ELSE IF queue_id(m, k) = kQueueCold
  THEN [PromoteCold(m, k) EXCEPT !.due = @ \ {k}]
  ELSE [move_to_head(m, k) EXCEPT !.due = @ \ {k}]

-----------------------------------------------------------------------------
(* Eviction.                                                               *)

find_eviction_victim(m, i) == VictimIn(m, m.q[i])

(* A victim that never had its second reference is remembered.             *)
feeds_ghost(m, i, v) ==
  ghost_capacity(m) > 0 /\ (i = kQueueHot \/ (i = kQueueCold /\ v \notin m.accessed))

EvictFrom(m, i) ==
  LET v == find_eviction_victim(m, i)
  IN  IF v = NoItem THEN m
      ELSE IF feeds_ghost(m, i, v) THEN ghost_record(Drop(m, v), v) ELSE Drop(m, v)

evict(m) ==
  LET from == {i \in Queues : EvictFrom(m, i) # m}
  IN  IF kQueueCold \in from THEN EvictFrom(m, kQueueCold)
      ELSE IF kQueueHot \in from THEN EvictFrom(m, kQueueHot) ELSE EvictFrom(m, kQueueWarm)

EvictToFit(m) == While(should_evict, evict, m)

MakeRoom(m, mem) ==
  LET n == EvictToFit(m)
      Short(p) == Items(p) # {} /\ p.mem + mem > p.maxMemory
  IN  While(Short, evict, IF size(n) >= n.maxSize THEN evict(n) ELSE n)

(* The ghost is asked before any eviction can push the key out of it.      *)
insert_new(m, k, mem, expiring) ==
  LET hit == ghost_capacity(m) > 0 /\ k \in Range(m.ghost)
      to == IF hit THEN kQueueWarm ELSE kQueueHot
      n == Linked(MakeRoom(IF hit THEN ghost_take(m, k) ELSE m, mem), to, k, mem, expiring)
  IN  IF m.maxSize = 0 THEN m
      ELSE rebalance([n EXCEPT !.accessed = IF hit THEN @ \cup {k} ELSE @])

update_existing(m, k, mem) ==
  EvictToFit(Resized(IF m.config.onWrite THEN record_access_at(m, k) ELSE m, k, mem))

(* A pinned item stays, for del and pop as for the sweep.                  *)
erase_impl(m, k) == Erased(m, k)
erase_expired_impl(m, k) == IF k \in m.late THEN Erased(m, k) ELSE m
SweepExpired(m) == FoldSet(LAMBDA k, n : erase_expired_impl(n, k), m, m.late)

-----------------------------------------------------------------------------
(* The calls.                                                              *)

set(k, mem) ==
  mm' = IF k \in Items(mm) THEN update_existing(mm, k, mem)
        ELSE insert_new(mm, k, mem, FALSE)

(* A key that is there counts as read.                                     *)
add(k, mem) ==
  mm' = IF k \in Items(mm) THEN record_access_at(mm, k) ELSE insert_new(mm, k, mem, FALSE)

replace(k, mem) ==
  k \in Items(mm) /\ mm' = update_existing(mm, k, mem)

set_with_expiry(k, mem) ==
  LET n == update_existing(mm, k, mem) IN
  mm' = IF k \notin Items(mm) THEN insert_new(mm, k, mem, TRUE)
        ELSE IF k \in Items(n) THEN Expiring(n, k) ELSE n

get(k) == k \in Items(mm) /\ Free /\ mm' = Pinned(record_access_at(mm, k), k)
peek(k) == k \in Items(mm) /\ Free /\ mm' = Pinned(mm, k)
peek_for_get(k) == k \in Items(mm) \ mm.late /\ Free /\ mm' = Pinned(mm, k)
promote(k) == k \in Items(mm) /\ mm' = record_access_at(mm, k)
del(k) == mm' = erase_impl(mm, k)
force_del(k) == mm' = Forced(mm, k)
pop(k) == mm' = Erased(mm, k)
flush == mm' = ghost_clear(DropAll(mm, Items(mm) \ mm.pinned))

max_size(n) == mm' = ghost_trim(EvictToFit([mm EXCEPT !.maxSize = n]))
max_memory(n) == mm' = EvictToFit([mm EXCEPT !.maxMemory = n])
set_config(c) == mm' = ghost_trim(rebalance([mm EXCEPT !.config = c]))
evict_expired == mm' = SweepExpired(mm)

(* A new node takes the place and the flags of a node nobody holds; it has *)
(* no expiry, and the same memory, since replace_node books none.          *)
replace_node(k) ==
  k \in Items(mm) \ mm.pinned /\ mm' = [mm EXCEPT !.ttl = @ \ {k}, !.late = @ \ {k}]

(* The snapshot just taken is loaded back: queues, order and flags return, *)
(* the ghost queue and the items' expiry do not.                           *)
rebuild_from_serialized ==
  /\ mm.pinned = {}
  /\ mm' = rebalance([ghost_clear(mm) EXCEPT !.ttl = {}, !.late = {}])

-----------------------------------------------------------------------------
Init ==
  /\ NoCall
  /\ \E n \in SizeCaps \ {0}, b \in MemoryCaps, v \in Predicates, c \in Configs :
       mm = [Blank(Queues) EXCEPT !.maxSize = n, !.maxMemory = b, !.vetoed = v]
              @@ [ghost |-> <<>>, config |-> c]

Next ==
  \/ \E k \in Keys, mem \in ValueSizes :
       Calls("store", k) /\ (set(k, mem) \/ add(k, mem) \/ replace(k, mem))
  \/ \E k \in TtlKeys, mem \in ValueSizes : Calls("store", k) /\ set_with_expiry(k, mem)
  \/ \E k \in Keys :
       \/ Calls("get", k) /\ (get(k) \/ peek(k) \/ peek_for_get(k))
       \/ Calls("del", k) /\ (del(k) \/ pop(k))
       \/ Calls("force_del", k) /\ force_del(k)
       \/ Calls("release", k) /\ Release(k)
       \/ Calls("late", k) /\ Late(k)
       \/ Calls("touch", k) /\ (promote(k) \/ replace_node(k))
  \/ Calls("flush", NoItem) /\ flush
  \/ Calls("evict_expired", NoItem) /\ evict_expired
  \/ Calls("touch", NoItem) /\ (rebuild_from_serialized \/ ReleaseOrphan \/ Tick)
  \/ \E n \in SizeCaps : Calls("resize", NoItem) /\ max_size(n)
  \/ \E n \in MemoryCaps : Calls("resize", NoItem) /\ max_memory(n)
  \/ \E c \in Configs : Calls("resize", NoItem) /\ set_config(c)

Spec == Init /\ [][Next]_vars

-----------------------------------------------------------------------------
(* The ghost queue remembers a key once, never one that is cached, and     *)
(* never more keys than its capacity; and what is in Warm is marked as     *)
(* referenced again, so that losing it later does not make it a ghost.     *)
GhostCoherent ==
  /\ IsInjective(mm.ghost)
  /\ Range(mm.ghost) \cap Items(mm) = {}
  /\ Len(mm.ghost) <= ghost_capacity(mm)
  /\ Range(mm.q[kQueueWarm]) \subseteq mm.accessed
=============================================================================
