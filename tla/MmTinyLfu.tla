------------------------------ MODULE MmTinyLfu ------------------------------
(***************************************************************************)
(* The TinyLFU strategy (mm.hpp, class mm_tiny_lfu): new items enter a     *)
(* small window (Tiny); what overflows it competes with the Main tail, and *)
(* the one the frequency sketch has seen less often is evicted.            *)
(***************************************************************************)
EXTENDS MmQueues

CONSTANTS
  WindowTenths,        \* window_to_cache_size_ratio in tenths
  NewcomerWins,        \* newcomer_wins_on_tie
  UpdateOnWrite        \* update_on_write

kTinyQueue == 0
kMainQueue == 1

expected_tiny_size(m) ==
  LET share == (m.maxSize * WindowTenths) \div 10 IN IF share < 1 THEN 1 ELSE share

(* Does the window's candidate beat the Main victim?                       *)
Admit(m, new, old) ==
  IF NewcomerWins THEN m.freq[new] >= m.freq[old] ELSE m.freq[new] > m.freq[old]

promote_item(m, k) == record(move_to_head(m, k), k)

(* The first access always counts and a later one once the refresh time    *)
(* has passed: the items whose next access counts are due.                 *)
record_access_at(m, k) ==
  IF k \notin m.due THEN m ELSE promote_item([m EXCEPT !.due = @ \ {k}], k)

evict_generic(m, k) == Drop(m, k)

promote_tiny_tail_to_main(m) ==
  LET t == tail(m, kTinyQueue) IN link_at_head(remove(m, t), kMainQueue, t)

TinyOver(m) ==
  Len(m.q[kTinyQueue]) > expected_tiny_size(m) /\ tail(m, kTinyQueue) \notin m.pinned

find_eviction_victim_in_queue(m, i) == VictimIn(m, m.q[i])
MainFull(m) ==
  LET window == expected_tiny_size(m) IN
  m.maxSize > window /\ Len(m.q[kMainQueue]) >= m.maxSize - window


(* The window's tail moves to Main; when Main is full it or the Main       *)
(* victim goes.  The predicate is asked about the Main victim alone.       *)
PromoteOne(m) ==
  LET new == tail(m, kTinyQueue)
      old == find_eviction_victim_in_queue(m, kMainQueue)
  IN  IF ~MainFull(m) \/ old = NoItem THEN promote_tiny_tail_to_main(m)
      ELSE IF Admit(m, new, old) THEN promote_tiny_tail_to_main(evict_generic(m, old))
      ELSE evict_generic(m, new)

maybe_promote_from_tiny(m) == While(TinyOver, PromoteOne, m)

evict(m) ==
  LET new == find_eviction_victim_in_queue(m, kTinyQueue)
      old == find_eviction_victim_in_queue(m, kMainQueue)
  IN  IF new = NoItem /\ old = NoItem THEN m
      ELSE IF new = NoItem THEN evict_generic(m, old)
      ELSE IF old = NoItem THEN evict_generic(m, new)
      ELSE IF Admit(m, new, old) THEN evict_generic(m, old) ELSE evict_generic(m, new)

shrink_to_fit(m) == While(should_evict, evict, m)

(* The window is drained before the new item enters it.                    *)
MakeRoom(m, mem) ==
  LET n == shrink_to_fit(While(TinyOver, promote_tiny_tail_to_main, m))
      Short(p) == Items(p) # {} /\ p.mem + mem > p.maxMemory
  IN  While(Short, evict, IF size(n) >= n.maxSize THEN evict(n) ELSE n)

Entered(m, k, mem, expiring) ==
  record([Linked(m, kTinyQueue, k, mem, expiring) EXCEPT !.due = @ \cup {k}], k)
insert_new(m, k, mem, expiring) ==
  IF m.maxSize = 0 THEN m
  ELSE maybe_promote_from_tiny(Entered(MakeRoom(m, mem), k, mem, expiring))

update_existing(m, k, mem) ==
  shrink_to_fit(Resized(IF UpdateOnWrite THEN record_access_at(m, k) ELSE m, k, mem))

(* A pinned item stays, for del and pop as for the sweep.                  *)
erase_impl(m, k) == Erased(m, k)
erase_expired_impl(m, k) == IF k \in m.late THEN Erased(m, k) ELSE m
SweepExpired(m) == FoldSet(LAMBDA k, n : erase_expired_impl(n, k), m, m.late)

-----------------------------------------------------------------------------
(* The calls.                                                              *)

set(k, mem) ==
  mm' = IF k \in Items(mm) THEN update_existing(mm, k, mem)
        ELSE insert_new(mm, k, mem, FALSE)

add(k, mem) ==
  mm' = IF k \in Items(mm) THEN record_access_at(mm, k) ELSE insert_new(mm, k, mem, FALSE)

replace(k, mem) ==
  k \in Items(mm) /\ mm' = update_existing(mm, k, mem)

set_with_expiry(k, mem) ==
  LET n == update_existing(mm, k, mem) IN
  mm' = IF k \notin Items(mm) THEN insert_new(mm, k, mem, TRUE)
        ELSE IF k \in Items(n) THEN Expiring(n, k) ELSE n

(* A read of a window item may run the promotion loop, which can evict the *)
(* very item that is then handed out.                                      *)
get(k) ==
  LET n == record_access_at(mm, k)
      o == IF queue_id(n, k) = kTinyQueue THEN maybe_promote_from_tiny(n) ELSE n
  IN  /\ k \in Items(mm) /\ Free
      /\ mm' = IF k \in Items(o) THEN Pinned(o, k) ELSE [o EXCEPT !.held = @ + 1]

peek(k) == k \in Items(mm) /\ Free /\ mm' = Pinned(mm, k)
peek_for_get(k) == k \in Items(mm) \ mm.late /\ Free /\ mm' = Pinned(mm, k)
promote(k) == k \in Items(mm) /\ mm' = record_access_at(mm, k)

del(k) == mm' = erase_impl(mm, k)
force_del(k) == mm' = Forced(mm, k)
pop(k) == mm' = Erased(mm, k)

(* The window's unpinned tail, or else Main's.                             *)
pop_lru ==
  LET new == UnpinnedIn(mm, mm.q[kTinyQueue])
      v == IF new # NoItem THEN new ELSE UnpinnedIn(mm, mm.q[kMainQueue])
  IN  mm' = IF v = NoItem THEN mm ELSE Drop(mm, v)

flush == mm' = sketch_reset(DropAll(mm, Items(mm) \ mm.pinned))
max_size(n) == mm' = shrink_to_fit([mm EXCEPT !.maxSize = n])
max_memory(n) == mm' = shrink_to_fit([mm EXCEPT !.maxMemory = n])
set_config == mm' = maybe_promote_from_tiny(mm)
evict_expired == mm' = SweepExpired(mm)

(* A new node takes the place and the flags of a node nobody holds; it has *)
(* no expiry, and the same memory, since replace_node books none.          *)
replace_node(k) ==
  k \in Items(mm) \ mm.pinned /\ mm' = [mm EXCEPT !.ttl = @ \ {k}, !.late = @ \ {k}]

(* The snapshot just taken is loaded back: queues and flags return, the    *)
(* sketch and the items' expiry do not.                                    *)
rebuild_from_serialized ==
  /\ mm.pinned = {}
  /\ mm' = [sketch_reset(mm) EXCEPT !.ttl = {}, !.late = {}]

-----------------------------------------------------------------------------
Init ==
  /\ NoCall
  /\ \E n \in SizeCaps \ {0}, b \in MemoryCaps, v \in Predicates :
       mm = [Blank({kTinyQueue, kMainQueue}) EXCEPT
               !.maxSize = n, !.maxMemory = b, !.vetoed = v] @@ [freq |-> [k \in Keys |-> 0]]

Next ==
  \/ \E k \in Keys, mem \in ValueSizes :
       Calls("store", k) /\ (set(k, mem) \/ add(k, mem) \/ replace(k, mem))
  \/ \E k \in TtlKeys, mem \in ValueSizes : Calls("store", k) /\ set_with_expiry(k, mem)
  \/ \E k \in Keys :
       \/ Calls("get", k) /\ (get(k) \/ peek(k) \/ peek_for_get(k))
       \/ Calls("del", k) /\ (del(k) \/ pop(k))
       \/ Calls("force_del", k) /\ force_del(k)
       \/ Calls("release", k) /\ Release(k)
       \/ Calls("late", k) /\ Late(k)
       \/ Calls("touch", k) /\ (promote(k) \/ replace_node(k))
  \/ Calls("pop_lru", NoItem) /\ pop_lru
  \/ Calls("flush", NoItem) /\ flush
  \/ Calls("evict_expired", NoItem) /\ evict_expired
  \/ Calls("touch", NoItem) /\ (rebuild_from_serialized \/ ReleaseOrphan \/ Tick \/ step_decay)
  \/ \E n \in SizeCaps : Calls("resize", NoItem) /\ max_size(n)
  \/ \E n \in MemoryCaps : Calls("resize", NoItem) /\ max_memory(n)
  \/ Calls("resize", NoItem) /\ set_config

Spec == Init /\ [][Next]_vars
=============================================================================
