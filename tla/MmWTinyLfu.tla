----------------------------- MODULE MmWTinyLfu -----------------------------
(***************************************************************************)
(* The W-TinyLFU strategy (mm.hpp, class mm_wtiny_lfu): a window (Tiny) in *)
(* front of a Main area that is split into Probation and Protection.  What *)
(* overflows the window enters Probation unconditionally; an item read     *)
(* often enough moves on to Protection.  Room is made in Main first.       *)
(***************************************************************************)
EXTENDS MmQueues

CONSTANTS
  WindowTenths,        \* window_to_cache_size_ratio in tenths
  ProtectionTenths,    \* protection_ratio in tenths
  protection_freq,     \* an item above this frequency is protected
  NewcomerWins,        \* newcomer_wins_on_tie
  UpdateOnWrite        \* update_on_write

kTinyQueue == 0
kProbationQueue == 1
kProtectionQueue == 2

MainSize(m) == size(m) - Len(m.q[kTinyQueue])
expected_tiny_size(m) ==
  LET share == (m.maxSize * WindowTenths) \div 10 IN IF share < 1 THEN 1 ELSE share
expected_protection_size(m) == (MainSize(m) * ProtectionTenths) \div 10
expected_probation_size(m) == MainSize(m) - expected_protection_size(m)

NewcomerBeats(m, new, old) ==
  IF NewcomerWins THEN m.freq[new] >= m.freq[old] ELSE m.freq[new] > m.freq[old]

-----------------------------------------------------------------------------
(* Accesses.                                                               *)

DemoteProtectionTail(m) ==
  LET t == tail(m, kProtectionQueue) IN link_at_tail(remove(m, t), kProbationQueue, t)

try_promote_to_protection(m, k) ==
  LET n == link_at_head(remove(m, k), kProtectionQueue, k) IN
  IF m.freq[k] <= protection_freq THEN m
  ELSE IF Len(n.q[kProtectionQueue]) > expected_protection_size(n)
       THEN DemoteProtectionTail(n) ELSE n

promote_item(m, k) ==
  LET n == move_to_head(m, k) IN
  record(IF queue_id(n, k) = kProbationQueue THEN try_promote_to_protection(n, k) ELSE n, k)

record_access_at(m, k) ==
  IF k \notin m.due THEN m ELSE promote_item([m EXCEPT !.due = @ \ {k}], k)

-----------------------------------------------------------------------------
(* The window.                                                             *)

TinyOver(m) ==
  Len(m.q[kTinyQueue]) > expected_tiny_size(m) /\ tail(m, kTinyQueue) \notin m.pinned

promote_tiny_tail_to_probation(m) ==
  LET t == tail(m, kTinyQueue) IN link_at_head(remove(m, t), kProbationQueue, t)

swap_tiny_and_probation_tails(m, candidate, probTail) ==
  link_at_head(link_at_tail(remove(remove(m, candidate), probTail), kTinyQueue, probTail),
               kProbationQueue, candidate)

(* Can the two tails be compared?                                          *)
Contest(m, capacity) ==
  /\ Len(m.q[kProbationQueue]) > capacity
  /\ tail(m, kProbationQueue) \notin m.pinned
  /\ tail(m, kTinyQueue) \notin m.pinned \cup {NoItem}

(* The winner's tail is swapped in, a losing candidate stays in the window *)
(* and the Probation tail that beat it moves to the head.                  *)
AdmitOne(m, capacity, tries) ==
  LET new == tail(m, kTinyQueue)
      old == tail(m, kProbationQueue)
  IN  IF tries = 0 \/ ~Contest(m, capacity) THEN [m |-> m, tries |-> 0]
      ELSE IF NewcomerBeats(m, new, old)
      THEN [m |-> swap_tiny_and_probation_tails(m, new, old), tries |-> tries - 1]
      ELSE [m |-> move_to_head(m, old), tries |-> 0]

admit_to_probation(m) ==
  LET capacity == expected_probation_size(m) IN
  FoldLeft(LAMBDA a, i : AdmitOne(a.m, capacity, a.tries), [m |-> m, tries |-> SearchTries],
           [i \in 1 .. SearchTries |-> i]).m

maybe_promote_from_tiny(m) ==
  admit_to_probation(While(TinyOver, promote_tiny_tail_to_probation, m))

-----------------------------------------------------------------------------
(* Eviction: Probation, then the Protection tail, then the window.         *)

find_eviction_victim_in_queue(m, i) == VictimIn(m, m.q[i])

evict_generic(m, k) == Drop(m, k)

evict(m) ==
  LET old == find_eviction_victim_in_queue(m, kProbationQueue)
      hot == tail(m, kProtectionQueue)
      new == find_eviction_victim_in_queue(m, kTinyQueue)
  IN  IF old # NoItem THEN evict_generic(m, old)
      ELSE IF hot \notin {NoItem} \cup m.pinned \cup m.vetoed THEN evict_generic(m, hot)
      ELSE IF new # NoItem THEN evict_generic(m, new) ELSE m

shrink_to_fit(m) == While(should_evict, evict, m)

MakeRoom(m, mem) ==
  LET n == shrink_to_fit(While(TinyOver, promote_tiny_tail_to_probation, m))
      Short(p) == Items(p) # {} /\ p.mem + mem > p.maxMemory
  IN  While(Short, evict, IF size(n) >= n.maxSize THEN evict(n) ELSE n)

Entered(m, k, mem, expiring) ==
  record([Linked(m, kTinyQueue, k, mem, expiring) EXCEPT !.due = @ \cup {k}], k)
insert_new(m, k, mem, expiring) ==
  IF m.maxSize = 0 THEN m
  ELSE maybe_promote_from_tiny(Entered(MakeRoom(m, mem), k, mem, expiring))

update_existing(m, k, mem) ==
  shrink_to_fit(Resized(IF UpdateOnWrite THEN record_access_at(m, k) ELSE m, k, mem))

(* A pinned item stays, for del and pop as for the sweep.                  *)
erase_impl(m, k) == Erased(m, k)
erase_expired_impl(m, k) == IF k \in m.late THEN Erased(m, k) ELSE m
SweepExpired(m) == FoldSet(LAMBDA k, n : erase_expired_impl(n, k), m, m.late)

-----------------------------------------------------------------------------
(* The calls.                                                              *)

set(k, mem) ==
  mm' = IF k \in Items(mm) THEN update_existing(mm, k, mem)
        ELSE insert_new(mm, k, mem, FALSE)

add(k, mem) ==
  mm' = IF k \in Items(mm) THEN record_access_at(mm, k) ELSE insert_new(mm, k, mem, FALSE)

replace(k, mem) ==
  k \in Items(mm) /\ mm' = update_existing(mm, k, mem)

set_with_expiry(k, mem) ==
  LET n == update_existing(mm, k, mem) IN
  mm' = IF k \notin Items(mm) THEN insert_new(mm, k, mem, TRUE)
        ELSE IF k \in Items(n) THEN Expiring(n, k) ELSE n

(* The promotions a read of a window item runs evict nothing.              *)
get(k) ==
  LET n == record_access_at(mm, k) IN
  /\ k \in Items(mm) /\ Free
  /\ mm' = Pinned(IF queue_id(n, k) = kTinyQueue THEN maybe_promote_from_tiny(n) ELSE n, k)

peek(k) == k \in Items(mm) /\ Free /\ mm' = Pinned(mm, k)
peek_for_get(k) == k \in Items(mm) \ mm.late /\ Free /\ mm' = Pinned(mm, k)
promote(k) == k \in Items(mm) /\ mm' = record_access_at(mm, k)

del(k) == mm' = erase_impl(mm, k)
force_del(k) == mm' = Forced(mm, k)
pop(k) == mm' = Erased(mm, k)

(* The window's unpinned tail, or else Probation's; never a protected one. *)
pop_lru ==
  LET new == UnpinnedIn(mm, mm.q[kTinyQueue])
      v == IF new # NoItem THEN new ELSE UnpinnedIn(mm, mm.q[kProbationQueue])
  IN  mm' = IF v = NoItem THEN mm ELSE Drop(mm, v)

flush == mm' = sketch_reset(DropAll(mm, Items(mm) \ mm.pinned))
max_size(n) == mm' = shrink_to_fit([mm EXCEPT !.maxSize = n])
max_memory(n) == mm' = shrink_to_fit([mm EXCEPT !.maxMemory = n])
set_config == mm' = maybe_promote_from_tiny(mm)
evict_expired == mm' = SweepExpired(mm)

(* A new node takes the place and the flags of a node nobody holds; it has *)
(* no expiry, and the same memory, since replace_node books none.          *)
replace_node(k) ==
  k \in Items(mm) \ mm.pinned /\ mm' = [mm EXCEPT !.ttl = @ \ {k}, !.late = @ \ {k}]

(* The snapshot just taken is loaded back: queues and flags return, the    *)
(* sketch and the items' expiry do not.                                    *)
rebuild_from_serialized ==
  /\ mm.pinned = {}
  /\ mm' = [sketch_reset(mm) EXCEPT !.ttl = {}, !.late = {}]

-----------------------------------------------------------------------------
Init ==
  /\ NoCall
  /\ \E n \in SizeCaps \ {0}, b \in MemoryCaps, v \in Predicates :
       mm = [Blank({kTinyQueue, kProbationQueue, kProtectionQueue}) EXCEPT
               !.maxSize = n, !.maxMemory = b, !.vetoed = v] @@ [freq |-> [k \in Keys |-> 0]]

Next ==
  \/ \E k \in Keys, mem \in ValueSizes :
       Calls("store", k) /\ (set(k, mem) \/ add(k, mem) \/ replace(k, mem))
  \/ \E k \in TtlKeys, mem \in ValueSizes : Calls("store", k) /\ set_with_expiry(k, mem)
  \/ \E k \in Keys :
       \/ Calls("get", k) /\ (get(k) \/ peek(k) \/ peek_for_get(k))
       \/ Calls("del", k) /\ (del(k) \/ pop(k))
       \/ Calls("force_del", k) /\ force_del(k)
       \/ Calls("release", k) /\ Release(k)
       \/ Calls("late", k) /\ Late(k)
       \/ Calls("touch", k) /\ (promote(k) \/ replace_node(k))
  \/ Calls("pop_lru", NoItem) /\ pop_lru
  \/ Calls("flush", NoItem) /\ flush
  \/ Calls("evict_expired", NoItem) /\ evict_expired
  \/ Calls("touch", NoItem) /\ (rebuild_from_serialized \/ ReleaseOrphan \/ Tick \/ step_decay)
  \/ \E n \in SizeCaps : Calls("resize", NoItem) /\ max_size(n)
  \/ \E n \in MemoryCaps : Calls("resize", NoItem) /\ max_memory(n)
  \/ Calls("resize", NoItem) /\ set_config

Spec == Init /\ [][Next]_vars

-----------------------------------------------------------------------------
(* A protected item behind the Protection tail, which evict never reaches. *)
Sheltered(m, k) ==
  k \in Range(m.q[kProtectionQueue]) /\ k # tail(m, kProtectionQueue)

(* A value that was just stored is there: set of a new key in a cache that *)
(* admits items never evicts that key to make room.                        *)
InsertedIsCached ==
  mm.maxSize > 0 =>
    \A k \in Keys \ Items(mm), mem \in ValueSizes : k \in Items(insert_new(mm, k, mem, FALSE))

(* The promotions that inserts, reads and set_config run evict nothing,    *)
(* whatever is pinned or vetoed.                                           *)
PromotionEvictsNothing == Items(maybe_promote_from_tiny(mm)) = Items(mm)

(* Room is made in Main whenever Main has an evictable item: a window item *)
(* is the victim only of a Main that is empty or held.                     *)
MainBeforeWindow ==
  Evictable(mm) \ Range(mm.q[kTinyQueue]) # {} =>
    Range(mm.q[kTinyQueue]) \subseteq Items(evict(mm))
=============================================================================
