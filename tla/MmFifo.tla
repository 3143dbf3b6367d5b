------------------------------- MODULE MmFifo -------------------------------
(***************************************************************************)
(* The FIFO strategy (mm.hpp, class mm_fifo): one queue in insertion       *)
(* order, which no access changes; the victim is the oldest item that is   *)
(* neither pinned nor vetoed.  An item for which no room can be made is    *)
(* inserted all the same.                                                  *)
(***************************************************************************)
EXTENDS MmQueues

items_ == 0

find_eviction_victim(m) == VictimIn(m, m.q[items_])

evict(m) ==
  LET v == find_eviction_victim(m) IN
  IF v = NoItem THEN m ELSE Drop(m, v)

is_at_capacity(m) == size(m) >= m.maxSize
shrink_to_fit(m) == While(should_evict, evict, m)

(* Room for one more item of the given memory, as far as there is any.     *)
MakeRoom(m, mem) ==
  LET n == While(should_evict, evict, IF is_at_capacity(m) THEN evict(m) ELSE m)
      Short(p) == Items(p) # {} /\ p.mem + mem > p.maxMemory
  IN  While(Short, evict, n)

insert_new(m, k, mem, expiring) ==
  IF m.maxSize = 0 \/ m.maxMemory = 0 THEN m
  ELSE Linked(MakeRoom(m, mem), items_, k, mem, expiring)

update_existing(m, k, mem) == shrink_to_fit(Resized(m, k, mem))

(* Mutant: a pinned item goes too, and waits for its handle.               *)
erase_implForced(m, k) == Forced(m, k)

(* A pinned item stays, for del and pop as for the sweep.                  *)
erase_impl(m, k) == Erased(m, k)
erase_expired_impl(m, k) == IF k \in m.late THEN Erased(m, k) ELSE m
SweepExpired(m) == FoldSet(LAMBDA k, n : erase_expired_impl(n, k), m, m.late)

-----------------------------------------------------------------------------
(* The calls.                                                              *)

set(k, mem) ==
  mm' = IF k \in Items(mm) THEN update_existing(mm, k, mem)
        ELSE insert_new(mm, k, mem, FALSE)

add(k, mem) == k \notin Items(mm) /\ mm' = insert_new(mm, k, mem, FALSE)
replace(k, mem) == k \in Items(mm) /\ mm' = update_existing(mm, k, mem)

(* A present item is updated first, and may be evicted by its own update.  *)
set_with_expiry(k, mem) ==
  LET n == update_existing(mm, k, mem) IN
  mm' = IF k \notin Items(mm) THEN insert_new(mm, k, mem, TRUE)
        ELSE IF k \in Items(n) THEN Expiring(n, k) ELSE n

get(k) == k \in Items(mm) /\ Free /\ mm' = Pinned(mm, k)
peek(k) == k \in Items(mm) /\ Free /\ mm' = Pinned(mm, k)
peek_for_get(k) == k \in Items(mm) \ mm.late /\ Free /\ mm' = Pinned(mm, k)

del(k) == mm' = erase_impl(mm, k)
force_del(k) == mm' = Forced(mm, k)
pop(k) == mm' = Erased(mm, k)

(* The oldest item, or nothing when it is pinned.                          *)
pop_lru ==
  LET t == tail(mm, items_) IN mm' = IF t = NoItem THEN mm ELSE Erased(mm, t)

flush == mm' = DropAll(mm, Items(mm) \ mm.pinned)

max_size(n) == mm' = shrink_to_fit([mm EXCEPT !.maxSize = n])
max_memory(n) == mm' = shrink_to_fit([mm EXCEPT !.maxMemory = n])

(* Every expired item but the pinned ones, which the sweep leaves queued.  *)
evict_expired == mm' = SweepExpired(mm)

-----------------------------------------------------------------------------
Init ==
  /\ NoCall
  /\ \E n \in SizeCaps \ {0}, b \in MemoryCaps, v \in Predicates :
       mm = [Blank({items_}) EXCEPT !.maxSize = n, !.maxMemory = b, !.vetoed = v]

Next ==
  \/ \E k \in Keys, mem \in ValueSizes :
       Calls("store", k) /\ (set(k, mem) \/ add(k, mem) \/ replace(k, mem))
  \/ \E k \in TtlKeys, mem \in ValueSizes : Calls("store", k) /\ set_with_expiry(k, mem)
  \/ \E k \in Keys :
       \/ Calls("get", k) /\ (get(k) \/ peek(k) \/ peek_for_get(k))
       \/ Calls("del", k) /\ (del(k) \/ pop(k))
       \/ Calls("force_del", k) /\ force_del(k)
       \/ Calls("release", k) /\ Release(k)
       \/ Calls("late", k) /\ Late(k)
  \/ Calls("pop_lru", NoItem) /\ pop_lru
  \/ Calls("flush", NoItem) /\ flush
  \/ Calls("evict_expired", NoItem) /\ evict_expired
  \/ Calls("touch", NoItem) /\ ReleaseOrphan
  \/ \E n \in SizeCaps : Calls("resize", NoItem) /\ max_size(n)
  \/ \E n \in MemoryCaps : Calls("resize", NoItem) /\ max_memory(n)

Spec == Init /\ [][Next]_vars

-----------------------------------------------------------------------------
Older(m, a, b) == IndexFirstSubSeq(<<a>>, m.q[items_]) > IndexFirstSubSeq(<<b>>, m.q[items_])
=============================================================================
