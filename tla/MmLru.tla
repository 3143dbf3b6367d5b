-------------------------------- MODULE MmLru --------------------------------
(***************************************************************************)
(* The LRU eviction strategy (mm.hpp, class mm_lru): a list from the most  *)
(* to the least recently used item, delayed promotion, an insertion point  *)
(* that splits off a tail segment, an eviction cursor (unpinned_tail_),    *)
(* handles that pin items, a deferred deletion list and two capacities.    *)
(*                                                                         *)
(* Every call of a strategy runs under the cache's write lock, so a call   *)
(* is one step here; what happens when a lock-free reader pins an item in  *)
(* the middle of one is the subject of ItemPin.                            *)
(*                                                                         *)
(* The strategy's state is the record mm, and a method is an operator from *)
(* a state to the state it leaves.  At most one item of a key is in the    *)
(* list, so the key stands for that item; the list is also the map.        *)
(***************************************************************************)
EXTENDS Integers, FiniteSets, SequencesExt

CONSTANTS
  Keys,                  \* the keys callers use
  NoItem,                \* the null item pointer
  ValueSizes,            \* what calc_item_memory returns for some value
  SizeCaps, MemoryCaps,  \* the values callers give max_size and max_memory
  Specs,                 \* the values of lru_insertion_point_spec
  Predicates,            \* the sets of keys an eviction predicate vetoes
  SearchTries,           \* eviction_search_tries
  MaxPending,            \* max_pending_deletion, 0 for no cap
  MaxHandles,            \* bound: items that callers hold at a time
  SizeMod                \* bound: size_type wraps at SizeMod, not 2^64

VARIABLES
  mm,    \* the strategy's state
  did    \* what the last call was, and whether it was refused

vars == <<mm, did>>

-----------------------------------------------------------------------------
(* Reading the state.                                                      *)

Listed(m) == Range(m.list)
Place(m, k) == CHOOSE i \in DOMAIN m.list : m.list[i] = k
list_tail(m) == IF m.list = <<>> THEN NoItem ELSE Last(m.list)
list_get_prev(m, k) == IF Place(m, k) = 1 THEN NoItem ELSE m.list[Place(m, k) - 1]
WithoutKey(s, k) == SelectSeq(s, LAMBDA x : x # k)
MemoryOf(m, S) == FoldSet(LAMBDA k, sum : m.size[k] + sum, 0, S)
Clip(n) == n % SizeMod
Lesser(a, b) == IF a < b THEN a ELSE b

should_evict(m) == Len(m.list) > m.maxSize \/ m.mem > m.maxMemory

(* A failed assert() is recorded; the release build goes on.               *)
Asserting(m, ok) == IF ok THEN m ELSE [m EXCEPT !.alarm = @ \cup {"assert"}]

-----------------------------------------------------------------------------
(* The insertion point and the tail segment behind it.                     *)

(* The segment is started at the list's tail when there is none.           *)
StartSegment(m) ==
  IF m.ip # NoItem THEN m
  ELSE [m EXCEPT !.ip = list_tail(m),
                 !.tail = IF m.list = <<>> THEN @ ELSE @ \cup {list_tail(m)},
                 !.tailSize = IF m.list = <<>> THEN 0 ELSE 1]

(* The two loops move the insertion point, one item a step, until the      *)
(* segment has its expected size or the point is at an end of the list.    *)
ResizeSegment(m) ==
  LET p == Place(m, m.ip)
      expected == Len(m.list) \div (2 ^ m.spec)
      grow == Lesser(expected - m.tailSize, p - 1)
      shrink == Lesser(m.tailSize - expected, Len(m.list) - p)
  IN  IF Len(m.list) <= 1 THEN m
      ELSE IF grow > 0
      THEN [m EXCEPT !.ip = m.list[p - grow], !.tailSize = @ + grow,
                     !.tail = @ \cup {m.list[i] : i \in (p - grow) .. (p - 1)}]
      ELSE IF shrink > 0
      THEN [m EXCEPT !.ip = m.list[p + shrink], !.tailSize = @ - shrink,
                     !.tail = @ \ {m.list[i] : i \in p .. (p + shrink - 1)}]
      ELSE m

update_lru_insertion_point(m) ==
  IF m.spec = 0 THEN m
  ELSE ResizeSegment(StartSegment(Asserting(m, m.tailSize <= Len(m.list))))

ensure_not_insertion_point(m, k) ==
  LET p == list_get_prev(m, k) IN
  IF m.ip # k THEN m
  ELSE IF p # NoItem
  THEN [m EXCEPT !.ip = p, !.tailSize = Clip(@ + 1), !.tail = @ \cup {p}]
  ELSE Asserting([m EXCEPT !.ip = NoItem], Len(m.list) = 1)

(* Mutant: the item loses its flag and is still counted.                   *)
LeaveSegmentCounted(m, k) == [m EXCEPT !.tail = @ \ {k}]

LeaveSegment(m, k) ==
  IF k \in m.tail THEN [m EXCEPT !.tail = @ \ {k}, !.tailSize = Clip(@ - 1)] ELSE m

Detach(m, k) == [m EXCEPT !.list = WithoutKey(@, k), !.due = @ \ {k}]

remove_from_list(m, k) ==
  update_lru_insertion_point(Detach(LeaveSegment(
    ensure_not_insertion_point(Asserting(m, m.tailSize <= Len(m.list)), k), k), k))

(* Unlinking takes the item out of the map, the list and the memory count. *)
Unlink(m, k) ==
  [remove_from_list([m EXCEPT !.mem = @ - m.size[k]], k) EXCEPT !.size[k] = 0]

(* erase_impl, erase_expired_impl and pop also forget the eviction cursor. *)
erase_impl(m, k) ==
  IF k \in m.pinned THEN m ELSE [Unlink(m, k) EXCEPT !.cursor = NoItem, !.jumped = FALSE]

(* Reads promote and writes do not (update_on_read, update_on_write); the  *)
(* first access promotes, a later one once the refresh time has passed.    *)
(* due holds the items the next read promotes.                             *)
MoveToHead(m, k) ==
  [m EXCEPT !.list = <<k>> \o WithoutKey(@, k), !.due = @ \ {k},
            !.jumped = @ \/ k = m.cursor]

LeaveAndResize(m, k) ==
  IF k \in m.tail THEN update_lru_insertion_point(LeaveSegment(m, k)) ELSE m

record_access(m, k) ==
  IF k \notin m.due THEN m
  ELSE LeaveAndResize(MoveToHead(ensure_not_insertion_point(m, k), k), k)

-----------------------------------------------------------------------------
(* Eviction.                                                               *)

(* held counts the unlinked items that callers still hold.  Those released *)
(* meanwhile count for nothing: cleanup_pending_deletion drops them before *)
(* the length of the deferred deletion list is looked at.                  *)
pending_deletion_at_cap(m) == MaxPending > 0 /\ m.held >= MaxPending

(* The scan runs from the cursor toward the head, past pinned items, and   *)
(* gives up at the SearchTries-th vetoed one.                              *)

ScanFrom(m) == IF m.cursor = NoItem \/ m.cursor \in m.pinned
               THEN Len(m.list) ELSE Place(m, m.cursor)

ScannedFrom(m, from) ==
  {i \in 1 .. from :
     LET passed == {m.list[j] : j \in (i + 1) .. from} IN
     /\ passed \subseteq m.pinned \cup m.vetoed
     /\ Cardinality(passed \ m.pinned) < SearchTries}

Scanned(m) == {m.list[i] : i \in ScannedFrom(m, ScanFrom(m))}

Nearest(m, S) == IF S = {} THEN NoItem ELSE m.list[Max({Place(m, k) : k \in S})]

(* The cursor stops before the victim, or at the first unpinned item when  *)
(* there is no victim; past a pinned item it goes back to the tail.        *)
CursorAfter(m, scanned, victim) ==
  IF victim # NoItem THEN list_get_prev(m, victim)
  ELSE Nearest(m, scanned \ m.pinned)

ClampedCursor(m, scanned, victim) ==
  IF scanned \cap m.pinned # {} THEN list_tail(m) ELSE CursorAfter(m, scanned, victim)

(* Mutant: the scan does not come back to the items it found pinned.       *)
find_eviction_victimNoClamp(m) ==
  LET scanned == Scanned(m)
      victim == Nearest(m, scanned \ (m.pinned \cup m.vetoed))
  IN  [victim |-> victim, cursor |-> CursorAfter(m, scanned, victim)]

find_eviction_victim(m) ==
  LET scanned == Scanned(m)
      victim == Nearest(m, scanned \ (m.pinned \cup m.vetoed))
  IN  [victim |-> victim, cursor |-> ClampedCursor(m, scanned, victim)]

(* What an LRU eviction should take: the item nearest the tail that is     *)
(* neither pinned nor vetoed.                                              *)
Evictable(m) == Listed(m) \ (m.pinned \cup m.vetoed)
Oldest(m) == Nearest(m, Evictable(m))

PlaceCursor(m, cursor) ==
  [m EXCEPT !.cursor = cursor, !.jumped = @ /\ cursor # list_tail(m)]

EvictVictim(m, victim) ==
  Unlink(IF victim # Oldest(m) /\ ~m.jumped
         THEN [m EXCEPT !.alarm = @ \cup {"young"}] ELSE m, victim)

Refit(m, cursor) == PlaceCursor(m, IF cursor = NoItem THEN list_tail(m) ELSE cursor)

EvictFound(m, found) ==
  IF found.victim = NoItem THEN PlaceCursor(m, found.cursor)
  ELSE Refit(EvictVictim(m, found.victim), found.cursor)

evict_lru(m) == IF m.list = <<>> THEN m ELSE EvictFound(m, find_eviction_victim(m))

(* The loops that call evict_lru while the cache is over budget and stop   *)
(* at the first call that evicts nothing.                                  *)
RECURSIVE shrink_to_fit(_), ShrinkOn(_, _)
shrink_to_fit(m) == IF should_evict(m) THEN ShrinkOn(m, evict_lru(m)) ELSE m
ShrinkOn(m, n) == IF Len(n.list) = Len(m.list) THEN n ELSE shrink_to_fit(n)

RECURSIVE MakeRoom(_, _), MakeRoomOn(_, _, _)
MakeRoom(m, mem) ==
  IF m.list # <<>> /\ m.mem + mem > m.maxMemory
  THEN MakeRoomOn(m, evict_lru(m), mem) ELSE m
MakeRoomOn(m, n, mem) == IF Len(n.list) = Len(m.list) THEN n ELSE MakeRoom(n, mem)

-----------------------------------------------------------------------------
(* Inserting and updating.                                                 *)

LinkNew(m, k, mem) ==
  LET at == IF m.spec = 0 \/ m.ip = NoItem THEN 1 ELSE Place(m, m.ip)
  IN  update_lru_insertion_point(
        [m EXCEPT !.list = InsertAt(@, at, k), !.due = @ \cup {k},
                  !.size[k] = mem, !.mem = @ + mem])

(* Room is made under the size cap, for what is over budget already and    *)
(* for the new item; the insert is given up where that fails.              *)
LinkIfRoom(m, k, mem) ==
  IF m.list # <<>> /\ m.mem + mem > m.maxMemory THEN m ELSE LinkNew(m, k, mem)

(* Mutant: room is made for the items there are, not for the new one.      *)
InsertTrimmedNoRoom(m, k, mem) == IF should_evict(m) THEN m ELSE LinkNew(m, k, mem)

InsertTrimmed(m, k, mem) ==
  IF should_evict(m) THEN m ELSE LinkIfRoom(MakeRoom(m, mem), k, mem)

InsertCapped(m, k, mem) ==
  IF Len(m.list) >= m.maxSize THEN m ELSE InsertTrimmed(shrink_to_fit(m), k, mem)

insert_new(m, k, mem) ==
  IF m.maxSize = 0 \/ m.maxMemory = 0 THEN m
  ELSE InsertCapped(IF Len(m.list) >= m.maxSize THEN evict_lru(m) ELSE m, k, mem)

(* The update callback reads the item after the cache was shrunk.          *)
Announce(m, k) ==
  IF k \in Listed(m) THEN m ELSE [m EXCEPT !.alarm = @ \cup {"dangling"}]

update_existing(m, k, mem) ==
  Announce(shrink_to_fit([m EXCEPT !.size[k] = mem, !.mem = @ - m.size[k] + mem]), k)

-----------------------------------------------------------------------------
(* The public operations.  A call starts with no alarm raised.             *)

Start == [mm EXCEPT !.alarm = {}]

Call(op, m) == mm' = m /\ did' = op

Present(k) == k \in Listed(mm)

(* set and add of an absent key.                                           *)
Inserted(k, m) == Call(IF k \in Listed(m) THEN "write" ELSE "refused", m)

InsertNew(k, mem) == ~Present(k) /\ Inserted(k, insert_new(Start, k, mem))

(* set and replace of a present key.                                       *)
UpdateExisting(k, mem) ==
  Present(k) /\ Call("write", update_existing(Start, k, mem))

(* add of a present key: a read of it.                                     *)
AddPresent(k) == Present(k) /\ Call("other", record_access(Start, k))

CanHold(k) == k \in mm.pinned \/ Cardinality(mm.pinned) + mm.held < MaxHandles

get(k) ==
  /\ Present(k) /\ CanHold(k)
  /\ Call("other", [record_access(Start, k) EXCEPT !.pinned = @ \cup {k}])

peek(k) ==
  /\ Present(k) /\ CanHold(k)
  /\ Call("other", [Start EXCEPT !.pinned = @ \cup {k}])

(* The last handle of a listed item, or of an unlinked one, is released.   *)
Release(k) == k \in mm.pinned /\ Call("other", [Start EXCEPT !.pinned = @ \ {k}])

ReleaseOrphan ==
  /\ mm.held > 0
  /\ Call("other", [Start EXCEPT !.held = @ - 1])

(* del, pop and the TTL sweep's erase_expired_impl unlink the same way.    *)
del(k) == Call("other", IF Present(k) THEN erase_impl(Start, k) ELSE Start)

pop_lru ==
  Call("other", IF mm.list = <<>> THEN Start ELSE erase_impl(Start, list_tail(mm)))

(* Mutant: the eviction cursor is kept when the item is unlinked.          *)
force_delKeepCursor(k) ==
  \/ /\ ~Present(k) \/ (k \in mm.pinned /\ pending_deletion_at_cap(mm))
     /\ Call("other", Start)
  \/ /\ Present(k) /\ ~(k \in mm.pinned /\ pending_deletion_at_cap(mm))
     /\ Call("force", [Unlink(Start, k) EXCEPT
                         !.pinned = @ \ {k},
                         !.held = IF k \in mm.pinned THEN @ + 1 ELSE @])

force_del(k) ==
  \/ /\ ~Present(k) \/ (k \in mm.pinned /\ pending_deletion_at_cap(mm))
     /\ Call("other", Start)
  \/ /\ Present(k) /\ ~(k \in mm.pinned /\ pending_deletion_at_cap(mm))
     /\ Call("force", [Unlink(Start, k) EXCEPT
                         !.cursor = NoItem, !.jumped = FALSE, !.pinned = @ \ {k},
                         !.held = IF k \in mm.pinned THEN @ + 1 ELSE @])

(* From the head to the tail of the list as it was: an unpinned item is    *)
(* unlinked, a pinned one stays and loses its tail flag.                   *)
FlushOne(m, k) ==
  IF k \in m.pinned THEN [m EXCEPT !.tail = @ \ {k}] ELSE Unlink(m, k)

(* Mutant: flush takes the pinned items too.                               *)
flushPinned ==
  Call("other", [FoldLeft(Unlink, Start, Start.list) EXCEPT
                   !.ip = NoItem, !.cursor = NoItem, !.tailSize = 0, !.jumped = FALSE])

flush ==
  Call("other", [FoldLeft(FlushOne, Start, Start.list) EXCEPT
                   !.ip = NoItem, !.cursor = NoItem, !.tailSize = 0, !.jumped = FALSE])

EvictOne == Call("other", evict_lru(Start))

max_size(n) == Call("write", shrink_to_fit([Start EXCEPT !.maxSize = n]))

max_memory(n) == Call("write", shrink_to_fit([Start EXCEPT !.maxMemory = n]))

(* Turning the insertion point off walks tailSize items from it.           *)
set_config(spec) ==
  LET m == [Start EXCEPT !.spec = spec]
      p == Place(m, m.ip)
      walked == {m.list[i] : i \in p .. Lesser(p + m.tailSize - 1, Len(m.list))}
      off == Asserting([m EXCEPT !.tail = @ \ walked, !.tailSize = 0, !.ip = NoItem],
                       p + m.tailSize - 1 <= Len(m.list))
      base == IF spec = 0 /\ m.ip # NoItem THEN off ELSE m
  IN  Call("other", IF spec # 0 /\ m.list # <<>>
                   THEN update_lru_insertion_point(base) ELSE base)

(* A new item takes the place, flags and key of an unpinned one; both need *)
(* the same memory, since replace_node leaves current_memory alone.        *)
replace_node(k) ==
  LET m == LeaveSegment(ensure_not_insertion_point(Start, k), k)
      wasTail == k \in ensure_not_insertion_point(Start, k).tail
      n == IF wasTail THEN [m EXCEPT !.tail = @ \cup {k}, !.tailSize = Clip(@ + 1)] ELSE m
  IN  /\ Present(k) /\ k \notin mm.pinned
      /\ Call("other", update_lru_insertion_point(
                        [n EXCEPT !.cursor = NoItem, !.jumped = FALSE]))

(* Time passes: every item is due for promotion at its next access.        *)
Tick == Listed(mm) # mm.due /\ Call("other", [Start EXCEPT !.due = Listed(mm)])

-----------------------------------------------------------------------------
Init ==
  \E n \in SizeCaps, b \in MemoryCaps, s \in Specs, v \in Predicates :
    /\ n > 0 /\ b > 0
    /\ did = "other"
    /\ mm = [list |-> <<>>, tail |-> {}, due |-> {}, pinned |-> {},
             size |-> [k \in Keys |-> 0], mem |-> 0, ip |-> NoItem, tailSize |-> 0,
             cursor |-> NoItem, held |-> 0, maxSize |-> n,
             maxMemory |-> b, spec |-> s, vetoed |-> v, jumped |-> FALSE, alarm |-> {}]

Next ==
  \/ \E k \in Keys, mem \in ValueSizes : InsertNew(k, mem) \/ UpdateExisting(k, mem)
  \/ \E k \in Keys : \/ AddPresent(k) \/ get(k) \/ peek(k) \/ Release(k)
                     \/ del(k) \/ force_del(k) \/ replace_node(k)
  \/ pop_lru \/ flush \/ EvictOne \/ ReleaseOrphan \/ Tick
  \/ \E n \in SizeCaps : max_size(n)
  \/ \E n \in MemoryCaps : max_memory(n)
  \/ \E s \in Specs : set_config(s)

Spec == Init /\ [][Next]_vars

-----------------------------------------------------------------------------
(* Properties.                                                             *)

(* The pointers the strategy keeps between calls point at listed items, no *)
(* item is listed twice, and current_memory is what the listed items need. *)
BooksBalance ==
  /\ {mm.cursor, mm.ip} \subseteq Listed(mm) \cup {NoItem}
  /\ IsInjective(mm.list)
  /\ mm.pinned \subseteq Listed(mm)
  /\ mm.mem = MemoryOf(mm, Listed(mm))

(* While there is an insertion point, the tail flags mark exactly the      *)
(* items from it to the end of the list, and tail_size_ counts them: what  *)
(* set_config and remove_from_list rely on when they walk the segment.     *)
TailSegment ==
  mm.ip # NoItem =>
    /\ mm.tail = {mm.list[i] : i \in Place(mm, mm.ip) .. Len(mm.list)}
    /\ mm.tailSize = Cardinality(mm.tail)

(* Without a predicate, an accepted write or a new capacity leaves the     *)
(* cache over a capacity only when every item is pinned or one item alone  *)
(* needs more than the memory cap.                                         *)
WithinBudget ==
  (did = "write" /\ mm.vetoed = {} /\ should_evict(mm)) =>
    Evictable(mm) = {} \/ (Len(mm.list) = 1 /\ mm.maxSize > 0)

(* Without a predicate, an insert is refused only when the cache admits    *)
(* nothing, when every item is pinned, or when the cache already held more *)
(* items than its cap (insert_new evicts one item and looks again).        *)
RefusedOnlyWhenFull ==
  [][did' = "refused" =>
       \/ mm.maxSize = 0 \/ mm.maxMemory = 0 \/ mm.vetoed # {}
       \/ Evictable(mm') = {} \/ Len(mm.list) > mm.maxSize]_vars

(* Without a predicate an eviction takes the oldest unpinned item, unless  *)
(* the item under the cursor was promoted since the cursor was placed.     *)
EvictsOldest == mm.vetoed = {} => "young" \notin mm.alarm

(* No call takes away an item a caller has pinned, but force_del its own.  *)
PinnedStays ==
  [][Cardinality(mm.pinned \ Listed(mm')) <= IF did' = "force" THEN 1 ELSE 0]_vars

(* With an insertion point in place no call fails one of the assertions on *)
(* the tail segment; only a flush that leaves pinned items behind takes    *)
(* the insertion point away and can leave a tail flag that is not counted. *)
AssertsHold == [][mm.ip # NoItem => "assert" \notin mm'.alarm]_vars

(* An item that set or replace updates in place is still in the cache when *)
(* the update is announced: making room for the new value evicts others.   *)
UpdatedItemStays == "dangling" \notin mm.alarm
=============================================================================
