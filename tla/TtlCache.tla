------------------------------ MODULE TtlCache ------------------------------
(***************************************************************************)
(* ttl_cache (ttl.hpp) over a cache whose items carry an expiry of their   *)
(* own, kept in a min-heap with stale entries (detail/ttl_heap.hpp).       *)
(*                                                                         *)
(* The expiry of a value and the expiry of its item are two fields; 0 is   *)
(* no expiry.  An operation under the stripe lock of its key that makes    *)
(* one call of the cache is one step; get(), which makes several, and      *)
(* the two sweeps take their steps apart.  The heap is a bag; which entry  *)
(* is on top is the order of its expiries.  Handles taken from the cache   *)
(* itself (underlying()) pin items at any time.  A cache that is not       *)
(* native has no expiry in its items and is swept by a scan.               *)
(***************************************************************************)
EXTENDS Naturals, FiniteSets, Bags

CONSTANTS
  Threads, Keys,
  Natives,        \* whether the cache has item expiries, the configurations
  Ttls,           \* lifetimes callers ask for; 0: none
  max_ttl,        \* set_max_ttl, 0: no cap
  Jitter,         \* what the jitter adds to a lifetime
  max_size,
  batch,          \* entries a sweep removes under one lock, 0: all
  MaxTime, MaxSets   \* bounds: ticks of the clock, insertions

kMaxTtlHeapMultiplier == 4

VARIABLES
  native,    \* the configuration
  now, sets, \* the clock; insertions so far
  items,     \* the items in the cache: expiry of the value and of the item
  heap,      \* the index
  deferred,  \* entries of pinned items, put aside by a sweep
  held,      \* keys pinned by handles of others
  stopped,
  op,        \* per thread, the call in progress
  cleaner,   \* the sweep in progress
  hasty      \* keys an expiry removed before their time

vars == <<native, now, sets, items, heap, deferred, held, stopped, op, cleaner, hasty>>

Idle == [at |-> "idle", key |-> CHOOSE k \in Keys : TRUE]
Resting == [at |-> "rest", now |-> 0, done |-> 0, keys |-> {}, key |-> Idle.key]
At(t, where) == op[t].at = where
Present == DOMAIN items
Without(k) == [j \in Present \ {k} |-> items[j]]

(* Stripe locks: get() holds its own for reading, then for writing.        *)
Reading(k) == {t \in Threads : op[t].key = k /\ op[t].at \in {"peeked", "alive"}}
Writing(k) ==
  (\E t \in Threads : op[t].key = k /\ op[t].at = "delete")
    \/ (cleaner.at = "delete" /\ cleaner.key = k)
Free(k) == Reading(k) = {} /\ ~Writing(k)
AllFree == \A k \in Keys : Free(k)
Pinned(k) == k \in held \/ \E t \in Threads : op[t].key = k /\ At(t, "peeked")

(* The lock of the cache: a sweep of the index has it.                     *)
Open == cleaner.at \notin {"sweep"}

is_expired_at(expiry, time) == expiry # 0 /\ time >= expiry
Expired(k) == is_expired_at(items[k].value, now)

-----------------------------------------------------------------------------
(* deadline_for(): the cap, then the jitter.                               *)
deadline_for(ttl) ==
  LET capped == IF max_ttl # 0 /\ ttl > max_ttl THEN max_ttl ELSE ttl
  IN  IF ttl = 0 THEN {0} ELSE {now + capped + j : j \in Jitter}

(* ttl_index_push(): a new entry, and a fresh index when stale ones abound. *)
rebuild(its) == SetToBag({<<k, its[k].item>> : k \in {j \in DOMAIN its : its[j].item # 0}})
(* Mutant: an entry whose item has one in the index already is not pushed. *)
PushedOnce(its, k) ==
  IF k \in {e[1] : e \in BagToSet(heap)} \/ its[k].item = 0 THEN heap
  ELSE heap (+) SetToBag({<<k, its[k].item>>})
Pushed(its, k) ==
  LET e == its[k].item
      h == IF e = 0 THEN heap ELSE heap (+) SetToBag({<<k, e>>})
  IN  IF BagCardinality(h) > kMaxTtlHeapMultiplier * Cardinality(DOMAIN its)
      THEN rebuild(its) ELSE h

(* set_with_absolute_expiry(): a full cache makes room or refuses.         *)
Victims == {k \in Present : ~Pinned(k)}
Put(k, its, e) ==
  LET entry == [value |-> e, item |-> IF native THEN e ELSE 0]
      fresh == [j \in DOMAIN its \cup {k} |-> IF j = k THEN entry ELSE its[j]]
  IN  items' = fresh /\ heap' = IF native THEN Pushed(fresh, k) ELSE heap

insert_locked(k, e) ==
  \/ (k \in Present \/ Cardinality(Present) < max_size) /\ Put(k, items, e)
  \/ /\ k \notin Present /\ Cardinality(Present) >= max_size
     /\ \/ \E victim \in Victims : Put(k, Without(victim), e)
        \/ Victims = {} /\ UNCHANGED <<items, heap>>

set(k, ttl) ==
  /\ Open /\ Free(k) /\ sets < MaxSets /\ ~stopped
  /\ \E e \in deadline_for(ttl) : insert_locked(k, e)
  /\ sets' = sets + 1
  /\ UNCHANGED <<native, now, deferred, held, stopped, op, cleaner, hasty>>

set_no_ttl(k) == set(k, 0)

del(k) ==
  /\ Open /\ Free(k) /\ ~stopped /\ k \in Present
  /\ ~Pinned(k)
  /\ items' = Without(k)
  /\ UNCHANGED <<native, now, sets, heap, deferred, held, stopped, op, cleaner, hasty>>

(* cache_.flush() leaves the pinned items, and the index as it is.         *)
FlushCache == items' = [k \in {j \in Present : Pinned(j)} |-> items[k]]
flush ==
  /\ Open /\ AllFree /\ ~stopped
  /\ FlushCache
  /\ UNCHANGED <<native, now, sets, heap, deferred, held, stopped, op, cleaner, hasty>>
stop ==
  /\ Open /\ AllFree /\ ~stopped
  /\ FlushCache /\ stopped' = TRUE
  /\ UNCHANGED <<native, now, sets, heap, deferred, held, op, cleaner, hasty>>

-----------------------------------------------------------------------------
(* get(): a look under the read lock, by a handle that is dropped again.   *)
get(t, k) ==
  /\ At(t, "idle") /\ Open /\ ~Writing(k) /\ ~stopped /\ k \in Present
  /\ op' = [op EXCEPT ![t] = [at |-> "peeked", key |-> k]]
  /\ UNCHANGED <<native, now, sets, items, heap, deferred, held, stopped, cleaner, hasty>>

Peeked(t) ==
  /\ At(t, "peeked")
  /\ op' = [op EXCEPT ![t].at = IF Expired(op[t].key) THEN "expired" ELSE "alive"]
  /\ UNCHANGED <<native, now, sets, items, heap, deferred, held, stopped, cleaner, hasty>>

Serve(t) ==
  /\ At(t, "alive") /\ Open
  /\ op' = [op EXCEPT ![t] = Idle]
  /\ UNCHANGED <<native, now, sets, items, heap, deferred, held, stopped, cleaner, hasty>>

(* An expired entry: the write lock, a second look, and a del() that may   *)
(* find a handle.                                                          *)

Recheck(t) ==
  LET k == op[t].key IN
  /\ At(t, "expired") /\ Open /\ Free(k)
  /\ op' = [op EXCEPT ![t] = IF k \in Present /\ Expired(k) THEN [@ EXCEPT !.at = "delete"] ELSE Idle]
  /\ UNCHANGED <<native, now, sets, items, heap, deferred, held, stopped, cleaner, hasty>>

Remove(k) ==
  IF k \in Present /\ ~Pinned(k)
  THEN items' = Without(k) /\ hasty' = IF Expired(k) THEN hasty ELSE hasty \cup {k}
  ELSE UNCHANGED <<items, hasty>>

LazyDelete(t) ==
  /\ At(t, "delete") /\ Open
  /\ Remove(op[t].key)
  /\ op' = [op EXCEPT ![t] = Idle]
  /\ UNCHANGED <<native, now, sets, heap, deferred, held, stopped, cleaner>>

-----------------------------------------------------------------------------
(* clear_expired() of a native cache: the sweep of the index, with the     *)
(* time read once.                                                         *)
clear_expired ==
  /\ cleaner.at = "rest" /\ ~stopped
  /\ IF native
     THEN cleaner' = [Resting EXCEPT !.at = "sweep", !.now = now]
     ELSE cleaner' = [Resting EXCEPT !.at = "next", !.keys = {k \in Present : Expired(k)}]
  /\ UNCHANGED <<native, now, sets, items, heap, deferred, held, stopped, op, hasty>>

Due == {e \in BagToSet(heap) : e[2] <= cleaner.now}
SweepOver == Due = {} \/ (batch # 0 /\ cleaner.done >= batch)

(* Mutant: the entry of a pinned item is dropped.                          *)
ttl_probe_entryDrops(e) ==
  IF e[1] \in Present /\ items[e[1]].item = e[2] /\ ~Pinned(e[1]) THEN "ready" ELSE "stale"

ttl_probe_entry(e) ==
  IF e[1] \notin Present THEN "absent"
  ELSE IF items[e[1]].item # e[2] THEN "stale"
  ELSE IF Pinned(e[1]) THEN "pinned" ELSE "ready"

sweep ==
  /\ cleaner.at = "sweep" /\ ~SweepOver
  /\ \E e \in {f \in Due : \A g \in Due : f[2] <= g[2]} :
       /\ heap' = heap (-) SetToBag({e})
       /\ deferred' = IF ttl_probe_entry(e) = "pinned" THEN deferred (+) SetToBag({e}) ELSE deferred
       /\ IF ttl_probe_entry(e) = "ready"
          THEN Remove(e[1]) /\ cleaner' = [cleaner EXCEPT !.done = @ + 1]
          ELSE UNCHANGED <<items, hasty, cleaner>>
  /\ UNCHANGED <<native, now, sets, held, stopped, op>>

reinsert_deferred ==
  /\ cleaner.at = "sweep" /\ SweepOver
  /\ heap' = heap (+) deferred /\ deferred' = EmptyBag
  /\ cleaner' = Resting
  /\ UNCHANGED <<native, now, sets, items, held, stopped, op, hasty>>

(* clear_expired_locked(): the keys of a scan, one by one, each looked at  *)
(* again under its write lock.                                             *)
ScanNext ==
  /\ cleaner.at = "next"
  /\ \/ cleaner.keys = {} /\ cleaner' = Resting
     \/ \E k \in cleaner.keys :
          /\ Free(k)
          /\ cleaner' = IF k \in Present /\ Expired(k)
                        THEN [cleaner EXCEPT !.at = "delete", !.keys = @ \ {k}, !.key = k]
                        ELSE [cleaner EXCEPT !.keys = @ \ {k}]
  /\ UNCHANGED <<native, now, sets, items, heap, deferred, held, stopped, op, hasty>>

clear_expired_locked ==
  /\ cleaner.at = "delete"
  /\ Remove(cleaner.key)
  /\ cleaner' = [cleaner EXCEPT !.at = "next"]
  /\ UNCHANGED <<native, now, sets, heap, deferred, held, stopped, op>>

-----------------------------------------------------------------------------
Tick ==
  /\ now < MaxTime /\ now' = now + 1
  /\ UNCHANGED <<native, sets, items, heap, deferred, held, stopped, op, cleaner, hasty>>
Hold(k) ==
  /\ k \in Present \ held /\ now < MaxTime
  /\ held' = held \cup {k}
  /\ UNCHANGED <<native, now, sets, items, heap, deferred, stopped, op, cleaner, hasty>>
Drop(k) ==
  /\ k \in held
  /\ held' = held \ {k}
  /\ UNCHANGED <<native, now, sets, items, heap, deferred, stopped, op, cleaner, hasty>>

Init ==
  /\ native \in Natives
  /\ now = 1 /\ sets = 0
  /\ items = <<>> /\ heap = EmptyBag /\ deferred = EmptyBag
  /\ held = {} /\ stopped = FALSE /\ hasty = {}
  /\ op = [t \in Threads |-> Idle] /\ cleaner = Resting

Step(t) == Peeked(t) \/ Serve(t) \/ Recheck(t) \/ LazyDelete(t)
Clean == clear_expired \/ sweep \/ reinsert_deferred \/ ScanNext \/ clear_expired_locked
Rest ==
  /\ stopped /\ now = MaxTime /\ held = {} /\ cleaner.at = "rest"
  /\ (\A t \in Threads : At(t, "idle")) /\ UNCHANGED vars
Next ==
  \/ \E k \in Keys :
       \/ (\E ttl \in Ttls : set(k, ttl)) \/ set_no_ttl(k) \/ del(k) \/ Hold(k) \/ Drop(k)
       \/ \E t \in Threads : get(t, k)
  \/ \E t \in Threads : Step(t)
  \/ Clean \/ flush \/ stop \/ Tick \/ Rest

(* Calls go on, handles are released, and the cleaner runs again and again. *)
Fairness ==
  /\ \A t \in Threads : WF_vars(Step(t))
  /\ \A k \in Keys : WF_vars(Drop(k))
  /\ WF_vars(Clean) /\ WF_vars(Tick)
Spec == Init /\ [][Next]_vars /\ Fairness

-----------------------------------------------------------------------------
TypeOK ==
  /\ Present \subseteq Keys /\ held \subseteq Keys
  /\ now \in 1..MaxTime /\ sets \in 0..MaxSets

(* The item and its value expire together, and the index knows the expiry  *)
(* of every item: the sweep of the index is all that removes an expired    *)
(* entry nobody asks for.                                                  *)
LayersAgree ==
  native =>
    \A k \in Present :
      /\ items[k].item = items[k].value
      /\ items[k].item # 0 => <<k, items[k].item>> \in BagToSet(heap) \cup BagToSet(deferred)

(* No expiry removes an entry before its time: not the lazy deletion of    *)
(* get(), with the read lock given up before the write lock is taken, not  *)
(* the sweep with its stale entries, not the scan with its list of keys.   *)
LiveEntriesStay == hasty = {}

(* Every expired entry goes, whether or not somebody asks for it.          *)
ExpiredGo ==
  \A k \in Keys :
    (k \in Present /\ Expired(k) /\ ~stopped) ~> (k \notin Present \/ ~Expired(k) \/ stopped)
=============================================================================
