----------------------------- MODULE HazptrSlots -----------------------------
(***************************************************************************)
(* Slot management of hazptr_domain (src/detail/hazptr.hpp): a per-thread  *)
(* cache of slots, a lock-free free list of released slots (a Treiber      *)
(* stack threaded through next_free), a linear scan that ignores the free  *)
(* list, and expansion by one batch under a mutex.                         *)
(*                                                                         *)
(* One step is one access to shared memory.  The tag packed into the head  *)
(* of the free list grows with every successful exchange, so a             *)
(* compare-exchange succeeds exactly if no other did since the head was    *)
(* loaded: fresh[t].  A wrap-around of the 32-bit tag is not modelled.     *)
(***************************************************************************)
EXTENDS Integers, Sequences, FiniteSets, SequencesExt

CONSTANTS
    Threads,
    BatchSize, MaxBatches,  \* kBatchSize, max_batches_limit_
    CacheSize,              \* tls_slot_cache::kCacheSize
    MaxRetries,             \* kMaxSpinRetries + kMaxSyncFallbacks
    MaxHeld                 \* bound: holders a thread has at a time

Slots == 1..(BatchSize * MaxBatches)
Nil == 0  \* kFreeSlotNil

VARIABLES
    batches,    \* num_batches_
    used,       \* used_batches_: slots that are claimed
    nextFree,   \* next_free_batches_
    head,       \* slot index of free_list_head_
    count,      \* active_slot_count_
    cached,     \* tls_slot_cache of every thread
    held,       \* slots of live hazptr_holders
    pc,
    idx, link,  \* locals: the slot at hand, the link or head it read
    fresh,      \* no exchange of the head since this thread loaded it
    tries       \* iterations of acquire_slot()'s exhausted path

vars == <<batches, used, nextFree, head, count, cached, held, pc, idx, link, fresh, tries>>
own == <<cached, held, tries>>

Init ==
    /\ batches = 1
    /\ used = {} /\ count = 0
    /\ nextFree = [s \in Slots |-> Nil]
    /\ head = Nil
    /\ cached = [t \in Threads |-> <<>>]
    /\ held = [t \in Threads |-> {}]
    /\ pc = [t \in Threads |-> "idle"]
    /\ idx = [t \in Threads |-> Nil]
    /\ link = [t \in Threads |-> Nil]
    /\ fresh = [t \in Threads |-> FALSE]
    /\ tries = [t \in Threads |-> 0]

Goto(t, label) == pc' = [pc EXCEPT ![t] = label]
Capacity == batches * BatchSize

(* A successful exchange of the head makes every other loaded head stale.  *)
Swing(t, s) ==
    /\ head' = s
    /\ fresh' = [u \in Threads |-> FALSE]
-----------------------------------------------------------------------------
(* acquire_slot().                                                         *)

AcquireCached(t) ==
    /\ pc[t] = "idle" /\ Cardinality(held[t]) < MaxHeld /\ cached[t] # <<>>
    /\ held' = [held EXCEPT ![t] = @ \cup {Last(cached[t])}]
    /\ cached' = [cached EXCEPT ![t] = Front(@)]
    /\ UNCHANGED <<batches, used, nextFree, head, count, pc, idx, link, fresh, tries>>

AcquireSlow(t) ==
    /\ pc[t] = "idle" /\ Cardinality(held[t]) < MaxHeld /\ cached[t] = <<>>
    /\ Goto(t, "pop")
    /\ UNCHANGED <<batches, used, nextFree, head, count, idx, link, fresh, own>>

(* free_list_pop_and_claim(): an empty list sends the caller to the scan.  *)
PopLoad(t) ==
    /\ pc[t] = "pop"
    /\ idx' = [idx EXCEPT ![t] = IF head = Nil THEN 1 ELSE head]
    /\ fresh' = [fresh EXCEPT ![t] = TRUE]
    /\ Goto(t, IF head = Nil THEN "scan" ELSE "popnext")
    /\ UNCHANGED <<batches, used, nextFree, head, count, link, own>>

PopNext(t) ==
    /\ pc[t] = "popnext"
    /\ link' = [link EXCEPT ![t] = nextFree[idx[t]]]
    /\ Goto(t, "popcas")
    /\ UNCHANGED <<batches, used, nextFree, head, count, idx, fresh, own>>

PopCas(t) ==
    /\ pc[t] = "popcas"
    /\ IF fresh[t] THEN Swing(t, link[t]) /\ Goto(t, "claim")
                   ELSE Goto(t, "pop") /\ UNCHANGED <<head, fresh>>
    /\ link' = [link EXCEPT ![t] = Nil]
    /\ UNCHANGED <<batches, used, nextFree, count, idx, own>>

(* The slot just unlinked is claimed; a dead entry, which the linear scan  *)
(* of another thread claimed before, is dropped.                           *)
PopClaim(t) ==
    /\ pc[t] = "claim"
    /\ IF idx[t] \in used
       THEN Goto(t, "pop") /\ UNCHANGED used
       ELSE Goto(t, "counted") /\ used' = used \cup {idx[t]}
    /\ UNCHANGED <<batches, nextFree, head, count, idx, link, fresh, own>>

(* The linear scan, one slot per step; it does not look at the free list.  *)
ScanSlot(t) ==
    /\ pc[t] = "scan" /\ idx[t] <= Capacity
    /\ IF idx[t] \in used
       THEN idx' = [idx EXCEPT ![t] = @ + 1] /\ UNCHANGED <<used, pc>>
       ELSE used' = used \cup {idx[t]} /\ Goto(t, "counted") /\ UNCHANGED idx
    /\ UNCHANGED <<batches, nextFree, head, count, link, fresh, own>>

(* active_slot_count_ follows the claim; only then is the slot returned.   *)
Counted(t) ==
    /\ pc[t] = "counted"
    /\ count' = count + 1
    /\ held' = [held EXCEPT ![t] = @ \cup {idx[t]}]
    /\ idx' = [idx EXCEPT ![t] = Nil]
    /\ tries' = [tries EXCEPT ![t] = 0]
    /\ Goto(t, "idle")
    /\ UNCHANGED <<batches, used, nextFree, head, cached, link, fresh>>

(* Past the last slot, under expand_mutex_: a batch another thread added   *)
(* meanwhile is scanned, a new batch is added, or the attempt is counted   *)
(* and everything tried again.                                             *)
Expand(t) ==
    /\ pc[t] = "scan" /\ idx[t] > Capacity /\ batches < MaxBatches
    /\ batches' = batches + 1
    /\ idx' = [idx EXCEPT ![t] = Nil]
    /\ Goto(t, "pop")
    /\ UNCHANGED <<used, nextFree, head, count, link, fresh, own>>

Exhausted(t) ==
    /\ pc[t] = "scan" /\ idx[t] > Capacity /\ batches = MaxBatches
    /\ tries' = [tries EXCEPT ![t] = IF @ < MaxRetries THEN @ + 1 ELSE 0]
    /\ idx' = [idx EXCEPT ![t] = Nil]
    /\ Goto(t, IF tries[t] < MaxRetries THEN "pop" ELSE "idle")
    /\ UNCHANGED <<batches, used, nextFree, head, count, cached, held, link, fresh>>
-----------------------------------------------------------------------------
(* release_slot() and thread exit.                                         *)

ReleaseCached(t) ==
    /\ pc[t] = "idle" /\ Len(cached[t]) < CacheSize
    /\ \E s \in held[t] :
          /\ cached' = [cached EXCEPT ![t] = Append(@, s)]
          /\ held' = [held EXCEPT ![t] = @ \ {s}]
    /\ UNCHANGED <<batches, used, nextFree, head, count, pc, idx, link, fresh, tries>>

(* release_slot_global(): the claim is dropped before the slot is pushed,  *)
(* so the scan of another thread may take it in between.                   *)
Free(t, s) ==
    /\ used' = used \ {s}
    /\ count' = count - 1
    /\ idx' = [idx EXCEPT ![t] = s]
    /\ Goto(t, "push")

ReleaseFull(t) ==
    /\ pc[t] = "idle" /\ Len(cached[t]) = CacheSize
    /\ \E s \in held[t] : Free(t, s) /\ held' = [held EXCEPT ![t] = @ \ {s}]
    /\ UNCHANGED <<batches, nextFree, head, link, fresh, cached, tries>>

(* ~tls_slot_cache, invalidate_tls_cache(): one cached slot after another. *)
ThreadExit(t) ==
    /\ pc[t] = "idle" /\ held[t] = {} /\ cached[t] # <<>>
    /\ Free(t, Head(cached[t]))
    /\ cached' = [cached EXCEPT ![t] = Tail(@)]
    /\ UNCHANGED <<batches, nextFree, head, link, fresh, held, tries>>

(* free_list_push(): link to the loaded head, exchange, reload on failure. *)
PushLoad(t) ==
    /\ pc[t] = "push"
    /\ link' = [link EXCEPT ![t] = head]
    /\ fresh' = [fresh EXCEPT ![t] = TRUE]
    /\ Goto(t, "pushlink")
    /\ UNCHANGED <<batches, used, nextFree, head, count, idx, own>>

PushLink(t) ==
    /\ pc[t] = "pushlink"
    /\ nextFree' = [nextFree EXCEPT ![idx[t]] = link[t]]
    /\ Goto(t, "pushcas")
    /\ UNCHANGED <<batches, used, head, count, idx, link, fresh, own>>

PushCas(t) ==
    /\ pc[t] = "pushcas"
    /\ IF fresh[t]
       THEN Swing(t, idx[t]) /\ Goto(t, "idle") /\ idx' = [idx EXCEPT ![t] = Nil]
       ELSE Goto(t, "push") /\ UNCHANGED <<head, fresh, idx>>
    /\ link' = [link EXCEPT ![t] = Nil]
    /\ UNCHANGED <<batches, used, nextFree, count, own>>
-----------------------------------------------------------------------------
Step(t) ==
    \/ AcquireCached(t) \/ AcquireSlow(t) \/ PopLoad(t) \/ PopNext(t) \/ PopCas(t)
    \/ PopClaim(t) \/ ScanSlot(t) \/ Counted(t) \/ Expand(t) \/ Exhausted(t)
    \/ ReleaseCached(t) \/ ReleaseFull(t) \/ ThreadExit(t)
    \/ PushLoad(t) \/ PushLink(t) \/ PushCas(t)

Next == \E t \in Threads : Step(t)
Spec == Init /\ [][Next]_vars
-----------------------------------------------------------------------------
TypeOK ==
    /\ batches \in 1..MaxBatches /\ used \subseteq Slots
    /\ nextFree \in [Slots -> Slots \cup {Nil}] /\ head \in Slots \cup {Nil}
    /\ count \in Nat
    /\ held \in [Threads -> SUBSET Slots]
    /\ \A t \in Threads : cached[t] \in Seq(Slots) /\ Len(cached[t]) <= CacheSize

(* A slot belongs to one thread: two holders on one slot would overwrite   *)
(* each other's protection.  It must hold although a slot can be on the    *)
(* free list and claimed by a scan at the same time.                       *)
Owned(t) == held[t] \cup ToSet(cached[t])
               \cup (IF pc[t] = "counted" THEN {idx[t]} ELSE {})
SlotOwnedOnce ==
    /\ \A t, u \in Threads : t # u => Owned(t) \cap Owned(u) = {}
    /\ \A t \in Threads : Owned(t) \subseteq used

(* try_reclaim() skips the scan of the slots when active_slot_count_ is 0: *)
(* the count is never below the number of slots a thread could publish in. *)
ActiveCoversHeld ==
    count >= Cardinality(UNION {held[t] \cup ToSet(cached[t]) : t \in Threads})

(* "it is removed from the free-list and re-added later via a normal       *)
(* release": once a dead entry has been popped it is not the head again    *)
(* until it is released.                                                   *)
DeadEntryRemoved ==
    \A t \in Threads : pc[t] = "claim" /\ idx[t] \in used => head # idx[t]
=============================================================================
