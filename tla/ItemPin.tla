------------------------------- MODULE ItemPin -------------------------------
(***************************************************************************)
(* How a read_handle keeps its item alive: the reference word of an item   *)
(* (detail/refcount.hpp), the lock-free lookups that pin it, and the       *)
(* operations of mm_lru (mm.hpp) that take items out of the cache.         *)
(*                                                                         *)
(* A lookup finds an item in the hash table while a hazard pointer or an   *)
(* epoch protects it, pins it with incRef(), and drops the protection.     *)
(* From then on only the pin stands between the item and the reclaimer,    *)
(* which looks at hazards and epochs but never at the pin.  The writer     *)
(* operations run one at a time under the shard's exclusive lock; lookups  *)
(* take no lock.                                                           *)
(*                                                                         *)
(* Items are blocks of memory: a freed item may be allocated again.  The   *)
(* word's access_ref is the set of handles counted in it; each successful  *)
(* incRef() belongs to one read_handle object.                             *)
(***************************************************************************)
EXTENDS FiniteSets, Naturals

CONSTANTS
  Items,
  Handles,       \* read_handle objects
  MaxRef,        \* kAccessRefMax
  MaxPending,    \* config_.max_pending_deletion, 0 for no cap
  WriterOps      \* the operations the writers call

\* Operations that claim the item, or unlink it, before they look at its pins
\* for the last time.
BarrierOps == {"insert", "evict", "flush", "force_del", "sweep"}
Ops == BarrierOps \cup {"expire", "pop"}

ASSUME MaxRefAssumption == MaxRef \in Nat
ASSUME MaxPendingAssumption == MaxPending \in Nat
ASSUME WriterOpsAssumption == WriterOps \subseteq Ops

VARIABLES
  access,      \* access_ref of each item's word
  linked,      \* items whose word has kLinked
  exclusive,   \* items whose word has kExclusive
  table,       \* items reachable through map_
  moved,       \* items whose value has been moved out
  pending,     \* pending_deletion_
  retired,     \* handed to the reclamation domain
  freed,       \* memory that holds no item
  hpc, hitem,  \* the state of each handle, and its item
  wop, wpc,    \* the operation under the exclusive lock, and its next step
  witem,       \* the item it works on
  todo,        \* the items it still has to visit
  claimed      \* to_retire of flush()

word == <<access, linked, exclusive>>
handles == <<hpc, hitem>>
writer == <<wop, wpc, witem, todo, claimed>>
memory == <<table, moved, pending, retired, freed>>
vars == <<word, handles, writer, memory>>

Init ==
  /\ access = [i \in Items |-> {}]
  /\ linked = {} /\ exclusive = {} /\ table = {} /\ moved = {}
  /\ pending = {} /\ retired = {}
  /\ freed = Items
  /\ hpc = [h \in Handles |-> "idle"]
  /\ hitem \in [Handles -> Items]
  /\ wop = "none" /\ wpc = "idle"
  /\ witem \in Items
  /\ todo = {} /\ claimed = {}

-----------------------------------------------------------------------------
(* read_handle *)

\* Mutant: without the barrier on kLinked.
CanIncRefUnlinked(i) ==
  /\ i \notin exclusive
  /\ Cardinality(access[i]) < MaxRef

\* incRef() succeeds.
CanIncRef(i) ==
  /\ i \notin exclusive
  /\ i \in linked
  /\ Cardinality(access[i]) < MaxRef

\* has_active_handle()
Active(i) == access[i] # {}

Pin(h, i) ==
  /\ access' = [access EXCEPT ![i] = @ \cup {h}]
  /\ hpc' = [hpc EXCEPT ![h] = "held"]
  /\ hitem' = [hitem EXCEPT ![h] = i]

\* find_and_pin_lockfree(): the item is found and protected ...
Find(h, i) ==
  /\ hpc[h] = "idle"
  /\ i \in table
  /\ hpc' = [hpc EXCEPT ![h] = "found"]
  /\ hitem' = [hitem EXCEPT ![h] = i]
  /\ UNCHANGED <<word, writer, memory>>

\* ... and pinned, unless incRef() refuses; the protection ends here.
PinFound(h) ==
  /\ hpc[h] = "found"
  /\ IF CanIncRef(hitem[h])
     THEN Pin(h, hitem[h])
     ELSE /\ hpc' = [hpc EXCEPT ![h] = "retry"]
          /\ UNCHANGED <<access, hitem>>
  /\ UNCHANGED <<linked, exclusive, writer, memory>>

\* The second lookup, under the shared lock.
PinLocked(h) ==
  /\ hpc[h] = "retry"
  /\ wpc = "idle"
  /\ \/ \E i \in table : CanIncRef(i) /\ Pin(h, i)
     \/ /\ hpc' = [hpc EXCEPT ![h] = "idle"]
        /\ UNCHANGED <<access, hitem>>
  /\ UNCHANGED <<linked, exclusive, writer, memory>>

\* Copying a handle pins again; where incRef() refuses, the copy is empty.
Copy(h, g) ==
  /\ hpc[h] = "held"
  /\ hpc[g] = "idle"
  /\ CanIncRef(hitem[h])
  /\ Pin(g, hitem[h])
  /\ UNCHANGED <<linked, exclusive, writer, memory>>

\* read_handle::release() and decRef().
Release(h) ==
  /\ hpc[h] = "held"
  /\ access' = [access EXCEPT ![hitem[h]] = @ \ {h}]
  /\ hpc' = [hpc EXCEPT ![h] = "idle"]
  /\ UNCHANGED <<linked, exclusive, hitem, writer, memory>>

-----------------------------------------------------------------------------
(* The writer operations.  wpc names the statement to be executed next.    *)

WriterAt(label) == wpc = label
GoOn(label) == wpc' = label

\* Take the lock.  Every operation but flush() begins with
\* cleanup_pending_deletion().
Start(o) ==
  /\ WriterAt("idle")
  /\ o \in WriterOps
  /\ wop' = o
  /\ GoOn(IF o = "flush" THEN "next" ELSE "cleanup")
  /\ todo' = IF o = "flush" THEN linked ELSE pending
  /\ UNCHANGED <<word, handles, memory, witem, claimed>>

\* Mutant: the test on the item's pins is inverted.
CleanupCheckInverted ==
  /\ WriterAt("cleanup")
  /\ \E i \in todo :
       /\ todo' = todo \ {i}
       /\ witem' = i
       /\ GoOn(IF Active(i) THEN "cleanup_retire" ELSE "cleanup")
  /\ UNCHANGED <<word, handles, memory, wop, claimed>>

\* cleanup_pending_deletion(): an item whose handles are gone is retired.
CleanupCheck ==
  /\ WriterAt("cleanup")
  /\ \E i \in todo :
       /\ todo' = todo \ {i}
       /\ witem' = i
       /\ GoOn(IF Active(i) THEN "cleanup" ELSE "cleanup_retire")
  /\ UNCHANGED <<word, handles, memory, wop, claimed>>

CleanupRetire ==
  /\ WriterAt("cleanup_retire")
  /\ moved' = moved \cup {witem}
  /\ retired' = retired \cup {witem}
  /\ pending' = pending \ {witem}
  /\ GoOn("cleanup")
  /\ UNCHANGED <<word, handles, table, freed, wop, witem, todo, claimed>>

\* The operation proper: the item it is called for is any item of the cache.
CleanupDone ==
  /\ WriterAt("cleanup")
  /\ todo = {}
  /\ \/ /\ wop = "insert"
        /\ GoOn("alloc")
        /\ UNCHANGED todo
     \/ /\ wop \in {"evict", "force_del", "expire", "pop"}
        /\ \E i \in table : todo' = {i}
        /\ GoOn("next")
     \/ /\ wop # "insert"      \* nothing to evict, key not found, flush() is over
        /\ GoOn("unlock")
        /\ UNCHANGED todo
  /\ UNCHANGED <<word, handles, memory, wop, witem, claimed>>

NextItem ==
  /\ WriterAt("next")
  /\ \E i \in todo : todo' = todo \ {i} /\ witem' = i
  /\ GoOn("check")
  /\ UNCHANGED <<word, handles, memory, wop, claimed>>

\* flush() retires what it claimed, then cleans up; the others unlock.
NoMoreItems ==
  /\ WriterAt("next")
  /\ todo = {}
  /\ IF wop = "flush"
     THEN /\ retired' = retired \cup claimed
          /\ claimed' = {}
          /\ todo' = pending
          /\ GoOn("cleanup")
     ELSE /\ GoOn("unlock")
          /\ UNCHANGED <<retired, claimed, todo>>
  /\ UNCHANGED <<word, handles, table, moved, pending, freed, wop, witem>>

\* The first look at the item's pins.  force_del() refuses a pinned item only
\* while pending_deletion_ is at its cap.
AtPendingCap == MaxPending > 0 /\ Cardinality(pending) >= MaxPending

CheckHandles ==
  /\ WriterAt("check")
  /\ IF wop = "force_del"
     THEN GoOn(IF Active(witem) /\ AtPendingCap THEN "next" ELSE "unmap")
     ELSE IF Active(witem) THEN GoOn("next")
     ELSE GoOn(IF wop \in {"evict", "flush"} THEN "claim" ELSE "move")
  /\ UNCHANGED <<word, handles, memory, wop, witem, todo, claimed>>

\* markForEviction(): one CAS on the word.
MarkForEviction ==
  /\ WriterAt("claim")
  /\ IF witem \in linked /\ witem \notin exclusive /\ ~Active(witem)
     THEN /\ exclusive' = exclusive \cup {witem}
          /\ GoOn("move")
     ELSE /\ GoOn("next")
          /\ UNCHANGED exclusive
  /\ UNCHANGED <<access, linked, handles, memory, wop, witem, todo, claimed>>

\* The value goes to a callback or to the caller; evict_lru() leaves it in
\* place when no callback is registered.
MoveValue ==
  /\ WriterAt("move")
  /\ \/ moved' = moved \cup {witem}
     \/ wop = "evict" /\ UNCHANGED moved
  /\ GoOn(IF wop = "pop" THEN "unlink" ELSE "unmap")
  /\ UNCHANGED <<word, handles, table, pending, retired, freed, wop, witem, todo, claimed>>

MapErase ==
  /\ WriterAt("unmap")
  /\ table' = table \ {witem}
  /\ GoOn(IF wop = "pop" THEN "retire" ELSE "unlink")
  /\ UNCHANGED <<word, handles, moved, pending, retired, freed, wop, witem, todo, claimed>>

\* remove_from_list() clears kLinked.
RemoveFromList ==
  /\ WriterAt("unlink")
  /\ linked' = linked \ {witem}
  /\ GoOn(IF wop \in {"evict", "flush"} THEN "unmark"
          ELSE IF wop = "force_del" THEN "settle"
          ELSE IF wop = "pop" THEN "unmap" ELSE "retire")
  /\ UNCHANGED <<access, exclusive, handles, memory, wop, witem, todo, claimed>>

UnmarkForEviction ==
  /\ WriterAt("unmark")
  /\ exclusive' = exclusive \ {witem}
  /\ claimed' = IF wop = "flush" THEN claimed \cup {witem} ELSE claimed
  /\ GoOn(IF wop = "flush" THEN "next" ELSE "retire")
  /\ UNCHANGED <<access, linked, handles, memory, wop, witem, todo>>

\* force_del() looks at the pins after the item is out of reach.
SettleForceDel ==
  /\ WriterAt("settle")
  /\ IF Active(witem)
     THEN /\ pending' = pending \cup {witem}
          /\ UNCHANGED moved
          /\ GoOn("next")
     ELSE /\ moved' = moved \cup {witem}
          /\ UNCHANGED pending
          /\ GoOn("retire")
  /\ UNCHANGED <<word, handles, table, retired, freed, wop, witem, todo, claimed>>

RetireItem ==
  /\ WriterAt("retire")
  /\ retired' = retired \cup {witem}
  /\ GoOn("next")
  /\ UNCHANGED <<word, handles, table, moved, pending, freed, wop, witem, todo, claimed>>

\* insert_new(): allocate, link, publish.
Allocate ==
  /\ WriterAt("alloc")
  /\ \/ \E i \in freed :
          /\ freed' = freed \ {i}
          /\ moved' = moved \ {i}
          /\ witem' = i
          /\ GoOn("link")
     \/ GoOn("unlock") /\ UNCHANGED <<freed, moved, witem>>
  /\ UNCHANGED <<word, handles, table, pending, retired, wop, todo, claimed>>

LinkNew ==
  /\ WriterAt("link")
  /\ linked' = linked \cup {witem}
  /\ GoOn("map")
  /\ UNCHANGED <<access, exclusive, handles, memory, wop, witem, todo, claimed>>

MapInsert ==
  /\ WriterAt("map")
  /\ table' = table \cup {witem}
  /\ GoOn("unlock")
  /\ UNCHANGED <<word, handles, moved, pending, retired, freed, wop, witem, todo, claimed>>

Unlock ==
  /\ WriterAt("unlock")
  /\ GoOn("idle")
  /\ wop' = "none"
  /\ UNCHANGED <<word, handles, memory, witem, todo, claimed>>

WriterStep ==
  \/ CleanupCheck \/ CleanupRetire \/ CleanupDone \/ NextItem \/ NoMoreItems
  \/ CheckHandles \/ MarkForEviction \/ MoveValue \/ MapErase \/ RemoveFromList
  \/ UnmarkForEviction \/ SettleForceDel \/ RetireItem
  \/ Allocate \/ LinkNew \/ MapInsert \/ Unlock

-----------------------------------------------------------------------------
\* The reclaimer frees a retired item nobody protects.
Reclaim(i) ==
  /\ i \in retired
  /\ \A h \in Handles : hpc[h] = "found" => hitem[h] # i
  /\ retired' = retired \ {i}
  /\ freed' = freed \cup {i}
  /\ UNCHANGED <<word, handles, writer, table, moved, pending>>

HandleStep(h) ==
  \/ \E i \in Items : Find(h, i)
  \/ PinFound(h) \/ PinLocked(h) \/ Release(h)
  \/ \E g \in Handles : Copy(h, g)

Next ==
  \/ \E h \in Handles : HandleStep(h)
  \/ \E o \in WriterOps : Start(o)
  \/ WriterStep
  \/ \E i \in Items : Reclaim(i)

Spec == Init /\ [][Next]_vars

\* Handles are released in the end, lock holders proceed, and the cache keeps
\* being used: the background cleaner alone calls evict_expired() again and
\* again ("sweep" when nothing has expired).
FairSpec ==
  /\ Spec
  /\ \A h \in Handles : WF_vars(Release(h))
  /\ WF_vars(WriterStep)
  /\ WF_vars(\E o \in WriterOps : Start(o))

-----------------------------------------------------------------------------
WriterLabels ==
  {"idle", "cleanup", "cleanup_retire", "next", "check", "claim", "move", "unmap",
   "unlink", "unmark", "settle", "retire", "alloc", "link", "map", "unlock"}

TypeOK ==
  /\ access \in [Items -> SUBSET Handles]
  /\ linked \subseteq Items /\ exclusive \subseteq Items /\ table \subseteq Items
  /\ moved \subseteq Items /\ pending \subseteq Items
  /\ retired \subseteq Items /\ freed \subseteq Items
  /\ hpc \in [Handles -> {"idle", "found", "retry", "held"}]
  /\ hitem \in [Handles -> Items]
  /\ wop \in Ops \cup {"none"} /\ wpc \in WriterLabels
  /\ witem \in Items
  /\ todo \subseteq Items /\ claimed \subseteq Items

Held(h) == hpc[h] = "held"

\* A read_handle reads a live item: as long as it is held the item's value has
\* not been moved out, and the item has not been handed to the reclaimer.
PinnedIsLive ==
  \A h \in Handles :
    Held(h) => hitem[h] \notin moved \cup claimed \cup retired \cup freed

\* No item reaches the reclaimer twice, and the reclaimer never gets an item
\* that can still be found.
RetireOnce ==
  /\ wpc = "retire" => witem \notin retired \cup freed \cup pending
  /\ wpc = "cleanup_retire" => witem \notin retired \cup freed
  /\ table \cap (retired \cup freed) = {}

-----------------------------------------------------------------------------
(* The inductive invariant behind PinnedIsLive and RetireOnce, for writers *)
(* that only use the operations with a barrier.                            *)

Gone(i) == i \in claimed \cup retired \cup freed

\* access_ref counts the handles that are held.
PinsCounted ==
  \A h \in Handles, i \in Items : h \in access[i] <=> Held(h) /\ hitem[h] = i

\* What is out of the cache is not pinned, cannot be pinned and cannot be found;
\* it is in one place only.
GoneIsUnpinned ==
  /\ \A i \in Items : Gone(i) => access[i] = {} /\ i \notin linked \cup pending
  /\ claimed \cap retired = {} /\ claimed \cap freed = {} /\ retired \cap freed = {}
  /\ pending \cap linked = {} /\ table \subseteq linked

\* Only the item the writer has claimed is exclusive, and nobody pins it.
ExclusiveIsClaimed ==
  \A i \in exclusive :
    /\ i = witem /\ access[i] = {}
    /\ wop \in {"evict", "flush"} /\ wpc \in {"move", "unmap", "unlink", "unmark"}

\* A value is moved out only of an item that is on its way out.
MovedIsLeaving ==
  \A i \in moved :
    \/ Gone(i)
    \/ i = witem /\ access[i] = {} /\ (i \in exclusive \/ wpc = "retire")

\* What the writer knows about its item at each of its statements.
WriterKnows ==
  /\ wpc \in {"check", "claim", "move", "unmap", "unlink", "map"} => witem \in linked
  /\ wpc \in {"move", "unmap", "unlink", "unmark"} /\ wop \in {"evict", "flush"} =>
       witem \in exclusive
  /\ wpc \in {"unlink", "unmark", "settle", "retire", "link", "map"} => witem \notin table
  /\ wpc \in {"unmark", "settle", "retire", "link"} =>
       witem \notin linked \cup pending /\ ~Gone(witem)
  /\ wpc \in {"retire", "link"} => access[witem] = {}
  /\ wpc = "cleanup_retire" => witem \in pending /\ access[witem] = {}
  /\ wop \in BarrierOps \cup {"none"}
  /\ wpc \in {"claim", "move", "unmark"} => wop \in {"evict", "flush"}
  /\ wpc \in {"next", "check", "unmap", "unlink", "retire"} => wop \in {"evict", "flush", "force_del"}
  /\ wpc = "settle" => wop = "force_del"

\* What it still has to visit.
TodoIsThere ==
  /\ wpc \in {"cleanup", "cleanup_retire"} => todo \subseteq pending
  /\ wpc = "cleanup_retire" => witem \notin todo
  /\ wpc \in {"next", "check", "claim", "move", "unmap", "unlink", "unmark", "settle",
              "retire"} =>
       todo \subseteq linked
  /\ wpc \in {"check", "claim", "move", "unmap", "unlink", "unmark", "settle", "retire"} =>
       witem \notin todo
  /\ claimed # {} =>
       /\ wop = "flush"
       /\ wpc \in {"next", "check", "claim", "move", "unmap", "unlink", "unmark"}

\* Why a pin protects its item: the last look at the pins is a CAS that also
\* shuts incRef() out, or comes after the item has been unlinked.
PinInvariant ==
  /\ TypeOK
  /\ PinsCounted
  /\ GoneIsUnpinned
  /\ ExclusiveIsClaimed
  /\ MovedIsLeaving
  /\ WriterKnows
  /\ TodoIsThere

\* An item force-deleted under a handle leaves pending_deletion_ after the
\* handles are gone.
PendingIsRetired == \A i \in Items : i \in pending ~> i \notin pending
=============================================================================
