---------------------------- MODULE ItemPinProofs ----------------------------
(***************************************************************************)
(* A pin protects its item, for any number of items and handles, as long   *)
(* as the writers use only the operations that claim or unlink an item     *)
(* before they look at its pins for the last time (BarrierOps); and, with  *)
(* every operation, an item is retired once and after it was unlinked.     *)
(*                                                                         *)
(* PinInvariant is inductive.  Its parts lean on each other: pins are      *)
(* counted, so an unpinned item has no reader; only linked items that are  *)
(* not exclusive can be pinned; and the writer reaches "retire" with an    *)
(* item only after it made it exclusive or unlinked it, and then saw no    *)
(* pins.  One lemma per action shows that the action keeps every part.     *)
(*                                                                         *)
(* PlaceInvariant, for the second result, does not speak of pins: an item  *)
(* is linked, pending, retired or in the writer's hands, and in one place. *)
(***************************************************************************)
EXTENDS ItemPin, TLAPS

(* The provers that a step is given when it names none, one after another. *)
USE SMTT(10), ZenonT(20), SMTT(20), SMTT(40)

\* The invariant holds in an empty cache.
LEMMA InitIsFine == Init => PinInvariant
BY DEF Init, PinInvariant, TypeOK, PinsCounted, GoneIsUnpinned, ExclusiveIsClaimed,
       MovedIsLeaving, WriterKnows, TodoIsThere, Gone, Held, WriterLabels, Ops, BarrierOps

-----------------------------------------------------------------------------
(* One lemma per action *)

\* A lookup finds an item: nothing is pinned yet.
LEMMA FindKeeps ==
  ASSUME NEW h \in Handles, NEW i \in Items, PinInvariant, Find(h, i)
  PROVE  PinInvariant'
<1> USE DEF PinInvariant, Find, word, memory, writer
<1>1. TypeOK'  BY DEF TypeOK, WriterLabels, Ops, BarrierOps
<1>2. PinsCounted'  BY DEF PinsCounted, Held
<1>3. GoneIsUnpinned'  BY DEF GoneIsUnpinned, Gone
<1>4. ExclusiveIsClaimed'  BY DEF ExclusiveIsClaimed
<1>5. MovedIsLeaving'  BY DEF MovedIsLeaving, Gone
<1>6. WriterKnows'  BY DEF WriterKnows, Gone, BarrierOps
<1>7. TodoIsThere'  BY DEF TodoIsThere
<1> QED  BY <1>1, <1>2, <1>3, <1>4, <1>5, <1>6, <1>7

\* The pin succeeds only on a linked item nobody has claimed.
LEMMA PinFoundKeeps ==
  ASSUME NEW h \in Handles, PinInvariant, PinFound(h)
  PROVE  PinInvariant'
<1> USE DEF PinInvariant, PinFound, Pin, CanIncRef, memory, writer
<1>1. TypeOK'  BY DEF TypeOK, WriterLabels, Ops, BarrierOps
<1>2. PinsCounted'  BY DEF TypeOK, PinsCounted, Held
<1>3. GoneIsUnpinned'  BY DEF TypeOK, GoneIsUnpinned, Gone
<1>4. ExclusiveIsClaimed'  BY DEF TypeOK, ExclusiveIsClaimed
<1>5. MovedIsLeaving'  BY DEF TypeOK, MovedIsLeaving, Gone, WriterKnows, BarrierOps
<1>6. WriterKnows'  BY DEF TypeOK, GoneIsUnpinned, Gone, WriterKnows, BarrierOps
<1>7. TodoIsThere'  BY DEF TodoIsThere
<1> QED  BY <1>1, <1>2, <1>3, <1>4, <1>5, <1>6, <1>7

\* Under the shared lock the found item is in the table, hence linked.
LEMMA PinLockedKeeps ==
  ASSUME NEW h \in Handles, PinInvariant, PinLocked(h)
  PROVE  PinInvariant'
<1> USE DEF PinInvariant, PinLocked, Pin, CanIncRef, memory, writer
<1>1. TypeOK'  BY DEF TypeOK, WriterLabels, Ops, BarrierOps
<1>2. PinsCounted'  BY DEF TypeOK, PinsCounted, Held
<1>3. GoneIsUnpinned'  BY DEF TypeOK, GoneIsUnpinned, Gone
<1>4. ExclusiveIsClaimed'  BY DEF ExclusiveIsClaimed
<1>5. MovedIsLeaving'  BY DEF TypeOK, MovedIsLeaving, Gone
<1>6. WriterKnows'  BY DEF WriterKnows, Gone, BarrierOps
<1>7. TodoIsThere'  BY DEF TodoIsThere
<1> QED  BY <1>1, <1>2, <1>3, <1>4, <1>5, <1>6, <1>7

\* A copy pins the item its original holds.
LEMMA CopyKeeps ==
  ASSUME NEW h \in Handles, NEW g \in Handles, PinInvariant, Copy(h, g)
  PROVE  PinInvariant'
<1> USE DEF PinInvariant, Copy, Pin, CanIncRef, memory, writer
<1>1. TypeOK'  BY DEF TypeOK, WriterLabels, Ops, BarrierOps
<1>2. PinsCounted'  BY DEF TypeOK, PinsCounted, Held
<1>3. GoneIsUnpinned'  BY DEF GoneIsUnpinned, Gone
<1>4. ExclusiveIsClaimed'  BY DEF ExclusiveIsClaimed
<1>5. MovedIsLeaving'  BY DEF TypeOK, PinsCounted, Held, MovedIsLeaving, Gone
<1>6. WriterKnows'  BY DEF TypeOK, PinsCounted, Held, WriterKnows, Gone, BarrierOps
<1>7. TodoIsThere'  BY DEF TodoIsThere
<1> QED  BY <1>1, <1>2, <1>3, <1>4, <1>5, <1>6, <1>7

\* A released handle is counted no more.
LEMMA ReleaseKeeps ==
  ASSUME NEW h \in Handles, PinInvariant, Release(h)
  PROVE  PinInvariant'
<1> USE DEF PinInvariant, Release, memory, writer
<1>1. TypeOK'  BY DEF TypeOK, WriterLabels, Ops, BarrierOps
<1>2. PinsCounted'  BY DEF TypeOK, PinsCounted, Held
<1>3. GoneIsUnpinned'  BY DEF GoneIsUnpinned, Gone
<1>4. ExclusiveIsClaimed'  BY DEF ExclusiveIsClaimed
<1>5. MovedIsLeaving'  BY DEF MovedIsLeaving, Gone
<1>6. WriterKnows'  BY DEF WriterKnows, Gone, BarrierOps
<1>7. TodoIsThere'  BY DEF TodoIsThere
<1> QED  BY <1>1, <1>2, <1>3, <1>4, <1>5, <1>6, <1>7

\* An operation begins with the pending items, flush() with the linked ones.
LEMMA StartKeeps ==
  ASSUME NEW o \in WriterOps, WriterOps \subseteq BarrierOps, PinInvariant, Start(o)
  PROVE  PinInvariant'
<1> USE DEF PinInvariant, Start, handles, memory, word, WriterAt, GoOn
<1>1. TypeOK'  BY DEF TypeOK, WriterLabels, Ops, BarrierOps
<1>2. PinsCounted'  BY DEF PinsCounted, Held
<1>3. GoneIsUnpinned'  BY DEF GoneIsUnpinned, Gone
<1>4. ExclusiveIsClaimed'  BY DEF ExclusiveIsClaimed
<1>5. MovedIsLeaving'  BY DEF MovedIsLeaving, Gone
<1>6. WriterKnows'  BY DEF WriterKnows, Gone, BarrierOps
<1>7. TodoIsThere'  BY DEF TodoIsThere
<1> QED  BY <1>1, <1>2, <1>3, <1>4, <1>5, <1>6, <1>7

\* An unpinned pending item cannot be pinned again: it is not linked.
LEMMA CleanupCheckKeeps ==
  ASSUME PinInvariant, CleanupCheck
  PROVE  PinInvariant'
<1> USE DEF PinInvariant, CleanupCheck, Active, handles, memory, word, WriterAt, GoOn
<1>1. TypeOK'  BY DEF TypeOK, WriterLabels, Ops, BarrierOps
<1>2. PinsCounted'  BY DEF PinsCounted, Held
<1>3. GoneIsUnpinned'  BY DEF GoneIsUnpinned, Gone
<1>4. ExclusiveIsClaimed'  BY DEF ExclusiveIsClaimed
<1>5. MovedIsLeaving'  BY DEF TypeOK, ExclusiveIsClaimed, MovedIsLeaving, Gone
<1>6. WriterKnows'  BY DEF TypeOK, WriterKnows, Gone, BarrierOps, TodoIsThere
<1>7. TodoIsThere'  BY DEF TodoIsThere
<1> QED  BY <1>1, <1>2, <1>3, <1>4, <1>5, <1>6, <1>7

\* So it is still unpinned when it is retired.
LEMMA CleanupRetireKeeps ==
  ASSUME PinInvariant, CleanupRetire
  PROVE  PinInvariant'
<1> USE DEF PinInvariant, CleanupRetire, handles, word, WriterAt, GoOn
<1>1. TypeOK'  BY DEF TypeOK, WriterLabels, Ops, BarrierOps
<1>2. PinsCounted'  BY DEF PinsCounted, Held
<1>3. GoneIsUnpinned'  BY DEF TypeOK, GoneIsUnpinned, Gone, WriterKnows, BarrierOps
<1>4. ExclusiveIsClaimed'  BY DEF ExclusiveIsClaimed
<1>5. MovedIsLeaving'  BY DEF MovedIsLeaving, Gone
<1>6. WriterKnows'  BY DEF WriterKnows, Gone, BarrierOps
<1>7. TodoIsThere'  BY DEF TodoIsThere
<1> QED  BY <1>1, <1>2, <1>3, <1>4, <1>5, <1>6, <1>7

\* The operation proper begins with an item of the table.
LEMMA CleanupDoneKeeps ==
  ASSUME PinInvariant, CleanupDone
  PROVE  PinInvariant'
<1> USE DEF PinInvariant, CleanupDone, handles, memory, word, WriterAt, GoOn
<1>1. TypeOK'  BY DEF TypeOK, WriterLabels, Ops, BarrierOps
<1>2. PinsCounted'  BY DEF PinsCounted, Held
<1>3. GoneIsUnpinned'  BY DEF GoneIsUnpinned, Gone
<1>4. ExclusiveIsClaimed'  BY DEF ExclusiveIsClaimed
<1>5. MovedIsLeaving'  BY DEF MovedIsLeaving, Gone
<1>6. WriterKnows'  BY DEF WriterKnows, Gone, BarrierOps
<1>7. TodoIsThere'  BY DEF TypeOK, GoneIsUnpinned, Gone, TodoIsThere
<1> QED  BY <1>1, <1>2, <1>3, <1>4, <1>5, <1>6, <1>7

\* The writer turns to a linked item.
LEMMA NextItemKeeps ==
  ASSUME PinInvariant, NextItem
  PROVE  PinInvariant'
<1> USE DEF PinInvariant, NextItem, handles, memory, word, WriterAt, GoOn
<1>1. TypeOK'  BY DEF TypeOK, WriterLabels, Ops, BarrierOps
<1>2. PinsCounted'  BY DEF PinsCounted, Held
<1>3. GoneIsUnpinned'  BY DEF GoneIsUnpinned, Gone
<1>4. ExclusiveIsClaimed'  BY DEF ExclusiveIsClaimed
<1>5. MovedIsLeaving'  BY DEF TypeOK, ExclusiveIsClaimed, MovedIsLeaving, Gone
<1>6. WriterKnows'  BY DEF TypeOK, WriterKnows, Gone, BarrierOps, TodoIsThere
<1>7. TodoIsThere'  BY DEF TodoIsThere
<1> QED  BY <1>1, <1>2, <1>3, <1>4, <1>5, <1>6, <1>7

\* flush() hands over the items it claimed, all of them unpinned.
LEMMA NoMoreItemsKeeps ==
  ASSUME PinInvariant, NoMoreItems
  PROVE  PinInvariant'
<1> USE DEF PinInvariant, NoMoreItems, handles, word, WriterAt, GoOn
<1>1. TypeOK'  BY DEF TypeOK, WriterLabels, Ops, BarrierOps
<1>2. PinsCounted'  BY DEF PinsCounted, Held
<1>3. GoneIsUnpinned'  BY DEF GoneIsUnpinned, Gone
<1>4. ExclusiveIsClaimed'  BY DEF ExclusiveIsClaimed
<1>5. MovedIsLeaving'  BY DEF MovedIsLeaving, Gone
<1>6. WriterKnows'  BY DEF WriterKnows, Gone, BarrierOps
<1>7. TodoIsThere'  BY DEF TodoIsThere
<1> QED  BY <1>1, <1>2, <1>3, <1>4, <1>5, <1>6, <1>7

\* The first look decides nothing that a pin could undo, except for force_del().
LEMMA CheckHandlesKeeps ==
  ASSUME PinInvariant, CheckHandles
  PROVE  PinInvariant'
<1> USE DEF PinInvariant, CheckHandles, Active, handles, memory, word, WriterAt, GoOn
<1>1. TypeOK'  BY DEF TypeOK, WriterLabels, Ops, BarrierOps
<1>2. PinsCounted'  BY DEF PinsCounted, Held
<1>3. GoneIsUnpinned'  BY DEF GoneIsUnpinned, Gone
<1>4. ExclusiveIsClaimed'  BY DEF ExclusiveIsClaimed
<1>5. MovedIsLeaving'  BY DEF MovedIsLeaving, Gone
<1>6. WriterKnows'  BY DEF WriterKnows, Gone, BarrierOps
<1>7. TodoIsThere'  BY DEF TodoIsThere
<1> QED  BY <1>1, <1>2, <1>3, <1>4, <1>5, <1>6, <1>7

\* The claim sees no pin and shuts new ones out.
LEMMA MarkForEvictionKeeps ==
  ASSUME PinInvariant, MarkForEviction
  PROVE  PinInvariant'
<1> USE DEF PinInvariant, MarkForEviction, Active, handles, memory, WriterAt, GoOn
<1>1. TypeOK'  BY DEF TypeOK, WriterLabels, Ops, BarrierOps
<1>2. PinsCounted'  BY DEF PinsCounted, Held
<1>3. GoneIsUnpinned'  BY DEF GoneIsUnpinned, Gone
<1>4. ExclusiveIsClaimed'
  BY DEF TypeOK, ExclusiveIsClaimed, WriterKnows, Gone, BarrierOps
<1>5. MovedIsLeaving'  BY DEF MovedIsLeaving, Gone
<1>6. WriterKnows'  BY DEF WriterKnows, Gone, BarrierOps
<1>7. TodoIsThere'  BY DEF TodoIsThere
<1> QED  BY <1>1, <1>2, <1>3, <1>4, <1>5, <1>6, <1>7

\* The value is moved out of a claimed item.
LEMMA MoveValueKeeps ==
  ASSUME PinInvariant, MoveValue
  PROVE  PinInvariant'
<1> USE DEF PinInvariant, MoveValue, handles, word, WriterAt, GoOn
<1>1. TypeOK'  BY DEF TypeOK, WriterLabels, Ops, BarrierOps
<1>2. PinsCounted'  BY DEF PinsCounted, Held
<1>3. GoneIsUnpinned'  BY DEF GoneIsUnpinned, Gone
<1>4. ExclusiveIsClaimed'  BY DEF ExclusiveIsClaimed
<1>5. MovedIsLeaving'
  BY DEF TypeOK, ExclusiveIsClaimed, MovedIsLeaving, Gone, WriterKnows, BarrierOps
<1>6. WriterKnows'  BY DEF WriterKnows, Gone, BarrierOps
<1>7. TodoIsThere'  BY DEF TodoIsThere
<1> QED  BY <1>1, <1>2, <1>3, <1>4, <1>5, <1>6, <1>7

\* The item leaves the table and stays claimed.
LEMMA MapEraseKeeps ==
  ASSUME PinInvariant, MapErase
  PROVE  PinInvariant'
<1> USE DEF PinInvariant, MapErase, handles, word, WriterAt, GoOn
<1>1. TypeOK'  BY DEF TypeOK, WriterLabels, Ops, BarrierOps
<1>2. PinsCounted'  BY DEF PinsCounted, Held
<1>3. GoneIsUnpinned'  BY DEF GoneIsUnpinned, Gone
<1>4. ExclusiveIsClaimed'  BY DEF ExclusiveIsClaimed
<1>5. MovedIsLeaving'  BY DEF MovedIsLeaving, Gone
<1>6. WriterKnows'  BY DEF WriterKnows, Gone, BarrierOps
<1>7. TodoIsThere'  BY DEF TodoIsThere
<1> QED  BY <1>1, <1>2, <1>3, <1>4, <1>5, <1>6, <1>7

\* An unlinked item cannot be pinned any more.
LEMMA RemoveFromListKeeps ==
  ASSUME PinInvariant, RemoveFromList
  PROVE  PinInvariant'
<1> USE DEF PinInvariant, RemoveFromList, handles, memory, WriterAt, GoOn
<1>1. TypeOK'  BY DEF TypeOK, WriterLabels, Ops, BarrierOps
<1>2. PinsCounted'  BY DEF PinsCounted, Held
<1>3. GoneIsUnpinned'  BY DEF TypeOK, GoneIsUnpinned, Gone, WriterKnows, BarrierOps
<1>4. ExclusiveIsClaimed'  BY DEF ExclusiveIsClaimed
<1>5. MovedIsLeaving'  BY DEF MovedIsLeaving, Gone
<1>6. WriterKnows'  BY DEF TypeOK, GoneIsUnpinned, Gone, WriterKnows, BarrierOps
<1>7. TodoIsThere'  BY DEF TodoIsThere
<1> QED  BY <1>1, <1>2, <1>3, <1>4, <1>5, <1>6, <1>7

\* Clearing the claim leaves the barrier of the missing link.
LEMMA UnmarkForEvictionKeeps ==
  ASSUME PinInvariant, UnmarkForEviction
  PROVE  PinInvariant'
<1> USE DEF PinInvariant, UnmarkForEviction, handles, memory, WriterAt, GoOn
<1>1. TypeOK'  BY DEF TypeOK, WriterLabels, Ops, BarrierOps
<1>2. PinsCounted'  BY DEF PinsCounted, Held
<1>3. GoneIsUnpinned'
  BY DEF TypeOK, GoneIsUnpinned, Gone, ExclusiveIsClaimed, WriterKnows, BarrierOps
<1>4. ExclusiveIsClaimed'  BY DEF ExclusiveIsClaimed
<1>5. MovedIsLeaving'  BY DEF MovedIsLeaving, Gone
<1>6. WriterKnows'  BY DEF TypeOK, ExclusiveIsClaimed, WriterKnows, Gone, BarrierOps
<1>7. TodoIsThere'  BY DEF TodoIsThere
<1> QED  BY <1>1, <1>2, <1>3, <1>4, <1>5, <1>6, <1>7

\* force_del() looks at the pins after the item is unlinked.
LEMMA SettleForceDelKeeps ==
  ASSUME PinInvariant, SettleForceDel
  PROVE  PinInvariant'
<1> USE DEF PinInvariant, SettleForceDel, Active, handles, word, WriterAt, GoOn
<1>1. TypeOK'  BY DEF TypeOK, WriterLabels, Ops, BarrierOps
<1>2. PinsCounted'  BY DEF PinsCounted, Held
<1>3. GoneIsUnpinned'  BY DEF TypeOK, GoneIsUnpinned, Gone, WriterKnows, BarrierOps
<1>4. ExclusiveIsClaimed'  BY DEF ExclusiveIsClaimed
<1>5. MovedIsLeaving'  BY DEF MovedIsLeaving, Gone
<1>6. WriterKnows'  BY DEF WriterKnows, Gone, BarrierOps
<1>7. TodoIsThere'  BY DEF TodoIsThere
<1> QED  BY <1>1, <1>2, <1>3, <1>4, <1>5, <1>6, <1>7

\* A retired item is unpinned.
LEMMA RetireItemKeeps ==
  ASSUME PinInvariant, RetireItem
  PROVE  PinInvariant'
<1> USE DEF PinInvariant, RetireItem, handles, word, WriterAt, GoOn
<1>1. TypeOK'  BY DEF TypeOK, WriterLabels, Ops, BarrierOps
<1>2. PinsCounted'  BY DEF PinsCounted, Held
<1>3. GoneIsUnpinned'  BY DEF TypeOK, GoneIsUnpinned, Gone, WriterKnows, BarrierOps
<1>4. ExclusiveIsClaimed'  BY DEF ExclusiveIsClaimed
<1>5. MovedIsLeaving'  BY DEF MovedIsLeaving, Gone
<1>6. WriterKnows'  BY DEF WriterKnows, Gone, BarrierOps
<1>7. TodoIsThere'  BY DEF TodoIsThere
<1> QED  BY <1>1, <1>2, <1>3, <1>4, <1>5, <1>6, <1>7

\* Memory of a new item is not pinned.
LEMMA AllocateKeeps ==
  ASSUME PinInvariant, Allocate
  PROVE  PinInvariant'
<1> USE DEF PinInvariant, Allocate, handles, word, WriterAt, GoOn
<1>1. TypeOK'  BY DEF TypeOK, WriterLabels, Ops, BarrierOps
<1>2. PinsCounted'  BY DEF PinsCounted, Held
<1>3. GoneIsUnpinned'  BY DEF GoneIsUnpinned, Gone
<1>4. ExclusiveIsClaimed'  BY DEF ExclusiveIsClaimed
<1>5. MovedIsLeaving'  BY DEF TypeOK, ExclusiveIsClaimed, MovedIsLeaving, Gone
<1>6. WriterKnows'  BY DEF TypeOK, GoneIsUnpinned, Gone, WriterKnows, BarrierOps
<1>7. TodoIsThere'  BY DEF TodoIsThere
<1> QED  BY <1>1, <1>2, <1>3, <1>4, <1>5, <1>6, <1>7

\* A new item is linked before it can be found.
LEMMA LinkNewKeeps ==
  ASSUME PinInvariant, LinkNew
  PROVE  PinInvariant'
<1> USE DEF PinInvariant, LinkNew, handles, memory, WriterAt, GoOn
<1>1. TypeOK'  BY DEF TypeOK, WriterLabels, Ops, BarrierOps
<1>2. PinsCounted'  BY DEF PinsCounted, Held
<1>3. GoneIsUnpinned'  BY DEF TypeOK, GoneIsUnpinned, Gone, WriterKnows, BarrierOps
<1>4. ExclusiveIsClaimed'  BY Zenon DEF ExclusiveIsClaimed
<1>5. MovedIsLeaving'  BY DEF MovedIsLeaving, Gone
<1>6. WriterKnows'  BY DEF WriterKnows, Gone, BarrierOps
<1>7. TodoIsThere'  BY DEF TodoIsThere
<1> QED  BY <1>1, <1>2, <1>3, <1>4, <1>5, <1>6, <1>7

\* A linked item can be found.
LEMMA MapInsertKeeps ==
  ASSUME PinInvariant, MapInsert
  PROVE  PinInvariant'
<1> USE DEF PinInvariant, MapInsert, handles, word, WriterAt, GoOn
<1>1. TypeOK'  BY DEF TypeOK, WriterLabels, Ops, BarrierOps
<1>2. PinsCounted'  BY DEF PinsCounted, Held
<1>3. GoneIsUnpinned'  BY DEF TypeOK, GoneIsUnpinned, Gone, WriterKnows, BarrierOps
<1>4. ExclusiveIsClaimed'  BY DEF ExclusiveIsClaimed
<1>5. MovedIsLeaving'  BY DEF MovedIsLeaving, Gone
<1>6. WriterKnows'  BY DEF WriterKnows, Gone, BarrierOps
<1>7. TodoIsThere'  BY DEF TodoIsThere
<1> QED  BY <1>1, <1>2, <1>3, <1>4, <1>5, <1>6, <1>7

\* The operation ends with nothing claimed.
LEMMA UnlockKeeps ==
  ASSUME PinInvariant, Unlock
  PROVE  PinInvariant'
<1> USE DEF PinInvariant, Unlock, handles, memory, word, WriterAt, GoOn
<1>1. TypeOK'  BY DEF TypeOK, WriterLabels, Ops, BarrierOps
<1>2. PinsCounted'  BY DEF PinsCounted, Held
<1>3. GoneIsUnpinned'  BY DEF GoneIsUnpinned, Gone
<1>4. ExclusiveIsClaimed'  BY DEF ExclusiveIsClaimed
<1>5. MovedIsLeaving'  BY DEF MovedIsLeaving, Gone
<1>6. WriterKnows'  BY DEF WriterKnows, Gone, BarrierOps
<1>7. TodoIsThere'  BY DEF TodoIsThere
<1> QED  BY <1>1, <1>2, <1>3, <1>4, <1>5, <1>6, <1>7

\* The reclaimer frees only what is retired.
LEMMA ReclaimKeeps ==
  ASSUME NEW i \in Items, PinInvariant, Reclaim(i)
  PROVE  PinInvariant'
<1> USE DEF PinInvariant, Reclaim, handles, writer, word
<1>1. TypeOK'  BY DEF TypeOK, WriterLabels, Ops, BarrierOps
<1>2. PinsCounted'  BY DEF PinsCounted, Held
<1>3. GoneIsUnpinned'  BY DEF GoneIsUnpinned, Gone
<1>4. ExclusiveIsClaimed'  BY DEF ExclusiveIsClaimed
<1>5. MovedIsLeaving'  BY DEF MovedIsLeaving, Gone
<1>6. WriterKnows'  BY DEF WriterKnows, Gone, BarrierOps
<1>7. TodoIsThere'  BY DEF TodoIsThere
<1> QED  BY <1>1, <1>2, <1>3, <1>4, <1>5, <1>6, <1>7

-----------------------------------------------------------------------------
\* Every step keeps the invariant.
LEMMA NextKeepsInvariant ==
  ASSUME WriterOps \subseteq BarrierOps, PinInvariant, [Next]_vars
  PROVE  PinInvariant'
<1>1. ASSUME NEW h \in Handles, HandleStep(h) PROVE PinInvariant'
  <2>1. ASSUME NEW i \in Items, Find(h, i) PROVE PinInvariant'  BY <2>1, FindKeeps
  <2>2. ASSUME NEW k \in Handles, Copy(h, k) PROVE PinInvariant'  BY <2>2, CopyKeeps
  <2> QED  BY <1>1, <2>1, <2>2, PinFoundKeeps, PinLockedKeeps, ReleaseKeeps DEF HandleStep
<1>2. ASSUME NEW o \in WriterOps, Start(o) PROVE PinInvariant'  BY <1>2, StartKeeps
<1>3. ASSUME WriterStep PROVE PinInvariant'
  BY <1>3, CleanupCheckKeeps, CleanupRetireKeeps, CleanupDoneKeeps, NextItemKeeps,
     NoMoreItemsKeeps, CheckHandlesKeeps, MarkForEvictionKeeps, MoveValueKeeps,
     MapEraseKeeps, RemoveFromListKeeps, UnmarkForEvictionKeeps, SettleForceDelKeeps,
     RetireItemKeeps, AllocateKeeps, LinkNewKeeps, MapInsertKeeps, UnlockKeeps
  DEF WriterStep
<1>4. ASSUME NEW i \in Items, Reclaim(i) PROVE PinInvariant'  BY <1>4, ReclaimKeeps
<1>5. ASSUME UNCHANGED vars PROVE PinInvariant'
  BY <1>5 DEF PinInvariant, TypeOK, PinsCounted, GoneIsUnpinned, ExclusiveIsClaimed,
    MovedIsLeaving, WriterKnows, TodoIsThere, Gone, Held, vars, word, handles, writer, memory
<1> QED  BY <1>1, <1>2, <1>3, <1>4, <1>5 DEF Next

\* An item that is gone or moved has no pins, so no handle holds it.
LEMMA InvariantIsSafe == PinInvariant => PinnedIsLive
BY DEF PinInvariant, TypeOK, PinsCounted, GoneIsUnpinned, ExclusiveIsClaimed, MovedIsLeaving,
       WriterKnows, Gone, Held, PinnedIsLive

\* PinInvariant holds in every reachable state: it ties the pins counted in an
\* item's word to the handles that are held and to what the writer under the
\* exclusive lock knows about the item at each of its statements.
THEOREM PinsAreTracked ==
  ASSUME WriterOps \subseteq BarrierOps
  PROVE  Spec => []PinInvariant
<1>1. PinInvariant /\ [Next]_vars => PinInvariant'  BY NextKeepsInvariant
<1> QED  BY InitIsFine, <1>1, PTL DEF Spec

\* A read_handle reads a live item for as long as it is held, whatever
\* insertions, evictions, flushes, force_dels and clean-ups run meanwhile.
THEOREM PinProtects ==
  ASSUME WriterOps \subseteq BarrierOps
  PROVE  Spec => []PinnedIsLive
BY PinsAreTracked, InvariantIsSafe, PTL

-----------------------------------------------------------------------------
(* Retiring once, whatever the operations *)

\* What is out of the cache is in one place only, and cannot be found; pop()
\* unlinks its item before it takes it out of the table.
PlacesApart ==
  /\ \A i \in Items : Gone(i) => i \notin linked \cup pending
  /\ claimed \cap retired = {} /\ claimed \cap freed = {} /\ retired \cap freed = {}
  /\ pending \cap linked = {}
  /\ \A i \in table : i \in linked \/ (wop = "pop" /\ wpc = "unmap" /\ i = witem)

\* Where the writer's item is at each of its statements.
WriterPlaces ==
  /\ wpc \in {"check", "claim", "move", "unlink", "map"} => witem \in linked
  /\ wpc = "unmap" /\ wop # "pop" => witem \in linked
  /\ wpc = "unlink" /\ wop # "pop" => witem \notin table
  /\ wpc \in {"unmark", "settle", "retire", "link", "map"} => witem \notin table
  /\ wpc \in {"unmark", "settle", "retire", "link"} \/ (wpc = "unmap" /\ wop = "pop") =>
       witem \notin linked \cup pending /\ ~Gone(witem)
  /\ wpc = "cleanup_retire" => witem \in pending
  /\ wpc = "unmark" => wop \in {"evict", "flush"}
  /\ wpc \in {"claim", "settle"} => wop # "pop"

\* The inductive invariant behind RetireOnce, for all operations.
PlaceInvariant == TypeOK /\ PlacesApart /\ WriterPlaces /\ TodoIsThere

\* Handles pin and release; where the items are is the writers' business.
LEMMA HandlesKeepPlaces ==
  ASSUME PlaceInvariant, NEW h \in Handles, HandleStep(h)
  PROVE  PlaceInvariant'
<1>1. UNCHANGED <<linked, exclusive, writer, memory>>
  BY DEF HandleStep, Find, PinFound, PinLocked, Copy, Release, word
<1>2. access' \in [Items -> SUBSET Handles]
  BY DEF PlaceInvariant, TypeOK, HandleStep, Find, PinFound, PinLocked, Copy, Release, Pin, word
<1>3. hpc' \in [Handles -> {"idle", "found", "retry", "held"}] /\ hitem' \in [Handles -> Items]
  BY DEF PlaceInvariant, TypeOK, HandleStep, Find, PinFound, PinLocked, Copy, Release, Pin
<1>4. TypeOK'
  BY <1>1, <1>2, <1>3, Zenon DEF PlaceInvariant, TypeOK, writer, memory
<1>5. PlacesApart' /\ WriterPlaces' /\ TodoIsThere'
  BY <1>1, Zenon
  DEF PlaceInvariant, PlacesApart, WriterPlaces, TodoIsThere, Gone, writer, memory
<1> QED  BY <1>4, <1>5 DEF PlaceInvariant

\* The lock is taken, and the reclaimer frees what is retired.
LEMMA StartKeepsPlaces ==
  ASSUME PlaceInvariant, NEW o \in WriterOps, Start(o)
  PROVE  PlaceInvariant'
<1> USE DEF PlaceInvariant, Start, handles, memory, word, WriterAt, GoOn
<1>1. TypeOK'  BY WriterOpsAssumption DEF TypeOK, WriterLabels
<1>2. PlacesApart'  BY DEF PlacesApart, Gone
<1>3. WriterPlaces'  BY DEF WriterPlaces, Gone
<1>4. TodoIsThere'  BY DEF TodoIsThere
<1> QED  BY <1>1, <1>2, <1>3, <1>4

LEMMA ReclaimKeepsPlaces ==
  ASSUME PlaceInvariant, NEW i \in Items, Reclaim(i)
  PROVE  PlaceInvariant'
<1> USE DEF PlaceInvariant, Reclaim, handles, writer, word
<1>1. TypeOK'  BY DEF TypeOK
<1>2. PlacesApart'  BY DEF PlacesApart, Gone
<1>3. WriterPlaces'  BY DEF WriterPlaces, Gone
<1>4. TodoIsThere'  BY DEF TodoIsThere
<1> QED  BY <1>1, <1>2, <1>3, <1>4

\* One step per statement of the operations.
LEMMA WriterKeepsPlaces ==
  ASSUME PlaceInvariant, WriterStep
  PROVE  PlaceInvariant'
<1> USE DEF PlaceInvariant, handles, memory, word, WriterAt, GoOn
<1>1. CASE CleanupCheck
  <2>1. TypeOK'  BY <1>1 DEF TypeOK, WriterLabels, Ops, CleanupCheck
  <2>2. PlacesApart'  BY <1>1 DEF TypeOK, PlacesApart, WriterPlaces, TodoIsThere, Gone, CleanupCheck
  <2>3. WriterPlaces'  BY <1>1 DEF TypeOK, PlacesApart, WriterPlaces, TodoIsThere, Gone, CleanupCheck
  <2>4. TodoIsThere'  BY <1>1 DEF TypeOK, PlacesApart, WriterPlaces, TodoIsThere, Gone, CleanupCheck
  <2> QED  BY <2>1, <2>2, <2>3, <2>4
<1>2. CASE CleanupRetire
  <2>1. TypeOK'  BY <1>2 DEF TypeOK, WriterLabels, Ops, CleanupRetire
  <2>2. PlacesApart'  BY <1>2 DEF TypeOK, PlacesApart, WriterPlaces, TodoIsThere, Gone, CleanupRetire
  <2>3. WriterPlaces'  BY <1>2 DEF TypeOK, PlacesApart, WriterPlaces, TodoIsThere, Gone, CleanupRetire
  <2>4. TodoIsThere'  BY <1>2 DEF TypeOK, PlacesApart, WriterPlaces, TodoIsThere, Gone, CleanupRetire
  <2> QED  BY <2>1, <2>2, <2>3, <2>4
<1>3. CASE CleanupDone
  <2>1. TypeOK'  BY <1>3 DEF TypeOK, WriterLabels, Ops, CleanupDone
  <2>2. PlacesApart'  BY <1>3 DEF TypeOK, PlacesApart, WriterPlaces, TodoIsThere, Gone, CleanupDone
  <2>3. WriterPlaces'  BY <1>3 DEF TypeOK, PlacesApart, WriterPlaces, TodoIsThere, Gone, CleanupDone
  <2>4. TodoIsThere'  BY <1>3 DEF TypeOK, PlacesApart, WriterPlaces, TodoIsThere, Gone, CleanupDone
  <2> QED  BY <2>1, <2>2, <2>3, <2>4
<1>4. CASE NextItem
  <2>1. TypeOK'  BY <1>4 DEF TypeOK, WriterLabels, Ops, NextItem
  <2>2. PlacesApart'  BY <1>4 DEF TypeOK, PlacesApart, WriterPlaces, TodoIsThere, Gone, NextItem
  <2>3. WriterPlaces'  BY <1>4 DEF TypeOK, PlacesApart, WriterPlaces, TodoIsThere, Gone, NextItem
  <2>4. TodoIsThere'  BY <1>4 DEF TypeOK, PlacesApart, WriterPlaces, TodoIsThere, Gone, NextItem
  <2> QED  BY <2>1, <2>2, <2>3, <2>4
<1>5. CASE NoMoreItems
  <2>1. TypeOK'  BY <1>5 DEF TypeOK, WriterLabels, Ops, NoMoreItems
  <2>2. PlacesApart'  BY <1>5 DEF TypeOK, PlacesApart, WriterPlaces, TodoIsThere, Gone, NoMoreItems
  <2>3. WriterPlaces'  BY <1>5 DEF TypeOK, PlacesApart, WriterPlaces, TodoIsThere, Gone, NoMoreItems
  <2>4. TodoIsThere'  BY <1>5 DEF TypeOK, PlacesApart, WriterPlaces, TodoIsThere, Gone, NoMoreItems
  <2> QED  BY <2>1, <2>2, <2>3, <2>4
<1>6. CASE CheckHandles
  <2>1. TypeOK'  BY <1>6 DEF TypeOK, WriterLabels, Ops, CheckHandles
  <2>2. PlacesApart'  BY <1>6 DEF TypeOK, PlacesApart, WriterPlaces, TodoIsThere, Gone, CheckHandles
  <2>3. WriterPlaces'  BY <1>6 DEF TypeOK, PlacesApart, WriterPlaces, TodoIsThere, Gone, CheckHandles
  <2>4. TodoIsThere'  BY <1>6 DEF TypeOK, PlacesApart, WriterPlaces, TodoIsThere, Gone, CheckHandles
  <2> QED  BY <2>1, <2>2, <2>3, <2>4
<1>7. CASE MarkForEviction
  <2>1. TypeOK'  BY <1>7 DEF TypeOK, WriterLabels, Ops, MarkForEviction
  <2>2. PlacesApart'  BY <1>7 DEF TypeOK, PlacesApart, WriterPlaces, TodoIsThere, Gone, MarkForEviction
  <2>3. WriterPlaces'  BY <1>7 DEF TypeOK, PlacesApart, WriterPlaces, TodoIsThere, Gone, MarkForEviction
  <2>4. TodoIsThere'  BY <1>7 DEF TypeOK, PlacesApart, WriterPlaces, TodoIsThere, Gone, MarkForEviction
  <2> QED  BY <2>1, <2>2, <2>3, <2>4
<1>8. CASE MoveValue
  <2>1. TypeOK'  BY <1>8 DEF TypeOK, WriterLabels, Ops, MoveValue
  <2>2. PlacesApart'  BY <1>8 DEF TypeOK, PlacesApart, WriterPlaces, TodoIsThere, Gone, MoveValue
  <2>3. WriterPlaces'  BY <1>8 DEF TypeOK, PlacesApart, WriterPlaces, TodoIsThere, Gone, MoveValue
  <2>4. TodoIsThere'  BY <1>8 DEF TypeOK, PlacesApart, WriterPlaces, TodoIsThere, Gone, MoveValue
  <2> QED  BY <2>1, <2>2, <2>3, <2>4
<1>9. CASE MapErase
  <2>1. TypeOK'  BY <1>9 DEF TypeOK, WriterLabels, Ops, MapErase
  <2>2. PlacesApart'  BY <1>9 DEF TypeOK, PlacesApart, WriterPlaces, TodoIsThere, Gone, MapErase
  <2>3. WriterPlaces'  BY <1>9 DEF TypeOK, PlacesApart, WriterPlaces, TodoIsThere, Gone, MapErase
  <2>4. TodoIsThere'  BY <1>9 DEF TypeOK, PlacesApart, WriterPlaces, TodoIsThere, Gone, MapErase
  <2> QED  BY <2>1, <2>2, <2>3, <2>4
<1>10. CASE RemoveFromList
  <2>1. TypeOK'  BY <1>10 DEF TypeOK, WriterLabels, Ops, RemoveFromList
  <2>2. PlacesApart'  BY <1>10 DEF TypeOK, PlacesApart, WriterPlaces, TodoIsThere, Gone, RemoveFromList
  <2>3. WriterPlaces'  BY <1>10 DEF TypeOK, PlacesApart, WriterPlaces, TodoIsThere, Gone, RemoveFromList
  <2>4. TodoIsThere'  BY <1>10 DEF TypeOK, PlacesApart, WriterPlaces, TodoIsThere, Gone, RemoveFromList
  <2> QED  BY <2>1, <2>2, <2>3, <2>4
<1>11. CASE UnmarkForEviction
  <2>1. TypeOK'  BY <1>11 DEF TypeOK, WriterLabels, Ops, UnmarkForEviction
  <2>2. PlacesApart'  BY <1>11 DEF TypeOK, PlacesApart, WriterPlaces, TodoIsThere, Gone, UnmarkForEviction
  <2>3. WriterPlaces'  BY <1>11 DEF TypeOK, PlacesApart, WriterPlaces, TodoIsThere, Gone, UnmarkForEviction
  <2>4. TodoIsThere'  BY <1>11 DEF TypeOK, PlacesApart, WriterPlaces, TodoIsThere, Gone, UnmarkForEviction
  <2> QED  BY <2>1, <2>2, <2>3, <2>4
<1>12. CASE SettleForceDel
  <2>1. TypeOK'  BY <1>12 DEF TypeOK, WriterLabels, Ops, SettleForceDel
  <2>2. PlacesApart'  BY <1>12 DEF TypeOK, PlacesApart, WriterPlaces, TodoIsThere, Gone, SettleForceDel
  <2>3. WriterPlaces'  BY <1>12 DEF TypeOK, PlacesApart, WriterPlaces, TodoIsThere, Gone, SettleForceDel
  <2>4. TodoIsThere'  BY <1>12 DEF TypeOK, PlacesApart, WriterPlaces, TodoIsThere, Gone, SettleForceDel
  <2> QED  BY <2>1, <2>2, <2>3, <2>4
<1>13. CASE RetireItem
  <2>1. TypeOK'  BY <1>13 DEF TypeOK, WriterLabels, Ops, RetireItem
  <2>2. PlacesApart'  BY <1>13 DEF TypeOK, PlacesApart, WriterPlaces, TodoIsThere, Gone, RetireItem
  <2>3. WriterPlaces'  BY <1>13 DEF TypeOK, PlacesApart, WriterPlaces, TodoIsThere, Gone, RetireItem
  <2>4. TodoIsThere'  BY <1>13 DEF TypeOK, PlacesApart, WriterPlaces, TodoIsThere, Gone, RetireItem
  <2> QED  BY <2>1, <2>2, <2>3, <2>4
<1>14. CASE Allocate
  <2>1. TypeOK'  BY <1>14 DEF TypeOK, WriterLabels, Ops, Allocate
  <2>2. PlacesApart'  BY <1>14 DEF TypeOK, PlacesApart, WriterPlaces, TodoIsThere, Gone, Allocate
  <2>3. WriterPlaces'  BY <1>14 DEF TypeOK, PlacesApart, WriterPlaces, TodoIsThere, Gone, Allocate
  <2>4. TodoIsThere'  BY <1>14 DEF TypeOK, PlacesApart, WriterPlaces, TodoIsThere, Gone, Allocate
  <2> QED  BY <2>1, <2>2, <2>3, <2>4
<1>15. CASE LinkNew
  <2>1. TypeOK'  BY <1>15 DEF TypeOK, WriterLabels, Ops, LinkNew
  <2>2. PlacesApart'  BY <1>15 DEF TypeOK, PlacesApart, WriterPlaces, TodoIsThere, Gone, LinkNew
  <2>3. WriterPlaces'  BY <1>15 DEF TypeOK, PlacesApart, WriterPlaces, TodoIsThere, Gone, LinkNew
  <2>4. TodoIsThere'  BY <1>15 DEF TypeOK, PlacesApart, WriterPlaces, TodoIsThere, Gone, LinkNew
  <2> QED  BY <2>1, <2>2, <2>3, <2>4
<1>16. CASE MapInsert
  <2>1. TypeOK'  BY <1>16 DEF TypeOK, WriterLabels, Ops, MapInsert
  <2>2. PlacesApart'  BY <1>16 DEF TypeOK, PlacesApart, WriterPlaces, TodoIsThere, Gone, MapInsert
  <2>3. WriterPlaces'  BY <1>16 DEF TypeOK, PlacesApart, WriterPlaces, TodoIsThere, Gone, MapInsert
  <2>4. TodoIsThere'  BY <1>16 DEF TypeOK, PlacesApart, WriterPlaces, TodoIsThere, Gone, MapInsert
  <2> QED  BY <2>1, <2>2, <2>3, <2>4
<1>17. CASE Unlock
  <2>1. TypeOK'  BY <1>17 DEF TypeOK, WriterLabels, Ops, Unlock
  <2>2. PlacesApart'  BY <1>17 DEF TypeOK, PlacesApart, WriterPlaces, TodoIsThere, Gone, Unlock
  <2>3. WriterPlaces'  BY <1>17 DEF TypeOK, PlacesApart, WriterPlaces, TodoIsThere, Gone, Unlock
  <2>4. TodoIsThere'  BY <1>17 DEF TypeOK, PlacesApart, WriterPlaces, TodoIsThere, Gone, Unlock
  <2> QED  BY <2>1, <2>2, <2>3, <2>4
<1> QED
  BY <1>1, <1>2, <1>3, <1>4, <1>5, <1>6, <1>7, <1>8, <1>9, <1>10, <1>11, <1>12,
     <1>13, <1>14, <1>15, <1>16, <1>17
  DEF WriterStep

\* No item reaches the reclaimer twice, or while it can be found, for all the
\* operations of mm_lru, pop and the expiry of items included: what these two do
\* to a pin they do not do to the books.
THEOREM ItemsRetireOnce == Spec => []RetireOnce
<1>1. Init => PlaceInvariant
  BY DEF Init, PlaceInvariant, TypeOK, PlacesApart, WriterPlaces, TodoIsThere, Gone,
         WriterLabels, Ops, BarrierOps
<1>2. PlaceInvariant /\ [Next]_vars => PlaceInvariant'
  <2> SUFFICES ASSUME PlaceInvariant, [Next]_vars PROVE PlaceInvariant'
    OBVIOUS
  <2>1. CASE UNCHANGED vars
    BY <2>1, Zenon DEF PlaceInvariant, TypeOK, PlacesApart, WriterPlaces, TodoIsThere, Gone,
       vars, word, handles, writer, memory
  <2> QED
    BY <2>1, HandlesKeepPlaces, StartKeepsPlaces, WriterKeepsPlaces, ReclaimKeepsPlaces, Zenon
    DEF Next
<1>3. PlaceInvariant => RetireOnce
  BY DEF PlaceInvariant, TypeOK, PlacesApart, WriterPlaces, Gone, RetireOnce
<1> QED  BY <1>1, <1>2, <1>3, PTL DEF Spec
=============================================================================
