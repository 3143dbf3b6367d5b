----------------------------- MODULE EpochDomain -----------------------------
(***************************************************************************)
(* epoch_domain (src/detail/epoch_reclamation.hpp): epoch-based deferred   *)
(* reclamation.  Readers stamp a slot with the global epoch on entry and   *)
(* clear it on exit; a writer unlinks an object, retires it (tagged with   *)
(* the global epoch, buffered per thread), and try_reclaim() frees every   *)
(* pending object whose tag lies two epochs behind the smallest stamp that *)
(* a slot-by-slot scan found.                                              *)
(*                                                                         *)
(* One step is one access to shared memory: the load of the epoch and the  *)
(* store of the stamp are separate, and so are the two reads of a scan.    *)
(* Readers enter and leave critical sections and may retire an object they *)
(* reached there; writers replace the object the shared location points to *)
(* and run try_reclaim(); syncers wait in synchronize_epoch(); a thread    *)
(* may have several roles.  The clock is a free choice: a stamped slot may *)
(* be older than the force-advance timeout at any scan.                    *)
(***************************************************************************)
EXTENDS Integers, Sequences, FiniteSets

CONSTANTS
    Readers, Writers, Syncers, \* threads that read, retire and reclaim, synchronize
    Objects,            \* objects a location may point to
    None,               \* nullptr
    SlotCount,          \* kMaxBatches * kBatchSize
    BufCapacity,        \* tls_retire_buffer::kCapacity
    Threshold,          \* reclaim_threshold_
    MaxDepth,           \* bound: nested critical sections of one thread
    MaxEpoch            \* bound: epochs the model counts

ASSUME EpochAssumption ==
    /\ None \notin Objects
    /\ SlotCount \in Nat /\ MaxEpoch \in Nat /\ MaxDepth \in Nat \ {0}

Threads == Readers \cup Writers \cup Syncers
Slots == 1..SlotCount
npos == 0
(* kInactiveEpoch and the start value of compute_min_epoch() are both the  *)
(* largest uint64_t; here a number above every epoch.                      *)
InactiveEpoch == MaxEpoch + 2

VARIABLES
    global,      \* global_epoch_
    policy,      \* force_advance_policy_: "kFailAdvance" or "kForceAdvance"
    used,        \* used_batches_: slots that belong to a thread
    local,       \* local_epoch of every slot
    cache,       \* tls_slot_cache: [slot, depth]
    location,    \* the shared location readers load a pointer from
    ref,         \* pointers a reader loaded in its critical section
    claimed,     \* objects whose retired_ flag is set
    tag,         \* epoch_ of a retired object
    buf,         \* tls_retire_buf(): objects retired, not yet flushed
    pending,     \* pending_head_: the global pending list
    ledger,      \* sum of pending_shards_
    reclaiming,  \* reclaim_in_progress_
    freed,       \* objects whose reclaim_ has run
    forced,      \* a scan has skipped the slot of a live reader
    pc, stack,   \* where a thread is, and its return labels
    reg,         \* a thread's locals: [obj, epoch, pos, min, batch, taken, keep]
    waitFor      \* history: readers inside when synchronize_epoch() was called

vars == <<global, policy, used, local, cache, location, ref, claimed, tag, buf,
          pending, ledger, reclaiming, freed, forced, pc, stack, reg, waitFor>>

readerVars == <<used, local, cache, ref>>
retireVars == <<location, claimed, tag, buf>>
listVars == <<pending, ledger, reclaiming, freed, forced>>

NoRegs == [obj |-> None, epoch |-> 0, pos |-> 1, min |-> InactiveEpoch, batch |-> 0,
           taken |-> <<>>, keep |-> <<>>]

Init ==
    /\ global = 0
    /\ policy \in {"kFailAdvance", "kForceAdvance"}
    /\ used = {}
    /\ local = [s \in Slots |-> InactiveEpoch]
    /\ cache = [t \in Threads |-> [slot |-> npos, depth |-> 0]]
    /\ location \in Objects
    /\ ref = [t \in Threads |-> {}]
    /\ claimed = {}
    /\ tag = [o \in Objects |-> 0]
    /\ buf = [t \in Threads |-> <<>>]
    /\ pending = <<>>
    /\ ledger = 0
    /\ reclaiming = FALSE
    /\ freed = {}
    /\ forced = FALSE
    /\ pc = [t \in Threads |-> "idle"]
    /\ stack = [t \in Threads |-> <<>>]
    /\ reg = [t \in Threads |-> NoRegs]
    /\ waitFor = [t \in Threads |-> {}]

Goto(t, label) == pc' = [pc EXCEPT ![t] = label]
Call(t, label, ret) ==
    /\ pc' = [pc EXCEPT ![t] = label]
    /\ stack' = [stack EXCEPT ![t] = <<ret>> \o @]
Return(t) ==
    /\ pc' = [pc EXCEPT ![t] = Head(stack[t])]
    /\ stack' = [stack EXCEPT ![t] = Tail(@)]
-----------------------------------------------------------------------------
(* Critical sections.                                                      *)

(* enter_critical(), slow path: a thread without a slot claims a free one. *)
(* With none left acquire_slot() gives up with npos, the guard is not      *)
(* valid() and the reader takes the locked path: no step of this model.    *)
AcquireSlot(t) ==
    /\ pc[t] = "idle" /\ t \in Readers /\ cache[t].slot = npos
    /\ \E s \in Slots \ used :
          /\ used' = used \cup {s}
          /\ cache' = [cache EXCEPT ![t].slot = s]
    /\ Goto(t, "enter")
    /\ UNCHANGED <<global, policy, local, ref, stack, reg, waitFor, retireVars, listVars>>

(* enter_critical(), fast path: the cached slot is reused.                 *)
EnterCached(t) ==
    /\ pc[t] = "idle" /\ t \in Readers /\ cache[t].slot # npos
    /\ Goto(t, "enter")
    /\ UNCHANGED <<global, policy, readerVars, stack, reg, waitFor, retireVars, listVars>>

EnterLoad(t) ==
    /\ pc[t] = "enter"
    /\ reg' = [reg EXCEPT ![t].epoch = global]
    /\ Goto(t, "stamp")
    /\ UNCHANGED <<global, policy, readerVars, stack, waitFor, retireVars, listVars>>

EnterStamp(t) ==
    /\ pc[t] = "stamp"
    /\ local' = [local EXCEPT ![cache[t].slot] = reg[t].epoch]
    /\ cache' = [cache EXCEPT ![t].depth = 1]
    /\ reg' = [reg EXCEPT ![t].epoch = 0]
    /\ Goto(t, "inside")
    /\ UNCHANGED <<global, policy, used, ref, stack, waitFor, retireVars, listVars>>

EnterNested(t) ==
    /\ pc[t] = "inside" /\ cache[t].depth < MaxDepth
    /\ cache' = [cache EXCEPT ![t].depth = @ + 1]
    /\ UNCHANGED <<global, policy, used, local, ref, pc, stack, reg, waitFor, retireVars, listVars>>

(* The reader loads the shared pointer; it uses the object until it leaves *)
(* its outermost critical section.                                         *)
LoadPointer(t) ==
    /\ pc[t] = "inside" /\ location # None
    /\ ref' = [ref EXCEPT ![t] = @ \cup {location}]
    /\ UNCHANGED <<global, policy, used, local, cache, pc, stack, reg, waitFor, retireVars, listVars>>

(* exit_critical(): only the outermost exit clears the stamp and wakes     *)
(* synchronize_epoch().                                                    *)
ExitCritical(t) ==
    /\ pc[t] = "inside"
    /\ IF cache[t].depth > 1
       THEN /\ cache' = [cache EXCEPT ![t].depth = @ - 1]
            /\ UNCHANGED <<local, ref, pc, waitFor>>
       ELSE /\ cache' = [cache EXCEPT ![t].depth = 0]
            /\ local' = [local EXCEPT ![cache[t].slot] = InactiveEpoch]
            /\ ref' = [ref EXCEPT ![t] = {}]
            /\ waitFor' = [u \in Threads |-> waitFor[u] \ {t}]
            /\ Goto(t, "idle")
    /\ UNCHANGED <<global, policy, used, stack, reg, retireVars, listVars>>

(* Thread exit: ~tls_slot_cache gives the slot back and ~tls_retire_buffer *)
(* flushes what the thread still buffers.                                  *)
ThreadExit(t) ==
    /\ pc[t] = "idle" /\ (cache[t].slot # npos \/ buf[t] # <<>>)
    /\ used' = used \ {cache[t].slot}
    /\ cache' = [cache EXCEPT ![t].slot = npos]
    /\ local' = [s \in Slots |-> IF s = cache[t].slot THEN InactiveEpoch ELSE local[s]]
    /\ Call(t, "flush", "idle")
    /\ UNCHANGED <<global, policy, ref, reg, waitFor, retireVars, listVars>>
-----------------------------------------------------------------------------
(* Retirement.                                                             *)

(* A writer takes the object out of the structure, possibly replacing it.  *)
Unlink(t) ==
    /\ pc[t] = "idle" /\ t \in Writers /\ location # None
    /\ \E new \in {None} \cup (Objects \ (claimed \cup {location})) :
          /\ \A u \in Threads : new # reg[u].obj \/ new = None
          /\ location' = new
    /\ reg' = [reg EXCEPT ![t].obj = location]
    /\ Goto(t, "retire")
    /\ UNCHANGED <<global, policy, readerVars, claimed, tag, buf, stack, waitFor, listVars>>

(* retire_obj() and push_retired(): claim the retired_ flag, tag, buffer;  *)
(* a full buffer is flushed.  A caller that loses the claim does nothing.  *)
Retire(t, o, back) ==
    /\ reg' = [reg EXCEPT ![t].obj = None]
    /\ IF o \in claimed
       THEN Goto(t, back) /\ UNCHANGED <<claimed, tag, buf, stack>>
       ELSE /\ claimed' = claimed \cup {o}
            /\ tag' = [tag EXCEPT ![o] = global]
            /\ buf' = [buf EXCEPT ![t] = Append(@, o)]
            /\ IF Len(buf[t]) + 1 >= BufCapacity
               THEN Call(t, "flush", back)
               ELSE Goto(t, back) /\ UNCHANGED stack
    /\ UNCHANGED <<global, policy, readerVars, location, waitFor, listVars>>

RetireUnlinked(t) == pc[t] = "retire" /\ Retire(t, reg[t].obj, "idle")

(* A second evictor of the same victim: a thread that reached the object   *)
(* in its critical section retires it too.                                 *)
RetireAgain(t) ==
    /\ pc[t] = "inside"
    /\ \E o \in ref[t] : o # location /\ Retire(t, o, "inside")

(* What becomes of a sequence when its entries are pushed one after the    *)
(* other at the head of an empty chain.                                    *)
Chained(s) == [i \in 1..Len(s) |-> s[Len(s) + 1 - i]]

(* flush_tls_buffer(): the buffer becomes a chain, last entry first, in    *)
(* front of the pending list; the ledger follows.  push_pending().         *)
Flush(t) ==
    /\ pc[t] = "flush"
    /\ IF buf[t] = <<>>
       THEN Return(t) /\ UNCHANGED <<buf, pending, ledger>>
       ELSE /\ pending' = Chained(buf[t]) \o pending
            /\ ledger' = ledger + Len(buf[t])
            /\ buf' = [buf EXCEPT ![t] = <<>>]
            /\ Goto(t, "advance") /\ UNCHANGED stack
    /\ UNCHANGED <<global, policy, readerVars, location, claimed, tag,
                   reclaiming, freed, forced, reg, waitFor>>

(* maybe_advance_epoch(): the epoch may advance once every stamp is at it. *)
AdvanceCheck(t) ==
    /\ pc[t] = "advance"
    /\ IF \A s \in used : local[s] >= global
       THEN reg' = [reg EXCEPT ![t].epoch = global] /\ Goto(t, "advancecas")
       ELSE Goto(t, "capacity") /\ UNCHANGED reg
    /\ UNCHANGED <<global, policy, readerVars, stack, waitFor, retireVars, listVars>>

AdvanceCas(t) ==
    /\ pc[t] = "advancecas"
    /\ IF global = reg[t].epoch
       THEN global < MaxEpoch /\ global' = global + 1
       ELSE UNCHANGED global
    /\ reg' = [reg EXCEPT ![t].epoch = 0]
    /\ Goto(t, "capacity")
    /\ UNCHANGED <<policy, readerVars, stack, waitFor, retireVars, listVars>>

(* maybe_capacity_advance(): a backlog above a quarter of the threshold    *)
(* advances the epoch whether or not the readers have caught up.           *)
CapacityAdvance(t) ==
    /\ pc[t] = "capacity"
    /\ IF ledger > Threshold \div 4
       THEN global < MaxEpoch /\ global' = global + 1
       ELSE UNCHANGED global
    /\ Goto(t, "auto")
    /\ UNCHANGED <<policy, readerVars, stack, reg, waitFor, retireVars, listVars>>

(* maybe_auto_reclaim(): above the threshold one thread at a time reclaims *)
(* synchronously.                                                          *)
AutoReclaim(t) ==
    /\ pc[t] = "auto"
    /\ IF ledger > Threshold /\ ~reclaiming
       THEN reclaiming' = TRUE /\ Call(t, "exchange", "autoend")
       ELSE Return(t) /\ UNCHANGED reclaiming
    /\ UNCHANGED <<global, policy, readerVars, retireVars, pending, ledger, freed,
                   forced, reg, waitFor>>

AutoEnd(t) ==
    /\ pc[t] = "autoend"
    /\ reclaiming' = FALSE
    /\ Return(t)
    /\ UNCHANGED <<global, policy, readerVars, retireVars, pending, ledger, freed,
                   forced, reg, waitFor>>

(* maybe_time_advance(): the drain worker's tick.                          *)
TimeAdvance ==
    /\ global < MaxEpoch
    /\ global' = global + 1
    /\ UNCHANGED <<policy, readerVars, retireVars, listVars, pc, stack, reg, waitFor>>
-----------------------------------------------------------------------------
(* Reclamation.                                                            *)

TryReclaim(t) ==
    /\ pc[t] = "idle" /\ t \in Writers /\ (pending # <<>> \/ buf[t] # <<>>)
    /\ pc' = [pc EXCEPT ![t] = "flush"]
    /\ stack' = [stack EXCEPT ![t] = <<"exchange", "idle">> \o @]
    /\ UNCHANGED <<global, policy, readerVars, retireVars, listVars, reg, waitFor>>

(* The whole pending list is detached; a pass with a batch size (here 1)   *)
(* works on it oldest first.  An automatic pass has no batch size.         *)
Exchange(t) ==
    /\ pc[t] = "exchange"
    /\ pending' = <<>>
    /\ IF pending = <<>>
       THEN Return(t) /\ UNCHANGED reg
       ELSE /\ \E batch \in IF Head(stack[t]) = "autoend" THEN {0} ELSE {0, 1} :
                  reg' = [reg EXCEPT ![t].batch = batch, ![t].pos = 1,
                                     ![t].min = InactiveEpoch,
                                     ![t].taken = IF batch > 0 THEN Chained(pending)
                                                               ELSE pending]
            /\ Goto(t, "scan") /\ UNCHANGED stack
    /\ UNCHANGED <<global, policy, readerVars, retireVars, ledger, reclaiming, freed,
                   forced, waitFor>>

Stamped(s) == s \in used /\ local[s] # InactiveEpoch

(* compute_min_epoch(), one slot.  Under the opt-in policies a stamp older *)
(* than the timeout is skipped; otherwise it only counts as stale.         *)
ScanSlot(t) ==
    /\ pc[t] = "scan" /\ reg[t].pos \in Slots
    /\ \E skip \in IF policy = "kForceAdvance" /\ Stamped(reg[t].pos) THEN BOOLEAN
                                                                      ELSE {FALSE} :
          /\ forced' = (forced \/ skip)
          /\ reg' = [reg EXCEPT ![t].pos = @ + 1,
                                ![t].min = IF Stamped(reg[t].pos) /\ ~skip
                                              /\ local[reg[t].pos] < @
                                           THEN local[reg[t].pos] ELSE @]
    /\ UNCHANGED <<global, policy, readerVars, retireVars, pending, ledger, reclaiming,
                   freed, pc, stack, waitFor>>

(* No stamp found: everything before the current epoch may go.             *)
ScanEnd(t) ==
    /\ pc[t] = "scan" /\ reg[t].pos \notin Slots
    /\ reg' = [reg EXCEPT ![t].min = IF @ = InactiveEpoch THEN global + 1 ELSE @, ![t].pos = 1]
    /\ Goto(t, "free")
    /\ UNCHANGED <<global, policy, readerVars, retireVars, listVars, stack, waitFor>>

\* Mutant: no grace beyond the smallest stamp itself.
ReclaimableEarly(o, min) == tag[o] <= min

(* Two epochs of grace.                                                    *)
Reclaimable(o, min) == tag[o] + 1 < min

(* The walk over the detached chain, one object: a reclaimable one is      *)
(* destroyed, another kept, in order.  At most batch objects are inspected *)
(* (0: all of them).                                                       *)
More(t) ==
    /\ reg[t].pos <= Len(reg[t].taken)
    /\ reg[t].batch = 0 \/ reg[t].pos <= reg[t].batch

FreeNext(t) ==
    /\ pc[t] = "free" /\ More(t)
    /\ LET o == reg[t].taken[reg[t].pos]
       IN IF Reclaimable(o, reg[t].min)
          THEN /\ freed' = freed \cup {o}
               /\ tag' = [tag EXCEPT ![o] = 0]
               /\ reg' = [reg EXCEPT ![t].pos = @ + 1]
          ELSE /\ reg' = [reg EXCEPT ![t].pos = @ + 1, ![t].keep = Append(@, o)]
               /\ UNCHANGED <<freed, tag>>
    /\ UNCHANGED <<global, policy, readerVars, location, claimed, buf, pending, ledger,
                   reclaiming, forced, pc, stack, waitFor>>

(* What was not inspected stays behind what was kept.                      *)
FreeEnd(t) ==
    /\ pc[t] = "free" /\ ~More(t)
    /\ reg' = [reg EXCEPT ![t].keep =
                  @ \o SubSeq(reg[t].taken, reg[t].pos, Len(reg[t].taken))]
    /\ Goto(t, "putback")
    /\ UNCHANGED <<global, policy, readerVars, retireVars, listVars, stack, waitFor>>

\* Mutant: the release counts only what was freed, not the whole chain.
PutBackFreed(t) ==
    /\ pc[t] = "putback"
    /\ pending' = reg[t].keep \o pending
    /\ ledger' = ledger + 2 * Len(reg[t].keep) - Len(reg[t].taken)
    /\ reg' = [reg EXCEPT ![t] = NoRegs]
    /\ Return(t)
    /\ UNCHANGED <<global, policy, readerVars, retireVars, reclaiming, freed, forced,
                   waitFor>>

(* push_pending() of the survivors re-adds them to the ledger;             *)
(* pending_release() then drops the whole detached chain.                  *)
PutBack(t) ==
    /\ pc[t] = "putback"
    /\ pending' = reg[t].keep \o pending
    /\ ledger' = ledger + Len(reg[t].keep) - Len(reg[t].taken)
    /\ reg' = [reg EXCEPT ![t] = NoRegs]
    /\ Return(t)
    /\ UNCHANGED <<global, policy, readerVars, retireVars, reclaiming, freed, forced,
                   waitFor>>
-----------------------------------------------------------------------------
(* synchronize_epoch().                                                    *)

Inside(t) == cache[t].depth > 0

\* Mutant: the target is the current epoch, which its readers already have.
SyncCallCurrent(t) ==
    /\ pc[t] = "idle" /\ t \in Syncers /\ \E u \in Threads \ {t} : Inside(u)
    /\ reg' = [reg EXCEPT ![t].epoch = global, ![t].pos = 1]
    /\ waitFor' = [waitFor EXCEPT ![t] = {u \in Threads : Inside(u)}]
    /\ Goto(t, "sync")
    /\ UNCHANGED <<global, policy, readerVars, retireVars, listVars, stack>>

SyncCall(t) ==
    /\ pc[t] = "idle" /\ t \in Syncers /\ \E u \in Threads \ {t} : Inside(u)
    /\ reg' = [reg EXCEPT ![t].epoch = global + 1, ![t].pos = 1]
    /\ waitFor' = [waitFor EXCEPT ![t] = {u \in Threads : Inside(u)}]
    /\ Goto(t, "sync")
    /\ UNCHANGED <<global, policy, readerVars, retireVars, listVars, stack>>

(* all_slots_at_or_past_epoch(): the scan gives up at the first stamp      *)
(* below the target; the waiter then blocks until an exit notifies it and  *)
(* scans again, or until its deadline (SyncTimeout).                       *)
SyncSlot(t) ==
    /\ pc[t] = "sync" /\ reg[t].pos \in Slots
    /\ reg' = [reg EXCEPT ![t].pos =
                  IF Stamped(@) /\ local[@] < reg[t].epoch THEN 1 ELSE @ + 1]
    /\ UNCHANGED <<global, policy, readerVars, retireVars, listVars, pc, stack, waitFor>>

SyncReturn(t) ==
    /\ pc[t] = "sync" /\ reg[t].pos \notin Slots
    /\ Goto(t, "synced")
    /\ UNCHANGED <<global, policy, readerVars, retireVars, listVars, stack, reg, waitFor>>

SyncTimeout(t) ==
    /\ pc[t] = "sync"
    /\ waitFor' = [waitFor EXCEPT ![t] = {}]
    /\ reg' = [reg EXCEPT ![t] = NoRegs]
    /\ Goto(t, "idle")
    /\ UNCHANGED <<global, policy, readerVars, retireVars, listVars, stack>>

SyncDone(t) ==
    /\ pc[t] = "synced"
    /\ waitFor' = [waitFor EXCEPT ![t] = {}]
    /\ reg' = [reg EXCEPT ![t] = NoRegs]
    /\ Goto(t, "idle")
    /\ UNCHANGED <<global, policy, readerVars, retireVars, listVars, stack>>
-----------------------------------------------------------------------------
ReaderStep(t) ==
    \/ AcquireSlot(t) \/ EnterCached(t) \/ EnterLoad(t) \/ EnterStamp(t)
    \/ EnterNested(t) \/ LoadPointer(t) \/ ExitCritical(t)

RetireStep(t) ==
    \/ ThreadExit(t) \/ Unlink(t) \/ RetireUnlinked(t) \/ RetireAgain(t) \/ Flush(t)
    \/ AdvanceCheck(t) \/ AdvanceCas(t) \/ CapacityAdvance(t)
    \/ AutoReclaim(t) \/ AutoEnd(t)

ReclaimStep(t) ==
    \/ TryReclaim(t) \/ Exchange(t) \/ ScanSlot(t) \/ ScanEnd(t)
    \/ FreeNext(t) \/ FreeEnd(t) \/ PutBack(t)

SyncStep(t) ==
    SyncCall(t) \/ SyncSlot(t) \/ SyncReturn(t) \/ SyncTimeout(t) \/ SyncDone(t)

Next ==
    \/ TimeAdvance
    \/ \E t \in Threads :
          ReaderStep(t) \/ RetireStep(t) \/ ReclaimStep(t) \/ SyncStep(t)

Spec == Init /\ [][Next]_vars
-----------------------------------------------------------------------------
Labels == {"idle", "enter", "stamp", "inside", "retire", "flush", "advance", "advancecas",
           "capacity", "auto", "autoend", "exchange", "scan", "free", "putback", "sync",
           "synced"}
Locals == [obj : Objects \cup {None}, epoch : 0..MaxEpoch + 1, pos : Nat \ {0},
           min : 0..InactiveEpoch, batch : {0, 1}, taken : Seq(Objects), keep : Seq(Objects)]

TypeOK ==
    /\ global \in 0..MaxEpoch
    /\ policy \in {"kFailAdvance", "kForceAdvance"}
    /\ used \subseteq Slots
    /\ local \in [Slots -> 0..MaxEpoch \cup {InactiveEpoch}]
    /\ cache \in [Threads -> [slot : Slots \cup {npos}, depth : 0..MaxDepth]]
    /\ location \in Objects \cup {None}
    /\ ref \in [Threads -> SUBSET Objects]
    /\ claimed \subseteq Objects /\ freed \subseteq claimed
    /\ tag \in [Objects -> 0..MaxEpoch]
    /\ buf \in [Threads -> Seq(Objects)]
    /\ pending \in Seq(Objects)
    /\ ledger \in Int
    /\ reclaiming \in BOOLEAN /\ forced \in BOOLEAN
    /\ pc \in [Threads -> Labels] /\ stack \in [Threads -> Seq(Labels)]
    /\ reg \in [Threads -> Locals]
    /\ waitFor \in [Threads -> SUBSET Threads]

(* epoch_domain implements deferred reclamation: no reader that entered    *)
(* before an object was unlinked can still hold it when reclaim_ runs,     *)
(* unless the opt-in force-advance policy has skipped a live reader.       *)
Abstract == INSTANCE SafeReclamation WITH
    Readers <- Threads,
    reachable <- IF location = None THEN {} ELSE {location},
    retired <- claimed,
    unsafe <- forced
ImplementsSafeReclamation == Abstract!Spec

NoUseAfterFree == forced \/ \A t \in Threads : ref[t] \cap freed = {}

(* When synchronize_epoch() returns true, every reader that was inside a   *)
(* critical section at the call has left it, although the scan reads the   *)
(* slots one at a time while readers come and go.                          *)
SyncWaitsForReaders == \A t \in Threads : pc[t] = "synced" => waitFor[t] = {}
=============================================================================
