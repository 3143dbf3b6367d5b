--------------------------- MODULE DistributedMutex ---------------------------
(***************************************************************************)
(* lru::detail::distributed_shared_mutex (detail/distributed_mutex.hpp).   *)
(*                                                                         *)
(* The writer flags share one atomic word, state; the readers are counted  *)
(* in NumNodes separate counters, one of which each thread uses.  A node's *)
(* counter is modelled by the set of threads it currently counts: with the *)
(* routing of a thread fixed a thread has at most one increment            *)
(* outstanding, so the uint32 is the set's size, and a sum over the nodes  *)
(* is zero exactly when every node it read was empty.  sum_readers() reads *)
(* the nodes one at a time; so does the model.                             *)
(*                                                                         *)
(* Every atomic access is a step, and accesses are sequentially            *)
(* consistent: the increments of lock_shared() and the claims of the       *)
(* writer flag are seq_cst RMWs; the increment of try_lock_shared() asks   *)
(* only for acquire, and is covered where an RMW is a full barrier (x86).  *)
(* Diagnostic counters and latency histograms are left out.                *)
(***************************************************************************)
EXTENDS Naturals, FiniteSets

CONSTANTS
  Threads,
  NumNodes,     \* kNumReaderNodes
  NodeOf,       \* the reader node the thread's id hashes to
  OpsOf,        \* the operations each thread may call
  NativeWait,   \* native_wait_ops::available()
  MaxCalls      \* bound on the calls of each thread

Nodes == 1 .. NumNodes
Ops == {"lock", "try_lock", "set_fairness", "lock_shared", "try_lock_shared"}
Modes == {"reader_preferred", "writer_fair"}
Flags == {"W", "WW"}     \* kWriterFlag, kWriterWaitFlag

ASSUME NumNodesAssumption == NumNodes \in Nat \ {0}
ASSUME NodeOfAssumption == NodeOf \in [Threads -> Nodes]
ASSUME OpsOfAssumption == OpsOf \in [Threads -> SUBSET Ops]
ASSUME NativeWaitAssumption == NativeWait \in BOOLEAN
ASSUME MaxCallsAssumption == MaxCalls \in [Threads -> Nat]

VARIABLES
  state,       \* state_: the set of flags that are set
  fairness,    \* fairness_
  waitStart,   \* 1 when writer_wait_start_ns_ holds a time, 0 when it is 0
  readers,     \* reader_nodes_
  pc, op,      \* where each thread is, and in which call
  seen,        \* the thread's local copy of state_
  mask,        \* the flags that keep the thread, as a reader, out
  scan,        \* the next node of the thread's sum_readers()
  calls        \* calls the thread has begun

vars == <<state, fairness, waitStart, readers, pc, op, seen, mask, scan, calls>>

SumLabels == {"tl_sum1", "tl_sum2", "ls_drain", "ls_cvsum", "us_sum"}

ParkedLabels == {"ls_parked", "r_parked"}

Labels ==
  SumLabels \cup ParkedLabels \cup
  {"idle", "tl_cas", "tl_undo", "tl_check", "tl_wake", "ls_load", "ls_loop",
   "ls_start", "ls_wait", "ls_clear", "wcs", "ul_start", "ul_wake", "sh_mode",
   "sh_fair", "sh_pref", "sh_timer", "ts_load", "r_load", "r_wait", "r_cv", "r_inc",
   "r_check", "r_undo", "rcs", "us_flag", "us_wake"}

Init ==
  /\ state = {}
  /\ fairness \in Modes
  /\ waitStart = 0
  /\ readers = [n \in Nodes |-> {}]
  /\ pc = [t \in Threads |-> "idle"]
  /\ op = [t \in Threads |-> "none"]
  /\ seen = [t \in Threads |-> {}]
  /\ mask = [t \in Threads |-> {"W"}]
  /\ scan = [t \in Threads |-> 1]
  /\ calls = [t \in Threads |-> 0]

Goto(t, label) ==
  /\ pc' = [pc EXCEPT ![t] = label]
  /\ op' = [op EXCEPT ![t] = IF label = "idle" THEN "none" ELSE @]

-----------------------------------------------------------------------------
(* Waiting and waking *)

\* A woken thread returns from the futex; the condition-variable fallback
\* evaluates its predicate again instead.
WokenLabel(label) ==
  IF label = "ls_parked"
  THEN IF NativeWait THEN "ls_load" ELSE "ls_wait"
  ELSE IF NativeWait THEN "r_load" ELSE "r_cv"

\* pc after thread t went on to label and the threads in W were woken.
PcAfterWake(t, label, W) ==
  [u \in Threads |-> IF u = t THEN label
                     ELSE IF u \in W THEN WokenLabel(pc[u])
                     ELSE pc[u]]

Parked == {t \in Threads : pc[t] \in ParkedLabels}

\* cv_mutex_ is held while a waiting writer evaluates its predicate.
CvMutexFree == \A u \in Threads : pc[u] # "ls_cvsum"

\* do_wake_all / do_wake_one by t, which then returns or goes on to label.
WakeAndGoto(t, all, label) ==
  /\ NativeWait \/ CvMutexFree
  /\ \E W \in SUBSET Parked :
       /\ IF all THEN W = Parked
          ELSE IF Parked = {} THEN W = {}
          ELSE \E u \in Parked : W = {u}
       /\ pc' = PcAfterWake(t, label, W)
  /\ op' = [op EXCEPT ![t] = IF label = "idle" THEN "none" ELSE @]

\* The wait primitives may return without a wake.
SpuriousWake(t) ==
  /\ t \in Parked
  /\ Goto(t, WokenLabel(pc[t]))
  /\ UNCHANGED <<state, fairness, waitStart, readers, seen, mask, scan, calls>>

-----------------------------------------------------------------------------
(* sum_readers(), one node per step.  Once a node is found non-empty the   *)
(* total is known to be non-zero whatever the other nodes hold.            *)

AfterFailedTryLock(t) ==
  IF op[t] = "lock" THEN {"ls_load"}
  ELSE IF op[t] = "set_fairness" THEN {"tl_sum1", "idle"}  \* poll again, time out
  ELSE {"idle"}

\* Where the caller of sum_readers() goes when the sum is zero.
SumZeroLabel(label) ==
  IF label = "tl_sum1" THEN "tl_cas"
  ELSE IF label = "tl_sum2" THEN "wcs"
  ELSE IF label = "ls_drain" THEN "ls_clear"
  ELSE IF label = "ls_cvsum" THEN "ls_load"
  ELSE "us_wake"

\* ... and when it is not.
SumNonzeroLabels(t) ==
  IF pc[t] = "tl_sum1" THEN AfterFailedTryLock(t)
  ELSE IF pc[t] = "tl_sum2" THEN {"tl_undo"}
  ELSE IF pc[t] = "ls_drain" THEN {"ls_drain"}
  ELSE IF pc[t] = "ls_cvsum" THEN {"ls_parked"}
  ELSE {"idle"}

SumReaders(t) ==
  /\ pc[t] \in SumLabels
  /\ \/ /\ readers[scan[t]] # {}
        /\ scan' = [scan EXCEPT ![t] = 1]
        /\ \E label \in SumNonzeroLabels(t) : Goto(t, label)
     \/ /\ readers[scan[t]] = {}
        /\ scan[t] < NumNodes
        /\ scan' = [scan EXCEPT ![t] = @ + 1]
        /\ UNCHANGED <<pc, op>>
     \/ /\ readers[scan[t]] = {}
        /\ scan[t] = NumNodes
        /\ scan' = [scan EXCEPT ![t] = 1]
        /\ Goto(t, SumZeroLabel(pc[t]))
  /\ UNCHANGED <<state, fairness, waitStart, readers, seen, mask, calls>>

-----------------------------------------------------------------------------
(* Calls *)

FirstLabel(o) ==
  IF o = "lock_shared" THEN "sh_mode"
  ELSE IF o = "try_lock_shared" THEN "ts_load"
  ELSE "tl_sum1"

Call(t, o) ==
  /\ pc[t] = "idle"
  /\ o \in OpsOf[t]
  /\ calls[t] < MaxCalls[t]
  /\ pc' = [pc EXCEPT ![t] = FirstLabel(o)]
  /\ op' = [op EXCEPT ![t] = o]
  /\ calls' = [calls EXCEPT ![t] = @ + 1]
  /\ UNCHANGED <<state, fairness, waitStart, readers, seen, mask, scan>>

-----------------------------------------------------------------------------
(* try_lock().  The CAS is weak: it may fail although the word is zero.    *)

TryLockCas(t) ==
  /\ pc[t] = "tl_cas"
  /\ \/ /\ state = {}
        /\ state' = {"W"}
        /\ Goto(t, "tl_sum2")
     \/ /\ \E label \in AfterFailedTryLock(t) : Goto(t, label)
        /\ UNCHANGED state
  /\ UNCHANGED <<fairness, waitStart, readers, seen, mask, scan, calls>>

TryLockUndo(t) ==
  /\ pc[t] = "tl_undo"
  /\ state' = state \ {"W"}
  /\ Goto(t, "tl_check")
  /\ UNCHANGED <<fairness, waitStart, readers, seen, mask, scan, calls>>

\* After the undo only a queued writer makes try_lock() wake anyone.
TryLockCheckWaiters(t) ==
  /\ pc[t] = "tl_check"
  /\ IF "WW" \in state
     THEN Goto(t, "tl_wake")
     ELSE \E label \in AfterFailedTryLock(t) : Goto(t, label)
  /\ UNCHANGED <<state, fairness, waitStart, readers, seen, mask, scan, calls>>

TryLockWake(t) ==
  /\ pc[t] = "tl_wake"
  /\ \E label \in AfterFailedTryLock(t) : WakeAndGoto(t, TRUE, label)
  /\ UNCHANGED <<state, fairness, waitStart, readers, seen, mask, scan, calls>>

-----------------------------------------------------------------------------
(* lock_slow() *)

LockSlowLoad(t) ==
  /\ pc[t] = "ls_load"
  /\ seen' = [seen EXCEPT ![t] = state]
  /\ Goto(t, "ls_loop")
  /\ UNCHANGED <<state, fairness, waitStart, readers, mask, scan, calls>>

\* CAS state_ from seen to desired; a weak CAS may fail spuriously, and a
\* failed one reloads seen.
LockSlowCas(t, desired, label) ==
  \/ /\ state = seen[t]
     /\ state' = desired
     /\ seen' = [seen EXCEPT ![t] = desired]
     /\ Goto(t, label)
  \/ /\ seen' = [seen EXCEPT ![t] = state]
     /\ UNCHANGED <<state, pc, op>>

LockSlowQueue(t) ==
  /\ pc[t] = "ls_loop"
  /\ "WW" \notin seen[t]
  /\ LockSlowCas(t, seen[t] \cup {"WW"}, "ls_start")
  /\ UNCHANGED <<fairness, waitStart, readers, mask, scan, calls>>

LockSlowStamp(t) ==
  /\ pc[t] = "ls_start"
  /\ waitStart' = 1
  /\ Goto(t, "ls_loop")
  /\ UNCHANGED <<state, fairness, readers, seen, mask, scan, calls>>

\* Mutant: the readers that are still inside are not drained.
LockSlowClaimNoDrain(t) ==
  /\ pc[t] = "ls_loop"
  /\ "WW" \in seen[t]
  /\ "W" \notin seen[t]
  /\ LockSlowCas(t, {"W"}, "ls_clear")
  /\ UNCHANGED <<fairness, waitStart, readers, mask, scan, calls>>

LockSlowClaim(t) ==
  /\ pc[t] = "ls_loop"
  /\ "WW" \in seen[t]
  /\ "W" \notin seen[t]
  /\ LockSlowCas(t, {"W"}, "ls_drain")
  /\ UNCHANGED <<fairness, waitStart, readers, mask, scan, calls>>

LockSlowMustWait(t) ==
  /\ pc[t] = "ls_loop"
  /\ Flags \subseteq seen[t]
  /\ Goto(t, "ls_wait")
  /\ UNCHANGED <<state, fairness, waitStart, readers, seen, mask, scan, calls>>

\* do_wait_writer(seen).  The futex sleeps only while the word still has the
\* expected value; the fallback sleeps while writer_can_acquire() is false.
WaitWriter(t) ==
  /\ pc[t] = "ls_wait"
  /\ IF NativeWait
     THEN Goto(t, IF state = seen[t] THEN "ls_parked" ELSE "ls_load")
     ELSE /\ CvMutexFree
          /\ Goto(t, IF "W" \in state THEN "ls_parked" ELSE "ls_cvsum")
  /\ UNCHANGED <<state, fairness, waitStart, readers, seen, mask, scan, calls>>

LockSlowClear(t) ==
  /\ pc[t] = "ls_clear"
  /\ waitStart' = 0
  /\ seen' = [seen EXCEPT ![t] = {}]
  /\ Goto(t, "wcs")
  /\ UNCHANGED <<state, fairness, readers, mask, scan, calls>>

\* set_fairness_mode_locked(), and the body of set_fairness_mode_quiescent().
SetFairnessModeLocked(t) ==
  /\ pc[t] = "wcs"
  /\ op[t] = "set_fairness"
  /\ fairness' \in Modes
  /\ op' = [op EXCEPT ![t] = "try_lock"]
  /\ UNCHANGED <<state, waitStart, readers, pc, seen, mask, scan, calls>>

-----------------------------------------------------------------------------
(* unlock() *)

Unlock(t) ==
  /\ pc[t] = "wcs"
  /\ op[t] # "set_fairness"
  /\ seen' = [seen EXCEPT ![t] = state]
  /\ state' = state \ {"W"}
  /\ Goto(t, "ul_start")
  /\ UNCHANGED <<fairness, waitStart, readers, mask, scan, calls>>

UnlockClearStart(t) ==
  /\ pc[t] = "ul_start"
  /\ waitStart' = 0
  /\ Goto(t, "ul_wake")
  /\ UNCHANGED <<state, fairness, readers, seen, mask, scan, calls>>

\* Mutant: only queued writers are woken.
UnlockWakeWritersOnly(t) ==
  /\ pc[t] = "ul_wake"
  /\ IF "WW" \in seen[t] THEN WakeAndGoto(t, TRUE, "idle") ELSE Goto(t, "idle")
  /\ seen' = [seen EXCEPT ![t] = {}]
  /\ UNCHANGED <<state, fairness, waitStart, readers, mask, scan, calls>>

UnlockWake(t) ==
  /\ pc[t] = "ul_wake"
  /\ WakeAndGoto(t, "WW" \in seen[t], "idle")
  /\ seen' = [seen EXCEPT ![t] = {}]
  /\ UNCHANGED <<state, fairness, waitStart, readers, mask, scan, calls>>

-----------------------------------------------------------------------------
(* lock_shared(), try_lock_shared() and their slow paths *)

LockSharedMode(t) ==
  /\ pc[t] = "sh_mode"
  /\ Goto(t, IF fairness = "writer_fair" THEN "sh_fair" ELSE "sh_pref")
  /\ UNCHANGED <<state, fairness, waitStart, readers, seen, mask, scan, calls>>

\* Enter lock_shared_writer_fair_slow(): a queued writer goes first.
YieldToWriters(t) ==
  /\ mask' = [mask EXCEPT ![t] = Flags]
  /\ Goto(t, "r_load")

LockSharedFair(t) ==
  /\ pc[t] = "sh_fair"
  /\ IF state # {}
     THEN YieldToWriters(t)
     ELSE Goto(t, "r_inc") /\ UNCHANGED mask
  /\ UNCHANGED <<state, fairness, waitStart, readers, seen, scan, calls>>

LockSharedPreferred(t) ==
  /\ pc[t] = "sh_pref"
  /\ Goto(t, IF "WW" \in state THEN "sh_timer" ELSE "r_inc")
  /\ UNCHANGED <<state, fairness, waitStart, readers, seen, mask, scan, calls>>

\* The starvation detector: the wait may or may not exceed the timeout.
LockSharedTimer(t) ==
  /\ pc[t] = "sh_timer"
  /\ \/ waitStart = 1 /\ YieldToWriters(t)
     \/ Goto(t, "r_inc") /\ UNCHANGED mask
  /\ UNCHANGED <<state, fairness, waitStart, readers, seen, scan, calls>>

TryLockSharedLoad(t) ==
  /\ pc[t] = "ts_load"
  /\ Goto(t, IF "W" \in state THEN "idle" ELSE "r_inc")
  /\ UNCHANGED <<state, fairness, waitStart, readers, seen, mask, scan, calls>>

ReaderIncrement(t) ==
  /\ pc[t] = "r_inc"
  /\ readers' = [readers EXCEPT ![NodeOf[t]] = @ \cup {t}]
  /\ Goto(t, "r_check")
  /\ UNCHANGED <<state, fairness, waitStart, seen, mask, scan, calls>>

\* The re-check of state_ that every read path makes after its increment.
ReaderRecheck(t) ==
  /\ pc[t] = "r_check"
  /\ IF mask[t] \cap state = {}
     THEN /\ mask' = [mask EXCEPT ![t] = {"W"}]
          /\ Goto(t, "rcs")
     ELSE /\ Goto(t, "r_undo")
          /\ UNCHANGED mask
  /\ UNCHANGED <<state, fairness, waitStart, readers, seen, scan, calls>>

ReaderUndo(t) ==
  /\ pc[t] = "r_undo"
  /\ readers' = [readers EXCEPT ![NodeOf[t]] = @ \ {t}]
  /\ Goto(t, IF op[t] = "try_lock_shared" THEN "idle" ELSE "r_load")
  /\ UNCHANGED <<state, fairness, waitStart, seen, mask, scan, calls>>

\* Head of the loop of lock_shared_slow() and lock_shared_writer_fair_slow().
ReaderSlowLoad(t) ==
  /\ pc[t] = "r_load"
  /\ IF mask[t] \cap state = {}
     THEN Goto(t, "r_inc") /\ UNCHANGED seen
     ELSE Goto(t, "r_wait") /\ seen' = [seen EXCEPT ![t] = state]
  /\ UNCHANGED <<state, fairness, waitStart, readers, mask, scan, calls>>

\* do_wait_reader(seen).  The fallback waits for the flags of the fairness
\* mode to clear, whichever slow path the reader is on; it reads the mode once.
WaitReader(t) ==
  /\ pc[t] = "r_wait"
  /\ IF NativeWait
     THEN /\ Goto(t, IF state = seen[t] THEN "r_parked" ELSE "r_load")
          /\ UNCHANGED seen
     ELSE /\ seen' = [seen EXCEPT ![t] =
                        IF fairness = "writer_fair" THEN Flags ELSE {"W"}]
          /\ Goto(t, "r_cv")
  /\ UNCHANGED <<state, fairness, waitStart, readers, mask, scan, calls>>

CvWaitReader(t) ==
  /\ pc[t] = "r_cv"
  /\ CvMutexFree
  /\ Goto(t, IF seen[t] \cap state = {} THEN "r_load" ELSE "r_parked")
  /\ UNCHANGED <<state, fairness, waitStart, readers, seen, mask, scan, calls>>

-----------------------------------------------------------------------------
(* unlock_shared() *)

UnlockShared(t) ==
  /\ pc[t] = "rcs"
  /\ readers' = [readers EXCEPT ![NodeOf[t]] = @ \ {t}]
  /\ Goto(t, IF readers'[NodeOf[t]] # {} THEN "idle" ELSE "us_flag")
  /\ UNCHANGED <<state, fairness, waitStart, seen, mask, scan, calls>>

UnlockSharedFlag(t) ==
  /\ pc[t] = "us_flag"
  /\ seen' = [seen EXCEPT ![t] = state]
  /\ Goto(t, "us_sum")
  /\ UNCHANGED <<state, fairness, waitStart, readers, mask, scan, calls>>

UnlockSharedWake(t) ==
  /\ pc[t] = "us_wake"
  /\ WakeAndGoto(t, "WW" \in seen[t], "idle")
  /\ UNCHANGED <<state, fairness, waitStart, readers, seen, mask, scan, calls>>

-----------------------------------------------------------------------------
ExclusiveStep(t) ==
  \/ TryLockCas(t) \/ TryLockUndo(t) \/ TryLockCheckWaiters(t) \/ TryLockWake(t)
  \/ LockSlowLoad(t) \/ LockSlowQueue(t) \/ LockSlowStamp(t)
  \/ LockSlowClaim(t) \/ LockSlowMustWait(t) \/ WaitWriter(t)
  \/ LockSlowClear(t) \/ SetFairnessModeLocked(t)
  \/ Unlock(t) \/ UnlockClearStart(t) \/ UnlockWake(t)

SharedStep(t) ==
  \/ LockSharedMode(t) \/ LockSharedFair(t) \/ LockSharedPreferred(t)
  \/ LockSharedTimer(t) \/ TryLockSharedLoad(t)
  \/ ReaderIncrement(t) \/ ReaderRecheck(t) \/ ReaderUndo(t)
  \/ ReaderSlowLoad(t) \/ WaitReader(t) \/ CvWaitReader(t)
  \/ UnlockShared(t) \/ UnlockSharedFlag(t) \/ UnlockSharedWake(t)

Step(t) == ExclusiveStep(t) \/ SharedStep(t) \/ SumReaders(t)

Next ==
  \E t \in Threads :
    Step(t) \/ SpuriousWake(t) \/ \E o \in OpsOf[t] : Call(t, o)

Spec == Init /\ [][Next]_vars

\* A thread that is inside a call and not asleep keeps running; nothing makes
\* it call again, and nothing wakes a sleeping thread but another thread.
FairSpec == Spec /\ \A t \in Threads : WF_vars(Step(t))

-----------------------------------------------------------------------------
TypeOK ==
  /\ state \in SUBSET Flags
  /\ fairness \in Modes
  /\ waitStart \in {0, 1}
  /\ readers \in [Nodes -> SUBSET Threads]
  /\ pc \in [Threads -> Labels]
  /\ op \in [Threads -> Ops \cup {"none"}]
  /\ seen \in [Threads -> SUBSET Flags]
  /\ mask \in [Threads -> SUBSET Flags]
  /\ scan \in [Threads -> Nodes]
  /\ calls \in [Threads -> Nat]

HoldsExclusive(t) == pc[t] \in {"ls_clear", "wcs"}
HoldsShared(t) == pc[t] = "rcs"

\* lock()/try_lock() never return while another thread is inside: the claim of
\* the writer flag and the later scan of the counters catch every reader that
\* got in, however the scan interleaves with increments and back-outs.
MutualExclusion ==
  \A t, u \in Threads :
    HoldsExclusive(t) /\ t # u => ~HoldsExclusive(u) /\ ~HoldsShared(u)

-----------------------------------------------------------------------------
(* The inductive invariant behind MutualExclusion *)

\* Where a thread owns the writer flag, and where it is counted as a reader.
OwnerLabels == {"tl_sum2", "tl_undo", "ls_drain", "ls_clear", "wcs"}
CountedLabels == {"r_check", "r_undo", "rcs"}

\* The writer flag has one owner, from the CAS that sets it to the
\* fetch_and that clears it.
FlagHasOwner ==
  /\ \A t \in Threads : pc[t] \in OwnerLabels => "W" \in state
  /\ \A t, u \in Threads : pc[t] \in OwnerLabels /\ pc[u] \in OwnerLabels => t = u

\* A reader is counted from its increment to its decrement, and never enters
\* past the writer flag.
ReadersCounted ==
  \A t \in Threads :
    /\ pc[t] \in CountedLabels => t \in readers[NodeOf[t]]
    /\ "W" \in mask[t]

\* A scan that starts with the writer flag set has only readers in front of it.
ScanSeesReaders ==
  \A t, u \in Threads :
    pc[t] \in {"tl_sum2", "ls_drain"} /\ HoldsShared(u) => NodeOf[u] >= scan[t]

ScansStartAtOne == \A t \in Threads : pc[t] \notin SumLabels => scan[t] = 1

\* Why the mutual exclusion of lock() holds in every state of every
\* interleaving: the writer that finished its scan behind the writer flag
\* knows that no counted reader is inside.
ExclusionInvariant ==
  /\ FlagHasOwner
  /\ ReadersCounted
  /\ ScanSeesReaders
  /\ ScansStartAtOne
  /\ \A t, u \in Threads : HoldsExclusive(t) => ~HoldsShared(u)

-----------------------------------------------------------------------------
\* Seen from its callers the mutex is a readers-writer lock.
Abstract ==
  INSTANCE RWLock WITH
    writers <- {t \in Threads : HoldsExclusive(t)},
    sharers <- {t \in Threads : HoldsShared(t)}

ImplementsRWLock == Abstract!Spec

\* Nobody sleeps on an abandoned mutex: while a thread is parked, some other
\* thread is inside a call or a critical section and so can still wake it.
ParkedHasWaker ==
  Parked # {} => \E t \in Threads : pc[t] \notin ParkedLabels \cup {"idle"}

\* Every call returns once the critical sections before it end (the calls of a
\* behaviour are bounded by MaxCalls, so contention ends).
EveryCallReturns ==
  \A t \in Threads : pc[t] # "idle" ~> pc[t] = "idle"
=============================================================================
