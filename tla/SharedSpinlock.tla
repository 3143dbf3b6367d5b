---------------------------- MODULE SharedSpinlock ----------------------------
(***************************************************************************)
(* lru::detail::shared_spinlock (detail/concurrent_hash_table.hpp), the    *)
(* reader-writer lock of a hash table's buckets.                           *)
(*                                                                         *)
(* Writer flags and reader count share one 32-bit word, so every update is *)
(* one atomic step.  The count is modelled by the set of threads it        *)
(* counts, those included that will back out of their increment; where the *)
(* code compares whole words the model compares the flags and the size of  *)
(* the set.  The spin loops are not steps: a load is the last one of the   *)
(* loop, and a weak CAS that fails spuriously loads again, as if it had    *)
(* loaded later.  Contention counters are left out.                        *)
(***************************************************************************)
EXTENDS Naturals, FiniteSets

CONSTANTS
  Threads,
  Lockers, TryLockers, SharedLockers, TrySharedLockers, ModeSetters,
               \* the threads that may call each operation
  NativeWait,  \* native_wait_ops::available()
  MaxCalls     \* bound: the calls of each thread

Flags == {"W", "WW"}     \* kWriterFlag, kWriterWaitFlag
Modes == {"reader_preferred", "writer_fair"}
Ops == {"lock", "try_lock", "lock_shared", "try_lock_shared", "set_fairness_mode"}

ASSUME ThreadsAssumption == IsFiniteSet(Threads)
ASSUME NativeWaitAssumption == NativeWait \in BOOLEAN
ASSUME MaxCallsAssumption == MaxCalls \in Nat

VARIABLES
  flags, readers,  \* state_
  fairness,        \* fairness_
  waitStart,       \* 1 when writer_wait_start_ns_ holds a time, 0 when it is 0
  pc, op,          \* where each thread is, and in which call
  seen, count,     \* the thread's copy of the word: flags and reader count
  mask,            \* the flags that keep the thread, as a reader, out
  calls,           \* calls the thread has begun
  slips            \* history: what has kept a queued writer from being woken

word == <<flags, readers>>
copy == <<seen, count>>
vars == <<word, fairness, waitStart, pc, op, copy, mask, calls, slips>>

ParkedLabels == {"ls_parked", "rs_parked"}

Labels ==
  ParkedLabels \cup
  {"idle", "l_cas", "ls_load", "ls_claim", "ls_queue", "ls_stamp", "ls_wait", "wcs",
   "ul_stamp", "ul_wake", "sh_mode", "sh_fair", "sh_inc", "sh_timer", "sh_undo",
   "rs_load", "rs_cas", "rs_wait", "rcs", "us_wake", "mode"}

Init ==
  /\ flags = {} /\ readers = {}
  /\ fairness \in Modes
  /\ waitStart = 0
  /\ pc = [t \in Threads |-> "idle"]
  /\ op = [t \in Threads |-> "none"]
  /\ seen = [t \in Threads |-> {}]
  /\ count = [t \in Threads |-> 0]
  /\ mask = [t \in Threads |-> {"W"}]
  /\ calls = [t \in Threads |-> 0]
  /\ slips = {}

Goto(t, label) == pc' = [pc EXCEPT ![t] = label]

\* The call returns: its local variables are gone.
Return(t) ==
  /\ Goto(t, "idle")
  /\ op' = [op EXCEPT ![t] = "none"]
  /\ seen' = [seen EXCEPT ![t] = {}]
  /\ count' = [count EXCEPT ![t] = 0]
  /\ mask' = [mask EXCEPT ![t] = {"W"}]

Load(t) ==
  /\ seen' = [seen EXCEPT ![t] = flags]
  /\ count' = [count EXCEPT ![t] = Cardinality(readers)]

\* The word has the value the thread loaded.
SameWord(t) == flags = seen[t] /\ Cardinality(readers) = count[t]

FirstLabel(o) ==
  IF o \in {"lock", "try_lock"} THEN "l_cas"
  ELSE IF o = "lock_shared" THEN "sh_mode"
  ELSE IF o = "try_lock_shared" THEN "sh_inc" ELSE "mode"

Callers(o) ==
  CASE o = "lock" -> Lockers
    [] o = "try_lock" -> TryLockers
    [] o = "lock_shared" -> SharedLockers
    [] o = "try_lock_shared" -> TrySharedLockers
    [] o = "set_fairness_mode" -> ModeSetters

Call(t, o) ==
  /\ pc[t] = "idle"
  /\ t \in Callers(o)
  /\ calls[t] < MaxCalls
  /\ Goto(t, FirstLabel(o))
  /\ op' = [op EXCEPT ![t] = o]
  /\ calls' = [calls EXCEPT ![t] = @ + 1]
  /\ UNCHANGED <<word, fairness, waitStart, copy, mask, slips>>

\* The store may come at any time, with calls of other threads under way.
set_fairness_mode(t) ==
  /\ pc[t] = "mode"
  /\ fairness' \in Modes
  /\ Return(t)
  /\ UNCHANGED <<word, waitStart, calls, slips>>

-----------------------------------------------------------------------------
(* Waiting and waking *)

Parked == {t \in Threads : pc[t] \in ParkedLabels}

\* A futex waiter returns and loads again; the condition-variable fallback
\* evaluates its predicate again.
WokenLabel(label) ==
  IF label = "ls_parked"
  THEN IF NativeWait THEN "ls_load" ELSE "ls_wait"
  ELSE IF NativeWait THEN "rs_load" ELSE "rs_wait"

\* pc after thread t went on to idle and the threads in W were woken.
PcAfterWake(t, W) ==
  [u \in Threads |-> IF u = t THEN "idle"
                     ELSE IF u \in W THEN WokenLabel(pc[u])
                     ELSE pc[u]]

\* do_wait(): sleep if the word still has the expected value.
do_wait(t) ==
  \/ /\ pc[t] = "ls_wait"
     /\ Goto(t, IF SameWord(t) THEN "ls_parked" ELSE "ls_load")
     /\ UNCHANGED <<word, fairness, waitStart, op, copy, mask, calls, slips>>
  \/ /\ pc[t] = "rs_wait"
     /\ Goto(t, IF SameWord(t) THEN "rs_parked" ELSE "rs_load")
     /\ UNCHANGED <<word, fairness, waitStart, op, copy, mask, calls, slips>>

\* The wait primitives may return without a wake.
SpuriousWake(t) ==
  /\ t \in Parked
  /\ Goto(t, WokenLabel(pc[t]))
  /\ UNCHANGED <<word, fairness, waitStart, op, copy, mask, calls, slips>>

-----------------------------------------------------------------------------
(* lock(), try_lock() and unlock() *)

LockCas(t) ==
  /\ pc[t] = "l_cas"
  /\ IF flags = {} /\ readers = {}
     THEN /\ flags' = {"W"}
          /\ Goto(t, "wcs")
          /\ UNCHANGED <<op, copy, mask>>
     ELSE /\ IF op[t] = "lock"
             THEN Goto(t, "ls_load") /\ UNCHANGED <<op, copy, mask>>
             ELSE Return(t)
          /\ UNCHANGED flags
  /\ UNCHANGED <<readers, fairness, waitStart, calls, slips>>

\* The head of the loop in lock_slow().
LockSlowLoad(t) ==
  /\ pc[t] = "ls_load"
  /\ Load(t)
  /\ Goto(t, IF readers = {} /\ "W" \notin flags THEN "ls_claim"
             ELSE IF "WW" \notin flags THEN "ls_queue" ELSE "ls_wait")
  /\ UNCHANGED <<word, fairness, waitStart, op, mask, calls, slips>>

\* Mutant: the claim is a plain fetch_or instead of a CAS.
LockSlowClaimBlind(t) ==
  /\ pc[t] = "ls_claim"
  /\ flags' = {"W"}
  /\ Goto(t, "wcs")
  /\ UNCHANGED <<readers, fairness, waitStart, op, copy, mask, calls, slips>>

\* The claiming CAS expects a word without readers; it clears kWriterWaitFlag,
\* also where other writers are queued.
LockSlowClaim(t) ==
  /\ pc[t] = "ls_claim"
  /\ IF readers = {} /\ flags = seen[t]
     THEN flags' = {"W"} /\ Goto(t, "wcs")
     ELSE Goto(t, "ls_load") /\ UNCHANGED flags
  /\ UNCHANGED <<readers, fairness, waitStart, op, copy, mask, calls, slips>>

LockSlowQueue(t) ==
  /\ pc[t] = "ls_queue"
  /\ IF SameWord(t)
     THEN /\ flags' = flags \cup {"WW"}
          /\ seen' = [seen EXCEPT ![t] = flags']
          /\ Goto(t, "ls_stamp")
     ELSE Goto(t, "ls_load") /\ UNCHANGED <<flags, seen>>
  /\ UNCHANGED <<readers, fairness, waitStart, op, count, mask, calls, slips>>

\* A writer that has spun enough waits at once, on the word it has just written.
LockSlowStamp(t) ==
  /\ pc[t] = "ls_stamp"
  /\ waitStart' = 1
  /\ \E label \in {"ls_load", "ls_wait"} : Goto(t, label)
  /\ UNCHANGED <<word, fairness, op, copy, mask, calls, slips>>

unlock(t) ==
  /\ pc[t] = "wcs"
  /\ flags' = flags \ Flags
  /\ Goto(t, "ul_stamp")
  /\ UNCHANGED <<readers, fairness, waitStart, op, copy, mask, calls, slips>>

UnlockStamp(t) ==
  /\ pc[t] = "ul_stamp"
  /\ waitStart' = 0
  /\ Goto(t, "ul_wake")
  /\ UNCHANGED <<word, fairness, op, copy, mask, calls, slips>>

\* do_wake_all()
UnlockWake(t) ==
  /\ pc[t] = "ul_wake"
  /\ pc' = PcAfterWake(t, Parked)
  /\ op' = [op EXCEPT ![t] = "none"]
  /\ seen' = [seen EXCEPT ![t] = {}]
  /\ count' = [count EXCEPT ![t] = 0]
  /\ UNCHANGED <<word, fairness, waitStart, mask, calls, slips>>

-----------------------------------------------------------------------------
(* lock_shared(), try_lock_shared() and unlock_shared() *)

LockSharedMode(t) ==
  /\ pc[t] = "sh_mode"
  /\ Goto(t, IF fairness = "writer_fair" THEN "sh_fair" ELSE "sh_inc")
  /\ UNCHANGED <<word, fairness, waitStart, op, copy, mask, calls, slips>>

\* A reader in writer_fair mode yields to a queued writer.
LockSharedFair(t) ==
  /\ pc[t] = "sh_fair"
  /\ IF flags # {}
     THEN mask' = [mask EXCEPT ![t] = Flags] /\ Goto(t, "rs_load")
     ELSE Goto(t, "sh_inc") /\ UNCHANGED mask
  /\ UNCHANGED <<word, fairness, waitStart, op, copy, calls, slips>>

\* The fetch_add of both read paths.  The increment stands even where the old
\* word says that the reader must not enter.
ReaderIncrement(t) ==
  /\ pc[t] = "sh_inc"
  /\ readers' = readers \cup {t}
  /\ Goto(t, IF "W" \in flags THEN "sh_undo"
             ELSE IF "WW" \in flags THEN "sh_timer" ELSE "rcs")
  /\ UNCHANGED <<flags, fairness, waitStart, op, copy, mask, calls, slips>>

\* writer_starved(): the queued writer may or may not have waited too long.  A
\* reader of lock_shared() that backs out yields to it.
WriterStarved(t) ==
  /\ pc[t] = "sh_timer"
  /\ \/ /\ waitStart = 1
        /\ mask' = [mask EXCEPT ![t] = Flags]
        /\ Goto(t, "sh_undo")
     \/ Goto(t, "rcs") /\ UNCHANGED mask
  /\ UNCHANGED <<word, fairness, waitStart, op, copy, calls, slips>>

\* The increment is taken back; nobody is woken.
ReaderUndo(t) ==
  /\ pc[t] = "sh_undo"
  /\ readers' = readers \ {t}
  /\ IF op[t] = "try_lock_shared"
     THEN Return(t)
     ELSE Goto(t, "rs_load") /\ UNCHANGED <<op, copy, mask>>
  /\ slips' = IF readers' = {} /\ "WW" \in flags
              THEN slips \cup {"backed_out"} ELSE slips
  /\ UNCHANGED <<flags, fairness, waitStart, calls>>

\* The loop of lock_shared_slow() and of lock_shared_writer_fair_slow().
ReaderSlowLoad(t) ==
  /\ pc[t] = "rs_load"
  /\ Load(t)
  /\ Goto(t, IF mask[t] \cap flags # {} THEN "rs_wait" ELSE "rs_cas")
  /\ UNCHANGED <<word, fairness, waitStart, op, mask, calls, slips>>

ReaderSlowCas(t) ==
  /\ pc[t] = "rs_cas"
  /\ IF SameWord(t)
     THEN readers' = readers \cup {t} /\ Goto(t, "rcs")
     ELSE Goto(t, "rs_load") /\ UNCHANGED readers
  /\ UNCHANGED <<flags, fairness, waitStart, op, copy, mask, calls, slips>>

unlock_shared(t) ==
  /\ pc[t] = "rcs"
  /\ readers' = readers \ {t}
  /\ IF readers = {t} /\ "WW" \in flags
     THEN Goto(t, "us_wake") /\ UNCHANGED <<op, copy, mask>>
     ELSE Return(t)
  /\ UNCHANGED <<flags, fairness, waitStart, calls, slips>>

\* Mutant: the last reader wakes nobody.
UnlockSharedNoWake(t) ==
  /\ pc[t] = "us_wake"
  /\ Return(t)
  /\ UNCHANGED <<word, fairness, waitStart, calls, slips>>

\* do_wake_one(): whoever it is that wakes up.
UnlockSharedWake(t) ==
  /\ pc[t] = "us_wake"
  /\ \E W \in SUBSET Parked :
       /\ IF Parked = {} THEN W = {} ELSE \E u \in Parked : W = {u}
       /\ pc' = PcAfterWake(t, W)
       /\ slips' = IF \E u \in W : pc[u] = "rs_parked"
                   THEN slips \cup {"woke_reader"} ELSE slips
  /\ op' = [op EXCEPT ![t] = "none"]
  /\ seen' = [seen EXCEPT ![t] = {}]
  /\ count' = [count EXCEPT ![t] = 0]
  /\ mask' = [mask EXCEPT ![t] = {"W"}]
  /\ UNCHANGED <<word, fairness, waitStart, calls>>

-----------------------------------------------------------------------------
ExclusiveStep(t) ==
  \/ LockCas(t) \/ LockSlowLoad(t) \/ LockSlowClaim(t) \/ LockSlowQueue(t)
  \/ LockSlowStamp(t) \/ unlock(t) \/ UnlockStamp(t) \/ UnlockWake(t)

SharedStep(t) ==
  \/ LockSharedMode(t) \/ LockSharedFair(t) \/ ReaderIncrement(t)
  \/ WriterStarved(t) \/ ReaderUndo(t) \/ ReaderSlowLoad(t) \/ ReaderSlowCas(t)
  \/ unlock_shared(t) \/ UnlockSharedWake(t)

Step(t) == ExclusiveStep(t) \/ SharedStep(t) \/ do_wait(t) \/ set_fairness_mode(t)

Next ==
  \E t \in Threads :
    Step(t) \/ SpuriousWake(t) \/ \E o \in Ops : Call(t, o)

Spec == Init /\ [][Next]_vars

-----------------------------------------------------------------------------
TypeOK ==
  /\ flags \subseteq Flags /\ readers \subseteq Threads
  /\ fairness \in Modes /\ waitStart \in {0, 1}
  /\ pc \in [Threads -> Labels]
  /\ op \in [Threads -> Ops \cup {"none"}]
  /\ seen \in [Threads -> SUBSET Flags]
  /\ count \in [Threads -> Nat]
  /\ mask \in [Threads -> SUBSET Flags]
  /\ calls \in [Threads -> Nat]
  /\ slips \subseteq {"backed_out", "woke_reader"}

HoldsExclusive(t) == pc[t] = "wcs"
HoldsShared(t) == pc[t] = "rcs"
Backing(t) == pc[t] \in {"sh_timer", "sh_undo"}

\* kWriterFlag has exactly one owner.
FlagHasOwner ==
  /\ "W" \in flags <=> \E t \in Threads : HoldsExclusive(t)
  /\ \A t, u \in Threads : HoldsExclusive(t) /\ HoldsExclusive(u) => t = u

\* The count stands for the readers inside and the ones about to back out.
ReadersCounted ==
  \A t \in Threads : t \in readers <=> HoldsShared(t) \/ Backing(t)

\* A reader that is inside, or may still get inside, shuts every writer out.
ReadersShutOut ==
  \A t \in Threads : HoldsShared(t) \/ pc[t] = "sh_timer" => "W" \notin flags

\* What a thread knows of the word it expects in its next CAS.
ExpectedWords ==
  \A t \in Threads :
    /\ "W" \in mask[t]
    /\ pc[t] = "rs_cas" => seen[t] \cap mask[t] = {}
    /\ pc[t] = "ls_claim" => "W" \notin seen[t]

\* Why the lock excludes in every interleaving, the transient increments of
\* readers that back out included.
SpinInvariant ==
  /\ TypeOK
  /\ FlagHasOwner
  /\ ReadersCounted
  /\ ReadersShutOut
  /\ ExpectedWords

\* Seen from its callers the spinlock is a readers-writer lock.
Abstract ==
  INSTANCE RWLock WITH
    writers <- {t \in Threads : HoldsExclusive(t)},
    sharers <- {t \in Threads : HoldsShared(t)}

ImplementsRWLock == Abstract!Spec

Stranded == Parked # {} /\ \A t \in Threads : pc[t] \in ParkedLabels \cup {"idle"}

\* The unconditional wake-up of unlock() and the one of the last reader reach
\* every sleeper: threads are left asleep on a free lock only after the last
\* reader left by backing out of its increment, or after its wake-up went to a
\* reader.
StrandedOnlyBySlip == Stranded => slips # {}
=============================================================================
