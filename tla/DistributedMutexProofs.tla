----------------------- MODULE DistributedMutexProofs -----------------------
(***************************************************************************)
(* Proofs about distributed_shared_mutex for any number of threads and     *)
(* reader nodes, and for both wait primitives.                             *)
(***************************************************************************)
EXTENDS DistributedMutex, TLAPS

(* The provers that a step is given when it names none, one after another. *)
USE SMTT(10), ZenonT(20), SMTT(20), SMTT(40)

\* The two outcomes of the CAS in lock_slow() keep the types.
LEMMA CasKeepsTypes ==
  ASSUME TypeOK, NEW t \in Threads, NEW desired \in SUBSET Flags,
         NEW label \in Labels \ {"idle"}, LockSlowCas(t, desired, label),
         UNCHANGED <<fairness, waitStart, readers, mask, scan, calls>>
  PROVE  TypeOK'
<1>1. CASE /\ state' = desired
           /\ seen' = [seen EXCEPT ![t] = desired]
           /\ Goto(t, label)
  BY <1>1 DEF TypeOK, Goto
<1>2. CASE seen' = [seen EXCEPT ![t] = state] /\ UNCHANGED <<state, pc, op>>
  BY <1>2 DEF TypeOK
<1> QED
  BY <1>1, <1>2, Zenon DEF LockSlowCas

\* Every step of a thread keeps the variables in their types.
LEMMA StepKeepsTypes ==
  ASSUME TypeOK, NEW t \in Threads, Step(t)
  PROVE  TypeOK'
<1> USE DEF TypeOK, Goto, Labels, SumLabels, ParkedLabels, Flags, Modes, Ops
<1>1. CASE TryLockCas(t)
  <2>1. CASE state' = {"W"} /\ Goto(t, "tl_sum2")
    BY <1>1, <2>1 DEF TryLockCas
  <2>2. CASE (\E label \in AfterFailedTryLock(t) : Goto(t, label)) /\ UNCHANGED state
    BY <1>1, <2>2 DEF TryLockCas, AfterFailedTryLock
  <2> QED
    BY <1>1, <2>1, <2>2, Zenon DEF TryLockCas
<1>2. CASE TryLockUndo(t)
  BY <1>2 DEF TryLockUndo
<1>3. CASE TryLockCheckWaiters(t)
  BY <1>3 DEF TryLockCheckWaiters, AfterFailedTryLock
<1>4. CASE TryLockWake(t)
  BY <1>4 DEF TryLockWake, AfterFailedTryLock, WakeAndGoto, PcAfterWake, WokenLabel, Parked
<1>5. CASE LockSlowLoad(t)
  BY <1>5 DEF LockSlowLoad
<1>6. CASE LockSlowQueue(t)
  <2>1. seen[t] \cup {"WW"} \in SUBSET Flags
    OBVIOUS
  <2> QED
    BY <1>6, <2>1, CasKeepsTypes, Zenon DEF LockSlowQueue
<1>7. CASE LockSlowStamp(t)
  BY <1>7 DEF LockSlowStamp
<1>8. CASE LockSlowClaim(t)
  BY <1>8, CasKeepsTypes, Zenon DEF LockSlowClaim
<1>9. CASE LockSlowMustWait(t)
  BY <1>9 DEF LockSlowMustWait
<1>10. CASE WaitWriter(t)
  BY <1>10 DEF WaitWriter
<1>11. CASE LockSlowClear(t)
  BY <1>11 DEF LockSlowClear
<1>12. CASE SetFairnessModeLocked(t)
  BY <1>12 DEF SetFairnessModeLocked
<1>13. CASE Unlock(t)
  BY <1>13 DEF Unlock
<1>14. CASE UnlockClearStart(t)
  BY <1>14 DEF UnlockClearStart
<1>15. CASE UnlockWake(t)
  BY <1>15 DEF UnlockWake, WakeAndGoto, PcAfterWake, WokenLabel, Parked
<1>16. CASE LockSharedMode(t)
  BY <1>16 DEF LockSharedMode
<1>17. CASE LockSharedFair(t)
  BY <1>17 DEF LockSharedFair, YieldToWriters
<1>18. CASE LockSharedPreferred(t)
  BY <1>18 DEF LockSharedPreferred
<1>19. CASE LockSharedTimer(t)
  BY <1>19 DEF LockSharedTimer, YieldToWriters
<1>20. CASE TryLockSharedLoad(t)
  BY <1>20 DEF TryLockSharedLoad
<1>21. CASE ReaderIncrement(t)
  BY <1>21, NodeOfAssumption, Zenon DEF ReaderIncrement
<1>22. CASE ReaderRecheck(t)
  BY <1>22 DEF ReaderRecheck
<1>23. CASE ReaderUndo(t)
  BY <1>23, NodeOfAssumption, Zenon DEF ReaderUndo
<1>24. CASE ReaderSlowLoad(t)
  <2>1. CASE mask[t] \cap state = {}
    BY <1>24, <2>1 DEF ReaderSlowLoad
  <2>2. CASE Goto(t, "r_wait") /\ seen' = [seen EXCEPT ![t] = state]
    BY <1>24, <2>2 DEF ReaderSlowLoad
  <2> QED
    BY <1>24, <2>1, <2>2, Zenon DEF ReaderSlowLoad
<1>25. CASE WaitReader(t)
  <2>1. CASE NativeWait
    BY <1>25, <2>1 DEF WaitReader
  <2>2. CASE ~NativeWait
    BY <1>25, <2>2 DEF WaitReader
  <2> QED
    BY <2>1, <2>2
<1>26. CASE CvWaitReader(t)
  BY <1>26 DEF CvWaitReader
<1>27. CASE UnlockShared(t)
  BY <1>27, NodeOfAssumption, Zenon DEF UnlockShared
<1>28. CASE UnlockSharedFlag(t)
  BY <1>28 DEF UnlockSharedFlag
<1>29. CASE UnlockSharedWake(t)
  BY <1>29 DEF UnlockSharedWake, WakeAndGoto, PcAfterWake, WokenLabel, Parked
<1>30. CASE SumReaders(t)
  <2> SUFFICES pc' \in [Threads -> Labels] /\ op' \in [Threads -> Ops \cup {"none"}]
               /\ scan' \in [Threads -> Nodes]
    BY <1>30 DEF SumReaders
  <2>1. CASE scan' = [scan EXCEPT ![t] = 1] /\ \E label \in SumNonzeroLabels(t) : Goto(t, label)
    BY <2>1, NumNodesAssumption DEF SumNonzeroLabels, AfterFailedTryLock, Nodes
  <2>2. CASE scan[t] < NumNodes /\ scan' = [scan EXCEPT ![t] = @ + 1] /\ UNCHANGED <<pc, op>>
    BY <2>2, NumNodesAssumption DEF Nodes
  <2>3. CASE scan' = [scan EXCEPT ![t] = 1] /\ Goto(t, SumZeroLabel(pc[t]))
    BY <2>3, NumNodesAssumption DEF SumZeroLabel, Nodes
  <2> QED
    BY <1>30, <2>1, <2>2, <2>3, Zenon DEF SumReaders
<1> QED
  BY <1>1, <1>2, <1>3, <1>4, <1>5, <1>6, <1>7, <1>8, <1>9, <1>10, <1>11, <1>12,
     <1>13, <1>14, <1>15, <1>16, <1>17, <1>18, <1>19, <1>20, <1>21, <1>22, <1>23,
     <1>24, <1>25, <1>26, <1>27, <1>28, <1>29, <1>30, Zenon
  DEF Step, ExclusiveStep, SharedStep

LEMMA NextKeepsTypes ==
  ASSUME TypeOK, [Next]_vars
  PROVE  TypeOK'
<1>1. ASSUME NEW t \in Threads, Step(t) PROVE TypeOK'
  BY <1>1, StepKeepsTypes
<1>2. ASSUME NEW t \in Threads, SpuriousWake(t) PROVE TypeOK'
  BY <1>2 DEF SpuriousWake, WokenLabel, Goto, TypeOK, Labels, SumLabels, ParkedLabels
<1>3. ASSUME NEW t \in Threads, NEW o \in OpsOf[t], Call(t, o) PROVE TypeOK'
  <2>1. o \in Ops
    BY OpsOfAssumption
  <2> QED
    BY <1>3, <2>1 DEF Call, FirstLabel, TypeOK, Labels, SumLabels, Ops
<1>4. CASE UNCHANGED vars
  BY <1>4 DEF vars, TypeOK
<1> QED
  BY <1>1, <1>2, <1>3, <1>4, Zenon DEF Next

\* The variables of distributed_shared_mutex stay in their types: in particular
\* sum_readers() never reads beyond the last reader node.
THEOREM TypeCorrect == Spec => []TypeOK
<1>1. Init => TypeOK
  BY NumNodesAssumption
  DEF Init, TypeOK, Nodes, Modes, Flags, Ops, Labels, SumLabels, ParkedLabels
<1>2. TypeOK /\ [Next]_vars => TypeOK'
  BY NextKeepsTypes
<1> QED
  BY <1>1, <1>2, PTL DEF Spec

-----------------------------------------------------------------------------
(* Mutual exclusion *)

\* A step that neither sets nor clears the writer flag, counts no reader and
\* moves threads only between labels the invariant does not speak of.
Calm ==
  /\ "W" \in state => "W" \in state'
  /\ readers' = readers
  /\ scan' = scan
  /\ \A u \in Threads : "W" \in mask'[u]
  /\ \A u \in Threads :
       \/ pc'[u] = pc[u]
       \/ pc[u] \notin SumLabels /\ pc'[u] \notin OwnerLabels \cup CountedLabels

LEMMA CalmKeepsExclusion ==
  ASSUME TypeOK, ExclusionInvariant, Calm
  PROVE  ExclusionInvariant'
<1> USE DEF ExclusionInvariant, Calm, OwnerLabels, CountedLabels, HoldsShared, HoldsExclusive
<1>1. FlagHasOwner'
  BY DEF FlagHasOwner
<1>2. ReadersCounted'
  BY DEF ReadersCounted
<1>3. ScanSeesReaders'
  BY DEF ScanSeesReaders
<1>4. ScansStartAtOne'
  BY DEF ScansStartAtOne
<1>5. \A t, u \in Threads : HoldsExclusive(t)' => ~HoldsShared(u)'
  OBVIOUS
<1> QED
  BY <1>1, <1>2, <1>3, <1>4, <1>5

LEMMA CalmSteps ==
  ASSUME TypeOK, ExclusionInvariant, NEW t \in Threads,
         \/ TryLockCheckWaiters(t)
         \/ TryLockWake(t)
         \/ LockSlowLoad(t)
         \/ LockSlowQueue(t)
         \/ LockSlowStamp(t)
         \/ LockSlowMustWait(t)
         \/ WaitWriter(t)
         \/ SetFairnessModeLocked(t)
         \/ UnlockClearStart(t)
         \/ UnlockWake(t)
         \/ LockSharedMode(t)
         \/ LockSharedFair(t)
         \/ LockSharedPreferred(t)
         \/ LockSharedTimer(t)
         \/ TryLockSharedLoad(t)
         \/ ReaderSlowLoad(t)
         \/ WaitReader(t)
         \/ CvWaitReader(t)
         \/ UnlockSharedFlag(t)
         \/ UnlockSharedWake(t)
  PROVE  Calm
<1> USE DEF TypeOK, ExclusionInvariant, ReadersCounted, Calm, Goto, Labels, SumLabels,
            ParkedLabels, OwnerLabels, CountedLabels, Flags
<1>1. CASE TryLockCheckWaiters(t)
  BY <1>1 DEF TryLockCheckWaiters, AfterFailedTryLock
<1>2. CASE TryLockWake(t)
  BY <1>2 DEF TryLockWake, AfterFailedTryLock, WakeAndGoto, PcAfterWake, WokenLabel, Parked
<1>3. CASE LockSlowLoad(t)
  BY <1>3 DEF LockSlowLoad
<1>4. CASE LockSlowQueue(t)
  BY <1>4 DEF LockSlowQueue, LockSlowCas
<1>5. CASE LockSlowStamp(t)
  BY <1>5 DEF LockSlowStamp
<1>6. CASE LockSlowMustWait(t)
  BY <1>6 DEF LockSlowMustWait
<1>7. CASE WaitWriter(t)
  BY <1>7 DEF WaitWriter
<1>8. CASE SetFairnessModeLocked(t)
  BY <1>8 DEF SetFairnessModeLocked
<1>9. CASE UnlockClearStart(t)
  BY <1>9 DEF UnlockClearStart
<1>10. CASE UnlockWake(t)
  BY <1>10 DEF UnlockWake, WakeAndGoto, PcAfterWake, WokenLabel, Parked
<1>11. CASE LockSharedMode(t)
  BY <1>11 DEF LockSharedMode
<1>12. CASE LockSharedFair(t)
  BY <1>12 DEF LockSharedFair, YieldToWriters
<1>13. CASE LockSharedPreferred(t)
  BY <1>13 DEF LockSharedPreferred
<1>14. CASE LockSharedTimer(t)
  BY <1>14 DEF LockSharedTimer, YieldToWriters
<1>15. CASE TryLockSharedLoad(t)
  BY <1>15 DEF TryLockSharedLoad
<1>16. CASE ReaderSlowLoad(t)
  BY <1>16 DEF ReaderSlowLoad
<1>17. CASE WaitReader(t)
  BY <1>17 DEF WaitReader
<1>18. CASE CvWaitReader(t)
  BY <1>18 DEF CvWaitReader
<1>19. CASE UnlockSharedFlag(t)
  BY <1>19 DEF UnlockSharedFlag
<1>20. CASE UnlockSharedWake(t)
  BY <1>20 DEF UnlockSharedWake, WakeAndGoto, PcAfterWake, WokenLabel, Parked
<1> QED
  BY <1>1, <1>2, <1>3, <1>4, <1>5, <1>6, <1>7, <1>8, <1>9, <1>10, <1>11, <1>12, <1>13, <1>14, <1>15, <1>16, <1>17, <1>18, <1>19, <1>20, Zenon

LEMMA NodesArePositive == \A u \in Threads : NodeOf[u] >= 1
<1> SUFFICES ASSUME NEW u \in Threads PROVE NodeOf[u] >= 1
  OBVIOUS
<1>1. NodeOf[u] \in 1 .. NumNodes
  BY NodeOfAssumption DEF Nodes
<1> QED
  BY <1>1, NumNodesAssumption

\* A step of t alone: what it must establish about its own label, and leave
\* alone of the others', for the invariant to survive.
SafeMove(t) ==
  /\ \A u \in Threads \ {t} : /\ pc'[u] = pc[u] /\ scan'[u] = scan[u]
                              /\ mask'[u] = mask[u]
                              /\ u \in readers[NodeOf[u]] => u \in readers'[NodeOf[u]]
                              /\ pc[u] \in OwnerLabels => "W" \in state'
  /\ "W" \in mask'[t]
  /\ pc'[t] \in CountedLabels => t \in readers'[NodeOf[t]]
  /\ pc'[t] \in OwnerLabels =>
       /\ "W" \in state'
       /\ \A u \in Threads \ {t} : pc[u] \notin OwnerLabels
  /\ pc'[t] \notin SumLabels => scan'[t] = 1
  /\ HoldsShared(t)' => \A u \in Threads \ {t} : pc[u] \notin OwnerLabels
  /\ \A u \in Threads \ {t} :
       HoldsShared(u) => /\ ~HoldsExclusive(t)'
                         /\ pc'[t] \in {"tl_sum2", "ls_drain"} => NodeOf[u] >= scan'[t]

LEMMA MoveKeepsExclusion ==
  ASSUME ExclusionInvariant, NEW t \in Threads, SafeMove(t)
  PROVE  ExclusionInvariant'
<1> USE DEF SafeMove, ExclusionInvariant, HoldsShared, HoldsExclusive, OwnerLabels, CountedLabels
<1>1. FlagHasOwner'
  BY DEF FlagHasOwner
<1>2. ReadersCounted'
  BY DEF ReadersCounted
<1>3. ScanSeesReaders'
  <2> SUFFICES ASSUME NEW v \in Threads, NEW u \in Threads,
                      pc'[v] \in {"tl_sum2", "ls_drain"}, pc'[u] = "rcs"
               PROVE  NodeOf[u] >= scan'[v]
    BY DEF ScanSeesReaders
  <2>1. CASE v = t
    BY <2>1
  <2>2. CASE v # t /\ u = t
    BY <2>2
  <2>3. CASE v # t /\ u # t
    BY <2>3 DEF ScanSeesReaders
  <2> QED
    BY <2>1, <2>2, <2>3
<1>4. ScansStartAtOne'
  BY DEF ScansStartAtOne
<1>5. ASSUME NEW v \in Threads, NEW u \in Threads, HoldsExclusive(v)', HoldsShared(u)'
      PROVE  FALSE
  <2>1. CASE v = t
    BY <1>5, <2>1
  <2>2. CASE v # t /\ u = t
    BY <1>5, <2>2
  <2>3. CASE v # t /\ u # t
    BY <1>5, <2>3
  <2> QED
    BY <2>1, <2>2, <2>3
<1> QED
  BY <1>1, <1>2, <1>3, <1>4, <1>5

\* A CAS that sets the writer flag while it is clear, and goes on to the scan.
LEMMA ClaimKeepsExclusion ==
  ASSUME TypeOK, ExclusionInvariant, NEW t \in Threads,
         NEW label \in {"tl_sum2", "ls_drain"},
         pc[t] \in {"tl_cas", "ls_loop"}, "W" \notin state, "W" \in state',
         Goto(t, label), UNCHANGED <<readers, mask, scan>>
  PROVE  ExclusionInvariant'
<1>1. \A u \in Threads : pc[u] \notin OwnerLabels
  BY DEF ExclusionInvariant, FlagHasOwner
<1>2. pc'[t] = label /\ \A u \in Threads \ {t} : pc'[u] = pc[u]
  BY DEF Goto, TypeOK
<1>3. scan'[t] = 1 /\ "W" \in mask'[t]
  BY DEF ExclusionInvariant, ScansStartAtOne, ReadersCounted, SumLabels
<1>4. pc'[t] \notin CountedLabels /\ ~HoldsExclusive(t)' /\ ~HoldsShared(t)'
      /\ pc'[t] \in SumLabels
  BY <1>2 DEF CountedLabels, HoldsExclusive, HoldsShared, SumLabels
<1>5. \A u \in Threads : NodeOf[u] >= scan'[t]
  BY <1>3, NodesArePositive
<1>6. SafeMove(t)
  BY <1>1, <1>2, <1>3, <1>4, <1>5 DEF SafeMove
<1> QED
  BY <1>6, MoveKeepsExclusion

\* One node of sum_readers().
LEMMA ScanKeepsExclusion ==
  ASSUME TypeOK, TypeOK', ExclusionInvariant, NEW t \in Threads, SumReaders(t)
  PROVE  ExclusionInvariant'
<1>1. pc[t] \in SumLabels /\ UNCHANGED <<state, readers, mask>>
  BY DEF SumReaders
<1>0. /\ "W" \in mask'[t] /\ \A u \in Threads : pc[u] \in OwnerLabels => "W" \in state'
      /\ pc[t] \in OwnerLabels => \A u \in Threads \ {t} : pc[u] \notin OwnerLabels
  BY <1>1 DEF ExclusionInvariant, ReadersCounted, FlagHasOwner
<1>2. pc \in [Threads -> Labels] /\ scan \in [Threads -> Nodes]
  BY DEF TypeOK
<1>3. \A u \in Threads : HoldsShared(u) => u \in readers[NodeOf[u]] /\ NodeOf[u] >= 1
                                          /\ ~HoldsExclusive(t)
  BY NodesArePositive DEF ExclusionInvariant, ReadersCounted, HoldsShared, CountedLabels
<1>4. \A u \in Threads :
        HoldsShared(u) /\ pc[t] \in {"tl_sum2", "ls_drain"} => NodeOf[u] >= scan[t]
  BY DEF ExclusionInvariant, ScanSeesReaders
<1>5. CASE /\ scan' = [scan EXCEPT ![t] = 1]
           /\ \E label \in SumNonzeroLabels(t) : Goto(t, label)
  <2>1. PICK label \in SumNonzeroLabels(t) : pc' = [pc EXCEPT ![t] = label]
    BY <1>5, Zenon DEF Goto
  <2>2. /\ label \in {"tl_sum1", "idle", "ls_load", "tl_undo", "ls_drain", "ls_parked"}
        /\ label = "tl_undo" => pc[t] = "tl_sum2"
        /\ label = "ls_drain" => pc[t] = "ls_drain"
    BY <1>1, <2>1 DEF SumNonzeroLabels, AfterFailedTryLock
  <2>3. pc'[t] = label /\ scan'[t] = 1
    BY <1>2, <1>5, <2>1
  <2>4. \A u \in Threads \ {t} : pc'[u] = pc[u] /\ scan'[u] = scan[u]
    BY <1>2, <1>5, <2>1
  <2>5. pc'[t] \in OwnerLabels => pc[t] \in OwnerLabels
    BY <2>2, <2>3 DEF OwnerLabels
  <2>6. pc'[t] \notin CountedLabels /\ ~HoldsExclusive(t)' /\ ~HoldsShared(t)'
    BY <2>2, <2>3 DEF CountedLabels, HoldsExclusive, HoldsShared
  <2>7. SafeMove(t)
    BY <1>1, <1>3, <2>3, <2>4, <2>5, <2>6, <1>0, Zenon DEF SafeMove
  <2> QED
    BY <2>7, MoveKeepsExclusion
<1>6. CASE /\ readers[scan[t]] = {} /\ scan[t] < NumNodes
           /\ scan' = [scan EXCEPT ![t] = @ + 1] /\ UNCHANGED <<pc, op>>
  <2>1. \A u \in Threads \ {t} : pc'[u] = pc[u] /\ scan'[u] = scan[u]
    BY <1>2, <1>6
  <2>2. pc'[t] = pc[t] /\ scan'[t] = scan[t] + 1
    BY <1>2, <1>6
  <2>3. pc'[t] \notin CountedLabels /\ ~HoldsExclusive(t)' /\ ~HoldsShared(t)'
    BY <1>1, <2>2 DEF SumLabels, CountedLabels, HoldsExclusive, HoldsShared
  <2>4. ASSUME NEW u \in Threads, HoldsShared(u), pc[t] \in {"tl_sum2", "ls_drain"}
        PROVE  NodeOf[u] >= scan'[t]
    <3>1. NodeOf[u] >= scan[t] /\ NodeOf[u] # scan[t]
      BY <1>3, <1>4, <1>6, <2>4
    <3>2. NodeOf[u] \in Nat /\ scan[t] \in Nat
      BY <1>2, NodeOfAssumption DEF Nodes
    <3> QED
      BY <2>2, <3>1, <3>2
  <2>5. SafeMove(t)
    BY <1>1, <2>1, <2>2, <2>3, <2>4, <1>0 DEF SafeMove
  <2> QED
    BY <2>5, MoveKeepsExclusion
<1>7. CASE /\ readers[scan[t]] = {} /\ scan[t] = NumNodes
           /\ scan' = [scan EXCEPT ![t] = 1] /\ Goto(t, SumZeroLabel(pc[t]))
  <2>1. pc'[t] = SumZeroLabel(pc[t]) /\ scan'[t] = 1
    BY <1>2, <1>7 DEF Goto
  <2>2. \A u \in Threads \ {t} : pc'[u] = pc[u] /\ scan'[u] = scan[u]
    BY <1>2, <1>7 DEF Goto
  <2>3. /\ pc'[t] \in {"tl_cas", "wcs", "ls_clear", "ls_load", "us_wake"}
        /\ pc'[t] \in {"wcs", "ls_clear"} => pc[t] \in {"tl_sum2", "ls_drain"}
    BY <1>1, <2>1 DEF SumZeroLabel, SumLabels
  <2>4. pc'[t] \notin CountedLabels /\ (pc'[t] \in OwnerLabels => pc[t] \in OwnerLabels)
    BY <2>3 DEF CountedLabels, OwnerLabels
  <2>5. ASSUME NEW u \in Threads, HoldsShared(u) PROVE pc[t] \notin {"tl_sum2", "ls_drain"}
    <3>1. u \in readers[NodeOf[u]] /\ NodeOf[u] \in 1 .. NumNodes
      BY <1>3, <2>5, NodeOfAssumption DEF Nodes
    <3>2. NodeOf[u] # NumNodes
      BY <1>7, <3>1
    <3> QED
      BY <1>4, <1>7, <2>5, <3>1, <3>2, NumNodesAssumption
  <2>6. \A u \in Threads : HoldsShared(u) => ~HoldsExclusive(t)'
    BY <2>3, <2>5 DEF HoldsExclusive
  <2>7. pc'[t] \notin {"tl_sum2", "ls_drain"} /\ ~HoldsShared(t)'
    BY <2>3 DEF HoldsShared
  <2>8. SafeMove(t)
    BY <1>1, <2>1, <2>2, <2>4, <2>6, <2>7, <1>0 DEF SafeMove
  <2> QED
    BY <2>8, MoveKeepsExclusion
<1> QED
  BY <1>5, <1>6, <1>7, Zenon DEF SumReaders

\* The owner gives the writer flag up.
LEMMA OwnerStepsOff ==
  ASSUME ExclusionInvariant, NEW t \in Threads,
         pc[t] \in {"tl_undo", "wcs"}, pc'[t] \in {"tl_check", "ul_start"},
         \A u \in Threads \ {t} : pc'[u] = pc[u],
         UNCHANGED <<readers, mask, scan>>
  PROVE  ExclusionInvariant'
<1>1. \A u \in Threads \ {t} : pc[u] \notin OwnerLabels
  BY DEF ExclusionInvariant, FlagHasOwner, OwnerLabels
<1>2. scan'[t] = 1 /\ "W" \in mask'[t]
  BY DEF ExclusionInvariant, ScansStartAtOne, ReadersCounted, SumLabels
<1>3. pc'[t] \notin CountedLabels /\ pc'[t] \notin OwnerLabels /\ ~HoldsExclusive(t)'
      /\ ~HoldsShared(t)' /\ pc'[t] \notin {"tl_sum2", "ls_drain"}
  BY DEF CountedLabels, OwnerLabels, HoldsExclusive, HoldsShared
<1>4. SafeMove(t)
  BY <1>1, <1>2, <1>3 DEF SafeMove
<1> QED
  BY <1>4, MoveKeepsExclusion

\* A reader is counted, or stops being counted, without entering.
ReaderMove(t) ==
  /\ pc[t] \in {"r_inc", "r_check", "r_undo", "rcs"}
  /\ pc'[t] \in {"r_check", "r_undo", "idle", "r_load", "us_flag"}
  /\ pc'[t] \in {"r_check", "r_undo"} => t \in readers'[NodeOf[t]]
  /\ \A u \in Threads \ {t} : /\ pc'[u] = pc[u]
                              /\ u \in readers[NodeOf[u]] => u \in readers'[NodeOf[u]]
  /\ UNCHANGED <<state, mask, scan>>

LEMMA ReaderMoveKeepsExclusion ==
  ASSUME ExclusionInvariant, NEW t \in Threads, ReaderMove(t)
  PROVE  ExclusionInvariant'
<1> USE DEF ReaderMove
<1>1. \A u \in Threads : pc[u] \in OwnerLabels => "W" \in state
  BY DEF ExclusionInvariant, FlagHasOwner
<1>2. scan'[t] = 1 /\ "W" \in mask'[t]
  BY DEF ExclusionInvariant, ScansStartAtOne, ReadersCounted, SumLabels
<1>3. pc'[t] \notin OwnerLabels /\ ~HoldsExclusive(t)' /\ ~HoldsShared(t)'
      /\ pc'[t] \notin {"tl_sum2", "ls_drain"}
      /\ (pc'[t] \in CountedLabels => t \in readers'[NodeOf[t]])
  BY DEF CountedLabels, OwnerLabels, HoldsExclusive, HoldsShared
<1>4. SafeMove(t)
  BY <1>1, <1>2, <1>3 DEF SafeMove
<1> QED
  BY <1>4, MoveKeepsExclusion

\* The steps that change the writer flag or a reader's count, or end a scan.
LEMMA OwnerStepsKeepExclusion ==
  ASSUME TypeOK, TypeOK', ExclusionInvariant, NEW t \in Threads,
         \/ TryLockCas(t)
         \/ TryLockUndo(t)
         \/ LockSlowClaim(t)
         \/ LockSlowClear(t)
         \/ Unlock(t)
         \/ ReaderIncrement(t)
         \/ ReaderRecheck(t)
         \/ ReaderUndo(t)
         \/ UnlockShared(t)
         \/ SumReaders(t)
  PROVE  ExclusionInvariant'
<1>0. /\ pc \in [Threads -> Labels] /\ readers \in [Nodes -> SUBSET Threads]
      /\ mask \in [Threads -> SUBSET Flags]
  BY DEF TypeOK
<1>1. CASE TryLockCas(t)
  <2>1. CASE state = {} /\ state' = {"W"} /\ Goto(t, "tl_sum2")
    <3>1. "W" \notin state /\ "W" \in state'
      BY <2>1
    <3>2. pc[t] = "tl_cas" /\ UNCHANGED <<readers, mask, scan>>
      BY <1>1 DEF TryLockCas
    <3> QED
      BY <2>1, <3>1, <3>2, ClaimKeepsExclusion
  <2>2. CASE (\E label \in AfterFailedTryLock(t) : Goto(t, label)) /\ UNCHANGED state
    <3>1. Calm
      <4>1. pc[t] = "tl_cas" /\ UNCHANGED <<state, readers, mask, scan>>
        BY <1>1, <2>2 DEF TryLockCas
      <4>2. PICK label \in AfterFailedTryLock(t) : pc' = [pc EXCEPT ![t] = label]
        BY <2>2, Zenon DEF Goto
      <4>3. label \in {"ls_load", "tl_sum1", "idle"}
        BY <4>2 DEF AfterFailedTryLock
      <4> QED
        BY <1>0, <4>1, <4>2, <4>3 DEF Calm, ExclusionInvariant, ReadersCounted,
           ScansStartAtOne, SumLabels, OwnerLabels, CountedLabels
    <3> QED
      BY <3>1, CalmKeepsExclusion
  <2> QED
    BY <1>1, <2>1, <2>2, Zenon DEF TryLockCas
<1>2. CASE TryLockUndo(t)
  <2>1. /\ pc[t] = "tl_undo" /\ pc'[t] = "tl_check" /\ UNCHANGED <<readers, mask, scan>>
        /\ \A u \in Threads \ {t} : pc'[u] = pc[u]
    BY <1>0, <1>2 DEF TryLockUndo, Goto
  <2> QED
    BY <2>1, OwnerStepsOff
<1>3. CASE LockSlowClaim(t)
  <2>1. pc[t] = "ls_loop" /\ "W" \notin seen[t] /\ UNCHANGED <<readers, mask, scan>>
    BY <1>3 DEF LockSlowClaim
  <2>2. CASE state = seen[t] /\ state' = {"W"} /\ Goto(t, "ls_drain")
    <3>1. "W" \notin state /\ "W" \in state'
      BY <2>1, <2>2
    <3> QED
      BY <2>1, <2>2, <3>1, ClaimKeepsExclusion
  <2>3. CASE UNCHANGED <<state, pc, op>>
    <3>1. Calm
      BY <2>1, <2>3 DEF Calm, ExclusionInvariant, ReadersCounted
    <3> QED
      BY <3>1, CalmKeepsExclusion
  <2> QED
    BY <1>3, <2>2, <2>3, Zenon DEF LockSlowClaim, LockSlowCas
<1>4. CASE LockSlowClear(t)
  <2>1. /\ pc[t] = "ls_clear" /\ pc'[t] = "wcs" /\ UNCHANGED <<state, readers, mask, scan>>
        /\ \A u \in Threads \ {t} : pc'[u] = pc[u]
    BY <1>0, <1>4 DEF LockSlowClear, Goto
  <2>2. "W" \in state /\ \A u \in Threads \ {t} : pc[u] \notin OwnerLabels
    BY <2>1 DEF ExclusionInvariant, FlagHasOwner, OwnerLabels
  <2>3. scan'[t] = 1 /\ "W" \in mask'[t] /\ \A u \in Threads : ~HoldsShared(u)
    BY <2>1 DEF ExclusionInvariant, ScansStartAtOne, ReadersCounted, SumLabels, HoldsExclusive
  <2>4. pc'[t] \notin CountedLabels /\ ~HoldsShared(t)'
        /\ pc'[t] \notin {"tl_sum2", "ls_drain"}
    BY <2>1 DEF CountedLabels, HoldsShared
  <2>5. SafeMove(t)
    BY <2>1, <2>2, <2>3, <2>4 DEF SafeMove
  <2> QED
    BY <2>5, MoveKeepsExclusion
<1>5. CASE Unlock(t)
  <2>1. /\ pc[t] = "wcs" /\ pc'[t] = "ul_start" /\ UNCHANGED <<readers, mask, scan>>
        /\ \A u \in Threads \ {t} : pc'[u] = pc[u]
    BY <1>0, <1>5 DEF Unlock, Goto
  <2> QED
    BY <2>1, OwnerStepsOff
<1>6. CASE ReaderIncrement(t)
  <2>1. /\ pc[t] = "r_inc" /\ pc'[t] = "r_check" /\ UNCHANGED <<state, mask, scan>>
        /\ readers' = [readers EXCEPT ![NodeOf[t]] = @ \cup {t}]
        /\ \A u \in Threads \ {t} : pc'[u] = pc[u]
    BY <1>0, <1>6 DEF ReaderIncrement, Goto
  <2>2. t \in readers'[NodeOf[t]]
        /\ \A u \in Threads : u \in readers[NodeOf[u]] => u \in readers'[NodeOf[u]]
    BY <1>0, <2>1, NodeOfAssumption
  <2>3. ReaderMove(t)
    BY <2>1, <2>2 DEF ReaderMove
  <2> QED
    BY <2>3, ReaderMoveKeepsExclusion
<1>7. CASE ReaderRecheck(t)
  <2>1. /\ pc[t] = "r_check" /\ UNCHANGED <<state, readers, scan>>
        /\ \A u \in Threads \ {t} : pc'[u] = pc[u]
    BY <1>0, <1>7 DEF ReaderRecheck, Goto
  <2>2. t \in readers[NodeOf[t]] /\ "W" \in mask[t]
    BY <2>1 DEF ExclusionInvariant, ReadersCounted, CountedLabels
  <2>3. CASE mask[t] \cap state = {} /\ mask' = [mask EXCEPT ![t] = {"W"}] /\ Goto(t, "rcs")
    <3>1. pc'[t] = "rcs"
      BY <1>0, <2>3 DEF Goto
    <3>2. \A u \in Threads : pc[u] \notin OwnerLabels
      <4>1. "W" \notin state
        BY <2>2, <2>3
      <4> QED
        BY <4>1 DEF ExclusionInvariant, FlagHasOwner
    <3>3. "W" \in mask'[t] /\ \A u \in Threads \ {t} : mask'[u] = mask[u]
      BY <1>0, <2>3
    <3>4. scan'[t] = 1
      BY <2>1 DEF ExclusionInvariant, ScansStartAtOne, SumLabels
    <3>5. pc'[t] \notin OwnerLabels /\ ~HoldsExclusive(t)' /\ pc'[t] \notin {"tl_sum2", "ls_drain"}
      BY <3>1 DEF OwnerLabels, HoldsExclusive
    <3>6. SafeMove(t)
      BY <2>1, <2>2, <3>2, <3>3, <3>4, <3>5, Zenon DEF SafeMove
    <3> QED
      BY <3>6, MoveKeepsExclusion
  <2>4. CASE Goto(t, "r_undo") /\ UNCHANGED mask
    <3>1. pc'[t] = "r_undo"
      BY <1>0, <2>4 DEF Goto
    <3>2. ReaderMove(t)
      BY <2>1, <2>2, <2>4, <3>1 DEF ReaderMove
    <3> QED
      BY <3>2, ReaderMoveKeepsExclusion
  <2> QED
    BY <1>7, <2>3, <2>4, Zenon DEF ReaderRecheck
<1>8. CASE ReaderUndo(t)
  <2>1. /\ pc[t] = "r_undo" /\ pc'[t] \in {"idle", "r_load"} /\ UNCHANGED <<state, mask, scan>>
        /\ readers' = [readers EXCEPT ![NodeOf[t]] = @ \ {t}]
        /\ \A u \in Threads \ {t} : pc'[u] = pc[u]
    BY <1>0, <1>8 DEF ReaderUndo, Goto
  <2>2. \A u \in Threads \ {t} : u \in readers[NodeOf[u]] => u \in readers'[NodeOf[u]]
    BY <1>0, <2>1, NodeOfAssumption
  <2>3. ReaderMove(t)
    BY <2>1, <2>2, Zenon DEF ReaderMove
  <2> QED
    BY <2>3, ReaderMoveKeepsExclusion
<1>9. CASE UnlockShared(t)
  <2>1. /\ pc[t] = "rcs" /\ pc'[t] \in {"idle", "us_flag"} /\ UNCHANGED <<state, mask, scan>>
        /\ readers' = [readers EXCEPT ![NodeOf[t]] = @ \ {t}]
        /\ \A u \in Threads \ {t} : pc'[u] = pc[u]
    BY <1>0, <1>9 DEF UnlockShared, Goto
  <2>2. \A u \in Threads \ {t} : u \in readers[NodeOf[u]] => u \in readers'[NodeOf[u]]
    BY <1>0, <2>1, NodeOfAssumption
  <2>3. ReaderMove(t)
    BY <2>1, <2>2 DEF ReaderMove
  <2> QED
    BY <2>3, ReaderMoveKeepsExclusion
<1>10. CASE SumReaders(t)
  BY <1>10, ScanKeepsExclusion
<1> QED
  BY <1>1, <1>2, <1>3, <1>4, <1>5, <1>6, <1>7, <1>8, <1>9, <1>10, Zenon

LEMMA NextKeepsExclusion ==
  ASSUME TypeOK, TypeOK', ExclusionInvariant, [Next]_vars
  PROVE  ExclusionInvariant'
<1>1. ASSUME NEW t \in Threads, Step(t) PROVE ExclusionInvariant'
  BY <1>1, CalmSteps, CalmKeepsExclusion, OwnerStepsKeepExclusion, Zenon
  DEF Step, ExclusiveStep, SharedStep
<1>2. ASSUME NEW t \in Threads, SpuriousWake(t) PROVE ExclusionInvariant'
  <2>1. Calm
    BY <1>2 DEF SpuriousWake, WokenLabel, Parked, Goto, TypeOK, ExclusionInvariant,
       ReadersCounted, Calm, SumLabels, ParkedLabels, OwnerLabels, CountedLabels
  <2> QED
    BY <2>1, CalmKeepsExclusion
<1>3. ASSUME NEW t \in Threads, NEW o \in OpsOf[t], Call(t, o) PROVE ExclusionInvariant'
  <2>1. Calm
    BY <1>3 DEF Call, FirstLabel, TypeOK, ExclusionInvariant, ReadersCounted, Calm,
       SumLabels, OwnerLabels, CountedLabels
  <2> QED
    BY <2>1, CalmKeepsExclusion
<1>4. CASE UNCHANGED vars
  <2>1. Calm
    BY <1>4, Zenon DEF vars, Calm, ExclusionInvariant, ReadersCounted
  <2> QED
    BY <2>1, CalmKeepsExclusion
<1> QED
  BY <1>1, <1>2, <1>3, <1>4, Zenon DEF Next

\* The invariant behind mutual exclusion, for every number of threads and nodes.
THEOREM ExclusionIsInvariant == Spec => []ExclusionInvariant
<1>1. Init => ExclusionInvariant
  BY DEF Init, ExclusionInvariant, FlagHasOwner, ReadersCounted, ScanSeesReaders,
     ScansStartAtOne, SumLabels, OwnerLabels, CountedLabels, HoldsShared, HoldsExclusive
<1>2. TypeOK /\ TypeOK' /\ ExclusionInvariant /\ [Next]_vars => ExclusionInvariant'
  BY NextKeepsExclusion
<1> QED
  BY <1>1, <1>2, TypeCorrect, PTL DEF Spec

\* lock() and try_lock() admit a writer only when nobody else is inside, and no
\* read path admits a reader while a writer is inside.
THEOREM MutexIsExclusive == Spec => []MutualExclusion
<1>1. ExclusionInvariant => MutualExclusion
  BY DEF ExclusionInvariant, FlagHasOwner, MutualExclusion, HoldsExclusive, OwnerLabels
<1> QED
  BY <1>1, ExclusionIsInvariant, PTL

-----------------------------------------------------------------------------
(* Refinement of the abstract readers-writer lock *)

HolderLabels == {"ls_clear", "wcs", "rcs"}

\* Of the holders a step of t changes at most t, and never turns a shared hold
\* into an exclusive one or back.
MovesOnly(t) ==
  /\ \A u \in Threads \ {t} :
       pc'[u] = pc[u] \/ {pc[u], pc'[u]} \cap HolderLabels = {}
  /\ \/ pc[t] \notin HolderLabels
     \/ pc'[t] \notin HolderLabels
     \/ pc[t] # "rcs" /\ pc'[t] # "rcs"

LEMMA StepMovesOnly ==
  ASSUME TypeOK, NEW t \in Threads, Step(t)
  PROVE  MovesOnly(t)
<1> USE DEF TypeOK, Goto, HolderLabels, MovesOnly
<1>1. CASE TryLockCas(t) \/ TryLockUndo(t) \/ TryLockCheckWaiters(t)
  BY <1>1 DEF TryLockCas, TryLockUndo, TryLockCheckWaiters, AfterFailedTryLock
<1>2. CASE TryLockWake(t) \/ UnlockWake(t) \/ UnlockSharedWake(t)
  BY <1>2 DEF TryLockWake, UnlockWake, UnlockSharedWake, AfterFailedTryLock, WakeAndGoto, PcAfterWake, WokenLabel, Parked, ParkedLabels
<1>3. CASE LockSlowLoad(t) \/ LockSlowQueue(t) \/ LockSlowClaim(t)
  BY <1>3 DEF LockSlowLoad, LockSlowQueue, LockSlowClaim, LockSlowCas
<1>4. CASE LockSlowStamp(t) \/ LockSlowMustWait(t) \/ WaitWriter(t)
  BY <1>4 DEF LockSlowStamp, LockSlowMustWait, WaitWriter
<1>5. CASE LockSlowClear(t) \/ SetFairnessModeLocked(t) \/ Unlock(t) \/ UnlockClearStart(t)
  BY <1>5 DEF LockSlowClear, SetFairnessModeLocked, Unlock, UnlockClearStart
<1>6. CASE LockSharedMode(t) \/ LockSharedFair(t) \/ LockSharedPreferred(t) \/ LockSharedTimer(t) \/ TryLockSharedLoad(t)
  BY <1>6 DEF LockSharedMode, LockSharedFair, LockSharedPreferred, LockSharedTimer, TryLockSharedLoad, YieldToWriters
<1>7. CASE ReaderIncrement(t) \/ ReaderRecheck(t) \/ ReaderUndo(t)
  BY <1>7 DEF ReaderIncrement, ReaderRecheck, ReaderUndo
<1>8. CASE ReaderSlowLoad(t) \/ WaitReader(t) \/ CvWaitReader(t)
  BY <1>8 DEF ReaderSlowLoad, WaitReader, CvWaitReader
<1>9. CASE UnlockShared(t) \/ UnlockSharedFlag(t)
  BY <1>9 DEF UnlockShared, UnlockSharedFlag
<1>10. CASE SumReaders(t)
  BY <1>10 DEF SumReaders, SumNonzeroLabels, SumZeroLabel, AfterFailedTryLock, SumLabels
<1> QED
  BY <1>1, <1>2, <1>3, <1>4, <1>5, <1>6, <1>7, <1>8, <1>9, <1>10, Zenon
  DEF Step, ExclusiveStep, SharedStep

LEMMA MoveIsAbstractStep ==
  ASSUME TypeOK, TypeOK', ExclusionInvariant, ExclusionInvariant',
         NEW t \in Threads, MovesOnly(t)
  PROVE  Abstract!Next \/ UNCHANGED Abstract!vars
<1> DEFINE W == {u \in Threads : HoldsExclusive(u)}
           S == {u \in Threads : HoldsShared(u)}
<1> USE DEF HoldsExclusive, HoldsShared
<1>1. \A u \in Threads \ {t} : /\ HoldsExclusive(u)' <=> HoldsExclusive(u)
                               /\ HoldsShared(u)' <=> HoldsShared(u)
  BY Zenon DEF MovesOnly, HolderLabels
<1>2. \A v, u \in Threads : HoldsExclusive(v) /\ HoldsExclusive(u) => v = u
  BY DEF ExclusionInvariant, FlagHasOwner, OwnerLabels
<1>3. \A v, u \in Threads : HoldsExclusive(v)' /\ HoldsExclusive(u)' => v = u
  BY DEF ExclusionInvariant, FlagHasOwner, OwnerLabels
<1>4. \A v, u \in Threads : HoldsExclusive(v)' => ~HoldsShared(u)'
  BY DEF ExclusionInvariant
<1>5. CASE pc[t] \notin HolderLabels /\ HoldsExclusive(t)'
  <2>1. W = {} /\ S = {} /\ W' = {t} /\ S' = {}
    BY <1>1, <1>3, <1>4, <1>5 DEF HolderLabels
  <2> QED
    BY <2>1 DEF Abstract!Next, Abstract!AcquireExclusive, Abstract!Holders
<1>6. CASE pc[t] \notin HolderLabels /\ HoldsShared(t)'
  <2>1. W = {} /\ W' = {} /\ t \notin S /\ S' = S \cup {t}
    BY <1>1, <1>4, <1>6 DEF HolderLabels
  <2> QED
    BY <2>1 DEF Abstract!Next, Abstract!AcquireShared
<1>7. CASE pc[t] \in HolderLabels /\ pc'[t] \notin HolderLabels
  <2>1. t \in W \cup S /\ W' = W \ {t} /\ S' = S \ {t}
    BY <1>1, <1>7 DEF HolderLabels
  <2> QED
    BY <2>1 DEF Abstract!Next, Abstract!Release, Abstract!Holders
<1>8. CASE \/ pc[t] \notin HolderLabels /\ pc'[t] \notin HolderLabels
           \/ HoldsExclusive(t) /\ HoldsExclusive(t)'
           \/ HoldsShared(t) /\ HoldsShared(t)'
  <2>1. W' = W /\ S' = S
    BY <1>1, <1>8 DEF HolderLabels
  <2> QED
    BY <2>1 DEF Abstract!vars
<1> QED
  BY <1>5, <1>6, <1>7, <1>8 DEF MovesOnly, HolderLabels

\* distributed_shared_mutex implements the abstract readers-writer lock.
THEOREM MutexImplementsRWLock == Spec => ImplementsRWLock
<1>1. Init => Abstract!Init
  BY DEF Init, Abstract!Init, HoldsExclusive, HoldsShared
<1>2. TypeOK /\ TypeOK' /\ ExclusionInvariant /\ ExclusionInvariant' /\ [Next]_vars
        => [Abstract!Next]_Abstract!vars
  <2> SUFFICES ASSUME TypeOK, TypeOK', ExclusionInvariant, ExclusionInvariant', [Next]_vars
               PROVE  Abstract!Next \/ UNCHANGED Abstract!vars
    OBVIOUS
  <2>1. ASSUME NEW t \in Threads, Step(t) PROVE MovesOnly(t)
    BY <2>1, StepMovesOnly
  <2>2. ASSUME NEW t \in Threads, SpuriousWake(t) PROVE MovesOnly(t)
    BY <2>2 DEF SpuriousWake, WokenLabel, Parked, ParkedLabels, Goto, TypeOK, MovesOnly,
       HolderLabels
  <2>3. ASSUME NEW t \in Threads, NEW o \in OpsOf[t], Call(t, o) PROVE MovesOnly(t)
    BY <2>3 DEF Call, TypeOK, MovesOnly, HolderLabels
  <2>4. CASE UNCHANGED vars
    BY <2>4 DEF vars, Abstract!vars, HoldsExclusive, HoldsShared
  <2> QED
    BY <2>1, <2>2, <2>3, <2>4, MoveIsAbstractStep, Zenon DEF Next
<1> QED
  BY <1>1, <1>2, TypeCorrect, ExclusionIsInvariant, PTL
  DEF Spec, ImplementsRWLock, Abstract!Spec
=============================================================================
