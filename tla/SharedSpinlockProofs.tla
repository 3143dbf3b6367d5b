------------------------- MODULE SharedSpinlockProofs -------------------------
(***************************************************************************)
(* Proofs about shared_spinlock for any number of threads: exclusion, by   *)
(* the inductive invariant SpinInvariant, the refinement of the            *)
(* readers-writer lock, and that no sleeper is forgotten but by one of the *)
(* two slips, by WakeInvariant: whoever sleeps on the word saw it held, and*)
(* while anybody sleeps someone awake is on the way to a wake-up.          *)
(***************************************************************************)
EXTENDS SharedSpinlock, FiniteSetTheorems, TLAPS

(* The provers that a step is given when it names none, one after another. *)
USE SMTT(10), ZenonT(20), SMTT(20), SMTT(40)

\* The count a thread loads is a number.
LEMMA CountIsNat ==
  ASSUME TypeOK
  PROVE  Cardinality(readers) \in Nat
  BY ThreadsAssumption, FS_Subset, FS_CardinalityType DEF TypeOK

\* Every step of a thread keeps the variables in their types.
LEMMA StepKeepsTypes ==
  ASSUME TypeOK, NEW t \in Threads, Step(t) \/ SpuriousWake(t)
  PROVE  TypeOK'
<1> USE CountIsNat DEF word, copy, TypeOK, Goto, Labels, ParkedLabels, Flags, Modes, Ops
<1>1. CASE LockCas(t)
  <2>1. CASE flags' = {"W"} /\ Goto(t, "wcs") /\ UNCHANGED <<op, copy, mask>>
    BY <1>1, <2>1 DEF LockCas
  <2>2. CASE Goto(t, "ls_load") /\ UNCHANGED <<op, copy, mask, flags>>
    BY <1>1, <2>2 DEF LockCas
  <2>3. CASE Return(t) /\ UNCHANGED flags
    BY <1>1, <2>3 DEF LockCas, Return
  <2> QED
    BY <1>1, <2>1, <2>2, <2>3, Zenon DEF LockCas
<1>2. CASE LockSlowLoad(t)
  BY <1>2 DEF LockSlowLoad, Load
<1>3. CASE LockSlowClaim(t)
  <2>1. flags' = {"W"} \/ flags' = flags
    BY <1>3, Zenon DEF LockSlowClaim
  <2>2. pc' \in [Threads -> Labels]
    BY <1>3 DEF LockSlowClaim
  <2>3. UNCHANGED <<readers, fairness, waitStart, op, copy, mask, calls, slips>>
    BY <1>3 DEF LockSlowClaim
  <2> QED
    BY <2>1, <2>2, <2>3, Zenon
<1>4. CASE LockSlowQueue(t)
  <2>1. flags' \subseteq Flags
    BY <1>4, Zenon DEF LockSlowQueue
  <2>2. seen' = [seen EXCEPT ![t] = flags'] \/ seen' = seen
    BY <1>4, Zenon DEF LockSlowQueue
  <2>3. seen \in [Threads -> SUBSET Flags] /\ flags' \in SUBSET Flags
    BY <2>1
  <2>4. seen' \in [Threads -> SUBSET Flags]
    <3> HIDE DEF TypeOK, Flags
    <3> QED
      BY <2>2, <2>3
  <2>5. pc' \in [Threads -> Labels]
    BY <1>4 DEF LockSlowQueue
  <2>6. UNCHANGED <<readers, fairness, waitStart, op, count, mask, calls, slips>>
    BY <1>4 DEF LockSlowQueue
  <2> QED
    BY <2>1, <2>4, <2>5, <2>6
<1>5. CASE LockSlowStamp(t)
  BY <1>5 DEF LockSlowStamp
<1>6. CASE unlock(t)
  BY <1>6 DEF unlock
<1>7. CASE UnlockStamp(t)
  BY <1>7 DEF UnlockStamp
<1>8. CASE UnlockWake(t)
  BY <1>8 DEF UnlockWake, PcAfterWake, WokenLabel, Parked
<1>9. CASE LockSharedMode(t)
  BY <1>9 DEF LockSharedMode
<1>10. CASE LockSharedFair(t)
  BY <1>10 DEF LockSharedFair
<1>11. CASE ReaderIncrement(t)
  BY <1>11 DEF ReaderIncrement
<1>12. CASE WriterStarved(t)
  BY <1>12 DEF WriterStarved
<1>13. CASE ReaderUndo(t)
  BY <1>13 DEF ReaderUndo, Return
<1>14. CASE ReaderSlowLoad(t)
  BY <1>14 DEF ReaderSlowLoad, Load
<1>15. CASE ReaderSlowCas(t)
  BY <1>15 DEF ReaderSlowCas, SameWord
<1>16. CASE unlock_shared(t)
  BY <1>16 DEF unlock_shared, Return
<1>17. CASE UnlockSharedWake(t)
  BY <1>17 DEF UnlockSharedWake, PcAfterWake, WokenLabel, Parked
<1>18. CASE do_wait(t)
  BY <1>18, Zenon DEF do_wait, SameWord
<1>19. CASE set_fairness_mode(t)
  BY <1>19 DEF set_fairness_mode, Return
<1>20. CASE SpuriousWake(t)
  BY <1>20 DEF SpuriousWake, WokenLabel, Parked
<1> QED
  BY <1>1, <1>2, <1>3, <1>4, <1>5, <1>6, <1>7, <1>8, <1>9, <1>10, <1>11, <1>12,
     <1>13, <1>14, <1>15, <1>16, <1>17, <1>18, <1>19, <1>20, Zenon
  DEF Step, ExclusiveStep, SharedStep

\* Every step of a thread keeps the lock's invariant.
LEMMA StepKeepsInvariant ==
  ASSUME SpinInvariant, NEW t \in Threads, Step(t) \/ SpuriousWake(t)
  PROVE  SpinInvariant'
<1> USE DEF word, copy, TypeOK, SpinInvariant, HoldsExclusive, HoldsShared, Backing,
            Goto, Labels, ParkedLabels, Flags
<1> SUFFICES FlagHasOwner' /\ ReadersCounted' /\ ReadersShutOut' /\ ExpectedWords'
  BY StepKeepsTypes
<1>1. CASE LockCas(t)
  BY <1>1
  DEF FlagHasOwner, ReadersCounted, ReadersShutOut, ExpectedWords, LockCas, Return
<1>2. CASE LockSlowLoad(t)
  BY <1>2
  DEF FlagHasOwner, ReadersCounted, ReadersShutOut, ExpectedWords, LockSlowLoad, Load
<1>3. CASE LockSlowClaim(t)
  BY <1>3
  DEF FlagHasOwner, ReadersCounted, ReadersShutOut, ExpectedWords, LockSlowClaim
<1>4. CASE LockSlowQueue(t)
  BY <1>4
  DEF FlagHasOwner, ReadersCounted, ReadersShutOut, ExpectedWords, LockSlowQueue, SameWord
<1>5. CASE LockSlowStamp(t)
  BY <1>5
  DEF FlagHasOwner, ReadersCounted, ReadersShutOut, ExpectedWords, LockSlowStamp
<1>6. CASE unlock(t)
  BY <1>6
  DEF FlagHasOwner, ReadersCounted, ReadersShutOut, ExpectedWords, unlock
<1>7. CASE UnlockStamp(t)
  BY <1>7
  DEF FlagHasOwner, ReadersCounted, ReadersShutOut, ExpectedWords, UnlockStamp
<1>8. CASE UnlockWake(t)
  BY <1>8
  DEF FlagHasOwner, ReadersCounted, ReadersShutOut, ExpectedWords, UnlockWake, PcAfterWake, WokenLabel, Parked
<1>9. CASE LockSharedMode(t)
  BY <1>9
  DEF FlagHasOwner, ReadersCounted, ReadersShutOut, ExpectedWords, LockSharedMode
<1>10. CASE LockSharedFair(t)
  BY <1>10
  DEF FlagHasOwner, ReadersCounted, ReadersShutOut, ExpectedWords, LockSharedFair
<1>11. CASE ReaderIncrement(t)
  BY <1>11
  DEF FlagHasOwner, ReadersCounted, ReadersShutOut, ExpectedWords, ReaderIncrement
<1>12. CASE WriterStarved(t)
  BY <1>12
  DEF FlagHasOwner, ReadersCounted, ReadersShutOut, ExpectedWords, WriterStarved
<1>13. CASE ReaderUndo(t)
  BY <1>13
  DEF FlagHasOwner, ReadersCounted, ReadersShutOut, ExpectedWords, ReaderUndo, Return
<1>14. CASE ReaderSlowLoad(t)
  BY <1>14
  DEF FlagHasOwner, ReadersCounted, ReadersShutOut, ExpectedWords, ReaderSlowLoad, Load
<1>15. CASE ReaderSlowCas(t)
  BY <1>15
  DEF FlagHasOwner, ReadersCounted, ReadersShutOut, ExpectedWords, ReaderSlowCas, SameWord
<1>16. CASE unlock_shared(t)
  BY <1>16
  DEF FlagHasOwner, ReadersCounted, ReadersShutOut, ExpectedWords, unlock_shared, Return
<1>17. CASE UnlockSharedWake(t)
  BY <1>17
  DEF FlagHasOwner, ReadersCounted, ReadersShutOut, ExpectedWords, UnlockSharedWake, PcAfterWake, WokenLabel, Parked
<1>18. CASE do_wait(t)
  BY <1>18
  DEF FlagHasOwner, ReadersCounted, ReadersShutOut, ExpectedWords, do_wait, SameWord
<1>19. CASE set_fairness_mode(t)
  BY <1>19
  DEF FlagHasOwner, ReadersCounted, ReadersShutOut, ExpectedWords, set_fairness_mode, Return
<1>20. CASE SpuriousWake(t)
  BY <1>20
  DEF FlagHasOwner, ReadersCounted, ReadersShutOut, ExpectedWords, SpuriousWake, WokenLabel, Parked
<1> QED
  BY <1>1, <1>2, <1>3, <1>4, <1>5, <1>6, <1>7, <1>8, <1>9, <1>10, <1>11, <1>12,
     <1>13, <1>14, <1>15, <1>16, <1>17, <1>18, <1>19, <1>20, Zenon
  DEF Step, ExclusiveStep, SharedStep

\* The initial states, the beginning of a call and steps of others.
LEMMA NextKeepsInvariant ==
  /\ Init => SpinInvariant
  /\ SpinInvariant /\ [Next]_vars => SpinInvariant'
<1>1. Init => SpinInvariant
  <2>1. Init => TypeOK
    BY DEF Init, TypeOK, Labels, ParkedLabels, Flags, Modes, Ops
  <2>2. Init => FlagHasOwner /\ ReadersCounted /\ ReadersShutOut /\ ExpectedWords
    BY DEF Init, FlagHasOwner, ReadersCounted, ReadersShutOut, ExpectedWords,
           HoldsExclusive, HoldsShared, Backing
  <2> QED
    BY <2>1, <2>2 DEF SpinInvariant
<1>2. ASSUME SpinInvariant, NEW t \in Threads, Step(t) \/ SpuriousWake(t)
      PROVE  SpinInvariant'
  BY <1>2, StepKeepsInvariant
<1>3. ASSUME SpinInvariant, NEW t \in Threads, NEW o \in Ops, Call(t, o)
      PROVE  SpinInvariant'
  <2>1. /\ pc' = [pc EXCEPT ![t] = FirstLabel(o)] /\ pc[t] = "idle"
        /\ UNCHANGED <<flags, readers, seen, mask>>
    BY <1>3 DEF Call, Goto, word, copy
  <2>2. FirstLabel(o) \in {"l_cas", "sh_mode", "sh_inc", "mode"}
    BY DEF FirstLabel
  <2>4. TypeOK'
    BY <1>3, <2>1, <2>2 DEF Call, SpinInvariant, TypeOK, Labels, word, copy
  <2>5. FlagHasOwner' /\ ReadersCounted' /\ ReadersShutOut' /\ ExpectedWords'
    BY <1>3, <2>1, <2>2
    DEF TypeOK, SpinInvariant, FlagHasOwner, ReadersCounted, ReadersShutOut,
        ExpectedWords, HoldsExclusive, HoldsShared, Backing
  <2> QED
    BY <2>4, <2>5 DEF SpinInvariant
<1>4. ASSUME SpinInvariant, UNCHANGED vars PROVE SpinInvariant'
  BY <1>4
  DEF vars, word, copy, SpinInvariant, TypeOK, FlagHasOwner, ReadersCounted,
      ReadersShutOut, ExpectedWords, HoldsExclusive, HoldsShared, Backing
<1> QED
  BY <1>1, <1>2, <1>3, <1>4, Zenon DEF Next

\* kWriterFlag has one owner, the reader count is exact, and a reader inside
\* keeps writers out, however the increments, back-outs and CASes of lock(),
\* lock_shared() and their try_ variants interleave.
THEOREM SpinlockIsSound == Spec => []SpinInvariant
<1> QED
  BY NextKeepsInvariant, PTL DEF Spec

-----------------------------------------------------------------------------
(* Refinement *)

Writers == {t \in Threads : HoldsExclusive(t)}
Sharers == {t \in Threads : HoldsShared(t)}

\* What a step of t may do to the holders.
RWStep(t) ==
  \/ Writers = {} /\ Sharers = {} /\ Writers' = {t} /\ Sharers' = Sharers
  \/ /\ Writers = {} /\ Writers' = Writers
     /\ t \notin Sharers /\ Sharers' = Sharers \cup {t}
  \/ /\ t \in Writers \cup Sharers
     /\ Writers' = Writers \ {t} /\ Sharers' = Sharers \ {t}
  \/ Writers' = Writers /\ Sharers' = Sharers

\* A step that neither enters nor leaves a critical section.
LEMMA InsideUnchanged ==
  ASSUME \A u \in Threads : pc'[u] = pc[u] \/ {pc[u], pc'[u]} \cap {"wcs", "rcs"} = {}
  PROVE  Writers' = Writers /\ Sharers' = Sharers
  BY Zenon DEF Writers, Sharers, HoldsExclusive, HoldsShared

\* Every step of a thread enters or leaves a critical section the way the
\* readers-writer lock allows, or changes nothing its callers can see.
LEMMA StepRefines ==
  ASSUME SpinInvariant, NEW t \in Threads, Step(t) \/ SpuriousWake(t)
  PROVE  RWStep(t)
<1>0. ASSUME NEW label \in Labels, pc' = [pc EXCEPT ![t] = label],
             label = "wcs" => flags = {} \/ flags = {"WW"},
             label = "wcs" => readers = {},
             label = "rcs" => "W" \notin flags
      PROVE  RWStep(t)
  <2>1. pc'[t] = label /\ \A u \in Threads \ {t} : pc'[u] = pc[u]
    BY <1>0 DEF TypeOK, SpinInvariant
  <2>2. "W" \notin flags => Writers = {}
    BY DEF SpinInvariant, FlagHasOwner, Writers
  <2>3. readers = {} => Sharers = {}
    BY DEF SpinInvariant, ReadersCounted, Sharers
  <2>4. CASE label = "wcs"
    BY <1>0, <2>1, <2>2, <2>3, <2>4 DEF RWStep, Writers, Sharers, HoldsExclusive, HoldsShared
  <2>5. CASE label = "rcs"
    BY <1>0, <2>1, <2>2, <2>5 DEF RWStep, Writers, Sharers, HoldsExclusive, HoldsShared
  <2>6. CASE label \notin {"wcs", "rcs"}
    BY <2>1, <2>6 DEF RWStep, Writers, Sharers, HoldsExclusive, HoldsShared
  <2> QED
    BY <2>4, <2>5, <2>6
<1>1. ASSUME NEW W \in SUBSET Parked, pc[t] \in {"ul_wake", "us_wake"},
             pc' = PcAfterWake(t, W)
      PROVE  RWStep(t)
  BY <1>1, InsideUnchanged DEF RWStep, PcAfterWake, Parked, ParkedLabels, WokenLabel, TypeOK, SpinInvariant
<1> USE DEF word, copy, Goto, Labels, ParkedLabels
<1>2. CASE LockCas(t)
  BY <1>0, <1>2 DEF LockCas, Return, TypeOK, SpinInvariant
<1>3. CASE LockSlowLoad(t)
  BY <1>0, <1>3, Zenon DEF LockSlowLoad, Load
<1>4. CASE LockSlowClaim(t)
  BY <1>0, <1>4 DEF LockSlowClaim, TypeOK, Flags, SpinInvariant, ExpectedWords, ReadersShutOut
<1>5. CASE LockSlowQueue(t)
  BY <1>0, <1>5 DEF LockSlowQueue
<1>6. CASE LockSlowStamp(t)
  BY <1>0, <1>6, Zenon DEF LockSlowStamp
<1>7. CASE unlock(t)
  BY <1>0, <1>7 DEF unlock
<1>8. CASE UnlockStamp(t)
  BY <1>0, <1>8 DEF UnlockStamp
<1>9. CASE UnlockWake(t)
  BY <1>1, <1>9 DEF UnlockWake
<1>10. CASE LockSharedMode(t)
  BY <1>0, <1>10, Zenon DEF LockSharedMode
<1>11. CASE LockSharedFair(t)
  BY <1>0, <1>11 DEF LockSharedFair
<1>12. CASE ReaderIncrement(t)
  BY <1>0, <1>12, Zenon DEF ReaderIncrement, TypeOK, Flags, SpinInvariant, ExpectedWords, ReadersShutOut
<1>13. CASE WriterStarved(t)
  BY <1>0, <1>13 DEF WriterStarved, TypeOK, Flags, SpinInvariant, ExpectedWords, ReadersShutOut
<1>14. CASE ReaderUndo(t)
  BY <1>0, <1>14 DEF ReaderUndo, Return
<1>15. CASE ReaderSlowLoad(t)
  BY <1>0, <1>15, Zenon DEF ReaderSlowLoad, Load
<1>16. CASE ReaderSlowCas(t)
  BY <1>0, <1>16 DEF ReaderSlowCas, TypeOK, Flags, SpinInvariant, ExpectedWords, ReadersShutOut, SameWord
<1>17. CASE unlock_shared(t)
  BY <1>0, <1>17 DEF unlock_shared, Return
<1>18. CASE UnlockSharedWake(t)
  BY <1>1, <1>18 DEF UnlockSharedWake
<1>19. CASE do_wait(t)
  BY <1>0, <1>19 DEF do_wait
<1>20. CASE set_fairness_mode(t)
  BY <1>0, <1>20 DEF set_fairness_mode, Return
<1>21. CASE SpuriousWake(t)
  BY <1>0, <1>21, Zenon DEF SpuriousWake, WokenLabel, Parked
<1> QED
  BY <1>2, <1>3, <1>4, <1>5, <1>6, <1>7, <1>8, <1>9, <1>10, <1>11, <1>12, <1>13,
     <1>14, <1>15, <1>16, <1>17, <1>18, <1>19, <1>20, <1>21, Zenon
  DEF Step, ExclusiveStep, SharedStep

\* Every behaviour of shared_spinlock is one of the readers-writer lock: lock()
\* and try_lock() return alone, lock_shared() and try_lock_shared() with no
\* writer inside.
THEOREM SpinlockImplementsRWLock == Spec => ImplementsRWLock
<1> USE DEF Abstract!Init, Abstract!Next, Abstract!vars, Abstract!Holders,
            Abstract!AcquireExclusive, Abstract!AcquireShared, Abstract!Release
<1>1. Init => Abstract!Init
  BY DEF Init, HoldsExclusive, HoldsShared
<1>2. SpinInvariant /\ [Next]_vars => [Abstract!Next]_Abstract!vars
  <2> SUFFICES ASSUME SpinInvariant, [Next]_vars
               PROVE  [Abstract!Next]_Abstract!vars
    OBVIOUS
  <2>1. ASSUME NEW t \in Threads, Step(t) \/ SpuriousWake(t)
        PROVE  [Abstract!Next]_Abstract!vars
    BY <2>1, StepRefines DEF RWStep, Writers, Sharers
  <2>2. ASSUME NEW t \in Threads, NEW o \in Ops, Call(t, o)
        PROVE  [Abstract!Next]_Abstract!vars
    <3>1. pc' = [pc EXCEPT ![t] = FirstLabel(o)] /\ pc[t] = "idle"
      BY <2>2 DEF Call, Goto
    <3>2. FirstLabel(o) \notin {"wcs", "rcs"}
      BY DEF FirstLabel
    <3> QED
      BY <3>1, <3>2, InsideUnchanged DEF TypeOK, SpinInvariant, Writers, Sharers
  <2>3. CASE UNCHANGED vars
    BY <2>3 DEF vars, HoldsExclusive, HoldsShared
  <2> QED
    BY <2>1, <2>2, <2>3, Zenon DEF Next
<1>3. Spec => [](SpinInvariant)
  BY NextKeepsInvariant, PTL DEF Spec
<1> QED
  BY <1>1, <1>2, <1>3, PTL DEF Spec, ImplementsRWLock, Abstract!Spec

-----------------------------------------------------------------------------
(* No sleeper is forgotten *)

Awake == {"ls_load", "ls_claim", "ls_queue", "ls_stamp", "ls_wait"}

\* What the word was when the thread decided to wait or to queue.
SleepersSaw ==
  \A t \in Threads :
    /\ pc[t] \in {"ls_queue", "ls_stamp", "ls_wait", "ls_parked"} =>
         "W" \in seen[t] \/ count[t] # 0
    /\ pc[t] \in {"ls_stamp", "ls_wait", "ls_parked"} => "WW" \in seen[t]
    /\ pc[t] \in {"rs_wait", "rs_parked"} => seen[t] \cap mask[t] # {}

\* A wait flag has its writer, awake or asleep.
QueueHasWriter ==
  "WW" \in flags => \E t \in Threads : pc[t] \in Awake \cup {"ls_parked"}

\* Somebody will wake the sleepers, or try for the lock and wake them later.
WakeToCome ==
  \/ "W" \in flags
  \/ "WW" \in flags /\ readers # {}
  \/ \E t \in Threads : pc[t] \in Awake \cup {"ul_stamp", "ul_wake", "us_wake"}

WakeInvariant ==
  /\ SleepersSaw /\ QueueHasWriter
  /\ Parked # {} /\ slips = {} => WakeToCome

\* The count tells whether there are readers.
LEMMA CountIsZero ==
  ASSUME TypeOK, Cardinality(readers) = 0
  PROVE  readers = {}
BY ThreadsAssumption, FS_Subset, FS_EmptySet DEF TypeOK

LEMMA CountOfNone == Cardinality({}) = 0
BY FS_EmptySet

\* Every step of a thread keeps what the sleepers saw.
LEMMA StepKeepsSaw ==
  ASSUME SpinInvariant, SleepersSaw, NEW t \in Threads, Step(t) \/ SpuriousWake(t)
  PROVE  SleepersSaw'
<1> USE DEF word, copy, TypeOK, SpinInvariant, Goto, SleepersSaw, ParkedLabels
<1>1. CASE LockCas(t)
  BY <1>1 DEF LockCas, Return
<1>2. CASE LockSlowLoad(t)
  BY <1>2, CountIsZero DEF LockSlowLoad, Load
<1>3. CASE LockSlowClaim(t)
  BY <1>3 DEF LockSlowClaim
<1>4. CASE LockSlowQueue(t)
  BY <1>4 DEF LockSlowQueue, SameWord
<1>5. CASE LockSlowStamp(t)
  BY <1>5 DEF LockSlowStamp
<1>6. CASE unlock(t)
  BY <1>6 DEF unlock
<1>7. CASE UnlockStamp(t)
  BY <1>7 DEF UnlockStamp
<1>8. CASE UnlockWake(t)
  BY <1>8 DEF UnlockWake, PcAfterWake, WokenLabel, Parked
<1>9. CASE LockSharedMode(t)
  BY <1>9 DEF LockSharedMode
<1>10. CASE LockSharedFair(t)
  BY <1>10 DEF LockSharedFair
<1>11. CASE ReaderIncrement(t)
  BY <1>11 DEF ReaderIncrement
<1>12. CASE WriterStarved(t)
  BY <1>12 DEF WriterStarved
<1>13. CASE ReaderUndo(t)
  BY <1>13 DEF ReaderUndo, Return
<1>14. CASE ReaderSlowLoad(t)
  BY <1>14 DEF ReaderSlowLoad, Load
<1>15. CASE ReaderSlowCas(t)
  BY <1>15 DEF ReaderSlowCas, SameWord
<1>16. CASE unlock_shared(t)
  BY <1>16 DEF unlock_shared, Return
<1>17. CASE UnlockSharedWake(t)
  BY <1>17 DEF UnlockSharedWake, PcAfterWake, WokenLabel, Parked
<1>18. CASE do_wait(t)
  BY <1>18 DEF do_wait, SameWord
<1>19. CASE set_fairness_mode(t)
  BY <1>19 DEF set_fairness_mode, Return
<1>20. CASE SpuriousWake(t)
  BY <1>20 DEF SpuriousWake, WokenLabel, Parked
<1> QED
  BY <1>1, <1>2, <1>3, <1>4, <1>5, <1>6, <1>7, <1>8, <1>9, <1>10, <1>11, <1>12,
     <1>13, <1>14, <1>15, <1>16, <1>17, <1>18, <1>19, <1>20, Zenon
  DEF Step, ExclusiveStep, SharedStep

LEMMA StepKeepsQueue ==
  ASSUME SpinInvariant, QueueHasWriter, NEW t \in Threads, Step(t) \/ SpuriousWake(t)
  PROVE  QueueHasWriter'
<1> USE DEF word, copy, TypeOK, SpinInvariant, Goto, QueueHasWriter, Awake, ParkedLabels, Flags
<1>1. CASE LockCas(t)
  BY <1>1 DEF LockCas, Return
<1>2. CASE LockSlowLoad(t)
  BY <1>2 DEF LockSlowLoad, Load
<1>3. CASE LockSlowClaim(t)
  BY <1>3 DEF LockSlowClaim
<1>4. CASE LockSlowQueue(t)
  BY <1>4 DEF LockSlowQueue, SameWord
<1>5. CASE LockSlowStamp(t)
  BY <1>5 DEF LockSlowStamp
<1>6. CASE unlock(t)
  BY <1>6 DEF unlock
<1>7. CASE UnlockStamp(t)
  BY <1>7 DEF UnlockStamp
<1>8. CASE UnlockWake(t)
  BY <1>8 DEF UnlockWake, PcAfterWake, WokenLabel, Parked
<1>9. CASE LockSharedMode(t)
  BY <1>9 DEF LockSharedMode
<1>10. CASE LockSharedFair(t)
  BY <1>10 DEF LockSharedFair
<1>11. CASE ReaderIncrement(t)
  BY <1>11 DEF ReaderIncrement
<1>12. CASE WriterStarved(t)
  BY <1>12 DEF WriterStarved
<1>13. CASE ReaderUndo(t)
  BY <1>13 DEF ReaderUndo, Return
<1>14. CASE ReaderSlowLoad(t)
  BY <1>14 DEF ReaderSlowLoad, Load
<1>15. CASE ReaderSlowCas(t)
  BY <1>15 DEF ReaderSlowCas, SameWord
<1>16. CASE unlock_shared(t)
  BY <1>16 DEF unlock_shared, Return
<1>17. CASE UnlockSharedWake(t)
  BY <1>17 DEF UnlockSharedWake, PcAfterWake, WokenLabel, Parked
<1>18. CASE do_wait(t)
  BY <1>18 DEF do_wait, SameWord
<1>19. CASE set_fairness_mode(t)
  BY <1>19 DEF set_fairness_mode, Return
<1>20. CASE SpuriousWake(t)
  BY <1>20 DEF SpuriousWake, WokenLabel, Parked
<1> QED
  BY <1>1, <1>2, <1>3, <1>4, <1>5, <1>6, <1>7, <1>8, <1>9, <1>10, <1>11, <1>12,
     <1>13, <1>14, <1>15, <1>16, <1>17, <1>18, <1>19, <1>20, Zenon
  DEF Step, ExclusiveStep, SharedStep

\* A thread that goes to sleep saw a word that promises a wake-up; a reader that
\* saw no more than the wait flag has its writer, and if that one sleeps there
\* was a sleeper before.
LEMMA SleepIsAwaited ==
  ASSUME SpinInvariant, WakeInvariant, NEW t \in Threads, do_wait(t), Parked' # {},
         slips' = {}
  PROVE  WakeToCome'
<1>1. /\ flags' = flags /\ readers' = readers /\ slips = {}
      /\ \A u \in Threads \ {t} : pc'[u] = pc[u]
  BY DEF do_wait, Goto, word, SpinInvariant, TypeOK
<1>2. CASE ~SameWord(t)
  <2>1. CASE pc[t] = "ls_wait"
    <3>1. pc'[t] = "ls_load"  BY <1>2, <2>1 DEF do_wait, Goto, SpinInvariant, TypeOK
    <3> QED  BY <3>1 DEF WakeToCome, Awake
  <2>2. CASE pc[t] = "rs_wait"
    <3>1. pc'[t] = "rs_load"  BY <1>2, <2>2 DEF do_wait, Goto, SpinInvariant, TypeOK
    <3>2. Parked # {}  BY <1>1, <3>1 DEF Parked, ParkedLabels
    <3>3. WakeToCome  BY <1>1, <3>2 DEF WakeInvariant
    <3> QED  BY <1>1, <2>2, <3>3 DEF WakeToCome, Awake
  <2> QED  BY <2>1, <2>2 DEF do_wait
<1>3. CASE SameWord(t) /\ pc[t] = "ls_wait"
  <2>1. "WW" \in flags /\ ("W" \in flags \/ Cardinality(readers) # 0)
    BY <1>3 DEF SameWord, WakeInvariant, SleepersSaw
  <2> QED  BY <1>1, <2>1, CountOfNone DEF WakeToCome
<1>4. CASE SameWord(t) /\ pc[t] = "rs_wait"
  <2>1. pc'[t] = "rs_parked" /\ flags \cap mask[t] # {} /\ flags \subseteq Flags
    BY <1>4 DEF do_wait, Goto, SameWord, WakeInvariant, SleepersSaw, SpinInvariant, TypeOK
  <2>2. WakeToCome => WakeToCome'
    BY <1>1, <1>4 DEF WakeToCome, Awake
  <2>3. CASE "W" \in flags  BY <1>1, <2>3 DEF WakeToCome
  <2>4. CASE "WW" \in flags
    <3>1. PICK u \in Threads : pc[u] \in Awake \cup {"ls_parked"}
      BY <2>4 DEF WakeInvariant, QueueHasWriter
    <3>2. pc[u] \in Awake => WakeToCome  BY DEF WakeToCome
    <3>3. pc[u] = "ls_parked" => Parked # {}  BY DEF Parked, ParkedLabels
    <3> QED  BY <1>1, <2>2, <3>1, <3>2, <3>3 DEF WakeInvariant
  <2> QED  BY <2>1, <2>3, <2>4, Zenon DEF Flags
<1> QED  BY <1>2, <1>3, <1>4 DEF do_wait

\* Every other step of a thread keeps the promise to those who sleep.
LEMMA StepKeepsPromise ==
  ASSUME SpinInvariant, WakeInvariant, NEW t \in Threads, Step(t) \/ SpuriousWake(t),
         Parked' # {}, slips' = {}
  PROVE  WakeToCome'
<1> SUFFICES ASSUME ~do_wait(t) PROVE WakeToCome'
  BY SleepIsAwaited
<1> USE DEF word, copy, TypeOK, SpinInvariant, Goto, WakeInvariant, WakeToCome, Awake, Parked,
            ParkedLabels, Flags
<1>1. CASE LockCas(t)
  BY <1>1 DEF LockCas, Return
<1>2. CASE LockSlowLoad(t)
  BY <1>2 DEF LockSlowLoad, Load
<1>3. CASE LockSlowClaim(t)
  BY <1>3 DEF LockSlowClaim
<1>4. CASE LockSlowQueue(t)
  BY <1>4 DEF LockSlowQueue
<1>5. CASE LockSlowStamp(t)
  BY <1>5 DEF LockSlowStamp
<1>6. CASE unlock(t)
  BY <1>6 DEF unlock
<1>7. CASE UnlockStamp(t)
  BY <1>7 DEF UnlockStamp
<1>8. CASE UnlockWake(t)
  BY <1>8 DEF UnlockWake, PcAfterWake, WokenLabel
<1>9. CASE LockSharedMode(t)
  BY <1>9 DEF LockSharedMode
<1>10. CASE LockSharedFair(t)
  BY <1>10 DEF LockSharedFair
<1>11. CASE ReaderIncrement(t)
  BY <1>11 DEF ReaderIncrement
<1>12. CASE WriterStarved(t)
  BY <1>12 DEF WriterStarved
<1>13. CASE ReaderUndo(t)
  BY <1>13 DEF ReaderUndo, Return
<1>14. CASE ReaderSlowLoad(t)
  BY <1>14 DEF ReaderSlowLoad, Load
<1>15. CASE ReaderSlowCas(t)
  BY <1>15 DEF ReaderSlowCas
<1>16. CASE unlock_shared(t)
  BY <1>16 DEF unlock_shared, Return
<1>17. CASE UnlockSharedWake(t)
  BY <1>17 DEF UnlockSharedWake, PcAfterWake, WokenLabel
<1>18. CASE set_fairness_mode(t)
  BY <1>18 DEF set_fairness_mode, Return
<1>19. CASE SpuriousWake(t)
  BY <1>19 DEF SpuriousWake, WokenLabel
<1> QED
  BY <1>1, <1>2, <1>3, <1>4, <1>5, <1>6, <1>7, <1>8, <1>9, <1>10, <1>11, <1>12,
     <1>13, <1>14, <1>15, <1>16, <1>17, <1>18, <1>19, Zenon
  DEF Step, ExclusiveStep, SharedStep

LEMMA NextKeepsPromise == SpinInvariant /\ WakeInvariant /\ [Next]_vars => WakeInvariant'
<1>1. ASSUME SpinInvariant, WakeInvariant, NEW t \in Threads, Step(t) \/ SpuriousWake(t)
      PROVE  WakeInvariant'
  BY <1>1, StepKeepsSaw, StepKeepsQueue, StepKeepsPromise, Zenon DEF WakeInvariant
<1>2. ASSUME SpinInvariant, WakeInvariant, NEW t \in Threads, NEW o \in Ops, Call(t, o)
      PROVE  WakeInvariant'
  <2>1. /\ pc' = [pc EXCEPT ![t] = FirstLabel(o)] /\ pc[t] = "idle"
        /\ UNCHANGED <<flags, readers, seen, count, mask, slips>>
    BY <1>2 DEF Call, Goto, word, copy
  <2>2. FirstLabel(o) \in {"l_cas", "sh_mode", "sh_inc", "mode"}
    BY DEF FirstLabel
  <2>3. \A u \in Threads : pc'[u] = pc[u] \/ (u = t /\ pc'[u] = FirstLabel(o))
    BY <1>2, <2>1 DEF SpinInvariant, TypeOK
  <2>4. Parked' = Parked
    BY <2>1, <2>2, <2>3 DEF Parked, ParkedLabels
  <2>5. SleepersSaw' /\ QueueHasWriter'
    BY <1>2, <2>1, <2>2, <2>3 DEF WakeInvariant, SleepersSaw, QueueHasWriter, Awake
  <2>6. WakeToCome => WakeToCome'
    BY <1>2, <2>1, <2>2, <2>3 DEF WakeToCome, Awake
  <2> QED  BY <1>2, <2>1, <2>4, <2>5, <2>6 DEF WakeInvariant
<1>3. ASSUME WakeInvariant, UNCHANGED vars PROVE WakeInvariant'
  BY <1>3, Zenon DEF vars, word, copy, WakeInvariant, SleepersSaw, QueueHasWriter, WakeToCome, Parked
<1> QED  BY <1>1, <1>2, <1>3, Zenon DEF Next

\* Threads are left asleep on a free lock only after the last reader left by
\* backing out of its increment, or after the one wake-up of unlock_shared() went
\* to a reader: in every other interleaving a sleeper has a holder, a waker or a
\* writer that is awake to count on.
THEOREM SleepersAreWoken == Spec => []StrandedOnlyBySlip
<1>1. Init => WakeInvariant
  BY DEF Init, WakeInvariant, SleepersSaw, QueueHasWriter, Parked, ParkedLabels
<1>2. SpinInvariant /\ WakeInvariant => StrandedOnlyBySlip
  <2> SUFFICES ASSUME SpinInvariant, WakeInvariant, Stranded, slips = {} PROVE FALSE
    BY DEF StrandedOnlyBySlip
  <2>1. \A t \in Threads : pc[t] \in {"ls_parked", "rs_parked", "idle"}
    BY DEF Stranded, ParkedLabels
  <2>2. "W" \notin flags  BY <2>1 DEF SpinInvariant, FlagHasOwner, HoldsExclusive
  <2>3. readers = {}
    BY <2>1 DEF SpinInvariant, ReadersCounted, HoldsShared, Backing, TypeOK
  <2>4. WakeToCome  BY DEF WakeInvariant, Stranded
  <2> QED  BY <2>1, <2>2, <2>3, <2>4 DEF WakeToCome, Awake
<1> QED
  BY <1>1, <1>2, SpinlockIsSound, NextKeepsPromise, PTL DEF Spec
=============================================================================
