------------------------------- MODULE RWLock -------------------------------
(***************************************************************************)
(* What a shared mutex promises its callers: one exclusive holder or any   *)
(* number of shared holders, never both.  distributed_shared_mutex and     *)
(* shared_spinlock are both shown to implement it.                         *)
(***************************************************************************)
CONSTANT Threads

VARIABLES writers, sharers

vars == <<writers, sharers>>

Holders == writers \cup sharers

Init ==
  /\ writers = {}
  /\ sharers = {}

\* lock() or a successful try_lock() returns.
AcquireExclusive(t) ==
  /\ Holders = {}
  /\ writers' = {t}
  /\ UNCHANGED sharers

\* lock_shared() or a successful try_lock_shared() returns.
AcquireShared(t) ==
  /\ writers = {}
  /\ t \notin sharers
  /\ sharers' = sharers \cup {t}
  /\ UNCHANGED writers

Release(t) ==
  /\ t \in Holders
  /\ writers' = writers \ {t}
  /\ sharers' = sharers \ {t}

Next ==
  \E t \in Threads : AcquireExclusive(t) \/ AcquireShared(t) \/ Release(t)

Spec == Init /\ [][Next]_vars
=============================================================================
