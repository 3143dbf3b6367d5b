------------------------- MODULE MCDistributedMutex -------------------------
EXTENDS DistributedMutex, TLC

CONSTANTS w1, r1, r2

Exclusive == {"lock"}
TryExclusive == {"try_lock", "set_fairness"}
Shared == {"lock_shared", "try_lock_shared"}

Trio == {w1, r1, r2}

\* The readers count on different nodes.
TrioCalls == (w1 :> 2) @@ (r1 :> 1) @@ (r2 :> 1)
OneCall == [t \in Trio |-> 1]
TrioNodeOf == (w1 :> 1) @@ (r1 :> 1) @@ (r2 :> 2)

\* lock() against lock_shared() and try_lock_shared(): one or two writers queue,
\* readers queue behind them, and the wake-up travels from reader to reader.
BlockingOps == (w1 :> Exclusive) @@ (r1 :> Shared) @@ (r2 :> {"lock", "lock_shared"})

\* Every operation of the class.
TrioOps ==
  (w1 :> Exclusive \cup TryExclusive) @@ (r1 :> Shared) @@ (r2 :> {"lock", "lock_shared"})
=============================================================================
