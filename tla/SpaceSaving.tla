---------------------------- MODULE SpaceSaving -----------------------------
(***************************************************************************)
(* space_saving_top_k (detail/space_saving.hpp): the most frequent keys of *)
(* a stream, with a fixed number of counters.  A key that is not tracked   *)
(* takes over the counter of the least one, found through a heap of        *)
(* (count, key) pairs that increments leave behind.  The search for the    *)
(* least goes one heap entry per step; equal counts come in any order.     *)
(***************************************************************************)
EXTENDS Naturals, FiniteSets, Bags, FiniteSetsExt

CONSTANTS
  Keys, NoKey,
  Counts,        \* how many occurrences one add() reports
  capacity,
  MaxAdds        \* bound: calls of add()

VARIABLES
  counters,   \* map_
  heap,       \* heap_, a bag of entries
  total,      \* total_
  adding,     \* the add() under way: key and count
  seen,       \* how often each key was really added
  adds

vars == <<counters, heap, total, adding, seen, adds>>

Tracked == DOMAIN counters
Rest == [key |-> NoKey, n |-> 0]
Entry(k, n) == SetToBag({<<n, k>>})
With(cs, k, n) == [j \in DOMAIN cs \cup {k} |-> IF j = k THEN n ELSE cs[j]]

(* add(): a tracked key is counted, with its heap entry left as it is; a   *)
(* free counter is taken; otherwise the search begins.                     *)
add(k, n) ==
  /\ adding = Rest /\ adds < MaxAdds
  /\ adds' = adds + 1
  /\ total' = total + n
  /\ seen' = [seen EXCEPT ![k] = @ + n]
  /\ IF k \in Tracked
     THEN counters' = With(counters, k, counters[k] + n) /\ UNCHANGED <<heap, adding>>
     ELSE IF Cardinality(Tracked) < capacity
     THEN counters' = With(counters, k, n) /\ heap' = heap (+) Entry(k, n) /\ UNCHANGED adding
     ELSE adding' = [key |-> k, n |-> n] /\ UNCHANGED <<counters, heap>>

Top == {e \in BagToSet(heap) : \A f \in BagToSet(heap) : e[1] <= f[1]}
Stale(e) == e[2] \notin Tracked \/ counters[e[2]] # e[1]

(* An entry on top that is behind its counter is renewed, one of a key     *)
(* that is gone is dropped.                                                *)
Refresh(e) ==
  /\ adding # Rest /\ e \in Top /\ Stale(e)
  /\ heap' = (heap (-) SetToBag({e}))
               (+) (IF e[2] \in Tracked THEN Entry(e[2], counters[e[2]]) ELSE EmptyBag)
  /\ UNCHANGED <<counters, total, adding, seen, adds>>

rebuild_heap(cs) == SetToBag({<<cs[k], k>> : k \in DOMAIN cs})

(* The new key inherits the least count.                                   *)
TakeOver(victim, h) ==
  LET n == counters[victim] + adding.n
      cs == With([k \in Tracked \ {victim} |-> counters[k]], adding.key, n)
      grown == h (+) Entry(adding.key, n)
  IN  /\ counters' = cs
      /\ heap' = IF BagCardinality(grown) > 4 * capacity THEN rebuild_heap(cs) ELSE grown
      /\ adding' = Rest
      /\ UNCHANGED <<total, seen, adds>>

(* Mutant: an entry behind its counter is good enough.                     *)
ReplaceAny(e) ==
  /\ adding # Rest /\ e \in Top /\ e[2] \in Tracked
  /\ TakeOver(e[2], heap (-) SetToBag({e}))

Replace(e) ==
  /\ adding # Rest /\ e \in Top /\ ~Stale(e)
  /\ TakeOver(e[2], heap (-) SetToBag({e}))

reset ==
  /\ adding = Rest /\ adds < MaxAdds /\ adds' = adds + 1
  /\ counters' = <<>> /\ heap' = EmptyBag /\ total' = 0
  /\ seen' = [k \in Keys |-> 0]
  /\ UNCHANGED adding

Init ==
  /\ counters = <<>> /\ heap = EmptyBag /\ total = 0 /\ adding = Rest
  /\ seen = [k \in Keys |-> 0] /\ adds = 0
Done == adds = MaxAdds /\ adding = Rest /\ UNCHANGED vars
Next ==
  \/ \E k \in Keys, n \in Counts : add(k, n)
  \/ \E e \in BagToSet(heap) : Refresh(e) \/ Replace(e)
  \/ reset \/ Done
Spec == Init /\ [][Next]_vars

error_bound == total \div capacity

-----------------------------------------------------------------------------
TypeOK ==
  /\ Tracked \subseteq Keys /\ Cardinality(Tracked) <= capacity
  /\ total \in Nat /\ adds \in 0..MaxAdds

(* The guarantees of the summary: a counter is never below the truth nor   *)
(* above it by more than error_bound(), a key without a counter has at     *)
(* most error_bound() occurrences, and the counters add up to the stream.  *)
(* The heap keeps one entry per counter, never above it, so the search     *)
(* always finds the least one and the fall-back scan of the map and the    *)
(* rebuilding of an overgrown heap are never needed.                       *)
SummaryBounds ==
  /\ \A k \in Tracked : \E n \in 0..counters[k] : BagIn(<<n, k>>, heap)
  /\ BagCardinality(heap) = Cardinality(Tracked)
  /\ adding = Rest =>
       /\ \A k \in Tracked : seen[k] <= counters[k] /\ counters[k] <= seen[k] + error_bound
       /\ \A k \in Keys \ Tracked : seen[k] <= error_bound
       /\ MapThenSumSet(LAMBDA k : counters[k], Tracked) = total
=============================================================================
