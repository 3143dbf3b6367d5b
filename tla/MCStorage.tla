----------------------------- MODULE MCStorage ------------------------------
(***************************************************************************)
(* Model checking of what wraps a cache: the tiered cache with its storage *)
(* backend, and the cache with expiry.  A behaviour is a behaviour of one  *)
(* of them; the other rests.                                               *)
(***************************************************************************)
EXTENDS TieredCache, Bags

CONSTANTS Getters, k1, k2

VARIABLES part,
          xNative, xNow, xSets, xItems, xHeap, xDeferred, xHeld, xStopped, xOp, xCleaner, xHasty

(* Reading through; writing back through a queue that is always full;      *)
(* writing back two keys; callbacks after the unlock; no queue.            *)
Base == [read_through |-> FALSE, write_back |-> TRUE, capacity |-> 3, striped |-> TRUE,
         keys |-> {k1}]
MCConfigs ==
  {[Base EXCEPT !.read_through = TRUE, !.write_back = FALSE, !.keys = {k1, k2}],
   [Base EXCEPT !.capacity = 1],
   [Base EXCEPT !.keys = {k1, k2}],
   [Base EXCEPT !.striped = FALSE],
   [Base EXCEPT !.capacity = 0, !.keys = {k1, k2}]}

X == INSTANCE TtlCache WITH
    Threads <- Getters, Keys <- {k1, k2}, Natives <- BOOLEAN, Ttls <- {1, 3}, max_ttl <- 2, Jitter <- {0, 1},
    max_size <- 1, batch <- 1, MaxTime <- 3, MaxSets <- 2,
    native <- xNative, now <- xNow, sets <- xSets, items <- xItems, heap <- xHeap,
    deferred <- xDeferred, held <- xHeld, stopped <- xStopped, op <- xOp, cleaner <- xCleaner,
    hasty <- xHasty

xVars == <<xNative, xNow, xSets, xItems, xHeap, xDeferred, xHeld, xStopped, xOp, xCleaner, xHasty>>

(* A part that rests keeps one of its initial states.                      *)
MCInit ==
    /\ part \in {"tiers", "expiry"}
    /\ Init /\ X!Init
    /\ part # "tiers" => config.read_through
    /\ part # "expiry" => xNative

MCNext ==
    \/ part = "tiers" /\ Next /\ UNCHANGED <<part, xVars>>
    \/ part = "expiry" /\ X!Next /\ UNCHANGED <<part, vars>>

(* At rest the tiers ask for nothing; of the cache with expiry only what   *)
(* its part really runs is scheduled fairly.                               *)
ExpiryFairness ==
    /\ \A t \in Getters : WF_xVars(X!Step(t))
    /\ \A k \in {k1, k2} : WF_xVars(X!Drop(k))
    /\ WF_xVars(part = "expiry" /\ X!Clean) /\ WF_xVars(part = "expiry" /\ X!Tick)
MCSpec == MCInit /\ [][MCNext]_<<part, vars, xVars>> /\ Fairness /\ ExpiryFairness

(* The layers of the cache with expiry agree, an item, its value and the   *)
(* index of expiries, and no entry that has not expired is removed as      *)
(* expired.  All variables keep their types.                               *)
ExpiryExact == TypeOK /\ X!TypeOK /\ X!LayersAgree /\ X!LiveEntriesStay

(* Every get, set and del of the tiered cache comes back, and a breaker    *)
(* that tripped closes again once the backend has recovered.               *)
TiersLive == CallsReturn /\ BreakerRecovers

(* An expired entry goes in the end, though nobody asks for it.            *)
ExpiredGo == X!ExpiredGo
=============================================================================
