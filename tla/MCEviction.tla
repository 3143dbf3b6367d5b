----------------------------- MODULE MCEviction -----------------------------
(***************************************************************************)
(* The eviction strategies under TLC: mm_lru, with and without insertion   *)
(* points, and the four queue strategies.  A behaviour picks one of them;  *)
(* the state of the others rests.                                          *)
(***************************************************************************)
EXTENDS MmQueues, TLC

CONSTANTS k1, k2, k3

VARIABLES part,       \* the strategy of this behaviour
          lru, did    \* the state of mm_lru, and its last call
mcVars == <<mm, call, lru, did, part>>

(* What is done next never depends on call, and properties look at the call*)
(* of the step at hand alone: states that differ in it count as one.       *)
MCView == <<mm, lru, did, part>>

MCKeys == {k1, k2, k3}
MCTtlKeys == {k1}
MCConfigs ==
  [hot : {5}, warm : {5}, ghost : {10}, entries : {0, 2}, onWrite : {FALSE}]

F == INSTANCE MmFifo WITH
       ValueSizes <- {1, 2}, SizeCaps <- {0, 2}, MemoryCaps <- {2, 9}, Predicates <- {{}, {k2}}
Q == INSTANCE Mm2Q WITH Configs <- MCConfigs, SizeCaps <- {1, 2}
T == INSTANCE MmTinyLfu WITH
       WindowTenths <- 1, NewcomerWins <- TRUE, UpdateOnWrite <- FALSE
W == INSTANCE MmWTinyLfu WITH
       WindowTenths <- 1, ProtectionTenths <- 8, protection_freq <- 0, NewcomerWins <- TRUE,
       UpdateOnWrite <- TRUE, SizeCaps <- {1, 3}

(* Two items, insertion points switched on and off, one handle; and up to  *)
(* three items behind an insertion point, two handles, no predicate.       *)
L == INSTANCE MmLru WITH
       ValueSizes <- {1, 2}, SizeCaps <- {2}, MemoryCaps <- {1, 3}, Specs <- {0, 1},
       Predicates <- {{}, {k1}}, SearchTries <- 1, MaxPending <- 1, SizeMod <- 256, mm <- lru
S == INSTANCE MmLru WITH
       ValueSizes <- {1, 2}, SizeCaps <- {1, 3}, MemoryCaps <- {3}, Specs <- {1},
       Predicates <- {{}}, SearchTries <- 1, MaxPending <- 1, MaxHandles <- 2,
       SizeMod <- 256, mm <- lru

(* A strategy that rests keeps one of its initial states.                  *)
RestLru == L!Init /\ lru.maxMemory = 3 /\ lru.spec = 0 /\ lru.vetoed = {}
RestQueues == F!Init /\ mm.maxSize = 2 /\ mm.maxMemory = 9 /\ mm.vetoed = {}

MCInit ==
  \/ part = "fifo" /\ F!Init /\ RestLru
  \/ part = "2q" /\ Q!Init /\ RestLru
  \/ part = "tiny" /\ T!Init /\ RestLru
  \/ part = "wtiny" /\ W!Init /\ RestLru
  \/ part = "lru" /\ L!Init /\ RestQueues
  \/ part = "segment" /\ S!Init /\ RestQueues

MCNext ==
  /\ UNCHANGED part
  /\ \/ part = "fifo" /\ F!Next /\ UNCHANGED <<lru, did>>
     \/ part = "2q" /\ Q!Next /\ UNCHANGED <<lru, did>>
     \/ part = "tiny" /\ T!Next /\ UNCHANGED <<lru, did>>
     \/ part = "wtiny" /\ W!Next /\ UNCHANGED <<lru, did>>
     \/ part = "lru" /\ L!Next /\ UNCHANGED <<mm, call>>
     \/ part = "segment" /\ S!Next /\ UNCHANGED <<mm, call>>

MCSpec == MCInit /\ [][MCNext]_mcVars

-----------------------------------------------------------------------------
(* Every queue strategy implements the contract of an eviction strategy    *)
(* (mm_* as the cache uses them), call by call: only unpinned, unvetoed    *)
(* items make room, del and pop leave a held item and force_del does not,  *)
(* the sweep takes the expired items nobody holds and flush all nobody     *)
(* holds, and none of these touches another item.  mm_tiny_lfu keeps it    *)
(* only without the predicate, which its window does not ask.              *)
Promise == INSTANCE EvictionContract
             WITH items <- Items(mm), pinned <- mm.pinned, expired <- mm.late,
                  vetoed <- IF part = "tiny" THEN {} ELSE mm.vetoed,
                  sizes <- mm.size, caps <- <<mm.maxSize, mm.maxMemory>>
ImplementsContract == Promise!Spec

(* The map, the list or the queues and the memory count agree; so do the   *)
(* tail segment of mm_lru with its insertion point and the ghost queue of  *)
(* mm_2q with its queues.                                                  *)
BooksAgree ==
  /\ Books /\ (part = "2q" => Q!GhostCoherent)
  /\ L!BooksBalance /\ L!TailSegment

(* A call that stores, enlarges or changes a capacity leaves the cache     *)
(* over it only when nothing could be evicted: every item is pinned, or    *)
(* one alone is too large (mm_lru); in mm_wtiny_lfu, when nothing but a    *)
(* protected item behind the Protection tail could.                        *)
WithinBudget ==
  [][/\ L!WithinBudget'
     /\ OverBudget =>
          \A k \in Evictable(mm') :
            mm'.size[k] > mm.size[k] \/ (part = "wtiny" /\ W!Sheltered(mm', k))]_mcVars

(* mm_lru evicts the oldest unpinned item, unless the one under its cursor *)
(* was promoted since; mm_fifo evicts in insertion order: what a call that *)
(* makes room evicts is older than every unpinned item it leaves.          *)
EvictionOrder ==
  [][/\ L!EvictsOldest'
     /\ part = "fifo" /\ Grows /\ mm.vetoed = {} =>
          \A a \in Items(mm) \ Items(mm') : \A b \in (Items(mm) \cap Items(mm')) \ mm.pinned :
            F!Older(mm, a, b)]_mcVars

(* mm_lru: no call takes away an item a caller has pinned, but force_del   *)
(* its own, and an insert is refused only when it admits nothing, when all *)
(* items are pinned, or when the cache already held more items than its    *)
(* cap.  mm_wtiny_lfu: a value just stored is there, and the promotions    *)
(* that inserts, reads and set_config run evict nothing.                   *)
ItemsStay ==
  /\ L!PinnedStays /\ L!RefusedOnlyWhenFull
  /\ [](part = "wtiny" => W!InsertedIsCached /\ W!PromotionEvictsNothing)

(* The segments keep their size: no assertion on the tail segment of       *)
(* mm_lru fails while it has an insertion point, and an insert into        *)
(* mm_tiny_lfu or mm_wtiny_lfu leaves the window within its share, unless  *)
(* its tail is pinned.                                                     *)
SegmentsHold ==
  /\ L!AssertsHold
  /\ [][~(Items(mm') \subseteq Items(mm)) =>
          ~(part = "tiny" /\ T!TinyOver(mm')) /\ ~(part = "wtiny" /\ W!TinyOver(mm'))]_mcVars
=============================================================================
