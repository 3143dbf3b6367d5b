------------------------------ MODULE MCMemory ------------------------------
(***************************************************************************)
(* Model checking of memory and of hot keys: items that handles pin, the   *)
(* slab allocator, the memory monitor with its guards, the frequency       *)
(* sketch, the top-k summary and the copies of hot keys.  A behaviour is a *)
(* behaviour of one of them; the others rest.                              *)
(***************************************************************************)
EXTENDS ItemPin, Sequences, Bags

CONSTANTS Threads, NoThread, NoKey, k1, k2, k3, k4, Guards

VARIABLES part,
          aShape, aList, aLink, aLive, aLeaked, aSlabs, aMutex, aCount, aOp,
          gMax, gCurrent, gReserved, gFlags, gGuard, gRing, gCalls, gHistory,
          fTable, fTotal, fWindow, fOp, fCalls, fSure,
          sCounters, sHeap, sTotal, sAdding, sSeen, sAdds,
          hCache, hRegistered, hWriter, hReaders, hOp, hCalls, hLeft, hMissed, hOverlapped

(* One class with two blocks in a slab; two nodes with a class each; and a *)
(* class of two slabs of one block.                                        *)
AShapes ==
  {[pools |-> {<<0, 0>>}, max_slabs |-> 1, items |-> 2, ops |-> 4, heap |-> 0],
   [pools |-> {<<0, 0>>, <<1, 1>>}, max_slabs |-> 1, items |-> 1, ops |-> 3, heap |-> 1],
   [pools |-> {<<0, 0>>}, max_slabs |-> 2, items |-> 1, ops |-> 3, heap |-> 0]}

A == INSTANCE SlabAllocator WITH
    Shapes <- AShapes, Large <- 9, TagMod <- 16, CountMod <- 8,
    shape <- aShape, list <- aList, link <- aLink, live <- aLive, leaked <- aLeaked,
    slabs <- aSlabs, mutex <- aMutex, count <- aCount, op <- aOp

G == INSTANCE MemoryMonitor WITH
    Delta <- 2, Throttle <- 80, Critical <- 95, Window <- 2, Samples <- {0, 3},
    MaxRate <- 1, kReserveAttempts <- 2, MaxCalls <- 3, Budgets <- {0, 5},
    max <- gMax, current <- gCurrent, reserved <- gReserved, flags <- gFlags, guard <- gGuard,
    ring <- gRing, calls <- gCalls, history <- gHistory

(* Two keys that share their cell in one of the two rows.                  *)
FIndex == [k \in {k1, k2} |-> IF k = k1 THEN <<1, 1>> ELSE <<1, 2>>]
F == INSTANCE FrequencySketch WITH
    Keys <- {k1, k2}, depth <- 2, Cells <- 2, index_for <- FIndex, CellMax <- 3,
    max_window <- 3, kMinWindowSize <- 1, MaxRecords <- 5,
    table <- fTable, total <- fTotal, window <- fWindow, op <- fOp, calls <- fCalls,
    sure <- fSure

S == INSTANCE SpaceSaving WITH
    Keys <- {k1, k2, k3, k4}, Counts <- {1, 2}, capacity <- 2, MaxAdds <- 5,
    counters <- sCounters, heap <- sHeap, total <- sTotal, adding <- sAdding, seen <- sSeen,
    adds <- sAdds

H == INSTANCE HotKeys WITH
    Values <- {1, 2}, NoValue <- 0, replica_factor <- 2, MaxCalls <- 4,
    cache <- hCache, registered <- hRegistered, writer <- hWriter, readers <- hReaders,
    op <- hOp, calls <- hCalls, left <- hLeft, missed <- hMissed, overlapped <- hOverlapped

aVars == <<aShape, aList, aLink, aLive, aLeaked, aSlabs, aMutex, aCount, aOp>>
gVars == <<gMax, gCurrent, gReserved, gFlags, gGuard, gRing, gCalls, gHistory>>
fVars == <<fTable, fTotal, fWindow, fOp, fCalls, fSure>>
sVars == <<sCounters, sHeap, sTotal, sAdding, sSeen, sAdds>>
hVars == <<hCache, hRegistered, hWriter, hReaders, hOp, hCalls, hLeft, hMissed, hOverlapped>>

(* The writers call every operation, or only those with a barrier.         *)
Parts == {"pins", "barriers", "slabs", "monitor", "sketch", "summary", "copies"}
Pinning == part \in {"pins", "barriers"}

(* A part that rests keeps one of its initial states.                      *)
MCInit ==
    /\ part \in Parts
    /\ Init /\ A!Init /\ G!Init /\ F!Init /\ S!Init /\ H!Init
    /\ witem = CHOOSE i \in Items : TRUE
    /\ hitem = [h \in Handles |-> witem]
    /\ part # "slabs" => aShape.max_slabs = 2
    /\ part # "monitor" => gMax > 0
    /\ part # "copies" => hCache[0] = 1

MCNext ==
    \/ /\ Pinning /\ Next /\ UNCHANGED <<part, aVars, gVars, fVars, sVars, hVars>>
       /\ part = "barriers" => wop' \in BarrierOps \cup {"none"}
    \/ part = "slabs" /\ A!Next /\ UNCHANGED <<part, vars, gVars, fVars, sVars, hVars>>
    \/ part = "monitor" /\ G!Next /\ UNCHANGED <<part, vars, aVars, fVars, sVars, hVars>>
    \/ part = "sketch" /\ F!Next /\ UNCHANGED <<part, vars, aVars, gVars, sVars, hVars>>
    \/ part = "summary" /\ S!Next /\ UNCHANGED <<part, vars, aVars, gVars, fVars, hVars>>
    \/ part = "copies" /\ H!Next /\ UNCHANGED <<part, vars, aVars, gVars, fVars, sVars>>

(* The fairness of ItemPin: handles are released, lock holders proceed,    *)
(* and the cache keeps being used.                                         *)
MCSpec ==
    /\ MCInit /\ [][MCNext]_<<part, vars, aVars, gVars, fVars, sVars, hVars>>
    /\ \A h \in Handles : WF_vars(Release(h))
    /\ WF_vars(WriterStep)
    /\ WF_vars(Pinning /\ \E o \in WriterOps : Start(o))

(* All variables keep their types.                                         *)
MCTypeOK == TypeOK /\ A!TypeOK /\ G!TypeOK /\ F!TypeOK /\ S!TypeOK /\ H!TypeOK

(* A handle keeps its item: the inductive invariant of ItemPin and what it *)
(* is for, for the operations with a barrier; and no operation hands an    *)
(* item to the reclaimer twice.                                            *)
PinsHold == RetireOnce /\ (part = "barriers" => PinInvariant /\ PinnedIsLive)

(* A block of the slab allocator is in one place, on the free list of its  *)
(* pool, with a caller or on its way between the two, and the counters     *)
(* agree with the blocks up to calls that have not yet counted theirs.     *)
SlabsConserved == MCTypeOK /\ A!BlocksConserved /\ A!CountersExact

(* Reserved bytes belong to guards that will commit or return them, and    *)
(* the growth rate compares the ends of the last window of gauges.         *)
MonitorExact == G!ReservationsExact /\ G!RateOfWindow

(* The sketch never forgets an access that no halving overlapped, a full   *)
(* window is claimed by one of the accesses that filled it, and the top-k  *)
(* summary keeps its error bounds.                                         *)
FrequenciesBounded == F!EstimateCovers /\ F!WindowClaimed /\ S!SummaryBounds

(* No copy outlives the registration of its key, except one that a handle  *)
(* or an exception left behind, and all copies that took the last write    *)
(* agree when no write is under way and no two writes overlapped.          *)
CopiesFollow == H!NoOrphans /\ H!CopiesAgree
=============================================================================
