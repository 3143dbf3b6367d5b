------------------------------ MODULE MCReclaim ------------------------------
(***************************************************************************)
(* Model checking of deferred reclamation: epoch_domain, hazptr_domain and *)
(* the slot management of hazptr_domain.  A behaviour is a behaviour of    *)
(* one of them, chosen at the start; the other two rest.                   *)
(***************************************************************************)
EXTENDS EpochDomain, SequencesExt

CONSTANTS HReaders, HWriters, HNodes, HLinked, HModes, HBufCapacity, HThreshold,
          SThreads, SBatchSize, SMaxBatches, SCacheSize, SMaxRetries, SMaxHeld

VARIABLES part,
          hHead, hNxt, hVersion, hMode, hActive, hHp, hPtr, hNext, hCur, hStamp, hBad,
          hFresh, hClaimed, hBuf, hPending, hLedger, hReclaiming, hFreed, hPc, hStack, hReg,
          sBatches, sUsed, sNextFree, sHead, sCount, sCached, sHeld, sPc, sIdx, sLink,
          sFresh, sTries

H == INSTANCE HazptrDomain WITH
    Readers <- HReaders, Writers <- HWriters, Nodes <- HNodes, Chain <- SetToSeq(HLinked),
    Modes <- HModes, BufCapacity <- HBufCapacity, Threshold <- HThreshold,
    head <- hHead, nxt <- hNxt, version <- hVersion, mode <- hMode, active <- hActive,
    hp <- hHp, ptr <- hPtr, next <- hNext, cur <- hCur, stamp <- hStamp, bad <- hBad,
    fresh <- hFresh, claimed <- hClaimed, buf <- hBuf, pending <- hPending,
    ledger <- hLedger, reclaiming <- hReclaiming, freed <- hFreed, pc <- hPc,
    stack <- hStack, reg <- hReg

S == INSTANCE HazptrSlots WITH
    Threads <- SThreads, BatchSize <- SBatchSize, MaxBatches <- SMaxBatches,
    CacheSize <- SCacheSize, MaxRetries <- SMaxRetries, MaxHeld <- SMaxHeld,
    batches <- sBatches, used <- sUsed, nextFree <- sNextFree, head <- sHead,
    count <- sCount, cached <- sCached, held <- sHeld, pc <- sPc, idx <- sIdx,
    link <- sLink, fresh <- sFresh, tries <- sTries

hVars == <<hHead, hNxt, hVersion, hMode, hActive, hHp, hPtr, hNext, hCur, hStamp, hBad,
           hFresh, hClaimed, hBuf, hPending, hLedger, hReclaiming, hFreed, hPc, hStack, hReg>>
sVars == <<sBatches, sUsed, sNextFree, sHead, sCount, sCached, sHeld, sPc, sIdx, sLink,
           sFresh, sTries>>

(* A part that rests keeps one of its initial states.                      *)
MCInit ==
    /\ part \in {"epoch", "hazptr", "slots"}
    /\ Init /\ H!Init /\ S!Init
    /\ part # "epoch" => policy = "kFailAdvance" /\ location = CHOOSE o \in Objects : TRUE
    /\ part # "hazptr" => hMode = [r \in HReaders |-> "reload"]

MCNext ==
    \/ part = "epoch" /\ Next /\ UNCHANGED <<part, hVars, sVars>>
    \/ part = "hazptr" /\ H!Next /\ UNCHANGED <<part, vars, sVars>>
    \/ part = "slots" /\ S!Next /\ UNCHANGED <<part, vars, hVars>>

MCSpec == MCInit /\ [][MCNext]_<<part, vars, hVars, sVars>>

MCSymmetry == Permutations(Objects) \cup Permutations(SThreads)

(* Every object whose retired_ flag is set is in exactly one place: one    *)
(* thread's retire buffer, the pending list, one reclaimer's detached      *)
(* chain, or freed.  Nothing is freed twice, chained twice or dropped,     *)
(* however flushes, automatic and explicit passes overlap.                 *)
Detached(t) ==
    CASE pc[t] = "scan" -> reg[t].taken
      [] pc[t] = "free" -> reg[t].keep \o SubSeq(reg[t].taken, reg[t].pos, Len(reg[t].taken))
      [] pc[t] = "putback" -> reg[t].keep
      [] OTHER -> <<>>
Places(o) ==
    LET occurs(s) == Cardinality({i \in DOMAIN s : s[i] = o})
    IN occurs(pending) + (IF o \in freed THEN 1 ELSE 0)
       + MapThenSumSet(LAMBDA t : occurs(buf[t]) + occurs(Detached(t)), Threads)
RetiredExactlyOnce == \A o \in Objects : Places(o) = IF o \in claimed THEN 1 ELSE 0

(* pending_count() counts what is pending or detached by a pass that has   *)
(* not finished, so the backlog that triggers automatic reclamation never  *)
(* drifts (fix.01 P1-7).                                                   *)
LedgerExact ==
    ledger = Len(pending) + MapThenSumSet(
        LAMBDA t : IF pc[t] \in {"scan", "free", "putback"} THEN Len(reg[t].taken) ELSE 0,
        Threads)

(* The same of hazptr_domain, whose passes may be nested: the survivors of *)
(* one are pushed, which may start another, before it releases its own     *)
(* share of the ledger.                                                    *)
HDetached(t) ==
    CASE hPc[t] = "count" -> hReg[t].taken
      [] hPc[t] = "scan" -> hReg[t].keep
             \o SubSeq(hReg[t].taken, hReg[t].pos, Len(hReg[t].taken))
      [] hPc[t] = "putback" -> hReg[t].keep
      [] OTHER -> <<>>
HPlaces(n) ==
    LET occurs(s) == Cardinality({i \in DOMAIN s : s[i] = n})
    IN occurs(hPending) + (IF n \in hFreed THEN 1 ELSE 0)
       + MapThenSumSet(LAMBDA t : occurs(hBuf[t]) + occurs(HDetached(t)), HWriters)
HRetiredExactlyOnce == \A n \in HNodes : HPlaces(n) = IF n \in hClaimed THEN 1 ELSE 0
HLedgerExact ==
    hLedger = Len(hPending) + MapThenSumSet(
        LAMBDA t : MapThenSumSet(LAMBDA i : hReg[t].owed[i], DOMAIN hReg[t].owed)
                   + (IF hPc[t] \in {"count", "scan", "putback"} THEN Len(hReg[t].taken) ELSE 0),
        HWriters)

(* Every retired object is buffered, pending, detached or freed, and only  *)
(* once, pending_count() does not drift over nested passes, and no reader  *)
(* looks into freed memory, in both domains.  A hazard slot belongs to one *)
(* thread although the free list and the linear scan hand slots out        *)
(* independently, and active_slot_count_ is never below the number of      *)
(* slots in use, on which the fast path of try_reclaim() relies.           *)
BooksExact ==
    /\ TypeOK /\ RetiredExactlyOnce /\ LedgerExact /\ NoUseAfterFree
    /\ H!TypeOK /\ HRetiredExactlyOnce /\ HLedgerExact /\ H!NoUseAfterFree
    /\ S!TypeOK /\ S!SlotOwnedOnce /\ S!ActiveCoversHeld

(* hazptr_domain implements deferred reclamation: what a reader may look   *)
(* at is freed after the reader is done.                                   *)
HazptrReclaimsSafely == H!ImplementsSafeReclamation
=============================================================================
