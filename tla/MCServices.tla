----------------------------- MODULE MCServices -----------------------------
(***************************************************************************)
(* Model checking of what runs around the stored items: get_or_fetch and   *)
(* its flights, the rings of deferred promotions, the event tracker, and   *)
(* the life of the cache with its background workers.  A behaviour is a    *)
(* behaviour of one of them, chosen at the start; the others rest.         *)
(***************************************************************************)
EXTENDS Fetch, Sequences, TLC

CONSTANTS o1, o2, ROwners, EOwners, ERingSize, ELogSize, EMaxEvents, LUsers

VARIABLES part,
          rConfig, rRing, rOwn, rRegistry, rForce, rPending, rBackup, rDelivered,
          eRing, eOwn, eRegistry, eWorker, eBackup, eTracker,
          lCache, lActive, lUser, lWorker, lControl

(* The default: automatic drains at half the ring, and the background pass *)
(* of the drain worker, beside a thread that asks for drains.  Without the *)
(* automatic drain a ring fills up.                                        *)
RConfigs ==
  {[cap |-> 4, threshold |-> 2, policy |-> "kSilentDrop", background |-> TRUE,
    askers |-> {o2}]}
    \cup [cap : {1}, threshold : {1}, policy : {"kSilentDrop", "kFlushOnFull"},
          background : {FALSE}, askers : {ROwners}]
RMaxRecords == [o \in ROwners |-> IF o = o1 THEN 2 ELSE 0]

R == INSTANCE TlsRing WITH
    Owners <- ROwners, Configs <- RConfigs, MaxRecords <- RMaxRecords, config <- rConfig,
    ring <- rRing, own <- rOwn, registry <- rRegistry, force <- rForce, pending <- rPending,
    backup <- rBackup, delivered <- rDelivered

E == INSTANCE EventTracker WITH
    Owners <- EOwners, RingSize <- ERingSize, LogSize <- ELogSize, MaxEvents <- EMaxEvents,
    ring <- eRing, own <- eOwn, registry <- eRegistry, worker <- eWorker, backup <- eBackup,
    tracker <- eTracker

L == INSTANCE Lifecycle WITH
    Users <- LUsers, cache <- lCache, active <- lActive,
    user <- lUser, worker <- lWorker, control <- lControl

rVars == <<rConfig, rRing, rOwn, rRegistry, rForce, rPending, rBackup, rDelivered>>
eVars == <<eRing, eOwn, eRegistry, eWorker, eBackup, eTracker>>
lVars == <<lCache, lActive, lUser, lWorker, lControl>>

(* A part that rests keeps one of its initial states.                      *)
MCInit ==
    /\ part \in {"fetch", "ring", "events", "life"}
    /\ Init /\ R!Init /\ E!Init /\ L!Init
    /\ part # "ring" => rConfig.background
    /\ part # "events" => eTracker.overwrite

MCNext ==
    \/ part = "fetch" /\ Next /\ UNCHANGED <<part, rVars, eVars, lVars>>
    \/ part = "ring" /\ R!Next /\ UNCHANGED <<part, vars, eVars, lVars>>
    \/ part = "events" /\ E!Next /\ UNCHANGED <<part, vars, rVars, lVars>>
    \/ part = "life" /\ L!Next /\ UNCHANGED <<part, vars, rVars, eVars>>

(* At rest no call is in progress, so the fairness of a part that rests    *)
(* asks for nothing.                                                       *)
MCSpec ==
    /\ MCInit /\ [][MCNext]_<<part, vars, rVars, eVars, lVars>>
    /\ Fairness /\ R!Fairness /\ E!Fairness /\ L!Fairness

(* No access that a thread noted for promotion and no event it recorded    *)
(* disappears uncounted between the drains of its owner, the background    *)
(* pass and its exit, and the count of drain requests covers the open ones *)
(* that are not just being counted.  All variables keep their types.       *)
NothingDropped ==
    /\ TypeOK /\ R!TypeOK /\ E!TypeOK /\ L!TypeOK
    /\ R!NothingLost /\ R!RequestsCounted /\ E!EventsAccounted

(* No background worker runs on a cache that is gone.                      *)
NoWorkerOutlivesCache == L!NoWorkerOutlivesCache

(* What a thread noted or recorded before it fell silent or exited is      *)
(* handed over in the end.                                                 *)
NothingStaysBehind == R!EveryAccessHandedOver /\ E!EveryEventProcessed

(* Every fetch returns, though providers fail and the cache closes, and so *)
(* do stop(), shutdown() and the destructor of a cache.                    *)
CallsComeBack == EveryFetchReturns /\ L!ControlReturns
=============================================================================
