------------------------------ MODULE TlsRing -------------------------------
(***************************************************************************)
(* tls_access_ring (tls_ring.hpp): every thread notes the keys it read in a *)
(* ring of its own, and the notes reach the cache as LRU promotions through *)
(* a shared backup buffer.  The owner writes and drains its ring without a  *)
(* lock; other threads ask for a drain by a flag and a count of the         *)
(* requests still open; a background pass empties the rings of threads that *)
(* look dormant, reading them while the owner may wake; a thread that exits *)
(* drains its ring and leaves the registry.                                 *)
(*                                                                          *)
(* An access is its serial number in the ring, so an entry of the buffer is *)
(* a number, and 0 is a slot that was moved from.  The heartbeat is noted   *)
(* every 64 accesses only, so any thread that ever recorded may look        *)
(* dormant at any time.  The capacity is fixed while a thread runs (it is   *)
(* cached in the ring at its first access); the threshold is that of the    *)
(* automatic drain, off when it is the capacity.                            *)
(***************************************************************************)
EXTENDS Integers, FiniteSets

CONSTANTS
  Owners,     \* the threads with a ring
  Configs,    \* the configurations: cap, threshold, policy, background pass or not,
              \* and which threads call drain_all_threads()
  MaxRecords  \* bound: accesses each thread records

VARIABLES
  config,     \* tls_ring_config and effective_capacity, and the background pass
  ring,       \* per owner: head_, tail_, buf_, needs_flush_, dropped count
  own,        \* per owner, the call in progress
  registry,   \* ring_registry_: the owners registered
  force,      \* force_flush_dormant_threads, in progress or not
  pending,    \* pending_drain_count_; a negative number is the counter wrapped
  backup,     \* backup_buffer: the accesses waiting in it
  delivered   \* the accesses handed to a cache, or thrown away by its flush

vars == <<config, ring, own, registry, force, pending, backup, delivered>>

Cap == config.cap
Accesses == UNION {{o} \X (1..MaxRecords[o]) : o \in Owners}

EmptyRing(cap) ==
  [head |-> 0, tail |-> 0, buf |-> [i \in 0..(cap - 1) |-> 0], flag |-> FALSE, dropped |-> 0]
Idle == [at |-> "idle", h |-> 0, t |-> 0, keys |-> {}, then |-> "idle", to |-> "backup",
         todo |-> {}]
NoPass == [at |-> "off", on |-> {}, todo |-> {}, h |-> 0, t |-> 0, keys |-> {}, out |-> {}]

Size(o) == ring[o].head - ring[o].tail
Entries(r, t, h) == {r.buf[n % Cap] : n \in t..(h - 1)} \ {0}
At(o, where) == own[o].at = where
Go(o, where) == own' = [own EXCEPT ![o].at = where]

(* The registry mutex is held for a whole pass over the registry.          *)
RegistryFree ==
  /\ force.at \in {"off", "push"}
  /\ \A o \in Owners : own[o].at \notin {"asking", "counting"}

(* instance(): the first use by a thread registers its ring.               *)
instance(o) == (o \in registry \/ RegistryFree) /\ registry' = registry \cup {o}

-----------------------------------------------------------------------------
(* A drain by the owner: where its keys go, and what the thread does next. *)
Drain(o, to, then) == own' = [own EXCEPT ![o].at = "drain", ![o].to = to, ![o].then = then]

record_access(o) ==
  /\ At(o, "idle") /\ ring[o].head < MaxRecords[o]
  /\ instance(o)
  /\ IF ring[o].flag
     THEN /\ ring' = [ring EXCEPT ![o].flag = FALSE]
          /\ Drain(o, "backup", "serviced")
     ELSE Go(o, "write") /\ UNCHANGED ring
  /\ UNCHANGED <<config, force, pending, backup, delivered>>

(* A request is answered: the flag is down and the ring drained (or, at    *)
(* the thread's exit, about to be).  The counter is looked at and then     *)
(* lowered; the request may not have been counted yet.                     *)
AfterAnswer(o) == IF own[o].then = "unregister" THEN "drain" ELSE "write"

Serviced(o) ==
  /\ At(o, "serviced")
  /\ Go(o, IF pending # 0 THEN "decrement" ELSE AfterAnswer(o))
  /\ UNCHANGED <<config, ring, registry, force, pending, backup, delivered>>

Decrement(o) ==
  /\ At(o, "decrement")
  /\ pending' = pending - 1
  /\ Go(o, AfterAnswer(o))
  /\ UNCHANGED <<config, ring, registry, force, backup, delivered>>

(* The slot is written before the head moves.                              *)
WriteSlot(o) ==
  /\ At(o, "write")
  /\ ring' = [ring EXCEPT ![o].buf[ring[o].head % Cap] = ring[o].head + 1]
  /\ Go(o, "publish")
  /\ UNCHANGED <<config, registry, force, pending, backup, delivered>>

Publish(o) ==
  /\ At(o, "publish")
  /\ ring' = [ring EXCEPT ![o].head = @ + 1]
  /\ Go(o, IF ring[o].head + 1 - ring[o].tail > Cap THEN "full" ELSE "threshold")
  /\ UNCHANGED <<config, registry, force, pending, backup, delivered>>

(* The ring overflowed: the oldest entry is given up and counted, at once  *)
(* or when the flush callback, which is the caller's, has not drained.     *)
DropOldest(o) ==
  /\ ring' = [ring EXCEPT ![o].dropped = @ + 1, ![o].tail = ring[o].head - Cap]
  /\ Go(o, "threshold")

apply_overflow_policy(o) ==
  /\ At(o, "full")
  /\ \/ /\ config.policy = "kFlushOnFull"
        /\ Drain(o, "result", "flushed") \/ Go(o, "flushed")
        /\ UNCHANGED ring
     \/ config.policy # "kFlushOnFull" /\ DropOldest(o)
  /\ UNCHANGED <<config, registry, force, pending, backup, delivered>>

CallbackDone(o) ==
  /\ At(o, "flushed")
  /\ IF Size(o) > Cap THEN DropOldest(o) ELSE Go(o, "threshold") /\ UNCHANGED ring
  /\ UNCHANGED <<config, registry, force, pending, backup, delivered>>

AutoDrain(o) ==
  /\ At(o, "threshold")
  /\ IF config.threshold < Cap /\ Size(o) >= config.threshold THEN Drain(o, "backup", "idle")
     ELSE Go(o, "idle")
  /\ UNCHANGED <<config, ring, registry, force, pending, backup, delivered>>

-----------------------------------------------------------------------------
(* drain(): the owner reads head and tail, moves the keys out, and then    *)
(* stores the tail; nothing tells it that the tail moved meanwhile.        *)
drain(o) ==
  /\ At(o, "drain")
  /\ IF Size(o) = 0
     THEN own' = [own EXCEPT ![o] = [Idle EXCEPT !.at = own[o].then]] /\ UNCHANGED ring
     ELSE /\ own' = [own EXCEPT ![o].at = "move", ![o].h = ring[o].head,
                                ![o].t = IF Size(o) > Cap THEN ring[o].head - Cap
                                         ELSE ring[o].tail]
          /\ ring' = [ring EXCEPT ![o].dropped =
                        IF Size(o) > Cap THEN @ + Size(o) - Cap ELSE @]
  /\ UNCHANGED <<config, registry, force, pending, backup, delivered>>

MoveKeys(o) ==
  /\ At(o, "move")
  /\ own' = [own EXCEPT ![o].at = "store", ![o].keys = Entries(ring[o], own[o].t, own[o].h)]
  /\ ring' = [ring EXCEPT ![o].buf =
                [i \in DOMAIN @ |-> IF i \in {n % Cap : n \in own[o].t..(own[o].h - 1)}
                                    THEN 0 ELSE @[i]]]
  /\ UNCHANGED <<config, registry, force, pending, backup, delivered>>

StoreTail(o) ==
  /\ At(o, "store")
  /\ ring' = [ring EXCEPT ![o].tail = own[o].h]
  /\ Go(o, "handover")
  /\ UNCHANGED <<config, registry, force, pending, backup, delivered>>

(* Mutant: the backup buffer is replaced, not added to.                    *)
push_to_backupReplaces(S) == backup' = S

push_to_backup(S) == backup' = backup \cup S

(* The drained keys go to the backup buffer, or to the caller.             *)
HandOver(o) ==
  LET keys == {o} \X own[o].keys IN
  /\ At(o, "handover")
  /\ IF own[o].to = "backup"
     THEN push_to_backup(keys) /\ UNCHANGED delivered
     ELSE delivered' = delivered \cup keys /\ UNCHANGED backup
  /\ own' = [own EXCEPT ![o] = [Idle EXCEPT !.at = own[o].then]]
  /\ UNCHANGED <<config, ring, registry, force, pending>>

-----------------------------------------------------------------------------
(* drain_all_threads(): the backup buffer is taken, the caller's ring is   *)
(* drained, and every other registered ring is asked to drain itself.      *)
(* drain_all_threads_sync is the same with the keys thrown away, and a     *)
(* wait for the count or for a deadline, which may always have come.       *)
drain_backup == backup' = {} /\ delivered' = delivered \cup backup

drain_all_threads(o) ==
  /\ At(o, "idle") /\ o \in config.askers
  /\ drain_backup
  /\ Drain(o, "result", "request")
  /\ instance(o)
  /\ UNCHANGED <<config, ring, force, pending>>

(* The requests, under the registry mutex: a flag is raised by a           *)
(* compare-and-swap and counted after that, when its owner may already     *)
(* have answered.                                                          *)
Ask(o, S) == own' = [own EXCEPT ![o] = IF S = {} THEN Idle
                                       ELSE [Idle EXCEPT !.at = "asking", !.todo = S]]

RequestFlush(o) ==
  /\ At(o, "request") /\ RegistryFree
  /\ Ask(o, registry \ {o})
  /\ UNCHANGED <<config, ring, registry, force, pending, backup, delivered>>

RaiseFlag(o, p) ==
  /\ At(o, "asking") /\ p \in own[o].todo
  /\ IF ring[p].flag THEN Ask(o, own[o].todo \ {p})
     ELSE own' = [own EXCEPT ![o].at = "counting", ![o].todo = @ \ {p}]
  /\ ring' = [ring EXCEPT ![p].flag = TRUE]
  /\ UNCHANGED <<config, registry, force, pending, backup, delivered>>

CountRequest(o) ==
  /\ At(o, "counting")
  /\ pending' = pending + 1
  /\ Ask(o, own[o].todo)
  /\ UNCHANGED <<config, ring, registry, force, backup, delivered>>

(* flush() of a cache forgets what the calling thread noted.               *)
reset(o) ==
  /\ At(o, "idle") /\ Size(o) > 0
  /\ delivered' = delivered \cup ({o} \X ((ring[o].tail + 1)..ring[o].head))
  /\ ring' = [ring EXCEPT ![o].tail = ring[o].head]
  /\ UNCHANGED <<config, own, registry, force, pending, backup>>

-----------------------------------------------------------------------------
(* Thread exit: an open request is answered, the ring is drained into the  *)
(* backup buffer, and the ring leaves the registry.                        *)
thread_exit(o) ==
  /\ At(o, "idle") /\ o \in registry
  /\ ring' = [ring EXCEPT ![o].flag = FALSE]
  /\ own' = [own EXCEPT ![o].at = IF ring[o].flag THEN "serviced" ELSE "drain",
                        ![o].then = "unregister"]
  /\ UNCHANGED <<config, registry, force, pending, backup, delivered>>

Unregister(o) ==
  /\ At(o, "unregister") /\ RegistryFree
  /\ registry' = registry \ {o}
  /\ Go(o, "gone")
  /\ UNCHANGED <<config, ring, force, pending, backup, delivered>>

-----------------------------------------------------------------------------
(* force_flush_dormant_threads(): one registered ring after another, under *)
(* the registry mutex: tail and head, a copy of the entries, tail and head *)
(* again, and a compare-and-swap of the tail.                              *)
force_flush_dormant_threads ==
  /\ config.background /\ force.at = "off" /\ \E o \in registry : Size(o) > 0
  /\ force' = [NoPass EXCEPT !.at = "next", !.todo = registry]
  /\ UNCHANGED <<config, ring, own, registry, pending, backup, delivered>>

(* A ring is passed over when its owner is not dormant, or it is empty.    *)
ForceRead(o) ==
  /\ force.at = "next" /\ o \in force.todo
  /\ force' = IF ring[o].head - ring[o].tail = 0 THEN [force EXCEPT !.todo = @ \ {o}]
              ELSE [force EXCEPT !.at = "copy", !.on = {o}, !.t = ring[o].tail, !.h = ring[o].head]
  /\ UNCHANGED <<config, ring, own, registry, pending, backup, delivered>>

(* A count beyond the capacity moves the first snapshot of the tail, and   *)
(* the comparison that follows then fails: such a ring is left alone.      *)
ForceCopy(o) ==
  LET from == IF force.h - force.t > Cap THEN force.h - Cap ELSE force.t IN
  /\ force.at = "copy" /\ o \in force.on
  /\ force' = [force EXCEPT !.at = "check", !.on = {o}, !.t = from,
                            !.keys = Entries(ring[o], from, force.h)]
  /\ UNCHANGED <<config, ring, own, registry, pending, backup, delivered>>

ForceCheck(o) ==
  /\ force.at = "check" /\ o \in force.on
  /\ force' = IF ring[o].head = force.h /\ ring[o].tail = force.t
              THEN [force EXCEPT !.at = "swap", !.on = {o}]
              ELSE [force EXCEPT !.at = "next", !.on = {}, !.todo = @ \ {o}, !.keys = {}]
  /\ UNCHANGED <<config, ring, own, registry, pending, backup, delivered>>

ForceSwap(o) ==
  /\ force.at = "swap" /\ o \in force.on
  /\ LET won == ring[o].tail = force.t IN
       /\ ring' = IF won THEN [ring EXCEPT ![o].tail = force.h] ELSE ring
       /\ force' = [force EXCEPT !.at = "next", !.on = {}, !.todo = @ \ {o}, !.keys = {},
                                 !.out = IF won THEN @ \cup ({o} \X force.keys) ELSE @]
  /\ UNCHANGED <<config, own, registry, pending, backup, delivered>>

ForceUnlock ==
  /\ force.at = "next" /\ force.todo = {}
  /\ force' = [force EXCEPT !.at = "push"]
  /\ UNCHANGED <<config, ring, own, registry, pending, backup, delivered>>

ForcePush ==
  /\ force.at = "push"
  /\ push_to_backup(force.out)
  /\ force' = NoPass
  /\ UNCHANGED <<config, ring, own, registry, pending, delivered>>

-----------------------------------------------------------------------------
Init ==
  /\ config \in Configs
  /\ ring = [o \in Owners |-> EmptyRing(Cap)]
  /\ own = [o \in Owners |-> Idle]
  /\ registry = {} /\ force = NoPass /\ pending = 0
  /\ backup = {} /\ delivered = {}

(* A call the owner is in goes on.                                         *)
Continue(o) ==
  \/ Serviced(o) \/ Decrement(o) \/ WriteSlot(o) \/ Publish(o)
  \/ apply_overflow_policy(o) \/ CallbackDone(o) \/ AutoDrain(o)
  \/ drain(o) \/ MoveKeys(o) \/ StoreTail(o) \/ HandOver(o)
  \/ RequestFlush(o) \/ (\E p \in Owners : RaiseFlag(o, p)) \/ CountRequest(o)
  \/ Unregister(o)

ForceStep(o) == ForceRead(o) \/ ForceCopy(o) \/ ForceCheck(o) \/ ForceSwap(o)
ForcePass == (\E o \in Owners : ForceStep(o)) \/ ForceUnlock \/ ForcePush

(* Every thread has exited.                                                *)
AllGone == (\A o \in Owners : At(o, "gone")) /\ force.at = "off" /\ UNCHANGED vars

Next ==
  \/ \E o \in Owners : \/ record_access(o) \/ drain_all_threads(o) \/ reset(o)
                       \/ thread_exit(o) \/ Continue(o)
  \/ force_flush_dormant_threads \/ ForcePass \/ AllGone

(* A thread inside a call runs on; the background pass runs again and      *)
(* again, as the event drain worker does.                                  *)
Fairness ==
  /\ \A o \in Owners : WF_vars(Continue(o))
  /\ WF_vars(ForcePass) /\ WF_vars(force_flush_dormant_threads)

Spec == Init /\ [][Next]_vars /\ Fairness

-----------------------------------------------------------------------------
TypeOK ==
  /\ registry \subseteq Owners /\ pending \in Int
  /\ backup \subseteq Accesses /\ delivered \subseteq Accesses
  /\ \A o \in Owners : ring[o].tail <= ring[o].head /\ ring[o].head <= MaxRecords[o]

(* The accesses recorded by o that are nowhere: not in its ring, not in a  *)
(* drain or a pass in progress, not handed over.                           *)
Lost(o) ==
  {n \in 1..ring[o].head : /\ n <= ring[o].tail
                           /\ n \notin own[o].keys
                           /\ <<o, n>> \notin backup \cup delivered \cup force.out}

(* No access disappears uncounted: what is in no ring, no drain in         *)
(* progress and was never handed over is covered by the dropped count,     *)
(* whichever of the owner's drains, the background pass and the exit of    *)
(* the thread meet.                                                        *)
NothingLost ==
  \A o \in Owners : Cardinality(Lost(o)) <= ring[o].dropped

(* pending_drain_count_ covers the requests: it is never less than the     *)
(* flags that are up and the threads that lowered theirs and are still     *)
(* draining, but for the requests whose flag is up and that are about to   *)
(* be counted.  (It may be more, for good: a request answered before it    *)
(* was counted is not counted off.)                                        *)
Answering(o) ==
  own[o].at \in {"serviced", "decrement"} \/ own[o].then = "serviced"
RequestsCounted ==
  Cardinality({o \in Owners : ring[o].flag}) + Cardinality({o \in Owners : Answering(o)})
    <= pending + Cardinality({o \in Owners : At(o, "counting")})

(* What threads noted before they fell silent (they made the last access   *)
(* of the bound, or exited) still leaves their rings: the background pass  *)
(* or the exit of the thread brings it to the backup buffer.               *)
Silent == \A o \in Owners : ring[o].head = MaxRecords[o] \/ At(o, "gone")
EveryAccessHandedOver == config.background => (Silent ~> \A o \in Owners : Size(o) = 0)

(* The background pass and the owner's drain hand an access over once.     *)
HandedOverOnce ==
  \A o \in Owners : \A n \in own[o].keys : <<o, n>> \notin backup \cup delivered \cup force.out
=============================================================================
