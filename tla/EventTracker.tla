---------------------------- MODULE EventTracker ----------------------------
(***************************************************************************)
(* event_tracker (event_tracker.hpp) over tls_event_ring (tls_ring.hpp):    *)
(* threads record events in rings of their own, dropping the oldest when a  *)
(* ring is full; the owner drains its ring, the drain worker of the cache   *)
(* drains every registered ring while the owners record, and a thread that  *)
(* exits leaves what it recorded in the backup buffer.  A batch that was    *)
(* drained goes through process_events: the position in the log is claimed, *)
(* the callback and the hot keys see the batch.                             *)
(*                                                                          *)
(* An event is its serial number in the ring of its thread; the key, the    *)
(* type and the time it carries do not decide anything here.  The log keeps *)
(* the position only: its slots are overwritten in a circle.                *)
(***************************************************************************)
EXTENDS Naturals, FiniteSets

CONSTANTS
  Owners,      \* the threads that record
  RingSize,    \* kRingSize
  LogSize,     \* max_events
  MaxEvents    \* bound: events a thread records

VARIABLES
  ring,      \* per owner: head, tail, entries
  own,       \* per owner, the call in progress
  registry,  \* thread_ring_registry_
  worker,    \* drain_all_threads, in progress or not
  backup,    \* backup_buffer of this tracker
  tracker    \* enabled_, overwrite_on_full, write_pos_, what was processed, what was refused

vars == <<ring, own, registry, worker, backup, tracker>>

Events == Owners \X (1..MaxEvents)
EmptyRing == [head |-> 0, tail |-> 0, entries |-> [i \in 0..(RingSize - 1) |-> 0]]
Idle == [at |-> "idle", batch |-> {}]
Off == [at |-> "off", todo |-> {}, on |-> {}, h |-> 0, t |-> 0, batch |-> {}]

At(o, where) == own[o].at = where
Entries(o, t, h) == {o} \X {ring[o].entries[n % RingSize] : n \in t..(h - 1)}

(* A count beyond the size of the ring: the oldest entries are gone.       *)
Clamp(t, h) == IF h - t > RingSize THEN h - RingSize ELSE t

-----------------------------------------------------------------------------
(* record(): a full ring gives up its oldest entry, the slot is written,   *)
(* and the head moves last.                                                *)
record(o) ==
  /\ At(o, "idle") /\ tracker.enabled /\ ring[o].head < MaxEvents
  /\ registry' = registry \cup {o}
  /\ ring' = [ring EXCEPT ![o].entries[ring[o].head % RingSize] = ring[o].head + 1,
                          ![o].tail = IF ring[o].head - @ >= RingSize
                                      THEN ring[o].head - RingSize + 1 ELSE @]
  /\ own' = [own EXCEPT ![o].at = "publish"]
  /\ UNCHANGED <<worker, backup, tracker>>

Publish(o) ==
  /\ At(o, "publish")
  /\ ring' = [ring EXCEPT ![o].head = @ + 1]
  /\ own' = [own EXCEPT ![o].at = "idle"]
  /\ UNCHANGED <<registry, worker, backup, tracker>>

(* steal(): the owner marks everything consumed and reads it afterwards,   *)
(* before it records again.                                                *)
steal(o) ==
  /\ ring' = [ring EXCEPT ![o].tail = ring[o].head]
  /\ own' = [own EXCEPT ![o] = [at |-> "process",
                                batch |-> Entries(o, Clamp(ring[o].tail, ring[o].head),
                                                  ring[o].head)]]

drain_tls(o) ==
  /\ At(o, "idle") /\ ring[o].head # ring[o].tail
  /\ steal(o)
  /\ UNCHANGED <<registry, worker, backup, tracker>>

(* process_events(): with overwrite_on_full off, a batch that finds the    *)
(* log full is refused; another batch may claim the last slots between the *)
(* check and the claim.                                                    *)
process_events(batch, full) ==
  tracker' = IF full THEN [tracker EXCEPT !.refused = @ \cup batch]
             ELSE [tracker EXCEPT !.pos = @ + Cardinality(batch), !.seen = @ \cup batch]

LogFull == ~tracker.overwrite /\ tracker.pos >= LogSize

OwnerProcess(o) ==
  /\ At(o, "process")
  /\ process_events(own[o].batch, LogFull)
  /\ own' = [own EXCEPT ![o] = Idle]
  /\ UNCHANGED <<ring, registry, worker, backup>>

-----------------------------------------------------------------------------
(* drain_all_threads() on the drain worker: the backup buffer, then the    *)
(* rings registered at that time, one after another, without their owners. *)
(* Mutant: what threads left at their exit is not fetched.                 *)
drain_all_threadsForgets ==
  /\ worker.at = "off" /\ (backup # {} \/ \E o \in registry : ring[o].head # ring[o].tail)
  /\ worker' = [Off EXCEPT !.at = "next", !.todo = registry]
  /\ UNCHANGED <<ring, own, registry, backup, tracker>>

drain_all_threads ==
  /\ worker.at = "off" /\ (backup # {} \/ \E o \in registry : ring[o].head # ring[o].tail)
  /\ worker' = [Off EXCEPT !.at = "next", !.batch = backup, !.todo = registry]
  /\ backup' = {}
  /\ UNCHANGED <<ring, own, registry, tracker>>

WorkerRead(o) ==
  /\ worker.at = "next" /\ o \in worker.todo
  /\ worker' = IF ring[o].head = ring[o].tail THEN [worker EXCEPT !.todo = @ \ {o}]
               ELSE [worker EXCEPT !.at = "copy", !.on = {o}, !.h = ring[o].head,
                                   !.t = Clamp(ring[o].tail, ring[o].head)]
  /\ UNCHANGED <<ring, own, registry, backup, tracker>>

WorkerCopy(o) ==
  /\ worker.at = "copy" /\ o \in worker.on
  /\ worker' = [worker EXCEPT !.at = "store", !.batch = @ \cup Entries(o, worker.t, worker.h)]
  /\ UNCHANGED <<ring, own, registry, backup, tracker>>

WorkerStore(o) ==
  /\ worker.at = "store" /\ o \in worker.on
  /\ ring' = [ring EXCEPT ![o].tail = worker.h]
  /\ worker' = [worker EXCEPT !.at = "next", !.on = {}, !.todo = @ \ {o}]
  /\ UNCHANGED <<own, registry, backup, tracker>>

WorkerProcess ==
  /\ worker.at = "next" /\ worker.todo = {}
  /\ process_events(worker.batch, worker.batch # {} /\ LogFull)
  /\ worker' = Off
  /\ UNCHANGED <<ring, own, registry, backup>>

-----------------------------------------------------------------------------
(* Thread exit: the ring leaves the registry first, then its entries go to *)
(* the backup buffer; a worker that took the ring before may still hold it. *)
thread_exit(o) ==
  /\ At(o, "idle") /\ o \in registry
  /\ registry' = registry \ {o}
  /\ own' = [own EXCEPT ![o].at = "exit"]
  /\ UNCHANGED <<ring, worker, backup, tracker>>

ExitFlush(o) ==
  /\ At(o, "exit")
  /\ backup' = backup \cup Entries(o, Clamp(ring[o].tail, ring[o].head), ring[o].head)
  /\ ring' = [ring EXCEPT ![o].tail = ring[o].head]
  /\ own' = [own EXCEPT ![o].at = "gone"]
  /\ UNCHANGED <<registry, worker, tracker>>

(* disable() and enable().                                                 *)
set_enabled(b) ==
  /\ tracker.enabled # b
  /\ tracker' = [tracker EXCEPT !.enabled = b]
  /\ UNCHANGED <<ring, own, registry, worker, backup>>

(* reset(): the caller's ring is drained first, then the log starts over.  *)
reset(o) ==
  /\ At(o, "idle") /\ ring[o].head = ring[o].tail /\ tracker.pos > 0
  /\ tracker' = [tracker EXCEPT !.pos = 0]
  /\ UNCHANGED <<ring, own, registry, worker, backup>>

-----------------------------------------------------------------------------
Init ==
  /\ ring = [o \in Owners |-> EmptyRing] /\ own = [o \in Owners |-> Idle]
  /\ registry = {} /\ worker = Off /\ backup = {}
  /\ \E b \in BOOLEAN : tracker = [enabled |-> TRUE, overwrite |-> b, pos |-> 0, seen |-> {},
                                   refused |-> {}]

Continue(o) == Publish(o) \/ OwnerProcess(o) \/ ExitFlush(o)
WorkerStep(o) == WorkerRead(o) \/ WorkerCopy(o) \/ WorkerStore(o)
WorkerPass == (\E o \in Owners : WorkerStep(o)) \/ WorkerProcess

(* Nothing is left to do: every thread exited, and the worker found all.   *)
Quiet == (\A o \in Owners : At(o, "gone")) /\ worker.at = "off" /\ UNCHANGED vars

Next ==
  \/ \E o \in Owners : \/ record(o) \/ drain_tls(o) \/ thread_exit(o) \/ reset(o)
                       \/ Continue(o)
  \/ \E b \in BOOLEAN : set_enabled(b)
  \/ drain_all_threads \/ WorkerPass \/ Quiet

(* A thread inside a call runs on, and the drain worker comes again.       *)
Fairness ==
  /\ \A o \in Owners : WF_vars(Continue(o))
  /\ WF_vars(drain_all_threads) /\ WF_vars(WorkerPass)

Spec == Init /\ [][Next]_vars /\ Fairness

-----------------------------------------------------------------------------
TypeOK ==
  /\ registry \subseteq Owners /\ backup \subseteq Events
  /\ tracker.seen \subseteq Events /\ tracker.refused \subseteq Events
  /\ \A o \in Owners : ring[o].head \in 0..MaxEvents /\ ring[o].tail \in 0..MaxEvents

Handed == backup \cup worker.batch \cup tracker.seen \cup tracker.refused

(* An event recorded is still in its ring, on its way, or processed; it    *)
(* disappears only under a whole ring of newer events of its thread, never *)
(* between a drain, a recording and an exit.                               *)
EventsAccounted ==
  \A o \in Owners : \A n \in 1..ring[o].head :
    \/ n > ring[o].tail \/ <<o, n>> \in Handed \cup own[o].batch
    \/ ring[o].entries[(n - 1) % RingSize] # n

(* What threads recorded before they fell silent (they recorded the last   *)
(* event of the bound, or exited) is processed in the end, unless it was   *)
(* overwritten.                                                            *)
Silent == \A o \in Owners : ring[o].head = MaxEvents \/ At(o, "gone")
EveryEventProcessed ==
  Silent ~> \A o \in Owners : \A n \in 1..ring[o].head :
              \/ <<o, n>> \in tracker.seen \cup tracker.refused
              \/ ring[o].entries[(n - 1) % RingSize] # n
=============================================================================
