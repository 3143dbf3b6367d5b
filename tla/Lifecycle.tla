----------------------------- MODULE Lifecycle ------------------------------
(***************************************************************************)
(* The life of a unified_cache (cache_trait.hpp): periodic_worker threads  *)
(* (detail/foundation.hpp) for TTL cleaning, event drain and reclamation,  *)
(* read_handles taken and released by other threads (core.hpp), shutdown,  *)
(* shutdown_and_wait, quiesce and resume, and the destructor.              *)
(*                                                                         *)
(* Control is the thread that starts, stops and destroys; Users read and   *)
(* hold handles, and make no call once the destructor has begun, but a     *)
(* handle may be released at any time.  A timed wait may time out whenever *)
(* its condition is false.  A worker's task is one step that needs the     *)
(* cache.  The drain workers are started and stopped under their mutex by  *)
(* Control; stop() joins the worker before its object goes.                *)
(***************************************************************************)
EXTENDS Naturals, FiniteSets, Sequences

CONSTANTS Users  \* the threads that take handles

VARIABLES
  cache,    \* closed_, quiesced_, cache_alive, and whether its memory is gone
  active,   \* active_handle_count
  user,     \* per user, the call in progress
  worker,   \* per worker: running_ and where its thread is
  control   \* the call of the control thread: where, the workers to stop, the caller

vars == <<cache, active, user, worker, control>>

Workers == {"ttl_cleaner", "event_drain"}
StopOrder == <<"ttl_cleaner", "event_drain">>
NoWorker == [running |-> FALSE, at |-> "none"]
Resting == [at |-> "idle", todo |-> <<>>, call |-> "none"]

-----------------------------------------------------------------------------
(* A reader: refused once the cache is closed, otherwise it pins the item  *)
(* and is counted.                                                         *)
get(u) ==
  /\ user[u] = "idle" /\ control.call # "dtor"
  /\ user' = [user EXCEPT ![u] = IF cache.closed THEN "idle" ELSE "checked"]
  /\ UNCHANGED <<cache, active, worker, control>>

GetHandle(u) ==
  /\ user[u] = "checked"
  /\ user' = [user EXCEPT ![u] = "holding"]
  /\ active' = active + 1
  /\ UNCHANGED <<cache, worker, control>>

(* release(): the pin goes first; a handle that outlived its cache stops   *)
(* here, any other leaves the count of the cache and then looks at it      *)
(* again to wake the one who waits for the last handle.                    *)
release(u) ==
  /\ user[u] = "holding"
  /\ user' = [user EXCEPT ![u] = IF cache.alive THEN "counted" ELSE "idle"]
  /\ UNCHANGED <<cache, active, worker, control>>

Uncount(u) ==
  /\ user[u] = "counted"
  /\ active' = active - 1
  /\ user' = [user EXCEPT ![u] = IF cache.signal THEN "last" ELSE "idle"]
  /\ UNCHANGED <<cache, worker, control>>

NotifyLast(u) ==
  /\ user[u] = "last"
  /\ user' = [user EXCEPT ![u] = "idle"]
  /\ UNCHANGED <<cache, active, worker, control>>

-----------------------------------------------------------------------------
(* periodic_worker::run(): running_ is looked at with the mutex held, the  *)
(* thread parks until a notification or its deadline, and the task runs    *)
(* without the mutex.  stop() sets running_ and notifies without it, so a  *)
(* worker between the look and the park sleeps to its deadline.            *)
Check(w) ==
  /\ worker[w].at = "check"
  /\ worker' = [worker EXCEPT ![w].at = IF worker[w].running THEN "park" ELSE "done"]
  /\ UNCHANGED <<cache, active, user, control>>

Park(w) ==
  /\ worker[w].at = "park"
  /\ worker' = [worker EXCEPT ![w].at = "parked"]
  /\ UNCHANGED <<cache, active, user, control>>

(* The deadline passes; a stop that came meanwhile ends the thread.        *)
Deadline(w) ==
  /\ worker[w].at = "parked"
  /\ worker' = [worker EXCEPT ![w].at = IF worker[w].running THEN "task" ELSE "done"]
  /\ UNCHANGED <<cache, active, user, control>>

Task(w) ==
  /\ worker[w].at = "task"
  /\ worker' = [worker EXCEPT ![w].at = "check"]
  /\ UNCHANGED <<cache, active, user, control>>

run(w) == Check(w) \/ Park(w) \/ Deadline(w) \/ Task(w)

(* Nothing asks whether the cache is closed.  A second start of the TTL    *)
(* cleaner throws, one of the drain workers returns.  The two workers of   *)
(* the event drain are started and stopped together, and are one here.     *)
periodic_worker(w) ==
  /\ control.at = "idle" /\ worker[w].at = "none" /\ ~cache.gone
  /\ worker' = [worker EXCEPT ![w] = [running |-> TRUE, at |-> "check"]]
  /\ UNCHANGED <<cache, active, user, control>>

start_ttl_cleaner == periodic_worker("ttl_cleaner")
start_event_drain == periodic_worker("event_drain")

-----------------------------------------------------------------------------
(* Stopping: running_ goes down and a parked worker wakes; the thread is   *)
(* joined; the object goes.                                                *)
StopOne(w) ==
  /\ control.at = "stop" /\ control.todo # <<>> /\ w = Head(control.todo)
  /\ IF worker[w].at = "none"
     THEN control' = [control EXCEPT !.todo = Tail(@)] /\ UNCHANGED worker
     ELSE /\ worker' = [worker EXCEPT ![w] =
                          [running |-> FALSE,
                           at |-> IF @.at = "parked" THEN "done" ELSE @.at]]
          /\ control' = [control EXCEPT !.at = "join"]
  /\ UNCHANGED <<cache, active, user>>

(* Mutant: the worker object goes without waiting for its thread.          *)
JoinDetached(w) ==
  /\ control.at = "join" /\ w = Head(control.todo)
  /\ control' = [control EXCEPT !.at = "stop", !.todo = Tail(@)]
  /\ UNCHANGED <<cache, active, user, worker>>

Join(w) ==
  /\ control.at = "join" /\ w = Head(control.todo)
  /\ worker[w].at = "done"
  /\ worker' = [worker EXCEPT ![w] = NoWorker]
  /\ control' = [control EXCEPT !.at = "stop", !.todo = Tail(@)]
  /\ UNCHANGED <<cache, active, user>>

stop(w) ==
  /\ control.at = "idle" /\ worker[w].at # "none"
  /\ control' = [at |-> "stop", todo |-> <<w>>, call |-> "stop"]
  /\ UNCHANGED <<cache, active, user, worker>>

stop_ttl_cleaner == stop("ttl_cleaner")
stop_event_drain == stop("event_drain")

(* shutdown(): closed once; the second call returns at once.               *)
Shutdown(call) ==
  /\ cache' = [cache EXCEPT !.closed = TRUE, !.signal = TRUE]
  /\ control' = [at |-> "stop", todo |-> IF cache.closed THEN <<>> ELSE StopOrder,
                 call |-> call]
  /\ UNCHANGED <<active, user, worker>>

shutdown == control.at = "idle" /\ ~cache.closed /\ Shutdown("shutdown")
shutdown_and_wait == control.at = "idle" /\ ~cache.gone /\ Shutdown("wait")

(* Everything is stopped: the call goes on as its kind asks.               *)
Stopped ==
  /\ control.at = "stop" /\ control.todo = <<>>
  /\ control' = IF control.call \in {"wait", "dtor"} THEN [control EXCEPT !.at = "drain"]
                ELSE IF control.call = "again" THEN [control EXCEPT !.at = "destroy"]
                ELSE Resting
  /\ UNCHANGED <<cache, active, user, worker>>

quiesce ==
  /\ control.at = "idle" /\ ~cache.gone /\ ~cache.quiesced
  /\ cache' = [cache EXCEPT !.quiesced = TRUE]
  /\ control' = [Resting EXCEPT !.at = "drain", !.call = "quiesce"]
  /\ UNCHANGED <<active, user, worker>>

resume ==
  /\ control.at = "idle" /\ cache.quiesced
  /\ cache' = [cache EXCEPT !.quiesced = FALSE]
  /\ UNCHANGED <<active, user, worker, control>>

(* wait_for_handles_to_drain: it polls the count, and ends when the count  *)
(* is zero or the time is over; quiesce takes its flag back on a timeout.  *)
wait_for_handles_to_drain ==
  /\ control.at = "drain"
  /\ control' = IF control.call = "dtor"
                THEN [at |-> "stop", todo |-> StopOrder, call |-> "again"]
                ELSE [Resting EXCEPT !.call = IF active = 0 THEN "drained" ELSE "timeout"]
  /\ cache' = [cache EXCEPT !.quiesced = @ /\ (control.call # "quiesce" \/ active = 0)]
  /\ UNCHANGED <<active, user, worker>>

-----------------------------------------------------------------------------
(* The destructor: cache_alive goes down, shutdown, a bounded wait for the *)
(* handles, the workers that were started again are stopped, and the       *)
(* members go.                                                             *)
destructor ==
  /\ control.at = "idle" /\ ~cache.gone
  /\ \A u \in Users : user[u] # "checked"
  /\ cache' = [cache EXCEPT !.alive = FALSE, !.closed = TRUE, !.signal = TRUE]
  /\ control' = [at |-> "stop", todo |-> IF cache.closed THEN <<>> ELSE StopOrder,
                 call |-> "dtor"]
  /\ UNCHANGED <<active, user, worker>>

Destroy ==
  /\ control.at = "destroy"
  /\ cache' = [cache EXCEPT !.gone = TRUE]
  /\ control' = [Resting EXCEPT !.call = "dtor"]
  /\ UNCHANGED <<active, user, worker>>

-----------------------------------------------------------------------------
Init ==
  /\ cache = [closed |-> FALSE, quiesced |-> FALSE, signal |-> FALSE, alive |-> TRUE,
              gone |-> FALSE]
  /\ active = 0
  /\ user = [u \in Users |-> "idle"]
  /\ worker = [w \in Workers |-> NoWorker]
  /\ control = Resting

UserStep(u) == GetHandle(u) \/ release(u) \/ Uncount(u) \/ NotifyLast(u)
ControlStep ==
  (\E w \in Workers : StopOne(w) \/ Join(w)) \/ Stopped \/ wait_for_handles_to_drain \/ Destroy

Rest == cache.gone /\ (\A u \in Users : user[u] = "idle") /\ UNCHANGED vars

Next ==
  \/ \E u \in Users : get(u) \/ UserStep(u)
  \/ \E w \in Workers : run(w)
  \/ start_ttl_cleaner \/ start_event_drain \/ stop_ttl_cleaner \/ stop_event_drain
  \/ shutdown \/ shutdown_and_wait \/ quiesce \/ resume \/ destructor \/ ControlStep \/ Rest

(* Threads inside a call run on, timed waits end, a parked worker's        *)
(* deadline comes.                                                         *)
Fairness ==
  /\ \A u \in Users : WF_vars(UserStep(u))
  /\ \A w \in Workers : WF_vars(run(w))
  /\ WF_vars(ControlStep)

Spec == Init /\ [][Next]_vars /\ Fairness

-----------------------------------------------------------------------------
TypeOK ==
  /\ active \in 0..Cardinality(Users)
  /\ user \in [Users -> {"idle", "checked", "holding", "counted", "last"}]
  /\ \A w \in Workers : worker[w].at \in {"none", "check", "park", "parked", "task", "done"}
  /\ control.at \in {"idle", "stop", "join", "drain", "destroy"}

(* No task of a background worker runs on a cache that is gone, and no     *)
(* worker object goes before its thread: also when a worker was started    *)
(* again after shutdown().                                                 *)
NoWorkerOutlivesCache ==
  cache.gone => \A w \in Workers : worker[w].at = "none"

(* stop(), shutdown() and the destructor come back, though the wake-up of  *)
(* a worker may be lost and handles may stay: every wait is bounded.       *)
ControlReturns == control.at # "idle" ~> control.at = "idle"

(* The count of handles is exact when no thread is inside a call: then the *)
(* waits for the last handle, the one of the destructor included, end when *)
(* the last handle is released.                                            *)
HandlesCounted == (\A u \in Users : user[u] = "idle") => active = 0

(* "After this returns true, it is safe to destroy the cache": no thread   *)
(* is still inside the cache's memory when it goes.                        *)
SafeToDestroy == cache.gone => \A u \in Users : user[u] # "last"
=============================================================================
