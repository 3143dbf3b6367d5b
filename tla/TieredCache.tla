---------------------------- MODULE TieredCache -----------------------------
(***************************************************************************)
(* tiered_cache and backend_circuit_breaker (tiered_storage.hpp): a cache   *)
(* in front of a storage backend.  Readers that miss fetch a key once and   *)
(* promote it, behind a circuit breaker; set and del write through to the   *)
(* backend; what the primary cache evicts is queued, and a worker writes it *)
(* back, unless a later set or del has claimed the key.                     *)
(*                                                                          *)
(* A value is the number of the mutation that wrote it, 0 is no value.  The *)
(* primary cache evicts when it likes.  A striped cache runs the eviction   *)
(* callback under its shard lock; any other runs it after the unlock, when  *)
(* a set or del of the key may have come in between.  The backend may fail  *)
(* on a read and on a write.  The wait of a claim is its condition, so that it may    *)
(* also end by a spurious wake-up.                                          *)
(***************************************************************************)
EXTENDS Naturals, Sequences, FiniteSets

CONSTANTS
  Readers, NoReader, Keys,
  Configs,            \* read_through, write_back_on_evict, the capacity of the queue
                      \* (0: none), whether the primary is striped, and the keys used
  error_threshold, success_threshold,
  MaxWrites, MaxGen   \* bounds: mutations, write-backs queued

VARIABLES
  config,    \* tiered_cache::config
  primary,   \* the primary cache: per key the value
  backend,   \* the backend: per key the value
  inflight,  \* inflight_maps_: per key the reader that fetches it
  get,       \* per reader, the call in progress
  breaker,   \* the circuit breaker, and whether the cooldown is over
  mut,       \* set or del in progress on the thread that mutates
  evicted,   \* what the primary evicted and has still to call back about
  wb,        \* the queue, writeback_keys_, writeback_gen_
  worker,    \* writeback_thread_
  truth      \* per key, what the mutations say: the last value, whether it is certain,
             \* and whether an older value was called back about after its claim

vars == <<config, primary, backend, inflight, get, breaker, mut, evicted, wb, worker, truth>>

NoGet == [at |-> "idle", key |-> CHOOSE k \in Keys : TRUE, by |-> NoReader, val |-> 0,
          seen |-> "closed", ok |-> TRUE]
NoKey == [gen |-> 0, in_flight |-> FALSE]
NoCall == [at |-> "idle", key |-> CHOOSE k \in Keys : TRUE, val |-> 0, n |-> 0]
NoItem == [key |-> CHOOSE k \in Keys : TRUE, val |-> 0, gen |-> 0]

At(r, where) == get[r].at = where
Key(r) == get[r].key
Go(r, where) == get' = [get EXCEPT ![r].at = where]

-----------------------------------------------------------------------------
(* get(): the primary cache first.                                         *)
get_key(r, k) ==
  /\ At(r, "idle") /\ config.read_through
  /\ primary[k] = 0
  /\ get' = [get EXCEPT ![r] = [NoGet EXCEPT !.at = "join", !.key = k]]
  /\ UNCHANGED <<config, primary, backend, inflight, breaker, mut, evicted, wb, worker, truth>>

(* A fetch of the key is under way, or this reader starts it.  The table   *)
(* is looked at twice, and the second look decides.                        *)
Join(r) ==
  /\ At(r, "join")
  /\ IF inflight[Key(r)] = NoReader
     THEN inflight' = [inflight EXCEPT ![Key(r)] = r] /\ Go(r, "allow")
     ELSE /\ get' = [get EXCEPT ![r].at = "wait", ![r].by = inflight[Key(r)]]
          /\ UNCHANGED inflight
  /\ UNCHANGED <<config, primary, backend, breaker, mut, evicted, wb, worker, truth>>

(* The leader has fulfilled its promise: the follower looks into the       *)
(* primary cache once more and returns.                                    *)
Follow(r) ==
  /\ At(r, "wait") /\ get[r].by = NoReader
  /\ get' = [get EXCEPT ![r] = NoGet]
  /\ UNCHANGED <<config, primary, backend, inflight, breaker, mut, evicted, wb, worker, truth>>

(* allow_request(): an open breaker refuses until the cooldown is over,    *)
(* and then lets the first request through as a probe.                     *)
allow_request(r) ==
  /\ At(r, "allow")
  /\ IF breaker.state = "open" /\ ~breaker.cooled
     THEN Go(r, "erase") /\ UNCHANGED breaker
     ELSE /\ Go(r, "query")
          /\ breaker' = IF breaker.state = "open"
                        THEN [breaker EXCEPT !.state = "half_open", !.successes = 0]
                        ELSE breaker
  /\ UNCHANGED <<config, primary, backend, inflight, mut, evicted, wb, worker, truth>>

(* The backend answers, or throws; the state of the breaker is read.       *)
Query(r) ==
  /\ At(r, "query")
  /\ \E ok \in BOOLEAN :
       get' = [get EXCEPT ![r].at = "record", ![r].ok = ok, ![r].seen = breaker.state,
                          ![r].val = IF ok THEN backend[Key(r)] ELSE 0]
  /\ UNCHANGED <<config, primary, backend, inflight, breaker, mut, evicted, wb, worker, truth>>

Recorded(r, where) == get' = [get EXCEPT ![r].at = where, ![r].seen = "closed", ![r].ok = TRUE]

(* Mutant: a success counts only while the breaker is closed.              *)
record_successClosedOnly(r) ==
  /\ At(r, "record") /\ get[r].ok
  /\ breaker' = [breaker EXCEPT !.errors = IF get[r].seen = "closed" THEN 0 ELSE @]
  /\ Recorded(r, IF get[r].val = 0 THEN "erase" ELSE "promote")
  /\ UNCHANGED <<config, primary, backend, inflight, mut, evicted, wb, worker, truth>>

record_success(r) ==
  LET closes == get[r].seen = "half_open" /\ breaker.successes + 1 >= success_threshold IN
  /\ At(r, "record") /\ get[r].ok
  /\ breaker' =
       [breaker EXCEPT
         !.successes = IF get[r].seen = "half_open" THEN @ + 1 ELSE @,
         !.state = IF closes /\ @ = "half_open" THEN "closed" ELSE @,
         !.errors = IF get[r].seen = "closed" THEN 0 ELSE @]
  /\ Recorded(r, IF closes THEN "forgive" ELSE IF get[r].val = 0 THEN "erase" ELSE "promote")
  /\ UNCHANGED <<config, primary, backend, inflight, mut, evicted, wb, worker, truth>>

(* The errors are forgotten after the breaker is closed, and a failure may *)
(* have come in between.                                                   *)
Forgive(r) ==
  /\ At(r, "forgive")
  /\ breaker' = [breaker EXCEPT !.errors = 0]
  /\ Recorded(r, IF get[r].val = 0 THEN "erase" ELSE "promote")
  /\ UNCHANGED <<config, primary, backend, inflight, mut, evicted, wb, worker, truth>>

record_failure(r) ==
  LET trips == get[r].seen = "closed" /\ breaker.errors + 1 >= error_threshold IN
  /\ At(r, "record") /\ ~get[r].ok
  /\ breaker' =
       [breaker EXCEPT
         !.cooled = FALSE,
         !.errors = IF get[r].seen = "closed" THEN @ + 1 ELSE @,
         !.state = IF get[r].seen = "half_open" \/ (trips /\ @ = "closed") THEN "open" ELSE @]
  /\ Recorded(r, "erase")
  /\ UNCHANGED <<config, primary, backend, inflight, mut, evicted, wb, worker, truth>>

(* Mutant: an exception of the primary cache leaves the entry behind.      *)
PromoteLeaks(r) ==
  /\ At(r, "promote")
  /\ \/ primary' = [primary EXCEPT ![Key(r)] = get[r].val] /\ Go(r, "erase")
     \/ UNCHANGED primary /\ get' = [get EXCEPT ![r] = NoGet]
  /\ UNCHANGED <<config, backend, inflight, breaker, mut, evicted, wb, worker, truth>>

(* The value goes to the primary cache before the followers are told; if   *)
(* the primary throws, they are told all the same.                         *)
Promote(r) ==
  /\ At(r, "promote")
  /\ \/ primary' = [primary EXCEPT ![Key(r)] = get[r].val]
     \/ UNCHANGED primary
  /\ get' = [get EXCEPT ![r].at = "erase", ![r].val = 0]
  /\ UNCHANGED <<config, backend, inflight, breaker, mut, evicted, wb, worker, truth>>

Erase(r) ==
  /\ At(r, "erase")
  /\ inflight' = [inflight EXCEPT ![Key(r)] = NoReader]
  /\ Go(r, "fulfil")
  /\ UNCHANGED <<config, primary, backend, breaker, mut, evicted, wb, worker, truth>>

(* set_value or set_exception: every follower of this fetch may go on.     *)
Fulfil(r) ==
  /\ At(r, "fulfil")
  /\ get' = [q \in Readers |->
       IF q = r THEN NoGet
       ELSE IF get[q].by = r THEN [get[q] EXCEPT !.by = NoReader] ELSE get[q]]
  /\ UNCHANGED <<config, primary, backend, inflight, breaker, mut, evicted, wb, worker, truth>>

(* The cooldown since the last failure passes.                             *)
Cooldown ==
  /\ ~breaker.cooled /\ breaker' = [breaker EXCEPT !.cooled = TRUE]
  /\ UNCHANGED <<config, primary, backend, inflight, get, mut, evicted, wb, worker, truth>>

-----------------------------------------------------------------------------
(* set() and del(): the primary cache, the claim, the backend.             *)
Mutate(k, val) ==
  /\ mut.at = "idle" /\ config.write_back /\ mut.n < MaxWrites
  /\ primary' = [primary EXCEPT ![k] = val]
  /\ mut' = [at |-> "claim", key |-> k, val |-> val, n |-> mut.n + 1]
  /\ truth' = [truth EXCEPT ![k] = [val |-> val, sure |-> FALSE, late |-> truth[k].late]]
  /\ UNCHANGED <<config, backend, inflight, get, breaker, evicted, wb, worker>>

set(k) == Mutate(k, mut.n + 1)
del(k) == Mutate(k, 0)

Claimed ==
  /\ wb' = [wb EXCEPT !.keys[mut.key] = NoKey]
  /\ mut' = [mut EXCEPT !.at = "write"]
  /\ truth' = [truth EXCEPT ![mut.key].late = FALSE]
  /\ UNCHANGED <<config, primary, backend, inflight, get, breaker, evicted, worker>>

(* Mutant: a write-back in progress is not waited for.                     *)
claim_writeback_ownershipAtOnce == mut.at = "claim" /\ Claimed

(* A write-back of the key in progress is waited for; one that is queued   *)
(* loses its record, and with it its right to be written.                  *)
claim_writeback_ownership ==
  mut.at = "claim" /\ ~wb.keys[mut.key].in_flight /\ Claimed

(* The backend takes the value, or throws and the caller knows.            *)
WriteThrough ==
  /\ mut.at = "write"
  /\ \/ /\ backend' = [backend EXCEPT ![mut.key] = mut.val]
        /\ truth' = [truth EXCEPT ![mut.key].sure = TRUE]
     \/ UNCHANGED <<backend, truth>>
  /\ mut' = [mut EXCEPT !.at = "idle"]
  /\ UNCHANGED <<config, primary, inflight, get, breaker, evicted, wb, worker>>

-----------------------------------------------------------------------------
(* The write-back queue.  A full queue gives up its oldest entry, and the  *)
(* record of the key with it when it was the newest one of the key.        *)
drop_oldest_writeback_locked(w) ==
  LET oldest == Head(w.queue) IN
  [w EXCEPT !.queue = Tail(@),
            !.keys[oldest.key] = IF @.gen = oldest.gen THEN NoKey ELSE @]

Enqueue(w, k, v) ==
  [w EXCEPT !.gen = w.gen + 1, !.keys[k].gen = w.gen + 1,
            !.queue = Append(@, [key |-> k, val |-> v, gen |-> w.gen + 1])]

(* The callbacks of setup_writeback: with a queue, and without one, when   *)
(* the evicting thread writes to the backend itself.  Without write-back   *)
(* there is no callback.                                                   *)
on_evict(k, v) ==
  \/ ~config.write_back /\ UNCHANGED <<wb, backend>>
  \/ /\ config.write_back /\ config.capacity > 0
     /\ wb' = Enqueue(IF Len(wb.queue) >= config.capacity
                      THEN drop_oldest_writeback_locked(wb) ELSE wb, k, v)
     /\ UNCHANGED backend
  \/ /\ config.write_back /\ config.capacity = 0
     /\ backend' = [backend EXCEPT ![k] = v] \/ UNCHANGED backend
     /\ UNCHANGED wb

(* The primary evicts: the callback runs under the lock, or is kept for    *)
(* the flush_guard, which runs it when the lock has been released.         *)
Evict(k) ==
  /\ primary[k] # 0 /\ (config.write_back => wb.gen + Cardinality(evicted) < MaxGen)
  /\ primary' = [primary EXCEPT ![k] = 0]
  /\ IF config.striped THEN on_evict(k, primary[k]) /\ UNCHANGED evicted
     ELSE evicted' = evicted \cup {<<k, primary[k]>>} /\ UNCHANGED <<wb, backend>>
  /\ UNCHANGED <<config, inflight, get, breaker, mut, worker, truth>>

FlushGuard(k, v) ==
  /\ <<k, v>> \in evicted
  /\ evicted' = evicted \ {<<k, v>>}
  /\ on_evict(k, v)
  /\ truth' = [truth EXCEPT ![k].late = @ \/ v # truth[k].val]
  /\ UNCHANGED <<config, primary, inflight, get, breaker, mut, worker>>

(* The worker swaps the queue out, and writes the entries one by one.      *)
TakeBatch ==
  /\ worker.at = "idle" /\ wb.queue # <<>>
  /\ worker' = [worker EXCEPT !.at = "flush", !.batch = wb.queue]
  /\ wb' = [wb EXCEPT !.queue = <<>>]
  /\ UNCHANGED <<config, primary, backend, inflight, get, breaker, mut, evicted, truth>>

(* flush_one_writeback(): only the newest entry of its key is written.     *)
FlushCheck ==
  LET item == Head(worker.batch)
      newest == wb.keys[item.key].gen = item.gen
  IN
  /\ worker.at = "flush" /\ worker.batch # <<>>
  /\ worker' = [worker EXCEPT !.batch = Tail(@), !.at = IF newest THEN "put" ELSE "flush",
                              !.item = IF newest THEN item ELSE NoItem]
  /\ wb' = IF newest THEN [wb EXCEPT !.keys[item.key].in_flight = TRUE] ELSE wb
  /\ UNCHANGED <<config, primary, backend, inflight, get, breaker, mut, evicted, truth>>

FlushPut ==
  /\ worker.at = "put"
  /\ \/ backend' = [backend EXCEPT ![worker.item.key] = worker.item.val]
     \/ UNCHANGED backend
  /\ worker' = [worker EXCEPT !.at = "done"]
  /\ UNCHANGED <<config, primary, inflight, get, breaker, mut, evicted, wb, truth>>

FlushDone ==
  LET k == worker.item.key IN
  /\ worker.at = "done"
  /\ wb' = [wb EXCEPT !.keys[k] = IF @.gen = worker.item.gen THEN NoKey
                                  ELSE [@ EXCEPT !.in_flight = FALSE]]
  /\ worker' = [worker EXCEPT !.at = "flush", !.item = NoItem]
  /\ UNCHANGED <<config, primary, backend, inflight, get, breaker, mut, evicted, truth>>

(* The batch is done; after stop_writeback_worker the last batch may also  *)
(* be given up at its deadline.                                            *)
BatchDone ==
  /\ worker.at = "flush" /\ (worker.batch = <<>> \/ ~worker.running)
  /\ worker' = [worker EXCEPT !.at = IF worker.running \/ wb.queue # <<>> THEN "idle"
                                     ELSE "gone", !.batch = <<>>]
  /\ UNCHANGED <<config, primary, backend, inflight, get, breaker, mut, evicted, wb, truth>>

stop_writeback_worker ==
  /\ worker.running /\ config.write_back /\ mut.at = "idle" /\ mut.n = MaxWrites
  /\ worker' = [worker EXCEPT !.running = FALSE]
  /\ UNCHANGED <<config, primary, backend, inflight, get, breaker, mut, evicted, wb, truth>>

-----------------------------------------------------------------------------
Init ==
  /\ config \in Configs
  /\ primary = [k \in Keys |-> 0]
  /\ backend = [k \in Keys |-> IF config.read_through THEN 1 ELSE 0]
  /\ inflight = [k \in Keys |-> NoReader] /\ get = [r \in Readers |-> NoGet]
  /\ breaker = [state |-> "closed", errors |-> 0, successes |-> 0, cooled |-> TRUE]
  /\ mut = NoCall /\ evicted = {}
  /\ wb = [queue |-> <<>>, keys |-> [k \in Keys |-> NoKey], gen |-> 0]
  /\ worker = [at |-> "idle", batch |-> <<>>, item |-> NoItem, running |-> TRUE]
  /\ truth = [k \in Keys |-> [val |-> backend[k], sure |-> TRUE, late |-> FALSE]]

ReadStep(r) ==
  \/ Join(r) \/ Follow(r) \/ allow_request(r) \/ Query(r) \/ record_success(r)
  \/ record_failure(r) \/ Forgive(r) \/ Promote(r) \/ Erase(r) \/ Fulfil(r)
MutateStep == claim_writeback_ownership \/ WriteThrough
WorkerStep == TakeBatch \/ FlushCheck \/ FlushPut \/ FlushDone \/ BatchDone

(* Everything that was to be written has been.                             *)
Rest == mut.at = "idle" /\ mut.n = MaxWrites /\ UNCHANGED vars

Next ==
  \/ \E r \in Readers : ReadStep(r) \/ \E k \in config.keys : get_key(r, k)
  \/ \E k \in config.keys : set(k) \/ del(k) \/ Evict(k)
  \/ \E e \in evicted : FlushGuard(e[1], e[2])
  \/ Cooldown \/ MutateStep \/ WorkerStep \/ stop_writeback_worker \/ Rest

(* Threads inside a call and the worker run on.                            *)
Fairness ==
  /\ \A r \in Readers : WF_vars(ReadStep(r))
  /\ WF_vars(MutateStep) /\ WF_vars(WorkerStep) /\ WF_vars(Cooldown)

Spec == Init /\ [][Next]_vars /\ Fairness

-----------------------------------------------------------------------------
TypeOK ==
  /\ primary \in [Keys -> 0..(MaxWrites + 1)] /\ backend \in [Keys -> 0..(MaxWrites + 1)]
  /\ inflight \in [Keys -> Readers \cup {NoReader}]
  /\ breaker.state \in {"closed", "open", "half_open"}
  /\ Len(wb.queue) <= config.capacity /\ wb.gen \in 0..MaxGen

(* "So the last mutation always wins on the backend": once a set or a del  *)
(* has come back, no write-back of an older value lands on the backend,    *)
(* unless it was evicted before and called back about after the claim of   *)
(* that set or del, which only a primary that is not striped may do.       *)
LastMutationWins ==
  ~config.read_through =>
    \A k \in Keys : truth[k].sure /\ ~truth[k].late => backend[k] = truth[k].val

(* The same without the exception; refuted by a primary that is not        *)
(* striped.                                                                *)
LastMutationAlwaysWins ==
  ~config.read_through =>
    \A k \in Keys : truth[k].sure => backend[k] = truth[k].val

Leading == {"allow", "query", "record", "forgive", "promote", "erase"}

(* One reader fetches a key at a time, and a follower waits only for a     *)
(* reader that still has its promise to keep.                              *)
FetchesLed ==
  /\ \A r \in Readers : At(r, "wait") /\ get[r].by # NoReader =>
       get[get[r].by].at \in Leading \cup {"fulfil"}
  /\ \A k \in Keys : inflight[k] # NoReader =>
       /\ Key(inflight[k]) = k
       /\ get[inflight[k]].at \in Leading

(* A breaker that tripped closes again when the backend has recovered: no  *)
(* failure comes any more, and readers keep missing.                       *)
Failing == \E r \in Readers : At(r, "record") /\ ~get[r].ok
Asked == \E r \in Readers : At(r, "allow")
BreakerRecovers == <>[]~Failing /\ []<>Asked => <>[](breaker.state = "closed")

(* Every get, set and del comes back, whatever the backend does.           *)
CallsReturn ==
  /\ \A r \in Readers : ~At(r, "idle") ~> At(r, "idle")
  /\ mut.at # "idle" ~> mut.at = "idle"
=============================================================================
