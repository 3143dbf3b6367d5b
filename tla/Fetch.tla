------------------------------- MODULE Fetch --------------------------------
(***************************************************************************)
(* get_or_fetch and try_get_or_fetch (cache_trait.hpp) and the flights of  *)
(* detail/singleflight.hpp: the first thread to miss a key calls the       *)
(* provider, the ones that miss it meanwhile wait for that thread's value  *)
(* or exception.  The cache behind them is the set of keys it holds;       *)
(* writers, eviction, shutdown, memory pressure and the switch itself come *)
(* from outside at any time.  A provider may fail, and it returns.         *)
(***************************************************************************)
EXTENDS Naturals, FiniteSets

CONSTANTS Threads, NoThread, Keys

ASSUME FetchAssumption == NoThread \notin Threads

VARIABLES
  cached,    \* the keys the cache holds
  inflight,  \* per key, the flight: by whom, and how it ended so far
  fetch,     \* per thread, the call in progress
  env        \* closed_, memory_critical_mode_, singleflight_enabled_

vars == <<cached, inflight, fetch, env>>

NoFlight == [by |-> NoThread, res |-> "open"]
Idle(k) == [op |-> "none", at |-> "idle", key |-> k, role |-> "none", by |-> NoThread,
            res |-> "open"]

At(t, where) == fetch[t].at = where
Key(t) == fetch[t].key
Go(t, where) == fetch' = [fetch EXCEPT ![t].at = where]
Return(t) == fetch' = [fetch EXCEPT ![t] = Idle(Key(t))]

(* The result is known: the leader has followers to tell.                  *)
Conclude(t, res) == fetch' = [fetch EXCEPT ![t].at = "signal", ![t].res = res]

-----------------------------------------------------------------------------
Call(t, op) ==
  /\ At(t, "idle")
  /\ \E k \in Keys : fetch' = [fetch EXCEPT ![t] = [Idle(k) EXCEPT !.op = op, !.at = "lookup"]]
  /\ UNCHANGED <<cached, inflight, env>>

(* With the provider of the cache, with a provider of its own, and the     *)
(* variant that starts with try_get.                                       *)
get_or_fetch(t) == Call(t, "provider")
get_or_fetch_with(t) == Call(t, "fn")
try_get_or_fetch(t) == Call(t, "try")

(* The lookup without a lock; try_get_or_fetch looks at closed_ after it,  *)
(* the others before.                                                      *)
Lookup(t) ==
  /\ At(t, "lookup")
  /\ IF Key(t) \in cached \/ env.closed THEN Return(t)
     ELSE fetch' = [fetch EXCEPT ![t].op = "none",
                                 ![t].at = IF fetch[t].op = "provider"
                                           THEN "relook" ELSE "join"]
  /\ UNCHANGED <<cached, inflight, env>>

(* get_or_fetch(key) looks again under the shard lock, gives up when there *)
(* is no provider, and hands over to the other overload for a flight.      *)
Relook(t) ==
  /\ At(t, "relook")
  /\ \/ Return(t)
     \/ /\ Key(t) \notin cached
        /\ fetch' = [fetch EXCEPT ![t].op = "fn",
                                  ![t].at = IF env.singleflight THEN "lookup" ELSE "alone"]
  /\ UNCHANGED <<cached, inflight, env>>

(* acquire: the flight of the key is joined, or started.                   *)
acquire(t) ==
  \/ /\ inflight[Key(t)].by = NoThread
     /\ inflight' = [inflight EXCEPT ![Key(t)] = [by |-> t, res |-> "open"]]
     /\ fetch' = [fetch EXCEPT ![t].at = "load", ![t].role = "leader"]
  \/ /\ inflight[Key(t)].by # NoThread
     /\ fetch' = [fetch EXCEPT ![t].at = "wait", ![t].role = "follower",
                               ![t].by = inflight[Key(t)].by,
                               ![t].res = inflight[Key(t)].res]
     /\ UNCHANGED inflight

Join(t) ==
  /\ At(t, "join")
  /\ IF env.singleflight THEN acquire(t) ELSE Go(t, "load") /\ UNCHANGED inflight
  /\ UNCHANGED <<cached, env>>

(* The provider runs without any lock.                                     *)
load(t) ==
  /\ \/ At(t, "load") /\ (Go(t, "store") \/ Conclude(t, "error"))
     \/ At(t, "alone") /\ (Go(t, "keep") \/ Return(t))
  /\ UNCHANGED <<cached, inflight, env>>

(* Under the shard lock: a closed cache and a memory monitor that refuses  *)
(* throw; a key that came meanwhile is kept.  In critical memory mode the  *)
(* value is handed out and not stored.                                     *)
Store(t, value, error) ==
  /\ \/ /\ env.critical \/ (~env.closed /\ Key(t) \in cached)
        /\ value /\ UNCHANGED cached
     \/ /\ ~env.critical /\ (env.closed \/ Key(t) \notin cached)
        /\ error /\ UNCHANGED cached
     \/ /\ ~env.critical /\ ~env.closed /\ Key(t) \notin cached
        /\ value /\ cached' = cached \cup {Key(t)}
  /\ UNCHANGED <<inflight, env>>

store(t) == At(t, "store") /\ Store(t, Conclude(t, "value"), Conclude(t, "error"))

(* get_or_fetch(key) with the flights off stores and returns by itself.    *)
StoreAlone(t) == At(t, "keep") /\ Store(t, Return(t), Return(t))

(* complete: the followers are told first, then the flight is taken from   *)
(* the map.  A thread that joins in between finds the result there.        *)
Followers(t) == {u \in Threads : fetch[u].role = "follower" /\ fetch[u].by = t}

(* Mutant: takes the entry of the key away, tells the followers after.     *)
completeErasesFirst(t) ==
  /\ At(t, "signal") /\ fetch[t].role = "leader"
  /\ inflight' = [inflight EXCEPT ![Key(t)] = NoFlight]
  /\ Go(t, "erase")
  /\ UNCHANGED <<cached, env>>

(* Mutant: an exception is thrown without telling the followers.           *)
completeSilent(t) ==
  /\ At(t, "signal") /\ fetch[t].role = "leader"
  /\ inflight' = [inflight EXCEPT ![Key(t)].res = fetch[t].res]
  /\ fetch' = [u \in Threads |->
       IF u = t THEN [fetch[u] EXCEPT !.at = "erase"]
       ELSE IF u \in Followers(t) /\ fetch[t].res = "value" THEN [fetch[u] EXCEPT !.res = "value"]
       ELSE fetch[u]]
  /\ UNCHANGED <<cached, env>>

complete(t) ==
  /\ At(t, "signal") /\ fetch[t].role = "leader"
  /\ inflight' = [inflight EXCEPT ![Key(t)].res = fetch[t].res]
  /\ fetch' = [u \in Threads |->
       IF u = t THEN [fetch[u] EXCEPT !.at = "erase"]
       ELSE IF u \in Followers(t) THEN [fetch[u] EXCEPT !.res = fetch[t].res] ELSE fetch[u]]
  /\ UNCHANGED <<cached, env>>

Erase(t) ==
  /\ At(t, "erase") /\ Return(t)
  /\ inflight' = [inflight EXCEPT ![Key(t)] = NoFlight]
  /\ UNCHANGED <<cached, env>>

(* The flights were off: the result is returned as it is.                  *)
ReturnAlone(t) ==
  /\ At(t, "signal") /\ fetch[t].role = "none" /\ Return(t)
  /\ UNCHANGED <<cached, inflight, env>>

(* wait_and_get: rethrows the leader's exception; otherwise the follower   *)
(* returns what the cache holds by now, or the leader's value.             *)
wait_and_get(t) ==
  /\ At(t, "wait") /\ fetch[t].res # "open" /\ Return(t)
  /\ UNCHANGED <<cached, inflight, env>>

(* What others do to the cache.                                            *)
Outside ==
  /\ \/ \E k \in Keys \ cached : ~env.closed /\ cached' = cached \cup {k} /\ UNCHANGED env
     \/ \E k \in cached : cached' = cached \ {k} /\ UNCHANGED env
     \/ ~env.closed /\ env' = [env EXCEPT !.closed = TRUE] /\ UNCHANGED cached
     \/ env' = [env EXCEPT !.critical = ~@] /\ UNCHANGED cached
     \/ env' = [env EXCEPT !.singleflight = ~@] /\ UNCHANGED cached
  /\ UNCHANGED <<inflight, fetch>>

-----------------------------------------------------------------------------
Init ==
  /\ cached = {} /\ inflight = [k \in Keys |-> NoFlight]
  /\ \E k \in Keys : fetch = [t \in Threads |-> Idle(k)]
  /\ env = [closed |-> FALSE, critical |-> FALSE, singleflight |-> TRUE]

Step(t) == Lookup(t) \/ Relook(t) \/ Join(t) \/ load(t) \/ store(t) \/ StoreAlone(t)
             \/ complete(t) \/ Erase(t) \/ ReturnAlone(t) \/ wait_and_get(t)
Begin(t) == get_or_fetch(t) \/ get_or_fetch_with(t) \/ try_get_or_fetch(t)
Next == Outside \/ \E t \in Threads : Begin(t) \/ Step(t)
Fairness == \A t \in Threads : WF_vars(Step(t))
Spec == Init /\ [][Next]_vars /\ Fairness

-----------------------------------------------------------------------------
Flight == [by : Threads \cup {NoThread}, res : {"open", "value", "error"}]
CallState ==
  [op : {"none", "provider", "fn", "try"},
   at : {"idle", "lookup", "relook", "join", "load", "alone", "store", "keep", "signal",
         "erase", "wait"},
   key : Keys, role : {"none", "leader", "follower"}, by : Threads \cup {NoThread},
   res : {"open", "value", "error"}]

TypeOK ==
  /\ cached \subseteq Keys
  /\ inflight \in [Keys -> Flight]
  /\ fetch \in [Threads -> CallState]
  /\ env \in [closed : BOOLEAN, critical : BOOLEAN, singleflight : BOOLEAN]

(* While a flight is in the map exactly one thread leads it, that thread   *)
(* is between its acquire and its complete, and no other leads one for the *)
(* key: the provider runs once per flight.  A follower whose result is     *)
(* open has a leader at work on the same key, whatever else has happened   *)
(* since it joined; this is what lets it wait without a timeout.           *)
FlightHasLeader ==
  \A k \in Keys : inflight[k].by # NoThread =>
    /\ fetch[inflight[k].by].role = "leader" /\ Key(inflight[k].by) = k
    /\ (At(inflight[k].by, "erase") <=> inflight[k].res # "open")
LeaderHasFlight ==
  \A t \in Threads : fetch[t].role = "leader" =>
    /\ inflight[Key(t)].by = t
    /\ fetch[t].at \in {"load", "store", "signal", "erase"}
FollowerIsLed ==
  \A t \in Threads : fetch[t].role = "follower" /\ fetch[t].res = "open" =>
    /\ fetch[t].by \in Threads /\ inflight[Key(t)].by = fetch[t].by
    /\ inflight[Key(t)].res = "open"
FlightsLed == FlightHasLeader /\ LeaderHasFlight /\ FollowerIsLed

(* Every call returns: a leader that throws, finds the cache closed or     *)
(* memory critical still releases the threads that wait for it.            *)
EveryFetchReturns == \A t \in Threads : ~At(t, "idle") ~> At(t, "idle")
=============================================================================
