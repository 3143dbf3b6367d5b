----------------------------- MODULE FetchProofs -----------------------------
(***************************************************************************)
(* The flights of get_or_fetch, for any number of threads and keys: a      *)
(* flight has one leader at work, and a waiting follower has a leader.     *)
(***************************************************************************)
EXTENDS Fetch, TLAPS

(* The provers that a step is given when it names none, one after another. *)
USE SMTT(10), ZenonT(20), SMTT(20), SMTT(40)

(* What a thread's place in the code says of its part in a flight.         *)
RolesFit ==
  \A t \in Threads :
    /\ fetch[t].role = "follower" => At(t, "wait")
    /\ At(t, "erase") => fetch[t].role = "leader"
    /\ At(t, "signal") => fetch[t].res # "open"

FetchInvariant == TypeOK /\ FlightsLed /\ RolesFit

(* Of the threads only t takes a step.                                     *)
OnlyMoves(t) ==
  /\ fetch' \in [Threads -> CallState]
  /\ \A u \in Threads \ {t} : fetch'[u] = fetch[u]

LEMMA FetchInit == Init => FetchInvariant
BY FetchAssumption
DEF Init, Flight, CallState, FetchInvariant, TypeOK, FlightsLed, FlightHasLeader,
    LeaderHasFlight, FollowerIsLed, RolesFit, NoFlight, Idle, At, Key

(* What the invariant says of thread t and of the flights, field by field. *)
LEMMA Facts ==
  ASSUME FetchInvariant, NEW t \in Threads
  PROVE  /\ cached \subseteq Keys /\ fetch \in [Threads -> CallState]
         /\ fetch[t] \in CallState /\ Key(t) \in Keys
         /\ fetch[t].role \in {"none", "leader", "follower"}
         /\ fetch[t].role = "leader" => fetch[t].at \in {"load", "store", "signal", "erase"}
         /\ fetch[t].role = "leader" => inflight[Key(t)].by = t
         /\ fetch[t].role = "follower" => fetch[t].at = "wait"
         /\ \A k \in Keys : inflight[k].by \in Threads \cup {NoThread}
         /\ \A u \in Threads : fetch[u].key \in Keys
BY DEF FetchInvariant, TypeOK, FlightsLed, LeaderHasFlight, RolesFit, CallState, Flight, Key, At

(* A thread that leads no flight, before or after, changes only its own    *)
(* call: the flights stay as they are.                                     *)
LEMMA LooseStep ==
  ASSUME FetchInvariant, NEW t \in Threads, OnlyMoves(t),
         fetch[t].role # "leader", fetch'[t].role = "none", fetch'[t].at # "erase",
         fetch'[t].at = "signal" => fetch'[t].res # "open",
         UNCHANGED <<inflight, env>>, cached' \subseteq Keys
  PROVE  FetchInvariant'
<1>1. TypeOK'
  BY DEF FetchInvariant, TypeOK, OnlyMoves
<1>2. RolesFit'
  BY DEF FetchInvariant, RolesFit, At, OnlyMoves
<1>3. FlightHasLeader'
  BY Facts DEF FetchInvariant, FlightsLed, FlightHasLeader, OnlyMoves, At, Key
<1>4. LeaderHasFlight'
  BY DEF FetchInvariant, FlightsLed, LeaderHasFlight, OnlyMoves, Key
<1>5. FollowerIsLed'
  BY DEF FetchInvariant, FlightsLed, FollowerIsLed, OnlyMoves, Key
<1> QED
  BY <1>1, <1>2, <1>3, <1>4, <1>5 DEF FetchInvariant, FlightsLed

(* A thread between its acquire and its complete.                          *)
LEMMA LeadingStep ==
  ASSUME FetchInvariant, NEW t \in Threads, OnlyMoves(t),
         fetch[t].at \in {"load", "store"}, fetch'[t].at \in {"store", "signal"},
         fetch'[t].role = fetch[t].role, fetch'[t].key = fetch[t].key,
         fetch'[t].at = "signal" => fetch'[t].res # "open",
         UNCHANGED <<inflight, env>>, cached' \subseteq Keys
  PROVE  FetchInvariant'
<1>1. TypeOK'
  BY DEF FetchInvariant, TypeOK, OnlyMoves
<1>2. RolesFit'
  BY DEF FetchInvariant, RolesFit, At, OnlyMoves
<1>3. FlightHasLeader'
  BY Facts DEF FetchInvariant, FlightsLed, FlightHasLeader, OnlyMoves, At, Key
<1>4. LeaderHasFlight'
  BY DEF FetchInvariant, FlightsLed, LeaderHasFlight, OnlyMoves, Key
<1>5. FollowerIsLed'
  BY Facts DEF FetchInvariant, FlightsLed, FollowerIsLed, OnlyMoves, Key
<1> QED
  BY <1>1, <1>2, <1>3, <1>4, <1>5 DEF FetchInvariant, FlightsLed

LEMMA ReturnKeeps ==
  ASSUME FetchInvariant, NEW t \in Threads, Return(t), fetch[t].role # "leader",
         UNCHANGED <<inflight, env>>, cached' \subseteq Keys
  PROVE  FetchInvariant'
<1>1. OnlyMoves(t) /\ fetch'[t].role = "none" /\ fetch'[t].at = "idle"
  BY Facts DEF Return, Idle, OnlyMoves, CallState
<1> QED
  BY <1>1, LooseStep

LEMMA CallKeeps ==
  ASSUME FetchInvariant, NEW t \in Threads, Begin(t) PROVE FetchInvariant'
<1>1. PICK op \in {"provider", "fn", "try"} : Call(t, op)
  BY DEF Begin, get_or_fetch, get_or_fetch_with, try_get_or_fetch
<1>2. PICK k \in Keys :
        fetch' = [fetch EXCEPT ![t] = [Idle(k) EXCEPT !.op = op, !.at = "lookup"]]
  BY <1>1, Zenon DEF Call
<1>3. OnlyMoves(t) /\ fetch'[t].role = "none" /\ fetch'[t].at = "lookup"
  BY <1>2, Facts, Zenon DEF CallState, Idle, OnlyMoves
<1>4. fetch[t].role # "leader" /\ UNCHANGED <<cached, inflight, env>> /\ cached \subseteq Keys
  BY <1>1, Facts DEF Call, At
<1> QED
  BY <1>3, <1>4, LooseStep

LEMMA LookupKeeps ==
  ASSUME FetchInvariant, NEW t \in Threads, Lookup(t) \/ Relook(t) PROVE FetchInvariant'
<1>1. /\ fetch[t].at \in {"lookup", "relook"} /\ UNCHANGED <<cached, inflight, env>>
      /\ fetch[t].role = "none"
  BY Facts DEF Lookup, Relook, At
<1>2. CASE Return(t)
  BY <1>1, <1>2, Facts, ReturnKeeps
<1>3. CASE ~Return(t)
  <2>1. PICK op \in {"none", "fn"}, at \in {"relook", "join", "lookup", "alone"} :
          fetch' = [fetch EXCEPT ![t].op = op, ![t].at = at]
    BY <1>3 DEF Lookup, Relook
  <2>2. OnlyMoves(t) /\ fetch'[t].role = "none" /\ fetch'[t].at = at
    BY <1>1, <2>1, Facts DEF OnlyMoves, CallState
  <2> QED
    BY <1>1, <2>2, Facts, LooseStep
<1> QED
  BY <1>2, <1>3

(* The flight is started, or joined, or the flights are off.               *)
LEMMA JoinKeeps ==
  ASSUME FetchInvariant, NEW t \in Threads, Join(t) PROVE FetchInvariant'
<1>1. /\ UNCHANGED <<cached, env>> /\ fetch[t].at = "join" /\ fetch[t].role = "none"
      /\ acquire(t) \/ (Go(t, "load") /\ UNCHANGED inflight)
  BY Facts DEF Join, At
<1>2. CASE acquire(t) /\ inflight[Key(t)].by = NoThread
  <2>1. /\ inflight' = [inflight EXCEPT ![Key(t)] = [by |-> t, res |-> "open"]]
        /\ fetch' = [fetch EXCEPT ![t].at = "load", ![t].role = "leader"]
    BY <1>2 DEF acquire
  <2>2. /\ OnlyMoves(t) /\ fetch'[t].at = "load" /\ fetch'[t].role = "leader"
        /\ fetch'[t].key = Key(t)
    BY <2>1, Facts DEF OnlyMoves, CallState, Key
  <2>3. /\ inflight' \in [Keys -> Flight] /\ inflight'[Key(t)].by = t
        /\ inflight'[Key(t)].res = "open"
        /\ \A k \in Keys \ {Key(t)} : inflight'[k] = inflight[k]
    BY <2>1, Facts DEF FetchInvariant, TypeOK, Flight
  <2>4. TypeOK'
    BY <1>1, <2>2, <2>3 DEF FetchInvariant, TypeOK, OnlyMoves
  <2>5. RolesFit'
    BY <2>2 DEF FetchInvariant, RolesFit, At, OnlyMoves
  <2>6. FlightHasLeader'
    BY <1>1, <2>2, <2>3, Facts DEF FetchInvariant, FlightsLed, FlightHasLeader, OnlyMoves, At, Key
  <2>7. LeaderHasFlight'
    BY <1>2, <2>2, <2>3, Facts, FetchAssumption
    DEF FetchInvariant, FlightsLed, LeaderHasFlight, OnlyMoves, Key
  <2>8. FollowerIsLed'
    BY <1>2, <2>2, <2>3, Facts, FetchAssumption
    DEF FetchInvariant, FlightsLed, FollowerIsLed, OnlyMoves, Key
  <2> QED
    BY <2>4, <2>5, <2>6, <2>7, <2>8 DEF FetchInvariant, FlightsLed
<1>3. CASE acquire(t) /\ inflight[Key(t)].by # NoThread
  <2>1. /\ UNCHANGED inflight
        /\ fetch' = [fetch EXCEPT ![t].at = "wait", ![t].role = "follower",
                                  ![t].by = inflight[Key(t)].by,
                                  ![t].res = inflight[Key(t)].res]
    BY <1>3 DEF acquire
  <2>2. /\ inflight[Key(t)].by \in Threads
        /\ inflight[Key(t)].res \in {"open", "value", "error"}
    BY <1>3, Facts DEF FetchInvariant, TypeOK, Flight
  <2>3. /\ OnlyMoves(t) /\ fetch'[t].at = "wait" /\ fetch'[t].role = "follower"
        /\ fetch'[t].by = inflight[Key(t)].by /\ fetch'[t].res = inflight[Key(t)].res
        /\ fetch'[t].key = fetch[t].key
    <3> DEFINE b == inflight[Key(t)].by
               r == inflight[Key(t)].res
    <3>1. b \in Threads /\ r \in {"open", "value", "error"}
      BY <2>2
    <3>2. fetch' = [fetch EXCEPT ![t].at = "wait", ![t].role = "follower", ![t].by = b,
                                 ![t].res = r]
      BY <2>1
    <3> HIDE DEF b, r
    <3>3. fetch' \in [Threads -> CallState]
      BY <3>1, <3>2, Facts DEF CallState
    <3>4. /\ \A u \in Threads \ {t} : fetch'[u] = fetch[u]
          /\ fetch'[t].at = "wait" /\ fetch'[t].role = "follower"
          /\ fetch'[t].by = b /\ fetch'[t].res = r /\ fetch'[t].key = fetch[t].key
      BY <3>2, Facts DEF CallState
    <3> QED
      BY <3>3, <3>4 DEF b, r, OnlyMoves
  <2>4. TypeOK'
    BY <1>1, <2>1, <2>3 DEF FetchInvariant, TypeOK, OnlyMoves
  <2>5. RolesFit'
    BY <2>3 DEF FetchInvariant, RolesFit, At, OnlyMoves
  <2>6. FlightHasLeader'
    BY <1>1, <2>1, <2>3, Facts, Zenon DEF FetchInvariant, FlightsLed, FlightHasLeader, OnlyMoves, At, Key
  <2>7. LeaderHasFlight'
    BY <2>1, <2>3, Zenon DEF FetchInvariant, FlightsLed, LeaderHasFlight, OnlyMoves, Key
  <2>8. FollowerIsLed'
    <3> SUFFICES ASSUME NEW u \in Threads, fetch'[u].role = "follower", fetch'[u].res = "open"
                 PROVE  /\ fetch'[u].by \in Threads /\ inflight[fetch'[u].key].by = fetch'[u].by
                        /\ inflight[fetch'[u].key].res = "open"
      BY <2>1, Zenon DEF FollowerIsLed, Key
    <3>1. CASE u = t
      BY <2>2, <2>3, <3>1 DEF Key
    <3>2. CASE u # t
      BY <2>3, <3>2 DEF FetchInvariant, FlightsLed, FollowerIsLed, OnlyMoves, Key
    <3> QED
      BY <3>1, <3>2
  <2> QED
    BY <2>4, <2>5, <2>6, <2>7, <2>8 DEF FetchInvariant, FlightsLed
<1>4. CASE Go(t, "load") /\ UNCHANGED inflight
  <2>1. OnlyMoves(t) /\ fetch'[t].role = "none" /\ fetch'[t].at = "load"
    BY <1>1, <1>4, Facts DEF Go, OnlyMoves, CallState
  <2> QED
    BY <1>1, <1>4, <2>1, Facts, LooseStep
<1> QED
  BY <1>1, <1>2, <1>3, <1>4

LEMMA LoadKeeps ==
  ASSUME FetchInvariant, NEW t \in Threads, load(t) PROVE FetchInvariant'
<1>1. UNCHANGED <<cached, inflight, env>>
  BY DEF load
<1>2. CASE At(t, "load") /\ (Go(t, "store") \/ Conclude(t, "error"))
  <2>1. /\ OnlyMoves(t) /\ fetch'[t].role = fetch[t].role /\ fetch'[t].key = fetch[t].key
        /\ fetch'[t].at \in {"store", "signal"}
        /\ fetch'[t].at = "signal" => fetch'[t].res = "error"
    BY <1>2, Facts DEF Go, Conclude, OnlyMoves, CallState
  <2> QED
    BY <1>1, <1>2, <2>1, Facts, LeadingStep DEF At
<1>3. CASE At(t, "alone") /\ Go(t, "keep")
  <2>1. OnlyMoves(t) /\ fetch'[t].role = fetch[t].role /\ fetch'[t].at = "keep"
    BY <1>3, Facts DEF Go, OnlyMoves, CallState
  <2> QED
    BY <1>1, <1>3, <2>1, Facts, LooseStep DEF At
<1>4. CASE At(t, "alone") /\ Return(t)
  BY <1>1, <1>4, Facts, ReturnKeeps DEF At
<1> QED
  BY <1>2, <1>3, <1>4 DEF load

LEMMA StoreKeeps ==
  ASSUME FetchInvariant, NEW t \in Threads, store(t) \/ StoreAlone(t) PROVE FetchInvariant'
<1>1. CASE store(t)
  <2>1. (Conclude(t, "value") \/ Conclude(t, "error")) /\ cached' \subseteq Keys
          /\ UNCHANGED <<inflight, env>> /\ fetch[t].at = "store"
    BY <1>1, Facts DEF store, Store, At
  <2>2. OnlyMoves(t) /\ fetch'[t].at = "signal" /\ fetch'[t].res # "open"
          /\ fetch'[t].role = fetch[t].role /\ fetch'[t].key = fetch[t].key
    BY <2>1, Facts DEF Conclude, OnlyMoves, CallState
  <2> QED
    BY <2>1, <2>2, LeadingStep
<1>2. CASE StoreAlone(t)
  <2>1. Return(t) /\ cached' \subseteq Keys /\ UNCHANGED <<inflight, env>> /\ fetch[t].at = "keep"
    BY <1>2, Facts DEF StoreAlone, Store, At
  <2> QED
    BY <2>1, Facts, ReturnKeeps
<1> QED
  BY <1>1, <1>2

(* Everybody who follows t is told, and the flight in the map is closed.   *)
LEMMA CompleteKeeps ==
  ASSUME FetchInvariant, NEW t \in Threads, complete(t) PROVE FetchInvariant'
<1>1. /\ fetch' \in [Threads -> CallState] /\ fetch'[t].at = "erase"
      /\ \A u \in Threads : /\ fetch'[u].role = fetch[u].role /\ fetch'[u].key = fetch[u].key
                            /\ fetch'[u].by = fetch[u].by
      /\ \A u \in Threads \ {t} :
           /\ fetch'[u].at = fetch[u].at
           /\ fetch'[u].res = IF u \in Followers(t) THEN fetch[t].res ELSE fetch[u].res
  BY Facts DEF complete, CallState, Followers
<1>2. /\ UNCHANGED <<cached, env>>
      /\ fetch[t].role = "leader" /\ fetch[t].at = "signal" /\ fetch[t].res # "open"
  BY DEF complete, At, FetchInvariant, RolesFit
<1>3. /\ inflight' \in [Keys -> Flight]
      /\ \A k \in Keys : inflight'[k].by = inflight[k].by
      /\ \A k \in Keys \ {Key(t)} : inflight'[k] = inflight[k]
      /\ inflight'[Key(t)].res # "open" /\ inflight[Key(t)].by = t
  BY <1>2, Facts DEF complete, FetchInvariant, TypeOK, Flight, CallState
<1>4. TypeOK'
  BY <1>1, <1>2, <1>3 DEF FetchInvariant, TypeOK
<1>5. RolesFit'
  BY <1>1, <1>2 DEF FetchInvariant, RolesFit, At
<1>6. FlightHasLeader'
  BY <1>1, <1>2, <1>3, Facts DEF FetchInvariant, FlightsLed, FlightHasLeader, At, Key
<1>7. LeaderHasFlight'
  BY <1>1, <1>2, <1>3, Facts DEF FetchInvariant, FlightsLed, LeaderHasFlight, Key
<1>8. FollowerIsLed'
  BY <1>1, <1>2, <1>3, Facts DEF FetchInvariant, FlightsLed, FollowerIsLed, Followers, Key
<1> QED
  BY <1>4, <1>5, <1>6, <1>7, <1>8 DEF FetchInvariant, FlightsLed

LEMMA EraseKeeps ==
  ASSUME FetchInvariant, NEW t \in Threads, Erase(t) PROVE FetchInvariant'
<1>1. /\ OnlyMoves(t) /\ fetch'[t].role = "none" /\ fetch'[t].at = "idle"
      /\ fetch[t].role = "leader" /\ fetch[t].at = "erase" /\ UNCHANGED <<cached, env>>
  BY Facts DEF Erase, Return, OnlyMoves, CallState, Idle, FetchInvariant, RolesFit, At
<1>2. /\ inflight' \in [Keys -> Flight] /\ inflight'[Key(t)].by = NoThread
      /\ \A k \in Keys \ {Key(t)} : inflight'[k] = inflight[k]
  BY Facts DEF Erase, FetchInvariant, TypeOK, NoFlight, Flight
<1>3. TypeOK'
  BY <1>1, <1>2 DEF FetchInvariant, TypeOK, OnlyMoves
<1>4. RolesFit'
  BY <1>1 DEF FetchInvariant, RolesFit, At, OnlyMoves
<1>5. FlightHasLeader'
  BY <1>1, <1>2, Facts DEF FetchInvariant, FlightsLed, FlightHasLeader, OnlyMoves, At, Key
<1>6. LeaderHasFlight'
  BY <1>1, <1>2, Facts DEF FetchInvariant, FlightsLed, LeaderHasFlight, OnlyMoves, Key
<1>7. FollowerIsLed'
  BY <1>1, <1>2, Facts, FetchAssumption
  DEF FetchInvariant, FlightsLed, FlightHasLeader, FollowerIsLed, OnlyMoves, At, Key
<1> QED
  BY <1>3, <1>4, <1>5, <1>6, <1>7 DEF FetchInvariant, FlightsLed

LEMMA StepKeeps ==
  ASSUME FetchInvariant, NEW t \in Threads, Step(t) PROVE FetchInvariant'
<1>1. CASE ReturnAlone(t) \/ wait_and_get(t)
  BY <1>1, Facts, ReturnKeeps DEF ReturnAlone, wait_and_get, At
<1> QED
  BY <1>1, LookupKeeps, JoinKeeps, LoadKeeps, StoreKeeps, CompleteKeeps, EraseKeeps DEF Step

LEMMA OutsideKeeps == ASSUME FetchInvariant, Outside PROVE FetchInvariant'
<1>1. env' \in [closed : BOOLEAN, critical : BOOLEAN, singleflight : BOOLEAN]
  BY Zenon DEF FetchInvariant, TypeOK, Outside
<1>2. cached' \subseteq Keys /\ UNCHANGED <<inflight, fetch>>
  BY DEF FetchInvariant, TypeOK, Outside
<1> QED
  BY <1>1, <1>2 DEF FetchInvariant, TypeOK, FlightsLed, FlightHasLeader, LeaderHasFlight,
                    FollowerIsLed, RolesFit, At, Key

(* The inductive invariant of the flights: the types, who leads and who    *)
(* follows, and what every label of the code says of its thread's role.    *)
THEOREM FetchIsSound == Spec => []FetchInvariant
<1>1. FetchInvariant /\ [Next]_vars => FetchInvariant'
  <2> SUFFICES ASSUME FetchInvariant, [Next]_vars PROVE FetchInvariant'
    OBVIOUS
  <2>1. CASE UNCHANGED vars
    BY <2>1 DEF vars, FetchInvariant, TypeOK, FlightsLed, FlightHasLeader, LeaderHasFlight,
                FollowerIsLed, RolesFit, At, Key
  <2> QED
    BY <2>1, CallKeeps, StepKeeps, OutsideKeeps DEF Next
<1> QED
  BY FetchInit, <1>1, PTL DEF Spec

(* For any number of threads and keys, a flight in the map has exactly one *)
(* leader between its acquire and its complete, and a follower that waits  *)
(* in wait_and_get() has a leader at work on its key.                      *)
THEOREM FlightsAreLed == Spec => []FlightsLed
BY FetchIsSound, PTL DEF FetchInvariant
=============================================================================
