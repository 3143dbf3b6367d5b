------------------------------ MODULE HotKeys -------------------------------
(***************************************************************************)
(* hot_key_replica_manager (hot_key_replica.hpp): copies of a hot key      *)
(* under other keys of the same cache, so that readers spread over its     *)
(* shards.  One key and its copies; copy 0 is the key itself.              *)
(*                                                                         *)
(* Each call of the cache is one step.  Writers share the metadata lock,   *)
(* registering and unregistering take it alone, readers have it only for   *)
(* the look-up.  The cache may evict what nobody holds, and remove()       *)
(* refuses an item that a reader's handle pins.  It may drop a set or cas  *)
(* without a word (critical memory, admission, quota), and a cache that is *)
(* quiesced or shut down throws, which ends the call of the manager.       *)
(***************************************************************************)
EXTENDS Naturals, FiniteSets

CONSTANTS
  Threads, NoThread, Values, NoValue,
  replica_factor,
  MaxCalls         \* bound: calls

VARIABLES
  cache,        \* per copy, its value
  registered,   \* the key is in metadata_
  writer,       \* who has metadata_mutex_ alone
  readers,      \* who shares it
  op,           \* per thread, the call in progress
  calls,
  left,         \* copies that a removal or a failed registration left behind
  missed,       \* copies that did not get the last write
  overlapped    \* two writes of the key have run at the same time

vars == <<cache, registered, writer, readers, op, calls, left, missed, overlapped>>

Copies == 0..replica_factor
Replicas == 1..replica_factor
Idle == [at |-> "idle", what |-> "none", next |-> 0, val |-> NoValue, old |-> NoValue, ok |-> TRUE]
At(t, where) == op[t].at = where
Doing(what) == {t \in Threads : op[t].what = what}
Writes == {"set", "cas"}

Begin(t, record) ==
  /\ At(t, "idle") /\ calls < MaxCalls /\ calls' = calls + 1
  /\ op' = [op EXCEPT ![t] = record]

Pinned(i) == \E t \in Threads : op[t].what = "get" /\ op[t].at = "hold" /\ op[t].next = i

-----------------------------------------------------------------------------
(* register_hot_key(): the key's value to every copy, under the lock.      *)
register_hot_key(t) ==
  /\ writer = NoThread /\ readers = {} /\ ~registered /\ cache[0] # NoValue
  /\ Begin(t, [Idle EXCEPT !.at = "write", !.what = "register", !.next = 1, !.val = cache[0]])
  /\ writer' = t /\ missed' = {}
  /\ UNCHANGED <<cache, registered, readers, left, overlapped>>

(* Mutant: the lock is given up after the look-up.                         *)
replicated_setUnlocked(t, v) ==
  /\ writer = NoThread
  /\ Begin(t, [Idle EXCEPT !.at = "write", !.what = "set", !.val = v, !.ok = registered])
  /\ overlapped' = (overlapped \/ \E w \in Writes : Doing(w) # {})
  /\ UNCHANGED <<cache, registered, writer, readers, left, missed>>

(* replicated_set(): the key, and if it is registered every copy.  ok      *)
(* keeps what the look-up said.                                            *)
replicated_set(t, v) ==
  /\ writer = NoThread
  /\ Begin(t, [Idle EXCEPT !.at = "write", !.what = "set", !.val = v, !.ok = registered])
  /\ readers' = readers \cup {t}
  /\ overlapped' = (overlapped \/ \E w \in Writes : Doing(w) # {})
  /\ UNCHANGED <<cache, registered, writer, left, missed>>

(* replicated_cas(): every copy that has the expected value.               *)
replicated_cas(t, old, new) ==
  /\ writer = NoThread /\ old # new
  /\ Begin(t, [Idle EXCEPT !.at = "write", !.what = "cas", !.val = new, !.old = old,
                           !.ok = registered])
  /\ readers' = readers \cup {t}
  /\ overlapped' = (overlapped \/ \E w \in Writes : Doing(w) # {})
  /\ UNCHANGED <<cache, registered, writer, left, missed>>

(* The copies that a write goes to end here.                               *)
Last(t) == IF op[t].ok THEN replica_factor ELSE 0

(* The next copy of a write, which takes it or not; after the last one the *)
(* lock is given up, and registering makes the key known, whatever the     *)
(* copies took.                                                            *)
Write(t) ==
  LET i == op[t].next
      hit == op[t].what # "cas" \/ cache[i] = op[t].old
      done == i >= Last(t)
  IN
  /\ At(t, "write")
  /\ \E taken \in BOOLEAN :
       /\ cache' = IF hit /\ taken THEN [cache EXCEPT ![i] = op[t].val] ELSE cache
       /\ left' = IF hit /\ taken THEN left \ {i} ELSE left
       /\ missed' = IF hit /\ ~taken THEN missed \cup {i}
                    ELSE IF op[t].what = "cas" THEN missed ELSE missed \ {i}
  /\ op' = [op EXCEPT ![t] = IF done THEN Idle ELSE [@ EXCEPT !.next = i + 1]]
  /\ registered' = (registered \/ (done /\ op[t].what = "register"))
  /\ writer' = IF done /\ writer = t THEN NoThread ELSE writer
  /\ readers' = IF done THEN readers \ {t} ELSE readers
  /\ UNCHANGED <<calls, overlapped>>

(* The cache throws: the call ends, the lock is given up, and the copies   *)
(* written so far stay.                                                    *)
Throw(t) ==
  LET i == op[t].next IN
  /\ op[t].at \in {"write", "remove"}
  /\ op' = [op EXCEPT ![t] = Idle]
  /\ writer' = IF writer = t THEN NoThread ELSE writer
  /\ readers' = readers \ {t}
  /\ missed' = IF At(t, "write") THEN missed \cup (i..Last(t)) ELSE missed
  /\ left' = IF op[t].what = "register" THEN left \cup (1..(i - 1)) ELSE left
  /\ UNCHANGED <<cache, registered, calls, overlapped>>

-----------------------------------------------------------------------------
(* unregister_hot_key(): every copy is removed, then the metadata.         *)
unregister_hot_key(t) ==
  /\ writer = NoThread /\ readers = {} /\ registered
  /\ Begin(t, [Idle EXCEPT !.at = "remove", !.what = "unregister", !.next = 1])
  /\ writer' = t
  /\ UNCHANGED <<cache, registered, readers, left, missed, overlapped>>

RemoveCopy(t) ==
  LET i == op[t].next
      done == i >= replica_factor
  IN
  /\ At(t, "remove")
  /\ IF Pinned(i) THEN left' = left \cup {i} /\ UNCHANGED cache
     ELSE cache' = [cache EXCEPT ![i] = NoValue] /\ UNCHANGED left
  /\ op' = [op EXCEPT ![t] = IF done THEN Idle ELSE [@ EXCEPT !.next = i + 1]]
  /\ registered' = (registered /\ ~done)
  /\ writer' = IF done THEN NoThread ELSE writer
  /\ UNCHANGED <<readers, calls, missed, overlapped>>

(* replicated_get(): the look-up under the lock, then a copy at random     *)
(* without it, and the key itself if the copy is gone.                     *)
replicated_get(t) ==
  /\ writer = NoThread
  /\ \E i \in IF registered THEN Replicas ELSE {0} :
       Begin(t, [Idle EXCEPT !.at = "peek", !.what = "get", !.next = i])
  /\ UNCHANGED <<cache, registered, writer, readers, left, missed, overlapped>>

Peek(t) ==
  LET i == op[t].next IN
  /\ At(t, "peek")
  /\ op' = [op EXCEPT ![t] = IF cache[i] # NoValue THEN [@ EXCEPT !.at = "hold"]
                             ELSE IF i # 0 THEN [@ EXCEPT !.next = 0] ELSE Idle]
  /\ UNCHANGED <<cache, registered, writer, readers, calls, left, missed, overlapped>>

Release(t) ==
  /\ At(t, "hold") /\ op' = [op EXCEPT ![t] = Idle]
  /\ UNCHANGED <<cache, registered, writer, readers, calls, left, missed, overlapped>>

Evict(i) ==
  /\ calls < MaxCalls /\ cache[i] # NoValue /\ ~Pinned(i)
  /\ cache' = [cache EXCEPT ![i] = NoValue]
  /\ UNCHANGED <<registered, writer, readers, op, calls, left, missed, overlapped>>

-----------------------------------------------------------------------------
Init ==
  /\ \E v \in Values : cache = [i \in Copies |-> IF i = 0 THEN v ELSE NoValue]
  /\ registered = FALSE /\ writer = NoThread /\ readers = {}
  /\ op = [t \in Threads |-> Idle] /\ calls = 0
  /\ left = {} /\ missed = {} /\ overlapped = FALSE

Done == calls = MaxCalls /\ (\A t \in Threads : At(t, "idle")) /\ UNCHANGED vars
Next ==
  \/ \E t \in Threads :
       \/ register_hot_key(t) \/ unregister_hot_key(t) \/ replicated_get(t)
       \/ Write(t) \/ Throw(t) \/ RemoveCopy(t) \/ Peek(t) \/ Release(t)
       \/ \E v \in Values : replicated_set(t, v) \/ \E old \in Values : replicated_cas(t, old, v)
  \/ (\E i \in Copies : Evict(i)) \/ Done
Spec == Init /\ [][Next]_vars

-----------------------------------------------------------------------------
TypeOK ==
  /\ cache \in [Copies -> Values \cup {NoValue}]
  /\ readers \subseteq Threads /\ writer \in Threads \cup {NoThread}
  /\ left \subseteq Replicas /\ missed \subseteq Copies

(* No copy outlives its registration, except one whose removal met the     *)
(* handle of a reader, or that a registration wrote before the cache       *)
(* threw: no later call of unregister_hot_key() finds it.                  *)
NoOrphans ==
  (~registered /\ writer = NoThread) => \A i \in Replicas : cache[i] # NoValue => i \in left

(* Between writes, if none has overlapped another, the key and the copies  *)
(* that readers are sent to have one value, except those that the cache    *)
(* did not let the last write reach: what a copy missed by a refusal or an *)
(* exception stays missed until a set reaches it.                          *)
CopiesAgree ==
  (registered /\ ~overlapped /\ writer = NoThread /\ readers = {}) =>
    \A i, j \in Copies \ missed : NoValue \notin {cache[i], cache[j]} => cache[i] = cache[j]

(* "Writes are eventually consistent across replicas": once every writer   *)
(* has returned the copies agree with the key.                             *)
ReplicasConverge ==
  (registered /\ writer = NoThread /\ readers = {} /\ cache[0] # NoValue) =>
    \A i \in Replicas : cache[i] \in {cache[0], NoValue}
=============================================================================
