-------------------------- MODULE EvictionContract --------------------------
(***************************************************************************)
(* What an eviction strategy promises the cache, whatever its policy, call *)
(* by call.  A call that stores, reads or resizes may make room, but only  *)
(* by evicting items nobody holds and nobody vetoed; del and pop take the  *)
(* item they name, and spare it while it is held; force_del alone does     *)
(* not; a flush takes everything that is not held; evict_expired takes the *)
(* items that have expired and are not held.  No call touches anything     *)
(* else.                                                                   *)
(***************************************************************************)
EXTENDS Naturals, FiniteSets

CONSTANT Keys

VARIABLES
  items,    \* the cached items
  pinned,   \* those callers hold a handle to
  vetoed,   \* those the eviction predicate marks unevictable
  expired,  \* those past their expiry
  sizes,    \* the memory each cached item needs
  caps,     \* the capacities
  call      \* the last call: its kind and the key it names

vars == <<items, pinned, vetoed, expired, sizes, caps, call>>

(* Only items that nobody holds and nobody vetoed leave.                   *)
OnlyEvicted == items \ items' \subseteq items \ (pinned \cup vetoed)

SameSizes(K) == \A k \in K : sizes'[k] = sizes[k]

(* set, add, replace and set_with_expiry.                                  *)
Store(k) ==
  /\ OnlyEvicted /\ items' \ items \subseteq {k}
  /\ pinned' = pinned /\ caps' = caps /\ SameSizes(items' \ {k})

(* get, peek and peek_for_get: a handle to the item, which may itself be   *)
(* evicted on the way.                                                     *)
Get(k) ==
  /\ OnlyEvicted /\ items' \subseteq items /\ k \in items
  /\ pinned' = (pinned \cup {k}) \cap items' /\ caps' = caps /\ SameSizes(items')

(* max_size, max_memory and set_config.                                    *)
Resize ==
  OnlyEvicted /\ items' \subseteq items /\ pinned' = pinned /\ SameSizes(items')

(* The items K and no others leave.                                        *)
Remove(K) ==
  items' = items \ K /\ pinned' = pinned \ K /\ caps' = caps /\ SameSizes(items')

Del(k) == Remove({k} \ pinned)
ForceDel(k) == Remove({k})
PopLru == \E K \in SUBSET (items \ pinned) : Cardinality(K) <= 1 /\ Remove(K)
EvictExpired == Remove(expired \ pinned)
Flush == Remove(items \ pinned)

(* A handle is released.                                                   *)
Release(k) == items' = items /\ pinned' = pinned \ {k} /\ caps' = caps /\ SameSizes(items)

(* Promotions, node replacement, a reload of what was saved.               *)
Touch == Remove({})

(* An item expires.                                                        *)
Late(k) == Remove({}) /\ expired' = expired \cup {k}

Init ==
  /\ items = {} /\ pinned = {} /\ expired = {} /\ vetoed \in SUBSET Keys
  /\ \A k \in Keys : sizes[k] = 0

Next ==
  /\ vetoed' = vetoed
  /\ call'.op # "late" => expired' \subseteq expired
  /\ \/ call'.op = "store" /\ Store(call'.key)
     \/ call'.op = "get" /\ Get(call'.key)
     \/ call'.op = "resize" /\ Resize
     \/ call'.op = "del" /\ Del(call'.key)
     \/ call'.op = "force_del" /\ ForceDel(call'.key)
     \/ call'.op = "pop_lru" /\ PopLru
     \/ call'.op = "evict_expired" /\ EvictExpired
     \/ call'.op = "flush" /\ Flush
     \/ call'.op = "release" /\ Release(call'.key)
     \/ call'.op = "touch" /\ Touch
     \/ call'.op = "late" /\ Late(call'.key)

Spec == Init /\ [][Next]_vars
=============================================================================
