--------------------------- MODULE MCUnifiedCache ---------------------------
(***************************************************************************)
(* UnifiedCache with two threads, two shards and up to three keys, k1 and  *)
(* k2 in the first shard.  Each menu brings together operations that can   *)
(* disturb each other.                                                     *)
(***************************************************************************)
EXTENDS UnifiedCache, TLC

CONSTANTS k1, k2, k3, v1, v2

MCShardOf == (k1 :> 1) @@ (k2 :> 1) @@ (k3 :> 2)
Menu(ops, keys, vals, handles) ==
  [ops |-> ops, keys |-> keys, vals |-> vals, handles |-> handles, policy |-> "allow",
   defer |-> FALSE, monitor |-> FALSE, soft |-> 100, critical |-> 100,
   cap |-> 2, caps |-> {2, 4}, budget |-> 4, budgets |-> {2, 4}]
MCMenus ==
  {Menu({"set", "bulk_get", "flush", "shutdown"}, {k1, k3}, {v1}, 1),
   [Menu({"set", "evict", "get", "set_max_memory"}, {k1, k3}, {v1}, 1)
      EXCEPT !.soft = 50, !.monitor = TRUE],
   [Menu({"set_prehashed", "del", "set_max_memory", "shutdown"}, {k1, k3}, {v1}, 0)
      EXCEPT !.budget = 2, !.budgets = {2}, !.soft = 50, !.critical = 50, !.monitor = TRUE],
   [Menu({"set_with_ttl", "add", "pop", "get_with_ttl"}, {k1, k2}, {v1}, 1)
      EXCEPT !.policy = "reject"],
   Menu({"set_with_absolute_expiry", "remove", "del_ex", "get_prehashed"}, {k1}, {v1}, 1),
   [Menu({"cas", "replace", "set_prehashed"}, {k1}, {v1, v2}, 0) EXCEPT !.monitor = TRUE],
   Menu({"cas_retry", "set_prehashed", "force_del"}, {k1}, {v1, v2}, 0),
   [Menu({"set_multi", "get_multi", "promote", "quiesce", "del"}, {k1, k3}, {v1}, 1)
      EXCEPT !.monitor = TRUE],
   Menu({"set", "get", "max_size"}, {k1, k2}, {v1}, 1),
   [Menu({"set", "try_get", "max_size"}, {k1, k2, k3}, {v1}, 2)
      EXCEPT !.cap = 4, !.caps = {2}],
   [Menu({"add", "get", "max_memory"}, {k1, k2}, {v1}, 1) EXCEPT !.cap = 4],
   [Menu({"set_prehashed", "fast_get", "pop_lru", "flush"}, {k1, k2}, {v1}, 2)
      EXCEPT !.policy = "force", !.defer = TRUE]}
Sym == Permutations(Threads)
=============================================================================
