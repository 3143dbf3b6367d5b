------------------------- MODULE UnifiedCacheProofs -------------------------
(***************************************************************************)
(* The locks of unified_cache, for any number of threads, shards and keys: *)
(* a call holds the lock of a shard exactly while it works under it, two   *)
(* threads meet in a shard only when one is pop_lru or changes a limit,    *)
(* and no entry into critical memory mode goes unreported.                 *)
(*                                                                         *)
(* The argument is about the calls alone: what they do to the shards (mm)  *)
(* is not looked at.  CallOK says what the place of a thread in its call   *)
(* implies about the locks and about its report; a step changes the call   *)
(* and the locks of one thread only (Alone), so that each action has only  *)
(* its own thread's CallOK to show.                                        *)
(***************************************************************************)
EXTENDS UnifiedCache, FiniteSetTheorems, TLAPS

(* The provers that a step is given when it names none, one after another. *)
USE SMTT(10), ZenonT(20), SMTT(20), SMTT(40)

Shape(r) == r = [op |-> r.op, at |-> r.at, todo |-> r.todo, val |-> r.val, want |-> r.want,
                 before |-> r.before, seen |-> r.seen, tries |-> r.tries, evt |-> r.evt]
Shaped ==
  /\ call = [t \in Threads |-> call[t]] /\ \A t \in Threads : Shape(call[t])
  /\ owner \in [Shards -> Threads \cup {NoThread}]
  /\ mode \in [closed : BOOLEAN, quiesced : BOOLEAN, frozen : BOOLEAN, critical : BOOLEAN]
  /\ menu \in Menus

Keyed == {"in", "enforce", "reclaim", "progress", "rollback", "press", "leave"}
Outside == {"idle", "refused", "drain", "peek", "want", "notify", "hit", "bulk", "last_drain",
            "await", "recheck"}
Owns(t) == \E s \in Shards : owner[s] = t

CallOK(t) ==
  /\ call[t].at = "touch" => call[t].op \in StripeOnly
  /\ call[t].at \in Keyed => \E k \in call[t].todo : owner[ShardOf[k]] = t
  /\ call[t].at = "flushing" => call[t].before \in Shards /\ owner[call[t].before] = t
  /\ Owns(t) => call[t].at \in Locking
  /\ call[t].at \in Sweeps <=> stripes = t
  /\ call[t].at # "hit" => call[t].todo \subseteq Keys
  /\ call[t].evt \in BOOLEAN
  /\ call[t].evt => call[t].at \in {"leave", "notify"} /\ call[t].op \in Pressing
  /\ call[t].op \in Pressing => \E k \in Keys : call[t].todo = {k}
  /\ call[t].at = "press" => call[t].op \in Pressing

OneLock == \A s, r \in Shards : owner[s] \in Threads /\ owner[s] = owner[r] => s = r

LockInvariant == Shaped /\ OneLock /\ \A t \in Threads : CallOK(t)
-----------------------------------------------------------------------------
(* Records.                                                                *)

LEMMA SetCall ==
  ASSUME Shaped, NEW t \in Threads, NEW r, Shape(r), call' = [call EXCEPT ![t] = r]
  PROVE  /\ call' = [u \in Threads |-> call'[u]] /\ \A u \in Threads : Shape(call'[u])
         /\ call'[t] = r /\ \A u \in Threads \ {t} : call'[u] = call[u]
<1>1. /\ call' = [u \in Threads |-> call'[u]]
      /\ call'[t] = r /\ \A u \in Threads \ {t} : call'[u] = call[u]
  BY DEF Shaped
<1> QED  BY <1>1 DEF Shaped

LEMMA GoShape ==
  ASSUME NEW r, Shape(r), NEW l
  PROVE  LET q == [r EXCEPT !.at = l]
         IN  /\ Shape(q) /\ q.at = l /\ q.op = r.op /\ q.todo = r.todo /\ q.before = r.before
             /\ q.evt = r.evt
BY DEF Shape

LEMMA GoTo ==
  ASSUME Shaped, NEW t \in Threads, NEW l, Go(t, l)
  PROVE  /\ call' = [u \in Threads |-> call'[u]] /\ \A u \in Threads : Shape(call'[u])
         /\ call'[t].at = l /\ call'[t].op = call[t].op /\ call'[t].todo = call[t].todo
         /\ call'[t].before = call[t].before /\ call'[t].evt = call[t].evt
         /\ \A u \in Threads \ {t} : call'[u] = call[u]
<1> DEFINE q == [call[t] EXCEPT !.at = l]
<1>1. Shape(call[t])
  BY DEF Shaped
<1>2. /\ Shape(q) /\ q.at = l /\ q.op = call[t].op /\ q.todo = call[t].todo
      /\ q.before = call[t].before /\ q.evt = call[t].evt
  BY <1>1, GoShape
<1>3. call' = [call EXCEPT ![t] = q]
  BY DEF Go
<1> HIDE DEF q
<1> QED  BY <1>2, <1>3, SetCall, Zenon

LEMMA IdleShape ==
  /\ Shape(Idle) /\ Idle.at = "idle" /\ Idle.op = "none" /\ Idle.todo = {} /\ Idle.evt = FALSE
BY DEF Shape, Idle

-----------------------------------------------------------------------------
(* A step of one thread: the others' calls stay, and so do the locks that  *)
(* are not the thread's before or after.                                   *)
Alone(t) ==
  /\ call' = [u \in Threads |-> call'[u]] /\ Shape(call[t])'
  /\ \A u \in Threads \ {t} : call'[u] = call[u]
  /\ owner' \in [Shards -> Threads \cup {NoThread}]
  /\ \A s \in Shards : owner'[s] = owner[s] \/ {owner[s], owner'[s]} \subseteq {t, NoThread}
  /\ \A s, r \in Shards : owner'[s] = t /\ owner'[r] = t => s = r
  /\ stripes' = stripes \/ {stripes, stripes'} \subseteq {t, NoThread}
  /\ mode' \in [closed : BOOLEAN, quiesced : BOOLEAN, frozen : BOOLEAN, critical : BOOLEAN]
  /\ menu' = menu

LEMMA AloneKeeps ==
  ASSUME LockInvariant, NEW t \in Threads, Alone(t), CallOK(t)'
  PROVE  LockInvariant'
<1>1. Shaped'
  BY DEF LockInvariant, Shaped, Alone
<1>2. OneLock'
  <2>1. ASSUME NEW s \in Shards, NEW r \in Shards, owner'[s] \in Threads, owner'[s] = owner'[r]
        PROVE  s = r
    <3>1. CASE owner'[s] = t
      BY <2>1, <3>1, Zenon DEF Alone
    <3>2. CASE owner'[s] # t
      <4>1. owner'[s] = owner[s] /\ owner'[r] = owner[r]
        BY <2>1, <3>2, CacheAssumption DEF Alone
      <4> QED  BY <2>1, <4>1, Zenon DEF LockInvariant, OneLock
    <3> QED  BY <3>1, <3>2
  <2> QED  BY <2>1 DEF OneLock
<1>3. ASSUME NEW u \in Threads, u # t PROVE CallOK(u)'
  <2>1. CallOK(u) /\ call'[u] = call[u]
    BY <1>3 DEF LockInvariant, Alone
  <2>2. \A s \in Shards : owner'[s] = u <=> owner[s] = u
    BY <1>3, CacheAssumption DEF Alone
  <2>3. stripes' = u <=> stripes = u
    BY <1>3, CacheAssumption DEF Alone
  <2>4. ASSUME call[u].at \in Keyed PROVE \E k \in call[u].todo : owner'[ShardOf[k]] = u
    <3>1. PICK k \in call[u].todo : owner[ShardOf[k]] = u
      BY <2>1, <2>4 DEF CallOK
    <3>2. k \in Keys
      BY <2>1, <2>4, <3>1 DEF CallOK, Keyed
    <3>3. ShardOf[k] \in Shards
      BY <3>2, ShardAssumption
    <3> QED  BY <2>2, <3>1, <3>3
  <2> QED  BY <2>1, <2>2, <2>3, <2>4, Zenon DEF CallOK, Owns
<1> QED  BY <1>1, <1>2, <1>3 DEF LockInvariant

(* From one place outside the locks to another.                            *)
LEMMA OutsideKeeps ==
  ASSUME LockInvariant, NEW t \in Threads, call[t].at \in Outside, NEW r, Shape(r),
         call' = [call EXCEPT ![t] = r], r.at \in Outside, r.evt = FALSE,
         r.at # "hit" => r.todo \subseteq Keys,
         r.op \in Pressing => \E k \in Keys : r.todo = {k},
         UNCHANGED <<owner, stripes, menu>>,
         mode' \in [closed : BOOLEAN, quiesced : BOOLEAN, frozen : BOOLEAN, critical : BOOLEAN]
  PROVE  LockInvariant'
<1>1. /\ call' = [u \in Threads |-> call'[u]] /\ Shape(call'[t]) /\ call'[t] = r
      /\ \A u \in Threads \ {t} : call'[u] = call[u]
  BY SetCall, Zenon DEF LockInvariant
<1>2. Alone(t)
  <2>1. owner' \in [Shards -> Threads \cup {NoThread}]
    BY DEF LockInvariant, Shaped
  <2>2. \A s, p \in Shards : owner'[s] = t /\ owner'[p] = t => s = p
    BY DEF LockInvariant, OneLock
  <2> QED  BY <1>1, <2>1, <2>2 DEF Alone
<1>3. CallOK(t)'
  <2>1. r.at \notin Locking \cup Sweeps \cup Keyed /\ r.at # "touch" /\ r.at # "press" /\ r.at # "flushing"
        /\ call[t].at \notin Locking \cup Sweeps
    BY DEF Outside, Locking, Sweeps, Keyed
  <2>2. ~Owns(t)' /\ stripes' # t
    BY <2>1 DEF LockInvariant, CallOK, Owns
  <2> QED  BY <1>1, <2>1, <2>2, Zenon DEF CallOK
<1> QED  BY <1>2, <1>3, AloneKeeps

(* From one place under a shard lock to another.                           *)
LEMMA WithinKeeps ==
  ASSUME LockInvariant, NEW t \in Threads, call[t].at \in Keyed, NEW r, Shape(r),
         call' = [call EXCEPT ![t] = r], r.at \in Keyed, r.op = call[t].op, r.todo = call[t].todo,
         r.evt \in BOOLEAN, r.evt => r.at = "leave" /\ r.op \in Pressing,
         r.at = "press" => r.op \in Pressing,
         UNCHANGED <<owner, stripes, menu>>,
         mode' \in [closed : BOOLEAN, quiesced : BOOLEAN, frozen : BOOLEAN, critical : BOOLEAN]
  PROVE  LockInvariant'
<1>1. /\ call' = [u \in Threads |-> call'[u]] /\ Shape(call'[t]) /\ call'[t] = r
      /\ \A u \in Threads \ {t} : call'[u] = call[u]
  BY SetCall, Zenon DEF LockInvariant
<1>2. Alone(t)
  <2>1. owner' \in [Shards -> Threads \cup {NoThread}]
    BY DEF LockInvariant, Shaped
  <2>2. \A s, p \in Shards : owner'[s] = t /\ owner'[p] = t => s = p
    BY DEF LockInvariant, OneLock
  <2> QED  BY <1>1, <2>1, <2>2 DEF Alone
<1>3. CallOK(t)'
  <2>1. r.at \notin Sweeps /\ r.at \in Locking /\ r.at # "hit" /\ call[t].at \notin Sweeps
        /\ r.at # "touch" /\ r.at # "flushing" /\ call[t].at # "hit"
    BY DEF Keyed, Locking, Sweeps
  <2>2. CallOK(t)
    BY DEF LockInvariant
  <2>3. \E k \in r.todo : owner'[ShardOf[k]] = t
    BY <2>2 DEF CallOK
  <2>4. stripes' # t /\ r.todo \subseteq Keys
    BY <2>1, <2>2 DEF CallOK
  <2>5. r.op \in Pressing => \E k \in Keys : r.todo = {k}
    BY <2>2 DEF CallOK
  <2> QED  BY <1>1, <2>1, <2>3, <2>4, <2>5 DEF CallOK
<1> QED  BY <1>2, <1>3, AloneKeeps
-----------------------------------------------------------------------------
(* The calls begin and end outside the locks.                              *)

LEMMA ModeOK ==
  ASSUME Shaped, NEW b \in BOOLEAN,
         \/ mode' = mode \/ mode' = [mode EXCEPT !.closed = b]
         \/ mode' = [mode EXCEPT !.quiesced = b] \/ mode' = [mode EXCEPT !.frozen = b]
         \/ mode' = [mode EXCEPT !.critical = b]
         \/ mode' = [mode EXCEPT !.quiesced = b, !.frozen = b]
  PROVE  mode' \in [closed : BOOLEAN, quiesced : BOOLEAN, frozen : BOOLEAN, critical : BOOLEAN]
BY Zenon DEF Shaped

LEMMA BeginKeyKeeps ==
  ASSUME LockInvariant, NEW t \in Threads, BeginKey(t)
  PROVE  LockInvariant'
<1>1. PICK op \in menu.ops \cap (KeyOps \ Unchecked), k \in menu.keys, v \in menu.vals,
           w \in menu.vals : pre_write_check(t, op, {k}, v, w)
  BY Zenon DEF BeginKey
<1> DEFINE l == IF mode.critical /\ op \in Refusable THEN "refused"
                ELSE IF op \in Draining THEN "drain"
                ELSE IF op = "cas_retry" THEN "peek" ELSE "want"
           r == [Idle EXCEPT !.op = op, !.todo = {k}, !.val = v, !.want = w, !.at = l]
<1>2. call' = [call EXCEPT ![t] = r] /\ l \in Outside
  BY <1>1 DEF pre_write_check, Outside
<1> HIDE DEF l
<1>3. Shape(r) /\ r.at = l /\ r.op = op /\ r.todo = {k} /\ r.evt = FALSE
  <2>1. r = [Idle EXCEPT !.op = op, !.todo = {k}, !.val = v, !.want = w, !.at = l]
    OBVIOUS
  <2> HIDE DEF r
  <2>2. \E x, y : r = [op |-> op, at |-> l, todo |-> {k}, val |-> x, want |-> y,
                         before |-> Idle.before, seen |-> Idle.seen, tries |-> Idle.tries,
                         evt |-> Idle.evt]
    BY <2>1, IdleShape, Zenon DEF Shape
  <2> QED  BY <2>2, IdleShape DEF Shape
<1>4. k \in Keys /\ menu.keys \subseteq Keys
  BY CacheAssumption DEF LockInvariant, Shaped
<1>5. /\ UNCHANGED <<owner, stripes, menu, mode>> /\ call[t].at \in Outside
      /\ mode' \in [closed : BOOLEAN, quiesced : BOOLEAN, frozen : BOOLEAN, critical : BOOLEAN]
  BY ModeOK DEF BeginKey, At, Outside, LockInvariant, Shaped
<1> HIDE DEF r
<1> QED  BY <1>2, <1>3, <1>4, <1>5, OutsideKeeps, Zenon

LEMMA BeginMultiKeeps ==
  ASSUME LockInvariant, NEW t \in Threads, BeginMulti(t)
  PROVE  LockInvariant'
<1>1. PICK op \in menu.ops \cap Unchecked, K \in (SUBSET menu.keys) \ {{}}, v \in menu.vals :
           Unguarded(t, op, K, v)
  BY DEF BeginMulti
<1> DEFINE r == [Idle EXCEPT !.op = op, !.todo = K, !.val = v, !.at = "want"]
<1>2. call' = [call EXCEPT ![t] = r]
  BY <1>1 DEF Unguarded
<1>3. Shape(r) /\ r.at = "want" /\ r.op = op /\ r.todo = K /\ r.evt = FALSE
  <2>1. r = [Idle EXCEPT !.op = op, !.todo = K, !.val = v, !.at = "want"]
    OBVIOUS
  <2> HIDE DEF r
  <2>2. \E x, y : r = [op |-> op, at |-> "want", todo |-> K, val |-> x, want |-> y,
                         before |-> Idle.before, seen |-> Idle.seen, tries |-> Idle.tries,
                         evt |-> Idle.evt]
    BY <2>1, IdleShape, Zenon DEF Shape
  <2> QED  BY <2>2, IdleShape DEF Shape
<1>4. K \subseteq Keys /\ op \notin Pressing /\ "want" \in Outside
  BY CacheAssumption DEF LockInvariant, Shaped, Unchecked, Pressing, Outside
<1>5. /\ UNCHANGED <<owner, stripes, menu, mode>> /\ call[t].at \in Outside
      /\ mode' \in [closed : BOOLEAN, quiesced : BOOLEAN, frozen : BOOLEAN, critical : BOOLEAN]
  BY ModeOK DEF BeginMulti, At, Outside, LockInvariant, Shaped
<1> HIDE DEF r
<1> QED  BY <1>2, <1>3, <1>4, <1>5, OutsideKeeps, Zenon

LEMMA BeginOtherKeeps ==
  ASSUME LockInvariant, NEW t \in Threads,
         BeginSweep(t) \/ bulk_get(t) \/ shutdown(t) \/ quiesce(t)
  PROVE  LockInvariant'
<1>1. /\ UNCHANGED <<owner, stripes, menu>> /\ call[t].at \in Outside
      /\ mode' \in [closed : BOOLEAN, quiesced : BOOLEAN, frozen : BOOLEAN, critical : BOOLEAN]
  BY ModeOK, Zenon DEF BeginSweep, bulk_get, shutdown, quiesce, At, Outside, LockInvariant
<1>2. CASE BeginSweep(t) \/ shutdown(t) \/ quiesce(t)
  <2>1. PICK op \in Sweeping \cup {"shutdown", "quiesce"}, l \in {"drain", "want", "last_drain", "await"} :
           call' = [call EXCEPT ![t] = [Idle EXCEPT !.op = op, !.at = l]]
    BY <1>2, Zenon DEF BeginSweep, shutdown, quiesce
  <2> DEFINE r == [Idle EXCEPT !.op = op, !.at = l]
  <2>2. Shape(r) /\ r.at = l /\ r.op = op /\ r.todo = {} /\ r.evt = FALSE
    <3>1. r = [Idle EXCEPT !.op = op, !.at = l]
      OBVIOUS
    <3> HIDE DEF r
    <3>2. \E x, y : r = [op |-> op, at |-> l, todo |-> {}, val |-> x, want |-> y,
                         before |-> Idle.before, seen |-> Idle.seen, tries |-> Idle.tries,
                         evt |-> Idle.evt]
      BY <3>1, IdleShape, Zenon DEF Shape
    <3> QED  BY <3>2, IdleShape DEF Shape
  <2>3. l \in Outside /\ op \notin Pressing
    BY DEF Outside, Pressing, Sweeping, Resizing
  <2>4. call' = [call EXCEPT ![t] = r]
    BY <2>1
  <2> HIDE DEF r
  <2> QED  BY <1>1, <2>2, <2>3, <2>4, OutsideKeeps, Zenon
<1>3. CASE bulk_get(t)
  <2>1. PICK K \in SUBSET menu.keys :
           call' = [call EXCEPT ![t] = [Idle EXCEPT !.op = "bulk_get", !.at = "bulk", !.todo = K]]
    BY <1>3, Zenon DEF bulk_get
  <2> DEFINE r == [Idle EXCEPT !.op = "bulk_get", !.at = "bulk", !.todo = K]
  <2>2. Shape(r) /\ r.at = "bulk" /\ r.op = "bulk_get" /\ r.todo = K /\ r.evt = FALSE
    <3>1. r = [Idle EXCEPT !.op = "bulk_get", !.at = "bulk", !.todo = K]
      OBVIOUS
    <3> HIDE DEF r
    <3>2. \E x, y : r = [op |-> "bulk_get", at |-> "bulk", todo |-> K, val |-> x, want |-> y,
                         before |-> Idle.before, seen |-> Idle.seen, tries |-> Idle.tries,
                         evt |-> Idle.evt]
      BY <3>1, IdleShape, Zenon DEF Shape
    <3> QED  BY <3>2, IdleShape DEF Shape
  <2>3. "bulk" \in Outside /\ "bulk_get" \notin Pressing /\ K \subseteq Keys
    BY CacheAssumption DEF Outside, Pressing, LockInvariant, Shaped
  <2>4. call' = [call EXCEPT ![t] = r]
    BY <2>1
  <2> HIDE DEF r
  <2> QED  BY <1>1, <2>2, <2>3, <2>4, OutsideKeeps, Zenon
<1> QED  BY <1>2, <1>3

LEMMA HitKeeps ==
  ASSUME LockInvariant, NEW t \in Threads, NEW op, NEW how \in {"get", "fast_get"}, Hit(t, op, how)
  PROVE  LockInvariant'
<1>1. PICK k : call' = [call EXCEPT ![t] = [Idle EXCEPT !.op = how, !.at = "hit", !.todo = {k}]]
  BY Zenon DEF Hit
<1> DEFINE r == [Idle EXCEPT !.op = how, !.at = "hit", !.todo = {k}]
<1>2. Shape(r) /\ r.at = "hit" /\ r.op = how /\ r.evt = FALSE
  <2>1. r = [Idle EXCEPT !.op = how, !.at = "hit", !.todo = {k}]
    OBVIOUS
  <2> HIDE DEF r
  <2>2. \E x, y : r = [op |-> how, at |-> "hit", todo |-> {k}, val |-> x, want |-> y,
                         before |-> Idle.before, seen |-> Idle.seen, tries |-> Idle.tries,
                         evt |-> Idle.evt]
    BY <2>1, IdleShape, Zenon DEF Shape
  <2> QED  BY <2>2, IdleShape DEF Shape
<1>3. "hit" \in Outside /\ how \notin Pressing
  BY DEF Outside, Pressing
<1>4. call' = [call EXCEPT ![t] = r]
  BY <1>1
<1>5. /\ UNCHANGED <<owner, stripes, menu, mode>> /\ call[t].at \in Outside
      /\ mode' \in [closed : BOOLEAN, quiesced : BOOLEAN, frozen : BOOLEAN, critical : BOOLEAN]
  BY ModeOK DEF Hit, At, Outside, LockInvariant, Shaped
<1> HIDE DEF r
<1> QED  BY <1>2, <1>3, <1>4, <1>5, OutsideKeeps, Zenon

(* Returns, and the moves between places outside the locks.                *)
LEMMA ReturnKeeps ==
  ASSUME LockInvariant, NEW t \in Threads, call[t].at \in Outside, Return(t),
         UNCHANGED <<owner, stripes, menu>>,
         mode' \in [closed : BOOLEAN, quiesced : BOOLEAN, frozen : BOOLEAN, critical : BOOLEAN]
  PROVE  LockInvariant'
<1>1. "idle" \in Outside /\ "none" \notin Pressing /\ call' = [call EXCEPT ![t] = Idle]
  BY DEF Outside, Pressing, Return
<1> QED  BY <1>1, IdleShape, OutsideKeeps, Zenon

LEMMA ReturnsKeep ==
  ASSUME LockInvariant, NEW t \in Threads,
         \/ report_write_rejected(t) \/ dispatch_oom_event(t) \/ PromoteHit(t)
         \/ record_access_in_ring(t) \/ LastDrain(t) \/ wait_for_handles_to_drain(t)
  PROVE  LockInvariant'
<1>1. UNCHANGED <<owner, stripes, menu>> /\ call[t].at \in Outside /\ Return(t)
  BY DEF report_write_rejected, dispatch_oom_event, PromoteHit, record_access_in_ring, LastDrain,
         wait_for_handles_to_drain, At, Outside
<1>2. mode' \in [closed : BOOLEAN, quiesced : BOOLEAN, frozen : BOOLEAN, critical : BOOLEAN]
  <2>1. \/ mode' = mode \/ mode' = [mode EXCEPT !.quiesced = FALSE]
        \/ mode' = [mode EXCEPT !.frozen = TRUE]
    BY DEF report_write_rejected, dispatch_oom_event, PromoteHit, record_access_in_ring, LastDrain,
           wait_for_handles_to_drain
  <2> QED  BY <2>1, ModeOK, Zenon DEF LockInvariant
<1> QED  BY <1>1, <1>2, ReturnKeeps

LEMMA GoSets ==
  ASSUME Shaped, NEW t \in Threads, NEW l, Go(t, l)
  PROVE  call' = [call EXCEPT ![t] = call'[t]]
<1>1. /\ call = [u \in Threads |-> call[u]] /\ call' = [u \in Threads |-> call'[u]]
      /\ \A u \in Threads \ {t} : call'[u] = call[u]
  BY GoTo DEF Shaped
<1> QED  BY <1>1

LEMMA OutsideGo ==
  ASSUME LockInvariant, NEW t \in Threads, call[t].at \in Outside \ {"hit", "notify"},
         NEW l \in Outside, Go(t, l), UNCHANGED <<owner, stripes, menu>>,
         mode' \in [closed : BOOLEAN, quiesced : BOOLEAN, frozen : BOOLEAN, critical : BOOLEAN]
  PROVE  LockInvariant'
<1> DEFINE r == call'[t]
<1>1. call' = [call EXCEPT ![t] = r]
  BY GoSets DEF LockInvariant
<1>2. Shape(r) /\ r.at = l /\ r.op = call[t].op /\ r.todo = call[t].todo /\ r.evt = call[t].evt
  BY GoTo DEF LockInvariant
<1>3. CallOK(t) /\ call[t].at \notin {"leave", "notify", "hit"}
  BY DEF LockInvariant, Outside
<1>4. call[t].evt = FALSE /\ call[t].todo \subseteq Keys
  BY <1>3 DEF CallOK
<1>5. call[t].op \in Pressing => \E k \in Keys : call[t].todo = {k}
  BY <1>3 DEF CallOK
<1> HIDE DEF r
<1> QED  BY <1>1, <1>2, <1>4, <1>5, OutsideKeeps, Zenon

LEMMA DrainKeeps ==
  ASSUME LockInvariant, NEW t \in Threads, maybe_drain_tls_ring_pre_evict(t)
  PROVE  LockInvariant'
<1>1. /\ UNCHANGED <<owner, stripes, menu, mode>> /\ call[t].at \in Outside \ {"hit", "notify"}
      /\ Go(t, "want") /\ "want" \in Outside
  BY DEF maybe_drain_tls_ring_pre_evict, At, Outside
<1>2. mode' \in [closed : BOOLEAN, quiesced : BOOLEAN, frozen : BOOLEAN, critical : BOOLEAN]
  BY <1>1 DEF LockInvariant, Shaped
<1> QED  BY <1>1, <1>2, OutsideGo

LEMMA PressureIsBoolean ==
  ASSUME NEW m, NEW c \in BOOLEAN
  PROVE  Pressure(m, c) \in BOOLEAN /\ Entered(m, c) \in BOOLEAN
BY Zenon DEF Pressure, Entered

LEMMA SetMaxMemoryKeeps ==
  ASSUME LockInvariant, NEW t \in Threads, set_max_memory(t)
  PROVE  LockInvariant'
<1> DEFINE b == Pressure(mm, mode.critical)
           e == Entered(mm, mode.critical)
<1>1. UNCHANGED <<owner, stripes, menu>> /\ call[t].at \in Outside \ {"hit", "notify"}
  BY DEF set_max_memory, At, Outside
<1>2. mode' = [mode EXCEPT !.critical = b]
  BY DEF set_max_memory
<1>3. b \in BOOLEAN
  BY PressureIsBoolean DEF LockInvariant, Shaped
<1>4. call' = [call EXCEPT ![t] = IF e THEN [call[t] EXCEPT !.at = "notify"] ELSE Idle]
  BY DEF set_max_memory
<1> HIDE DEF b, e
<1>5. mode' \in [closed : BOOLEAN, quiesced : BOOLEAN, frozen : BOOLEAN, critical : BOOLEAN]
  BY <1>2, <1>3, ModeOK, Zenon DEF LockInvariant
<1>6. CASE e
  <2>1. Go(t, "notify") /\ "notify" \in Outside
    BY <1>4, <1>6 DEF Go, Outside
  <2> QED  BY <1>1, <1>5, <2>1, OutsideGo
<1>7. CASE ~e
  <2>1. Return(t) /\ call[t].at \in Outside
    BY <1>1, <1>4, <1>7 DEF Return
  <2> QED  BY <1>1, <1>5, <2>1, ReturnKeeps
<1> QED  BY <1>6, <1>7

(* cas with retries and bulk_get, between their keys and tries.            *)
LEMMA CasPeekKeeps ==
  ASSUME LockInvariant, NEW t \in Threads, CasPeek(t)
  PROVE  LockInvariant'
<1> DEFINE c == call[t]
           q == [c EXCEPT !.at = "want", !.before = c.before + 1]
<1>1. /\ UNCHANGED <<owner, stripes, menu, mode>> /\ c.at \in Outside /\ c.at = "peek"
      /\ \/ call' = [call EXCEPT ![t] = q]
         \/ call' = [call EXCEPT ![t] = Idle]
  <2>1. PICK k \in c.todo :
          call' = [call EXCEPT ![t] = IF Matches(t, k) /\ @.before < CasRetries
                                      THEN [@ EXCEPT !.at = "want", !.before = c.before + 1] ELSE Idle]
    BY Zenon DEF CasPeek
  <2>2. UNCHANGED <<owner, stripes, menu, mode>> /\ c.at \in Outside /\ c.at = "peek"
    BY DEF CasPeek, At, Outside
  <2>3. CASE Matches(t, k) /\ c.before < CasRetries
    BY <2>1, <2>2, <2>3
  <2>4. CASE ~(Matches(t, k) /\ c.before < CasRetries)
    BY <2>1, <2>2, <2>4, Zenon
  <2> QED  BY <2>2, <2>3, <2>4
<1>2. Shape(c) /\ CallOK(t)
  BY DEF LockInvariant, Shaped
<1>3. mode' \in [closed : BOOLEAN, quiesced : BOOLEAN, frozen : BOOLEAN, critical : BOOLEAN]
  BY <1>1 DEF LockInvariant, Shaped
<1>4. CASE call' = [call EXCEPT ![t] = Idle]
  BY <1>1, <1>3, <1>4, ReturnKeeps, Zenon DEF Return
<1>5. CASE call' = [call EXCEPT ![t] = q]
  <2>1. Shape(q) /\ q.at = "want" /\ q.op = c.op /\ q.todo = c.todo /\ q.evt = c.evt
    <3>1. q = [c EXCEPT !.at = "want", !.before = c.before + 1] /\ Shape(c)
      BY <1>2
    <3> HIDE DEF q, c
    <3>2. q = [op |-> c.op, at |-> "want", todo |-> c.todo, val |-> c.val, want |-> c.want,
               before |-> c.before + 1, seen |-> c.seen, tries |-> c.tries, evt |-> c.evt]
      BY <3>1, Zenon DEF Shape
    <3> QED  BY <3>2 DEF Shape
  <2>2. c.evt = FALSE /\ c.todo \subseteq Keys /\ "want" \in Outside
    BY <1>1, <1>2 DEF CallOK, Outside
  <2>3. c.op \in Pressing => \E k \in Keys : c.todo = {k}
    BY <1>2 DEF CallOK
  <2> HIDE DEF q
  <2> QED  BY <1>1, <1>3, <1>5, <2>1, <2>2, <2>3, OutsideKeeps, Zenon
<1> QED  BY <1>1, <1>4, <1>5

LEMMA BulkHitKeeps ==
  ASSUME LockInvariant, NEW t \in Threads, BulkHit(t)
  PROVE  LockInvariant'
<1> DEFINE c == call[t]
           q(k) == [c EXCEPT !.todo = c.todo \ {k}]
<1>1. /\ UNCHANGED <<owner, stripes, menu, mode>> /\ c.at \in Outside /\ c.at = "bulk"
      /\ \E k \in c.todo : \/ call' = [call EXCEPT ![t] = Idle]
                           \/ c.todo # {k} /\ call' = [call EXCEPT ![t] = q(k)]
  <2>1. UNCHANGED <<owner, stripes, menu, mode>> /\ c.at \in Outside /\ c.at = "bulk"
    BY DEF BulkHit, At, Outside
  <2>2. PICK k \in c.todo :
          call' = [call EXCEPT ![t] = IF @.todo = {k} THEN Idle ELSE [@ EXCEPT !.todo = c.todo \ {k}]]
    BY Zenon DEF BulkHit
  <2>3. CASE c.todo = {k}
    BY <2>1, <2>2, <2>3
  <2>4. CASE c.todo # {k}
    <3> DEFINE x == IF c.todo = {k} THEN Idle ELSE q(k)
    <3>1. call' = [call EXCEPT ![t] = x]
      BY <2>2
    <3>2. x = q(k)
      BY <2>4, Zenon
    <3> HIDE DEF x, q, c
    <3> QED  BY <2>1, <2>4, <3>1, <3>2, Zenon
  <2> QED  BY <2>3, <2>4
<1>2. Shape(c) /\ CallOK(t)
  BY DEF LockInvariant, Shaped
<1>3. mode' \in [closed : BOOLEAN, quiesced : BOOLEAN, frozen : BOOLEAN, critical : BOOLEAN]
  BY <1>1 DEF LockInvariant, Shaped
<1>4. CASE call' = [call EXCEPT ![t] = Idle]
  BY <1>1, <1>3, <1>4, ReturnKeeps, Zenon DEF Return
<1>5. ASSUME NEW k \in c.todo, c.todo # {k}, call' = [call EXCEPT ![t] = q(k)]
      PROVE  LockInvariant'
  <2> DEFINE r == q(k)
  <2>1. Shape(r) /\ r.at = c.at /\ r.op = c.op /\ r.todo = c.todo \ {k} /\ r.evt = c.evt
    BY <1>2 DEF Shape
  <2>2. c.evt = FALSE /\ c.todo \subseteq Keys
    BY <1>1, <1>2 DEF CallOK
  <2>3. c.op \notin Pressing
    BY <1>2, <1>5 DEF CallOK
  <2>4. call' = [call EXCEPT ![t] = r]
    BY <1>5
  <2> HIDE DEF r
  <2> QED  BY <1>1, <1>3, <2>1, <2>2, <2>3, <2>4, OutsideKeeps, Zenon
<1> QED  BY <1>1, <1>4, <1>5
-----------------------------------------------------------------------------
(* Under the lock of a shard.                                              *)

LEMMA GoWithin ==
  ASSUME LockInvariant, NEW t \in Threads, call[t].at \in Keyed \ {"leave"}, NEW l \in Keyed,
         Go(t, l), l = "press" => call[t].op \in Pressing, UNCHANGED <<owner, stripes, menu, mode>>
  PROVE  LockInvariant'
<1> DEFINE r == call'[t]
<1>1. call' = [call EXCEPT ![t] = r]
  BY GoSets DEF LockInvariant
<1>2. Shape(r) /\ r.at = l /\ r.op = call[t].op /\ r.todo = call[t].todo /\ r.evt = call[t].evt
  BY GoTo DEF LockInvariant
<1>3. CallOK(t) /\ call[t].at \notin {"leave", "notify"}
  BY DEF LockInvariant, Keyed
<1>4. call[t].evt = FALSE
  BY <1>3 DEF CallOK
<1>5. mode' \in [closed : BOOLEAN, quiesced : BOOLEAN, frozen : BOOLEAN, critical : BOOLEAN]
  BY DEF LockInvariant, Shaped
<1> HIDE DEF r
<1> QED  BY <1>1, <1>2, <1>4, <1>5, WithinKeeps, Zenon

LEMMA StoreKeeps ==
  ASSUME LockInvariant, NEW t \in Threads, call[t].at = "in", NEW m, NEW n, Store(t, m, n)
  PROVE  LockInvariant'
<1> DEFINE c == call[t]
           l == IF c.op \in Enforced THEN "enforce" ELSE IF c.op \in Pressing THEN "press" ELSE "leave"
           r == [c EXCEPT !.before = size(m), !.at = l]
<1>1. call' = [call EXCEPT ![t] = r]
  BY Zenon DEF Store
<1>2. l \in Keyed /\ (l = "press" => c.op \in Pressing) /\ UNCHANGED <<owner, stripes, menu, mode>>
      /\ c.at \in Keyed
  BY DEF Store, Keyed
<1>3. Shape(c) /\ CallOK(t)
  BY DEF LockInvariant, Shaped
<1> HIDE DEF l
<1>4. Shape(r) /\ r.at = l /\ r.op = c.op /\ r.todo = c.todo /\ r.evt = c.evt
  <2>1. r = [c EXCEPT !.before = size(m), !.at = l] /\ Shape(c)
    BY <1>3
  <2> HIDE DEF r, c
  <2>2. \E b : r = [op |-> c.op, at |-> l, todo |-> c.todo, val |-> c.val, want |-> c.want,
                    before |-> b, seen |-> c.seen, tries |-> c.tries, evt |-> c.evt]
    BY <2>1, Zenon DEF Shape
  <2> QED  BY <2>2 DEF Shape
<1>5. c.evt = FALSE
  BY <1>3 DEF CallOK
<1>6. mode' \in [closed : BOOLEAN, quiesced : BOOLEAN, frozen : BOOLEAN, critical : BOOLEAN]
  BY <1>2 DEF LockInvariant, Shaped
<1> HIDE DEF r
<1> QED  BY <1>1, <1>2, <1>4, <1>5, <1>6, WithinKeeps, Zenon

LEMMA RefusalKeeps ==
  ASSUME LockInvariant, NEW t \in Threads,
         recheck_shutdown_in_lock(t) \/ check_memory_admission(t) \/ RejectInsert(t)
  PROVE  LockInvariant'
<1>1. /\ call[t].at \in Keyed \ {"leave"} /\ "leave" \in Keyed /\ Go(t, "leave")
      /\ UNCHANGED <<owner, stripes, menu, mode>>
  BY DEF recheck_shutdown_in_lock, check_memory_admission, RejectInsert, At, Keyed
<1> QED  BY <1>1, GoWithin

LEMMA EnforceKeeps ==
  ASSUME LockInvariant, NEW t \in Threads, EnforceDone(t) \/ EnforceRollback(t)
  PROVE  LockInvariant'
<1> DEFINE l == IF call[t].op \in Pressing THEN "press" ELSE "leave"
<1>1. /\ call[t].at \in Keyed \ {"leave"} /\ l \in Keyed /\ Go(t, l)
      /\ l = "press" => call[t].op \in Pressing
      /\ UNCHANGED <<owner, stripes, menu, mode>>
  BY DEF EnforceDone, EnforceRollback, AfterGate, At, Keyed
<1> HIDE DEF l
<1> QED  BY <1>1, GoWithin

(* The tries of the capacity gate, under the lock of the key's shard.      *)
LEMMA TriesKeep ==
  ASSUME LockInvariant, NEW t \in Threads, EnforceTry(t) \/ EnforceProgress(t)
  PROVE  LockInvariant'
<1> DEFINE c == call[t]
<1>1. PICK r : /\ call' = [call EXCEPT ![t] = r] /\ Shape(r) /\ r.at \in {"reclaim", "enforce", "rollback"}
               /\ r.op = c.op /\ r.todo = c.todo /\ r.evt = c.evt
  <2>1. Shape(c)
    BY DEF LockInvariant, Shaped
  <2>2. CASE EnforceTry(t)
    <3> DEFINE n == size(mm)
               r == [c EXCEPT !.at = "reclaim", !.seen = n]
    <3>1. call' = [call EXCEPT ![t] = r]
      BY <2>2, Zenon DEF EnforceTry
    <3>2. r = [c EXCEPT !.at = "reclaim", !.seen = n] /\ Shape(c)
      BY <2>1
    <3> HIDE DEF r, c, n
    <3>3. r = [op |-> c.op, at |-> "reclaim", todo |-> c.todo, val |-> c.val, want |-> c.want,
               before |-> c.before, seen |-> n, tries |-> c.tries, evt |-> c.evt]
      BY <3>2, Zenon DEF Shape
    <3>4. Shape(r) /\ r.at = "reclaim" /\ r.op = c.op /\ r.todo = c.todo /\ r.evt = c.evt
      BY <3>3 DEF Shape
    <3> QED  BY <3>1, <3>4, Zenon
  <2>3. CASE EnforceProgress(t)
    <3> DEFINE n == c.tries + 1
               l == IF size(mm) < c.seen /\ n < MaxReclaimTries THEN "enforce" ELSE "rollback"
               r == [c EXCEPT !.tries = n, !.at = l]
    <3>1. call' = [call EXCEPT ![t] = r]
      BY <2>3, Zenon DEF EnforceProgress
    <3>2. l \in {"enforce", "rollback"}
      BY Zenon
    <3>3. r = [c EXCEPT !.tries = n, !.at = l] /\ Shape(c)
      BY <2>1
    <3> HIDE DEF r, c, n, l
    <3>4. r = [op |-> c.op, at |-> l, todo |-> c.todo, val |-> c.val, want |-> c.want,
               before |-> c.before, seen |-> c.seen, tries |-> n, evt |-> c.evt]
      BY <3>3, Zenon DEF Shape
    <3>5. Shape(r) /\ r.at = l /\ r.op = c.op /\ r.todo = c.todo /\ r.evt = c.evt
      BY <3>4 DEF Shape
    <3> QED  BY <3>1, <3>2, <3>5, Zenon
  <2> QED  BY <2>2, <2>3, Zenon
<1>2. /\ UNCHANGED <<owner, stripes, menu, mode>> /\ c.at \in Keyed /\ c.at # "leave"
  BY DEF EnforceTry, EnforceProgress, At, Keyed
<1>3. r.at \in Keyed /\ r.at # "press"
  BY <1>1 DEF Keyed
<1>4. c.evt = FALSE
  BY <1>2 DEF LockInvariant, CallOK, Keyed
<1>5. mode' \in [closed : BOOLEAN, quiesced : BOOLEAN, frozen : BOOLEAN, critical : BOOLEAN]
  BY <1>2 DEF LockInvariant, Shaped
<1> HIDE DEF c
<1> QED  BY <1>1, <1>2, <1>3, <1>4, <1>5, WithinKeeps, Zenon DEF c

LEMMA ReclaimKeeps ==
  ASSUME LockInvariant, NEW t \in Threads, EnforceEvict(t)
  PROVE  LockInvariant'
<1>1. /\ call[t].at \in Keyed \ {"leave"} /\ "progress" \in Keyed /\ Go(t, "progress")
      /\ UNCHANGED <<owner, stripes, menu, mode>>
  BY DEF EnforceEvict, At, Keyed
<1> QED  BY <1>1, GoWithin

LEMMA PressureKeeps ==
  ASSUME LockInvariant, NEW t \in Threads, check_memory_pressure(t)
  PROVE  LockInvariant'
<1> DEFINE c == call[t]
           b == Pressure(mm, mode.critical)
           e == Entered(mm, mode.critical)
           r == [c EXCEPT !.at = "leave", !.evt = e]
<1>1. /\ call' = [call EXCEPT ![t] = r] /\ UNCHANGED <<owner, stripes, menu>>
      /\ mode' = [mode EXCEPT !.critical = b]
  BY Zenon DEF check_memory_pressure
<1>2. c.at = "press" /\ c.at \in Keyed /\ "leave" \in Keyed
  BY DEF check_memory_pressure, At, Keyed
<1>3. Shape(c) /\ CallOK(t)
  BY DEF LockInvariant, Shaped
<1>4. c.op \in Pressing
  BY <1>2, <1>3 DEF CallOK
<1>5. b \in BOOLEAN /\ e \in BOOLEAN
  BY PressureIsBoolean DEF LockInvariant, Shaped
<1> HIDE DEF b, e
<1>6. mode' \in [closed : BOOLEAN, quiesced : BOOLEAN, frozen : BOOLEAN, critical : BOOLEAN]
  BY <1>1, <1>5, ModeOK, Zenon DEF LockInvariant
<1>7. Shape(r) /\ r.at = "leave" /\ r.op = c.op /\ r.todo = c.todo /\ r.evt = e
  <2>1. r = [c EXCEPT !.at = "leave", !.evt = e] /\ Shape(c)
    BY <1>3
  <2> HIDE DEF r, c
  <2>2. r = [op |-> c.op, at |-> "leave", todo |-> c.todo, val |-> c.val, want |-> c.want,
             before |-> c.before, seen |-> c.seen, tries |-> c.tries, evt |-> e]
    BY <2>1, Zenon DEF Shape
  <2> QED  BY <2>2 DEF Shape
<1> HIDE DEF r
<1> QED  BY <1>1, <1>2, <1>4, <1>5, <1>6, <1>7, WithinKeeps, Zenon

(* What each operation stores is not looked at: it is all done under the   *)
(* lock, and leaves the lock and the stripes alone.                        *)
Storing(t) == call[t].at = "in" /\ \E m, n : Store(t, m, n)

LEMMA StoreByStores ==
  ASSUME NEW t \in Threads
  PROVE  set(t) \/ set_prehashed(t) \/ set_with_ttl(t) \/ set_with_absolute_expiry(t) \/ add(t)
           => Storing(t)
<1>1. ASSUME set(t) PROVE Storing(t)
  BY <1>1 DEF set, Doing, At, StoreBy, Storing
<1>2. ASSUME set_prehashed(t) PROVE Storing(t)
  BY <1>2 DEF set_prehashed, Doing, At, StoreBy, Storing
<1>3. ASSUME add(t) PROVE Storing(t)
  BY <1>3 DEF add, Doing, At, StoreBy, Storing
<1>4. ASSUME set_with_ttl(t) PROVE Storing(t)
  BY <1>4 DEF set_with_ttl, set_with_expiry_ns_impl, Doing, At, StoreBy, Storing
<1>5. ASSUME set_with_absolute_expiry(t) PROVE Storing(t)
  BY <1>5 DEF set_with_absolute_expiry, set_with_expiry_ns_impl, Doing, At, StoreBy, Storing
<1> QED  BY <1>1, <1>2, <1>3, <1>4, <1>5

LEMMA PlainStores ==
  ASSUME NEW t \in Threads
  PROVE  /\ replace(t) \/ cas(t) \/ del(t) \/ remove(t) \/ del_ex(t) \/ pop(t) \/ force_del(t)
              => Storing(t)
         /\ set_multi(t) \/ get_multi(t) \/ promote(t) => Storing(t)
         /\ cas_retry(t) /\ Matches(t, Key(t)) => Storing(t)
<1>1. replace(t) \/ cas(t) \/ del(t) \/ remove(t) \/ del_ex(t) \/ pop(t) \/ force_del(t)
        => Storing(t)
  BY DEF replace, cas, del, remove, del_ex, pop, force_del, Doing, At, Storing
<1>2. set_multi(t) => Storing(t)
  BY Zenon DEF set_multi, Doing, At, Storing
<1>3. get_multi(t) => Storing(t)
  BY Zenon DEF get_multi, Doing, At, Storing
<1>4. promote(t) => Storing(t)
  BY DEF promote, Doing, At, Storing
<1>5. cas_retry(t) /\ Matches(t, Key(t)) => Storing(t)
  BY DEF cas_retry, Doing, At, Storing
<1> QED  BY <1>1, <1>2, <1>3, <1>4, <1>5, Zenon

LEMMA StoringKeeps ==
  ASSUME LockInvariant, NEW t \in Threads, Storing(t)
  PROVE  LockInvariant'
<1>1. PICK m, n : Store(t, m, n)
  BY DEF Storing
<1>2. call[t].at = "in"
  BY DEF Storing
<1> QED  BY <1>1, <1>2, StoreKeeps
-----------------------------------------------------------------------------
(* The locks of the shards are taken and given back.                       *)

LEMMA AcquireKeeps ==
  ASSUME LockInvariant, NEW t \in Threads, acquire_write_lock_for_key(t)
  PROVE  LockInvariant'
<1>1. PICK k \in call[t].todo : /\ owner[ShardOf[k]] = NoThread
                                /\ owner' = [owner EXCEPT ![ShardOf[k]] = t]
  BY Zenon DEF acquire_write_lock_for_key
<1>2. call[t].at = "want" /\ Go(t, "in") /\ UNCHANGED <<stripes, menu, mode>> /\ CallOK(t)
  BY DEF acquire_write_lock_for_key, At, LockInvariant
<1>3. /\ call' = [u \in Threads |-> call'[u]] /\ Shape(call'[t])
      /\ call'[t].at = "in" /\ call'[t].op = call[t].op /\ call'[t].todo = call[t].todo
      /\ call'[t].evt = call[t].evt /\ \A u \in Threads \ {t} : call'[u] = call[u]
  BY <1>2, GoTo DEF LockInvariant
<1>4. call[t].todo \subseteq Keys /\ call[t].evt = FALSE /\ stripes # t /\ ~Owns(t)
  BY <1>2 DEF CallOK, Sweeps, Locking
<1>5. ShardOf[k] \in Shards /\ owner \in [Shards -> Threads \cup {NoThread}]
  BY <1>1, <1>4, ShardAssumption DEF LockInvariant, Shaped
<1>6. /\ owner' \in [Shards -> Threads \cup {NoThread}] /\ owner'[ShardOf[k]] = t
      /\ \A s \in Shards : s # ShardOf[k] => owner'[s] = owner[s]
  BY <1>1, <1>5
<1>7. Alone(t)
  <2>1. \A s, r \in Shards : owner'[s] = t /\ owner'[r] = t => s = r
    BY <1>4, <1>6 DEF Owns
  <2>2. \A s \in Shards : owner'[s] = owner[s] \/ {owner[s], owner'[s]} \subseteq {t, NoThread}
    BY <1>1, <1>6
  <2>3. mode' \in [closed : BOOLEAN, quiesced : BOOLEAN, frozen : BOOLEAN, critical : BOOLEAN]
    BY <1>2 DEF LockInvariant, Shaped
  <2> QED  BY <1>2, <1>3, <1>6, <2>1, <2>2, <2>3, Zenon DEF Alone
<1>8. CallOK(t)'
  <2>1. "in" \in Locking /\ "in" \notin Sweeps /\ "in" \in Keyed
    BY DEF Locking, Sweeps, Keyed
  <2>2. \E j \in call'[t].todo : owner'[ShardOf[j]] = t
    BY <1>1, <1>3, <1>6
  <2>3. call'[t].op \in Pressing => \E j \in Keys : call'[t].todo = {j}
    BY <1>2, <1>3 DEF CallOK
  <2> QED  BY <1>2, <1>3, <1>4, <2>1, <2>2, <2>3 DEF CallOK
<1> QED  BY <1>7, <1>8, AloneKeeps

(* Giving back the lock of its shard leaves a thread without one.          *)
LEMMA ReleaseKeeps ==
  ASSUME LockInvariant, NEW t \in Threads, call[t].at \in Keyed, NEW r, Shape(r),
         call' = [call EXCEPT ![t] = r], r.at \in Outside, r.at # "hit", r.evt \in BOOLEAN,
         r.evt => r.at = "notify" /\ r.op \in Pressing, r.todo \subseteq Keys,
         r.op \in Pressing => \E k \in Keys : r.todo = {k},
         owner' = [s \in Shards |-> IF owner[s] = t THEN NoThread ELSE owner[s]],
         UNCHANGED <<stripes, menu, mode>>
  PROVE  LockInvariant'
<1>1. /\ call' = [u \in Threads |-> call'[u]] /\ Shape(call'[t]) /\ call'[t] = r
      /\ \A u \in Threads \ {t} : call'[u] = call[u]
  BY SetCall, Zenon DEF LockInvariant
<1>2. owner \in [Shards -> Threads \cup {NoThread}] /\ CallOK(t)
  BY DEF LockInvariant, Shaped
<1>3. owner' \in [Shards -> Threads \cup {NoThread}] /\ \A s \in Shards : owner'[s] # t
  BY <1>2, CacheAssumption
<1>4. Alone(t)
  <2>1. \A s \in Shards : owner'[s] = owner[s] \/ {owner[s], owner'[s]} \subseteq {t, NoThread}
    BY <1>2
  <2>2. mode' \in [closed : BOOLEAN, quiesced : BOOLEAN, frozen : BOOLEAN, critical : BOOLEAN]
    BY DEF LockInvariant, Shaped
  <2> QED  BY <1>1, <1>3, <2>1, <2>2 DEF Alone
<1>5. CallOK(t)'
  <2>1. /\ r.at \notin Locking \cup Sweeps \cup Keyed /\ r.at # "touch" /\ r.at # "press"
        /\ r.at # "flushing" /\ call[t].at \notin Sweeps
    BY DEF Outside, Locking, Sweeps, Keyed
  <2>2. ~Owns(t)' /\ stripes' # t
    BY <1>2, <1>3, <2>1 DEF CallOK, Owns
  <2> QED  BY <1>1, <2>1, <2>2 DEF CallOK
<1> QED  BY <1>4, <1>5, AloneKeeps

LEMMA RetryKeeps ==
  ASSUME LockInvariant, NEW t \in Threads, cas_retry(t)
  PROVE  LockInvariant'
<1>1. CASE Matches(t, Key(t))
  BY <1>1, PlainStores, StoringKeeps
<1>2. CASE ~Matches(t, Key(t))
  <2>1. /\ call[t].at = "in" /\ call[t].op = "cas_retry" /\ Go(t, "peek") /\ CallOK(t)
        /\ owner' = [owner EXCEPT ![ShardOf[Key(t)]] = NoThread] /\ UNCHANGED <<stripes, menu, mode>>
    BY <1>2 DEF cas_retry, Doing, At, LockInvariant
  <2>2. call[t].todo \subseteq Keys /\ call[t].evt = FALSE /\ call[t].at \in Keyed
    BY <2>1 DEF CallOK, Keyed
  <2>3. Key(t) \in call[t].todo /\ owner[ShardOf[Key(t)]] = t
    BY <2>1, <2>2 DEF CallOK, Key
  <2>4. ShardOf[Key(t)] \in Shards
    BY <2>2, <2>3, ShardAssumption
  <2>5. owner' = [s \in Shards |-> IF owner[s] = t THEN NoThread ELSE owner[s]]
    BY <2>1, <2>3, <2>4, Zenon DEF LockInvariant, Shaped, OneLock
  <2> DEFINE r == call'[t]
  <2>6. call' = [call EXCEPT ![t] = r]
    BY <2>1, GoSets DEF LockInvariant
  <2>7. Shape(r) /\ r.at = "peek" /\ r.op = call[t].op /\ r.todo = call[t].todo /\ r.evt = call[t].evt
    BY <2>1, GoTo DEF LockInvariant
  <2>8. "peek" \in Outside /\ "cas_retry" \notin Pressing
    BY DEF Outside, Pressing
  <2> HIDE DEF r
  <2>9. /\ r.at \in Outside /\ r.at # "hit" /\ r.evt = FALSE /\ r.todo \subseteq Keys
        /\ r.op \notin Pressing
    BY <2>1, <2>2, <2>7, <2>8
  <2>10. Shape(r) /\ call[t].at \in Keyed /\ UNCHANGED <<stripes, menu, mode>>
    BY <2>1, <2>2, <2>7
  <2> QED  BY <2>5, <2>6, <2>9, <2>10, ReleaseKeeps, Zenon
<1> QED  BY <1>1, <1>2

LEMMA UnlockKeeps ==
  ASSUME LockInvariant, NEW t \in Threads, unlock(t)
  PROVE  LockInvariant'
<1> DEFINE c == call[t]
           M == Mine(t)
           q == [c EXCEPT !.todo = c.todo \ M, !.at = "want"]
           n == [c EXCEPT !.at = "notify"]
           r == IF c.todo # M THEN q ELSE IF c.evt THEN n ELSE Idle
<1>1. call' = [call EXCEPT ![t] = r]
  BY DEF unlock
<1>2. /\ c.at = "leave" /\ c.at \in Keyed /\ UNCHANGED <<stripes, menu, mode>>
      /\ owner' = [s \in Shards |-> IF owner[s] = t THEN NoThread ELSE owner[s]]
  BY DEF unlock, At, Keyed
<1>3. Shape(c) /\ CallOK(t)
  BY DEF LockInvariant, Shaped
<1>4. c.todo \subseteq Keys /\ c.evt \in BOOLEAN
  BY <1>2, <1>3 DEF CallOK
<1>5. (c.op \in Pressing => \E k \in Keys : c.todo = {k}) /\ (c.evt => c.op \in Pressing)
  BY <1>3 DEF CallOK
<1>6. c.op \in Pressing => c.todo = M
  <2>1. M \subseteq c.todo /\ M # {}
    BY <1>2, <1>3 DEF CallOK, Mine
  <2> HIDE DEF M
  <2> QED  BY <1>5, <2>1
<1> HIDE DEF M
<1>7. Shape(q) /\ q.at = "want" /\ q.op = c.op /\ q.todo = c.todo \ M /\ q.evt = c.evt
  <2>1. q = [c EXCEPT !.todo = c.todo \ M, !.at = "want"] /\ Shape(c)
    BY <1>3
  <2> HIDE DEF q, c
  <2>2. q = [op |-> c.op, at |-> "want", todo |-> c.todo \ M, val |-> c.val, want |-> c.want,
             before |-> c.before, seen |-> c.seen, tries |-> c.tries, evt |-> c.evt]
    BY <2>1, Zenon DEF Shape
  <2> QED  BY <2>2 DEF Shape
<1>8. Shape(n) /\ n.at = "notify" /\ n.op = c.op /\ n.todo = c.todo /\ n.evt = c.evt
  <2>1. n = [c EXCEPT !.at = "notify"] /\ Shape(c)
    BY <1>3
  <2> HIDE DEF n, c
  <2>2. n = [op |-> c.op, at |-> "notify", todo |-> c.todo, val |-> c.val, want |-> c.want,
             before |-> c.before, seen |-> c.seen, tries |-> c.tries, evt |-> c.evt]
    BY <2>1 DEF Shape
  <2> QED  BY <2>2 DEF Shape
<1>9. {"want", "notify", "idle"} \subseteq Outside /\ "none" \notin Pressing
  BY DEF Outside, Pressing
<1> HIDE DEF q, n
<1>10. CASE c.todo # M
  <2>1. c.evt = FALSE /\ c.op \notin Pressing /\ r = q
    BY <1>4, <1>5, <1>6, <1>10
  <2> HIDE DEF r
  <2> QED  BY <1>1, <1>2, <1>4, <1>7, <1>9, <2>1, ReleaseKeeps, Zenon
<1>11. CASE c.todo = M /\ c.evt
  <2>1. r = n
    BY <1>11
  <2> HIDE DEF r
  <2> QED  BY <1>1, <1>2, <1>4, <1>5, <1>8, <1>9, <1>11, <2>1, ReleaseKeeps, Zenon
<1>12. CASE c.todo = M /\ ~c.evt
  <2>1. r = Idle
    BY <1>12
  <2> HIDE DEF r
  <2> QED  BY <1>1, <1>2, <1>9, <2>1, IdleShape, ReleaseKeeps, Zenon
<1> QED  BY <1>10, <1>11, <1>12
-----------------------------------------------------------------------------
(* Calls on the whole cache.                                               *)

LEMMA AtBefore ==
  ASSUME Shaped, NEW t \in Threads, NEW l, NEW b,
         call' = [call EXCEPT ![t].at = l, ![t].before = b]
  PROVE  /\ call' = [u \in Threads |-> call'[u]] /\ \A u \in Threads : Shape(call'[u])
         /\ call'[t].at = l /\ call'[t].op = call[t].op /\ call'[t].todo = call[t].todo
         /\ call'[t].before = b /\ call'[t].evt = call[t].evt
         /\ \A u \in Threads \ {t} : call'[u] = call[u]
<1> DEFINE c == call[t]
           q == [c EXCEPT !.at = l, !.before = b]
<1>1. q = [c EXCEPT !.at = l, !.before = b] /\ Shape(c)
  BY DEF Shaped
<1>2. call' = [call EXCEPT ![t] = q]
  BY Zenon
<1>3. Shape(q) /\ q.at = l /\ q.op = c.op /\ q.todo = c.todo /\ q.before = b /\ q.evt = c.evt
  <2> HIDE DEF q, c
  <2>1. q = [op |-> c.op, at |-> l, todo |-> c.todo, val |-> c.val, want |-> c.want,
             before |-> b, seen |-> c.seen, tries |-> c.tries, evt |-> c.evt]
    BY <1>1, Zenon DEF Shape
  <2> QED  BY <2>1 DEF Shape
<1> HIDE DEF q
<1> QED  BY <1>2, <1>3, SetCall, Zenon

(* A sweep moves on, with the stripes and, in flush, the lock of the shard *)
(* it has come to.                                                         *)
LEMMA SweepKeeps ==
  ASSUME LockInvariant, NEW t \in Threads,
         call[t].at \in Sweeps \/ call[t].at = "want", call[t].at \in Sweeps \/ stripes = NoThread,
         call' = [u \in Threads |-> call'[u]], \A u \in Threads : Shape(call'[u]),
         \A u \in Threads \ {t} : call'[u] = call[u],
         call'[t].op = call[t].op, call'[t].todo = call[t].todo, call'[t].evt = call[t].evt,
         call'[t].at \in Sweeps, stripes' = t, UNCHANGED <<menu, mode>>,
         call'[t].at = "touch" => call[t].op \in StripeOnly,
         IF call'[t].at = "flushing"
         THEN /\ call'[t].before \in Shards /\ owner[call'[t].before] = NoThread /\ ~Owns(t)
              /\ owner' = [owner EXCEPT ![call'[t].before] = t]
         ELSE owner' = [s \in Shards |-> IF owner[s] = t THEN NoThread ELSE owner[s]]
  PROVE  LockInvariant'
<1>1. CallOK(t) /\ owner \in [Shards -> Threads \cup {NoThread}] /\ Shape(call'[t])
  BY DEF LockInvariant, Shaped
<1>2. stripes = stripes' \/ {stripes, stripes'} \subseteq {t, NoThread}
  BY <1>1 DEF CallOK
<1>3. mode' \in [closed : BOOLEAN, quiesced : BOOLEAN, frozen : BOOLEAN, critical : BOOLEAN]
  BY DEF LockInvariant, Shaped
<1>4. /\ call[t].todo \subseteq Keys /\ call[t].evt = FALSE
      /\ call[t].op \in Pressing => \E k \in Keys : call[t].todo = {k}
  BY <1>1 DEF CallOK, Sweeps
<1>5. call'[t].at \notin Keyed \cup {"press", "hit"}
  BY DEF Sweeps, Keyed
<1>6. CASE call'[t].at = "flushing"
  <2> DEFINE b == call'[t].before
  <2>1. b \in Shards /\ owner[b] = NoThread /\ ~Owns(t) /\ owner' = [owner EXCEPT ![b] = t]
    BY <1>6
  <2> HIDE DEF b
  <2>2. /\ owner' \in [Shards -> Threads \cup {NoThread}] /\ owner'[b] = t
        /\ \A s \in Shards : s # b => owner'[s] = owner[s] /\ owner'[s] # t
    BY <1>1, <2>1, Zenon DEF Owns
  <2>3. Alone(t)
    <3>1. \A s, r \in Shards : owner'[s] = t /\ owner'[r] = t => s = r
      BY <2>2
    <3>2. \A s \in Shards : owner'[s] = owner[s] \/ {owner[s], owner'[s]} \subseteq {t, NoThread}
      BY <2>1, <2>2
    <3> QED  BY <1>1, <1>2, <1>3, <2>2, <3>1, <3>2, Zenon DEF Alone
  <2>4. CallOK(t)'
    <3>1. "flushing" \in Locking /\ "flushing" \notin Keyed
      BY DEF Locking, Keyed
    <3>2. call'[t].before \in Shards /\ owner'[call'[t].before] = t
      BY <2>1, <2>2, Zenon DEF b
    <3> QED  BY <1>4, <1>6, <3>1, <3>2, Zenon DEF CallOK
  <2> QED  BY <2>3, <2>4, AloneKeeps, Zenon
<1>7. CASE call'[t].at # "flushing"
  <2>1. owner' = [s \in Shards |-> IF owner[s] = t THEN NoThread ELSE owner[s]]
    BY <1>7
  <2>2. owner' \in [Shards -> Threads \cup {NoThread}] /\ \A s \in Shards : owner'[s] # t
    BY <1>1, <2>1, CacheAssumption, Zenon
  <2>3. Alone(t)
    <3>1. \A s \in Shards : owner'[s] = owner[s] \/ {owner[s], owner'[s]} \subseteq {t, NoThread}
      BY <1>1, <2>1
    <3> QED  BY <1>1, <1>2, <1>3, <2>2, <3>1, Zenon DEF Alone
  <2>4. CallOK(t)'
    <3>1. ~Owns(t)'
      BY <2>2 DEF Owns
    <3> QED  BY <1>4, <1>5, <1>7, <3>1, Zenon DEF CallOK
  <2> QED  BY <2>3, <2>4, AloneKeeps
<1> QED  BY <1>6, <1>7

LEMMA NoLockKept ==
  ASSUME LockInvariant, NEW t \in Threads, call[t].at \notin Locking, owner' = owner
  PROVE  owner' = [s \in Shards |-> IF owner[s] = t THEN NoThread ELSE owner[s]] /\ ~Owns(t)
<1>1. ~Owns(t) /\ owner \in [Shards -> Threads \cup {NoThread}]
  BY DEF LockInvariant, CallOK, Shaped
<1> QED  BY <1>1 DEF Owns

LEMMA AcquireAllKeeps ==
  ASSUME LockInvariant, NEW t \in Threads, acquire_write_lock(t)
  PROVE  LockInvariant'
<1>1. /\ call[t].at = "want" /\ stripes = NoThread /\ stripes' = t /\ owner' = owner
      /\ call' = [call EXCEPT ![t].at = "sweep", ![t].before = 1] /\ UNCHANGED <<menu, mode>>
  BY DEF acquire_write_lock, At
<1>2. "sweep" \in Sweeps /\ "want" \notin Locking
  BY DEF Sweeps, Locking
<1>3. owner' = [s \in Shards |-> IF owner[s] = t THEN NoThread ELSE owner[s]]
  BY <1>1, <1>2, NoLockKept
<1>4. /\ call' = [u \in Threads |-> call'[u]] /\ \A u \in Threads : Shape(call'[u])
      /\ call'[t].at = "sweep" /\ call'[t].op = call[t].op /\ call'[t].todo = call[t].todo
      /\ call'[t].evt = call[t].evt /\ \A u \in Threads \ {t} : call'[u] = call[u]
  BY <1>1, AtBefore, ZenonT(60) DEF LockInvariant
<1> QED  BY <1>1, <1>2, <1>3, <1>4, SweepKeeps, ZenonT(60)

LEMMA SweepGoKeeps ==
  ASSUME LockInvariant, NEW t \in Threads, call[t].at \in Sweeps \ {"flushing"},
         NEW l \in Sweeps \ {"flushing"}, Go(t, l), l = "touch" => call[t].op \in StripeOnly,
         UNCHANGED <<owner, stripes, menu, mode>>
  PROVE  LockInvariant'
<1>1. stripes' = t /\ call[t].at \notin Locking
  BY DEF LockInvariant, CallOK, Sweeps, Locking
<1>2. owner' = [s \in Shards |-> IF owner[s] = t THEN NoThread ELSE owner[s]]
  BY <1>1, NoLockKept
<1>3. /\ call' = [u \in Threads |-> call'[u]] /\ \A u \in Threads : Shape(call'[u])
      /\ call'[t].at = l /\ call'[t].op = call[t].op /\ call'[t].todo = call[t].todo
      /\ call'[t].evt = call[t].evt /\ \A u \in Threads \ {t} : call'[u] = call[u]
  BY GoTo, Zenon DEF LockInvariant
<1> QED  BY <1>1, <1>2, <1>3, SweepKeeps, Zenon

LEMMA SweepGosKeep ==
  ASSUME LockInvariant, NEW t \in Threads, evict(t) \/ pop_lru(t) \/ max_size(t) \/ max_memory(t)
  PROVE  LockInvariant'
<1>1. PICK l \in {"swept", "touch"} : Go(t, l) /\ (l = "touch" => call[t].op \in StripeOnly)
  BY DEF evict, pop_lru, max_size, max_memory, Sweep, StripeOnly, Resizing
<1>2. call[t].at \in Sweeps \ {"flushing"} /\ l \in Sweeps \ {"flushing"}
  BY DEF evict, pop_lru, max_size, max_memory, Sweep, At, Sweeps
<1>3. UNCHANGED <<owner, stripes, menu, mode>>
  BY DEF evict, pop_lru, max_size, max_memory
<1> QED  BY <1>1, <1>2, <1>3, SweepGoKeeps

LEMMA SweepOnKeeps ==
  ASSUME LockInvariant, NEW t \in Threads,
         PopFrom(t) \/ distribute_max_size(t) \/ distribute_max_memory(t)
  PROVE  LockInvariant'
<1>0. PICK l \in {"swept", "touch"} :
        \E b : call' = [call EXCEPT ![t].at = l, ![t].before = b]
  <2>1. CASE PopFrom(t)
    <3> DEFINE at == IF size(mm) = 0 THEN "swept" ELSE "touch"
               mark == IF size(mm) = 0 THEN call[t].before ELSE FirstShard(mm)
    <3>1. call' = [call EXCEPT ![t].at = at, ![t].before = mark]
      BY <2>1 DEF PopFrom
    <3>2. at \in {"swept", "touch"}
      OBVIOUS
    <3> HIDE DEF at, mark
    <3> QED  BY <3>1, <3>2, Zenon
  <2>2. CASE distribute_max_size(t) \/ distribute_max_memory(t)
    <3> DEFINE at == IF call[t].before + 1 \in Shards THEN call[t].at ELSE "swept"
               mark == call[t].before + 1
    <3>1. call' = [call EXCEPT ![t].at = at, ![t].before = mark]
      BY <2>2 DEF distribute_max_size, distribute_max_memory, NextShard
    <3>2. at \in {"swept", "touch"}
      BY <2>2 DEF distribute_max_size, distribute_max_memory, At
    <3> HIDE DEF at, mark
    <3> QED  BY <3>1, <3>2, Zenon
  <2> QED  BY <2>1, <2>2
<1>1. PICK b : call' = [call EXCEPT ![t].at = l, ![t].before = b]
  BY <1>0, Zenon
<1>2. /\ call[t].at \in Sweeps \ {"flushing"} /\ l \in Sweeps \ {"flushing"}
      /\ call[t].op \in StripeOnly /\ UNCHANGED <<owner, stripes, menu, mode>>
  BY DEF PopFrom, distribute_max_size, distribute_max_memory, Sweep, At, Sweeps, StripeOnly, Resizing
<1>3. stripes' = t /\ call[t].at \notin Locking
  BY <1>2 DEF LockInvariant, CallOK, Sweeps, Locking
<1>4. owner' = [s \in Shards |-> IF owner[s] = t THEN NoThread ELSE owner[s]]
  BY <1>2, <1>3, NoLockKept
<1>5. /\ call' = [u \in Threads |-> call'[u]] /\ \A u \in Threads : Shape(call'[u])
      /\ call'[t].at = l /\ call'[t].op = call[t].op /\ call'[t].todo = call[t].todo
      /\ call'[t].evt = call[t].evt /\ \A u \in Threads \ {t} : call'[u] = call[u]
  BY <1>1, AtBefore, Zenon DEF LockInvariant
<1> QED  BY <1>2, <1>3, <1>4, <1>5, SweepKeeps, ZenonT(60)

LEMMA FlushKeeps ==
  ASSUME LockInvariant, NEW t \in Threads, flush(t)
  PROVE  LockInvariant'
<1>1. /\ call[t].at = "sweep" /\ call[t].before \in Shards /\ owner[call[t].before] = NoThread
      /\ owner' = [owner EXCEPT ![call[t].before] = t] /\ Go(t, "flushing")
      /\ UNCHANGED <<stripes, menu, mode>>
  BY DEF flush, Sweep, At, LockShard
<1>2. "sweep" \in Sweeps /\ "flushing" \in Sweeps /\ "sweep" \notin Locking
  BY DEF Sweeps, Locking
<1>3. stripes' = t /\ ~Owns(t)
  BY <1>1, <1>2 DEF LockInvariant, CallOK
<1>4. /\ call' = [u \in Threads |-> call'[u]] /\ \A u \in Threads : Shape(call'[u])
      /\ call'[t].at = "flushing" /\ call'[t].op = call[t].op /\ call'[t].todo = call[t].todo
      /\ call'[t].before = call[t].before
      /\ call'[t].evt = call[t].evt /\ \A u \in Threads \ {t} : call'[u] = call[u]
  BY <1>1, GoTo DEF LockInvariant
<1> QED  BY <1>1, <1>2, <1>3, <1>4, SweepKeeps, Zenon

LEMMA FlushShardKeeps ==
  ASSUME LockInvariant, NEW t \in Threads, flush_shard(t)
  PROVE  LockInvariant'
<1> DEFINE l == IF call[t].at = "flushing" /\ call[t].before + 1 \in Shards THEN "sweep" ELSE "swept"
           b == call[t].before + 1
<1>1. call' = [call EXCEPT ![t].at = l, ![t].before = b]
  BY DEF flush_shard
<1>2. /\ owner' = [s \in Shards |-> IF owner[s] = t THEN NoThread ELSE owner[s]]
      /\ call[t].at = "flushing" /\ UNCHANGED <<stripes, menu, mode>>
  BY DEF flush_shard, At
<1>3. l \in Sweeps \ {"flushing", "touch"} /\ "flushing" \in Sweeps
  BY DEF Sweeps
<1>4. stripes' = t
  BY <1>2, <1>3 DEF LockInvariant, CallOK
<1> HIDE DEF l, b
<1>5. /\ call' = [u \in Threads |-> call'[u]] /\ \A u \in Threads : Shape(call'[u])
      /\ call'[t].at = l /\ call'[t].op = call[t].op /\ call'[t].todo = call[t].todo
      /\ call'[t].evt = call[t].evt /\ \A u \in Threads \ {t} : call'[u] = call[u]
  BY <1>1, AtBefore, Zenon DEF LockInvariant
<1> QED  BY <1>2, <1>3, <1>4, <1>5, SweepKeeps, Zenon

LEMMA EndSweepKeeps ==
  ASSUME LockInvariant, NEW t \in Threads, EndSweep(t)
  PROVE  LockInvariant'
<1>1. call[t].at = "swept" /\ stripes' = NoThread /\ UNCHANGED <<owner, menu, mode>>
  BY DEF EndSweep, At
<1>2. /\ "swept" \in Sweeps /\ "swept" \notin Locking /\ "none" \notin Pressing
      /\ {"idle", "recheck"} \cap (Sweeps \cup Locking \cup Keyed) = {}
  BY DEF Sweeps, Locking, Keyed, Pressing
<1>3. CallOK(t) /\ owner \in [Shards -> Threads \cup {NoThread}]
  BY DEF LockInvariant, Shaped
<1>4. stripes = t /\ ~Owns(t) /\ call[t].evt = FALSE /\ call[t].todo \subseteq Keys
  BY <1>1, <1>2, <1>3 DEF CallOK
<1>5. /\ call' = [u \in Threads |-> call'[u]] /\ Shape(call'[t])
      /\ \A u \in Threads \ {t} : call'[u] = call[u]
      /\ call'[t].at \in {"idle", "recheck"} /\ call'[t].evt = FALSE /\ call'[t].todo \subseteq Keys
      /\ call'[t].op \in Pressing => \E k \in Keys : call'[t].todo = {k}
  <2>1. CASE Go(t, "recheck")
    <3>1. /\ call' = [u \in Threads |-> call'[u]] /\ Shape(call'[t])
          /\ \A u \in Threads \ {t} : call'[u] = call[u]
          /\ call'[t].at = "recheck" /\ call'[t].evt = call[t].evt /\ call'[t].todo = call[t].todo
          /\ call'[t].op = call[t].op
      BY <2>1, GoTo DEF LockInvariant
    <3>2. call[t].op \in Pressing => \E k \in Keys : call[t].todo = {k}
      BY <1>3 DEF CallOK
    <3> QED  BY <1>4, <3>1, <3>2
  <2>2. CASE Return(t)
    <3>1. /\ call' = [u \in Threads |-> call'[u]] /\ Shape(call'[t])
          /\ call'[t] = Idle /\ \A u \in Threads \ {t} : call'[u] = call[u]
      BY <2>2, IdleShape, SetCall, Zenon DEF LockInvariant, Return
    <3> QED  BY <1>2, <3>1, IdleShape
  <2> QED  BY <2>1, <2>2, Zenon DEF EndSweep
<1>6. mode' \in [closed : BOOLEAN, quiesced : BOOLEAN, frozen : BOOLEAN, critical : BOOLEAN]
  BY <1>1 DEF LockInvariant, Shaped
<1>7. Alone(t)
  BY <1>1, <1>3, <1>4, <1>5, <1>6 DEF Alone, Owns
<1>8. CallOK(t)'
  <2>1. ~Owns(t)' /\ stripes' # t
    BY <1>1, <1>4, CacheAssumption DEF Owns
  <2>2. call'[t].at \notin Sweeps \cup Locking \cup Keyed \cup {"touch", "flushing", "press"}
    BY <1>2, <1>5
  <2> QED  BY <1>5, <2>1, <2>2, Zenon DEF CallOK
<1> QED  BY <1>7, <1>8, AloneKeeps
-----------------------------------------------------------------------------
(* All steps together.                                                     *)

LEMMA CallsKept ==
  ASSUME LockInvariant, UNCHANGED <<call, owner, stripes, menu>>,
         mode' \in [closed : BOOLEAN, quiesced : BOOLEAN, frozen : BOOLEAN, critical : BOOLEAN]
  PROVE  LockInvariant'
<1>1. Shaped' /\ OneLock'
  BY Zenon DEF LockInvariant, Shaped, OneLock
<1>2. \A t \in Threads : CallOK(t)'
  BY DEF LockInvariant, CallOK, Owns
<1> QED  BY <1>1, <1>2 DEF LockInvariant

LEMMA BackgroundKeeps ==
  ASSUME LockInvariant, Background \/ Rest \/ UNCHANGED vars
  PROVE  LockInvariant'
<1>1. UNCHANGED <<call, owner, stripes, menu>>
  BY DEF Background, drain_access_ring, drain_oom_events, Release, Expire, resume, evict_expired,
         Rest, vars
<1>2. mode' = mode \/ mode' = [mode EXCEPT !.quiesced = FALSE, !.frozen = FALSE]
  BY DEF Background, drain_access_ring, drain_oom_events, Release, Expire, resume, evict_expired,
         Rest, vars
<1>3. mode' \in [closed : BOOLEAN, quiesced : BOOLEAN, frozen : BOOLEAN, critical : BOOLEAN]
  BY <1>2, ModeOK, Zenon DEF LockInvariant
<1> QED  BY <1>1, <1>3, CallsKept

LEMMA EnterKeeps ==
  ASSUME LockInvariant, NEW t \in Threads, Enter(t)
  PROVE  LockInvariant'
<1>1. CASE get(t) \/ try_get(t) \/ get_prehashed(t) \/ fast_get(t) \/ get_with_ttl(t)
  <2>1. \E op : \E how \in {"get", "fast_get"} : Hit(t, op, how)
    BY <1>1 DEF get, try_get, get_prehashed, fast_get, get_with_ttl
  <2> QED  BY <2>1, HitKeeps
<1>2. CASE BeginKey(t)
  BY <1>2, BeginKeyKeeps
<1>3. CASE BeginMulti(t)
  BY <1>3, BeginMultiKeeps
<1>4. CASE BeginSweep(t) \/ bulk_get(t) \/ shutdown(t) \/ quiesce(t)
  BY <1>4, BeginOtherKeeps
<1> QED  BY <1>1, <1>2, <1>3, <1>4, Zenon DEF Enter

LEMMA BodyKeeps ==
  ASSUME LockInvariant, NEW t \in Threads, Body(t)
  PROVE  LockInvariant'
<1>1. CASE cas_retry(t)
  BY <1>1, RetryKeeps
<1>2. CASE ~cas_retry(t)
  <2>1. Storing(t)
    BY <1>2, StoreByStores, PlainStores, Zenon DEF Body
  <2> QED  BY <2>1, StoringKeeps
<1> QED  BY <1>1, <1>2

LEMMA StepKeeps ==
  ASSUME LockInvariant, NEW t \in Threads, Step(t)
  PROVE  LockInvariant'
<1>1. CASE \/ report_write_rejected(t) \/ dispatch_oom_event(t) \/ PromoteHit(t)
           \/ record_access_in_ring(t) \/ LastDrain(t) \/ wait_for_handles_to_drain(t)
  BY <1>1, ReturnsKeep, Zenon
<1>2. CASE maybe_drain_tls_ring_pre_evict(t)
  BY <1>2, DrainKeeps
<1>3. CASE acquire_write_lock_for_key(t)
  BY <1>3, AcquireKeeps
<1>4. CASE acquire_write_lock(t)
  BY <1>4, AcquireAllKeeps
<1>5. CASE recheck_shutdown_in_lock(t) \/ check_memory_admission(t) \/ RejectInsert(t)
  BY <1>5, RefusalKeeps
<1>6. CASE Body(t)
  BY <1>6, BodyKeeps
<1>7. CASE EnforceDone(t) \/ EnforceRollback(t)
  BY <1>7, EnforceKeeps
<1>8. CASE EnforceTry(t) \/ EnforceEvict(t) \/ EnforceProgress(t)
  BY <1>8, TriesKeep, ReclaimKeeps
<1>9. CASE check_memory_pressure(t)
  BY <1>9, PressureKeeps
<1>10. CASE unlock(t)
  BY <1>10, UnlockKeeps
<1>11. CASE CasPeek(t)
  BY <1>11, CasPeekKeeps
<1>12. CASE BulkHit(t)
  BY <1>12, BulkHitKeeps
<1>13. CASE evict(t) \/ pop_lru(t) \/ max_size(t) \/ max_memory(t)
  BY <1>13, SweepGosKeep, Zenon
<1>14. CASE PopFrom(t) \/ distribute_max_size(t) \/ distribute_max_memory(t)
  BY <1>14, SweepOnKeeps
<1>15. CASE flush(t)
  BY <1>15, FlushKeeps
<1>16. CASE flush_shard(t)
  BY <1>16, FlushShardKeeps
<1>17. CASE EndSweep(t)
  BY <1>17, EndSweepKeeps
<1>18. CASE set_max_memory(t)
  BY <1>18, SetMaxMemoryKeeps
<1> QED
  BY <1>1, <1>2, <1>3, <1>4, <1>5, <1>6, <1>7, <1>8, <1>9, <1>10, <1>11, <1>12, <1>13, <1>14,
     <1>15, <1>16, <1>17, <1>18 DEF Step

LEMMA InitLocks == Init => LockInvariant
<1> SUFFICES ASSUME Init PROVE LockInvariant
  OBVIOUS
<1>1. /\ call = [t \in Threads |-> Idle] /\ owner = [s \in Shards |-> NoThread]
      /\ stripes = NoThread /\ menu \in Menus
      /\ mode = [closed |-> FALSE, quiesced |-> FALSE, frozen |-> FALSE, critical |-> FALSE]
  BY DEF Init
<1>2. Shaped
  BY <1>1, IdleShape DEF Shaped
<1>3. OneLock
  BY <1>1, CacheAssumption DEF OneLock
<1>4. ASSUME NEW t \in Threads PROVE CallOK(t)
  <2>1. call[t] = Idle /\ ~Owns(t) /\ stripes # t
    BY <1>1, CacheAssumption DEF Owns
  <2>2. "idle" \notin Locking \cup Sweeps \cup Keyed /\ "none" \notin Pressing
    BY DEF Locking, Sweeps, Keyed, Pressing
  <2> QED  BY <2>1, <2>2, IdleShape, Zenon DEF CallOK
<1> QED  BY <1>2, <1>3, <1>4 DEF LockInvariant

LEMMA NextLocks == LockInvariant /\ [Next]_vars => LockInvariant'
<1> SUFFICES ASSUME LockInvariant, [Next]_vars PROVE LockInvariant'
  OBVIOUS
<1>1. CASE Background \/ Rest \/ UNCHANGED vars
  BY <1>1, BackgroundKeeps
<1>2. ASSUME NEW t \in Threads, Enter(t) \/ Step(t) PROVE LockInvariant'
  BY <1>2, EnterKeeps, StepKeeps
<1> QED  BY <1>1, <1>2 DEF Next

(* The places of the calls fit the locks, in every behaviour: acquire,     *)
(* retry, unlock and the sweeps of cache_trait.hpp keep one thread to a    *)
(* shard lock and one lock to a thread.                                    *)
THEOREM LocksFit == Spec => []LockInvariant
BY InitLocks, NextLocks, PTL DEF Spec
-----------------------------------------------------------------------------
LEMMA LocksFollow == LockInvariant => LocksHeld
<1> SUFFICES ASSUME LockInvariant, NEW t \in Threads
             PROVE  /\ call[t].at \in Locking <=> \E s \in Shards : owner[s] = t
                    /\ call[t].at \in Sweeps <=> stripes = t
  BY DEF LocksHeld
<1>1. CallOK(t)
  BY DEF LockInvariant
<1>2. ASSUME call[t].at \in Locking PROVE \E s \in Shards : owner[s] = t
  <2>1. CASE call[t].at = "flushing"
    BY <1>1, <2>1 DEF CallOK
  <2>2. CASE call[t].at # "flushing"
    <3>1. call[t].at \in Keyed /\ call[t].at # "hit"
      BY <1>2, <2>2, Zenon DEF Locking, Keyed
    <3>2. PICK k \in call[t].todo : owner[ShardOf[k]] = t
      BY <1>1, <3>1, Zenon DEF CallOK
    <3>3. k \in Keys
      BY <1>1, <3>1, <3>2 DEF CallOK
    <3> QED  BY <3>2, <3>3, ShardAssumption
  <2> QED  BY <2>1, <2>2
<1> QED  BY <1>1, <1>2 DEF CallOK, Owns

(* A thread holds a shard lock exactly while its call is at a step under   *)
(* it, and the stripes exactly while it sweeps: no path through the public *)
(* operations leaves a lock behind or works without the one it needs.      *)
THEOREM LocksAreHeld == Spec => []LocksHeld
BY LocksFit, LocksFollow, PTL

LEMMA ExclusionFollows == LockInvariant => ShardExclusive
<1> SUFFICES ASSUME LockInvariant, NEW s \in Shards,
                    ~ \E t \in Working(s) : call[t].op \in StripeOnly
             PROVE  ~(Cardinality(Working(s)) > 1)
  BY Zenon DEF ShardExclusive
<1>1. Working(s) \subseteq {owner[s]}
  <2> SUFFICES ASSUME NEW t \in Working(s) PROVE owner[s] = t
    OBVIOUS
  <2>1. t \in Threads /\ (owner[s] = t \/ (call[t].at \in {"touch", "flushing"} /\ call[t].before = s))
    BY DEF Working
  <2>2. CallOK(t) /\ call[t].op \notin StripeOnly
    BY <2>1 DEF LockInvariant
  <2> QED  BY <2>1, <2>2 DEF CallOK
<1>2. IsFiniteSet({owner[s]}) /\ Cardinality({owner[s]}) = 1
  BY FS_Singleton, Zenon
<1>3. Cardinality(Working(s)) <= 1 /\ Cardinality(Working(s)) \in Nat
  BY <1>1, <1>2, FS_Subset, FS_CardinalityType
<1> QED  BY <1>3

(* Two threads meet in a shard only when one of them is pop_lru, max_size, *)
(* max_memory or set_max_memory, whose sweep goes in under the stripe      *)
(* locks alone; the calls on keys, flush and evict exclude each other on   *)
(* every shard.                                                            *)
THEOREM ShardsAreExclusive == Spec => []ShardExclusive
BY LocksFit, ExclusionFollows, PTL
-----------------------------------------------------------------------------
(* Reports of critical memory mode.                                        *)
Reports(t) == call[t].evt \/ call[t].at = "notify"

(* A step of a thread that has nothing to report.                          *)
Silent(t) ==
  /\ oom' = oom /\ mode'.critical = mode.critical /\ call[t].at \notin {"leave", "notify"}
  /\ \A u \in Threads \ {t} : call'[u] = call[u]

LEMMA SilentKeeps ==
  ASSUME LockInvariant, CriticalReported, NEW t \in Threads, Silent(t)
  PROVE  CriticalReported'
<1>1. ~Reports(t)
  BY DEF LockInvariant, CallOK, Silent, Reports
<1>2. ASSUME mode.critical, oom = "none" PROVE \E u \in Threads : Reports(u)'
  <2>1. PICK u \in Threads : Reports(u)
    BY <1>2 DEF CriticalReported, Reports
  <2>2. u # t
    BY <1>1, <2>1
  <2>3. call'[u] = call[u]
    BY <2>2 DEF Silent
  <2> QED  BY <2>1, <2>3 DEF Reports
<1> QED  BY <1>2, Zenon DEF CriticalReported, Silent, Reports

LEMMA OneField ==
  ASSUME Shaped, NEW b \in BOOLEAN,
         \/ mode' = mode \/ mode' = [mode EXCEPT !.closed = b]
         \/ mode' = [mode EXCEPT !.quiesced = b] \/ mode' = [mode EXCEPT !.frozen = b]
  PROVE  mode'.critical = mode.critical
BY DEF Shaped

LEMMA EntriesSilent ==
  ASSUME LockInvariant, NEW t \in Threads, Enter(t)
  PROVE  Silent(t)
<1>1. call[t].at = "idle" /\ oom' = oom
  BY Zenon DEF Enter, BeginKey, BeginMulti, BeginSweep, get, try_get, get_prehashed, fast_get,
         get_with_ttl, bulk_get, shutdown, quiesce, Hit, At
<1>2. \/ mode' = mode \/ mode' = [mode EXCEPT !.closed = TRUE]
      \/ mode' = [mode EXCEPT !.quiesced = TRUE]
  BY Zenon DEF Enter, BeginKey, BeginMulti, BeginSweep, get, try_get, get_prehashed, fast_get,
         get_with_ttl, bulk_get, shutdown, quiesce, Hit
<1>3. mode'.critical = mode.critical
  BY <1>2, OneField, Zenon DEF LockInvariant
<1>4. \E r : call' = [call EXCEPT ![t] = r]
  <2>1. CASE BeginKey(t)
    BY <2>1, Zenon DEF BeginKey, pre_write_check
  <2>2. CASE BeginMulti(t)
    BY <2>2, Zenon DEF BeginMulti, Unguarded
  <2>3. CASE BeginSweep(t) \/ bulk_get(t) \/ shutdown(t) \/ quiesce(t)
    BY <2>3, Zenon DEF BeginSweep, bulk_get, shutdown, quiesce
  <2>4. CASE get(t) \/ try_get(t) \/ get_prehashed(t) \/ fast_get(t) \/ get_with_ttl(t)
    BY <2>4, Zenon DEF get, try_get, get_prehashed, fast_get, get_with_ttl, Hit
  <2> QED  BY <2>1, <2>2, <2>3, <2>4 DEF Enter
<1>5. \A u \in Threads \ {t} : call'[u] = call[u]
  BY <1>4 DEF LockInvariant, Shaped
<1> QED  BY <1>1, <1>3, <1>5 DEF Silent

LEMMA StoringSilent ==
  ASSUME LockInvariant, NEW t \in Threads, Body(t)
  PROVE  Silent(t)
<1>1. CASE Storing(t)
  <2>1. PICK m, n : Store(t, m, n)
    BY <1>1 DEF Storing
  <2>2. call[t].at = "in" /\ oom' = oom /\ mode' = mode
    BY <1>1, <2>1 DEF Storing, Store
  <2>3. \A u \in Threads \ {t} : call'[u] = call[u]
    BY <2>1 DEF Store, LockInvariant, Shaped
  <2> QED  BY <2>2, <2>3, Zenon DEF Silent
<1>2. CASE cas_retry(t) /\ ~Matches(t, Key(t))
  <2>1. call[t].at = "in" /\ oom' = oom /\ mode' = mode /\ Go(t, "peek")
    BY <1>2 DEF cas_retry, Doing, At
  <2> QED  BY <2>1, Zenon DEF Silent, Go, LockInvariant, Shaped
<1> QED  BY <1>1, <1>2, StoreByStores, PlainStores, Zenon DEF Body

LEMMA GoesSilent ==
  ASSUME LockInvariant, NEW t \in Threads,
         \/ maybe_drain_tls_ring_pre_evict(t) \/ recheck_shutdown_in_lock(t)
         \/ check_memory_admission(t) \/ RejectInsert(t)
         \/ EnforceDone(t) \/ EnforceEvict(t) \/ EnforceRollback(t) \/ acquire_write_lock_for_key(t)
         \/ evict(t) \/ flush(t) \/ pop_lru(t) \/ max_size(t) \/ max_memory(t)
  PROVE  Silent(t)
<1>1. call[t].at \notin {"leave", "notify"} /\ oom' = oom /\ mode' = mode
  BY DEF maybe_drain_tls_ring_pre_evict, recheck_shutdown_in_lock, check_memory_admission,
         RejectInsert, EnforceDone, EnforceEvict, EnforceRollback, acquire_write_lock_for_key,
         evict, flush, pop_lru, max_size, max_memory, Sweep, At
<1>2. \E l : Go(t, l)
  BY DEF maybe_drain_tls_ring_pre_evict, recheck_shutdown_in_lock, check_memory_admission,
         RejectInsert, EnforceDone, EnforceEvict, EnforceRollback, AfterGate,
         acquire_write_lock_for_key, evict, flush, pop_lru, max_size, max_memory
<1>3. \A u \in Threads \ {t} : call'[u] = call[u]
  BY <1>2 DEF Go, LockInvariant, Shaped
<1> QED  BY <1>1, <1>3, Zenon DEF Silent

LEMMA OthersSilent ==
  ASSUME LockInvariant, NEW t \in Threads,
         \/ report_write_rejected(t) \/ acquire_write_lock(t) \/ CasPeek(t) \/ BulkHit(t)
         \/ PromoteHit(t) \/ record_access_in_ring(t) \/ LastDrain(t) \/ wait_for_handles_to_drain(t)
  PROVE  Silent(t)
<1>1. call[t].at \notin {"leave", "notify"} /\ oom' = oom
  BY Zenon DEF report_write_rejected, acquire_write_lock, CasPeek, BulkHit, PromoteHit,
         record_access_in_ring, LastDrain, wait_for_handles_to_drain, At
<1>2. \/ mode' = mode \/ mode' = [mode EXCEPT !.frozen = TRUE]
      \/ mode' = [mode EXCEPT !.quiesced = FALSE]
  BY DEF report_write_rejected, acquire_write_lock, CasPeek, BulkHit, PromoteHit,
         record_access_in_ring, LastDrain, wait_for_handles_to_drain
<1>3. mode'.critical = mode.critical
  BY <1>2, OneField, ZenonT(60) DEF LockInvariant
<1>4. \A u \in Threads \ {t} : call'[u] = call[u]
  <2>1. CASE \/ report_write_rejected(t) \/ PromoteHit(t) \/ record_access_in_ring(t)
             \/ LastDrain(t) \/ wait_for_handles_to_drain(t)
    <3>1. Return(t)
      BY <2>1, Zenon DEF report_write_rejected, PromoteHit, record_access_in_ring, LastDrain,
                  wait_for_handles_to_drain
    <3> QED  BY <3>1, Zenon DEF Return, LockInvariant, Shaped
  <2>2. CASE acquire_write_lock(t)
    BY <2>2, Zenon DEF acquire_write_lock, LockInvariant, Shaped
  <2>3. CASE CasPeek(t) \/ BulkHit(t)
    BY <2>3 DEF CasPeek, BulkHit, LockInvariant, Shaped
  <2> QED  BY <2>1, <2>2, <2>3, Zenon
<1> QED  BY <1>1, <1>3, <1>4, Zenon DEF Silent

LEMMA SweepsSilent ==
  ASSUME LockInvariant, NEW t \in Threads,
         \/ EnforceTry(t) \/ EnforceProgress(t) \/ flush_shard(t) \/ PopFrom(t)
         \/ distribute_max_size(t) \/ distribute_max_memory(t) \/ EndSweep(t)
  PROVE  Silent(t)
<1>1. call[t].at \notin {"leave", "notify"} /\ oom' = oom /\ mode' = mode
  BY DEF EnforceTry, EnforceProgress, flush_shard, PopFrom, distribute_max_size,
         distribute_max_memory, EndSweep, Sweep, At
<1>2. \A u \in Threads \ {t} : call'[u] = call[u]
  <2>1. CASE EndSweep(t)
    <3>1. Go(t, "recheck") \/ Return(t)
      BY <2>1 DEF EndSweep
    <3> QED  BY <3>1, Zenon DEF Go, Return, LockInvariant, Shaped
  <2>2. CASE \/ EnforceTry(t) \/ EnforceProgress(t) \/ flush_shard(t) \/ PopFrom(t)
             \/ distribute_max_size(t) \/ distribute_max_memory(t)
    BY <2>2, Zenon DEF EnforceTry, EnforceProgress, flush_shard, PopFrom, distribute_max_size,
         distribute_max_memory, NextShard, LockInvariant, Shaped
  <2> QED  BY <2>1, <2>2
<1> QED  BY <1>1, <1>2, Zenon DEF Silent

(* The steps that have to do with reports.                                 *)
LEMMA NotifyReports ==
  ASSUME LockInvariant, CriticalReported, NEW t \in Threads, dispatch_oom_event(t)
  PROVE  CriticalReported'
BY Zenon DEF dispatch_oom_event, CriticalReported

LEMMA UnlockReports ==
  ASSUME LockInvariant, CriticalReported, NEW t \in Threads, unlock(t)
  PROVE  CriticalReported'
<1>1. oom' = oom /\ mode' = mode /\ call[t].at = "leave" /\ CallOK(t)
  BY DEF unlock, At, LockInvariant
<1>2. \A u \in Threads \ {t} : call'[u] = call[u]
  BY DEF unlock, LockInvariant, Shaped
<1>3. ASSUME call[t].evt PROVE call'[t].at = "notify"
  <2>1. call[t].op \in Pressing
    BY <1>1, <1>3, Zenon DEF CallOK
  <2>2. PICK k \in Keys : call[t].todo = {k}
    BY <1>1, <2>1, Zenon DEF CallOK
  <2>3. call[t].todo = Mine(t)
    BY <1>1, <2>2 DEF CallOK, Keyed, Mine
  <2>4. call' = [call EXCEPT ![t] = [call[t] EXCEPT !.at = "notify"]]
    BY <1>3, <2>3 DEF unlock
  <2> QED  BY <2>4 DEF LockInvariant, Shaped, Shape
<1>4. ASSUME mode.critical, oom = "none" PROVE \E u \in Threads : Reports(u)'
  <2>1. PICK u \in Threads : Reports(u)
    BY <1>4 DEF CriticalReported, Reports
  <2>2. CASE u = t
    BY <1>1, <1>3, <2>1, <2>2, Zenon DEF Reports
  <2>3. CASE u # t
    BY <1>2, <2>1, <2>3 DEF Reports
  <2> QED  BY <2>2, <2>3
<1> QED  BY <1>1, <1>4 DEF CriticalReported, Reports

(* A thread looks at the pressure: when it enters the mode it is to report *)
(* that; when the mode stays, so does what was reported.                   *)
LEMMA LookReports ==
  ASSUME LockInvariant, CriticalReported, NEW t \in Threads, call[t].at \notin {"leave", "notify"},
         mode' = [mode EXCEPT !.critical = Pressure(mm, mode.critical)], oom' = Forgotten,
         Entered(mm, mode.critical) => Reports(t)', \A u \in Threads \ {t} : call'[u] = call[u]
  PROVE  CriticalReported'
<1> DEFINE c == mode.critical
           p == Pressure(mm, c)
<1>1. mode'.critical = p /\ c \in BOOLEAN /\ p \in BOOLEAN
  <2>1. c \in BOOLEAN
    BY DEF LockInvariant, Shaped
  <2>2. p \in BOOLEAN
    BY <2>1, PressureIsBoolean
  <2>3. mode' = [mode EXCEPT !.critical = p]
    OBVIOUS
  <2> HIDE DEF p
  <2>4. mode'.critical = p
    BY <2>3 DEF LockInvariant, Shaped
  <2> QED  BY <2>1, <2>2, <2>4
<1>2. ~Reports(t)
  BY DEF LockInvariant, CallOK, Reports
<1>3. CASE p /\ ~c
  <2>1. Entered(mm, c)
    BY <1>3 DEF Entered
  <2>2. Reports(t)'
    BY <2>1
  <2> QED  BY <2>2 DEF CriticalReported, Reports
<1>4. CASE p /\ c
  <2>1. c = TRUE
    BY <1>1, <1>4
  <2>2. Pressure(mm, TRUE)
    BY <1>4, <2>1, Zenon
  <2>3. oom' = oom
    BY <2>2 DEF Forgotten
  <2>4. ASSUME oom = "none" PROVE \E u \in Threads : Reports(u)'
    <3>1. PICK u \in Threads : Reports(u)
      BY <1>4, <2>4 DEF CriticalReported, Reports
    <3>2. u # t
      BY <1>2, <3>1
    <3>3. call'[u] = call[u]
      BY <3>2
    <3> QED  BY <3>1, <3>3 DEF Reports
  <2> QED  BY <2>3, <2>4 DEF CriticalReported, Reports
<1>5. CASE ~p
  BY <1>1, <1>5 DEF CriticalReported
<1> QED  BY <1>3, <1>4, <1>5

LEMMA PressureReports ==
  ASSUME LockInvariant, CriticalReported, NEW t \in Threads, check_memory_pressure(t)
  PROVE  CriticalReported'
<1> DEFINE e == Entered(mm, mode.critical)
<1>1. /\ call[t].at = "press" /\ oom' = Forgotten
      /\ mode' = [mode EXCEPT !.critical = Pressure(mm, mode.critical)]
      /\ call' = [call EXCEPT ![t].at = "leave", ![t].evt = e]
  BY DEF check_memory_pressure, At
<1> HIDE DEF e
<1>2. \A u \in Threads \ {t} : call'[u] = call[u]
  BY <1>1 DEF LockInvariant, Shaped
<1>3. call'[t].evt = e
  <2> DEFINE c == call[t]
             r == [c EXCEPT !.at = "leave", !.evt = e]
  <2>1. call' = [call EXCEPT ![t] = r]
    BY <1>1, Zenon
  <2>2. r = [c EXCEPT !.at = "leave", !.evt = e] /\ Shape(c)
    BY DEF LockInvariant, Shaped
  <2> HIDE DEF r, c
  <2>3. r = [op |-> c.op, at |-> "leave", todo |-> c.todo, val |-> c.val, want |-> c.want,
             before |-> c.before, seen |-> c.seen, tries |-> c.tries, evt |-> e]
    BY <2>2, Zenon DEF Shape
  <2> QED  BY <2>1, <2>3 DEF LockInvariant, Shaped
<1>4. Entered(mm, mode.critical) => Reports(t)'
  BY <1>3 DEF Reports, e
<1> QED  BY <1>1, <1>2, <1>4, LookReports, Zenon

LEMMA SetMaxMemoryReports ==
  ASSUME LockInvariant, CriticalReported, NEW t \in Threads, set_max_memory(t)
  PROVE  CriticalReported'
<1> DEFINE e == Entered(mm, mode.critical)
<1>1. /\ call[t].at = "recheck" /\ oom' = Forgotten
      /\ mode' = [mode EXCEPT !.critical = Pressure(mm, mode.critical)]
      /\ call' = [call EXCEPT ![t] = IF e THEN [call[t] EXCEPT !.at = "notify"] ELSE Idle]
  BY DEF set_max_memory, At
<1> HIDE DEF e
<1>2. \A u \in Threads \ {t} : call'[u] = call[u]
  BY <1>1 DEF LockInvariant, Shaped
<1>3. e => Reports(t)'
  <2>1. ASSUME e PROVE Go(t, "notify")
    BY <1>1, <2>1 DEF Go
  <2>2. ASSUME e PROVE call'[t].at = "notify"
    BY <2>1, <2>2, GoTo DEF LockInvariant
  <2> QED  BY <2>2 DEF Reports
<1>4. Entered(mm, mode.critical) => Reports(t)'
  BY <1>3 DEF e
<1> QED  BY <1>1, <1>2, <1>4, LookReports

LEMMA BackgroundReports ==
  ASSUME LockInvariant, CriticalReported, Background \/ Rest \/ UNCHANGED vars
  PROVE  CriticalReported'
<1>1. call' = call /\ (oom' = oom \/ oom' = "told")
  BY DEF Background, drain_access_ring, drain_oom_events, Release, Expire, resume, evict_expired,
         Rest, vars
<1>2. mode' = mode \/ mode' = [mode EXCEPT !.quiesced = FALSE, !.frozen = FALSE]
  BY DEF Background, drain_access_ring, drain_oom_events, Release, Expire, resume, evict_expired,
         Rest, vars
<1>3. mode'.critical = mode.critical
  BY <1>2, Zenon DEF LockInvariant, Shaped
<1> QED  BY <1>1, <1>3 DEF CriticalReported

LEMMA NextReports == LockInvariant /\ CriticalReported /\ [Next]_vars => CriticalReported'
<1> SUFFICES ASSUME LockInvariant, CriticalReported, [Next]_vars PROVE CriticalReported'
  OBVIOUS
<1>1. CASE Background \/ Rest \/ UNCHANGED vars
  BY <1>1, BackgroundReports
<1>2. ASSUME NEW t \in Threads, Enter(t) PROVE CriticalReported'
  BY <1>2, EntriesSilent, SilentKeeps
<1>3. ASSUME NEW t \in Threads, Step(t) PROVE CriticalReported'
  <2>1. \/ dispatch_oom_event(t) \/ unlock(t) \/ check_memory_pressure(t) \/ set_max_memory(t)
        \/ Silent(t)
    BY <1>3, StoringSilent, GoesSilent, OthersSilent, SweepsSilent, Zenon DEF Step
  <2> QED
    BY <2>1, NotifyReports, UnlockReports, PressureReports, SetMaxMemoryReports, SilentKeeps, Zenon
<1> QED  BY <1>1, <1>2, <1>3 DEF Next

LEMMA InitReports == Init => CriticalReported
BY DEF Init, CriticalReported

(* While the cache refuses writes for lack of memory the handler has been  *)
(* told, the event waits in its slot, or the thread whose pressure check   *)
(* entered the mode is on its way to send it, whatever set_max_memory and  *)
(* the other writers did in between.                                       *)
THEOREM CriticalIsReported == Spec => []CriticalReported
<1>1. LockInvariant /\ CriticalReported /\ [Next]_vars => CriticalReported'
  BY NextReports
<1> QED  BY <1>1, InitReports, LocksFit, PTL DEF Spec
=============================================================================
