---------------------------- MODULE HazptrDomain ----------------------------
(***************************************************************************)
(* hazptr_domain and hazptr_holder (src/detail/hazptr.hpp), together with  *)
(* the four read protocols that rely on them: protect_and_reload(), the    *)
(* version-stamped slot read of F14 chunks, and the two hand-over-hand     *)
(* chain walks of concurrent_hash_table.hpp.  A reader publishes a pointer *)
(* in a hazard slot; a writer unlinks a node, retires it once, and         *)
(* try_reclaim() frees every pending node that a slot-by-slot scan did not *)
(* find published.                                                         *)
(*                                                                         *)
(* One step is one access to shared memory.  The chain is head, nxt; the   *)
(* first node also stands for the node of an F14 slot, whose chunk version *)
(* is odd while a writer changes it.  A key comparison is a free choice.   *)
(***************************************************************************)
EXTENDS Integers, Sequences

CONSTANTS
    Readers, Writers,   \* threads
    Nodes, None,        \* nodes of one chain; nullptr
    Chain,              \* nodes linked at first, in order; the others may be inserted
    Modes,              \* read protocols: "reload", "slot", "walk", "pin"
    BufCapacity,        \* tls_retire_buffer::kCapacity
    Threshold           \* reclaim_threshold_

Validated == {"reload", "slot"}

VARIABLES
    head, nxt,      \* embed_head and every node's hash_chain_next
    version,        \* the chunk's version
    mode,           \* the protocol a reader follows
    active,         \* readers that own hazard slots (active_slot_count_)
    hp,             \* the two slots of every reader: hazcurr, haznext
    ptr, next, cur, \* a reader's locals: curr, next and is_reachable's cursor
    stamp,          \* the version it read first
    bad,            \* a reader dereferenced a freed node
    fresh,          \* nodes never linked
    claimed,        \* nodes whose retired_ flag is set
    buf, pending,   \* tls_retire_buf(), pending_head_
    ledger,         \* sum of pending_shards_
    reclaiming,     \* reclaim_in_progress_
    freed,          \* nodes whose reclaim_ has run
    pc, stack,      \* where a thread is, and a writer's return labels
    reg             \* a writer's locals: the node it erases; of a pass, the slots to scan,
                    \* what they protect, batch_size, curr, the detached list, the new
                    \* chain; what passes on the stack still owe the ledger

vars == <<head, nxt, version, mode, active, hp, ptr, next, cur, stamp, bad, fresh,
          claimed, buf, pending, ledger, reclaiming, freed, pc, stack, reg>>

chainVars == <<head, nxt, version, fresh>>
readVars == <<mode, active, hp, ptr, next, cur, stamp, bad>>
retireVars == <<claimed, buf, pending, ledger, reclaiming, freed, stack, reg>>

NoRegs == [obj |-> None, todo |-> {}, prot |-> {}, batch |-> 0, pos |-> 1,
           taken |-> <<>>, keep |-> <<>>, owed |-> <<>>]

Linked == {Chain[i] : i \in 1..Len(Chain)}
Place(n) == CHOOSE i \in 1..Len(Chain) : Chain[i] = n

Init ==
    /\ head = IF Chain = <<>> THEN None ELSE Chain[1]
    /\ nxt = [n \in Nodes |-> IF n \in Linked /\ Place(n) < Len(Chain)
                              THEN Chain[Place(n) + 1] ELSE None]
    /\ version = 0
    /\ mode \in [Readers -> Modes]
    /\ active = {}
    /\ hp = [r \in Readers |-> <<None, None>>]
    /\ ptr = [r \in Readers |-> None]
    /\ next = [r \in Readers |-> None]
    /\ cur = [r \in Readers |-> None]
    /\ stamp = [r \in Readers |-> 0]
    /\ bad = [r \in Readers |-> FALSE]
    /\ fresh = Nodes \ Linked
    /\ claimed = {} /\ freed = {}
    /\ buf = [t \in Writers |-> <<>>]
    /\ pending = <<>> /\ ledger = 0
    /\ reclaiming = FALSE
    /\ pc = [t \in Readers \cup Writers |-> "idle"]
    /\ stack = [t \in Writers |-> <<>>]
    /\ reg = [t \in Writers |-> NoRegs]

Goto(t, label) == pc' = [pc EXCEPT ![t] = label]
Call(t, label, ret) ==
    /\ Goto(t, label)
    /\ stack' = [stack EXCEPT ![t] = <<ret>> \o @]
Return(t) ==
    /\ Goto(t, Head(stack[t]))
    /\ stack' = [stack EXCEPT ![t] = Tail(@)]

Publish(r, i, n) == hp' = [hp EXCEPT ![r][i] = n]
(* The reader looks into a node: wrong if the node has been freed.         *)
Touch(r, n) == bad' = [bad EXCEPT ![r] = @ \/ n \in freed]

(* Destroying the holders clears their slots; the thread keeps them.       *)
Release(r) ==
    /\ hp' = [hp EXCEPT ![r] = <<None, None>>]
    /\ ptr' = [ptr EXCEPT ![r] = None]
    /\ next' = [next EXCEPT ![r] = None]
    /\ cur' = [cur EXCEPT ![r] = None]
    /\ stamp' = [stamp EXCEPT ![r] = 0]
    /\ Goto(r, "idle")
-----------------------------------------------------------------------------
(* Readers.                                                                *)

(* hazptr_holder(): the slots are acquired; the first load of the source.  *)
(* The slot read stamps the version first and gives way to an odd one.     *)
Begin(r) ==
    /\ pc[r] = "idle" /\ (mode[r] = "slot" => version % 2 = 0)
    /\ active' = active \cup {r}
    /\ stamp' = [stamp EXCEPT ![r] = IF mode[r] = "slot" THEN version ELSE 0]
    /\ Goto(r, "load")
    /\ UNCHANGED <<mode, hp, ptr, next, cur, bad, chainVars, retireVars>>

(* Thread exit: ~tls_slot_cache returns the slots.                         *)
ReaderExit(r) ==
    /\ pc[r] = "idle" /\ r \in active
    /\ active' = active \ {r}
    /\ UNCHANGED <<mode, hp, ptr, next, cur, stamp, bad, pc, chainVars, retireVars>>

Load(r) ==
    /\ pc[r] = "load"
    /\ ptr' = [ptr EXCEPT ![r] = head]
    /\ Goto(r, "protect")
    /\ UNCHANGED <<mode, active, hp, next, cur, stamp, bad, chainVars, retireVars>>

(* protect(): publish and fence.  Where the protocol goes next differs.    *)
Protect(r) ==
    /\ pc[r] = "protect"
    /\ Publish(r, 1, ptr[r])
    /\ Goto(r, CASE mode[r] = "reload" -> "reload"
                 [] mode[r] = "slot" -> "restamp"
                 [] mode[r] = "walk" -> "compare"
                 [] mode[r] = "pin" -> "verify")
    /\ UNCHANGED <<mode, active, ptr, next, cur, stamp, bad, chainVars, retireVars>>

(* protect_and_reload_with(): accept once the re-read agrees.              *)
Reload(r) ==
    /\ pc[r] = "reload"
    /\ ptr' = [ptr EXCEPT ![r] = head]
    /\ Goto(r, IF head # ptr[r] THEN "protect" ELSE IF head = None THEN "done" ELSE "use")
    /\ UNCHANGED <<mode, active, hp, next, cur, stamp, bad, chainVars, retireVars>>

(* find_f14_hazptr_embedded(), inline slots: the version is read again     *)
(* after the publication; a change sends the reader away.                  *)
Restamp(r) ==
    /\ pc[r] = "restamp"
    /\ Goto(r, IF version = stamp[r] /\ ptr[r] # None THEN "use" ELSE "done")
    /\ UNCHANGED <<readVars, chainVars, retireVars>>

(* A validated reader uses the node for as long as it keeps the holder.    *)
Use(r) ==
    /\ pc[r] = "use"
    /\ Touch(r, ptr[r])
    /\ \E last \in BOOLEAN : Goto(r, IF last THEN "done" ELSE "use")
    /\ UNCHANGED <<mode, active, hp, ptr, next, cur, stamp, chainVars, retireVars>>

Done(r) ==
    /\ pc[r] = "done"
    /\ Release(r)
    /\ UNCHANGED <<mode, active, bad, chainVars, retireVars>>

(* find_hazptr_embedded(): curr's key is compared (a match returns), then  *)
(* its link is read and published in the second slot.                      *)
Compare(r) ==
    /\ pc[r] = "compare"
    /\ IF ptr[r] = None
       THEN Goto(r, "done") /\ UNCHANGED <<bad, next>>
       ELSE /\ Touch(r, ptr[r])
            /\ next' = [next EXCEPT ![r] = nxt[ptr[r]]]
            /\ \E match \in BOOLEAN :
                  Goto(r, IF match \/ nxt[ptr[r]] = None THEN "done" ELSE "protectnext")
    /\ UNCHANGED <<mode, active, hp, ptr, cur, stamp, chainVars, retireVars>>

ProtectNext(r) ==
    /\ pc[r] = "protectnext"
    /\ Publish(r, 2, next[r])
    /\ Goto(r, "verifynext")
    /\ UNCHANGED <<mode, active, ptr, next, cur, stamp, bad, chainVars, retireVars>>

(* The head is read again; if it is not curr, is_reachable() walks there.  *)
(* cur is the node that walk stands on.                                    *)
Verify(r) ==
    /\ pc[r] \in {"verify", "verifynext"}
    /\ IF pc[r] = "verify" /\ ptr[r] = None
       THEN Goto(r, "done") /\ UNCHANGED cur
       ELSE /\ cur' = [cur EXCEPT ![r] = head]
            /\ Goto(r, IF pc[r] = "verify" THEN "reach" ELSE "reachnext")
    /\ UNCHANGED <<mode, active, hp, ptr, next, stamp, bad, chainVars, retireVars>>

(* is_reachable(): the nodes on the way are not protected.                 *)
Reach(r) ==
    /\ pc[r] \in {"reach", "reachnext"} /\ cur[r] \notin {None, ptr[r]}
    /\ Touch(r, cur[r])
    /\ cur' = [cur EXCEPT ![r] = nxt[@]]
    /\ UNCHANGED <<mode, active, hp, ptr, next, stamp, pc, chainVars, retireVars>>

(* curr is gone: restart from the head.                                    *)
Restart(r) ==
    /\ pc[r] \in {"reach", "reachnext"} /\ cur[r] = None
    /\ ptr' = [ptr EXCEPT ![r] = head]
    /\ Goto(r, "protect")
    /\ UNCHANGED <<mode, active, hp, next, cur, stamp, bad, chainVars, retireVars>>

(* curr is still linked: compare it (pin), or move on to next.             *)
Confirm(r) ==
    /\ pc[r] = "reach" /\ cur[r] = ptr[r]
    /\ Goto(r, "compare")
    /\ UNCHANGED <<readVars, chainVars, retireVars>>

Advance(r) ==
    /\ pc[r] = "reachnext" /\ cur[r] = ptr[r]
    /\ hp' = [hp EXCEPT ![r] = <<@[2], @[1]>>]
    /\ ptr' = [ptr EXCEPT ![r] = next[r]]
    /\ Goto(r, IF mode[r] = "pin" THEN "verify" ELSE "compare")
    /\ UNCHANGED <<mode, active, next, cur, stamp, bad, chainVars, retireVars>>
-----------------------------------------------------------------------------
(* Writers.                                                                *)

(* A change of the chain happens under the bucket lock.                    *)
Idle(t) == pc[t] = "idle" /\ t \in Writers
Unlocked == \A u \in Writers : pc[u] # "unlink"

Insert(t) ==
    /\ Idle(t) /\ Unlocked
    /\ \E n \in fresh :
          /\ nxt' = [nxt EXCEPT ![n] = head]
          /\ head' = n
          /\ fresh' = fresh \ {n}
    /\ version' = version + 2
    /\ UNCHANGED <<pc, readVars, retireVars>>

(* erase(): version odd, unlink, clear the node's own link, version even.  *)
EraseBegin(t) ==
    /\ Idle(t) /\ Unlocked
    /\ \E n \in Nodes \ (claimed \cup fresh) :
          /\ \A u \in Writers : reg[u].obj # n
          /\ reg' = [reg EXCEPT ![t].obj = n]
    /\ version' = version + 1
    /\ Goto(t, "unlink")
    /\ UNCHANGED <<head, nxt, fresh, readVars, claimed, buf, pending, ledger,
                   reclaiming, freed, stack>>

EraseEnd(t) ==
    /\ pc[t] = "unlink"
    /\ LET n == reg[t].obj
       IN /\ head' = IF head = n THEN nxt[n] ELSE head
          /\ nxt' = [m \in Nodes |-> IF m = n THEN None
                                     ELSE IF nxt[m] = n THEN nxt[n] ELSE nxt[m]]
    /\ version' = version + 1
    /\ Goto(t, "retire")
    /\ UNCHANGED <<fresh, readVars, retireVars>>

(* retire_obj(), claim_retired(), push_retired().                          *)
Retire(t) ==
    /\ pc[t] = "retire"
    /\ reg' = [reg EXCEPT ![t].obj = None]
    /\ claimed' = claimed \cup {reg[t].obj}
    /\ buf' = [buf EXCEPT ![t] = Append(@, reg[t].obj)]
    /\ IF Len(buf[t]) + 1 >= BufCapacity THEN Call(t, "flush", "idle")
                                         ELSE Goto(t, "idle") /\ UNCHANGED stack
    /\ UNCHANGED <<pending, ledger, reclaiming, freed, chainVars, readVars>>

(* flush_tls_buffer() and push_pending(): the buffer, in order, goes in    *)
(* front of the pending list; maybe_auto_reclaim() follows.                *)
Flush(t) ==
    /\ pc[t] = "flush"
    /\ pending' = buf[t] \o pending
    /\ ledger' = ledger + Len(buf[t])
    /\ buf' = [buf EXCEPT ![t] = <<>>]
    /\ IF buf[t] = <<>> THEN Return(t) ELSE Goto(t, "auto") /\ UNCHANGED stack
    /\ UNCHANGED <<claimed, reclaiming, freed, reg, chainVars, readVars>>

(* maybe_auto_reclaim(): above the threshold, one thread at a time.        *)
AutoReclaim(t) ==
    /\ pc[t] = "auto"
    /\ IF ledger > Threshold /\ ~reclaiming
       THEN reclaiming' = TRUE /\ Call(t, "exchange", "autoend")
       ELSE Return(t) /\ UNCHANGED reclaiming
    /\ UNCHANGED <<claimed, buf, pending, ledger, freed, reg, chainVars, readVars>>

AutoEnd(t) ==
    /\ pc[t] = "autoend"
    /\ reclaiming' = FALSE
    /\ Return(t)
    /\ UNCHANGED <<claimed, buf, pending, ledger, freed, reg, chainVars, readVars>>

(* try_reclaim(): flush, then detach the pending list.                     *)
TryReclaim(t) ==
    /\ Idle(t) /\ (pending # <<>> \/ buf[t] # <<>>)
    /\ pc' = [pc EXCEPT ![t] = "flush"]
    /\ stack' = [stack EXCEPT ![t] = <<"exchange", "idle">>]
    /\ UNCHANGED <<claimed, buf, pending, ledger, reclaiming, freed, reg, chainVars, readVars>>

reverse_pending_list(list) == [i \in 1..Len(list) |-> list[Len(list) + 1 - i]]

(* A pass with a batch size (here 1) works on the list oldest first; an    *)
(* automatic pass has none.                                                *)
Exchange(t) ==
    /\ pc[t] = "exchange"
    /\ pending' = <<>>
    /\ IF pending = <<>>
       THEN Return(t) /\ UNCHANGED reg
       ELSE /\ \E batch \in IF Head(stack[t]) = "autoend" THEN {0} ELSE {0, 1} :
                  reg' = [reg EXCEPT ![t].batch = batch,
                                     ![t].taken = IF batch > 0 THEN reverse_pending_list(pending)
                                                               ELSE pending]
            /\ Goto(t, "count") /\ UNCHANGED stack
    /\ UNCHANGED <<claimed, buf, ledger, reclaiming, freed, chainVars, readVars>>

(* Fast path: no slot is owned, so nothing needs to be scanned.            *)
CountActive(t) ==
    /\ pc[t] = "count"
    /\ reg' = [reg EXCEPT ![t].todo = IF active = {} THEN {} ELSE Readers]
    /\ Goto(t, "scan")
    /\ UNCHANGED <<claimed, buf, pending, ledger, reclaiming, freed, stack, chainVars, readVars>>

(* build_protected_vector(): one thread's slots at a time.                 *)
ScanSlots(t) ==
    /\ pc[t] = "scan"
    /\ \E r \in reg[t].todo :
          reg' = [reg EXCEPT ![t].todo = @ \ {r},
                             ![t].prot = @ \cup IF r \in active THEN {hp[r][1], hp[r][2]} ELSE {}]
    /\ UNCHANGED <<claimed, buf, pending, ledger, reclaiming, freed, pc, stack, chainVars, readVars>>

\* Mutant: the search in the sorted vector never finds anything.
NeverProtected(t, n) == FALSE

(* is_in_protected_vector().                                               *)
IsProtected(t, n) == n \in reg[t].prot

(* The walk over the detached list, one node: it is reclaimed, or chained  *)
(* again if protected.  At most batch nodes are inspected (0: all).        *)
More(t) ==
    /\ reg[t].pos <= Len(reg[t].taken)
    /\ reg[t].batch = 0 \/ reg[t].pos <= reg[t].batch

FreeNext(t) ==
    /\ pc[t] = "scan" /\ reg[t].todo = {} /\ More(t)
    /\ LET n == reg[t].taken[reg[t].pos]
       IN IF IsProtected(t, n)
          THEN /\ reg' = [reg EXCEPT ![t].pos = @ + 1, ![t].keep = Append(@, n)]
               /\ UNCHANGED freed
          ELSE /\ reg' = [reg EXCEPT ![t].pos = @ + 1]
               /\ freed' = freed \cup {n}
    /\ UNCHANGED <<claimed, buf, pending, ledger, reclaiming, pc, stack, chainVars, readVars>>

(* What was not inspected goes behind what is still protected.             *)
FreeEnd(t) ==
    /\ pc[t] = "scan" /\ reg[t].todo = {} /\ ~More(t)
    /\ reg' = [reg EXCEPT ![t].keep =
                  @ \o SubSeq(reg[t].taken, reg[t].pos, Len(reg[t].taken))]
    /\ Goto(t, "putback")
    /\ UNCHANGED <<claimed, buf, pending, ledger, reclaiming, freed, stack, chainVars, readVars>>

(* push_pending() of the survivors, which may itself start an automatic    *)
(* pass, before the detached chain is released from the ledger.            *)
PutBack(t) ==
    /\ pc[t] = "putback"
    /\ pending' = reg[t].keep \o pending
    /\ ledger' = ledger + Len(reg[t].keep)
    /\ reg' = [reg EXCEPT ![t] = [NoRegs EXCEPT !.owed = <<Len(reg[t].taken)>> \o reg[t].owed]]
    /\ IF reg[t].keep = <<>> THEN Goto(t, "release") /\ UNCHANGED stack
                             ELSE Call(t, "auto", "release")
    /\ UNCHANGED <<claimed, buf, reclaiming, freed, chainVars, readVars>>

PendingRelease(t) ==
    /\ pc[t] = "release"
    /\ ledger' = ledger - Head(reg[t].owed)
    /\ reg' = [reg EXCEPT ![t].owed = Tail(@)]
    /\ Return(t)
    /\ UNCHANGED <<claimed, buf, pending, reclaiming, freed, chainVars, readVars>>
-----------------------------------------------------------------------------
ReaderStep(r) ==
    \/ Begin(r) \/ ReaderExit(r) \/ Load(r) \/ Protect(r) \/ Reload(r) \/ Restamp(r)
    \/ Use(r) \/ Done(r) \/ Compare(r) \/ ProtectNext(r) \/ Verify(r) \/ Reach(r)
    \/ Restart(r) \/ Confirm(r) \/ Advance(r)

WriterStep(t) ==
    \/ Insert(t) \/ EraseBegin(t) \/ EraseEnd(t) \/ Retire(t) \/ Flush(t)
    \/ AutoReclaim(t) \/ AutoEnd(t) \/ TryReclaim(t) \/ Exchange(t) \/ CountActive(t) \/ ScanSlots(t)
    \/ FreeNext(t) \/ FreeEnd(t) \/ PutBack(t) \/ PendingRelease(t)

Next ==
    \/ \E r \in Readers : ReaderStep(r)
    \/ \E t \in Writers : WriterStep(t)

Spec == Init /\ [][Next]_vars
-----------------------------------------------------------------------------
TypeOK ==
    /\ head \in Nodes \cup {None} /\ nxt \in [Nodes -> Nodes \cup {None}]
    /\ version \in Nat
    /\ mode \in [Readers -> Modes] /\ active \subseteq Readers
    /\ hp \in [Readers -> (Nodes \cup {None}) \X (Nodes \cup {None})]
    /\ ptr \in [Readers -> Nodes \cup {None}] /\ next \in [Readers -> Nodes \cup {None}]
    /\ cur \in [Readers -> Nodes \cup {None}] /\ bad \in [Readers -> BOOLEAN]
    /\ claimed \subseteq Nodes \ fresh /\ freed \subseteq claimed
    /\ pending \in Seq(claimed) /\ \A t \in Writers : buf[t] \in Seq(claimed)
    /\ ledger \in Nat /\ reclaiming \in BOOLEAN

(* hazptr_domain implements deferred reclamation for readers that follow   *)
(* the contract of protect(): publish, then re-validate, then use.  The    *)
(* reference of such a reader begins at its re-validation.                 *)
Unlinked(n) == n \in fresh \/ n \in claimed \/ (\E t \in Writers : pc[t] = "retire" /\ reg[t].obj = n)
Abstract == INSTANCE SafeReclamation WITH
    Objects <- Nodes,
    reachable <- {n \in Nodes : ~Unlinked(n)},
    ref <- [r \in Readers |-> IF pc[r] = "use" THEN {ptr[r]} ELSE {}],
    retired <- claimed,
    unsafe <- FALSE
ImplementsSafeReclamation == Abstract!Spec

(* A reader that re-validates never looks into a freed node.               *)
NoUseAfterFree == \A r \in Readers : mode[r] \in Validated => ~bad[r]

(* The chain walks publish every node they compare (comment in             *)
(* find_hazptr_embedded(): "Check key while curr is protected from         *)
(* reclamation"), but the node was loaded before it was published and      *)
(* is_reachable() looks into nodes that nobody published.                  *)
WalkProtected == \A r \in Readers : ~bad[r]
=============================================================================
