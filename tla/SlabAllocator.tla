--------------------------- MODULE SlabAllocator ----------------------------
(***************************************************************************)
(* slab_allocator, allocation_class and numa_aware_slab_allocator          *)
(* (memory.hpp): blocks of a few size classes, carved from slabs, one      *)
(* lock-free stack of free blocks per class and NUMA node, grown under the *)
(* mutex of the class.  The head of a stack is a pointer with a counter    *)
(* that every push and pop moves on.                                       *)
(*                                                                         *)
(* A pool is a node and a class.  A block is known by its pool and number: *)
(* the header in front of it says as much.  A thread allocates on the node *)
(* it runs on at that moment, and frees any live block, with a size it     *)
(* claims.  Callers write into their blocks, the link of the free list     *)
(* included.  Requests beyond the largest class go to the heap.            *)
(***************************************************************************)
EXTENDS Naturals, FiniteSets, Functions

CONSTANTS
  Threads, NoThread,
  Shapes,             \* the allocators: pools, slabs a pool may have, blocks of a slab;
                      \* with the bounds on calls and on blocks from the heap
  Large,              \* kLargeClassIndex, above every class
  TagMod, CountMod    \* 2^32: the width of the tag and of free_count_

VARIABLES
  shape,    \* the configuration
  list,     \* per pool, free_list_: pointer and tag
  link,     \* per block, the pointer in its first word
  live,     \* the blocks callers hold
  leaked,   \* blocks whose free was refused
  slabs,    \* per pool, num_slabs_
  mutex,    \* per pool, who holds slab_mutexes_
  count,    \* per pool: free_count_, alloc_ops_, free_ops_, failures
  op        \* per thread, the call in progress

vars == <<shape, list, link, live, leaked, slabs, mutex, count, op>>

NoBlock == <<>>
Pools == shape.pools
BlocksOf(p) == {p} \X (1..(shape.max_slabs * shape.items))
HeapBlocks == {<<0, Large>>} \X (1..shape.heap)
Blocks == HeapBlocks \cup UNION {BlocksOf(p) : p \in Pools}
PoolOf(b) == b[1]
ClassOf(b) == b[1][2]

Idle == [at |-> "idle", pool |-> <<0, 0>>, phase |-> "fast", snap |-> [ptr |-> NoBlock, tag |-> 0],
         next |-> NoBlock, blk |-> NoBlock, todo |-> 0]

At(t, where) == op[t].at = where
Pool(t) == op[t].pool
Go(t, where) == op' = [op EXCEPT ![t].at = where]
Finish(t) == op' = [op EXCEPT ![t] = Idle]

-----------------------------------------------------------------------------
(* Mutant: the pointer without a counter.                                  *)
TaggedBare(ptr, old) == [ptr |-> ptr, tag |-> old.tag]

(* tagged_ptr: the tag moves on with every change, the empty list included. *)
Tagged(ptr, old) == [ptr |-> ptr, tag |-> (old.tag + 1) % TagMod]

Calls == count.calls

(* allocate(): the class of the size, on the node of the thread.           *)
allocate(t, p) ==
  /\ At(t, "idle") /\ Calls < shape.ops
  /\ op' = [op EXCEPT ![t] = [Idle EXCEPT !.at = "load", !.pool = p]]
  /\ count' = [count EXCEPT !.calls = @ + 1]
  /\ UNCHANGED <<shape, list, link, live, leaked, slabs, mutex>>

(* allocate_large(): the heap has a block, or throws.                      *)
allocate_large(t, b) ==
  /\ At(t, "idle") /\ Calls < shape.ops /\ b \in HeapBlocks \ (live \cup leaked)
  /\ live' = live \cup {b}
  /\ count' = [count EXCEPT !.calls = @ + 1]
  /\ UNCHANGED <<shape, list, link, leaked, slabs, mutex, op>>

(* allocation_class::allocate(): head, its link, and a swap of the head.   *)
Load(t) ==
  LET snap == list[Pool(t)] IN
  /\ At(t, "load")
  /\ op' = [op EXCEPT ![t].snap = snap, ![t].at = IF snap.ptr = NoBlock THEN "empty" ELSE "next"]
  /\ UNCHANGED <<shape, list, link, live, leaked, slabs, mutex, count>>

ReadNext(t) ==
  /\ At(t, "next")
  /\ op' = [op EXCEPT ![t].at = "pop", ![t].next = link[op[t].snap.ptr]]
  /\ UNCHANGED <<shape, list, link, live, leaked, slabs, mutex, count>>

(* The caller owns the block and may write anything over the link.         *)
Pop(t) ==
  LET snap == op[t].snap
      b == snap.ptr
  IN
  /\ At(t, "pop")
  /\ IF list[Pool(t)] = snap
     THEN /\ list' = [list EXCEPT ![Pool(t)] = Tagged(op[t].next, snap)]
          /\ \E junk \in {NoBlock, b} : link' = [link EXCEPT ![b] = junk]
          /\ live' = live \cup {b}
          /\ Go(t, "note")
     ELSE Go(t, "load") /\ UNCHANGED <<list, link, live>>
  /\ UNCHANGED <<shape, leaked, slabs, mutex, count>>

Release(t) == mutex' = [p \in Pools |-> IF mutex[p] = t THEN NoThread ELSE mutex[p]]

(* The counters follow the pop: free_count_ may go below zero for a moment. *)
note_allocation(t) ==
  /\ At(t, "note")
  /\ count' = [count EXCEPT !.free[Pool(t)] = (@ + CountMod - 1) % CountMod,
                            !.allocs[Pool(t)] = @ + 1]
  /\ Release(t) /\ Finish(t)
  /\ UNCHANGED <<shape, list, link, live, leaked, slabs>>

-----------------------------------------------------------------------------
(* The slow path: the mutex of the class, a second look, the slab budget.  *)
Lock(t) ==
  /\ At(t, "empty") /\ op[t].phase = "fast" /\ mutex[Pool(t)] = NoThread
  /\ mutex' = [mutex EXCEPT ![Pool(t)] = t]
  /\ op' = [op EXCEPT ![t].at = "load", ![t].phase = "locked"]
  /\ UNCHANGED <<shape, list, link, live, leaked, slabs, count>>

(* The budget is spent, the system has no memory, or others took all the   *)
(* blocks of the new slab: nullptr or an exception.                        *)
note_alloc_failure(t) ==
  /\ At(t, "empty") /\ op[t].phase # "fast"
  /\ Release(t) /\ Finish(t)
  /\ UNCHANGED <<shape, list, link, live, leaked, slabs, count>>

add_slab_to_class(t) ==
  /\ At(t, "empty") /\ op[t].phase = "locked" /\ slabs[Pool(t)] < shape.max_slabs
  /\ op' = [op EXCEPT ![t].at = "link", ![t].phase = "carve", ![t].todo = shape.items,
                      ![t].blk = <<Pool(t), slabs[Pool(t)] * shape.items + shape.items>>]
  /\ UNCHANGED <<shape, list, link, live, leaked, slabs, mutex, count>>

(* push_free(): the block is linked to the head, and becomes the head.     *)
Link(t) ==
  /\ At(t, "link")
  /\ link' = [link EXCEPT ![op[t].blk] = list[Pool(t)].ptr]
  /\ op' = [op EXCEPT ![t].at = "push", ![t].snap = list[Pool(t)]]
  /\ UNCHANGED <<shape, list, live, leaked, slabs, mutex, count>>

push_free(t) ==
  /\ At(t, "push")
  /\ IF list[Pool(t)] = op[t].snap
     THEN /\ list' = [list EXCEPT ![Pool(t)] = Tagged(op[t].blk, op[t].snap)]
          /\ Go(t, "pushed")
     ELSE Go(t, "link") /\ UNCHANGED list
  /\ UNCHANGED <<shape, link, live, leaked, slabs, mutex, count>>

(* The count follows the push; carving goes on to the next block.          *)
add_slab(t) ==
  LET left == op[t].todo - 1
      p == Pool(t)
  IN
  /\ At(t, "pushed") /\ op[t].phase = "carve"
  /\ count' = [count EXCEPT !.free[p] = (@ + 1) % CountMod]
  /\ IF left > 0
     THEN /\ op' = [op EXCEPT ![t].at = "link", ![t].todo = left,
                              ![t].blk = <<p, slabs[p] * shape.items + left>>]
          /\ UNCHANGED slabs
     ELSE /\ op' = [op EXCEPT ![t].at = "load", ![t].phase = "grown", ![t].blk = NoBlock,
                              ![t].todo = 0]
          /\ slabs' = [slabs EXCEPT ![p] = @ + 1]
  /\ UNCHANGED <<shape, list, link, live, leaked, mutex>>

-----------------------------------------------------------------------------
(* deallocate(): the header decides where the block goes, and a size that  *)
(* does not fit the block is refused.  free_ops_ moves before the push.    *)
ClaimFits(b, claim) == IF ClassOf(b) = Large THEN claim = Large ELSE claim <= ClassOf(b)

note_dealloc_reject(t, b) ==
  /\ leaked' = leaked \cup {b} /\ live' = live \ {b}
  /\ UNCHANGED <<count, op>>

free_by_header(t, b) ==
  /\ live' = live \ {b}
  /\ IF ClassOf(b) = Large THEN UNCHANGED <<count, op>>
     ELSE /\ count' = [count EXCEPT !.frees[PoolOf(b)] = @ + 1]
          /\ op' = [op EXCEPT ![t] = [Idle EXCEPT !.at = "link", !.pool = PoolOf(b), !.blk = b]]
  /\ UNCHANGED leaked

deallocate(t, b, claim) ==
  /\ At(t, "idle") /\ b \in live
  /\ ClassOf(b) # Large => ~\E u \in Threads : At(u, "note") /\ op[u].snap.ptr = b
  /\ IF ClaimFits(b, claim) THEN free_by_header(t, b) ELSE note_dealloc_reject(t, b)
  /\ UNCHANGED <<shape, list, link, slabs, mutex>>

deallocate_block(t, b) == deallocate(t, b, ClassOf(b))

Freed(t) ==
  /\ At(t, "pushed") /\ op[t].phase = "fast"
  /\ count' = [count EXCEPT !.free[Pool(t)] = (@ + 1) % CountMod]
  /\ Finish(t)
  /\ UNCHANGED <<shape, list, link, live, leaked, slabs, mutex>>

-----------------------------------------------------------------------------
Init ==
  /\ shape \in Shapes
  /\ list = [p \in Pools |-> [ptr |-> NoBlock, tag |-> 0]]
  /\ link = [b \in Blocks |-> NoBlock]
  /\ live = {} /\ leaked = {}
  /\ slabs = [p \in Pools |-> 0] /\ mutex = [p \in Pools |-> NoThread]
  /\ count = [free |-> [p \in Pools |-> 0], allocs |-> [p \in Pools |-> 0],
              frees |-> [p \in Pools |-> 0], calls |-> 0]
  /\ op = [t \in Threads |-> Idle]

Step(t) ==
  \/ Load(t) \/ ReadNext(t) \/ Pop(t) \/ note_allocation(t) \/ Lock(t) \/ note_alloc_failure(t)
  \/ add_slab_to_class(t) \/ Link(t) \/ push_free(t) \/ add_slab(t) \/ Freed(t)
Classes == {p[2] : p \in Pools} \cup {Large}
Begin(t) ==
  \/ \E p \in Pools : allocate(t, p)
  \/ \E b \in HeapBlocks : allocate_large(t, b)
  \/ \E b \in live : deallocate_block(t, b) \/ \E claim \in Classes : deallocate(t, b, claim)

Done == Calls = shape.ops /\ (\A t \in Threads : At(t, "idle")) /\ UNCHANGED vars
Next == (\E t \in Threads : Begin(t) \/ Step(t)) \/ Done
Spec == Init /\ [][Next]_vars

-----------------------------------------------------------------------------
TypeOK ==
  /\ live \subseteq Blocks /\ leaked \subseteq Blocks
  /\ \A p \in Pools : list[p].ptr \in Blocks \cup {NoBlock} /\ slabs[p] <= shape.max_slabs

(* The blocks on the free list of a pool, in order.                        *)
Chain(p) ==
  LET walk[n \in 0..Cardinality(Blocks)] ==
        IF n = 0 THEN list[p].ptr
        ELSE IF walk[n - 1] = NoBlock THEN NoBlock ELSE link[walk[n - 1]]
  IN  [n \in 1..(Cardinality(Blocks) + 1) |-> walk[n - 1]]
OnList(p) == Range(Chain(p)) \ {NoBlock}
Carved(p) ==
  {b \in BlocksOf(p) : b[2] <= slabs[p] * shape.items}
    \cup UNION {{b \in BlocksOf(p) : b[2] >= op[t].blk[2] /\ b[2] <= (slabs[p] + 1) * shape.items}
                 : t \in {u \in Threads : op[u].phase = "carve" /\ Pool(u) = p}}
InHand(p) == {op[t].blk : t \in {u \in Threads : Pool(u) = p /\ op[u].at \in {"link", "push"}}}

(* No block is lost and none is handed out twice: a carved block is in     *)
(* exactly one place (the free list of its own pool, once; with a caller;  *)
(* in the hands of a thread that frees it; refused), however pushes and    *)
(* pops meet and whatever callers write into their blocks.                 *)
Once(chain) ==
  \A m, n \in DOMAIN chain : m # n => chain[m] # chain[n] \/ chain[m] = NoBlock
BlocksConserved ==
  \A p \in Pools :
    LET held == (live \cup leaked) \cap BlocksOf(p) IN
    /\ Once(Chain(p))
    /\ OnList(p) \cup InHand(p) \cup held = Carved(p)
    /\ Cardinality(OnList(p)) + Cardinality(InHand(p)) + Cardinality(held)
         = Cardinality(Carved(p))

(* The counters agree with the blocks, up to the calls that have moved a   *)
(* block and not yet counted it; free_count_ agrees modulo its width.      *)
Counting(p, where) == Cardinality({t \in Threads : Pool(t) = p /\ At(t, where)})
CountersExact ==
  \A p \in Pools :
    /\ count.allocs[p] + Counting(p, "note")
         = count.frees[p] + Cardinality((live \cup leaked) \cap BlocksOf(p))
    /\ (count.free[p] + Counting(p, "pushed")) % CountMod
         = (Cardinality(OnList(p)) + Counting(p, "note")) % CountMod
=============================================================================
