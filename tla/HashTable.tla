----------------------------- MODULE HashTable -----------------------------
(***************************************************************************)
(* concurrent_hash_table (src/detail/concurrent_hash_table.hpp), one        *)
(* segment, EmbeddedChain: a power-of-two array of buckets, each with a     *)
(* spinlock, a version and a chain of nodes.  The F14 mode puts nodes in    *)
(* inline slots first (one slot here) and only the overflow in the chain;   *)
(* `f14' selects it.  Writers insert, assign and erase under the bucket     *)
(* lock.  Readers look a key up under the shared lock, optimistically       *)
(* (version and seqlock validated), or with the raw walk of the lock-free   *)
(* path.  The array grows in one blocking step or bucket by bucket, the     *)
(* latter driven by every writer and by a background balancer.              *)
(*                                                                         *)
(* Array g is the g-th array ever installed; `gen' is buckets_/chunks_,     *)
(* `mask' is bucket_mask_ (stored after the pointer), `newArr' is           *)
(* rehash_new_buckets_.  A chain is a sequence: the successor of a node is  *)
(* the next one in the chain that holds it now, and an erased node has      *)
(* none, which is what set_hash_chain_next(nullptr) leaves behind.  Bucket    *)
(* versions and the seqlock are only ever tested for being odd and for being *)
(* what they were, so they are kept as parities, and a reader's flag clean   *)
(* falls when one it has loaded moves.                                       *)
(***************************************************************************)
EXTENDS Naturals, FiniteSets, Sequences, SequencesExt

CONSTANTS Nodes, Keys, Null, NoArray,
          KeyOf,       \* [Nodes -> Keys], node->key
          HashOf,      \* [Keys -> Nat], hash_(key)
          Writers, Readers, Balancers,
          Scenarios,   \* [f14, incremental, nodes, ops, lookups]: what a behaviour combines
          Parities,    \* the parities of the seqlock in a chain-mode table at the start
          Probes,      \* the keys they look for
          InitCount,   \* buckets of array 0
          FinishBudget, \* kRehashFinishMaxBucketsPerCall / 16
          MaxGen,      \* bound: the number of rehashes
          LoadNum, LoadDen   \* the overload threshold LoadNum / LoadDen

ASSUME TableAssumption ==
    /\ KeyOf \in [Nodes -> Keys]
    /\ HashOf \in [Keys -> Nat]
    /\ InitCount \in Nat \ {0}
    /\ MaxGen \in Nat
    /\ Null \notin Nodes
    /\ NoArray \notin 0 .. MaxGen

VARIABLES f14, incremental, pool,     \* the probing tag, the rehash strategy, the scenario
          arr,                        \* array -> bucket -> [slot, chain, odd]
          spin,                       \* array -> bucket -> holder or Null
          gen, mask, newArr, size, seqlock,
          inProgress, migrating, progress,
          pc, loc,                    \* per thread: control and locals
          live,                       \* nodes inserted and not erased
          stale,                      \* some step used an outdated index or lock, or
                                      \* claimed a migration not yet or no longer set up
          clean,                      \* per reader: seqlock and version unmoved since it loaded them
          absent, moved               \* per reader, since its call began

table == <<arr, gen, mask, newArr, size, seqlock, inProgress, migrating, progress>>
vars == <<f14, incremental, pool, arr, spin, gen, mask, newArr, size, seqlock, inProgress,
          migrating, progress, pc, loc, live, stale, clean, absent, moved>>

Threads == Writers \cup Readers \cup Balancers
Count(g) == InitCount * 2 ^ g
Hash(n) == HashOf[KeyOf[n]]
IdleLoc == [op |-> "none", key |-> Null, node |-> Null, idx |-> 0, lock |-> NoArray,
            inNew |-> FALSE, p |-> 0, guard |-> FALSE,
            found |-> Null, batch |-> 0, ret |-> "idle", total |-> 0, left |-> 0]
EmptyBucket == [slot |-> Null, chain |-> <<>>, odd |-> FALSE]
TombSlot == "tombstone"

-----------------------------------------------------------------------------
(* Buckets *)

\* find_f14_embedded / find_node_embedded: the inline slot, then the chain.
NodesOf(b) == (IF b.slot \in Nodes THEN <<b.slot>> ELSE <<>>) \o b.chain
InBucket(b, k) == {n \in ToSet(NodesOf(b)) : KeyOf[n] = k}
FindNode(b, k) == IF InBucket(b, k) = {} THEN Null ELSE CHOOSE n \in InBucket(b, k) : TRUE

\* insert: a free inline slot takes the node (the occupancy mask decides in the
\* installed array, only a never-used kTagEmpty slot counts in one that is being
\* filled); otherwise, and always without inline slots, the head of the chain.
InsertChain(b, n) == [b EXCEPT !.chain = <<n>> \o @]
InsertF14(b, n, inNew) ==
    IF b.slot = Null \/ (~inNew /\ b.slot = TombSlot) THEN [b EXCEPT !.slot = n]
                                                     ELSE InsertChain(b, n)
Link(b, n, inNew) == IF f14 THEN InsertF14(b, n, inNew) ELSE InsertChain(b, n)

\* insert_or_assign over a node of the same key: its place in the chain or its
\* slot goes to the new node.
AssignChain(b, old, n) == [b EXCEPT !.chain = [i \in DOMAIN @ |-> IF @[i] = old THEN n ELSE @[i]]]
AssignF14(b, old, n) == IF b.slot = old THEN [b EXCEPT !.slot = n] ELSE AssignChain(b, old, n)
\* In the dual-array loop of the F14 mode only the link of the old node is
\* copied: slot and chain stay as they are.
AssignF14Dual(b, old, n) == b

\* erase: a tombstone in the slot, or the chain without the node.
EraseChain(b, n) == [b EXCEPT !.chain = SelectSeq(@, LAMBDA m : m # n)]
EraseF14(b, n) == IF b.slot = n THEN [b EXCEPT !.slot = TombSlot] ELSE EraseChain(b, n)
Flip(b) == [b EXCEPT !.odd = ~@]

\* hash_chain_next() of a node, wherever it is linked now.
Successor(n) ==
    LET at == {<<g, i>> \in {<<g, i>> : g \in 0 .. MaxGen, i \in 0 .. Count(MaxGen) - 1} :
                  i < Count(g) /\ n \in ToSet(arr[g][i].chain)}
        chain == LET x == CHOOSE x \in at : TRUE IN arr[x[1]][x[2]].chain
        j == CHOOSE j \in DOMAIN chain : chain[j] = n
    IN IF at = {} \/ j = Len(chain) THEN Null ELSE chain[j + 1]

Active == incremental /\ inProgress
Loaded == size * LoadDen > (mask + 1) * LoadNum
Free(g, i) == spin[g][i] = Null
Home(k) == HashOf[k] % (mask + 1)

-----------------------------------------------------------------------------
TypeOK ==
    /\ f14 \in BOOLEAN /\ incremental \in BOOLEAN
    /\ gen \in 0 .. MaxGen /\ newArr \in (0 .. MaxGen) \cup {NoArray}
    /\ mask \in {Count(g) - 1 : g \in 0 .. MaxGen}
    /\ size \in 0 .. Cardinality(Nodes) /\ seqlock \in BOOLEAN
    /\ inProgress \in BOOLEAN /\ migrating \in BOOLEAN /\ progress \in 0 .. Count(MaxGen)
    /\ live \subseteq Nodes
    /\ \A g \in 0 .. MaxGen : \A i \in 0 .. Count(g) - 1 :
          /\ arr[g][i].slot \in Nodes \cup {Null, TombSlot}
          /\ arr[g][i].odd \in BOOLEAN
          /\ spin[g][i] \in Threads \cup {Null}

\* A fresh table, or one whose seqlock an earlier chain-mode incremental
\* rehash left odd (it adds one at the beginning and two at the end).
Init ==
    /\ pool \in Scenarios /\ f14 = pool.f14 /\ incremental = pool.incremental
    /\ arr = [g \in 0 .. MaxGen |-> [i \in 0 .. Count(g) - 1 |-> EmptyBucket]]
    /\ spin = [g \in 0 .. MaxGen |-> [i \in 0 .. Count(g) - 1 |-> Null]]
    /\ gen = 0 /\ mask = InitCount - 1 /\ newArr = NoArray /\ size = 0
    /\ seqlock \in IF incremental /\ ~f14 THEN Parities ELSE {FALSE}
    /\ inProgress = FALSE /\ migrating = FALSE /\ progress = 0
    /\ pc = [t \in Threads |-> "idle"] /\ loc = [t \in Threads |-> IdleLoc]
    /\ live = {} /\ stale = FALSE /\ clean = [r \in Readers |-> FALSE]
    /\ absent = [r \in Readers |-> FALSE] /\ moved = [r \in Readers |-> FALSE]

Goto(t, l) == pc' = [pc EXCEPT ![t] = l]
Set(t, l) == loc' = [loc EXCEPT ![t] = l]
Idle(t) == Goto(t, "idle") /\ Set(t, IdleLoc)
Config == UNCHANGED <<f14, incremental, pool>>
Ghosts == UNCHANGED <<live, stale, clean, absent, moved>>
Table == UNCHANGED table
Crash(t) == Goto(t, "crashed") /\ UNCHANGED loc
Answer(r, n) == Set(r, [IdleLoc EXCEPT !.op = loc[r].op, !.key = loc[r].key, !.found = n])
Retry(r, l) == Goto(r, l) /\ Set(r, [IdleLoc EXCEPT !.op = loc[r].op, !.key = loc[r].key, !.guard = loc[r].guard])
Fallback(r) == Goto(r, "shared") /\ Answer(r, Null)

\* The optimistic check of the dual-array loop comes with a bucket to lock: it
\* tries the same bucket again, or locks it.
InDual(r) == loc[r].lock # NoArray
TryAgain(r) ==
    IF InDual(r) THEN Goto(r, "dualopt") /\ UNCHANGED loc ELSE Retry(r, "opt")
GiveUp(r) ==
    IF InDual(r) THEN Goto(r, "dualold") /\ UNCHANGED loc ELSE Fallback(r)

\* The version of bucket i of the installed array moved, or the seqlock did.
VersionMoves(g, i) ==
    clean' = [r \in Readers |-> clean[r] /\ ~(pc[r] \in {"optfind", "optcheck"} /\ g = gen /\ loc[r].idx = i)]
SeqlockMoves(d) == seqlock' = (seqlock # (d = 1)) /\ clean' = [r \in Readers |-> FALSE]

\* A rehash began or an array was swapped: every running lookup overlaps it.
Overlap == moved' = [r \in Readers |-> moved[r] \/ pc[r] # "idle"]

-----------------------------------------------------------------------------
(* Writers *)

\* rehash_if_needed(): a running incremental rehash is advanced by one bucket;
\* otherwise an overloaded table starts one of twice the size.
RehashIfNeeded(w, l) ==
    LET grows == Loaded /\ gen < MaxGen IN   \* bound: MaxGen
    /\ Goto(w, CASE Active -> "step"
                 [] ~Active /\ grows -> IF incremental THEN "begin" ELSE "claimall"
                 [] OTHER -> "index")
    /\ Set(w, IF Active THEN [l EXCEPT !.batch = 1, !.ret = "index"] ELSE l)

\* One node stands for its key in a call of erase(key).
Canonical(m) == CHOOSE n \in pool.nodes : KeyOf[n] = KeyOf[m]

\* insert(key, value), insert_or_assign(key, value) and erase(key) enter here;
\* a node is handed in only when no lookup still walks over it, which is what
\* the epoch guard of the caller ensures.
Call(w, op, n) ==
    /\ pc[w] = "idle"
    /\ op = "erase" => n = Canonical(n)
    /\ op # "erase" => n \notin live /\ \A r \in Readers : loc[r].found # n
    /\ LET l == [IdleLoc EXCEPT !.op = op, !.node = n, !.key = KeyOf[n]] IN
         IF op = "erase" THEN Goto(w, "index") /\ Set(w, l) ELSE RehashIfNeeded(w, l)
    /\ Config /\ Ghosts /\ Table /\ UNCHANGED spin

\* idx = bucket_for_hash(h), and buckets_[idx].spin is resolved.
Index(w) ==
    /\ pc[w] = "index"
    /\ Goto(w, "lock")
    /\ Set(w, [loc[w] EXCEPT !.idx = Home(loc[w].key), !.lock = gen, !.inNew = FALSE])
    /\ Config /\ Ghosts /\ Table /\ UNCHANGED spin

\* The array a write of w goes to: the new one by the pointer it loaded, else
\* whatever buckets_ is by now.
Target(w) == IF loc[w].inNew THEN loc[w].lock ELSE gen
Bucket(w) == arr[Target(w)][loc[w].idx]

\* The windows in which a write lands where no lookup goes: an index or a lock
\* from before an array swap, or the old array once rehash_finish() has cleared
\* rehash_in_progress_ and before it installs the new one.
Installing == (newArr # NoArray /\ ~inProgress) \/ mask + 1 # Count(gen)
Outdated(w) ==
    ~loc[w].inNew /\ (Installing \/ loc[w].lock # gen \/ loc[w].idx # Home(loc[w].key))

\* Under the bucket lock: nothing to do when insert meets the key or erase does
\* not (the F14 erase still advances the migration); otherwise the version goes
\* odd and the write follows.
NothingToDo(w, old) == \/ loc[w].op = "insert" /\ old # Null
                       \/ loc[w].op = "erase" /\ old = Null
StepsAnyway(w) == f14 /\ loc[w].op = "erase" /\ loc[w].guard
Enter(w, old) ==
    /\ IF NothingToDo(w, old)
       THEN /\ UNCHANGED <<arr, spin, clean>>
            /\ IF StepsAnyway(w)
               THEN Goto(w, "step") /\ Set(w, [IdleLoc EXCEPT !.batch = 1])
               ELSE Idle(w)
       ELSE /\ arr' = [arr EXCEPT ![Target(w)][loc[w].idx] = Flip(@)]
            /\ VersionMoves(Target(w), loc[w].idx)
            /\ spin' = [spin EXCEPT ![loc[w].lock][loc[w].idx] = w]
            /\ Goto(w, "apply") /\ Set(w, [loc[w] EXCEPT !.found = old])
    /\ UNCHANGED <<gen, mask, newArr, size, seqlock, inProgress, migrating, progress>>

\* The first lock: with an incremental rehash running it is dropped again and
\* the dual-array loop takes over.
LockBucket(w) ==
    /\ pc[w] = "lock" /\ Free(loc[w].lock, loc[w].idx)
    /\ IF Active THEN /\ Goto(w, "dual") /\ Set(w, [loc[w] EXCEPT !.guard = TRUE])
                      /\ UNCHANGED <<spin, clean>> /\ Table
                 ELSE Enter(w, FindNode(Bucket(w), loc[w].key))
    /\ Config /\ UNCHANGED <<live, stale, absent, moved>>

\* The write itself, the second version increment and the unlock.
AssignLost(w) == f14 /\ loc[w].guard /\ loc[w].op = "assign" /\ loc[w].found # Null
Assigned(b, old, n, dual) == CASE ~f14 -> AssignChain(b, old, n)
                               [] f14 /\ ~dual -> AssignF14(b, old, n)
                               [] f14 /\ dual -> AssignF14Dual(b, old, n)
Written(w, b, old, n) ==
    CASE loc[w].op = "erase" -> IF f14 THEN EraseF14(b, old) ELSE EraseChain(b, old)
      [] loc[w].op = "assign" /\ old # Null -> Assigned(b, old, n, loc[w].guard)
      [] OTHER -> Link(b, n, loc[w].inNew)
LiveAfter(w) ==
    IF AssignLost(w) THEN live
    ELSE (live \ {loc[w].found}) \cup (IF loc[w].op = "erase" THEN {} ELSE {loc[w].node})
KeyIn(S, k) == \E n \in S : KeyOf[n] = k

Apply(w) ==
    /\ pc[w] = "apply"
    /\ arr' = [arr EXCEPT ![Target(w)][loc[w].idx] =
                   Flip(Written(w, @, loc[w].found, loc[w].node))]
    /\ VersionMoves(Target(w), loc[w].idx)
    /\ spin' = [spin EXCEPT ![loc[w].lock][loc[w].idx] = Null]
    /\ size' = Cardinality(LiveAfter(w)) - Cardinality(live) + size
    /\ live' = LiveAfter(w)
    /\ absent' = [r \in Readers |->
                     absent[r] \/ (pc[r] # "idle" /\ ~KeyIn(live', loc[r].key))]
    /\ stale' = (stale \/ Outdated(w))
    /\ IF loc[w].guard /\ ~(loc[w].op = "assign" /\ loc[w].found # Null)
       THEN Goto(w, "step") /\ Set(w, [IdleLoc EXCEPT !.batch = 1])
       ELSE Idle(w)
    /\ Config /\ UNCHANGED <<gen, mask, newArr, seqlock, inProgress, migrating, progress, moved>>

-----------------------------------------------------------------------------
(* The dual-array loop of writers and locked readers *)

\* Load the mask and the progress; a migrated bucket is looked for in the new
\* array, any other in the old one.  find_and_pin_with_hash first looks, without
\* the lock, into a chain bucket strictly ahead of the migration (optimistic
\* reads are on in every scenario but the one of locked look-ups).
DualLoad(t) ==
    /\ pc[t] = "dual"
    /\ LET i == Home(loc[t].key)
           peeks == t \in Readers /\ ~f14 /\ i > progress /\ loc[t].op # "locked"
       IN
         IF i < progress
         THEN Goto(t, "dualptr") /\ Set(t, [loc[t] EXCEPT !.p = progress, !.idx = i])
         ELSE /\ Goto(t, IF peeks THEN "dualopt" ELSE "dualold")
              /\ Set(t, [loc[t] EXCEPT !.p = 0, !.idx = i, !.lock = gen, !.inNew = FALSE,
                                       !.guard = @ \/ peeks])
    /\ Config /\ Ghosts /\ Table /\ UNCHANGED spin

\* Load rehash_new_bucket_count_ and rehash_new_buckets_, cleared once the
\* rehash has finished, and index through them.
DualPointer(t) ==
    /\ pc[t] = "dualptr"
    /\ IF newArr = NoArray
       THEN Crash(t)
       ELSE Goto(t, "dualnew") /\ Set(t, [loc[t] EXCEPT !.idx = HashOf[loc[t].key] % Count(newArr),
                                                        !.lock = newArr, !.inNew = TRUE])
    /\ Config /\ Ghosts /\ Table /\ UNCHANGED spin

\* Mutant: no re-check under the lock.
SettledAlways(t) == TRUE

\* Re-check under the lock that the bucket did not move meanwhile.
Settled(t) == IF loc[t].inNew THEN progress >= loc[t].p ELSE progress <= loc[t].idx

DualWrite(w) ==
    /\ w \in Writers /\ pc[w] \in {"dualold", "dualnew"} /\ Free(loc[w].lock, loc[w].idx)
    /\ IF Settled(w) THEN Enter(w, FindNode(Bucket(w), loc[w].key))
                     ELSE Goto(w, "dual") /\ UNCHANGED <<loc, spin, clean>> /\ Table
    /\ Config /\ UNCHANGED <<live, stale, absent, moved>>

\* find_and_pin_with_hash / find_f14_dual_array on the settled bucket.  The F14
\* lookup retries a bounded number of times and then searches both arrays.
DualFind(r) ==
    /\ r \in Readers /\ pc[r] \in {"dualold", "dualnew"}
    /\ spin[loc[r].lock][loc[r].idx] = Null
    /\ IF Settled(r) THEN Goto(r, "return") /\ Answer(r, FindNode(Bucket(r), loc[r].key))
       ELSE UNCHANGED loc /\ \/ Goto(r, "dual")
                             \/ f14 /\ Goto(r, "both")
    /\ Config /\ Ghosts /\ Table /\ UNCHANGED spin

\* The fallback of find_f14_dual_array: the old array first (or the only one,
\* when the rehash is over), then the new one, then the installed one again.
BothOld(r) ==
    /\ pc[r] = "both" /\ Free(gen, Home(loc[r].key))
    /\ LET n == FindNode(arr[gen][Home(loc[r].key)], loc[r].key) IN
         Goto(r, IF n # Null \/ ~inProgress THEN "return" ELSE "bothnew")
         /\ Answer(r, n)
    /\ Config /\ Ghosts /\ Table /\ UNCHANGED spin
BothNew(r) ==
    /\ pc[r] = "bothnew"
    /\ LET g == IF newArr = NoArray THEN gen ELSE newArr
           i == IF newArr = NoArray THEN Home(loc[r].key) ELSE HashOf[loc[r].key] % Count(g)
       IN Free(g, i) /\ Answer(r, FindNode(arr[g][i], loc[r].key))
    /\ Goto(r, "return")
    /\ Config /\ Ghosts /\ Table /\ UNCHANGED spin

-----------------------------------------------------------------------------
(* Readers *)

\* A lookup starts: the fast paths are left at once when an incremental rehash
\* runs, except that find_and_pin_optimistic keeps going, guarded, for a chain
\* bucket strictly ahead of the migration.
Lookup(r, k, path) ==
    /\ pc[r] = "idle"
    /\ LET ahead == ~f14 /\ Home(k) > progress
           start == CASE path = "locked" -> IF Active THEN "dual" ELSE "shared"
                      [] path = "optimistic" -> IF Active /\ ~ahead THEN "dual" ELSE "opt"
                      [] path = "lockfree" -> IF Active THEN "dual" ELSE "raw"
       IN Goto(r, start) /\ Set(r, [IdleLoc EXCEPT !.op = path, !.key = k, !.guard = Active])
    /\ absent' = [absent EXCEPT ![r] = ~KeyIn(live, k)]
    /\ moved' = [moved EXCEPT ![r] = Installing]
    /\ Config /\ Table /\ UNCHANGED <<spin, live, stale, clean>>

\* find_and_pin_with_hash without a rehash: index, then the shared lock.
SharedIndex(r) ==
    /\ pc[r] = "shared"
    /\ IF Active THEN Goto(r, "dual") /\ UNCHANGED loc
       ELSE Goto(r, "sharedlock") /\ Set(r, [loc[r] EXCEPT !.idx = Home(loc[r].key), !.lock = gen])
    /\ Config /\ Ghosts /\ Table /\ UNCHANGED spin
SharedFind(r) ==
    /\ pc[r] = "sharedlock" /\ Free(loc[r].lock, loc[r].idx)
    /\ Goto(r, "return") /\ Answer(r, FindNode(arr[gen][loc[r].idx], loc[r].key))
    /\ Config /\ Ghosts /\ Table /\ UNCHANGED spin

\* find_and_pin_optimistic: seqlock, index and version are loaded, the bucket
\* is searched, and the result counts only if neither moved.
OptBegin(r) ==
    /\ pc[r] = "opt"
    /\ IF seqlock THEN Fallback(r) /\ UNCHANGED clean
       ELSE /\ Set(r, [loc[r] EXCEPT !.idx = Home(loc[r].key)])
            /\ clean' = [clean EXCEPT ![r] = ~arr[gen][Home(loc[r].key)].odd]
            /\ Goto(r, "optfind")
    /\ Config /\ Table /\ UNCHANGED <<spin, live, stale, absent, moved>>
\* The same at the bucket of the dual-array loop.
DualOptBegin(r) ==
    /\ pc[r] = "dualopt" /\ UNCHANGED loc
    /\ IF seqlock THEN Goto(r, "dualold") /\ UNCHANGED clean
       ELSE /\ clean' = [clean EXCEPT ![r] = ~arr[gen][loc[r].idx].odd]
            /\ Goto(r, "optfind")
    /\ Config /\ Table /\ UNCHANGED <<spin, live, stale, absent, moved>>
\* While a migrator relinks the bucket a walk over it may end early.
OptFind(r) ==
    /\ pc[r] = "optfind" /\ Goto(r, "optcheck")
    /\ \/ Set(r, [loc[r] EXCEPT !.found = FindNode(arr[gen][loc[r].idx], loc[r].key)])
       \/ /\ \E t \in Threads : pc[t] = "moving" /\ loc[t].idx = loc[r].idx
          /\ Set(r, [loc[r] EXCEPT !.found = Null])
    /\ Config /\ Ghosts /\ Table /\ UNCHANGED spin
\* Mutant: the search counts whatever moved meanwhile.
ValidAlways(r) == TRUE
Valid(r) == clean[r]
OptCheck(r) ==
    /\ pc[r] = "optcheck"
    /\ IF ~Valid(r) THEN TryAgain(r) \/ GiveUp(r)
       ELSE IF (loc[r].guard /\ progress >= loc[r].idx) \/ loc[r].found # Null THEN GiveUp(r)
       ELSE Goto(r, "return") /\ Answer(r, Null)
    /\ Config /\ Ghosts /\ Table /\ UNCHANGED spin

\* find_and_pin_lockfree under an epoch guard: the inline slot (skipped while
\* the version is odd), then the raw walk from the head of the chain.
RawBegin(r) ==
    /\ pc[r] = "raw"
    /\ LET b == arr[gen][Home(loc[r].key)]
           hit == f14 /\ ~b.odd /\ b.slot \in Nodes /\ KeyOf[b.slot] = loc[r].key
       IN IF seqlock \/ (Active /\ ~f14) THEN Fallback(r) /\ UNCHANGED clean
          ELSE /\ clean' = [clean EXCEPT ![r] = TRUE]
               /\ Set(r, [loc[r] EXCEPT !.found = IF hit THEN b.slot
                                      ELSE IF b.chain = <<>> THEN Null ELSE Head(b.chain)])
               /\ Goto(r, IF hit THEN "return" ELSE "walk")
    /\ Config /\ Table /\ UNCHANGED <<spin, live, stale, absent, moved>>
RawWalk(r) ==
    /\ pc[r] = "walk" /\ loc[r].found # Null
    /\ IF Active /\ ~f14 THEN Fallback(r)
       ELSE IF KeyOf[loc[r].found] = loc[r].key
       THEN UNCHANGED loc /\ Goto(r, IF f14 THEN "return" ELSE "rawend")
       ELSE Set(r, [loc[r] EXCEPT !.found = Successor(@)]) /\ UNCHANGED pc
    /\ Config /\ Ghosts /\ Table /\ UNCHANGED spin
RawEnd(r) ==
    /\ pc[r] = "rawend" \/ (pc[r] = "walk" /\ loc[r].found = Null)
    /\ IF clean[r] THEN Goto(r, "return") /\ UNCHANGED loc ELSE Retry(r, "raw") \/ Fallback(r)
    /\ Config /\ Ghosts /\ Table /\ UNCHANGED spin

Return(r) ==
    /\ r \in Readers /\ pc[r] = "return" /\ Idle(r)
    /\ absent' = [absent EXCEPT ![r] = FALSE] /\ moved' = [moved EXCEPT ![r] = FALSE]
    /\ clean' = [clean EXCEPT ![r] = FALSE]
    /\ Config /\ Table /\ UNCHANGED <<spin, live, stale>>

-----------------------------------------------------------------------------
(* Incremental rehash *)

\* rehash() / rehash_begin_f14(): rehash_in_progress_ is claimed first ...
BeginClaim(w) ==
    /\ pc[w] = "begin" /\ UNCHANGED loc
    /\ LET bound == newArr # NoArray \/ gen = MaxGen IN   \* bound: MaxGen rehashes
         IF inProgress \/ bound THEN Goto(w, "index") /\ UNCHANGED inProgress
                                ELSE Goto(w, "publish") /\ inProgress' = TRUE
    /\ Overlap
    /\ Config /\ UNCHANGED <<arr, spin, gen, mask, newArr, size, seqlock, migrating, progress,
                             live, stale, clean, absent>>
\* ... and the new array, its count and the progress are published afterwards.
BeginPublish(w) ==
    /\ pc[w] = "publish" /\ Goto(w, "index") /\ UNCHANGED loc
    /\ newArr' = gen + 1 /\ progress' = 0
    /\ SeqlockMoves(IF f14 THEN 2 ELSE 1)
    /\ Overlap
    /\ Config /\ UNCHANGED <<arr, spin, gen, mask, size, inProgress, migrating, live, stale, absent>>

\* The balancer's advance_incremental_rehash() is rehash_finish(): steps of 16
\* buckets until all of them are behind the progress or the budget of the call
\* is used up.  A step that migrates nothing counts against the budget in chain
\* mode and not in F14 mode.
Balance(b) ==
    /\ pc[b] = "idle" /\ Active
    /\ Goto(b, "nudge")
    /\ Set(b, [IdleLoc EXCEPT !.total = mask + 1, !.left = FinishBudget])
    /\ Config /\ Ghosts /\ Table /\ UNCHANGED spin
Nudge(b) ==
    /\ pc[b] = "nudge"
    /\ IF progress >= loc[b].total THEN Goto(b, "install") /\ Set(b, IdleLoc)
       ELSE IF loc[b].left = 0 THEN Idle(b)
       ELSE Goto(b, "step") /\ Set(b, [loc[b] EXCEPT !.batch = 16, !.ret = "nudge"])
    /\ Config /\ Ghosts /\ Table /\ UNCHANGED spin

Done(t) ==
    LET l == loc[t]
        counts == l.ret = "nudge" /\ (~f14 \/ l.batch < 16)
    IN /\ Goto(t, l.ret)
       /\ Set(t, [IdleLoc EXCEPT !.op = l.op, !.key = l.key, !.node = l.node, !.total = l.total,
                                 !.left = l.left - IF counts THEN 1 ELSE 0])

\* rehash_step(): one migrator at a time, claimed after the in-progress check.
StepCheck(t) ==
    /\ pc[t] = "step"
    /\ IF inProgress THEN Goto(t, "claim") /\ UNCHANGED loc ELSE Done(t)
    /\ Config /\ Ghosts /\ Table /\ UNCHANGED spin
StepClaim(t) ==
    /\ pc[t] = "claim"
    /\ IF migrating THEN Done(t) /\ UNCHANGED migrating
       ELSE /\ migrating' = TRUE /\ Goto(t, "move")
            /\ Set(t, [loc[t] EXCEPT !.p = mask + 1, !.lock = newArr])
    /\ stale' = (stale \/ (~migrating /\ (newArr = NoArray \/ ~inProgress)))
    /\ Config /\ UNCHANGED <<arr, spin, gen, mask, newArr, size, seqlock, inProgress, progress,
                             live, clean, absent, moved>>

\* The next bucket is locked, or the step is over.
MoveLock(t) ==
    /\ pc[t] = "move"
    /\ IF progress >= loc[t].p \/ loc[t].batch = 0
       THEN Goto(t, "unclaim") /\ UNCHANGED <<loc, spin>>
       ELSE /\ Free(gen, progress)
            /\ spin' = [spin EXCEPT ![gen][progress] = t]
            /\ Goto(t, "moving") /\ Set(t, [loc[t] EXCEPT !.idx = progress])
    /\ Config /\ Ghosts /\ Table

\* One node goes over, under the lock of its new bucket.
MoveNode(t) ==
    LET b == arr[gen][loc[t].idx]
        n == Head(NodesOf(b))
        j == Hash(n) % Count(loc[t].lock)
    IN /\ pc[t] = "moving" /\ NodesOf(b) # <<>>
       /\ IF loc[t].lock = NoArray THEN Crash(t) /\ UNCHANGED arr
          ELSE /\ Free(loc[t].lock, j) /\ UNCHANGED <<pc, loc>>
               /\ arr' = [arr EXCEPT ![gen][loc[t].idx] =
                             IF b.slot = n THEN [@ EXCEPT !.slot = Null] ELSE [@ EXCEPT !.chain = Tail(@)],
                                     ![loc[t].lock][j] = Link(@, n, TRUE)]
       /\ Config /\ Ghosts /\ UNCHANGED <<spin, gen, mask, newArr, size, seqlock, inProgress, migrating, progress>>

\* The empty bucket: version, progress, unlock.
MoveDone(t) ==
    /\ pc[t] = "moving" /\ NodesOf(arr[gen][loc[t].idx]) = <<>>
    /\ arr' = [arr EXCEPT ![gen][loc[t].idx] = [@ EXCEPT !.slot = Null]]
    /\ VersionMoves(gen, loc[t].idx)
    /\ progress' = progress + 1
    /\ spin' = [spin EXCEPT ![gen][loc[t].idx] = Null]
    /\ Goto(t, "move") /\ Set(t, [loc[t] EXCEPT !.batch = @ - 1])
    /\ Config /\ UNCHANGED <<gen, mask, newArr, size, seqlock, inProgress, migrating,
                             live, stale, absent, moved>>

\* The claim is dropped; the last bucket completes the rehash.
Unclaim(t) ==
    /\ pc[t] = "unclaim" /\ migrating' = FALSE
    /\ IF progress >= loc[t].p THEN Goto(t, "finish") /\ UNCHANGED loc ELSE Done(t)
    /\ Config /\ Ghosts /\ UNCHANGED <<arr, spin, gen, mask, newArr, size, seqlock, inProgress, progress>>

\* rehash_finish() as the last step of a migration calls it: all buckets are
\* over, and another thread may be done already.
FinishCheck(t) ==
    /\ pc[t] = "finish"
    /\ IF inProgress THEN Goto(t, "install") /\ UNCHANGED loc ELSE Done(t)
    /\ Config /\ Ghosts /\ Table /\ UNCHANGED spin
\* The first one to clear rehash_in_progress_ installs.
FinishClaim(t) ==
    /\ pc[t] = "install" /\ inProgress' = FALSE
    /\ IF inProgress THEN Goto(t, "setarray") /\ UNCHANGED loc ELSE Done(t)
    /\ Overlap
    /\ Config /\ UNCHANGED <<arr, spin, gen, mask, newArr, size, seqlock, migrating, progress,
                             live, stale, clean, absent>>
InstallArray(t) ==
    /\ pc[t] = "setarray" /\ Goto(t, "setmask") /\ UNCHANGED loc
    /\ SeqlockMoves(1) /\ gen' = newArr
    /\ Overlap
    /\ Config /\ UNCHANGED <<arr, spin, mask, newArr, size, inProgress, migrating, progress,
                             live, stale, absent>>
InstallMask(t) ==
    /\ pc[t] = "setmask" /\ Goto(t, "clearnew") /\ UNCHANGED loc
    /\ mask' = Count(gen) - 1
    /\ Overlap
    /\ Config /\ UNCHANGED <<arr, spin, gen, newArr, size, seqlock, inProgress, migrating, progress,
                             live, stale, clean, absent>>
InstallEnd(t) ==
    /\ pc[t] = "clearnew" /\ Done(t)
    /\ newArr' = NoArray /\ progress' = 0 /\ SeqlockMoves(1)
    /\ Overlap
    /\ Config /\ UNCHANGED <<arr, spin, gen, mask, size, inProgress, migrating, live, stale, absent>>

-----------------------------------------------------------------------------
(* Blocking rehash *)

\* blocking_rehash_claim, then every bucket lock in ascending order.
ClaimAll(w) ==
    /\ pc[w] = "claimall"
    /\ migrating' = TRUE
    /\ IF migrating THEN Goto(w, "index") /\ UNCHANGED loc
                    ELSE Goto(w, "lockall") /\ Set(w, [loc[w] EXCEPT !.idx = 0, !.p = mask + 1])
    /\ Config /\ Ghosts /\ UNCHANGED <<arr, spin, gen, mask, newArr, size, seqlock, inProgress, progress>>
LockAll(w) ==
    /\ pc[w] = "lockall" /\ Free(gen, loc[w].idx)
    /\ spin' = [spin EXCEPT ![gen][loc[w].idx] = w]
    /\ Set(w, [loc[w] EXCEPT !.idx = @ + 1])
    /\ Goto(w, IF loc[w].idx + 1 = loc[w].p THEN "moveall" ELSE "lockall")
    /\ Config /\ Ghosts /\ Table

\* All nodes to the new array, old buckets in order, each pushed at the front.
Moved(g) ==
    LET all == FoldLeft(LAMBDA s, i : s \o NodesOf(arr[g][i - 1]), <<>>,
                        [i \in 1 .. Count(g) |-> i])
        put(a, n) == [a EXCEPT ![Hash(n) % Count(g + 1)] = Link(@, n, TRUE)]
    IN FoldLeft(put, arr[g + 1], all)
MoveAll(w) ==
    /\ pc[w] = "moveall" /\ Goto(w, "swapall") /\ UNCHANGED loc
    /\ SeqlockMoves(1)
    /\ arr' = [arr EXCEPT ![gen + 1] = Moved(gen),
                          ![gen] = [i \in DOMAIN @ |-> [@[i] EXCEPT !.slot = Null, !.chain = <<>>]]]
    /\ Config /\ UNCHANGED <<spin, gen, mask, newArr, size, inProgress, migrating, progress,
                             live, stale, absent, moved>>
SwapAll(w) ==
    /\ pc[w] = "swapall" /\ Goto(w, "maskall") /\ UNCHANGED loc
    /\ gen' = gen + 1
    /\ Overlap
    /\ Config /\ UNCHANGED <<arr, spin, mask, newArr, size, seqlock, inProgress, migrating, progress,
                             live, stale, clean, absent>>
MaskAll(w) ==
    /\ pc[w] = "maskall" /\ Goto(w, "index") /\ UNCHANGED loc
    /\ mask' = Count(gen) - 1 /\ SeqlockMoves(1) /\ migrating' = FALSE
    /\ spin' = [spin EXCEPT ![gen - 1] = [i \in DOMAIN @ |-> Null]]
    /\ Overlap
    /\ Config /\ UNCHANGED <<arr, gen, newArr, size, inProgress, progress, live, stale, absent>>

\* clear(), with no other call running: both arrays are emptied and an
\* incremental rehash is abandoned.
Clear ==
    /\ \A t \in Threads : pc[t] = "idle"
    /\ live # {}
    /\ arr' = [g \in DOMAIN arr |-> [i \in DOMAIN arr[g] |->
                  EmptyBucket]]
    /\ size' = 0 /\ live' = {} /\ inProgress' = FALSE /\ newArr' = NoArray
    /\ progress' = IF inProgress THEN 0 ELSE progress
    /\ migrating' = FALSE
    /\ Config /\ UNCHANGED <<spin, gen, mask, seqlock, pc, loc, stale, clean, absent, moved>>

-----------------------------------------------------------------------------
\* A null array pointer ends the process; a write that landed where no lookup
\* goes ends what the properties below speak of.
Stopped == stale \/ \E t \in Threads : pc[t] = "crashed"

Write(w) ==
    \/ Index(w) \/ LockBucket(w) \/ Apply(w) \/ DualWrite(w)
    \/ BeginClaim(w) \/ BeginPublish(w)
    \/ ClaimAll(w) \/ LockAll(w) \/ MoveAll(w) \/ SwapAll(w) \/ MaskAll(w)
Step(t) ==
    \/ StepCheck(t) \/ StepClaim(t) \/ MoveLock(t) \/ MoveNode(t) \/ MoveDone(t) \/ Unclaim(t)
    \/ FinishCheck(t) \/ FinishClaim(t) \/ InstallArray(t) \/ InstallMask(t) \/ InstallEnd(t)
Read(r) ==
    \/ SharedIndex(r) \/ SharedFind(r) \/ OptBegin(r) \/ DualOptBegin(r) \/ OptFind(r) \/ OptCheck(r)
    \/ RawBegin(r) \/ RawWalk(r) \/ RawEnd(r) \/ DualFind(r) \/ BothOld(r) \/ BothNew(r) \/ Return(r)

Next ==
    /\ ~Stopped
    /\ \/ \E w \in Writers : \E op \in pool.ops, n \in pool.nodes : Call(w, op, n)
       \/ \E w \in Writers : Write(w)
       \/ \E b \in Balancers : Balance(b) \/ Nudge(b)
       \/ \E t \in Writers \cup Balancers : Step(t)
       \/ \E t \in Writers \cup Readers : DualLoad(t) \/ DualPointer(t)
       \/ \E r \in Readers : \E k \in Probes, path \in pool.lookups : Lookup(r, k, path)
       \/ \E r \in Readers : Read(r)
       \/ Clear

Spec == Init /\ [][Next]_vars

-----------------------------------------------------------------------------
(* Properties *)

\* The bucket a lookup of key k is led to: in the new array once the bucket of
\* the old one has been migrated.
Owner(k) ==
    LET i == HashOf[k] % Count(gen)
        j == HashOf[k] % Count(gen + 1)
    IN IF newArr # NoArray /\ newArr # gen /\ i < progress
       THEN arr[newArr][j] ELSE arr[gen][i]
BeingMoved(n) == \E t \in Threads : /\ pc[t] \in {"moving", "swapall"}
                                    /\ pc[t] = "moving" => loc[t].idx = Hash(n) % Count(gen)

\* A node that was inserted and not erased is in the bucket its key is looked
\* up in, unless that bucket is being moved, and no bucket of any array holds
\* another node: neither the dual-array protocol nor a swap loses, duplicates
\* or revives a node as long as no write used an index or a lock it had
\* obtained before an array swap (the window lock_bucket() documents).
Placed ==
    ~stale =>
      /\ \A n \in live : BeingMoved(n) \/ n \in ToSet(NodesOf(Owner(KeyOf[n])))
      /\ \A g \in 0 .. MaxGen : \A i \in 0 .. Count(g) - 1 : ToSet(NodesOf(arr[g][i])) \subseteq live
      /\ size = Cardinality(live)

\* A lookup through a locked or an optimistic path that reports a miss did see
\* a moment without the key, unless a rehash began or swapped arrays during it.
Missed(r) == pc[r] = "return" /\ loc[r].found = Null
MissIsAbsent ==
    \A r \in Readers :
        (Missed(r) /\ loc[r].op # "lockfree" /\ ~stale /\ ~moved[r]) => absent[r]
=============================================================================
