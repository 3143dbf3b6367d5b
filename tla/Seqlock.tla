------------------------------- MODULE Seqlock -------------------------------
(***************************************************************************)
(* The sequence lock of detail/foundation.hpp and the object it guards,    *)
(* cache_stats (core.hpp): snapshots that take no lock, resets, and        *)
(* assignments between two objects, which claim both locks.                *)
(*                                                                         *)
(* A counter is modelled by the write section its value comes from; a      *)
(* snapshot is torn when its counters come from different sections.  The   *)
(* increments of single counters by cache operations, which no lock        *)
(* guards, do not show at this level.  The 31-bit sequence does not wrap   *)
(* around during one snapshot.                                             *)
(***************************************************************************)
EXTENDS Naturals, TLC

CONSTANTS
  Threads,
  Objects,     \* the addresses of the cache_stats objects
  Fields,      \* counters of an object, copied in the order 1 .. Fields
  MaxSections  \* bound on the write sections of a behaviour

ASSUME ObjectsAssumption == Objects \subseteq Nat /\ Objects # {}
ASSUME FieldsAssumption == Fields \in Nat

VARIABLES
  claimed,     \* the objects whose word has the writer bit
  seq,         \* the low bits of the word
  data,        \* the section each counter's value comes from
  sections,    \* write sections begun so far
  pc,
  dst, src,    \* operands; a reset has src = dst
  first, second,  \* the guard's locks in address order, the same for a reset
  token,       \* the thread's write section
  pos,         \* the next counter to copy
  dirty, begun_seq,  \* the word sampled by read_begin(): threads that saw the writer
               \* bit, and the low bits
  snap         \* the snapshot

lock == <<claimed, seq>>
operands == <<dst, src, first, second, token>>
locals == <<operands, pos>>
begun == <<dirty, begun_seq>>
reading == <<begun, snap>>
vars == <<lock, data, sections, pc, locals, reading>>

Labels == {"idle", "lock_first", "lock_second", "write", "unlock_second", "unlock_first",
           "begin", "read", "done"}

AnyObject == CHOOSE o \in Objects : TRUE

NoSnap == [f \in 1 .. Fields |-> 0]

Init ==
  /\ claimed = {}
  /\ seq = [o \in Objects |-> 0]
  /\ data = [o \in Objects |-> [f \in 1 .. Fields |-> 0]]
  /\ sections = 0
  /\ pc = [t \in Threads |-> "idle"]
  /\ dst = [t \in Threads |-> AnyObject]
  /\ src = dst /\ first = dst /\ second = dst
  /\ token = [t \in Threads |-> 0]
  /\ pos = [t \in Threads |-> 1]
  /\ dirty = {} /\ begun_seq = [t \in Threads |-> 0]
  /\ snap = [t \in Threads |-> NoSnap]

Goto(t, label) == pc' = [pc EXCEPT ![t] = label]

\* The call returns: its local variables are gone.
Finish(t) ==
  /\ Goto(t, "idle")
  /\ dst' = [dst EXCEPT ![t] = AnyObject]
  /\ src' = [src EXCEPT ![t] = AnyObject]
  /\ first' = [first EXCEPT ![t] = AnyObject]
  /\ second' = [second EXCEPT ![t] = AnyObject]
  /\ token' = [token EXCEPT ![t] = 0]
  /\ pos' = [pos EXCEPT ![t] = 1]

-----------------------------------------------------------------------------
(* Writers *)

\* Mutant: the locks are taken in the order of the operands.
FirstInCallOrder(a, b) == a

\* dual_seqlock_write_guard: the lock at the lower address first; for one object
\* there is one claim.
First(a, b) == IF b < a THEN b ELSE a
Second(a, b) == IF First(a, b) = a THEN b ELSE a
Dual(t) == first[t] # second[t]

\* reset_counters() and reset_all() of a; operator= of a from b.
CallWrite(t, a, b) ==
  /\ pc[t] = "idle"
  /\ sections < MaxSections
  /\ sections' = sections + 1
  /\ token' = [token EXCEPT ![t] = sections + 1]
  /\ dst' = [dst EXCEPT ![t] = a]
  /\ src' = [src EXCEPT ![t] = b]
  /\ first' = [first EXCEPT ![t] = First(a, b)]
  /\ second' = [second EXCEPT ![t] = Second(a, b)]
  /\ pos' = [pos EXCEPT ![t] = 1]
  /\ Goto(t, "lock_first")
  /\ UNCHANGED <<lock, data, reading>>

\* Mutant: a writer does not wait for the writer bit.
write_lockNoWait(o) ==
  /\ claimed' = claimed \cup {o}
  /\ seq' = [seq EXCEPT ![o] = @ + 1]

\* The CAS of write_lock(); until the bit is clear the writer spins.
write_lock(o) ==
  /\ o \notin claimed
  /\ claimed' = claimed \cup {o}
  /\ seq' = [seq EXCEPT ![o] = @ + 1]

write_unlock(o) ==
  /\ claimed' = claimed \ {o}
  /\ seq' = [seq EXCEPT ![o] = @ + 1]

LockFirst(t) ==
  /\ pc[t] = "lock_first"
  /\ write_lock(first[t])
  /\ Goto(t, IF Dual(t) THEN "lock_second" ELSE "write")
  /\ UNCHANGED <<data, sections, locals, reading>>

LockSecond(t) ==
  /\ pc[t] = "lock_second"
  /\ write_lock(second[t])
  /\ Goto(t, "write")
  /\ UNCHANGED <<data, sections, locals, reading>>

\* One counter is zeroed, or copied from the other object.
WriteField(t) ==
  /\ pc[t] = "write"
  /\ pos[t] <= Fields
  /\ data' = [data EXCEPT ![dst[t]][pos[t]] =
                IF Dual(t) THEN data[src[t]][pos[t]] ELSE token[t]]
  /\ pos' = [pos EXCEPT ![t] = @ + 1]
  /\ UNCHANGED <<lock, sections, pc, operands, reading>>

EndWrite(t) ==
  /\ pc[t] = "write"
  /\ pos[t] > Fields
  /\ Goto(t, IF Dual(t) THEN "unlock_second" ELSE "unlock_first")
  /\ UNCHANGED <<lock, data, sections, locals, reading>>

UnlockSecond(t) ==
  /\ pc[t] = "unlock_second"
  /\ write_unlock(second[t])
  /\ Goto(t, "unlock_first")
  /\ UNCHANGED <<data, sections, locals, reading>>

UnlockFirst(t) ==
  /\ pc[t] = "unlock_first"
  /\ write_unlock(first[t])
  /\ Finish(t)
  /\ UNCHANGED <<data, sections, reading>>

-----------------------------------------------------------------------------
(* consistent_snapshot() *)

CallSnapshot(t, o) ==
  /\ pc[t] = "idle"
  /\ src' = [src EXCEPT ![t] = o]
  /\ Goto(t, "begin")
  /\ UNCHANGED <<lock, data, sections, dst, first, second, token, pos, reading>>

read_begin(t) ==
  /\ pc[t] = "begin"
  /\ dirty' = IF src[t] \in claimed THEN dirty \cup {t} ELSE dirty \ {t}
  /\ begun_seq' = [begun_seq EXCEPT ![t] = seq[src[t]]]
  /\ pos' = [pos EXCEPT ![t] = 1]
  /\ Goto(t, "read")
  /\ UNCHANGED <<lock, data, sections, operands, snap>>

ReadField(t) ==
  /\ pc[t] = "read"
  /\ pos[t] <= Fields
  /\ snap' = [snap EXCEPT ![t][pos[t]] = data[src[t]][pos[t]]]
  /\ pos' = [pos EXCEPT ![t] = @ + 1]
  /\ UNCHANGED <<lock, data, sections, pc, operands, begun>>

SameWord(t) == (src[t] \in claimed <=> t \in dirty) /\ seq[src[t]] = begun_seq[t]

read_retry(t) ==
  /\ pc[t] = "read"
  /\ pos[t] > Fields
  /\ Goto(t, IF SameWord(t) THEN "done" ELSE "begin")
  /\ UNCHANGED <<lock, data, sections, locals, reading>>

Return(t) ==
  /\ pc[t] = "done"
  /\ Finish(t)
  /\ dirty' = dirty \ {t}
  /\ begun_seq' = [begun_seq EXCEPT ![t] = 0]
  /\ snap' = [snap EXCEPT ![t] = NoSnap]
  /\ UNCHANGED <<lock, data, sections>>

-----------------------------------------------------------------------------
Writing(t) ==
  LockFirst(t) \/ LockSecond(t) \/ WriteField(t) \/ EndWrite(t)
    \/ UnlockSecond(t) \/ UnlockFirst(t)

Reading(t) == read_begin(t) \/ ReadField(t) \/ read_retry(t) \/ Return(t)

Next ==
  \E t \in Threads :
    \/ \E a, b \in Objects : CallWrite(t, a, b)
    \/ \E o \in Objects : CallSnapshot(t, o)
    \/ Writing(t)
    \/ Reading(t)

Spec == Init /\ [][Next]_vars

-----------------------------------------------------------------------------
TypeOK ==
  /\ claimed \subseteq Objects /\ seq \in [Objects -> Nat]
  /\ data \in [Objects -> [1 .. Fields -> Nat]]
  /\ sections \in Nat
  /\ pc \in [Threads -> Labels]
  /\ dst \in [Threads -> Objects] /\ src \in [Threads -> Objects]
  /\ first \in [Threads -> Objects] /\ second \in [Threads -> Objects]
  /\ token \in [Threads -> Nat]
  /\ pos \in [Threads -> 1 .. Fields + 1]
  /\ dirty \subseteq Threads /\ begun_seq \in [Threads -> Nat]
  /\ snap \in [Threads -> [1 .. Fields -> Nat]]

\* The guard's locks are those of the operands.
LocksAreOperands ==
  \A t \in Threads : pc[t] \in {"lock_first", "lock_second", "write", "unlock_second",
                             "unlock_first"} =>
    /\ \/ first[t] = dst[t] /\ second[t] = src[t]
       \/ first[t] = src[t] /\ second[t] = dst[t]
    /\ pc[t] \in {"lock_second", "unlock_second"} => Dual(t)
    /\ pc[t] \in {"lock_first", "lock_second"} => pos[t] = 1

\* The thread has claimed the object's writer bit.
Owns(t, o) ==
  \/ o = first[t] /\ pc[t] \in {"lock_second", "write", "unlock_second", "unlock_first"}
  \/ o = second[t] /\ Dual(t) /\ pc[t] \in {"write", "unlock_second"}

Untorn(values) == \A f, g \in 1 .. Fields : values[f] = values[g]

\* The writer bit stands for one writer.
OneWriter ==
  \A o \in Objects :
    /\ \A t, u \in Threads : Owns(t, o) /\ Owns(u, o) => t = u
    /\ \A t \in Threads : Owns(t, o) => o \in claimed

\* Outside write sections the counters of an object belong together; inside one
\* the counters written so far do, and so do those of the source.
WholeOutsideSections ==
  \A o \in Objects :
    \/ Untorn(data[o])
    \/ \E t \in Threads : pc[t] = "write" /\ dst[t] = o

PartlyWritten ==
  \A t \in Threads : pc[t] = "write" =>
    \A f \in 1 .. Fields : f < pos[t] =>
      data[dst[t]][f] = IF Dual(t) THEN data[src[t]][f] ELSE token[t]

\* While the word is the clean one that read_begin() sampled, the counters read
\* so far are the object's.
ReadMatches(t) ==
  /\ begun_seq[t] <= seq[src[t]]
  /\ t \notin dirty /\ begun_seq[t] = seq[src[t]] =>
       /\ src[t] \notin claimed
       /\ \A f \in 1 .. Fields : f < pos[t] => snap[t][f] = data[src[t]][f]

ReadSoFar == \A t \in Threads : pc[t] = "read" => ReadMatches(t)

\* A snapshot that began while no writer held the object is not torn: resets and
\* assignments show in all of its counters or in none.
CleanSnapshot ==
  \A t \in Threads : pc[t] = "done" /\ t \notin dirty => Untorn(snap[t])

SeqlockInvariant ==
  /\ TypeOK /\ LocksAreOperands /\ OneWriter
  /\ WholeOutsideSections /\ PartlyWritten
  /\ ReadSoFar /\ CleanSnapshot

\* What the comments of read_begin() and consistent_snapshot() promise: every
\* snapshot that is returned is whole.
SnapshotIsWhole == \A t \in Threads : pc[t] = "done" => Untorn(snap[t])

Blocked(t) ==
  \/ pc[t] = "lock_first" /\ first[t] \in claimed
  \/ pc[t] = "lock_second" /\ second[t] \in claimed

Busy(t) == pc[t] \in {"lock_first", "lock_second", "write", "unlock_second", "unlock_first"}

\* Concurrent assignments never wait for each other in a circle: as long as a
\* write is under way, some writer can go on.
SomeWriterRuns ==
  (\E t \in Threads : Busy(t)) => \E t \in Threads : Busy(t) /\ ~Blocked(t)

(* The threads run the same code: any permutation of them is a symmetry. *)
Symmetric == Permutations(Threads)
=============================================================================
