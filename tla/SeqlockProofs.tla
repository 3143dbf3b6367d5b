---------------------------- MODULE SeqlockProofs ----------------------------
(***************************************************************************)
(* A snapshot that began with the writer bit clear is whole, and writers   *)
(* never wait for each other in a circle, for any number of threads,       *)
(* objects and counters.                                                   *)
(*                                                                         *)
(* SeqlockInvariant is inductive.  Its heart is ReadSoFar: as long as the  *)
(* word is still the clean one the reader sampled, nobody has claimed the  *)
(* object since, so what has been read is still what the object holds; and *)
(* an object nobody has claimed is whole (WholeOutsideSections).  That the *)
(* writer bit stands for one writer (OneWriter) keeps a second writer from *)
(* tearing the object, or the source of a copy, under the first.           *)
(*                                                                         *)
(* WaitOrder is why some writer can go on: whoever holds a lock and waits  *)
(* for another waits for one at a higher address, and there is a highest   *)
(* address that is claimed.                                                *)
(***************************************************************************)
EXTENDS Seqlock, TLAPS, WellFoundedInduction

(* The provers that a step is given when it names none, one after another. *)
USE SMTT(10), ZenonT(20), SMTT(20), SMTT(40)

\* There is an object for a thread that has no call to refer to.
LEMMA AnyObjectIsObject == AnyObject \in Objects
BY ObjectsAssumption DEF AnyObject

\* The types the steps below rely on: program counters and operands ...
LEMMA Shapes ==
  ASSUME SeqlockInvariant
  PROVE  /\ pc \in [Threads -> Labels] /\ claimed \subseteq Objects
         /\ dst \in [Threads -> Objects] /\ src \in [Threads -> Objects]
         /\ first \in [Threads -> Objects] /\ second \in [Threads -> Objects]
BY Zenon DEF SeqlockInvariant, TypeOK

\* ... the words a reader compares ...
LEMMA Words ==
  ASSUME SeqlockInvariant
  PROVE  /\ seq \in [Objects -> Nat] /\ begun_seq \in [Threads -> Nat]
         /\ src \in [Threads -> Objects]
BY Zenon DEF SeqlockInvariant, TypeOK

\* ... and the words, the counters and the positions too.
LEMMA Values ==
  ASSUME SeqlockInvariant
  PROVE  /\ pc \in [Threads -> Labels] /\ claimed \subseteq Objects
         /\ dst \in [Threads -> Objects] /\ src \in [Threads -> Objects]
         /\ first \in [Threads -> Objects] /\ second \in [Threads -> Objects]
         /\ seq \in [Objects -> Nat] /\ begun_seq \in [Threads -> Nat]
         /\ data \in [Objects -> [1 .. Fields -> Nat]]
         /\ pos \in [Threads -> 1 .. Fields + 1]
         /\ snap \in [Threads -> [1 .. Fields -> Nat]] /\ Fields \in Nat
         /\ sections \in Nat /\ token \in [Threads -> Nat] /\ dirty \subseteq Threads
BY FieldsAssumption, Zenon DEF SeqlockInvariant, TypeOK

\* The position after a counter is within bounds.
LEMMA NextPosition == \A n \in 1 .. Fields : n + 1 \in 1 .. Fields + 1
BY FieldsAssumption

\* The invariant holds before the first call.
LEMMA InitIsFine == Init => SeqlockInvariant
<1> SUFFICES ASSUME Init PROVE SeqlockInvariant  OBVIOUS
<1>1. TypeOK  BY AnyObjectIsObject, FieldsAssumption DEF Init, TypeOK, Labels, NoSnap
<1>2. OneWriter  BY DEF Init, OneWriter, Owns
<1>3. WholeOutsideSections  BY DEF Init, WholeOutsideSections, Untorn
<1>4. LocksAreOperands /\ PartlyWritten /\ ReadSoFar /\ CleanSnapshot
  BY DEF Init, LocksAreOperands, PartlyWritten, ReadSoFar, ReadMatches, CleanSnapshot
<1> QED  BY <1>1, <1>2, <1>3, <1>4 DEF SeqlockInvariant

\* A claim of an object nobody owned leaves one writer per object.
LEMMA ClaimKeepsOneWriter ==
  ASSUME OneWriter, NEW t \in Threads, NEW x \in Objects,
         x \notin claimed, claimed' = claimed \cup {x},
         \A u \in Threads, o \in Objects : Owns(u, o)' => Owns(u, o) \/ (u = t /\ o = x)
  PROVE  OneWriter'
BY DEF OneWriter

\* So does giving an object back.
LEMMA UnlockKeepsOneWriter ==
  ASSUME OneWriter, NEW t \in Threads, NEW x \in Objects,
         Owns(t, x), claimed' = claimed \ {x},
         \A u \in Threads, o \in Objects : Owns(u, o)' => Owns(u, o) /\ ~(u = t /\ o = x)
  PROVE  OneWriter'
BY DEF OneWriter

-----------------------------------------------------------------------------
(* One lemma per action *)

\* A call writes nothing yet.
LEMMA CallWriteKeeps ==
  ASSUME NEW t \in Threads, NEW a \in Objects, NEW b \in Objects, SeqlockInvariant, CallWrite(t, a, b)
  PROVE  SeqlockInvariant'
<1> USE DEF CallWrite, First, Second, Goto, lock, reading, begun
<1>1. TypeOK'
  <2>1. sections' \in Nat  BY Values
  <2>2. token' \in [Threads -> Nat]  BY Values
  <2>3. dst' \in [Threads -> Objects]  BY Values
  <2>4. src' \in [Threads -> Objects]  BY Values
  <2>5. first' \in [Threads -> Objects]  BY Values
  <2>6. second' \in [Threads -> Objects]  BY Values
  <2>7. pos' \in [Threads -> 1 .. Fields + 1]  BY Values
  <2>8. pc' \in [Threads -> Labels]  BY Values DEF Labels
  <2> QED  BY <2>1, <2>2, <2>3, <2>4, <2>5, <2>6, <2>7, <2>8, Values, Zenon DEF TypeOK
<1>2. LocksAreOperands'  BY Values, Zenon DEF SeqlockInvariant, LocksAreOperands, Dual
<1>3. OneWriter'
  <2>1. ASSUME NEW u \in Threads, NEW x \in Objects, Owns(u, x)' PROVE Owns(u, x)
    BY Shapes, <2>1 DEF SeqlockInvariant, LocksAreOperands, Owns, Dual
  <2> QED  BY <2>1 DEF SeqlockInvariant, OneWriter
<1>4. WholeOutsideSections'
  <2>1. data' = data  OBVIOUS
  <2>2. \A u \in Threads : pc[u] = "write" => pc'[u] = "write" /\ dst'[u] = dst[u]  BY Shapes
  <2> HIDE DEF CallWrite
  <2> QED  BY <2>1, <2>2 DEF SeqlockInvariant, WholeOutsideSections, Untorn
<1>5. PartlyWritten'
  <2>1. data' = data  OBVIOUS
  <2>2. \A u \in Threads : pc'[u] = "write" => u # t /\ pc[u] = "write"  BY Shapes
  <2>3. \A u \in Threads \ {t} :
          /\ dst'[u] = dst[u] /\ src'[u] = src[u] /\ token'[u] = token[u] /\ pos'[u] = pos[u]
          /\ first'[u] = first[u] /\ second'[u] = second[u]
    BY Values
  <2> HIDE DEF CallWrite
  <2> QED  BY <2>1, <2>2, <2>3 DEF SeqlockInvariant, PartlyWritten, Dual
<1>6. ReadSoFar'
  <2>1. UNCHANGED <<claimed, seq, data>>  OBVIOUS
  <2>2. \A u \in Threads : pc'[u] = "read" => u # t /\ pc[u] = "read"  BY Shapes
  <2>3. \A u \in Threads \ {t} :
          /\ src'[u] = src[u] /\ pos'[u] = pos[u] /\ snap'[u] = snap[u]
          /\ begun_seq'[u] = begun_seq[u] /\ (u \in dirty' <=> u \in dirty)
    BY Values
  <2> HIDE DEF CallWrite
  <2>4. ASSUME NEW u \in Threads, pc'[u] = "read" PROVE ReadMatches(u)'
    <3>1. u # t /\ ReadMatches(u)  BY <2>2, <2>4 DEF SeqlockInvariant, ReadSoFar
    <3> QED  BY <2>1, <2>3, <3>1 DEF ReadMatches
  <2> QED  BY <2>4 DEF ReadSoFar
<1>7. CleanSnapshot'  BY Values DEF SeqlockInvariant, CleanSnapshot, Untorn
<1> QED  BY <1>1, <1>2, <1>3, <1>4, <1>5, <1>6, <1>7 DEF SeqlockInvariant

\* A claim succeeds only while nobody owns the object, and moves its sequence.
LEMMA LockFirstKeeps ==
  ASSUME NEW t \in Threads, SeqlockInvariant, LockFirst(t)
  PROVE  SeqlockInvariant'
<1> USE DEF LockFirst, write_lock, Goto, locals, operands, reading, begun
<1>p. pc[t] = "lock_first"  OBVIOUS
<1>1. TypeOK'
  <2>1. claimed' \subseteq Objects  BY Values
  <2>2. seq' \in [Objects -> Nat]  BY Values
  <2>3. pc' \in [Threads -> Labels]  BY Values DEF Labels
  <2> QED  BY <2>1, <2>2, <2>3, Values, Zenon DEF TypeOK
<1>2. LocksAreOperands'  BY Shapes DEF SeqlockInvariant, LocksAreOperands, Dual
<1>3. OneWriter'
  <2>1. ASSUME NEW u \in Threads, NEW x \in Objects, Owns(u, x)'
        PROVE  Owns(u, x) \/ (u = t /\ x = first[t])
    <3>1. u # t => pc'[u] = pc[u]  BY Shapes
    <3>2. pc'[t] = IF Dual(t) THEN "lock_second" ELSE "write"  BY Shapes
    <3>0. first' = first /\ second' = second  OBVIOUS
    <3> HIDE DEF LockFirst, write_lock
    <3>3. Owns(u, x)' <=> (\/ x = first[u] /\ pc'[u] \in {"lock_second", "write",
                                                           "unlock_second", "unlock_first"}
                           \/ x = second[u] /\ Dual(u) /\ pc'[u] \in {"write", "unlock_second"})
      BY <3>0 DEF Owns, Dual
    <3>4. CASE u # t  BY <2>1, <3>1, <3>3, <3>4 DEF Owns
    <3>5. CASE u = t  BY <1>p, <2>1, <3>2, <3>3, <3>5 DEF Owns
    <3> QED  BY <3>4, <3>5
  <2> QED  BY Shapes, <2>1, ClaimKeepsOneWriter DEF SeqlockInvariant
<1>4. WholeOutsideSections'  BY Shapes DEF SeqlockInvariant, WholeOutsideSections, Untorn
<1>5. PartlyWritten'
  BY Shapes DEF SeqlockInvariant, PartlyWritten, LocksAreOperands, Dual
<1>6. ReadSoFar'
  <2> SUFFICES ASSUME NEW u \in Threads, pc'[u] = "read"
               PROVE  /\ begun_seq[u] <= seq'[src[u]]
                      /\ u \notin dirty => begun_seq[u] # seq'[src[u]] \/ src[u] \notin claimed'
                      /\ u \notin dirty /\ begun_seq[u] = seq'[src[u]] =>
                           \A f \in 1 .. Fields : f < pos[u] => snap[u][f] = data[src[u]][f]
    BY DEF ReadSoFar, ReadMatches
  <2>1. pc[u] = "read" /\ u # t  BY Shapes
  <2>2. seq'[src[u]] = IF src[u] = first[t] THEN seq[src[u]] + 1 ELSE seq[src[u]]  BY Words
  <2>3. /\ begun_seq[u] <= seq[src[u]]
        /\ u \notin dirty /\ begun_seq[u] = seq[src[u]] =>
             /\ src[u] \notin claimed
             /\ \A f \in 1 .. Fields : f < pos[u] => snap[u][f] = data[src[u]][f]
    BY <2>1 DEF SeqlockInvariant, ReadSoFar, ReadMatches
  <2>4. begun_seq[u] \in Nat /\ seq[src[u]] \in Nat  BY Words
  <2>5. src[u] # first[t] => (src[u] \in claimed' <=> src[u] \in claimed)  OBVIOUS
  <2> HIDE DEF LockFirst
  <2>6. CASE src[u] = first[t]  BY <2>2, <2>3, <2>4, <2>6
  <2>7. CASE src[u] # first[t]  BY <2>2, <2>3, <2>5, <2>7
  <2> QED  BY <2>6, <2>7
<1>7. CleanSnapshot'  BY Values DEF SeqlockInvariant, CleanSnapshot, Untorn
<1> QED  BY <1>1, <1>2, <1>3, <1>4, <1>5, <1>6, <1>7 DEF SeqlockInvariant

\* So does the second claim of an assignment.
LEMMA LockSecondKeeps ==
  ASSUME NEW t \in Threads, SeqlockInvariant, LockSecond(t)
  PROVE  SeqlockInvariant'
<1> USE DEF LockSecond, write_lock, Goto, locals, operands, reading, begun
<1>p. pc[t] = "lock_second"  OBVIOUS
<1>1. TypeOK'
  <2>1. claimed' \subseteq Objects  BY Values
  <2>2. seq' \in [Objects -> Nat]  BY Values
  <2>3. pc' \in [Threads -> Labels]  BY Values DEF Labels
  <2> QED  BY <2>1, <2>2, <2>3, Values, Zenon DEF TypeOK
<1>2. LocksAreOperands'  BY Shapes DEF SeqlockInvariant, LocksAreOperands, Dual
<1>3. OneWriter'
  <2>1. ASSUME NEW u \in Threads, NEW x \in Objects, Owns(u, x)'
        PROVE  Owns(u, x) \/ (u = t /\ x = second[t])
    <3>1. u # t => pc'[u] = pc[u]  BY Shapes
    <3>2. pc'[t] = "write"  BY Shapes
    <3>0. first' = first /\ second' = second  OBVIOUS
    <3> HIDE DEF LockSecond, write_lock
    <3>3. Owns(u, x)' <=> (\/ x = first[u] /\ pc'[u] \in {"lock_second", "write",
                                                           "unlock_second", "unlock_first"}
                           \/ x = second[u] /\ Dual(u) /\ pc'[u] \in {"write", "unlock_second"})
      BY <3>0 DEF Owns, Dual
    <3>4. CASE u # t  BY <2>1, <3>1, <3>3, <3>4 DEF Owns
    <3>5. CASE u = t  BY <1>p, <2>1, <3>2, <3>3, <3>5 DEF Owns
    <3> QED  BY <3>4, <3>5
  <2> QED  BY Shapes, <2>1, ClaimKeepsOneWriter DEF SeqlockInvariant
<1>4. WholeOutsideSections'  BY Shapes DEF SeqlockInvariant, WholeOutsideSections, Untorn
<1>5. PartlyWritten'
  BY Shapes DEF SeqlockInvariant, PartlyWritten, LocksAreOperands, Dual
<1>6. ReadSoFar'
  <2> SUFFICES ASSUME NEW u \in Threads, pc'[u] = "read"
               PROVE  /\ begun_seq[u] <= seq'[src[u]]
                      /\ u \notin dirty => begun_seq[u] # seq'[src[u]] \/ src[u] \notin claimed'
                      /\ u \notin dirty /\ begun_seq[u] = seq'[src[u]] =>
                           \A f \in 1 .. Fields : f < pos[u] => snap[u][f] = data[src[u]][f]
    BY DEF ReadSoFar, ReadMatches
  <2>1. pc[u] = "read" /\ u # t  BY Shapes
  <2>2. seq'[src[u]] = IF src[u] = second[t] THEN seq[src[u]] + 1 ELSE seq[src[u]]  BY Words
  <2>3. /\ begun_seq[u] <= seq[src[u]]
        /\ u \notin dirty /\ begun_seq[u] = seq[src[u]] =>
             /\ src[u] \notin claimed
             /\ \A f \in 1 .. Fields : f < pos[u] => snap[u][f] = data[src[u]][f]
    BY <2>1 DEF SeqlockInvariant, ReadSoFar, ReadMatches
  <2>4. begun_seq[u] \in Nat /\ seq[src[u]] \in Nat  BY Words
  <2>5. src[u] # second[t] => (src[u] \in claimed' <=> src[u] \in claimed)  OBVIOUS
  <2> HIDE DEF LockSecond
  <2>6. CASE src[u] = second[t]  BY <2>2, <2>3, <2>4, <2>6
  <2>7. CASE src[u] # second[t]  BY <2>2, <2>3, <2>5, <2>7
  <2> QED  BY <2>6, <2>7
<1>7. CleanSnapshot'  BY Values DEF SeqlockInvariant, CleanSnapshot, Untorn
<1> QED  BY <1>1, <1>2, <1>3, <1>4, <1>5, <1>6, <1>7 DEF SeqlockInvariant

\* A write changes only an object whose bit the writer owns, which no clean reader trusts.
LEMMA WriteFieldKeeps ==
  ASSUME NEW t \in Threads, SeqlockInvariant, WriteField(t)
  PROVE  SeqlockInvariant'
<1> USE DEF WriteField, lock, operands, reading, begun
<1>a. Owns(t, dst[t]) /\ Owns(t, src[t])
  BY DEF SeqlockInvariant, LocksAreOperands, Owns, Dual
<1>c. pos[t] \in 1 .. Fields  BY Values
<1>f. pos[t] + 1 \in 1 .. Fields + 1  BY <1>c, NextPosition
<1>d. data' = [data EXCEPT ![dst[t]] =
                 [data[dst[t]] EXCEPT ![pos[t]] =
                    IF Dual(t) THEN data[src[t]][pos[t]] ELSE token[t]]]
  BY Values
<1>e. data[dst[t]] \in [1 .. Fields -> Nat]  BY Values
<1>b. /\ \A o \in Objects : o # dst[t] => data'[o] = data[o]
      /\ \A f \in 1 .. Fields : f # pos[t] => data'[dst[t]][f] = data[dst[t]][f]
      /\ data'[dst[t]][pos[t]] = IF Dual(t) THEN data[src[t]][pos[t]] ELSE token[t]
  BY Values, <1>c, <1>d, <1>e
<1>1. TypeOK'
  <2>1. data' \in [Objects -> [1 .. Fields -> Nat]]
    <3>1. (IF Dual(t) THEN data[src[t]][pos[t]] ELSE token[t]) \in Nat
      <4>1. data[src[t]] \in [1 .. Fields -> Nat] /\ token[t] \in Nat  BY Values
      <4>2. data[src[t]][pos[t]] \in Nat  BY <1>c, <4>1, Zenon
      <4> QED  BY <4>1, <4>2
    <3>2. [data[dst[t]] EXCEPT ![pos[t]] =
             IF Dual(t) THEN data[src[t]][pos[t]] ELSE token[t]] \in [1 .. Fields -> Nat]
      BY <1>e, <3>1, Zenon
    <3>3. data \in [Objects -> [1 .. Fields -> Nat]]  BY Values
    <3> HIDE DEF WriteField
    <3> QED  BY <1>d, <3>2, <3>3, Zenon
  <2>2. pos' \in [Threads -> 1 .. Fields + 1]  BY Values, <1>c, <1>f
  <2> QED  BY <2>1, <2>2, Values, Zenon DEF TypeOK
<1>2. LocksAreOperands'  BY Shapes DEF SeqlockInvariant, LocksAreOperands, Dual
<1>3. OneWriter'
  <2>1. ASSUME NEW u \in Threads, NEW x \in Objects, Owns(u, x)' PROVE Owns(u, x)
    BY Shapes, <2>1 DEF SeqlockInvariant, LocksAreOperands, Owns, Dual
  <2> QED  BY <2>1 DEF SeqlockInvariant, OneWriter
<1>4. WholeOutsideSections'
  <2>1. ASSUME NEW o \in Objects, o # dst[t], Untorn(data[o]) PROVE Untorn(data'[o])
    BY <1>b, <2>1
  <2>2. pc[t] = "write" /\ pc' = pc /\ dst' = dst  OBVIOUS
  <2> QED  BY <2>1, <2>2 DEF SeqlockInvariant, WholeOutsideSections, Untorn
<1>5. PartlyWritten'
  <2> SUFFICES ASSUME NEW u \in Threads, pc[u] = "write", NEW f \in 1 .. Fields, f < pos'[u]
               PROVE data'[dst[u]][f] = IF Dual(u) THEN data'[src[u]][f] ELSE token[u]
    BY DEF PartlyWritten, Dual
  <2>1. Owns(u, dst[u]) /\ Owns(u, src[u])
    BY Values, Zenon DEF SeqlockInvariant, LocksAreOperands, Owns, Dual
  <2>2. CASE u = t
    <3>1. Dual(t) => src[t] # dst[t]  BY DEF SeqlockInvariant, LocksAreOperands, Dual
    <3>2. Dual(t) => data'[src[t]] = data[src[t]]  BY Values, <1>b, <3>1
    <3>3. CASE f = pos[t]  BY <1>b, <2>2, <3>2, <3>3
    <3>4. CASE f # pos[t]
      <4>1. f < pos[t]  BY Values, <2>2, <3>4
      <4>2. data[dst[t]][f] = IF Dual(t) THEN data[src[t]][f] ELSE token[t]
        BY <4>1 DEF SeqlockInvariant, PartlyWritten
      <4> QED  BY <1>b, <2>2, <3>2, <3>4, <4>2
    <3> QED  BY <3>3, <3>4
  <2>3. CASE u # t
    <3>1. dst[u] # dst[t] /\ src[u] # dst[t]
      BY Shapes, <1>a, <2>1, <2>3 DEF SeqlockInvariant, OneWriter
    <3>2. pos'[u] = pos[u] /\ data'[dst[u]] = data[dst[u]] /\ data'[src[u]] = data[src[u]]
      BY Values, <1>b, <2>3, <3>1
    <3> QED  BY <3>2 DEF SeqlockInvariant, PartlyWritten
  <2> QED  BY <2>2, <2>3
<1>6. ReadSoFar'
  <2> SUFFICES ASSUME NEW u \in Threads, pc[u] = "read", u \notin dirty,
                      begun_seq[u] = seq[src[u]]
               PROVE  \A f \in 1 .. Fields : f < pos'[u] => snap[u][f] = data'[src[u]][f]
    BY DEF ReadSoFar, ReadMatches, SeqlockInvariant
  <2>1. src[u] \notin claimed  BY DEF ReadSoFar, ReadMatches, SeqlockInvariant
  <2>2. dst[t] \in claimed  BY Shapes, <1>a DEF OneWriter, SeqlockInvariant
  <2>3. src[u] # dst[t] /\ u # t  BY <2>1, <2>2
  <2>4. pos'[u] = pos[u] /\ data'[src[u]] = data[src[u]]  BY Values, <1>b, <2>3
  <2>5. \A f \in 1 .. Fields : f < pos[u] => snap[u][f] = data[src[u]][f]
    BY DEF ReadSoFar, ReadMatches, SeqlockInvariant
  <2> QED  BY <2>4, <2>5
<1>7. CleanSnapshot'  BY Values, Zenon DEF SeqlockInvariant, CleanSnapshot, Untorn
<1> QED  BY <1>1, <1>2, <1>3, <1>4, <1>5, <1>6, <1>7 DEF SeqlockInvariant

\* When all counters are written they come from one section.
LEMMA EndWriteKeeps ==
  ASSUME NEW t \in Threads, SeqlockInvariant, EndWrite(t)
  PROVE  SeqlockInvariant'
<1> USE DEF EndWrite, Goto, lock, locals, operands, reading, begun
<1>1. TypeOK'
  <2>1. pc' \in [Threads -> Labels]  BY Values DEF Labels
  <2> QED  BY <2>1, Values, Zenon DEF TypeOK
<1>2. LocksAreOperands'  BY Shapes DEF SeqlockInvariant, LocksAreOperands, Dual
<1>3. OneWriter'
  <2>1. ASSUME NEW u \in Threads, NEW x \in Objects, Owns(u, x)' PROVE Owns(u, x)
    BY Shapes, <2>1 DEF SeqlockInvariant, LocksAreOperands, Owns, Dual
  <2> QED  BY <2>1 DEF SeqlockInvariant, OneWriter
<1>4. WholeOutsideSections'
  <2>1. \A f \in 1 .. Fields : data[dst[t]][f] = IF Dual(t) THEN data[src[t]][f] ELSE token[t]
    BY Values DEF SeqlockInvariant, PartlyWritten
  <2>2. Dual(t) => Untorn(data[src[t]])
    <3> SUFFICES ASSUME Dual(t) PROVE Untorn(data[src[t]])  OBVIOUS
    <3>1. Owns(t, src[t]) /\ src[t] # dst[t]
      BY DEF SeqlockInvariant, LocksAreOperands, Owns, Dual
    <3>2. ASSUME NEW u \in Threads, pc[u] = "write", dst[u] = src[t] PROVE FALSE
      <4>1. Owns(u, src[t])  BY <3>2 DEF SeqlockInvariant, LocksAreOperands, Owns, Dual
      <4> QED  BY Shapes, <3>1, <3>2, <4>1 DEF SeqlockInvariant, OneWriter
    <3> QED  BY Shapes, <3>2 DEF SeqlockInvariant, WholeOutsideSections
  <2>3. Untorn(data[dst[t]])  BY <2>1, <2>2 DEF Untorn
  <2> QED  BY Values, <2>3 DEF SeqlockInvariant, WholeOutsideSections
<1>5. PartlyWritten'
  BY Shapes DEF SeqlockInvariant, PartlyWritten, LocksAreOperands, Dual
<1>6. ReadSoFar'  BY Values DEF SeqlockInvariant, ReadSoFar, ReadMatches
<1>7. CleanSnapshot'  BY Values DEF SeqlockInvariant, CleanSnapshot, Untorn
<1> QED  BY <1>1, <1>2, <1>3, <1>4, <1>5, <1>6, <1>7 DEF SeqlockInvariant

\* Giving an object back moves its sequence again.
LEMMA UnlockSecondKeeps ==
  ASSUME NEW t \in Threads, SeqlockInvariant, UnlockSecond(t)
  PROVE  SeqlockInvariant'
<1> USE DEF UnlockSecond, write_unlock, Goto, locals, operands, reading, begun
<1>1. TypeOK'
  <2>1. claimed' \subseteq Objects  BY Values
  <2>2. seq' \in [Objects -> Nat]  BY Values
  <2>3. pc' \in [Threads -> Labels]  BY Values DEF Labels
  <2> QED  BY <2>1, <2>2, <2>3, Values, Zenon DEF TypeOK
<1>2. LocksAreOperands'  BY Shapes DEF SeqlockInvariant, LocksAreOperands, Dual
<1>3. OneWriter'
  <2>1. Owns(t, second[t])  BY DEF SeqlockInvariant, LocksAreOperands, Owns
  <2>2. ASSUME NEW u \in Threads, NEW x \in Objects, Owns(u, x)'
        PROVE  Owns(u, x) /\ ~(u = t /\ x = second[t])
    BY Shapes, <2>2 DEF SeqlockInvariant, LocksAreOperands, Owns, Dual
  <2> QED  BY Shapes, <2>1, <2>2, UnlockKeepsOneWriter DEF SeqlockInvariant
<1>4. WholeOutsideSections'  BY Shapes DEF SeqlockInvariant, WholeOutsideSections, Untorn
<1>5. PartlyWritten'
  BY Shapes DEF SeqlockInvariant, PartlyWritten, LocksAreOperands, Dual
<1>6. ReadSoFar'
  <2> SUFFICES ASSUME NEW u \in Threads, pc'[u] = "read"
               PROVE  /\ begun_seq[u] <= seq'[src[u]]
                      /\ u \notin dirty => begun_seq[u] # seq'[src[u]] \/ src[u] \notin claimed'
                      /\ u \notin dirty /\ begun_seq[u] = seq'[src[u]] =>
                           \A f \in 1 .. Fields : f < pos[u] => snap[u][f] = data[src[u]][f]
    BY DEF ReadSoFar, ReadMatches
  <2>1. pc[u] = "read" /\ u # t  BY Shapes
  <2>2. seq'[src[u]] = IF src[u] = second[t] THEN seq[src[u]] + 1 ELSE seq[src[u]]  BY Words
  <2>3. /\ begun_seq[u] <= seq[src[u]]
        /\ u \notin dirty /\ begun_seq[u] = seq[src[u]] =>
             /\ src[u] \notin claimed
             /\ \A f \in 1 .. Fields : f < pos[u] => snap[u][f] = data[src[u]][f]
    BY <2>1 DEF SeqlockInvariant, ReadSoFar, ReadMatches
  <2>4. begun_seq[u] \in Nat /\ seq[src[u]] \in Nat  BY Words
  <2>5. src[u] # second[t] => (src[u] \in claimed' <=> src[u] \in claimed)  OBVIOUS
  <2> HIDE DEF UnlockSecond
  <2>6. CASE src[u] = second[t]  BY <2>2, <2>3, <2>4, <2>6
  <2>7. CASE src[u] # second[t]  BY <2>2, <2>3, <2>5, <2>7
  <2> QED  BY <2>6, <2>7
<1>7. CleanSnapshot'  BY Values DEF SeqlockInvariant, CleanSnapshot, Untorn
<1> QED  BY <1>1, <1>2, <1>3, <1>4, <1>5, <1>6, <1>7 DEF SeqlockInvariant

\* So does the last unlock of a write section.
LEMMA UnlockFirstKeeps ==
  ASSUME NEW t \in Threads, SeqlockInvariant, UnlockFirst(t)
  PROVE  SeqlockInvariant'
<1> USE DEF UnlockFirst, write_unlock, Finish, Goto, reading, begun
<1>1. TypeOK'
  <2>1. claimed' \subseteq Objects  BY Values, AnyObjectIsObject
  <2>2. seq' \in [Objects -> Nat]  BY Values
  <2>3. pc' \in [Threads -> Labels]  BY Values, AnyObjectIsObject DEF Labels
  <2>4. dst' \in [Threads -> Objects]  BY Values, AnyObjectIsObject
  <2>5. src' \in [Threads -> Objects]  BY Values, AnyObjectIsObject
  <2>6. first' \in [Threads -> Objects]  BY Values, AnyObjectIsObject
  <2>7. second' \in [Threads -> Objects]  BY Values, AnyObjectIsObject
  <2>8. token' \in [Threads -> Nat]  BY Values, AnyObjectIsObject
  <2>9. pos' \in [Threads -> 1 .. Fields + 1]  BY Values, AnyObjectIsObject
  <2> QED  BY <2>1, <2>2, <2>3, <2>4, <2>5, <2>6, <2>7, <2>8, <2>9, Values, Zenon DEF TypeOK
<1>2. LocksAreOperands'  BY Shapes DEF SeqlockInvariant, LocksAreOperands, Dual
<1>3. OneWriter'
  <2>1. Owns(t, first[t])  BY DEF SeqlockInvariant, LocksAreOperands, Owns
  <2>2. ASSUME NEW u \in Threads, NEW x \in Objects, Owns(u, x)'
        PROVE  Owns(u, x) /\ ~(u = t /\ x = first[t])
    BY Shapes, <2>2 DEF SeqlockInvariant, LocksAreOperands, Owns, Dual
  <2> QED  BY Shapes, <2>1, <2>2, UnlockKeepsOneWriter DEF SeqlockInvariant
<1>4. WholeOutsideSections'  BY Shapes DEF SeqlockInvariant, WholeOutsideSections, Untorn
<1>5. PartlyWritten'
  BY Shapes DEF SeqlockInvariant, PartlyWritten, LocksAreOperands, Dual
<1>6. ReadSoFar'
  <2> SUFFICES ASSUME NEW u \in Threads, pc'[u] = "read"
               PROVE  /\ begun_seq[u] <= seq'[src[u]]
                      /\ u \notin dirty => begun_seq[u] # seq'[src[u]] \/ src[u] \notin claimed'
                      /\ u \notin dirty /\ begun_seq[u] = seq'[src[u]] =>
                           \A f \in 1 .. Fields : f < pos[u] => snap[u][f] = data[src[u]][f]
    <3>1. \A u \in Threads : pc'[u] = "read" => u # t  BY Shapes
    <3>2. \A u \in Threads \ {t} : src'[u] = src[u] /\ pos'[u] = pos[u]  BY Values
    <3>3. UNCHANGED <<data, dirty, begun_seq, snap>>  OBVIOUS
    <3> HIDE DEF UnlockFirst
    <3> QED  BY <3>1, <3>2, <3>3 DEF ReadSoFar, ReadMatches
  <2>1. pc[u] = "read" /\ u # t  BY Shapes
  <2>2. seq'[src[u]] = IF src[u] = first[t] THEN seq[src[u]] + 1 ELSE seq[src[u]]  BY Words
  <2>3. /\ begun_seq[u] <= seq[src[u]]
        /\ u \notin dirty /\ begun_seq[u] = seq[src[u]] =>
             /\ src[u] \notin claimed
             /\ \A f \in 1 .. Fields : f < pos[u] => snap[u][f] = data[src[u]][f]
    BY <2>1 DEF SeqlockInvariant, ReadSoFar, ReadMatches
  <2>4. begun_seq[u] \in Nat /\ seq[src[u]] \in Nat  BY Words
  <2>5. src[u] # first[t] => (src[u] \in claimed' <=> src[u] \in claimed)  OBVIOUS
  <2> HIDE DEF UnlockFirst
  <2>6. CASE src[u] = first[t]  BY <2>2, <2>3, <2>4, <2>6
  <2>7. CASE src[u] # first[t]  BY <2>2, <2>3, <2>5, <2>7
  <2> QED  BY <2>6, <2>7
<1>7. CleanSnapshot'  BY Values DEF SeqlockInvariant, CleanSnapshot, Untorn
<1> QED  BY <1>1, <1>2, <1>3, <1>4, <1>5, <1>6, <1>7 DEF SeqlockInvariant

\* A snapshot has read nothing yet.
LEMMA CallSnapshotKeeps ==
  ASSUME NEW t \in Threads, NEW o \in Objects, SeqlockInvariant, CallSnapshot(t, o)
  PROVE  SeqlockInvariant'
<1> USE DEF CallSnapshot, Goto, lock, reading, begun
<1>1. TypeOK'
  <2>1. src' \in [Threads -> Objects]  BY Values
  <2>2. pc' \in [Threads -> Labels]  BY Values DEF Labels
  <2> QED  BY <2>1, <2>2, Values, Zenon DEF TypeOK
<1>2. LocksAreOperands'  BY Shapes DEF SeqlockInvariant, LocksAreOperands, Dual
<1>3. OneWriter'
  <2>1. ASSUME NEW u \in Threads, NEW x \in Objects, Owns(u, x)' PROVE Owns(u, x)
    BY Shapes, <2>1 DEF SeqlockInvariant, LocksAreOperands, Owns, Dual
  <2> QED  BY <2>1 DEF SeqlockInvariant, OneWriter
<1>4. WholeOutsideSections'  BY Shapes DEF SeqlockInvariant, WholeOutsideSections, Untorn
<1>5. PartlyWritten'
  BY Shapes DEF SeqlockInvariant, PartlyWritten, LocksAreOperands, Dual
<1>6. ReadSoFar'
  <2>1. UNCHANGED <<claimed, seq, data>>  OBVIOUS
  <2>2. \A u \in Threads : pc'[u] = "read" => u # t /\ pc[u] = "read"  BY Shapes
  <2>3. \A u \in Threads \ {t} :
          /\ src'[u] = src[u] /\ pos'[u] = pos[u] /\ snap'[u] = snap[u]
          /\ begun_seq'[u] = begun_seq[u] /\ (u \in dirty' <=> u \in dirty)
    BY Values
  <2> HIDE DEF CallSnapshot
  <2>4. ASSUME NEW u \in Threads, pc'[u] = "read" PROVE ReadMatches(u)'
    <3>1. u # t /\ ReadMatches(u)  BY <2>2, <2>4 DEF SeqlockInvariant, ReadSoFar
    <3> QED  BY <2>1, <2>3, <3>1 DEF ReadMatches
  <2> QED  BY <2>4 DEF ReadSoFar
<1>7. CleanSnapshot'  BY Values DEF SeqlockInvariant, CleanSnapshot, Untorn
<1> QED  BY <1>1, <1>2, <1>3, <1>4, <1>5, <1>6, <1>7 DEF SeqlockInvariant

\* The sampled word is the current one.
LEMMA ReadBeginKeeps ==
  ASSUME NEW t \in Threads, SeqlockInvariant, read_begin(t)
  PROVE  SeqlockInvariant'
<1> USE DEF read_begin, Goto, lock, operands
<1>1. TypeOK'
  <2>1. dirty' \subseteq Threads  BY Values
  <2>2. begun_seq' \in [Threads -> Nat]  BY Values
  <2>3. pos' \in [Threads -> 1 .. Fields + 1]  BY Values
  <2>4. pc' \in [Threads -> Labels]  BY Values DEF Labels
  <2> QED  BY <2>1, <2>2, <2>3, <2>4, Values, Zenon DEF TypeOK
<1>2. LocksAreOperands'  BY Shapes DEF SeqlockInvariant, LocksAreOperands, Dual
<1>3. OneWriter'
  <2>1. ASSUME NEW u \in Threads, NEW x \in Objects, Owns(u, x)' PROVE Owns(u, x)
    BY Shapes, <2>1 DEF SeqlockInvariant, LocksAreOperands, Owns, Dual
  <2>2. claimed' = claimed  BY Zenon
  <2> HIDE DEF read_begin
  <2> QED  BY <2>1, <2>2 DEF SeqlockInvariant, OneWriter
<1>4. WholeOutsideSections'  BY Shapes DEF SeqlockInvariant, WholeOutsideSections, Untorn
<1>5. PartlyWritten'
  BY Shapes DEF SeqlockInvariant, PartlyWritten, LocksAreOperands, Dual
<1>6. ReadSoFar'
  <2> SUFFICES ASSUME NEW u \in Threads, pc'[u] = "read"
               PROVE  /\ begun_seq'[u] <= seq[src[u]]
                      /\ u \notin dirty' /\ begun_seq'[u] = seq[src[u]] =>
                           /\ src[u] \notin claimed
                           /\ \A f \in 1 .. Fields :
                                f < pos'[u] => snap[u][f] = data[src[u]][f]
    BY Zenon DEF ReadSoFar, ReadMatches
  <2>1. CASE u = t
    <3>1. begun_seq'[t] = seq[src[t]] /\ seq[src[t]] \in Nat /\ pos'[t] = 1  BY Values
    <3>2. t \notin dirty' => src[t] \notin claimed  OBVIOUS
    <3>3. \A f \in 1 .. Fields : ~(f < 1)  BY Values
    <3> QED  BY <2>1, <3>1, <3>2, <3>3
  <2>2. CASE u # t
    <3>1. /\ pc[u] = "read" /\ begun_seq'[u] = begun_seq[u] /\ pos'[u] = pos[u]
          /\ u \in dirty' <=> u \in dirty
      BY Values, <2>2
    <3> QED  BY <3>1 DEF SeqlockInvariant, ReadSoFar, ReadMatches
  <2> QED  BY <2>1, <2>2, Zenon
<1>7. CleanSnapshot'
  <2>1. \A u \in Threads : pc'[u] = "done" => u # t /\ pc[u] = "done"  BY Shapes
  <2>2. snap' = snap /\ \A u \in Threads \ {t} : u \in dirty' <=> u \in dirty  OBVIOUS
  <2> HIDE DEF read_begin
  <2> QED  BY <2>1, <2>2 DEF SeqlockInvariant, CleanSnapshot, Untorn
<1> QED  BY <1>1, <1>2, <1>3, <1>4, <1>5, <1>6, <1>7 DEF SeqlockInvariant

\* A counter is read as it is now.
LEMMA ReadFieldKeeps ==
  ASSUME NEW t \in Threads, SeqlockInvariant, ReadField(t)
  PROVE  SeqlockInvariant'
<1>a. pc[t] = "read" /\ pos[t] <= Fields  BY DEF ReadField
<1>b. UNCHANGED <<claimed, seq, data, sections, pc, dst, src, first, second, token, dirty,
                  begun_seq>>
  BY DEF ReadField, lock, operands, begun
<1>c. pos[t] \in 1 .. Fields
  <2>1. pos \in [Threads -> 1 .. Fields + 1] /\ Fields \in Nat  BY Values
  <2> QED  BY <1>a, <2>1
<1>d. snap' = [snap EXCEPT ![t] = [snap[t] EXCEPT ![pos[t]] = data[src[t]][pos[t]]]]
  <2>1. snap \in [Threads -> [1 .. Fields -> Nat]]  BY Values
  <2> QED  BY <2>1 DEF ReadField
<1>e. pos' = [pos EXCEPT ![t] = pos[t] + 1]  BY DEF ReadField
<1>f. pos[t] + 1 \in 1 .. Fields + 1  BY <1>c, NextPosition
<1>1. TypeOK'
  <2>1. snap' \in [Threads -> [1 .. Fields -> Nat]]
    <3>1. data[src[t]] \in [1 .. Fields -> Nat] /\ snap[t] \in [1 .. Fields -> Nat]
      BY Values
    <3>2. data[src[t]][pos[t]] \in Nat  BY <1>c, <3>1, Zenon
    <3>3. [snap[t] EXCEPT ![pos[t]] = data[src[t]][pos[t]]] \in [1 .. Fields -> Nat]
      BY <3>1, <3>2, Zenon
    <3>4. snap \in [Threads -> [1 .. Fields -> Nat]]  BY Values
    <3> QED  BY <1>d, <3>3, <3>4
  <2>2. pos' \in [Threads -> 1 .. Fields + 1]
    <3>1. pos \in [Threads -> 1 .. Fields + 1]  BY Values
    <3> QED  BY <1>e, <1>f, <3>1
  <2>3. TypeOK  BY DEF SeqlockInvariant
  <2> QED  BY <1>b, <2>1, <2>2, <2>3, Zenon DEF TypeOK
<1>2. LocksAreOperands'
  <2>1. \A u \in Threads : pc[u] # "read" => pos'[u] = pos[u]
    <3>1. pos \in [Threads -> 1 .. Fields + 1]  BY Values
    <3> QED  BY <1>a, <1>e, <3>1
  <2> QED  BY <1>b, <2>1 DEF SeqlockInvariant, LocksAreOperands, Dual
<1>3. OneWriter'
  BY <1>b DEF SeqlockInvariant, OneWriter, Owns, Dual
<1>4. WholeOutsideSections'  BY <1>b DEF SeqlockInvariant, WholeOutsideSections, Untorn
<1>5. PartlyWritten'
  <2>1. \A u \in Threads : pc[u] = "write" => pos'[u] = pos[u]
    <3>1. pos \in [Threads -> 1 .. Fields + 1]  BY Values
    <3> QED  BY <1>a, <1>e, <3>1
  <2> QED  BY <1>b, <2>1 DEF SeqlockInvariant, PartlyWritten, Dual
<1>6. ReadSoFar'
  <2> SUFFICES ASSUME NEW u \in Threads, pc[u] = "read", u \notin dirty,
                      begun_seq[u] = seq[src[u]], NEW f \in 1 .. Fields, f < pos'[u]
               PROVE  snap'[u][f] = data[src[u]][f]
    BY <1>b DEF ReadSoFar, ReadMatches, SeqlockInvariant
  <2>1. f < pos[u] => snap[u][f] = data[src[u]][f]  BY DEF ReadSoFar, ReadMatches, SeqlockInvariant
  <2>2. snap \in [Threads -> [1 .. Fields -> Nat]] /\ pos \in [Threads -> 1 .. Fields + 1]
        /\ Fields \in Nat
    BY Values, Zenon
  <2>3. CASE u # t
    <3>1. pos'[u] = pos[u] /\ snap'[u] = snap[u]  BY <1>d, <1>e, <2>2, <2>3
    <3> QED  BY <2>1, <3>1
  <2>4. CASE u = t
    <3>1. snap'[t] = [snap[t] EXCEPT ![pos[t]] = data[src[t]][pos[t]]]  BY <1>d, <2>2
    <3>2. snap[t] \in [1 .. Fields -> Nat]  BY <2>2
    <3>3. CASE f = pos[t]  BY <2>4, <3>1, <3>2, <3>3, Zenon
    <3>4. CASE f # pos[t]
      <4>1. pos'[t] = pos[t] + 1  BY <1>e, <2>2
      <4>2. f < pos[t]  BY <1>c, <2>2, <2>4, <3>4, <4>1
      <4> QED  BY <2>1, <2>4, <3>1, <3>2, <3>4, <4>2
    <3> QED  BY <3>3, <3>4
  <2> QED  BY <2>3, <2>4
<1>7. CleanSnapshot'
  <2>1. \A u \in Threads : pc[u] = "done" => snap'[u] = snap[u]
    <3>1. snap \in [Threads -> [1 .. Fields -> Nat]]  BY Values
    <3> QED  BY <1>a, <1>d, <3>1
  <2> QED  BY <1>b, <2>1 DEF SeqlockInvariant, CleanSnapshot, Untorn
<1> QED  BY <1>1, <1>2, <1>3, <1>4, <1>5, <1>6, <1>7 DEF SeqlockInvariant

\* If the word is unchanged and clean, the snapshot equals the object, which is whole.
LEMMA ReadRetryKeeps ==
  ASSUME NEW t \in Threads, SeqlockInvariant, read_retry(t)
  PROVE  SeqlockInvariant'
<1> USE DEF read_retry, SameWord, Goto, lock, locals, operands, reading, begun
<1>1. TypeOK'
  <2>1. pc' \in [Threads -> Labels]  BY Values DEF Labels
  <2> QED  BY <2>1, Values, Zenon DEF TypeOK
<1>2. LocksAreOperands'  BY Shapes DEF SeqlockInvariant, LocksAreOperands, Dual
<1>3. OneWriter'
  <2>1. ASSUME NEW u \in Threads, NEW x \in Objects, Owns(u, x)' PROVE Owns(u, x)
    BY Shapes, <2>1 DEF SeqlockInvariant, LocksAreOperands, Owns, Dual
  <2> QED  BY <2>1 DEF SeqlockInvariant, OneWriter
<1>4. WholeOutsideSections'  BY Shapes DEF SeqlockInvariant, WholeOutsideSections, Untorn
<1>5. PartlyWritten'
  BY Shapes DEF SeqlockInvariant, PartlyWritten, LocksAreOperands, Dual
<1>6. ReadSoFar'  BY Values DEF SeqlockInvariant, ReadSoFar, ReadMatches
<1>7. CleanSnapshot'
  <2> SUFFICES ASSUME NEW u \in Threads, pc'[u] = "done", u \notin dirty
               PROVE  Untorn(snap[u])
    BY DEF CleanSnapshot, Untorn
  <2>1. CASE u # t  BY Values, <2>1 DEF SeqlockInvariant, CleanSnapshot
  <2>2. CASE u = t
    <3>1. begun_seq[t] = seq[src[t]] /\ src[t] \notin claimed  BY Values, <2>2
    <3>2. \A f \in 1 .. Fields : f < pos[t] => snap[t][f] = data[src[t]][f]
      BY <2>2, <3>1 DEF SeqlockInvariant, ReadSoFar, ReadMatches
    <3>3. \A f \in 1 .. Fields : f < pos[t]  BY Values
    <3>4. ASSUME NEW w \in Threads, pc[w] = "write", dst[w] = src[t] PROVE FALSE
      <4>1. Owns(w, src[t])  BY <3>4 DEF SeqlockInvariant, LocksAreOperands, Owns, Dual
      <4> QED  BY Shapes, <3>1, <4>1 DEF SeqlockInvariant, OneWriter
    <3>5. Untorn(data[src[t]])  BY Shapes, <3>4 DEF SeqlockInvariant, WholeOutsideSections
    <3> QED  BY <2>2, <3>2, <3>3, <3>5 DEF Untorn
  <2> QED  BY <2>1, <2>2, Zenon
<1> QED  BY <1>1, <1>2, <1>3, <1>4, <1>5, <1>6, <1>7 DEF SeqlockInvariant

\* A returned snapshot is gone.
LEMMA ReturnKeeps ==
  ASSUME NEW t \in Threads, SeqlockInvariant, Return(t)
  PROVE  SeqlockInvariant'
<1> USE DEF Return, Finish, Goto, lock, NoSnap
<1>1. TypeOK'
  <2>1. pc' \in [Threads -> Labels]  BY Values, AnyObjectIsObject DEF Labels
  <2>2. dirty' \subseteq Threads  BY Values, AnyObjectIsObject
  <2>3. begun_seq' \in [Threads -> Nat]  BY Values, AnyObjectIsObject
  <2>4. snap' \in [Threads -> [1 .. Fields -> Nat]]  BY Values, AnyObjectIsObject
  <2>5. dst' \in [Threads -> Objects]  BY Values, AnyObjectIsObject
  <2>6. src' \in [Threads -> Objects]  BY Values, AnyObjectIsObject
  <2>7. first' \in [Threads -> Objects]  BY Values, AnyObjectIsObject
  <2>8. second' \in [Threads -> Objects]  BY Values, AnyObjectIsObject
  <2>9. token' \in [Threads -> Nat]  BY Values, AnyObjectIsObject
  <2>10. pos' \in [Threads -> 1 .. Fields + 1]  BY Values, AnyObjectIsObject
  <2> QED  BY <2>1, <2>2, <2>3, <2>4, <2>5, <2>6, <2>7, <2>8, <2>9, <2>10, Values, Zenon DEF TypeOK
<1>2. LocksAreOperands'  BY Shapes DEF SeqlockInvariant, LocksAreOperands, Dual
<1>3. OneWriter'
  <2>1. ASSUME NEW u \in Threads, NEW x \in Objects, Owns(u, x)' PROVE Owns(u, x)
    BY Shapes, <2>1 DEF SeqlockInvariant, LocksAreOperands, Owns, Dual
  <2> QED  BY <2>1 DEF SeqlockInvariant, OneWriter
<1>4. WholeOutsideSections'  BY Shapes DEF SeqlockInvariant, WholeOutsideSections, Untorn
<1>5. PartlyWritten'
  BY Shapes DEF SeqlockInvariant, PartlyWritten, LocksAreOperands, Dual
<1>6. ReadSoFar'
  <2>1. UNCHANGED <<claimed, seq, data>>  OBVIOUS
  <2>2. \A u \in Threads : pc'[u] = "read" => u # t /\ pc[u] = "read"  BY Shapes
  <2>3. \A u \in Threads \ {t} :
          /\ src'[u] = src[u] /\ pos'[u] = pos[u] /\ snap'[u] = snap[u]
          /\ begun_seq'[u] = begun_seq[u] /\ (u \in dirty' <=> u \in dirty)
    BY Values
  <2> HIDE DEF Return
  <2>4. ASSUME NEW u \in Threads, pc'[u] = "read" PROVE ReadMatches(u)'
    <3>1. u # t /\ ReadMatches(u)  BY <2>2, <2>4 DEF SeqlockInvariant, ReadSoFar
    <3> QED  BY <2>1, <2>3, <3>1 DEF ReadMatches
  <2> QED  BY <2>4 DEF ReadSoFar
<1>7. CleanSnapshot'  BY Values DEF SeqlockInvariant, CleanSnapshot, Untorn
<1> QED  BY <1>1, <1>2, <1>3, <1>4, <1>5, <1>6, <1>7 DEF SeqlockInvariant

-----------------------------------------------------------------------------
\* Every step keeps the invariant.
LEMMA NextKeepsInvariant == SeqlockInvariant /\ [Next]_vars => SeqlockInvariant'
<1> SUFFICES ASSUME SeqlockInvariant, [Next]_vars PROVE SeqlockInvariant'  OBVIOUS
<1>1. ASSUME NEW t \in Threads, Writing(t) PROVE SeqlockInvariant'
  BY <1>1, LockFirstKeeps, LockSecondKeeps, WriteFieldKeeps, EndWriteKeeps,
     UnlockSecondKeeps, UnlockFirstKeeps DEF Writing
<1>2. ASSUME NEW t \in Threads, Reading(t) PROVE SeqlockInvariant'
  BY <1>2, ReadBeginKeeps, ReadFieldKeeps, ReadRetryKeeps, ReturnKeeps DEF Reading
<1>3. ASSUME NEW t \in Threads, NEW a \in Objects, NEW b \in Objects, CallWrite(t, a, b)
      PROVE  SeqlockInvariant'
  BY <1>3, CallWriteKeeps
<1>4. ASSUME NEW t \in Threads, NEW o \in Objects, CallSnapshot(t, o)
      PROVE  SeqlockInvariant'
  BY <1>4, CallSnapshotKeeps
<1>5. ASSUME UNCHANGED vars PROVE SeqlockInvariant'
  <2> USE <1>5 DEF SeqlockInvariant, vars, lock, locals, operands, reading, begun
  <2>1. TypeOK'  BY DEF TypeOK
  <2>2. OneWriter' /\ LocksAreOperands'  BY Zenon DEF OneWriter, LocksAreOperands, Owns, Dual
  <2>3. WholeOutsideSections' /\ CleanSnapshot'
    BY DEF WholeOutsideSections, CleanSnapshot, Untorn
  <2>4. PartlyWritten' /\ ReadSoFar'  BY DEF PartlyWritten, ReadSoFar, ReadMatches, Dual
  <2> QED  BY <2>1, <2>2, <2>3, <2>4
<1> QED  BY <1>1, <1>2, <1>3, <1>4, <1>5 DEF Next

\* The inductive invariant of the sequence lock and the objects it guards.
THEOREM SeqlockIsSound == Spec => []SeqlockInvariant
BY InitIsFine, NextKeepsInvariant, PTL DEF Spec

\* A consistent_snapshot() that began while no writer held the object shows
\* resets and assignments in all of its counters or in none.
THEOREM CleanSnapshotsAreWhole == Spec => []CleanSnapshot
<1>1. SeqlockInvariant => CleanSnapshot  BY DEF SeqlockInvariant
<1> QED  BY SeqlockIsSound, <1>1, PTL

-----------------------------------------------------------------------------
(* Writers do not wait in a circle *)

\* Every writer bit has its writer, locks are taken in address order, and the
\* addresses claimed are bounded.
ClaimsOwned == \A o \in claimed : \E t \in Threads : Owns(t, o)
InOrder == \A t \in Threads : Busy(t) => first[t] <= second[t]
ClaimsBounded == \E top \in Nat : \A o \in claimed : o <= top
WaitOrder == ClaimsOwned /\ InOrder /\ ClaimsBounded

\* The natural numbers are well ordered.
LEMMA Smallest ==
  ASSUME NEW S, S \subseteq Nat, S # {}
  PROVE  \E n \in S : \A m \in S : n <= m
<1> DEFINE R == OpToRel(<, Nat)
<1>1. IsWellFoundedOn(R, Nat)  BY NatLessThanWellFounded, Zenon
<1>2. R = {p \in Nat \X Nat : p[1] < p[2]}  BY DEF OpToRel
<1> HIDE DEF R
<1>3. PICK n \in S : \A m \in S : <<m, n>> \notin R  BY <1>1, WFMin, Zenon
<1>4. \A m \in S : ~(m < n)  BY <1>2, <1>3, Zenon
<1> QED  BY <1>4

\* A bounded set of addresses has a highest one.
LEMMA Highest ==
  ASSUME NEW S, S \subseteq Nat, S # {}, \E top \in Nat : \A o \in S : o <= top
  PROVE  \E h \in S : \A o \in S : o <= h
<1> DEFINE K == {k \in Nat : \A o \in S : o <= k}
<1>1. K \subseteq Nat /\ K # {}  OBVIOUS
<1>2. PICK k \in K : \A m \in K : k <= m  BY <1>1, Smallest, Zenon
<1>3. k \in Nat /\ \A o \in S : o \in Nat /\ o <= k  OBVIOUS
<1>4. k \in S
  <2>1. SUFFICES ASSUME k \notin S PROVE FALSE  OBVIOUS
  <2>2. \A o \in S : o <= k - 1  BY <1>3, <2>1
  <2>3. k - 1 \in Nat
    <3>1. PICK o \in S : TRUE  BY Zenon
    <3>2. o \in Nat /\ o <= k - 1 /\ k \in Nat  BY <1>3, <2>2
    <3> QED  BY <3>2
  <2>4. k - 1 \in K  BY <2>2, <2>3
  <2> HIDE DEF K
  <2> QED  BY <1>2, <1>3, <2>4
<1> QED  BY <1>3, <1>4

\* If all writers were blocked, the holder of the highest claimed object would
\* wait for a higher one that is claimed too.
LEMMA NoCircle == SeqlockInvariant /\ WaitOrder => SomeWriterRuns
<1> SUFFICES ASSUME SeqlockInvariant, WaitOrder, NEW z \in Threads, Busy(z),
                    \A t \in Threads : Busy(t) => Blocked(t)
             PROVE  FALSE
  BY DEF SomeWriterRuns
<1>1. claimed \subseteq Nat /\ claimed # {}
  BY Shapes, ObjectsAssumption, Zenon DEF Blocked
<1>2. PICK h \in claimed : \A o \in claimed : o <= h
  BY <1>1, Highest, Zenon DEF WaitOrder, ClaimsBounded
<1>3. PICK u \in Threads : Owns(u, h)
  BY DEF WaitOrder, ClaimsOwned
<1>4. Busy(u)  BY <1>3 DEF Owns, Busy
<1>5. pc[u] = "lock_second" /\ second[u] \in claimed /\ first[u] = h
  BY <1>3, <1>4 DEF Owns, Blocked
<1>6. first[u] # second[u]
  BY <1>5, <1>4 DEF SeqlockInvariant, LocksAreOperands, Dual
<1>7. first[u] <= second[u]  BY <1>4 DEF WaitOrder, InOrder
<1>8. \A a, b \in Nat : a <= b /\ a # b => ~(b <= a)  OBVIOUS
<1>9. h \in Nat /\ second[u] \in Nat /\ second[u] <= h  BY <1>1, <1>2, <1>5, Zenon
<1> QED  BY <1>5, <1>6, <1>7, <1>8, <1>9, Zenon

\* A step of t that claims at most x, or gives objects up.
LEMMA WaitOrderKept ==
  ASSUME SeqlockInvariant, WaitOrder, NEW t \in Threads, NEW x \in Objects,
         claimed' \subseteq claimed \cup {x},
         \A o \in claimed' : Owns(t, o) \/ o \notin claimed => Owns(t, o)',
         \A u \in Threads \ {t} : /\ pc'[u] = pc[u] /\ first'[u] = first[u]
                                  /\ second'[u] = second[u],
         Busy(t)' => first'[t] <= second'[t]
  PROVE  WaitOrder'
<1>1. \A u \in Threads \ {t} : /\ Busy(u)' <=> Busy(u)
                               /\ \A o : Owns(u, o)' <=> Owns(u, o)
  BY Zenon DEF Busy, Owns, Dual
<1>2. ClaimsOwned'
  <2>1. ASSUME NEW o \in claimed' PROVE \E u \in Threads : Owns(u, o)'
    <3>1. CASE o \notin claimed  BY <3>1, <2>1
    <3>2. CASE o \in claimed
      <4>1. PICK u \in Threads : Owns(u, o)  BY <3>2 DEF WaitOrder, ClaimsOwned
      <4> QED  BY <1>1, <2>1, <4>1, Zenon
    <3> QED  BY <2>1, <3>1, <3>2
  <2> QED  BY <2>1, Zenon DEF ClaimsOwned
<1>3. InOrder'  BY <1>1, Zenon DEF WaitOrder, InOrder
<1>4. ClaimsBounded'
  <2>1. PICK top \in Nat : \A o \in claimed : o <= top  BY DEF WaitOrder, ClaimsBounded
  <2>2. x \in Nat /\ claimed \subseteq Nat  BY Shapes, ObjectsAssumption, Zenon
  <2> DEFINE new == IF x <= top THEN top ELSE x
  <2>3. new \in Nat /\ \A o \in claimed \cup {x} : o <= new  BY <2>1, <2>2
  <2> HIDE DEF new
  <2> QED  BY <2>3 DEF ClaimsBounded
<1> QED  BY <1>2, <1>3, <1>4 DEF WaitOrder

LEMMA WritersKeepOrder ==
  ASSUME SeqlockInvariant, WaitOrder, NEW t \in Threads, Writing(t)
  PROVE  WaitOrder'
<1>1. /\ first[t] \in Objects /\ second[t] \in Objects /\ pc \in [Threads -> Labels]
      /\ (Busy(t) => first[t] <= second[t])
  BY Shapes DEF WaitOrder, InOrder
<1>2. CASE UnlockFirst(t)
  <2>1. /\ pc[t] = "unlock_first" /\ claimed' = claimed \ {first[t]} /\ Finish(t)
    BY <1>2 DEF UnlockFirst, write_unlock
  <2>2. pc'[t] = "idle" /\ \A u \in Threads \ {t} : pc'[u] = pc[u]
    BY <1>1, <2>1 DEF Finish, Goto
  <2>3. \A u \in Threads \ {t} : first'[u] = first[u] /\ second'[u] = second[u]
    BY <2>1, Shapes DEF Finish
  <2>4. \A o \in claimed' : ~Owns(t, o)  BY <2>1 DEF Owns
  <2>5. ~Busy(t)'  BY <2>2 DEF Busy
  <2> QED  BY <1>1, <2>1, <2>2, <2>3, <2>4, <2>5, WaitOrderKept, Zenon
<1>3. CASE ~UnlockFirst(t)
  <2>1. first' = first /\ second' = second /\ Busy(t)
    BY <1>3, Zenon DEF Writing, LockFirst, LockSecond, WriteField, EndWrite, UnlockSecond, locals,
       operands, Busy
  <2>2. \A u \in Threads \ {t} : pc'[u] = pc[u]
    BY <1>1, <1>3 DEF Writing, LockFirst, LockSecond, WriteField, EndWrite, UnlockSecond, Goto
  <2>3. CASE LockFirst(t)
    <3>1. /\ pc[t] = "lock_first" /\ pc'[t] \in {"lock_second", "write"}
          /\ claimed' = claimed \cup {first[t]}
      BY <1>1, <2>3, Zenon DEF LockFirst, write_lock, Goto
    <3>2. Owns(t, first[t])' /\ \A o : ~Owns(t, o)  BY <2>1, <3>1 DEF Owns
    <3> QED  BY <1>1, <2>1, <2>2, <3>1, <3>2, WaitOrderKept, Zenon
  <2>4. CASE LockSecond(t)
    <3>1. /\ pc[t] = "lock_second" /\ pc'[t] = "write" /\ claimed' = claimed \cup {second[t]}
      BY <1>1, <2>4 DEF LockSecond, write_lock, Goto
    <3>2. Dual(t)' /\ Dual(t)
      BY <2>1, <3>1 DEF SeqlockInvariant, LocksAreOperands, Dual
    <3>3. Owns(t, second[t])' /\ \A o : Owns(t, o) => Owns(t, o)'
      BY <2>1, <3>1, <3>2, Zenon DEF Owns
    <3> QED  BY <1>1, <2>1, <2>2, <3>1, <3>3, WaitOrderKept, Zenon
  <2>5. CASE WriteField(t) \/ EndWrite(t)
    <3>1. pc[t] = "write" /\ claimed' = claimed
      BY <2>5 DEF WriteField, EndWrite, lock
    <3>2. pc'[t] = "write" \/ pc'[t] = IF Dual(t) THEN "unlock_second" ELSE "unlock_first"
      BY <1>1, <2>5 DEF WriteField, EndWrite, Goto
    <3>3. \A o : Owns(t, o) => Owns(t, o)'
      BY <2>1, <3>1, <3>2 DEF Owns, Dual
    <3>4. Owns(t, first[t])  BY <3>1 DEF Owns
    <3> QED  BY <1>1, <2>1, <2>2, <3>1, <3>3, <3>4, WaitOrderKept, Zenon
  <2>6. CASE UnlockSecond(t)
    <3>1. /\ pc[t] = "unlock_second" /\ pc'[t] = "unlock_first" /\ claimed' = claimed \ {second[t]}
      BY <1>1, <2>6 DEF UnlockSecond, write_unlock, Goto
    <3>2. \A o \in claimed' : Owns(t, o) => Owns(t, o)'
      BY <2>1, <3>1 DEF Owns
    <3> QED  BY <1>1, <2>1, <2>2, <3>1, <3>2, WaitOrderKept
  <2> QED  BY <1>3, <2>3, <2>4, <2>5, <2>6 DEF Writing
<1> QED  BY <1>2, <1>3

LEMMA OthersKeepOrder ==
  ASSUME SeqlockInvariant, WaitOrder, NEW t \in Threads,
         \/ \E a, b \in Objects : CallWrite(t, a, b)
         \/ \E o \in Objects : CallSnapshot(t, o)
         \/ Reading(t)
  PROVE  WaitOrder'
<1>1. ~Busy(t) /\ claimed' = claimed
  BY DEF CallWrite, CallSnapshot, Reading, read_begin, ReadField, read_retry, Return, Busy, lock
<1>2. \A o : ~Owns(t, o)  BY <1>1 DEF Busy, Owns
<1>3. \A u \in Threads \ {t} : /\ pc'[u] = pc[u] /\ first'[u] = first[u] /\ second'[u] = second[u]
  BY Shapes DEF CallWrite, CallSnapshot, Reading, read_begin, ReadField, read_retry, Return, Finish,
     Goto, locals, operands
<1>4. Busy(t)' => first'[t] <= second'[t]
  <2>1. CASE \E a, b \in Objects : CallWrite(t, a, b)
    <3>1. PICK a \in Objects, b \in Objects : CallWrite(t, a, b)  BY <2>1
    <3>2. first'[t] = First(a, b) /\ second'[t] = Second(a, b)  BY <3>1, Shapes DEF CallWrite
    <3>3. First(a, b) <= Second(a, b)  BY ObjectsAssumption DEF First, Second
    <3> QED  BY <3>2, <3>3, Zenon
  <2>2. CASE (\E o \in Objects : CallSnapshot(t, o)) \/ Reading(t)
    <3>1. pc'[t] \in {"begin", "read", "done", "idle"}
      BY <2>2, Shapes, Zenon DEF CallSnapshot, Reading, read_begin, ReadField, read_retry, Return, Finish, Goto
    <3> QED  BY <3>1 DEF Busy
  <2> QED  BY <2>1, <2>2
<1> QED  BY <1>1, <1>2, <1>3, <1>4, AnyObjectIsObject, WaitOrderKept, Zenon

LEMMA NextKeepsOrder == SeqlockInvariant /\ WaitOrder /\ [Next]_vars => WaitOrder'
<1> SUFFICES ASSUME SeqlockInvariant, WaitOrder, [Next]_vars PROVE WaitOrder'
  OBVIOUS
<1>1. CASE Next
  BY <1>1, WritersKeepOrder, OthersKeepOrder, Zenon DEF Next
<1>2. CASE UNCHANGED vars
  BY <1>2, Zenon DEF vars, lock, locals, operands, WaitOrder, ClaimsOwned, InOrder, ClaimsBounded,
     Owns, Dual, Busy
<1> QED  BY <1>1, <1>2

\* Concurrent operator= and reset calls never wait for each other in a circle,
\* whatever the pairs of objects they name: dual_seqlock_write_guard takes the
\* two locks in address order, so as long as a write is under way some writer
\* can go on.
THEOREM WritersGoOn == Spec => []SomeWriterRuns
<1>1. Init => WaitOrder
  BY DEF Init, WaitOrder, ClaimsOwned, InOrder, ClaimsBounded, Busy
<1>2. Spec => []SeqlockInvariant
  BY SeqlockIsSound
<1> QED
  BY <1>1, <1>2, NextKeepsOrder, NoCircle, PTL DEF Spec
=============================================================================
