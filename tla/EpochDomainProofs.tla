------------------------- MODULE EpochDomainProofs --------------------------
(***************************************************************************)
(* Epoch-based reclamation, for any number of threads, slots, objects and  *)
(* epochs: an object is freed only when no reader holds it (unless the     *)
(* operator's policy skipped a reader), synchronize_epoch() returns only   *)
(* when the readers it found inside have left, and epoch_domain implements *)
(* SafeReclamation.                                                        *)
(*                                                                         *)
(* The argument.  A claimed object is never published again, so a reader   *)
(* that holds it took it before the claim and was stamped by then: its     *)
(* stamp is at most the object's tag (Tags).  A scan that has passed the   *)
(* reader's slot has seen that stamp, and one that has not will see it     *)
(* (ScanSafe), since the reader keeps slot and stamp until it gives its    *)
(* references up.  So the minimum the scan finds is at most the tag, and   *)
(* the test tag + 1 < minimum fails.                                       *)
(***************************************************************************)
EXTENDS EpochDomain, TLAPS

(* The provers that a step is given when it names none, one after another. *)
USE SMTT(10), ZenonT(20), SMTT(20), SMTT(40)

Slot(t) == cache[t].slot

(* Where a thread is fits the return labels it holds, and tells whether it *)
(* is inside a critical section.                                           *)
Flushing == {"flush", "advance", "advancecas", "capacity", "auto", "autoend"}
Passing == {"exchange", "scan", "free", "putback"}
FlushStacks == {<<"idle">>, <<"inside">>, <<"exchange", "idle">>}
PassStacks == {<<"idle">>, <<"autoend", "idle">>, <<"autoend", "inside">>,
               <<"autoend", "exchange", "idle">>}
Fit(p, s, in) ==
    /\ p \in Labels \ (Flushing \cup Passing) => s = <<>>
    /\ p \in Flushing => s \in FlushStacks
    /\ p \in Passing => s \in PassStacks
    /\ in <=> p = "inside" \/ s = <<"inside">> \/ s = <<"autoend", "inside">>
StackFits == \A t \in Threads : Fit(pc[t], stack[t], Inside(t))

(* A slot belongs to one thread, which has it while it is inside.          *)
SlotsOwned ==
    /\ \A t \in Threads : /\ Slot(t) # npos => Slot(t) \in used
                          /\ Inside(t) => Slot(t) # npos
    /\ \A t, u \in Threads : t # u /\ Slot(t) = Slot(u) => Slot(t) = npos

(* No stamp is ahead of the global epoch, nor is one about to be set.      *)
Stamps == \A t \in Threads : Inside(t) => local[Slot(t)] <= global
EnterSafe(t) ==
    /\ pc[t] \in {"enter", "stamp"} => Slot(t) # npos
    /\ pc[t] = "stamp" => reg[t].epoch <= global

(* A claimed object is not published, and only claimed ones are buffered,  *)
(* pending or detached.                                                    *)
Claims ==
    /\ location \notin claimed
    /\ pending \in Seq(claimed)
    /\ \A t \in Threads :
          /\ pc[t] = "retire" => reg[t].obj \in Objects /\ reg[t].obj # location
          /\ buf[t] \in Seq(claimed)
          /\ reg[t].taken \in Seq(claimed) /\ reg[t].keep \in Seq(claimed)

(* Who holds a claimed object was stamped when it was claimed.             *)
Tags == \A u \in Threads : \A o \in ref[u] :
    /\ Inside(u)
    /\ o \in claimed \ freed => local[Slot(u)] <= tag[o]

(* A scan has seen, or will see, the stamp of whoever holds a detached     *)
(* object.                                                                 *)
ScanSafe(t) == \A u \in Threads : \A i \in 1..Len(reg[t].taken) :
    ~forced /\ reg[t].taken[i] \in ref[u] \ freed =>
       /\ pc[t] = "scan" => Slot(u) >= reg[t].pos \/ reg[t].min <= local[Slot(u)]
       /\ pc[t] = "free" => reg[t].min <= local[Slot(u)]

(* A waiter will come across the stamp of every reader it waits for.       *)
SyncSafe(t) == \A u \in waitFor[t] :
    /\ pc[t] # "synced"
    /\ pc[t] = "sync" => Inside(u) /\ local[Slot(u)] < reg[t].epoch /\ Slot(u) >= reg[t].pos

Safe(t) == EnterSafe(t) /\ ScanSafe(t) /\ SyncSafe(t)

EpochInvariant ==
    /\ TypeOK /\ StackFits /\ SlotsOwned /\ Stamps /\ Claims /\ Tags /\ NoUseAfterFree
    /\ \A t \in Threads : Safe(t)
-----------------------------------------------------------------------------
(* Sequences, stacks and the locals of a thread.                           *)

LEMMA SameSequence ==
  ASSUME NEW S, NEW s \in Seq(S), NEW w \in Seq(S), Len(s) = Len(w),
         \A i \in 1..Len(s) : s[i] = w[i]
  PROVE  s = w
OBVIOUS

LEMMA ConcatSeq == \A S : \A s, w \in Seq(S) : s \o w \in Seq(S)
OBVIOUS

LEMMA LenNat == \A S : \A s \in Seq(S) : Len(s) \in Nat
OBVIOUS

LEMMA SeqMonotonic == \A S, T : S \subseteq T => Seq(S) \subseteq Seq(T)
OBVIOUS

LEMMA AppendSeq == \A S : \A s \in Seq(S) : \A e \in S : Append(s, e) \in Seq(S)
OBVIOUS

LEMMA SubSeqSeq ==
  \A S : \A s \in Seq(S) : \A m \in Nat \ {0} : SubSeq(s, m, Len(s)) \in Seq(S)
OBVIOUS

(* Positions of a scan.                                                    *)
LEMMA NextSlot ==
  \A s \in Nat \ {0} : \A p \in Nat : \A q :
    (q = 1 \/ q = p + 1) /\ s >= p /\ (s = p => q = 1) => s >= q
OBVIOUS

LEMMA SlotWithin ==
  \A c \in Nat : \A s \in Nat \ {0} : \A p \in Nat \ {0} :
    s <= c /\ s >= p => p \in 1..c
OBVIOUS

LEMMA LowestStamp ==
  \A g \in 0..MaxEpoch : \A low \in 0..InactiveEpoch : \A e \in 0..g :
    low <= e => (IF low = InactiveEpoch THEN g + 1 ELSE low) <= e
BY EpochAssumption DEF InactiveEpoch

LEMMA Pair == \A a, b : <<a>> \o <<b>> = <<a, b>>
<1> TAKE a, b
<1> DEFINE s == <<a>> \o <<b>>
           w == <<a, b>>
           S == {a, b}
<1>1. s \in Seq(S) /\ Len(s) = 2 /\ s[1] = a /\ s[2] = b  OBVIOUS
<1>2. w \in Seq(S) /\ Len(w) = 2 /\ w[1] = a /\ w[2] = b  OBVIOUS
<1> HIDE DEF s, w, S
<1>3. \A i \in 1..2 : s[i] = w[i]  BY <1>1, <1>2
<1>4. s = w  BY SameSequence, <1>1, <1>2, <1>3
<1> QED  BY <1>4 DEF s, w

LEMMA Triple == \A a, b, c : <<a>> \o <<b, c>> = <<a, b, c>>
<1> TAKE a, b, c
<1> DEFINE s == <<a>> \o <<b, c>>
           w == <<a, b, c>>
           S == {a, b, c}
<1>1. s \in Seq(S) /\ Len(s) = 3 /\ s[1] = a /\ s[2] = b /\ s[3] = c  OBVIOUS
<1>2. w \in Seq(S) /\ Len(w) = 3 /\ w[1] = a /\ w[2] = b /\ w[3] = c  OBVIOUS
<1> HIDE DEF s, w, S
<1>3. \A i \in 1..3 : s[i] = w[i]  BY <1>1, <1>2
<1>4. s = w  BY SameSequence, <1>1, <1>2, <1>3
<1> QED  BY <1>4 DEF s, w

LEMMA ChainedSeq == \A S : \A s \in Seq(S) : Chained(s) \in Seq(S)
BY DEF Chained

(* Outside the subroutines the stack is empty.                             *)
LEMMA NoCalls ==
  ASSUME NEW p \in Labels \ (Flushing \cup Passing), NEW s, NEW in \in BOOLEAN, Fit(p, s, in)
  PROVE  s = <<>> /\ (in <=> p = "inside")
<1>1. <<>> # <<"inside">> /\ <<>> # <<"autoend", "inside">>
  OBVIOUS
<1>2. s = <<>>
  BY DEF Fit
<1> QED  BY <1>1, <1>2 DEF Fit

(* A return takes a thread from a place that fits to a place that fits.    *)
LEMMA ReturnFits ==
  ASSUME NEW p \in Flushing \cup Passing, NEW s, NEW in \in BOOLEAN, Fit(p, s, in)
  PROVE  /\ Head(s) \in {"idle", "inside", "exchange", "autoend"} /\ Tail(s) \in Seq(Labels)
         /\ Fit(Head(s), Tail(s), in)
<1>1. \A a : Head(<<a>>) = a /\ Tail(<<a>>) = <<>>  OBVIOUS
<1>2. \A a, b : Head(<<a, b>>) = a  OBVIOUS
<1>3. \A a, b : Tail(<<a, b>>) = <<b>>  OBVIOUS
<1>4. \A a, b, c : Head(<<a, b, c>>) = a  OBVIOUS
<1>5. \A a, b, c : Tail(<<a, b, c>>) = <<b, c>>  OBVIOUS
<1>6. CASE s = <<"idle">>
  <2>1. Head(s) = "idle" /\ Tail(s) = <<>>  BY <1>1, <1>6
  <2> QED  BY <1>6, <2>1 DEF Fit, Flushing, Passing, FlushStacks, PassStacks, Labels
<1>7. CASE s = <<"inside">>
  <2>1. Head(s) = "inside" /\ Tail(s) = <<>>  BY <1>1, <1>7
  <2> QED  BY <1>7, <2>1 DEF Fit, Flushing, Passing, FlushStacks, PassStacks, Labels
<1>8. CASE s = <<"exchange", "idle">>
  <2>1. Head(s) = "exchange" /\ Tail(s) = <<"idle">>  BY <1>2, <1>3, <1>8
  <2> QED  BY <1>8, <2>1 DEF Fit, Flushing, Passing, FlushStacks, PassStacks, Labels
<1>9. CASE s = <<"autoend", "idle">>
  <2>1. Head(s) = "autoend" /\ Tail(s) = <<"idle">>  BY <1>2, <1>3, <1>9
  <2> QED  BY <1>9, <2>1 DEF Fit, Flushing, Passing, FlushStacks, PassStacks, Labels
<1>10. CASE s = <<"autoend", "inside">>
  <2>1. Head(s) = "autoend" /\ Tail(s) = <<"inside">>  BY <1>2, <1>3, <1>10
  <2> QED  BY <1>10, <2>1 DEF Fit, Flushing, Passing, FlushStacks, PassStacks, Labels
<1>11. CASE s = <<"autoend", "exchange", "idle">>
  <2>1. Head(s) = "autoend" /\ Tail(s) = <<"exchange", "idle">>  BY <1>4, <1>5, <1>11
  <2> QED  BY <1>11, <2>1 DEF Fit, Flushing, Passing, FlushStacks, PassStacks, Labels
<1> QED
  BY <1>6, <1>7, <1>8, <1>9, <1>10, <1>11 DEF Fit, FlushStacks, PassStacks

(* So does a call: flush from outside or inside a critical section, and an *)
(* automatic pass from a flush.                                            *)
LEMMA CallFits ==
  /\ \A back \in {"idle", "inside"} :
        <<back>> \o <<>> \in Seq(Labels) /\ Fit("flush", <<back>> \o <<>>, back = "inside")
  /\ <<"exchange", "idle">> \o <<>> \in Seq(Labels)
  /\ Fit("flush", <<"exchange", "idle">> \o <<>>, FALSE)
  /\ \A s : \A in \in BOOLEAN : Fit("auto", s, in) =>
        <<"autoend">> \o s \in Seq(Labels) /\ Fit("exchange", <<"autoend">> \o s, in)
<1>1. \A back : <<back>> \o <<>> = <<back>>  OBVIOUS
<1>2. <<"exchange", "idle">> \o <<>> = <<"exchange", "idle">>  OBVIOUS
<1>3. \A back \in {"idle", "inside"} :
         <<back>> \o <<>> \in Seq(Labels) /\ Fit("flush", <<back>> \o <<>>, back = "inside")
  BY <1>1 DEF Fit, Flushing, Passing, FlushStacks, PassStacks, Labels
<1>4. <<"exchange", "idle">> \o <<>> \in Seq(Labels)
  BY <1>2 DEF Labels
<1>5. Fit("flush", <<"exchange", "idle">> \o <<>>, FALSE)
  BY <1>2 DEF Fit, Flushing, Passing, FlushStacks, PassStacks, Labels
<1>6. ASSUME NEW s, NEW in \in BOOLEAN, Fit("auto", s, in)
      PROVE  <<"autoend">> \o s \in Seq(Labels) /\ Fit("exchange", <<"autoend">> \o s, in)
  <2>1. s \in {<<"idle">>, <<"inside">>, <<"exchange", "idle">>}
    BY <1>6 DEF Fit, Flushing, FlushStacks
  <2>2. <<"autoend">> \o <<"idle">> = <<"autoend", "idle">>  BY Pair
  <2>3. <<"autoend">> \o <<"inside">> = <<"autoend", "inside">>  BY Pair
  <2>4. <<"autoend">> \o <<"exchange", "idle">> = <<"autoend", "exchange", "idle">>  BY Triple
  <2>5. CASE s = <<"idle">>
    BY <1>6, <2>2, <2>5 DEF Fit, Flushing, Passing, FlushStacks, PassStacks, Labels
  <2>6. CASE s = <<"inside">>
    BY <1>6, <2>3, <2>6 DEF Fit, Flushing, Passing, FlushStacks, PassStacks, Labels
  <2>7. CASE s = <<"exchange", "idle">>
    BY <1>6, <2>4, <2>7 DEF Fit, Flushing, Passing, FlushStacks, PassStacks, Labels
  <2> QED  BY <2>1, <2>5, <2>6, <2>7
<1> QED  BY <1>3, <1>4, <1>5, <1>6, Zenon

(* The locals, field by field.                                             *)
LEMMA LocalsFields ==
  \A r \in Locals :
     /\ r.obj \in Objects \cup {None} /\ r.epoch \in 0..MaxEpoch + 1 /\ r.pos \in Nat \ {0}
     /\ r.min \in 0..InactiveEpoch /\ r.batch \in {0, 1}
     /\ r.taken \in Seq(Objects) /\ r.keep \in Seq(Objects)
BY DEF Locals

LEMMA SetEpoch ==
  ASSUME reg \in [Threads -> Locals], NEW t \in Threads, NEW e \in 0..MaxEpoch + 1,
         reg' = [reg EXCEPT ![t].epoch = e]
  PROVE  /\ reg' \in [Threads -> Locals] /\ \A u \in Threads \ {t} : reg'[u] = reg[u]
         /\ reg'[t].epoch = e
         /\ reg'[t].obj = reg[t].obj /\ reg'[t].taken = reg[t].taken /\ reg'[t].keep = reg[t].keep
<1>1. /\ reg'[t] = [reg[t] EXCEPT !.epoch = e]
      /\ reg[t] \in Locals /\ \A u \in Threads \ {t} : reg'[u] = reg[u]
  OBVIOUS
<1>2. reg'[t] \in Locals
  BY <1>1, Zenon DEF Locals
<1>3. /\ reg'[t].epoch = e
      /\ reg'[t].obj = reg[t].obj /\ reg'[t].taken = reg[t].taken /\ reg'[t].keep = reg[t].keep
  BY <1>1 DEF Locals
<1> QED  BY <1>1, <1>2, <1>3

LEMMA SetObj ==
  ASSUME reg \in [Threads -> Locals], NEW t \in Threads, NEW o \in Objects \cup {None},
         reg' = [reg EXCEPT ![t].obj = o]
  PROVE  /\ reg' \in [Threads -> Locals] /\ \A u \in Threads \ {t} : reg'[u] = reg[u]
         /\ reg'[t].obj = o
         /\ reg'[t].taken = reg[t].taken /\ reg'[t].keep = reg[t].keep
<1>1. /\ reg'[t] = [reg[t] EXCEPT !.obj = o]
      /\ reg[t] \in Locals /\ \A u \in Threads \ {t} : reg'[u] = reg[u]
  OBVIOUS
<1>2. reg'[t] \in Locals
  BY <1>1, Zenon DEF Locals
<1>3. /\ reg'[t].obj = o
      /\ reg'[t].taken = reg[t].taken /\ reg'[t].keep = reg[t].keep
  BY <1>1 DEF Locals
<1> QED  BY <1>1, <1>2, <1>3

LEMMA SetPos ==
  ASSUME reg \in [Threads -> Locals], NEW t \in Threads, NEW n \in Nat \ {0},
         reg' = [reg EXCEPT ![t].pos = n]
  PROVE  /\ reg' \in [Threads -> Locals] /\ \A u \in Threads \ {t} : reg'[u] = reg[u]
         /\ reg'[t].pos = n
         /\ reg'[t].epoch = reg[t].epoch /\ reg'[t].min = reg[t].min /\ reg'[t].taken = reg[t].taken /\ reg'[t].keep = reg[t].keep
<1>1. /\ reg'[t] = [reg[t] EXCEPT !.pos = n]
      /\ reg[t] \in Locals /\ \A u \in Threads \ {t} : reg'[u] = reg[u]
  OBVIOUS
<1>2. reg'[t] \in Locals
  BY <1>1, Zenon DEF Locals
<1>3. /\ reg'[t].pos = n
      /\ reg'[t].epoch = reg[t].epoch /\ reg'[t].min = reg[t].min /\ reg'[t].taken = reg[t].taken /\ reg'[t].keep = reg[t].keep
  BY <1>1 DEF Locals
<1> QED  BY <1>1, <1>2, <1>3

LEMMA NoLocals == NoRegs \in Locals /\ NoRegs.taken = <<>> /\ NoRegs.keep = <<>>
BY EpochAssumption DEF NoRegs, Locals, InactiveEpoch
-----------------------------------------------------------------------------
(* Quiet steps: readers, objects and what is freed stay as they are, the   *)
(* lists hold claimed objects, and a thread that moves keeps what the      *)
(* invariant asks of its place.                                            *)
Quiet ==
    /\ UNCHANGED <<readerVars, location, claimed, tag, freed>>
    /\ global <= global' /\ (forced => forced') /\ pending' \in Seq(claimed)
    /\ \A u \in Threads :
          /\ buf'[u] \in Seq(claimed)
          /\ reg'[u].taken \in Seq(claimed) /\ reg'[u].keep \in Seq(claimed)
          /\ \/ pc'[u] = pc[u] /\ reg'[u] = reg[u] /\ waitFor'[u] \subseteq waitFor[u]
             \/ pc'[u] # "retire" /\ Safe(u)'

(* It asks nothing at most places.                                         *)
Plain == {"idle", "inside", "flush", "advance", "advancecas", "capacity", "auto", "autoend",
          "exchange", "putback"}

LEMMA PlainSafe ==
  ASSUME NEW t \in Threads, pc'[t] \in Plain
  PROVE  pc'[t] # "retire" /\ Safe(t)'
BY DEF Plain, Safe, EnterSafe, ScanSafe, SyncSafe

LEMMA StampTypes ==
  ASSUME EpochInvariant, NEW u \in Threads, Inside(u)
  PROVE  Slot(u) \in Slots /\ local[Slot(u)] \in 0..global /\ Slot(u) \in used
<1>1. Slot(u) \in used /\ Slot(u) \in Slots
  BY DEF EpochInvariant, TypeOK, SlotsOwned
<1>2. local[Slot(u)] \in Nat /\ global \in Nat
  BY <1>1, EpochAssumption DEF EpochInvariant, TypeOK, InactiveEpoch
<1> QED  BY <1>1, <1>2 DEF EpochInvariant, Stamps

LEMMA QuietKeeps ==
  ASSUME EpochInvariant, Quiet, TypeOK', StackFits'
  PROVE  EpochInvariant'
<1>1. SlotsOwned'
  BY DEF EpochInvariant, Quiet, SlotsOwned, Slot, Inside, readerVars
<1>2. Stamps'
  <2> SUFFICES ASSUME NEW t \in Threads, Inside(t)'
               PROVE  local'[Slot(t)'] <= global'
    BY DEF Stamps
  <2>1. Inside(t) /\ Slot(t)' = Slot(t) /\ local' = local
    BY DEF Quiet, readerVars, Inside, Slot
  <2>2. local[Slot(t)] \in 0..global
    BY <2>1, StampTypes
  <2>3. global \in Int /\ global' \in Int /\ global <= global'
    BY DEF EpochInvariant, TypeOK, Quiet
  <2> QED
    BY <2>1, <2>2, <2>3
<1>3. Claims'
  BY Zenon DEF EpochInvariant, Quiet, Claims
<1>4. Tags'
  BY DEF EpochInvariant, Quiet, Tags, Slot, Inside, readerVars
<1>5. NoUseAfterFree'
  BY DEF EpochInvariant, Quiet, NoUseAfterFree, readerVars
<1>6. ASSUME NEW t \in Threads, pc'[t] = pc[t], reg'[t] = reg[t], waitFor'[t] \subseteq waitFor[t]
      PROVE  Safe(t)'
  <2>1. /\ Safe(t) /\ UNCHANGED <<ref, freed, local, cache>> /\ (forced => forced')
        /\ \A u : Slot(u)' = Slot(u) /\ (Inside(u)' <=> Inside(u))
    BY DEF EpochInvariant, Quiet, readerVars, Slot, Inside
  <2>2. EnterSafe(t)'
    <3>1. global \in Int /\ global' \in Int /\ global <= global' /\ reg[t].epoch \in Int
      <4>1. reg[t] \in Locals /\ global \in 0..MaxEpoch
        BY DEF EpochInvariant, TypeOK
      <4>2. global' \in 0..MaxEpoch /\ global <= global'
        BY DEF Quiet, TypeOK
      <4> QED  BY <4>1, <4>2, LocalsFields
    <3> QED  BY <1>6, <2>1, <3>1 DEF Safe, EnterSafe
  <2>3. ScanSafe(t)'
    BY <1>6, <2>1 DEF Safe, ScanSafe
  <2>4. SyncSafe(t)'
    BY <1>6, <2>1 DEF Safe, SyncSafe
  <2> QED  BY <2>2, <2>3, <2>4 DEF Safe
<1>7. \A t \in Threads : Safe(t)'
  BY <1>6 DEF Quiet
<1> QED
  BY <1>1, <1>2, <1>3, <1>4, <1>5, <1>7 DEF EpochInvariant

(* A thread that goes to another place of the same routine.                *)
LEMMA GoFits ==
  ASSUME EpochInvariant, NEW t \in Threads, NEW label \in Labels, Goto(t, label),
         UNCHANGED <<stack, cache>>,
         \/ pc[t] \in Flushing /\ label \in Flushing
         \/ pc[t] \in Passing /\ label \in Passing
         \/ {pc[t], label} \cap (Flushing \cup Passing \cup {"inside"}) = {}
  PROVE  /\ pc' \in [Threads -> Labels] /\ StackFits'
         /\ pc'[t] = label /\ \A u \in Threads \ {t} : pc'[u] = pc[u]
<1>1. /\ pc' \in [Threads -> Labels] /\ pc'[t] = label
      /\ \A u \in Threads \ {t} : pc'[u] = pc[u]
  BY DEF EpochInvariant, TypeOK, Goto
<1>2. \A u \in Threads : Inside(u)' <=> Inside(u)
  BY DEF Inside
<1>3. Fit(pc[t], stack[t], Inside(t)) /\ pc[t] \in Labels
  BY DEF EpochInvariant, StackFits, TypeOK
<1>4. Fit(label, stack[t], Inside(t))
  BY <1>3, Zenon DEF Fit, Flushing, Passing
<1>5. ASSUME NEW u \in Threads PROVE Fit(pc'[u], stack'[u], Inside(u)')
  <2>1. CASE u = t
    BY <1>1, <1>2, <1>4, <2>1 DEF Fit
  <2>2. CASE u # t
    BY <1>1, <1>2, <2>2 DEF EpochInvariant, StackFits, Fit
  <2> QED  BY <2>1, <2>2
<1> QED  BY <1>1, <1>5 DEF StackFits

(* A thread that returns.                                                  *)
LEMMA Returns ==
  ASSUME EpochInvariant, NEW t \in Threads, pc[t] \in Flushing \cup Passing, Return(t),
         UNCHANGED cache
  PROVE  /\ pc' \in [Threads -> Labels] /\ stack' \in [Threads -> Seq(Labels)] /\ StackFits'
         /\ pc'[t] \in Plain /\ \A u \in Threads \ {t} : pc'[u] = pc[u]
<1>1. /\ pc \in [Threads -> Labels] /\ stack \in [Threads -> Seq(Labels)]
      /\ Fit(pc[t], stack[t], Inside(t)) /\ Inside(t) \in BOOLEAN
  BY DEF EpochInvariant, StackFits, TypeOK, Inside
<1>2. /\ Head(stack[t]) \in {"idle", "inside", "exchange", "autoend"}
      /\ Tail(stack[t]) \in Seq(Labels) /\ Fit(Head(stack[t]), Tail(stack[t]), Inside(t))
  BY <1>1, ReturnFits
<1>3. /\ pc' = [pc EXCEPT ![t] = Head(stack[t])]
      /\ stack' = [stack EXCEPT ![t] = Tail(stack[t])]
  BY DEF Return
<1>4. Head(stack[t]) \in Labels /\ Head(stack[t]) \in Plain
  BY <1>2 DEF Labels, Plain
<1>5. /\ pc' \in [Threads -> Labels] /\ stack' \in [Threads -> Seq(Labels)]
      /\ pc'[t] = Head(stack[t]) /\ stack'[t] = Tail(stack[t])
      /\ \A u \in Threads \ {t} : pc'[u] = pc[u] /\ stack'[u] = stack[u]
  BY <1>1, <1>2, <1>3, <1>4
<1>6. ASSUME NEW u \in Threads PROVE Fit(pc'[u], stack'[u], Inside(u)')
  <2>1. Inside(u)' <=> Inside(u)
    BY DEF Inside
  <2>2. CASE u = t
    BY <1>2, <1>5, <2>1, <2>2, Zenon DEF Fit
  <2>3. CASE u # t
    BY <1>5, <2>1, <2>3 DEF EpochInvariant, StackFits, Fit
  <2> QED  BY <2>2, <2>3
<1> QED  BY <1>4, <1>5, <1>6 DEF StackFits

(* A thread that calls.                                                    *)
LEMMA Calls ==
  ASSUME EpochInvariant, NEW t \in Threads, NEW label \in Labels, NEW s \in Seq(Labels),
         pc' = [pc EXCEPT ![t] = label], stack' = [stack EXCEPT ![t] = s],
         \A u \in Threads : Inside(u)' <=> Inside(u), Fit(label, s, Inside(t))
  PROVE  /\ pc' \in [Threads -> Labels] /\ stack' \in [Threads -> Seq(Labels)] /\ StackFits'
         /\ pc'[t] = label /\ \A u \in Threads \ {t} : pc'[u] = pc[u]
<1>1. /\ pc' \in [Threads -> Labels] /\ stack' \in [Threads -> Seq(Labels)]
      /\ pc'[t] = label /\ stack'[t] = s
      /\ \A u \in Threads \ {t} : pc'[u] = pc[u] /\ stack'[u] = stack[u]
  BY DEF EpochInvariant, TypeOK
<1>2. ASSUME NEW u \in Threads PROVE Fit(pc'[u], stack'[u], Inside(u)')
  <2>1. CASE u = t
    BY <1>1, <2>1, Zenon DEF Fit
  <2>2. CASE u # t
    BY <1>1, <2>2 DEF EpochInvariant, StackFits, Fit
  <2> QED  BY <2>1, <2>2
<1> QED  BY <1>1, <1>2 DEF StackFits

-----------------------------------------------------------------------------
(* The actions that are quiet steps.                                       *)
LEMMA AdvanceKeeps ==
  ASSUME EpochInvariant, NEW t \in Threads, AdvanceCheck(t) \/ AdvanceCas(t) \/ CapacityAdvance(t)
  PROVE  EpochInvariant'
<1>1. /\ TypeOK /\ reg \in [Threads -> Locals] /\ reg[t] \in Locals /\ global \in 0..MaxEpoch
      /\ 0 \in 0..MaxEpoch + 1 /\ global \in 0..MaxEpoch + 1
  BY EpochAssumption DEF EpochInvariant, TypeOK
<1>2. \E label \in {"advancecas", "capacity", "auto"} :
         Goto(t, label) /\ UNCHANGED <<stack, cache>>
  BY DEF AdvanceCheck, AdvanceCas, CapacityAdvance, readerVars
<1>3. /\ pc' \in [Threads -> Labels] /\ StackFits'
      /\ pc'[t] \in Plain /\ \A u \in Threads \ {t} : pc'[u] = pc[u]
  <2>1. pc[t] \in Flushing
    BY DEF AdvanceCheck, AdvanceCas, CapacityAdvance, Flushing
  <2>2. {"advancecas", "capacity", "auto"} \subseteq Flushing \cap Plain \cap Labels
    BY DEF Flushing, Plain, Labels
  <2> QED  BY <1>2, <2>1, <2>2, GoFits
<1>4. global' \in 0..MaxEpoch /\ global <= global'
  BY <1>1, EpochAssumption DEF AdvanceCheck, AdvanceCas, CapacityAdvance
<1>5. reg' = reg \/ \E e \in 0..MaxEpoch + 1 : reg' = [reg EXCEPT ![t].epoch = e]
  BY <1>1 DEF AdvanceCheck, AdvanceCas, CapacityAdvance
<1>6. /\ reg' \in [Threads -> Locals] /\ \A u \in Threads \ {t} : reg'[u] = reg[u]
      /\ reg'[t].taken = reg[t].taken /\ reg'[t].keep = reg[t].keep
  <2>1. CASE reg' = reg
    BY <1>1, <2>1
  <2>2. CASE \E e \in 0..MaxEpoch + 1 : reg' = [reg EXCEPT ![t].epoch = e]
    BY <1>1, <2>2, SetEpoch, Zenon
  <2> QED  BY <1>5, <2>1, <2>2
<1>7. TypeOK'
  BY <1>1, <1>3, <1>4, <1>6, Zenon DEF TypeOK, AdvanceCheck, AdvanceCas, CapacityAdvance, readerVars,
     retireVars, listVars
<1>8. Quiet
  <2>1. UNCHANGED <<readerVars, location, claimed, tag, freed, forced, pending, waitFor, buf>>
    BY DEF AdvanceCheck, AdvanceCas, CapacityAdvance, retireVars, listVars
  <2> QED
    BY <1>3, <1>4, <1>6, <2>1, PlainSafe DEF Quiet, EpochInvariant, Claims
<1> QED  BY <1>3, <1>7, <1>8, QuietKeeps

LEMMA AutoKeeps ==
  ASSUME EpochInvariant, NEW t \in Threads, AutoReclaim(t) \/ AutoEnd(t) \/ TryReclaim(t)
  PROVE  EpochInvariant'
<1>1. /\ UNCHANGED <<readerVars, retireVars, pending, freed, forced, waitFor, reg, global, policy,
                     ledger>>
      /\ reclaiming' \in BOOLEAN
  BY Zenon DEF AutoReclaim, AutoEnd, TryReclaim, listVars, EpochInvariant, TypeOK
<1>2. /\ TypeOK /\ Fit(pc[t], stack[t], Inside(t)) /\ Inside(t) \in BOOLEAN
      /\ pc[t] = "idle" => stack[t] = <<>> /\ ~Inside(t)
  <2>1. TypeOK /\ Fit(pc[t], stack[t], Inside(t)) /\ Inside(t) \in BOOLEAN
    BY DEF EpochInvariant, StackFits, Inside
  <2>2. "idle" \in Labels \ (Flushing \cup Passing)
    BY DEF Labels, Flushing, Passing
  <2> QED  BY <2>1, <2>2, NoCalls
<1>3. /\ pc' \in [Threads -> Labels] /\ stack' \in [Threads -> Seq(Labels)] /\ StackFits'
      /\ pc'[t] \in Plain /\ \A u \in Threads \ {t} : pc'[u] = pc[u]
  <2>1. \A u \in Threads : Inside(u)' <=> Inside(u)
    BY <1>1 DEF readerVars, Inside
  <2>2. "flush" \in Labels \cap Plain /\ "exchange" \in Labels \cap Plain
    BY DEF Labels, Plain
  <2>3. CASE pc[t] \in Flushing \cup Passing /\ Return(t)
    BY <1>1, <2>3, Returns DEF readerVars
  <2>4. CASE pc[t] = "auto" /\ Call(t, "exchange", "autoend")
    <3> DEFINE s == <<"autoend">> \o stack[t]
    <3>1. s \in Seq(Labels) /\ Fit("exchange", s, Inside(t))
      BY <1>2, <2>4, CallFits
    <3>2. pc' = [pc EXCEPT ![t] = "exchange"] /\ stack' = [stack EXCEPT ![t] = s]
      BY <2>4 DEF Call
    <3> HIDE DEF s
    <3> QED  BY <2>1, <2>2, <3>1, <3>2, Calls, Zenon
  <2>5. CASE TryReclaim(t)
    <3> DEFINE s == <<"exchange", "idle">> \o <<>>
    <3>1. s \in Seq(Labels) /\ Fit("flush", s, FALSE)
      BY CallFits, Zenon
    <3>2. /\ pc' = [pc EXCEPT ![t] = "flush"] /\ stack' = [stack EXCEPT ![t] = s]
          /\ ~Inside(t)
      BY <1>2, <2>5, Zenon DEF TryReclaim
    <3> HIDE DEF s
    <3>3. Fit("flush", s, Inside(t))
      BY <3>1, <3>2 DEF Fit
    <3> QED  BY <2>1, <2>2, <3>1, <3>2, <3>3, Calls, Zenon
  <2>6. CASE AutoReclaim(t) \/ AutoEnd(t)
    BY <2>3, <2>4, <2>6 DEF AutoReclaim, AutoEnd, Flushing
  <2> QED  BY <2>5, <2>6
<1>4. TypeOK'
  BY <1>1, <1>2, <1>3, Zenon DEF TypeOK, readerVars, retireVars
<1>5. Quiet
  <2>1. global <= global'
    BY <1>1, <1>2 DEF TypeOK
  <2> QED  BY <1>1, <1>3, <2>1, PlainSafe DEF Quiet, EpochInvariant, Claims, retireVars
<1> QED  BY <1>3, <1>4, <1>5, QuietKeeps

LEMMA ListsClaimed ==
  ASSUME EpochInvariant
  PROVE  /\ TypeOK /\ reg \in [Threads -> Locals] /\ pending \in Seq(claimed)
         /\ \A u \in Threads : buf[u] \in Seq(claimed) /\ reg[u].taken \in Seq(claimed)
                                 /\ reg[u].keep \in Seq(claimed)
BY DEF EpochInvariant, TypeOK, Claims

LEMMA FlushKeeps ==
  ASSUME EpochInvariant, NEW t \in Threads, Flush(t)
  PROVE  EpochInvariant'
<1>1. /\ UNCHANGED <<global, policy, readerVars, location, claimed, tag, reclaiming, freed, forced,
                     reg, waitFor>>
      /\ TypeOK /\ claimed \subseteq Objects /\ global \in Int
      /\ buf \in [Threads -> Seq(Objects)] /\ buf[t] \in Seq(claimed) /\ pending \in Seq(claimed)
      /\ \A u \in Threads : buf[u] \in Seq(claimed) /\ reg[u].taken \in Seq(claimed)
                              /\ reg[u].keep \in Seq(claimed)
  <2>1. UNCHANGED <<global, policy, readerVars, location, claimed, tag, reclaiming, freed, forced,
                    reg, waitFor>>
    BY DEF Flush
  <2>2. claimed \subseteq Objects /\ global \in Int /\ buf \in [Threads -> Seq(Objects)]
    BY DEF EpochInvariant, TypeOK
  <2> QED  BY <2>1, <2>2, ListsClaimed
<1>2. /\ pending' \in Seq(claimed) /\ ledger' \in Int
      /\ \A u \in Threads : buf'[u] \in Seq(claimed)
      /\ buf' \in [Threads -> Seq(Objects)]
  <2>1. CASE buf[t] = <<>>
    BY <1>1, <2>1 DEF Flush, TypeOK
  <2>2. CASE buf[t] # <<>>
    <3>1. Chained(buf[t]) \in Seq(claimed)
      BY <1>1, ChainedSeq
    <3>2. Chained(buf[t]) \o pending \in Seq(claimed)
      BY <1>1, <3>1, ConcatSeq
    <3>3. Len(buf[t]) \in Nat /\ ledger \in Int
      BY <1>1, LenNat DEF TypeOK
    <3>4. buf' = [buf EXCEPT ![t] = <<>>] /\ <<>> \in Seq(claimed) /\ <<>> \in Seq(Objects)
      BY <2>2 DEF Flush
    <3>5. \A u \in Threads : buf'[u] \in Seq(claimed)
      BY <1>1, <3>4
    <3>6. buf' \in [Threads -> Seq(Objects)]
      BY <1>1, <3>4
    <3>7. pending' = Chained(buf[t]) \o pending /\ ledger' = ledger + Len(buf[t])
      BY <2>2 DEF Flush
    <3>8. ledger' \in Int
      BY <3>3, <3>7
    <3>9. pending' \in Seq(claimed)
      BY <3>2, <3>7, Zenon
    <3> QED  BY <3>5, <3>6, <3>8, <3>9
  <2> QED  BY <2>1, <2>2
<1>3. /\ pc' \in [Threads -> Labels] /\ stack' \in [Threads -> Seq(Labels)] /\ StackFits'
      /\ pc'[t] \in Plain /\ \A u \in Threads \ {t} : pc'[u] = pc[u]
  <2>1. pc[t] \in Flushing /\ UNCHANGED cache
    BY <1>1 DEF Flush, Flushing, readerVars
  <2>2. CASE Return(t)
    BY <2>1, <2>2, Returns
  <2>3. CASE Goto(t, "advance") /\ UNCHANGED stack
    <3>1. "advance" \in Labels \cap Plain \cap Flushing
      BY DEF Labels, Plain, Flushing
    <3>2. stack' \in [Threads -> Seq(Labels)]
      BY <1>1, <2>3 DEF TypeOK
    <3> QED  BY <2>1, <2>3, <3>1, <3>2, GoFits
  <2> QED  BY <2>2, <2>3 DEF Flush
<1>4. pending' \in Seq(Objects)
  BY <1>1, <1>2, SeqMonotonic
<1>5. TypeOK'
  BY <1>1, <1>2, <1>3, <1>4, Zenon DEF TypeOK, readerVars
<1>6. Quiet
  <2>1. global <= global'
    BY <1>1
  <2>2. pc'[t] # "retire" /\ Safe(t)'
    BY <1>3, PlainSafe, Zenon
  <2> QED  BY <1>1, <1>2, <1>3, <2>1, <2>2, ZenonT(60) DEF Quiet
<1> QED  BY <1>3, <1>5, <1>6, QuietKeeps

LEMMA PutBackKeeps ==
  ASSUME EpochInvariant, NEW t \in Threads, PutBack(t)
  PROVE  EpochInvariant'
<1>1. /\ UNCHANGED <<global, policy, readerVars, retireVars, reclaiming, freed, forced, waitFor>>
      /\ TypeOK /\ claimed \subseteq Objects /\ global \in Int /\ pending \in Seq(claimed)
      /\ reg \in [Threads -> Locals] /\ reg[t] \in Locals
      /\ \A u \in Threads : buf[u] \in Seq(claimed) /\ reg[u].taken \in Seq(claimed)
                              /\ reg[u].keep \in Seq(claimed)
  <2>1. UNCHANGED <<global, policy, readerVars, retireVars, reclaiming, freed, forced, waitFor>>
    BY DEF PutBack
  <2>2. claimed \subseteq Objects /\ global \in Int /\ reg[t] \in Locals
    BY DEF EpochInvariant, TypeOK
  <2> QED  BY <2>1, <2>2, ListsClaimed
<1>2. pending' \in Seq(claimed) /\ pending' \in Seq(Objects)
  <2>1. reg[t].keep \o pending \in Seq(claimed)
    BY <1>1, ConcatSeq
  <2>2. pending' = reg[t].keep \o pending
    BY DEF PutBack
  <2>3. Seq(claimed) \subseteq Seq(Objects)
    BY <1>1, SeqMonotonic
  <2> QED  BY <2>1, <2>2, <2>3, Zenon
<1>3. ledger' \in Int
  <2>1. Len(reg[t].keep) \in Int /\ Len(reg[t].taken) \in Int /\ ledger \in Int
    BY <1>1, LenNat DEF TypeOK
  <2> QED  BY <2>1 DEF PutBack
<1>4. reg' \in [Threads -> Locals] /\ reg'[t] = NoRegs /\ \A u \in Threads \ {t} : reg'[u] = reg[u]
  BY <1>1, NoLocals DEF PutBack
<1>5. \A u \in Threads : reg'[u].taken \in Seq(claimed) /\ reg'[u].keep \in Seq(claimed)
  <2>1. <<>> \in Seq(claimed)
    OBVIOUS
  <2> QED  BY <1>1, <1>4, <2>1, NoLocals, Zenon
<1>6. /\ pc' \in [Threads -> Labels] /\ stack' \in [Threads -> Seq(Labels)] /\ StackFits'
      /\ pc'[t] \in Plain /\ \A u \in Threads \ {t} : pc'[u] = pc[u]
  <2>1. pc[t] \in Passing /\ UNCHANGED cache /\ Return(t)
    BY <1>1 DEF PutBack, Passing, readerVars
  <2> QED  BY <2>1, Returns
<1>7. TypeOK'
  BY <1>1, <1>2, <1>3, <1>4, <1>6, Zenon DEF TypeOK, readerVars, retireVars
<1>8. Quiet
  BY <1>1, <1>2, <1>4, <1>5, <1>6, PlainSafe DEF Quiet, retireVars
<1> QED  BY <1>6, <1>7, <1>8, QuietKeeps

LEMMA FreeEndKeeps ==
  ASSUME EpochInvariant, NEW t \in Threads, FreeEnd(t)
  PROVE  EpochInvariant'
<1>1. /\ UNCHANGED <<global, policy, readerVars, retireVars, listVars, stack, waitFor>>
      /\ TypeOK /\ claimed \subseteq Objects /\ global \in Int /\ pending \in Seq(claimed)
      /\ reg \in [Threads -> Locals] /\ reg[t] \in Locals
      /\ \A u \in Threads : buf[u] \in Seq(claimed) /\ reg[u].taken \in Seq(claimed)
                              /\ reg[u].keep \in Seq(claimed)
  <2>1. UNCHANGED <<global, policy, readerVars, retireVars, listVars, stack, waitFor>>
    BY DEF FreeEnd
  <2>2. claimed \subseteq Objects /\ global \in Int /\ reg[t] \in Locals
    BY DEF EpochInvariant, TypeOK
  <2> QED  BY <2>1, <2>2, ListsClaimed
<1> DEFINE rest == SubSeq(reg[t].taken, reg[t].pos, Len(reg[t].taken))
           kept == reg[t].keep \o rest
<1>2. kept \in Seq(claimed) /\ kept \in Seq(Objects)
  <2>1. reg[t].pos \in Nat \ {0} /\ Len(reg[t].taken) \in Nat
    BY <1>1, LocalsFields, LenNat
  <2>2. rest \in Seq(claimed)
    BY <1>1, <2>1, SubSeqSeq
  <2>3. kept \in Seq(claimed)
    BY <1>1, <2>2, ConcatSeq
  <2> QED  BY <1>1, <2>3, SeqMonotonic
<1>3. reg' = [reg EXCEPT ![t].keep = kept]
  BY DEF FreeEnd
<1> HIDE DEF kept
<1>4. /\ reg' \in [Threads -> Locals] /\ \A u \in Threads \ {t} : reg'[u] = reg[u]
      /\ reg'[t].keep = kept /\ reg'[t].taken = reg[t].taken
  <2>1. reg'[t] = [reg[t] EXCEPT !.keep = kept] /\ \A u \in Threads \ {t} : reg'[u] = reg[u]
    BY <1>1, <1>3
  <2>2. reg'[t] \in Locals /\ reg'[t].keep = kept /\ reg'[t].taken = reg[t].taken
    BY <1>1, <1>2, <2>1, Zenon DEF Locals
  <2> QED  BY <1>1, <1>3, <2>1, <2>2
<1>5. /\ pc' \in [Threads -> Labels] /\ StackFits'
      /\ pc'[t] \in Plain /\ \A u \in Threads \ {t} : pc'[u] = pc[u]
  <2>1. "putback" \in Labels \cap Plain \cap Passing /\ pc[t] \in Passing
    BY DEF Labels, Plain, Passing, FreeEnd
  <2>2. Goto(t, "putback") /\ UNCHANGED <<stack, cache>>
    BY <1>1 DEF FreeEnd, readerVars
  <2> QED  BY <2>1, <2>2, GoFits
<1>6. TypeOK'
  BY <1>1, <1>4, <1>5, Zenon DEF TypeOK, readerVars, retireVars, listVars
<1>7. Quiet
  BY <1>1, <1>2, <1>4, <1>5, PlainSafe DEF Quiet, retireVars, listVars
<1> QED  BY <1>5, <1>6, <1>7, QuietKeeps

LEMMA SyncEndKeeps ==
  ASSUME EpochInvariant, NEW t \in Threads, SyncTimeout(t) \/ SyncDone(t)
  PROVE  EpochInvariant'
<1>1. /\ UNCHANGED <<global, policy, readerVars, retireVars, listVars, stack>>
      /\ TypeOK /\ global \in Int /\ pending \in Seq(claimed)
      /\ reg \in [Threads -> Locals] /\ waitFor \in [Threads -> SUBSET Threads]
      /\ waitFor' = [waitFor EXCEPT ![t] = {}]
      /\ \A u \in Threads : buf[u] \in Seq(claimed) /\ reg[u].taken \in Seq(claimed)
                              /\ reg[u].keep \in Seq(claimed)
  BY DEF SyncTimeout, SyncDone, EpochInvariant, TypeOK, Claims
<1>2. reg' \in [Threads -> Locals] /\ reg'[t] = NoRegs /\ \A u \in Threads \ {t} : reg'[u] = reg[u]
  BY <1>1, NoLocals DEF SyncTimeout, SyncDone
<1>3. \A u \in Threads : reg'[u].taken \in Seq(claimed) /\ reg'[u].keep \in Seq(claimed)
  <2>1. <<>> \in Seq(claimed)
    OBVIOUS
  <2> QED  BY <1>1, <1>2, <2>1, NoLocals, Zenon
<1>4. /\ pc' \in [Threads -> Labels] /\ StackFits'
      /\ pc'[t] \in Plain /\ \A u \in Threads \ {t} : pc'[u] = pc[u]
  <2>1. /\ "idle" \in Labels \cap Plain
        /\ {pc[t], "idle"} \cap (Flushing \cup Passing \cup {"inside"}) = {}
    BY DEF Labels, Plain, Passing, Flushing, SyncTimeout, SyncDone
  <2>2. Goto(t, "idle") /\ UNCHANGED <<stack, cache>>
    BY <1>1 DEF SyncTimeout, SyncDone, readerVars
  <2> QED  BY <2>1, <2>2, GoFits
<1>5. waitFor' \in [Threads -> SUBSET Threads] /\ \A u \in Threads : waitFor'[u] \subseteq waitFor[u]
  BY <1>1, Zenon
<1>6. TypeOK'
  BY <1>1, <1>2, <1>4, <1>5 DEF TypeOK, readerVars, retireVars, listVars
<1>7. Quiet
  <2>1. /\ UNCHANGED <<readerVars, location, claimed, tag, freed, forced, pending, buf>>
        /\ global <= global'
    BY <1>1 DEF retireVars, listVars
  <2>2. pc'[t] # "retire" /\ Safe(t)'
    BY <1>4, PlainSafe
  <2> QED  BY <1>1, <1>2, <1>3, <1>4, <1>5, <2>1, <2>2, Zenon DEF Quiet
<1> QED  BY <1>4, <1>6, <1>7, QuietKeeps, Zenon

LEMMA TimeKeeps ==
  ASSUME EpochInvariant, TimeAdvance
  PROVE  EpochInvariant'
<1>1. TypeOK'
  BY EpochAssumption DEF EpochInvariant, TypeOK, TimeAdvance, readerVars, retireVars, listVars
<1>2. StackFits'
  BY Zenon DEF EpochInvariant, StackFits, TimeAdvance, readerVars, Inside, Fit
<1>3. Quiet
  BY DEF EpochInvariant, TypeOK, Claims, Quiet, TimeAdvance, readerVars, retireVars, listVars
<1> QED  BY <1>1, <1>2, <1>3, QuietKeeps

LEMMA EnterKeeps ==
  ASSUME EpochInvariant, NEW t \in Threads, EnterCached(t) \/ EnterLoad(t)
  PROVE  EpochInvariant'
<1>1. /\ UNCHANGED <<global, policy, readerVars, retireVars, listVars, stack, waitFor>>
      /\ TypeOK /\ global \in 0..MaxEpoch /\ global \in 0..MaxEpoch + 1 /\ pending \in Seq(claimed)
      /\ reg \in [Threads -> Locals] /\ Slot(t) # npos
      /\ \A u \in Threads : buf[u] \in Seq(claimed) /\ reg[u].taken \in Seq(claimed)
                              /\ reg[u].keep \in Seq(claimed)
  <2>1. /\ UNCHANGED <<global, policy, readerVars, retireVars, listVars, stack, waitFor>>
        /\ pc[t] \in {"enter", "stamp"} \/ Slot(t) # npos
    BY Zenon DEF EnterCached, EnterLoad, Slot
  <2>2. pc[t] \in {"enter", "stamp"} => Slot(t) # npos
    BY DEF EpochInvariant, Safe, EnterSafe, Slot
  <2>3. global \in 0..MaxEpoch /\ global \in 0..MaxEpoch + 1
    BY EpochAssumption DEF EpochInvariant, TypeOK
  <2> QED  BY <2>1, <2>2, <2>3, ListsClaimed
<1>2. /\ reg' \in [Threads -> Locals] /\ \A u \in Threads \ {t} : reg'[u] = reg[u]
      /\ reg'[t].taken = reg[t].taken /\ reg'[t].keep = reg[t].keep
      /\ EnterLoad(t) => reg'[t].epoch = global
  <2>1. CASE EnterCached(t)
    BY <1>1, <2>1 DEF EnterCached, EnterLoad
  <2>2. CASE EnterLoad(t)
    <3>1. reg' = [reg EXCEPT ![t].epoch = global]
      BY <2>2 DEF EnterLoad
    <3> QED  BY <1>1, <3>1, SetEpoch, Zenon
  <2> QED  BY <2>1, <2>2
<1>3. \E label \in {"enter", "stamp"} :
         /\ Goto(t, label) /\ UNCHANGED <<stack, cache>>
         /\ label = "stamp" => EnterLoad(t)
  BY <1>1, Zenon DEF EnterCached, EnterLoad, readerVars
<1>4. /\ pc' \in [Threads -> Labels] /\ StackFits' /\ pc'[t] \in {"enter", "stamp"}
      /\ pc'[t] = "stamp" => EnterLoad(t)
      /\ \A u \in Threads \ {t} : pc'[u] = pc[u]
  <2>1. {"enter", "stamp"} \subseteq Labels \ (Flushing \cup Passing \cup {"inside"})
    BY DEF Labels, Flushing, Passing
  <2>2. pc[t] \notin Flushing \cup Passing \cup {"inside"}
    BY Zenon DEF EnterCached, EnterLoad, Flushing, Passing
  <2> QED  BY <1>3, <2>1, <2>2, GoFits
<1>5. TypeOK'
  BY <1>1, <1>2, <1>4 DEF TypeOK, readerVars, retireVars, listVars
<1>6. Safe(t)'
  <2>1. Slot(t)' = Slot(t) /\ global' = global
    BY <1>1, Zenon DEF Slot, readerVars
  <2>2. pc'[t] \notin {"scan", "free", "sync", "synced"} /\ EnterSafe(t)'
    BY <1>1, <1>2, <1>4, <2>1 DEF EnterSafe
  <2>3. ScanSafe(t)' /\ SyncSafe(t)'
    BY <2>2, Zenon DEF ScanSafe, SyncSafe
  <2> QED  BY <2>2, <2>3 DEF Safe
<1>7. Quiet
  <2>1. /\ UNCHANGED <<readerVars, location, claimed, tag, freed, forced, pending, buf, waitFor>>
        /\ global <= global'
    BY <1>1 DEF retireVars, listVars
  <2>2. pc'[t] # "retire"
    BY <1>4
  <2> QED  BY <1>1, <1>2, <1>4, <1>6, <2>1, <2>2, Zenon DEF Quiet
<1> QED  BY <1>4, <1>5, <1>7, QuietKeeps, Zenon

LEMMA SyncKeeps ==
  ASSUME EpochInvariant, NEW t \in Threads, SyncCall(t) \/ SyncSlot(t) \/ SyncReturn(t)
  PROVE  EpochInvariant'
<1>1. /\ UNCHANGED <<global, policy, readerVars, retireVars, listVars, stack>>
      /\ TypeOK /\ global \in 0..MaxEpoch /\ global + 1 \in 0..MaxEpoch + 1
      /\ pending \in Seq(claimed) /\ reg \in [Threads -> Locals] /\ reg[t] \in Locals
      /\ waitFor \in [Threads -> SUBSET Threads]
      /\ \A u \in Threads : buf[u] \in Seq(claimed) /\ reg[u].taken \in Seq(claimed)
                              /\ reg[u].keep \in Seq(claimed)
  <2>1. UNCHANGED <<global, policy, readerVars, retireVars, listVars, stack>>
    BY Zenon DEF SyncCall, SyncSlot, SyncReturn
  <2>2. /\ TypeOK /\ global \in 0..MaxEpoch
        /\ pending \in Seq(claimed) /\ reg \in [Threads -> Locals] /\ reg[t] \in Locals
        /\ waitFor \in [Threads -> SUBSET Threads]
        /\ \A u \in Threads : buf[u] \in Seq(claimed) /\ reg[u].taken \in Seq(claimed)
                                /\ reg[u].keep \in Seq(claimed)
    BY DEF EpochInvariant, TypeOK, Claims
  <2>3. global + 1 \in 0..MaxEpoch + 1
    BY <2>2, EpochAssumption
  <2> QED  BY <2>1, <2>2, <2>3
<1>2. \A u \in Threads : Slot(u)' = Slot(u) /\ local' = local /\ (Inside(u)' <=> Inside(u))
  BY <1>1 DEF Slot, Inside, readerVars
<1>3. ASSUME NEW u \in Threads, Inside(u)
      PROVE  /\ Slot(u) \in Nat \ {0} /\ Slot(u) <= SlotCount
             /\ local[Slot(u)] \in Nat /\ local[Slot(u)] <= global /\ Stamped(Slot(u))
  <2>1. Slot(u) \in Slots /\ local[Slot(u)] \in 0..global /\ Slot(u) \in used
    BY <1>3, StampTypes, Zenon
  <2> QED  BY <1>1, <2>1, EpochAssumption DEF Slots, Stamped, InactiveEpoch
<1>4. /\ waitFor' \in [Threads -> SUBSET Threads]
      /\ \A u \in Threads \ {t} : waitFor'[u] = waitFor[u]
  <2>1. CASE SyncCall(t)
    BY <1>1, <2>1 DEF SyncCall
  <2>2. CASE SyncSlot(t) \/ SyncReturn(t)
    BY <1>1, <2>2, Zenon DEF SyncSlot, SyncReturn
  <2> QED  BY <2>1, <2>2
<1>5. /\ reg' \in [Threads -> Locals] /\ \A u \in Threads \ {t} : reg'[u] = reg[u]
      /\ reg'[t].taken = reg[t].taken /\ reg'[t].keep = reg[t].keep
      /\ SyncCall(t) => reg'[t].epoch = global + 1 /\ reg'[t].pos = 1
      /\ SyncSlot(t) =>
            /\ reg'[t].epoch = reg[t].epoch
            /\ reg'[t].pos = IF Stamped(reg[t].pos) /\ local[reg[t].pos] < reg[t].epoch THEN 1
                             ELSE reg[t].pos + 1
      /\ SyncReturn(t) => reg'[t] = reg[t]
  <2>1. CASE SyncCall(t)
    <3>1. /\ reg'[t] = [reg[t] EXCEPT !.epoch = global + 1, !.pos = 1]
          /\ \A u \in Threads \ {t} : reg'[u] = reg[u]
      BY <1>1, <2>1 DEF SyncCall
    <3>2. /\ reg'[t] \in Locals /\ reg'[t].epoch = global + 1 /\ reg'[t].pos = 1
          /\ reg'[t].taken = reg[t].taken /\ reg'[t].keep = reg[t].keep
      <4>1. 1 \in Nat \ {0} /\ global + 1 \in 0..MaxEpoch + 1 /\ reg[t] \in Locals
        BY <1>1
      <4> QED  BY <4>1, <3>1, Zenon DEF Locals
    <3>3. reg' \in [Threads -> Locals]
      BY <1>1, <2>1, <3>1, <3>2 DEF SyncCall
    <3>4. pc[t] = "idle" /\ ~SyncSlot(t) /\ ~SyncReturn(t)
      BY <2>1, Zenon DEF SyncCall, SyncSlot, SyncReturn
    <3> QED  BY <3>1, <3>2, <3>3, <3>4
  <2>2. CASE SyncSlot(t)
    <3> DEFINE n == IF Stamped(reg[t].pos) /\ local[reg[t].pos] < reg[t].epoch THEN 1
                    ELSE reg[t].pos + 1
    <3>1. reg' = [reg EXCEPT ![t].pos = n]
      BY <2>2 DEF SyncSlot
    <3>2. n \in Nat \ {0}
      BY <1>1, LocalsFields
    <3> HIDE DEF n
    <3>3. /\ reg' \in [Threads -> Locals] /\ \A u \in Threads \ {t} : reg'[u] = reg[u]
          /\ reg'[t].taken = reg[t].taken /\ reg'[t].keep = reg[t].keep
          /\ reg'[t].epoch = reg[t].epoch /\ reg'[t].pos = n
      BY <1>1, <3>1, <3>2, SetPos, Zenon
    <3>4. ~SyncCall(t) /\ ~SyncReturn(t)
      BY <2>2 DEF SyncCall, SyncSlot, SyncReturn
    <3> QED  BY <3>3, <3>4 DEF n
  <2>3. CASE SyncReturn(t)
    <3>1. ~SyncCall(t) /\ ~SyncSlot(t) /\ reg' = reg
      BY <2>3 DEF SyncCall, SyncSlot, SyncReturn
    <3> QED  BY <1>1, <3>1
  <2> QED  BY <2>1, <2>2, <2>3, Zenon
<1>6. /\ pc' \in [Threads -> Labels] /\ StackFits'
      /\ pc'[t] = IF SyncReturn(t) THEN "synced" ELSE "sync"
      /\ \A u \in Threads \ {t} : pc'[u] = pc[u]
  <2>1. {"sync", "synced"} \subseteq Labels \ (Flushing \cup Passing \cup {"inside"})
    BY DEF Labels, Flushing, Passing
  <2>2. pc[t] \notin Flushing \cup Passing \cup {"inside"} /\ UNCHANGED <<stack, cache>>
    BY <1>1 DEF SyncCall, SyncSlot, SyncReturn, Flushing, Passing, readerVars
  <2>3. CASE SyncSlot(t)
    <3>1. pc' = pc /\ pc[t] = "sync" /\ ~SyncReturn(t)
      BY <2>3, Zenon DEF SyncSlot, SyncReturn
    <3> QED
      BY <1>1, <1>2, <3>1, Zenon DEF EpochInvariant, StackFits, TypeOK, Fit
  <2>4. CASE SyncCall(t)
    <3>1. Goto(t, "sync") /\ ~SyncReturn(t)
      BY <2>4, Zenon DEF SyncCall, SyncReturn
    <3> QED  BY <2>1, <2>2, <3>1, GoFits
  <2>5. CASE SyncReturn(t)
    BY <2>1, <2>2, <2>5, GoFits, Zenon DEF SyncReturn
  <2> QED  BY <2>3, <2>4, <2>5
<1>7. TypeOK'
  BY <1>1, <1>4, <1>5, <1>6 DEF TypeOK, readerVars, retireVars, listVars
<1>8. SyncSafe(t)'
  <2>1. CASE SyncCall(t)
    <3>1. waitFor'[t] = {u \in Threads : Inside(u)} /\ pc'[t] = "sync"
      BY <1>1, <1>6, <2>1 DEF SyncCall, SyncReturn
    <3>2. ASSUME NEW u \in waitFor'[t]
          PROVE  Inside(u)' /\ local'[Slot(u)'] < reg'[t].epoch /\ Slot(u)' >= reg'[t].pos
      <4>1. u \in Threads /\ Inside(u) /\ Inside(u)' /\ Slot(u)' = Slot(u) /\ local' = local
        BY <1>2, <3>1, <3>2, Zenon
      <4>2. Slot(u) \in Nat \ {0} /\ local[Slot(u)] \in Nat /\ local[Slot(u)] <= global
        BY <1>3, <4>1, ZenonT(60)
      <4>3. reg'[t].epoch = global + 1 /\ reg'[t].pos = 1 /\ global \in Int
        <5>1. reg'[t].epoch = global + 1 /\ reg'[t].pos = 1
          BY <1>5, <2>1, Zenon
        <5>2. global \in 0..MaxEpoch
          BY Zenon DEF EpochInvariant, TypeOK
        <5> QED  BY <5>1, <5>2
      <4>4. local[Slot(u)] < reg'[t].epoch /\ Slot(u) >= reg'[t].pos
        BY <4>2, <4>3
      <4> QED  BY <4>1, <4>4, Zenon
    <3> QED  BY <3>1, <3>2, Zenon DEF SyncSafe
  <2>2. CASE SyncSlot(t)
    <3>1. waitFor'[t] = waitFor[t] /\ pc'[t] = "sync" /\ pc[t] = "sync"
      BY <1>6, <2>2 DEF SyncSlot, SyncReturn
    <3>2. ASSUME NEW u \in waitFor[t]
          PROVE  Inside(u)' /\ local'[Slot(u)'] < reg'[t].epoch /\ Slot(u)' >= reg'[t].pos
      <4>1. u \in Threads /\ reg[t].pos \in Nat /\ reg[t].epoch \in Int
        BY <1>1, LocalsFields
      <4>2. Inside(u) /\ local[Slot(u)] < reg[t].epoch /\ Slot(u) >= reg[t].pos
        BY <3>1, <3>2, Zenon DEF EpochInvariant, Safe, SyncSafe
      <4>3. Inside(u)' /\ Slot(u)' = Slot(u) /\ local' = local
        BY <1>2, <4>1, <4>2, Zenon
      <4>4. Slot(u) \in Nat \ {0} /\ Stamped(Slot(u))
        BY <1>3, <4>1, <4>2, Zenon
      <4>5. reg'[t].epoch = reg[t].epoch /\ (reg'[t].pos = 1 \/ reg'[t].pos = reg[t].pos + 1)
            /\ (Stamped(reg[t].pos) /\ local[reg[t].pos] < reg[t].epoch => reg'[t].pos = 1)
        BY <1>5, <2>2, Zenon
      <4>6. Slot(u) = reg[t].pos => reg'[t].pos = 1
        BY <4>2, <4>4, <4>5, Zenon
      <4>7. Slot(u) >= reg'[t].pos
        BY <4>1, <4>2, <4>4, <4>5, <4>6, NextSlot, Zenon
      <4> QED  BY <4>2, <4>3, <4>5, <4>7, Zenon
    <3> QED  BY <3>1, <3>2, Zenon DEF SyncSafe
  <2>3. CASE SyncReturn(t)
    <3>1. /\ waitFor'[t] = waitFor[t] /\ pc[t] = "sync" /\ reg[t].pos \notin Slots
          /\ reg[t].pos \in Nat \ {0}
      BY <1>1, <2>3, LocalsFields, Zenon DEF SyncReturn
    <3>2. ASSUME NEW u \in waitFor[t] PROVE FALSE
      <4>1. u \in Threads /\ Inside(u) /\ Slot(u) >= reg[t].pos
        BY <1>1, <3>1, Zenon DEF EpochInvariant, Safe, SyncSafe
      <4>2. Slot(u) \in Nat \ {0} /\ Slot(u) <= SlotCount
        BY <1>3, <4>1, Zenon
      <4> QED  BY <3>1, <4>1, <4>2, SlotWithin, EpochAssumption, ZenonT(60) DEF Slots
    <3> QED  BY <3>1, <3>2 DEF SyncSafe
  <2> QED  BY <2>1, <2>2, <2>3
<1>9. Safe(t)' /\ pc'[t] # "retire"
  BY <1>6, <1>8 DEF Safe, EnterSafe, ScanSafe
<1>10. Quiet
  <2>1. /\ UNCHANGED <<readerVars, location, claimed, tag, freed, forced, pending, buf>>
        /\ global <= global'
    BY <1>1 DEF retireVars, listVars
  <2> QED  BY <1>1, <1>4, <1>5, <1>6, <1>9, <2>1, Zenon DEF Quiet
<1> QED  BY <1>6, <1>7, <1>10, QuietKeeps

(* Who holds a reference has a slot with a stamp.                          *)
LEMMA HolderStamped ==
  ASSUME EpochInvariant, NEW u \in Threads, NEW o \in ref[u]
  PROVE  /\ Inside(u) /\ Slot(u) \in Nat \ {0} /\ Slot(u) <= SlotCount /\ Stamped(Slot(u))
         /\ local[Slot(u)] \in 0..global /\ local[Slot(u)] \in Nat
         /\ local[Slot(u)] # InactiveEpoch
<1>1. Inside(u)
  BY Zenon DEF EpochInvariant, Tags
<1>2. Slot(u) \in Slots /\ local[Slot(u)] \in 0..global /\ Slot(u) \in used
  BY <1>1, StampTypes, Zenon
<1>3. global \in 0..MaxEpoch
  BY DEF EpochInvariant, TypeOK
<1>4. local[Slot(u)] # InactiveEpoch
  BY <1>2, <1>3, EpochAssumption DEF InactiveEpoch
<1>5. Slot(u) \in Nat \ {0} /\ Slot(u) <= SlotCount
  BY <1>2, EpochAssumption DEF Slots
<1>6. local[Slot(u)] \in Nat
  BY <1>2, <1>3, EpochAssumption
<1> QED  BY <1>1, <1>2, <1>4, <1>5, <1>6, Zenon DEF Stamped

LEMMA ExchangeKeeps ==
  ASSUME EpochInvariant, NEW t \in Threads, Exchange(t)
  PROVE  EpochInvariant'
<1>1. /\ UNCHANGED <<global, policy, readerVars, retireVars, ledger, reclaiming, freed, forced, waitFor>>
      /\ UNCHANGED <<local, cache, ref>>
      /\ pending' = <<>> /\ pc[t] = "exchange" /\ pc[t] \in Passing
  BY Zenon DEF Exchange, Passing, readerVars
<1>2. /\ TypeOK /\ reg \in [Threads -> Locals] /\ reg[t] \in Locals /\ pending \in Seq(claimed)
      /\ \A u \in Threads : buf[u] \in Seq(claimed) /\ reg[u].taken \in Seq(claimed)
                              /\ reg[u].keep \in Seq(claimed)
  BY ListsClaimed
<1>3. CASE pending = <<>>
  <2>1. Return(t) /\ reg' = reg
    BY <1>3 DEF Exchange
  <2>2. /\ pc' \in [Threads -> Labels] /\ stack' \in [Threads -> Seq(Labels)] /\ StackFits'
        /\ pc'[t] \in Plain /\ \A u \in Threads \ {t} : pc'[u] = pc[u]
    BY <1>1, <2>1, Returns, Zenon DEF readerVars
  <2>3. TypeOK'
    BY <1>1, <1>2, <2>1, <2>2 DEF TypeOK, readerVars, retireVars
  <2>4. pc'[t] # "retire" /\ Safe(t)'
    BY <2>2, PlainSafe, Zenon
  <2>5. Quiet
    BY <1>1, <1>2, <2>1, <2>2, <2>4 DEF Quiet, retireVars, TypeOK
  <2> QED  BY <2>2, <2>3, <2>5, QuietKeeps
<1>4. CASE pending # <<>>
  <2>1. PICK batch \in {0, 1} :
           reg' = [reg EXCEPT ![t].batch = batch, ![t].pos = 1, ![t].min = InactiveEpoch,
                              ![t].taken = IF batch > 0 THEN Chained(pending) ELSE pending]
    BY <1>4, Zenon DEF Exchange
  <2> DEFINE chain == IF batch > 0 THEN Chained(pending) ELSE pending
  <2>2. chain \in Seq(claimed) /\ chain \in Seq(Objects)
    BY <1>2, ChainedSeq DEF TypeOK
  <2>3. reg' = [reg EXCEPT ![t].batch = batch, ![t].pos = 1, ![t].min = InactiveEpoch,
                           ![t].taken = chain]
    BY <2>1
  <2> HIDE DEF chain
  <2>4. /\ reg'[t] = [reg[t] EXCEPT !.batch = batch, !.pos = 1, !.min = InactiveEpoch, !.taken = chain]
        /\ \A u \in Threads \ {t} : reg'[u] = reg[u]
    BY <1>2, <2>3
  <2>5. /\ reg'[t] \in Locals /\ reg'[t].taken = chain /\ reg'[t].keep = reg[t].keep
        /\ reg'[t].pos = 1
    <3>1. 1 \in Nat \ {0} /\ InactiveEpoch \in 0..InactiveEpoch
      BY EpochAssumption DEF InactiveEpoch
    <3> QED  BY <1>2, <2>2, <2>4, <3>1, Zenon DEF Locals
  <2>6. reg' \in [Threads -> Locals]
    BY <1>2, <2>3, <2>4, <2>5
  <2>7. Goto(t, "scan") /\ stack' = stack
    BY <1>4, Zenon DEF Exchange
  <2>8. "scan" \in Labels /\ "scan" \in Passing
    BY DEF Labels, Passing
  <2>9. /\ pc' \in [Threads -> Labels] /\ StackFits'
        /\ pc'[t] = "scan" /\ \A u \in Threads \ {t} : pc'[u] = pc[u]
    BY <1>1, <2>7, <2>8, GoFits, Zenon
  <2>10. TypeOK'
    BY <1>1, <1>2, <2>6, <2>7, <2>9 DEF TypeOK, readerVars, retireVars
  <2>11. ScanSafe(t)'
    <3>1. ASSUME NEW u \in Threads, NEW o \in ref[u]
          PROVE  Slot(u)' >= reg'[t].pos
      <4>1. Slot(u) \in Nat \ {0} /\ Slot(u)' = Slot(u)
        BY <1>1, <3>1, HolderStamped, Zenon DEF Slot
      <4> QED  BY <2>5, <4>1
    <3> QED  BY <1>1, <2>9, <3>1, ZenonT(60) DEF ScanSafe
  <2>12. Safe(t)' /\ pc'[t] # "retire"
    BY <2>9, <2>11 DEF Safe, EnterSafe, SyncSafe
  <2>13. Quiet
    <3>1. /\ UNCHANGED <<readerVars, location, claimed, tag, freed>> /\ buf' = buf
          /\ (forced => forced') /\ pending' \in Seq(claimed) /\ waitFor' = waitFor
      BY <1>1 DEF retireVars
    <3>2. global <= global'
      BY <1>1, <1>2 DEF TypeOK
    <3>3. \A u \in Threads : buf'[u] \in Seq(claimed) /\ reg'[u].taken \in Seq(claimed)
                              /\ reg'[u].keep \in Seq(claimed)
      BY <1>2, <2>2, <2>4, <2>5, <3>1, Zenon
    <3> QED  BY <2>4, <2>9, <2>12, <3>1, <3>2, <3>3 DEF Quiet
  <2> QED  BY <2>9, <2>10, <2>13, QuietKeeps
<1> QED  BY <1>3, <1>4

LEMMA ScanEndKeeps ==
  ASSUME EpochInvariant, NEW t \in Threads, ScanEnd(t)
  PROVE  EpochInvariant'
<1>1. /\ UNCHANGED <<global, policy, readerVars, retireVars, listVars, stack, waitFor>>
      /\ UNCHANGED <<local, cache, ref, freed, forced>> /\ stack' = stack
      /\ pc[t] = "scan" /\ pc[t] \in Passing /\ reg[t].pos \notin Slots
  BY DEF ScanEnd, Passing, readerVars, listVars
<1>2. /\ TypeOK /\ reg \in [Threads -> Locals] /\ reg[t] \in Locals /\ pending \in Seq(claimed)
      /\ \A u \in Threads : buf[u] \in Seq(claimed) /\ reg[u].taken \in Seq(claimed)
                              /\ reg[u].keep \in Seq(claimed)
      /\ global \in 0..MaxEpoch
  BY ListsClaimed DEF TypeOK
<1> DEFINE m == IF reg[t].min = InactiveEpoch THEN global + 1 ELSE reg[t].min
<1>3. reg[t].min \in 0..InactiveEpoch /\ reg[t].pos \in Nat \ {0}
  BY <1>2, LocalsFields
<1>4. m \in 0..InactiveEpoch /\ 1 \in Nat \ {0}
  BY <1>2, <1>3, EpochAssumption DEF InactiveEpoch
<1>5. /\ reg'[t] = [reg[t] EXCEPT !.min = m, !.pos = 1]
      /\ \A u \in Threads \ {t} : reg'[u] = reg[u]
      /\ DOMAIN reg' = Threads
  BY <1>2 DEF ScanEnd
<1> HIDE DEF m
<1>6. /\ reg'[t] \in Locals /\ reg'[t].min = m
      /\ reg'[t].taken = reg[t].taken /\ reg'[t].keep = reg[t].keep
  BY <1>2, <1>4, <1>5, Zenon DEF Locals
<1>7. reg' \in [Threads -> Locals]
  <2>1. reg' = [u \in Threads |-> reg'[u]]
    BY <1>2, Zenon DEF ScanEnd
  <2> QED  BY <1>2, <1>5, <1>6, <2>1
<1>8. /\ pc' \in [Threads -> Labels] /\ StackFits'
      /\ pc'[t] = "free" /\ \A u \in Threads \ {t} : pc'[u] = pc[u]
  <2>1. "free" \in Labels /\ "free" \in Passing /\ Goto(t, "free")
    BY Zenon DEF Labels, Passing, ScanEnd
  <2> QED  BY <1>1, <2>1, GoFits
<1>9. TypeOK'
  BY <1>1, <1>2, <1>7, <1>8 DEF TypeOK, readerVars, retireVars, listVars
<1>10. ScanSafe(t)'
  <2>1. ASSUME NEW u \in Threads, NEW i \in 1..Len(reg[t].taken), ~forced,
               reg[t].taken[i] \in ref[u] \ freed
        PROVE  m <= local[Slot(u)]
    <3>1. /\ Slot(u) \in Nat \ {0} /\ Slot(u) <= SlotCount
          /\ local[Slot(u)] \in 0..global
      BY <2>1, HolderStamped, Zenon
    <3>2. Slot(u) >= reg[t].pos \/ reg[t].min <= local[Slot(u)]
      BY <1>1, <2>1, Zenon DEF EpochInvariant, Safe, ScanSafe
    <3>3. reg[t].min <= local[Slot(u)]
      BY <1>1, <1>3, <3>1, <3>2, SlotWithin, EpochAssumption, Zenon DEF Slots
    <3> QED  BY <1>2, <1>3, <3>1, <3>3, LowestStamp, ZenonT(60) DEF m
  <2>2. \A u \in Threads : Slot(u)' = Slot(u)
    BY <1>1 DEF Slot
  <2> QED  BY <1>1, <1>6, <1>8, <2>1, <2>2, Zenon DEF ScanSafe
<1>11. Safe(t)' /\ pc'[t] # "retire"
  BY <1>8, <1>10, Zenon DEF Safe, EnterSafe, SyncSafe
<1>12. Quiet
  <2>1. /\ UNCHANGED <<readerVars, location, claimed, tag, freed>> /\ buf' = buf
        /\ (forced => forced') /\ pending' = pending /\ waitFor' = waitFor
    BY <1>1 DEF retireVars, listVars
  <2>2. global <= global'
    BY <1>1, <1>2
  <2>3. \A u \in Threads : buf'[u] \in Seq(claimed) /\ reg'[u].taken \in Seq(claimed)
                            /\ reg'[u].keep \in Seq(claimed)
    BY <1>2, <1>5, <1>6, <2>1, Zenon
  <2> QED  BY <1>2, <1>5, <1>8, <1>11, <2>1, <2>2, <2>3 DEF Quiet
<1> QED  BY <1>8, <1>9, <1>12, QuietKeeps

LEMMA ScanSlotKeeps ==
  ASSUME EpochInvariant, NEW t \in Threads, ScanSlot(t)
  PROVE  EpochInvariant'
<1>1. /\ UNCHANGED <<global, policy, readerVars, retireVars, pending, ledger, reclaiming, freed,
                     pc, stack, waitFor>>
      /\ UNCHANGED <<local, cache, ref>> /\ pc[t] = "scan" /\ reg[t].pos \in Slots
  BY DEF ScanSlot, readerVars
<1>2. /\ TypeOK /\ reg \in [Threads -> Locals] /\ reg[t] \in Locals /\ pending \in Seq(claimed)
      /\ \A u \in Threads : buf[u] \in Seq(claimed) /\ reg[u].taken \in Seq(claimed)
                              /\ reg[u].keep \in Seq(claimed)
      /\ global \in 0..MaxEpoch /\ forced \in BOOLEAN
      /\ local[reg[t].pos] \in 0..MaxEpoch \cup {InactiveEpoch}
  BY <1>1, ListsClaimed, Zenon DEF TypeOK
<1>3. reg[t].min \in 0..InactiveEpoch /\ reg[t].pos \in Nat \ {0} /\ reg[t].min \in Nat
      /\ local[reg[t].pos] \in Nat /\ local[reg[t].pos] \in 0..InactiveEpoch
  <2>1. reg[t].min \in 0..InactiveEpoch /\ reg[t].pos \in Nat \ {0}
    BY <1>2, LocalsFields, Zenon
  <2>2. local[reg[t].pos] \in Nat /\ local[reg[t].pos] \in 0..InactiveEpoch
    BY <1>2, EpochAssumption DEF InactiveEpoch
  <2> QED  BY <2>1, <2>2, EpochAssumption DEF InactiveEpoch
<1>4. PICK skip \in BOOLEAN :
        /\ forced' = (forced \/ skip)
        /\ reg' = [reg EXCEPT ![t].pos = reg[t].pos + 1,
                              ![t].min = IF Stamped(reg[t].pos) /\ ~skip
                                            /\ local[reg[t].pos] < reg[t].min
                                         THEN local[reg[t].pos] ELSE reg[t].min]
  BY ZenonT(60) DEF ScanSlot
<1> DEFINE m == IF Stamped(reg[t].pos) /\ ~skip /\ local[reg[t].pos] < reg[t].min
                THEN local[reg[t].pos] ELSE reg[t].min
           n == reg[t].pos + 1
<1>5. /\ m \in 0..InactiveEpoch /\ n \in Nat \ {0} /\ m \in Nat /\ m <= reg[t].min
      /\ Stamped(reg[t].pos) /\ ~skip => m <= local[reg[t].pos]
      /\ n = reg[t].pos + 1
  <2>1. \/ m = local[reg[t].pos] /\ local[reg[t].pos] < reg[t].min
        \/ m = reg[t].min /\ ~(Stamped(reg[t].pos) /\ ~skip /\ local[reg[t].pos] < reg[t].min)
    BY Zenon
  <2>2. n = reg[t].pos + 1
    BY Zenon
  <2> HIDE DEF m, n
  <2> QED  BY <1>3, <2>1, <2>2
<1>6. /\ reg' = [reg EXCEPT ![t].pos = n, ![t].min = m]
      /\ forced' \in BOOLEAN /\ (forced => forced') /\ (skip => forced')
  BY <1>4, Zenon
<1> HIDE DEF m, n
<1>7. /\ reg'[t] = [reg[t] EXCEPT !.pos = n, !.min = m]
      /\ \A u \in Threads \ {t} : reg'[u] = reg[u]
  BY <1>2, <1>6
<1>8. /\ reg'[t] \in Locals /\ reg'[t].min = m /\ reg'[t].pos = n
      /\ reg'[t].taken = reg[t].taken /\ reg'[t].keep = reg[t].keep
  BY <1>2, <1>5, <1>7, Zenon DEF Locals
<1>9. reg' \in [Threads -> Locals]
  BY <1>2, <1>6, <1>7, <1>8
<1>10. TypeOK'
  BY <1>1, <1>2, <1>6, <1>9 DEF TypeOK, readerVars, retireVars
<1>11. StackFits'
  BY <1>1, Zenon DEF EpochInvariant, StackFits, Fit, Inside
<1>12. ScanSafe(t)'
  <2>1. ASSUME NEW u \in Threads, NEW i \in 1..Len(reg[t].taken), ~forced',
               reg[t].taken[i] \in ref[u] \ freed
        PROVE  Slot(u) >= n \/ m <= local[Slot(u)]
    <3>1. /\ Slot(u) \in Nat \ {0} /\ Stamped(Slot(u)) /\ local[Slot(u)] \in Nat
      BY <2>1, HolderStamped
    <3>2. Slot(u) >= reg[t].pos \/ reg[t].min <= local[Slot(u)]
      BY <1>1, <1>6, <2>1 DEF EpochInvariant, Safe, ScanSafe
    <3>3. ~skip
      BY <1>6, <2>1, Zenon
    <3>4. CASE Slot(u) = reg[t].pos
      BY <1>5, <3>1, <3>3, <3>4, Zenon
    <3>5. CASE Slot(u) # reg[t].pos
      BY <1>3, <1>5, <3>1, <3>2, <3>5
    <3> QED  BY <3>4, <3>5, Zenon
  <2>2. \A u \in Threads : Slot(u)' = Slot(u)
    BY <1>1 DEF Slot
  <2>3. pc'[t] = "scan"
    BY <1>1, Zenon
  <2> QED  BY <1>1, <1>8, <2>1, <2>2, <2>3, Zenon DEF ScanSafe
<1>13. Safe(t)' /\ pc'[t] # "retire"
  <2>1. pc'[t] = "scan"
    BY <1>1
  <2> QED  BY <1>12, <2>1 DEF Safe, EnterSafe, SyncSafe
<1>14. Quiet
  <2>1. /\ UNCHANGED <<readerVars, location, claimed, tag, freed, pc>> /\ buf' = buf
        /\ pending' = pending /\ waitFor' = waitFor
    BY <1>1, Zenon DEF retireVars
  <2>2. global <= global'
    BY <1>1, <1>2
  <2>3. \A u \in Threads : buf'[u] \in Seq(claimed) /\ reg'[u].taken \in Seq(claimed)
                            /\ reg'[u].keep \in Seq(claimed)
    BY <1>2, <1>7, <1>8, <2>1, Zenon
  <2> QED  BY <1>2, <1>6, <1>7, <1>13, <2>1, <2>2, <2>3, Zenon DEF Quiet
<1> QED  BY <1>10, <1>11, <1>14, QuietKeeps
-----------------------------------------------------------------------------
(* Steps of a reader: only its own slot, depth and references change.  It  *)
(* stays inside with its stamp, and takes only references to objects not   *)
(* yet claimed, or it has none and nobody waits for it.                    *)
StaysInside(t) ==
    /\ Inside(t) /\ Inside(t)' /\ Slot(t)' = Slot(t) /\ local'[Slot(t)] = local[Slot(t)]
    /\ \A o \in ref'[t] : o \in ref[t] \/ o \notin claimed
HasNothing(t) ==
    /\ ref'[t] = {} /\ (Inside(t)' => local'[Slot(t)'] <= global)
    /\ ~Inside(t) \/ \A v \in Threads : t \notin waitFor'[v]
Reads(t) ==
    /\ UNCHANGED <<global, location, claimed, tag, freed, forced, pending, buf>>
    /\ \A u \in Threads \ {t} :
          /\ Slot(u)' = Slot(u) /\ (Inside(u)' <=> Inside(u)) /\ ref'[u] = ref[u]
          /\ Inside(u) => local'[Slot(u)] = local[Slot(u)]
          /\ reg'[u] = reg[u] /\ pc'[u] = pc[u]
    /\ \A u \in Threads : waitFor'[u] \subseteq waitFor[u]
    /\ reg'[t].taken = reg[t].taken /\ reg'[t].keep = reg[t].keep
    /\ pc'[t] \notin {"retire", "scan", "free", "sync", "synced"} /\ EnterSafe(t)'
    /\ StaysInside(t) \/ HasNothing(t)

LEMMA ReadsKeeps ==
  ASSUME EpochInvariant, NEW t \in Threads, Reads(t), TypeOK', StackFits', SlotsOwned'
  PROVE  EpochInvariant'
<1>1. /\ UNCHANGED <<global, location, claimed, tag, freed, forced, pending, buf>>
      /\ freed \subseteq claimed
  BY DEF Reads, EpochInvariant, TypeOK
<1>2. ASSUME NEW u \in Threads \ {t}
      PROVE  /\ Slot(u)' = Slot(u) /\ (Inside(u)' <=> Inside(u)) /\ ref'[u] = ref[u]
             /\ Inside(u) => local'[Slot(u)'] = local[Slot(u)]
             /\ reg'[u] = reg[u] /\ pc'[u] = pc[u]
  BY <1>2, Zenon DEF Reads
<1>3. \/ StaysInside(t) /\ local'[Slot(t)'] = local[Slot(t)]
      \/ HasNothing(t)
  BY Zenon DEF Reads, StaysInside
<1>4. Stamps'
  <2>1. ASSUME NEW u \in Threads, Inside(u)' PROVE local'[Slot(u)'] <= global'
    <3>1. CASE u # t
      BY <1>1, <1>2, <2>1, <3>1, ZenonT(60) DEF EpochInvariant, Stamps
    <3>2. CASE u = t
      BY <1>1, <1>3, <2>1, <3>2, Zenon DEF StaysInside, HasNothing, EpochInvariant, Stamps
    <3> QED  BY <3>1, <3>2
  <2> QED  BY <2>1 DEF Stamps
<1>5. Claims'
  <2>1. location' \notin claimed' /\ pending' \in Seq(claimed')
    BY <1>1, Zenon DEF EpochInvariant, Claims
  <2>2. ASSUME NEW u \in Threads
        PROVE  /\ pc'[u] = "retire" => reg'[u].obj \in Objects /\ reg'[u].obj # location'
               /\ buf'[u] \in Seq(claimed')
               /\ reg'[u].taken \in Seq(claimed') /\ reg'[u].keep \in Seq(claimed')
    <3>1. CASE u # t
      BY <1>1, <1>2, <3>1 DEF EpochInvariant, Claims
    <3>2. CASE u = t
      BY <1>1, <3>2, Zenon DEF Reads, EpochInvariant, Claims
    <3> QED  BY <3>1, <3>2, Zenon
  <2> QED  BY <2>1, <2>2, Zenon DEF Claims
<1>6. ASSUME NEW u \in Threads, NEW o \in ref'[u]
      PROVE  /\ Inside(u)' /\ (o \in claimed => o \in ref[u])
             /\ o \in ref[u] => Slot(u)' = Slot(u) /\ local'[Slot(u)'] = local[Slot(u)]
  <2>1. CASE u # t
    <3>1. o \in ref[u] /\ Inside(u)
      BY <1>2, <1>6, <2>1, Zenon DEF EpochInvariant, Tags
    <3> QED  BY <1>2, <2>1, <3>1, ZenonT(60)
  <2>2. CASE u = t
    BY <1>3, <1>6, <2>2, Zenon DEF StaysInside, HasNothing
  <2> QED  BY <2>1, <2>2, ZenonT(60)
<1>7. Tags'
  <2>1. ASSUME NEW u \in Threads, NEW o \in ref'[u], o \in claimed' \ freed'
        PROVE  local'[Slot(u)'] <= tag'[o]
    <3>1. o \in ref[u] /\ o \in claimed \ freed /\ local'[Slot(u)'] = local[Slot(u)]
      BY <1>1, <1>6, <2>1, Zenon
    <3> QED  BY <1>1, <3>1, ZenonT(60) DEF EpochInvariant, Tags
  <2> QED  BY <1>6, <2>1, Zenon DEF Tags
<1>8. NoUseAfterFree'
  <2>1. ASSUME NEW u \in Threads, NEW o \in ref'[u], ~forced', o \in freed' PROVE FALSE
    <3>1. o \in ref[u] /\ o \in freed /\ ~forced
      BY <1>1, <1>6, <2>1
    <3> QED  BY <3>1, Zenon DEF EpochInvariant, NoUseAfterFree
  <2> QED  BY <2>1 DEF NoUseAfterFree
<1>9. ASSUME NEW v \in Threads PROVE Safe(v)'
  <2>1. CASE v = t
    BY <2>1, Zenon DEF Reads, Safe, ScanSafe, SyncSafe
  <2>2. CASE v # t
    <3>1. Slot(v)' = Slot(v) /\ reg'[v] = reg[v] /\ pc'[v] = pc[v]
      BY <1>2, <2>2, Zenon
    <3>2. EnterSafe(v)'
      BY <1>1, <3>1, Zenon DEF EnterSafe, EpochInvariant, Safe
    <3>3. ScanSafe(v)'
      <4>1. ASSUME NEW u \in Threads, NEW i \in 1..Len(reg[v].taken), ~forced,
                   reg[v].taken[i] \in ref'[u] \ freed
            PROVE  /\ pc[v] = "scan" => Slot(u)' >= reg[v].pos \/ reg[v].min <= local'[Slot(u)']
                   /\ pc[v] = "free" => reg[v].min <= local'[Slot(u)']
        <5>1. reg[v].taken[i] \in claimed
          <6>1. reg[v].taken \in Seq(claimed)
            BY ListsClaimed, ZenonT(60)
          <6> QED  BY <4>1, <6>1
        <5>2. /\ reg[v].taken[i] \in ref[u] \ freed
              /\ Slot(u)' = Slot(u) /\ local'[Slot(u)'] = local[Slot(u)]
          BY <1>6, <4>1, <5>1, Zenon
        <5> QED  BY <4>1, <5>2, ZenonT(60) DEF EpochInvariant, Safe, ScanSafe
      <4> QED  BY <1>1, <3>1, <4>1, Zenon DEF ScanSafe
    <3>4. SyncSafe(v)'
      <4>1. ASSUME NEW u \in waitFor'[v]
            PROVE  /\ pc[v] # "synced"
                   /\ pc[v] = "sync" => /\ Inside(u)' /\ local'[Slot(u)'] < reg[v].epoch
                                        /\ Slot(u)' >= reg[v].pos
        <5>1. u \in waitFor[v] /\ u \in Threads
          BY <4>1 DEF Reads, EpochInvariant, TypeOK
        <5>2. /\ pc[v] # "synced"
              /\ pc[v] = "sync" => /\ Inside(u) /\ local[Slot(u)] < reg[v].epoch
                                   /\ Slot(u) >= reg[v].pos
          BY <5>1, Zenon DEF EpochInvariant, Safe, SyncSafe
        <5>3. CASE u # t
          BY <1>2, <5>1, <5>2, <5>3, Zenon
        <5>4. CASE u = t
          BY <1>3, <4>1, <5>2, <5>4, Zenon DEF StaysInside, HasNothing
        <5> QED  BY <5>3, <5>4, Zenon
      <4> QED  BY <3>1, <4>1, Zenon DEF SyncSafe
    <3> QED  BY <3>2, <3>3, <3>4 DEF Safe
  <2> QED  BY <2>1, <2>2
<1> QED  BY <1>4, <1>5, <1>7, <1>8, <1>9, Zenon DEF EpochInvariant

(* A thread outside the subroutines is inside a critical section exactly   *)
(* when it is at "inside", and one outside holds nothing.                  *)
LEMMA WhereInside ==
  ASSUME EpochInvariant, NEW t \in Threads, pc[t] \in Labels \ (Flushing \cup Passing)
  PROVE  stack[t] = <<>> /\ (Inside(t) <=> pc[t] = "inside") /\ (~Inside(t) => ref[t] = {})
<1>1. Fit(pc[t], stack[t], Inside(t))
  BY Zenon DEF EpochInvariant, StackFits
<1>2. Inside(t) \in BOOLEAN
  BY DEF Inside
<1>3. stack[t] = <<>> /\ (Inside(t) <=> pc[t] = "inside")
  BY <1>1, <1>2, NoCalls
<1>4. ~Inside(t) => ref[t] = {}
  BY DEF EpochInvariant, Tags
<1> QED  BY <1>3, <1>4, Zenon

LEMMA CacheFields ==
  ASSUME TypeOK, NEW t \in Threads
  PROVE  /\ cache[t] \in [slot : Slots \cup {npos}, depth : 0..MaxDepth]
         /\ cache[t].slot \in Slots \cup {npos} /\ cache[t].depth \in 0..MaxDepth
         /\ cache[t].depth \in Nat
BY DEF TypeOK

LEMMA AcquireKeeps ==
  ASSUME EpochInvariant, NEW t \in Threads, AcquireSlot(t)
  PROVE  EpochInvariant'
<1>1. PICK s \in Slots \ used : used' = used \cup {s} /\ cache' = [cache EXCEPT ![t].slot = s]
  BY Zenon DEF AcquireSlot
<1>2. /\ UNCHANGED <<global, policy, local, ref, stack, reg, waitFor, retireVars, listVars>>
      /\ pc[t] = "idle" /\ Slot(t) = npos /\ Goto(t, "enter") /\ TypeOK
      /\ npos \notin Slots
  BY DEF AcquireSlot, Slot, EpochInvariant, npos, Slots
<1>3. stack[t] = <<>> /\ ~Inside(t) /\ ref[t] = {}
  <2>1. pc[t] \in Labels \ (Flushing \cup Passing)
    BY <1>2 DEF Labels, Flushing, Passing
  <2> QED  BY <1>2, <2>1, WhereInside
<1>4. /\ cache' \in [Threads -> [slot : Slots \cup {npos}, depth : 0..MaxDepth]]
      /\ Slot(t)' = s /\ cache'[t].depth = cache[t].depth
      /\ \A u \in Threads \ {t} : cache'[u] = cache[u]
  <2>1. /\ cache'[t] = [cache[t] EXCEPT !.slot = s] /\ cache' = [u \in Threads |-> cache'[u]]
        /\ \A u \in Threads \ {t} : cache'[u] = cache[u]
    BY <1>1, <1>2, Zenon DEF TypeOK
  <2>2. /\ cache'[t] \in [slot : Slots \cup {npos}, depth : 0..MaxDepth]
        /\ cache'[t].slot = s /\ cache'[t].depth = cache[t].depth
    BY <1>2, <2>1, CacheFields, Zenon
  <2> QED  BY <1>2, <2>1, <2>2, CacheFields DEF Slot
<1>5. /\ \A u \in Threads : Inside(u)' <=> Inside(u)
      /\ \A u \in Threads \ {t} : Slot(u)' = Slot(u)
  BY <1>4 DEF Inside, Slot
<1>6. /\ pc' = [pc EXCEPT ![t] = "enter"] /\ stack' = [stack EXCEPT ![t] = <<>>]
      /\ "enter" \in Labels /\ <<>> \in Seq(Labels) /\ Fit("enter", <<>>, Inside(t))
  <2>1. pc' = [pc EXCEPT ![t] = "enter"] /\ stack' = [stack EXCEPT ![t] = <<>>]
    BY <1>2, <1>3 DEF Goto, TypeOK
  <2>2. "enter" \in Labels \ (Flushing \cup Passing) /\ <<>> \in Seq(Labels)
    BY DEF Labels, Flushing, Passing
  <2>3. <<>> # <<"inside">> /\ <<>> # <<"autoend", "inside">>
    OBVIOUS
  <2> QED  BY <1>3, <2>1, <2>2, <2>3, Zenon DEF Fit
<1>7. /\ pc' \in [Threads -> Labels] /\ stack' \in [Threads -> Seq(Labels)] /\ StackFits'
      /\ pc'[t] = "enter" /\ \A u \in Threads \ {t} : pc'[u] = pc[u]
  BY <1>5, <1>6, Calls, ZenonT(60)
<1>8. TypeOK'
  <2>1. used' \subseteq Slots
    BY <1>1, <1>2 DEF TypeOK
  <2> QED  BY <1>2, <1>4, <1>7, <2>1 DEF TypeOK, retireVars, listVars
<1>9. SlotsOwned'
  <2>1. \A u \in Threads \ {t} : Slot(u) # s
    BY <1>1, <1>2 DEF EpochInvariant, SlotsOwned
  <2>2. \A u \in Threads : /\ Slot(u)' # npos => Slot(u)' \in used'
                           /\ Inside(u)' => Slot(u)' # npos
    BY <1>1, <1>2, <1>3, <1>4, <1>5 DEF EpochInvariant, SlotsOwned
  <2>3. \A u, v \in Threads : u # v /\ Slot(u)' = Slot(v)' => Slot(u)' = npos
    BY <1>2, <1>4, <1>5, <2>1, ZenonT(60) DEF EpochInvariant, SlotsOwned
  <2> QED  BY <2>2, <2>3 DEF SlotsOwned
<1>10. EnterSafe(t)'
  BY <1>1, <1>2, <1>4, <1>7 DEF EnterSafe
<1>11. HasNothing(t)
  BY <1>2, <1>3, <1>5 DEF HasNothing
<1>12. Reads(t)
  <2>1. UNCHANGED <<global, location, claimed, tag, freed, forced, pending, buf, local, ref, reg, waitFor>>
    BY <1>2 DEF retireVars, listVars
  <2> QED  BY <1>5, <1>7, <1>10, <1>11, <2>1, Zenon DEF Reads
<1> QED  BY <1>7, <1>8, <1>9, <1>12, ReadsKeeps

LEMMA EnterStampKeeps ==
  ASSUME EpochInvariant, NEW t \in Threads, EnterStamp(t)
  PROVE  EpochInvariant'
<1>1. /\ UNCHANGED <<global, policy, used, ref, stack, waitFor, retireVars, listVars>>
      /\ pc[t] = "stamp" /\ Goto(t, "inside") /\ TypeOK
      /\ local' = [local EXCEPT ![cache[t].slot] = reg[t].epoch]
      /\ cache' = [cache EXCEPT ![t].depth = 1]
      /\ reg' = [reg EXCEPT ![t].epoch = 0]
      /\ reg \in [Threads -> Locals] /\ global \in 0..MaxEpoch
      /\ local \in [Slots -> 0..MaxEpoch \cup {InactiveEpoch}]
  BY DEF EnterStamp, EpochInvariant, TypeOK
<1>2. stack[t] = <<>> /\ ~Inside(t) /\ ref[t] = {}
  <2>1. pc[t] \in Labels \ (Flushing \cup Passing)
    BY <1>1 DEF Labels, Flushing, Passing
  <2> QED  BY <1>1, <2>1, WhereInside
<1>3. /\ Slot(t) \in Slots /\ Slot(t) # npos
      /\ reg[t].epoch \in 0..MaxEpoch + 1 /\ reg[t].epoch <= global
  BY <1>1, CacheFields, LocalsFields DEF EpochInvariant, Safe, EnterSafe, Slot
<1>4. reg[t].epoch \in 0..MaxEpoch
  BY <1>1, <1>3, EpochAssumption
<1>5. /\ cache' \in [Threads -> [slot : Slots \cup {npos}, depth : 0..MaxDepth]]
      /\ cache'[t].slot = cache[t].slot /\ cache'[t].depth = 1
      /\ \A u \in Threads \ {t} : cache'[u] = cache[u]
  <2>1. 1 \in 0..MaxDepth
    BY EpochAssumption
  <2> QED  BY <1>1, <2>1 DEF TypeOK
<1>6. /\ Inside(t)' /\ \A u \in Threads : Slot(u)' = Slot(u)
      /\ \A u \in Threads \ {t} : Inside(u)' <=> Inside(u)
  BY <1>5 DEF Inside, Slot
<1>7. /\ local' \in [Slots -> 0..MaxEpoch \cup {InactiveEpoch}]
      /\ local'[Slot(t)] = reg[t].epoch
      /\ \A s \in Slots \ {Slot(t)} : local'[s] = local[s]
  BY <1>1, <1>3, <1>4 DEF Slot
<1>8. /\ reg' \in [Threads -> Locals] /\ \A u \in Threads \ {t} : reg'[u] = reg[u]
      /\ reg'[t].taken = reg[t].taken /\ reg'[t].keep = reg[t].keep
  <2>1. 0 \in 0..MaxEpoch + 1
    BY EpochAssumption
  <2> QED  BY <1>1, <2>1, SetEpoch, Zenon
<1>9. /\ pc' \in [Threads -> Labels] /\ pc'[t] = "inside"
      /\ \A u \in Threads \ {t} : pc'[u] = pc[u]
  BY <1>1, Zenon DEF Goto, TypeOK, Labels
<1>10. StackFits'
  <2>1. ASSUME NEW u \in Threads PROVE Fit(pc'[u], stack'[u], Inside(u)')
    <3>1. CASE u = t
      BY <1>1, <1>2, <1>6, <1>9, <3>1 DEF Fit, Labels, Flushing, Passing
    <3>2. CASE u # t
      <4>1. Fit(pc[u], stack[u], Inside(u)) /\ pc'[u] = pc[u] /\ stack'[u] = stack[u]
        BY <1>1, <1>9, <3>2 DEF EpochInvariant, StackFits
      <4> QED  BY <1>6, <3>2, <4>1, Zenon DEF Fit
    <3> QED  BY <3>1, <3>2
  <2> QED  BY <2>1, Zenon DEF StackFits
<1>11. TypeOK'
  BY <1>1, <1>5, <1>7, <1>8, <1>9 DEF TypeOK, retireVars, listVars
<1>12. SlotsOwned'
  BY <1>1, <1>3, <1>6 DEF EpochInvariant, SlotsOwned
<1>13. HasNothing(t)
  BY <1>1, <1>2, <1>3, <1>6, <1>7, Zenon DEF HasNothing
<1>14. \A u \in Threads \ {t} : Inside(u) => local'[Slot(u)] = local[Slot(u)]
  <2>1. ASSUME NEW u \in Threads \ {t}, Inside(u) PROVE local'[Slot(u)] = local[Slot(u)]
    <3>1. Slot(u) \in Slots /\ Slot(u) # Slot(t)
      BY <1>3, <2>1, StampTypes, Zenon DEF EpochInvariant, SlotsOwned
    <3> QED  BY <1>7, <3>1
  <2> QED  BY <2>1, Zenon
<1>15. Reads(t)
  <2>1. UNCHANGED <<global, location, claimed, tag, freed, forced, pending, buf, ref, waitFor>>
    BY <1>1 DEF retireVars, listVars
  <2>2. EnterSafe(t)'
    BY <1>9 DEF EnterSafe
  <2> QED  BY <1>6, <1>8, <1>9, <1>13, <1>14, <2>1, <2>2, Zenon DEF Reads
<1> QED  BY <1>10, <1>11, <1>12, <1>15, ReadsKeeps

LEMMA NestedLoadKeeps ==
  ASSUME EpochInvariant, NEW t \in Threads, EnterNested(t) \/ LoadPointer(t)
  PROVE  EpochInvariant'
<1>1. /\ UNCHANGED <<global, policy, used, local, pc, stack, reg, waitFor, retireVars, listVars>>
      /\ pc[t] = "inside" /\ TypeOK
  BY DEF EnterNested, LoadPointer, EpochInvariant
<1>2. Inside(t)
  <2>1. pc[t] \in Labels \ (Flushing \cup Passing)
    BY <1>1 DEF Labels, Flushing, Passing
  <2> QED  BY <1>1, <2>1, WhereInside, Zenon
<1>3. /\ cache' \in [Threads -> [slot : Slots \cup {npos}, depth : 0..MaxDepth]]
      /\ Inside(t)' /\ Slot(t)' = Slot(t) /\ \A u \in Threads \ {t} : cache'[u] = cache[u]
      /\ ref' \in [Threads -> SUBSET Objects]
      /\ \A u \in Threads \ {t} : ref'[u] = ref[u]
      /\ \A o \in ref'[t] : o \in ref[t] \/ o \notin claimed
  <2>1. CASE EnterNested(t)
    <3>1. /\ cache' = [cache EXCEPT ![t].depth = cache[t].depth + 1] /\ ref' = ref
          /\ cache[t].depth < MaxDepth
      BY <2>1 DEF EnterNested
    <3>2. cache[t].depth + 1 \in 0..MaxDepth /\ cache[t].depth + 1 > 0
      BY <1>1, <3>1, CacheFields, EpochAssumption
    <3>3. /\ cache'[t] = [cache[t] EXCEPT !.depth = cache[t].depth + 1]
          /\ cache' = [u \in Threads |-> cache'[u]]
          /\ \A u \in Threads \ {t} : cache'[u] = cache[u]
      BY <1>1, <3>1, Zenon DEF TypeOK
    <3>4. /\ cache'[t] \in [slot : Slots \cup {npos}, depth : 0..MaxDepth]
          /\ cache'[t].slot = cache[t].slot /\ cache'[t].depth = cache[t].depth + 1
      BY <1>1, <3>2, <3>3, CacheFields
    <3>5. cache' \in [Threads -> [slot : Slots \cup {npos}, depth : 0..MaxDepth]]
      BY <1>1, <3>3, <3>4, CacheFields, Zenon
    <3> QED  BY <1>1, <3>1, <3>2, <3>3, <3>4, <3>5 DEF Slot, Inside, TypeOK
  <2>2. CASE LoadPointer(t)
    <3>1. cache' = cache /\ location # None /\ ref' = [ref EXCEPT ![t] = ref[t] \cup {location}]
      BY <2>2 DEF LoadPointer
    <3>2. location \in Objects /\ location \notin claimed
      BY <1>1, <3>1, Zenon DEF TypeOK, EpochInvariant, Claims
    <3> QED  BY <1>1, <1>2, <3>1, <3>2, Zenon DEF TypeOK, Slot, Inside
  <2> QED  BY <2>1, <2>2, Zenon
<1>4. \A u \in Threads : Slot(u)' = Slot(u) /\ (Inside(u)' <=> Inside(u))
  BY <1>2, <1>3, ZenonT(60) DEF Slot, Inside
<1>5. TypeOK'
  BY <1>1, <1>3 DEF TypeOK, retireVars, listVars
<1>6. StackFits'
  BY <1>1, <1>4, Zenon DEF EpochInvariant, StackFits, Fit
<1>7. SlotsOwned'
  BY <1>1, <1>4 DEF EpochInvariant, SlotsOwned
<1>8. StaysInside(t)
  BY <1>1, <1>2, <1>3, Zenon DEF StaysInside
<1>9. EnterSafe(t)' /\ pc'[t] = "inside"
  BY <1>1 DEF EnterSafe
<1>10. Reads(t)
  BY <1>1, <1>3, <1>4, <1>8, <1>9, Zenon DEF Reads, retireVars, listVars
<1> QED  BY <1>5, <1>6, <1>7, <1>10, ReadsKeeps

LEMMA ExitKeeps ==
  ASSUME EpochInvariant, NEW t \in Threads, ExitCritical(t)
  PROVE  EpochInvariant'
<1>1. /\ UNCHANGED <<global, policy, used, stack, reg, retireVars, listVars>>
      /\ pc[t] = "inside" /\ TypeOK
  BY DEF ExitCritical, EpochInvariant
<1>2. Inside(t) /\ stack[t] = <<>> /\ Slot(t) \in Slots
  <2>1. pc[t] \in Labels \ (Flushing \cup Passing)
    BY <1>1 DEF Labels, Flushing, Passing
  <2> QED  BY <1>1, <2>1, WhereInside, StampTypes, Zenon
<1>3. /\ cache[t] \in [slot : Slots \cup {npos}, depth : 0..MaxDepth]
      /\ cache[t].depth \in 0..MaxDepth
  BY <1>1, CacheFields
<1>4. PICK d \in 0..MaxDepth :
         /\ cache' = [cache EXCEPT ![t].depth = d]
         /\ IF cache[t].depth > 1 THEN d > 0 ELSE d = 0
  <2>1. CASE cache[t].depth > 1
    <3>1. cache[t].depth - 1 \in 0..MaxDepth /\ cache[t].depth - 1 > 0
      BY <1>3, <2>1, EpochAssumption
    <3> QED  BY <2>1, <3>1 DEF ExitCritical
  <2>2. CASE ~(cache[t].depth > 1)
    <3>1. 0 \in 0..MaxDepth
      BY EpochAssumption
    <3> QED  BY <2>2, <3>1 DEF ExitCritical
  <2> QED  BY <2>1, <2>2
<1>5. /\ cache'[t] = [cache[t] EXCEPT !.depth = d] /\ cache' = [u \in Threads |-> cache'[u]]
      /\ \A u \in Threads \ {t} : cache'[u] = cache[u]
  BY <1>1, <1>4, Zenon DEF TypeOK
<1>6. /\ cache'[t] \in [slot : Slots \cup {npos}, depth : 0..MaxDepth]
      /\ cache'[t].slot = cache[t].slot /\ cache'[t].depth = d
  BY <1>3, <1>5
<1>7. cache' \in [Threads -> [slot : Slots \cup {npos}, depth : 0..MaxDepth]]
  BY <1>1, <1>5, <1>6, CacheFields
<1>8. /\ \A u \in Threads : Slot(u)' = Slot(u)
      /\ \A u \in Threads \ {t} : Inside(u)' <=> Inside(u)
  BY <1>5, <1>6 DEF Slot, Inside
<1>9. SlotsOwned'
  BY <1>1, <1>2, <1>8, Zenon DEF EpochInvariant, SlotsOwned
<1>10. CASE cache[t].depth > 1
  <2>1. UNCHANGED <<local, ref, pc, waitFor>>
    BY <1>10 DEF ExitCritical
  <2>2. Inside(t)'
    BY <1>4, <1>6, <1>10, Zenon DEF Inside
  <2>3. TypeOK'
    BY <1>1, <1>7, <2>1 DEF TypeOK, retireVars, listVars
  <2>4. StackFits'
    BY <1>1, <1>2, <1>8, <2>1, <2>2, Zenon DEF EpochInvariant, StackFits, Fit
  <2>5. StaysInside(t) /\ EnterSafe(t)' /\ pc'[t] = "inside"
    BY <1>1, <1>2, <1>8, <2>1, <2>2, Zenon DEF StaysInside, EnterSafe
  <2>6. Reads(t)
    BY <1>1, <1>8, <2>1, <2>5, Zenon DEF Reads, retireVars, listVars
  <2> QED  BY <1>9, <2>3, <2>4, <2>6, ReadsKeeps
<1>11. CASE ~(cache[t].depth > 1)
  <2>1. /\ local' = [local EXCEPT ![Slot(t)] = InactiveEpoch]
        /\ ref' = [ref EXCEPT ![t] = {}]
        /\ waitFor' = [u \in Threads |-> waitFor[u] \ {t}] /\ Goto(t, "idle")
    BY <1>11 DEF ExitCritical, Slot
  <2>2. ~Inside(t)' /\ d = 0
    BY <1>4, <1>6, <1>11 DEF Inside
  <2>3. /\ local' \in [Slots -> 0..MaxEpoch \cup {InactiveEpoch}]
        /\ \A s \in Slots \ {Slot(t)} : local'[s] = local[s]
        /\ ref' \in [Threads -> SUBSET Objects] /\ ref'[t] = {}
        /\ \A u \in Threads \ {t} : ref'[u] = ref[u]
        /\ waitFor' \in [Threads -> SUBSET Threads]
        /\ \A u \in Threads : waitFor'[u] \subseteq waitFor[u] /\ t \notin waitFor'[u]
    BY <1>1, <1>2, <2>1, Zenon DEF TypeOK
  <2>4. /\ pc' \in [Threads -> Labels] /\ pc'[t] = "idle"
        /\ \A u \in Threads \ {t} : pc'[u] = pc[u]
    BY <1>1, <2>1, Zenon DEF Goto, TypeOK, Labels
  <2>5. TypeOK'
    BY <1>1, <1>7, <2>3, <2>4 DEF TypeOK, retireVars, listVars
  <2>6. StackFits'
    <3>1. ASSUME NEW u \in Threads PROVE Fit(pc'[u], stack'[u], Inside(u)')
      <4>1. CASE u = t
        <5>1. <<>> # <<"inside">> /\ <<>> # <<"autoend", "inside">>
          OBVIOUS
        <5>2. "idle" \in Labels \ (Flushing \cup Passing)
          BY DEF Labels, Flushing, Passing
        <5> QED  BY <1>1, <1>2, <2>2, <2>4, <4>1, <5>1, <5>2, Zenon DEF Fit
      <4>2. CASE u # t
        <5>1. Fit(pc[u], stack[u], Inside(u)) /\ pc'[u] = pc[u] /\ stack'[u] = stack[u]
          BY <1>1, <2>4, <4>2, Zenon DEF EpochInvariant, StackFits
        <5> QED  BY <1>8, <4>2, <5>1, Zenon DEF Fit
      <4> QED  BY <4>1, <4>2
    <3> QED  BY <3>1, Zenon DEF StackFits
  <2>7. HasNothing(t) /\ EnterSafe(t)'
    BY <2>2, <2>3, <2>4, Zenon DEF HasNothing, EnterSafe
  <2>8. \A u \in Threads \ {t} : Inside(u) => local'[Slot(u)] = local[Slot(u)]
    <3>1. ASSUME NEW u \in Threads \ {t}, Inside(u) PROVE local'[Slot(u)] = local[Slot(u)]
      <4>1. Slot(u) \in Slots /\ Slot(u) # Slot(t)
        BY <1>2, <3>1, StampTypes, Zenon DEF EpochInvariant, SlotsOwned
      <4> QED  BY <2>3, <4>1, Zenon
    <3> QED  BY <3>1, Zenon
  <2>9. Reads(t)
    <3>1. UNCHANGED <<global, location, claimed, tag, freed, forced, pending, buf, reg>>
      BY <1>1 DEF retireVars, listVars
    <3> QED  BY <1>8, <2>3, <2>4, <2>7, <2>8, <3>1, Zenon DEF Reads
  <2> QED  BY <1>9, <2>5, <2>6, <2>9, ReadsKeeps
<1> QED  BY <1>10, <1>11

LEMMA ThreadExitKeeps ==
  ASSUME EpochInvariant, NEW t \in Threads, ThreadExit(t)
  PROVE  EpochInvariant'
<1>1. /\ UNCHANGED <<global, policy, ref, reg, waitFor, retireVars, listVars>>
      /\ pc[t] = "idle" /\ TypeOK /\ used' = used \ {Slot(t)}
      /\ cache' = [cache EXCEPT ![t].slot = npos]
      /\ local' = [s \in Slots |-> IF s = Slot(t) THEN InactiveEpoch ELSE local[s]]
      /\ Call(t, "flush", "idle")
  BY DEF ThreadExit, EpochInvariant, Slot
<1>2. stack[t] = <<>> /\ ~Inside(t) /\ ref[t] = {}
  <2>1. pc[t] \in Labels \ (Flushing \cup Passing)
    BY <1>1 DEF Labels, Flushing, Passing
  <2> QED  BY <1>1, <2>1, WhereInside
<1>3. /\ cache'[t] = [cache[t] EXCEPT !.slot = npos] /\ cache' = [u \in Threads |-> cache'[u]]
      /\ \A u \in Threads \ {t} : cache'[u] = cache[u]
  BY <1>1, Zenon DEF TypeOK
<1>4. /\ cache'[t] \in [slot : Slots \cup {npos}, depth : 0..MaxDepth]
      /\ cache'[t].slot = npos /\ cache'[t].depth = cache[t].depth
  BY <1>1, <1>3, CacheFields
<1>5. cache' \in [Threads -> [slot : Slots \cup {npos}, depth : 0..MaxDepth]]
  BY <1>1, <1>3, <1>4, CacheFields, Zenon
<1>6. /\ \A u \in Threads : Inside(u)' <=> Inside(u)
      /\ \A u \in Threads \ {t} : Slot(u)' = Slot(u)
      /\ Slot(t)' = npos
  BY <1>3, <1>4 DEF Inside, Slot
<1>7. /\ pc' \in [Threads -> Labels] /\ stack' \in [Threads -> Seq(Labels)] /\ StackFits'
      /\ pc'[t] = "flush" /\ \A u \in Threads \ {t} : pc'[u] = pc[u]
  <2> DEFINE s == <<"idle">> \o <<>>
  <2>1. s \in Seq(Labels) /\ Fit("flush", s, "idle" = "inside")
    BY CallFits
  <2>2. pc' = [pc EXCEPT ![t] = "flush"] /\ stack' = [stack EXCEPT ![t] = s]
    BY <1>1, <1>2 DEF Call
  <2> HIDE DEF s
  <2>3. Fit("flush", s, Inside(t)) /\ "flush" \in Labels
    BY <1>2, <2>1 DEF Fit, Labels
  <2> QED  BY <1>6, <2>1, <2>2, <2>3, Calls, Zenon
<1>8. /\ local' \in [Slots -> 0..MaxEpoch \cup {InactiveEpoch}]
      /\ \A s \in Slots \ {Slot(t)} : local'[s] = local[s]
  BY <1>1 DEF TypeOK
<1>9. TypeOK'
  <2>1. used' \subseteq Slots
    BY <1>1 DEF TypeOK
  <2> QED  BY <1>1, <1>5, <1>7, <1>8, <2>1 DEF TypeOK, retireVars, listVars
<1>10. SlotsOwned'
  <2>1. \A u \in Threads : /\ Slot(u)' # npos => Slot(u)' \in used'
                           /\ Inside(u)' => Slot(u)' # npos
    BY <1>1, <1>2, <1>6 DEF EpochInvariant, SlotsOwned
  <2>2. \A u, v \in Threads : u # v /\ Slot(u)' = Slot(v)' => Slot(u)' = npos
    BY <1>6 DEF EpochInvariant, SlotsOwned
  <2> QED  BY <2>1, <2>2 DEF SlotsOwned
<1>11. HasNothing(t) /\ EnterSafe(t)'
  BY <1>1, <1>2, <1>6, <1>7 DEF HasNothing, EnterSafe
<1>12. \A u \in Threads \ {t} : Inside(u) => local'[Slot(u)] = local[Slot(u)]
  <2>1. ASSUME NEW u \in Threads \ {t}, Inside(u) PROVE local'[Slot(u)] = local[Slot(u)]
    <3>1. Slot(u) \in Slots /\ Slot(u) # Slot(t)
      BY <2>1, StampTypes DEF EpochInvariant, SlotsOwned
    <3> QED  BY <1>8, <3>1
  <2> QED  BY <2>1
<1>13. Reads(t)
  <2>1. UNCHANGED <<global, location, claimed, tag, freed, forced, pending, buf, ref, reg, waitFor>>
    BY <1>1 DEF retireVars, listVars
  <2> QED  BY <1>6, <1>7, <1>11, <1>12, <2>1, Zenon DEF Reads
<1> QED  BY <1>7, <1>9, <1>10, <1>13, ReadsKeeps
-----------------------------------------------------------------------------
(* Steps that unlink, claim or free an object.                             *)

LEMMA UnlinkKeeps ==
  ASSUME EpochInvariant, NEW t \in Threads, Unlink(t)
  PROVE  EpochInvariant'
<1>1. /\ UNCHANGED <<global, policy, readerVars, claimed, tag, buf, stack, waitFor, listVars>>
      /\ UNCHANGED <<local, cache, ref, used, pending, freed, forced>>
      /\ pc[t] = "idle" /\ location # None /\ Goto(t, "retire")
      /\ reg' = [reg EXCEPT ![t].obj = location]
      /\ TypeOK /\ location \in Objects /\ reg \in [Threads -> Locals]
      /\ claimed \subseteq Objects
  BY DEF Unlink, readerVars, listVars, EpochInvariant, TypeOK
<1>2. /\ location' \in {None} \cup (Objects \ (claimed \cup {location}))
      /\ \A u \in Threads : location' # reg[u].obj \/ location' = None
  BY DEF Unlink
<1>3. /\ reg' \in [Threads -> Locals] /\ \A u \in Threads \ {t} : reg'[u] = reg[u]
      /\ reg'[t].obj = location
      /\ reg'[t].taken = reg[t].taken /\ reg'[t].keep = reg[t].keep
  BY <1>1, SetObj, Zenon
<1>4. /\ pc' \in [Threads -> Labels] /\ StackFits'
      /\ pc'[t] = "retire" /\ \A u \in Threads \ {t} : pc'[u] = pc[u]
  <2>1. "retire" \in Labels \ (Flushing \cup Passing \cup {"inside"})
        /\ pc[t] \notin Flushing \cup Passing \cup {"inside"}
    BY <1>1 DEF Labels, Flushing, Passing
  <2> QED  BY <1>1, <2>1, GoFits
<1>5. TypeOK'
  BY <1>1, <1>2, <1>3, <1>4 DEF TypeOK, readerVars, listVars
<1>6. \A u \in Threads : Slot(u)' = Slot(u) /\ (Inside(u)' <=> Inside(u))
  BY <1>1 DEF Slot, Inside
<1>7. SlotsOwned' /\ Stamps' /\ Tags' /\ NoUseAfterFree'
  BY <1>1, <1>6, Zenon DEF EpochInvariant, SlotsOwned, Stamps, Tags, NoUseAfterFree
<1>8. Claims'
  <2>1. location' \notin claimed' /\ pending' \in Seq(claimed')
    BY <1>1, <1>2, ListsClaimed, EpochAssumption, Zenon
  <2>2. ASSUME NEW u \in Threads
        PROVE  /\ pc'[u] = "retire" => reg'[u].obj \in Objects /\ reg'[u].obj # location'
               /\ buf'[u] \in Seq(claimed')
               /\ reg'[u].taken \in Seq(claimed') /\ reg'[u].keep \in Seq(claimed')
    <3>1. CASE u # t
      BY <1>1, <1>2, <1>3, <1>4, <3>1, EpochAssumption DEF EpochInvariant, Claims
    <3>2. CASE u = t
      BY <1>1, <1>2, <1>3, <3>2, EpochAssumption DEF EpochInvariant, Claims
    <3> QED  BY <3>1, <3>2
  <2> QED  BY <2>1, <2>2, Zenon DEF Claims
<1>9. ASSUME NEW v \in Threads PROVE Safe(v)'
  <2>1. CASE v = t
    BY <1>4, <2>1 DEF Safe, EnterSafe, ScanSafe, SyncSafe
  <2>2. CASE v # t
    <3>1. reg'[v] = reg[v] /\ pc'[v] = pc[v] /\ Safe(v)
      BY <1>3, <1>4, <2>2 DEF EpochInvariant
    <3>2. EnterSafe(v)'
      BY <1>1, <1>6, <3>1 DEF Safe, EnterSafe
    <3>3. ScanSafe(v)'
      BY <1>1, <1>6, <3>1 DEF Safe, ScanSafe
    <3>4. SyncSafe(v)'
      <4>1. waitFor[v] \subseteq Threads
        BY <1>1, Zenon DEF TypeOK
      <4> QED  BY <1>1, <1>6, <3>1, <4>1 DEF Safe, SyncSafe
    <3> QED  BY <3>2, <3>3, <3>4, Zenon DEF Safe
  <2> QED  BY <2>1, <2>2, Zenon
<1> QED  BY <1>4, <1>5, <1>7, <1>8, <1>9 DEF EpochInvariant

LEMMA SameSafe ==
  ASSUME EpochInvariant, NEW v \in Threads, pc'[v] = pc[v], reg'[v].pos = reg[v].pos \/ pc[v] = "free",
         reg'[v].epoch = reg[v].epoch, reg'[v].min = reg[v].min, reg'[v].taken = reg[v].taken,
         UNCHANGED <<global, local, cache, ref, forced, waitFor>>, freed \subseteq freed'
  PROVE  Safe(v)'
<1>1. Safe(v) /\ waitFor[v] \subseteq Threads
  BY Zenon DEF EpochInvariant, TypeOK
<1>2. \A u \in Threads : Slot(u)' = Slot(u) /\ (Inside(u)' <=> Inside(u))
  BY Zenon DEF Slot, Inside
<1>3. EnterSafe(v)'
  BY <1>1, <1>2 DEF Safe, EnterSafe
<1>4. ScanSafe(v)'
  BY <1>1, <1>2, Zenon DEF Safe, ScanSafe
<1>5. SyncSafe(v)'
  BY <1>1, <1>2, Zenon DEF Safe, SyncSafe
<1> QED  BY <1>3, <1>4, <1>5 DEF Safe

LEMMA RetireKeeps ==
  ASSUME EpochInvariant, NEW t \in Threads, NEW o \in Objects, NEW back \in {"idle", "inside"},
         o # location, pc[t] \in {"inside", "retire"}, back = "inside" <=> pc[t] = "inside",
         Retire(t, o, back)
  PROVE  EpochInvariant'
<1>1. /\ UNCHANGED <<global, policy, readerVars, location, waitFor, listVars>>
      /\ UNCHANGED <<local, cache, ref, used, pending, freed, forced>>
      /\ reg' = [reg EXCEPT ![t].obj = None] /\ TypeOK /\ reg \in [Threads -> Locals]
      /\ claimed \subseteq Objects /\ global \in 0..MaxEpoch
  BY DEF Retire, readerVars, listVars, EpochInvariant, TypeOK
<1>2. stack[t] = <<>> /\ (Inside(t) <=> back = "inside") /\ Inside(t) \in BOOLEAN
  <2>1. pc[t] \in Labels \ (Flushing \cup Passing)
    BY DEF Labels, Flushing, Passing
  <2>2. stack[t] = <<>> /\ (Inside(t) <=> pc[t] = "inside")
    BY <2>1, WhereInside, Zenon
  <2>3. Inside(t) \in BOOLEAN
    BY DEF Inside
  <2> QED  BY <2>2, <2>3, Zenon
<1>3. /\ reg' \in [Threads -> Locals] /\ \A u \in Threads \ {t} : reg'[u] = reg[u]
      /\ reg'[t].taken = reg[t].taken /\ reg'[t].keep = reg[t].keep
  BY <1>1, SetObj, Zenon
<1>4. \A u \in Threads : Slot(u)' = Slot(u) /\ (Inside(u)' <=> Inside(u))
  BY <1>1 DEF Slot, Inside
<1>5. /\ pc' \in [Threads -> Labels] /\ stack' \in [Threads -> Seq(Labels)] /\ StackFits'
      /\ pc'[t] \in Plain /\ \A u \in Threads \ {t} : pc'[u] = pc[u]
  <2>1. CASE Goto(t, back) /\ UNCHANGED stack
    <3>1. pc' = [pc EXCEPT ![t] = back] /\ stack' = [stack EXCEPT ![t] = <<>>]
      BY <1>1, <1>2, <2>1 DEF Goto, TypeOK
    <3>2. <<>> \in Seq(Labels) /\ back \in Labels \ (Flushing \cup Passing) /\ back \in Plain
      BY DEF Labels, Flushing, Passing, Plain
    <3>3. <<>> # <<"inside">> /\ <<>> # <<"autoend", "inside">>
      OBVIOUS
    <3>4. Fit(back, <<>>, Inside(t))
      BY <1>2, <3>2, <3>3, Zenon DEF Fit
    <3> QED  BY <1>4, <3>1, <3>2, <3>4, Calls, Zenon
  <2>2. CASE Call(t, "flush", back)
    <3> DEFINE s == <<back>> \o <<>>
    <3>1. s \in Seq(Labels) /\ Fit("flush", s, back = "inside")
      BY CallFits
    <3>2. pc' = [pc EXCEPT ![t] = "flush"] /\ stack' = [stack EXCEPT ![t] = s]
      BY <1>2, <2>2 DEF Call
    <3> HIDE DEF s
    <3>3. Fit("flush", s, Inside(t)) /\ "flush" \in Labels /\ "flush" \in Plain
      BY <1>2, <3>1, Zenon DEF Fit, Labels, Plain
    <3> QED  BY <1>4, <3>1, <3>2, <3>3, Calls, Zenon
  <2> QED  BY <2>1, <2>2 DEF Retire
<1>6. pc'[t] # "retire" /\ Safe(t)'
  BY <1>5, PlainSafe
<1>7. CASE o \in claimed
  <2>1. UNCHANGED <<claimed, tag, buf>>
    BY <1>7 DEF Retire
  <2>2. TypeOK'
    BY <1>1, <1>3, <1>5, <2>1, Zenon DEF TypeOK, readerVars, listVars
  <2>3. global <= global'
    BY <1>1
  <2>4. \A u \in Threads : buf'[u] \in Seq(claimed) /\ reg'[u].taken \in Seq(claimed)
                            /\ reg'[u].keep \in Seq(claimed)
    BY <1>3, <2>1, ListsClaimed, Zenon
  <2>5. Quiet
    BY <1>1, <1>3, <1>5, <1>6, <2>1, <2>3, <2>4, ListsClaimed DEF Quiet
  <2> QED  BY <1>5, <2>2, <2>5, QuietKeeps
<1>8. CASE o \notin claimed
  <2>1. /\ claimed' = claimed \cup {o} /\ tag' = [tag EXCEPT ![o] = global]
        /\ buf' = [buf EXCEPT ![t] = Append(buf[t], o)]
    BY <1>8 DEF Retire
  <2>2. /\ claimed' \subseteq Objects /\ freed \subseteq claimed'
        /\ tag' \in [Objects -> 0..MaxEpoch] /\ tag'[o] = global
        /\ \A p \in Objects \ {o} : tag'[p] = tag[p]
        /\ buf' \in [Threads -> Seq(Objects)] /\ buf'[t] = Append(buf[t], o)
        /\ \A u \in Threads \ {t} : buf'[u] = buf[u]
    BY <1>1, <2>1 DEF TypeOK
  <2>3. TypeOK'
    BY <1>1, <1>3, <1>5, <2>2, Zenon DEF TypeOK, readerVars, listVars
  <2>4. SlotsOwned' /\ Stamps' /\ NoUseAfterFree'
    BY <1>1, <1>4 DEF EpochInvariant, SlotsOwned, Stamps, NoUseAfterFree
  <2>5. Tags'
    <3>1. ASSUME NEW u \in Threads, NEW p \in ref[u]
          PROVE  Inside(u) /\ (p \in claimed' \ freed => local[Slot(u)] <= tag'[p])
      <4>1. p \in Objects /\ Inside(u) /\ (p \in claimed \ freed => local[Slot(u)] <= tag[p])
            /\ local[Slot(u)] <= global
        <5>1. p \in Objects
          BY <1>1, <3>1 DEF TypeOK
        <5>2. Inside(u) /\ (p \in claimed \ freed => local[Slot(u)] <= tag[p])
          BY <3>1, Zenon DEF EpochInvariant, Tags
        <5>3. local[Slot(u)] <= global
          BY <1>1, <3>1, HolderStamped
        <5> QED  BY <5>1, <5>2, <5>3, Zenon
      <4> QED  BY <2>1, <2>2, <4>1, Zenon
    <3> QED  BY <1>1, <1>4, <3>1 DEF Tags
  <2>6. Claims'
    <3>1. \A s \in Seq(claimed) : s \in Seq(claimed')
      BY <2>1
    <3>2. location' \notin claimed' /\ pending' \in Seq(claimed')
      BY <1>1, <2>1, <3>1, ListsClaimed DEF EpochInvariant, Claims
    <3>3. ASSUME NEW u \in Threads
          PROVE  /\ pc'[u] = "retire" => reg'[u].obj \in Objects /\ reg'[u].obj # location'
                 /\ buf'[u] \in Seq(claimed')
                 /\ reg'[u].taken \in Seq(claimed') /\ reg'[u].keep \in Seq(claimed')
      <4>1. CASE u # t
        BY <1>1, <1>3, <1>5, <2>2, <3>1, <4>1, Zenon DEF EpochInvariant, Claims
      <4>2. CASE u = t
        <5>1. buf[t] \in Seq(claimed') /\ reg[t].taken \in Seq(claimed') /\ reg[t].keep \in Seq(claimed')
          BY <3>1, ListsClaimed, Zenon
        <5>2. o \in claimed'
          BY <2>1
        <5>3. Append(buf[t], o) \in Seq(claimed')
          BY <5>1, <5>2, AppendSeq, Zenon
        <5> QED  BY <1>3, <1>6, <2>2, <4>2, <5>1, <5>3, Zenon
      <4> QED  BY <4>1, <4>2, Zenon
    <3> QED  BY <3>2, <3>3, Zenon DEF Claims
  <2>7. ASSUME NEW v \in Threads PROVE Safe(v)'
    <3>1. CASE v = t
      BY <1>6, <3>1
    <3>2. CASE v # t
      BY <1>1, <1>3, <1>5, <3>2, SameSafe
    <3> QED  BY <3>1, <3>2
  <2> QED  BY <1>5, <2>3, <2>4, <2>5, <2>6, <2>7 DEF EpochInvariant
<1> QED  BY <1>7, <1>8

LEMMA FreeNextKeeps ==
  ASSUME EpochInvariant, NEW t \in Threads, FreeNext(t)
  PROVE  EpochInvariant'
<1> DEFINE i == reg[t].pos
           o == reg[t].taken[i]
<1>1. /\ UNCHANGED <<global, policy, readerVars, location, claimed, buf, pending, ledger, reclaiming,
                     forced, pc, stack, waitFor>>
      /\ UNCHANGED <<local, cache, ref, used>>
      /\ TypeOK /\ reg \in [Threads -> Locals] /\ reg[t] \in Locals /\ pc[t] = "free"
      /\ claimed \subseteq Objects /\ freed \subseteq claimed /\ global \in 0..MaxEpoch
      /\ tag \in [Objects -> 0..MaxEpoch]
  <2>1. /\ UNCHANGED <<global, policy, readerVars, location, claimed, buf, pending, ledger,
                       reclaiming, forced, pc, stack, waitFor>>
        /\ UNCHANGED <<local, cache, ref, used>> /\ pc[t] = "free"
    BY DEF FreeNext, readerVars
  <2>2. /\ TypeOK /\ reg \in [Threads -> Locals] /\ reg[t] \in Locals
        /\ claimed \subseteq Objects /\ freed \subseteq claimed /\ global \in 0..MaxEpoch
        /\ tag \in [Objects -> 0..MaxEpoch]
    BY Zenon DEF EpochInvariant, TypeOK
  <2> QED  BY <2>1, <2>2
<1>2. /\ i \in Nat \ {0} /\ reg[t].min \in 0..InactiveEpoch
      /\ reg[t].taken \in Seq(claimed) /\ reg[t].keep \in Seq(claimed)
  BY <1>1, LocalsFields, ListsClaimed, Zenon
<1>3. i \in 1..Len(reg[t].taken) /\ o \in claimed /\ o \in Objects
  <2>1. i <= Len(reg[t].taken)
    BY DEF FreeNext, More
  <2>2. /\ i \in Nat \ {0} /\ o = reg[t].taken[i]
        /\ reg[t].taken \in Seq(claimed) /\ claimed \subseteq Objects
    BY <1>1, <1>2, Zenon
  <2> QED  BY <2>1, <2>2
<1>4. \A u \in Threads : Slot(u)' = Slot(u) /\ (Inside(u)' <=> Inside(u))
  BY <1>1, Zenon DEF Slot, Inside
<1>5. StackFits' /\ SlotsOwned' /\ Stamps'
  BY <1>1, <1>4, Zenon DEF EpochInvariant, StackFits, SlotsOwned, Stamps, Fit
<1> HIDE DEF i, o
<1>6. CASE Reclaimable(o, reg[t].min)
  <2>1. /\ freed' = freed \cup {o} /\ tag' = [tag EXCEPT ![o] = 0]
        /\ reg' = [reg EXCEPT ![t].pos = i + 1]
    BY <1>6 DEF FreeNext, o, i
  <2>2. /\ reg' \in [Threads -> Locals] /\ \A u \in Threads \ {t} : reg'[u] = reg[u]
        /\ reg'[t].epoch = reg[t].epoch /\ reg'[t].min = reg[t].min
        /\ reg'[t].taken = reg[t].taken /\ reg'[t].keep = reg[t].keep
    <3>1. i + 1 \in Nat \ {0}
      BY <1>2
    <3> QED  BY <1>1, <2>1, <3>1, SetPos, Zenon
  <2>3. /\ freed' \subseteq claimed /\ tag' \in [Objects -> 0..MaxEpoch]
        /\ \A p \in Objects \ {o} : tag'[p] = tag[p]
    <3>1. 0 \in 0..MaxEpoch
      BY EpochAssumption
    <3> QED  BY <1>1, <1>3, <2>1, <3>1
  <2>4. TypeOK'
    BY <1>1, <2>2, <2>3, Zenon DEF TypeOK, readerVars
  <2>5. Tags'
    <3>1. ASSUME NEW u \in Threads, NEW p \in ref[u]
          PROVE  Inside(u) /\ (p \in claimed \ freed' => local[Slot(u)] <= tag'[p])
      <4>1. p \in Objects /\ Inside(u) /\ (p \in claimed \ freed => local[Slot(u)] <= tag[p])
        BY <1>1, <3>1, Zenon DEF EpochInvariant, Tags, TypeOK
      <4> QED  BY <2>1, <2>3, <4>1
    <3> QED  BY <1>1, <1>4, <3>1, Zenon DEF Tags
  <2>6. NoUseAfterFree'
    <3>1. ASSUME NEW u \in Threads, o \in ref[u], ~forced PROVE FALSE
      <4>1. o \notin freed
        BY <3>1 DEF EpochInvariant, NoUseAfterFree
      <4>2. local[Slot(u)] <= tag[o]
        BY <1>3, <3>1, <4>1 DEF EpochInvariant, Tags
      <4>3. reg[t].min <= local[Slot(u)]
        BY <1>1, <1>3, <3>1, <4>1, ZenonT(60) DEF EpochInvariant, Safe, ScanSafe, o
      <4>4. local[Slot(u)] \in Nat /\ tag[o] \in Nat /\ reg[t].min \in Nat
        <5>1. local[Slot(u)] \in Nat
          BY <3>1, HolderStamped, Zenon
        <5> QED  BY <1>1, <1>2, <1>3, <5>1, EpochAssumption DEF InactiveEpoch
      <4> QED  BY <1>6, <4>2, <4>3, <4>4 DEF Reclaimable
    <3> QED  BY <1>1, <2>1, <3>1 DEF NoUseAfterFree, EpochInvariant
  <2>7. Claims'
    <3>1. ASSUME NEW u \in Threads
          PROVE  reg'[u].taken = reg[u].taken /\ reg'[u].keep = reg[u].keep
                 /\ (u # t => reg'[u].obj = reg[u].obj)
      BY <2>2
    <3>2. pc'[t] # "retire" /\ pc' = pc /\ buf' = buf /\ pending' = pending
      BY <1>1
    <3> QED  BY <1>1, <3>1, <3>2, Zenon DEF EpochInvariant, Claims
  <2>8. ASSUME NEW v \in Threads PROVE Safe(v)'
    <3>1. CASE v = t
      BY <1>1, <2>1, <2>2, <3>1, SameSafe
    <3>2. CASE v # t
      BY <1>1, <2>1, <2>2, <3>2, SameSafe
    <3> QED  BY <3>1, <3>2
  <2> QED  BY <1>5, <2>4, <2>5, <2>6, <2>7, <2>8 DEF EpochInvariant
<1>7. CASE ~Reclaimable(o, reg[t].min)
  <2>1. /\ UNCHANGED <<freed, tag>>
        /\ reg' = [reg EXCEPT ![t].pos = i + 1, ![t].keep = Append(reg[t].keep, o)]
    BY <1>7 DEF FreeNext, o, i
  <2> DEFINE k == Append(reg[t].keep, o)
             n == i + 1
  <2>2. k \in Seq(claimed) /\ k \in Seq(Objects) /\ n \in Nat \ {0}
    BY <1>1, <1>2, <1>3
  <2>3. reg' = [reg EXCEPT ![t].pos = n, ![t].keep = k]
    BY <2>1
  <2> HIDE DEF k, n
  <2>4. /\ reg'[t] = [reg[t] EXCEPT !.pos = n, !.keep = k]
        /\ \A u \in Threads \ {t} : reg'[u] = reg[u]
    BY <1>1, <2>3
  <2>5. /\ reg'[t] \in Locals /\ reg'[t].keep = k /\ reg'[t].taken = reg[t].taken
        /\ reg'[t].epoch = reg[t].epoch /\ reg'[t].min = reg[t].min
    BY <1>1, <2>2, <2>4, Zenon DEF Locals
  <2>6. reg' \in [Threads -> Locals]
    BY <1>1, <2>3, <2>4, <2>5
  <2>7. TypeOK'
    BY <1>1, <2>1, <2>6 DEF TypeOK, readerVars
  <2>8. Safe(t)' /\ pc'[t] # "retire"
    BY <1>1, <2>1, <2>5, SameSafe
  <2>9. Quiet
    <3>1. global <= global'
      BY <1>1
    <3>2. \A u \in Threads : buf'[u] \in Seq(claimed) /\ reg'[u].taken \in Seq(claimed)
                              /\ reg'[u].keep \in Seq(claimed)
      BY <1>1, <2>2, <2>4, <2>5, ListsClaimed, Zenon
    <3> QED  BY <1>1, <2>1, <2>4, <2>8, <3>1, <3>2, ListsClaimed, Zenon DEF Quiet
  <2> QED  BY <1>5, <2>7, <2>9, QuietKeeps
<1> QED  BY <1>6, <1>7
-----------------------------------------------------------------------------
LEMMA InitInvariant == Init => EpochInvariant
<1> SUFFICES ASSUME Init PROVE EpochInvariant
  OBVIOUS
<1>1. /\ InactiveEpoch \in 0..MaxEpoch \cup {InactiveEpoch} /\ 0 \in 0..MaxEpoch /\ 0 \in 0..MaxDepth
      /\ "idle" \in Labels \ (Flushing \cup Passing)
      /\ \A S : <<>> \in Seq(S)
  BY EpochAssumption DEF Labels, Flushing, Passing
<1>2. TypeOK
  <2>1. /\ global \in 0..MaxEpoch /\ policy \in {"kFailAdvance", "kForceAdvance"} /\ used \subseteq Slots
        /\ local \in [Slots -> 0..MaxEpoch \cup {InactiveEpoch}]
        /\ location \in Objects \cup {None} /\ ref \in [Threads -> SUBSET Objects]
        /\ claimed \subseteq Objects /\ freed \subseteq claimed /\ tag \in [Objects -> 0..MaxEpoch]
    BY <1>1 DEF Init
  <2>2. cache \in [Threads -> [slot : Slots \cup {npos}, depth : 0..MaxDepth]]
    BY <1>1 DEF Init
  <2>3. /\ buf \in [Threads -> Seq(Objects)] /\ pending \in Seq(Objects) /\ ledger \in Int
        /\ reclaiming \in BOOLEAN /\ forced \in BOOLEAN
        /\ pc \in [Threads -> Labels] /\ stack \in [Threads -> Seq(Labels)]
        /\ waitFor \in [Threads -> SUBSET Threads]
    <3>1. buf \in [Threads -> Seq(Objects)] /\ pending \in Seq(Objects)
      BY DEF Init
    <3>2. ledger \in Int
      BY DEF Init
    <3>5. reclaiming \in BOOLEAN /\ forced \in BOOLEAN
      BY Zenon DEF Init
    <3>3. pc \in [Threads -> Labels] /\ waitFor \in [Threads -> SUBSET Threads]
      BY <1>1 DEF Init
    <3>4. stack \in [Threads -> Seq(Labels)]
      BY DEF Init
    <3> QED  BY <3>1, <3>2, <3>3, <3>4, <3>5
  <2>4. reg \in [Threads -> Locals]
    BY NoLocals DEF Init
  <2> QED  BY <2>1, <2>2, <2>3, <2>4, Zenon DEF TypeOK
<1>3. \A t \in Threads : ~Inside(t) /\ Slot(t) = npos /\ ref[t] = {} /\ pc[t] = "idle"
                          /\ stack[t] = <<>> /\ waitFor[t] = {} /\ reg[t] = NoRegs /\ buf[t] = <<>>
  BY DEF Init, Inside, Slot
<1>4. StackFits
  <2>1. <<>> # <<"inside">> /\ <<>> # <<"autoend", "inside">>
    BY Zenon
  <2> QED  BY <1>1, <1>3, <2>1, Zenon DEF StackFits, Fit
<1>5. SlotsOwned /\ Stamps /\ Tags /\ NoUseAfterFree
  BY <1>3 DEF SlotsOwned, Stamps, Tags, NoUseAfterFree
<1>6. Claims
  BY <1>1, <1>3, NoLocals, Zenon DEF Claims, Init
<1>7. \A t \in Threads : Safe(t)
  BY <1>3, Zenon DEF Safe, EnterSafe, ScanSafe, SyncSafe
<1> QED  BY <1>2, <1>4, <1>5, <1>6, <1>7 DEF EpochInvariant

LEMMA StutterKeeps == EpochInvariant /\ UNCHANGED vars => EpochInvariant'
<1> SUFFICES ASSUME EpochInvariant, UNCHANGED vars PROVE EpochInvariant'
  BY Zenon
<1>1. /\ UNCHANGED <<global, policy, used, local, cache, location, ref, claimed, tag, buf, pending,
                     ledger, reclaiming, freed, forced, pc, stack, reg, waitFor>>
  BY DEF vars
<1>2. TypeOK' /\ StackFits'
  BY <1>1, Zenon DEF EpochInvariant, TypeOK, StackFits, Fit, Inside
<1>3. Quiet
  <2>1. global <= global'
    BY <1>1 DEF EpochInvariant, TypeOK
  <2>2. \A u \in Threads : pc'[u] = pc[u] /\ reg'[u] = reg[u] /\ waitFor'[u] \subseteq waitFor[u]
    BY <1>1, Zenon
  <2> QED  BY <1>1, <2>1, <2>2, ListsClaimed, ZenonT(60) DEF Quiet, readerVars
<1> QED  BY <1>2, <1>3, QuietKeeps

LEMMA NextKeeps == EpochInvariant /\ [Next]_vars => EpochInvariant'
<1> SUFFICES ASSUME EpochInvariant, [Next]_vars PROVE EpochInvariant'
  OBVIOUS
<1>1. CASE UNCHANGED vars
  BY <1>1, StutterKeeps
<1>2. CASE TimeAdvance
  BY <1>2, TimeKeeps
<1>3. ASSUME NEW t \in Threads, ReaderStep(t) PROVE EpochInvariant'
  BY <1>3, AcquireKeeps, EnterKeeps, EnterStampKeeps, NestedLoadKeeps, ExitKeeps, Zenon DEF ReaderStep
<1>4. ASSUME NEW t \in Threads, RetireStep(t) PROVE EpochInvariant'
  <2>1. CASE RetireUnlinked(t)
    <3>1. /\ pc[t] = "retire" /\ Retire(t, reg[t].obj, "idle")
          /\ reg[t].obj \in Objects /\ reg[t].obj # location
      BY <2>1, Zenon DEF RetireUnlinked, EpochInvariant, Claims
    <3> QED  BY <3>1, RetireKeeps
  <2>2. CASE RetireAgain(t)
    <3>1. PICK o \in ref[t] : o # location /\ Retire(t, o, "inside") /\ pc[t] = "inside"
      BY <2>2, ZenonT(60) DEF RetireAgain
    <3>2. o \in Objects
      BY <3>1 DEF EpochInvariant, TypeOK
    <3> QED  BY <3>1, <3>2, RetireKeeps
  <2> QED  BY <1>4, <2>1, <2>2, ThreadExitKeeps, UnlinkKeeps, FlushKeeps, AdvanceKeeps, AutoKeeps, Zenon
           DEF RetireStep
<1>5. ASSUME NEW t \in Threads, ReclaimStep(t) PROVE EpochInvariant'
  BY <1>5, AutoKeeps, ExchangeKeeps, ScanSlotKeeps, ScanEndKeeps, FreeNextKeeps, FreeEndKeeps,
     PutBackKeeps DEF ReclaimStep
<1>6. ASSUME NEW t \in Threads, SyncStep(t) PROVE EpochInvariant'
  BY <1>6, SyncKeeps, SyncEndKeeps DEF SyncStep
<1> QED  BY <1>1, <1>2, <1>3, <1>4, <1>5, <1>6 DEF Next

(* The inductive invariant holds in every reachable state.                 *)
THEOREM EpochIsSound == Spec => []EpochInvariant
BY InitInvariant, NextKeeps, PTL DEF Spec

(* No reader holds a freed object, unless the force-advance policy has     *)
(* skipped one: tag + 1 < min_epoch in try_reclaim() is enough although    *)
(* the scan reads the slots one at a time while readers come and go.       *)
THEOREM ReadersAreSafe == Spec => []NoUseAfterFree
<1>1. EpochInvariant => NoUseAfterFree
  BY DEF EpochInvariant
<1> QED  BY <1>1, EpochIsSound, PTL

(* synchronize_epoch() returns true only when every reader that was inside *)
(* at the call has left.                                                   *)
THEOREM SynchronizeWaits == Spec => []SyncWaitsForReaders
<1>1. EpochInvariant => SyncWaitsForReaders
  BY DEF EpochInvariant, Safe, SyncSafe, SyncWaitsForReaders
<1> QED  BY <1>1, EpochIsSound, PTL
-----------------------------------------------------------------------------
(* Refinement.                                                             *)
reachable == IF location = None THEN {} ELSE {location}
abstractVars == <<location, ref, claimed, freed, forced>>

(* The steps that the abstract specification does not see.                 *)
LEMMA Unseen ==
  ASSUME NEW t \in Threads,
         \/ AcquireSlot(t) \/ EnterCached(t) \/ EnterLoad(t) \/ EnterStamp(t) \/ EnterNested(t)
         \/ ThreadExit(t) \/ Flush(t) \/ AdvanceCheck(t) \/ AdvanceCas(t) \/ CapacityAdvance(t)
         \/ AutoReclaim(t) \/ AutoEnd(t) \/ TryReclaim(t) \/ Exchange(t) \/ ScanEnd(t)
         \/ FreeEnd(t) \/ PutBack(t) \/ SyncStep(t)
  PROVE  UNCHANGED abstractVars
BY Zenon
DEF AcquireSlot, EnterCached, EnterLoad, EnterStamp, EnterNested, ThreadExit, Flush, AdvanceCheck,
       AdvanceCas, CapacityAdvance, AutoReclaim, AutoEnd, TryReclaim, Exchange, ScanEnd, FreeEnd,
       PutBack, SyncStep, SyncCall, SyncSlot, SyncReturn, SyncTimeout, SyncDone, abstractVars,
       readerVars, retireVars, listVars

LEMMA UnseenStutters == UNCHANGED abstractVars => [Abstract!Next]_(Abstract!vars)
BY DEF abstractVars, Abstract!vars

LEMMA RetireMaps ==
  ASSUME EpochInvariant, NEW t \in Threads, NEW o \in Objects, o # location, NEW back,
         Retire(t, o, back)
  PROVE  [Abstract!Next]_(Abstract!vars)
<1>1. UNCHANGED <<location, ref, freed, forced>>
  BY DEF Retire, readerVars, listVars
<1>2. CASE o \in claimed
  <2>1. UNCHANGED abstractVars
    BY <1>1, <1>2 DEF Retire, abstractVars
  <2> QED  BY <2>1, UnseenStutters
<1>3. CASE o \notin claimed
  <2>1. claimed' = claimed \cup {o}
    BY <1>3 DEF Retire
  <2>2. Abstract!Retire(o)
    BY <1>1, <1>3, <2>1 DEF Abstract!Retire
  <2> QED  BY <2>2 DEF Abstract!Next
<1> QED  BY <1>2, <1>3

LEMMA StepMaps ==
  ASSUME EpochInvariant, EpochInvariant', [Next]_vars
  PROVE  [Abstract!Next]_(Abstract!vars)
<1>1. CASE UNCHANGED vars \/ TimeAdvance
  <2>1. UNCHANGED abstractVars
    BY <1>1 DEF vars, TimeAdvance, readerVars, retireVars, listVars, abstractVars
  <2> QED  BY <2>1, UnseenStutters, Zenon
<1>2. ASSUME NEW t \in Threads, LoadPointer(t) \/ ExitCritical(t)
      PROVE  [Abstract!Next]_(Abstract!vars)
  <2>1. UNCHANGED <<location, claimed, freed, forced>>
    BY <1>2 DEF LoadPointer, ExitCritical, retireVars, listVars
  <2>2. CASE LoadPointer(t)
    <3>1. /\ ref' = [ref EXCEPT ![t] = ref[t] \cup {location}] /\ location # None
      BY <2>2 DEF LoadPointer
    <3>2. Abstract!Reference(t)
      BY <2>1, <3>1, Zenon DEF Abstract!Reference
    <3> QED  BY <3>2 DEF Abstract!Next
  <2>3. CASE ExitCritical(t) /\ cache[t].depth > 1
    <3>1. UNCHANGED abstractVars
      BY <2>1, <2>3 DEF ExitCritical, abstractVars
    <3> QED  BY <3>1, UnseenStutters
  <2>4. CASE ExitCritical(t) /\ ~(cache[t].depth > 1)
    <3>1. ref' = [ref EXCEPT ![t] = {}]
      BY <2>4 DEF ExitCritical
    <3>2. Abstract!Reference(t)
      BY <2>1, <3>1, Zenon DEF Abstract!Reference
    <3> QED  BY <3>2 DEF Abstract!Next
  <2> QED  BY <1>2, <2>2, <2>3, <2>4
<1>3. ASSUME NEW t \in Threads, Unlink(t) PROVE [Abstract!Next]_(Abstract!vars)
  <2>1. /\ UNCHANGED <<ref, claimed, freed, forced>> /\ location # None
        /\ location' \in {None} \cup (Objects \ (claimed \cup {location}))
    BY <1>3, Zenon DEF Unlink, readerVars, listVars
  <2>2. location \in Objects /\ freed \subseteq claimed
    BY <2>1, Zenon DEF EpochInvariant, TypeOK
  <2> DEFINE out == {location}
             in == {location'} \ {None}
  <2>3. /\ out \in SUBSET Objects /\ in \in SUBSET Objects /\ out \subseteq reachable
        /\ in \cap (reachable \cup claimed \cup freed) = {}
        /\ reachable' = (reachable \ out) \cup in
    BY <2>1, <2>2, EpochAssumption, Zenon DEF reachable
  <2> HIDE DEF out, in
  <2>4. Abstract!Relink
    BY <2>1, <2>3 DEF Abstract!Relink, reachable
  <2> QED  BY <2>4 DEF Abstract!Next
<1>4. ASSUME NEW t \in Threads, RetireUnlinked(t) \/ RetireAgain(t)
      PROVE  [Abstract!Next]_(Abstract!vars)
  <2>1. CASE RetireUnlinked(t)
    <3>1. /\ Retire(t, reg[t].obj, "idle") /\ reg[t].obj \in Objects /\ reg[t].obj # location
      BY <2>1, Zenon DEF RetireUnlinked, EpochInvariant, Claims
    <3> QED  BY <3>1, RetireMaps
  <2>2. CASE RetireAgain(t)
    <3>1. PICK o \in ref[t] : o # location /\ Retire(t, o, "inside")
      BY <2>2, Zenon DEF RetireAgain
    <3>2. o \in Objects
      BY <3>1 DEF EpochInvariant, TypeOK
    <3> QED  BY <3>1, <3>2, RetireMaps, Zenon
  <2> QED  BY <1>4, <2>1, <2>2
<1>5. ASSUME NEW t \in Threads, ScanSlot(t) PROVE [Abstract!Next]_(Abstract!vars)
  <2>1. UNCHANGED <<location, ref, claimed, freed>> /\ (forced' = forced \/ forced' = TRUE)
    BY <1>5, Zenon DEF ScanSlot, readerVars, retireVars, EpochInvariant, TypeOK
  <2>2. CASE forced' = forced
    BY <2>1, <2>2, UnseenStutters DEF abstractVars
  <2>3. CASE forced' = TRUE
    <3>1. Abstract!ForceAdvance
      BY <2>1, <2>3 DEF Abstract!ForceAdvance
    <3> QED  BY <3>1 DEF Abstract!Next
  <2> QED  BY <2>1, <2>2, <2>3, Zenon
<1>6. ASSUME NEW t \in Threads, FreeNext(t) PROVE [Abstract!Next]_(Abstract!vars)
  <2>1. UNCHANGED <<location, ref, claimed, forced>> /\ freed \subseteq freed'
    BY <1>6, Zenon DEF FreeNext, readerVars
  <2>2. freed' \subseteq claimed
    BY <2>1 DEF EpochInvariant, TypeOK
  <2>3. forced \/ \A r \in Threads : ref[r] \cap (freed' \ freed) = {}
    BY <2>1, Zenon DEF EpochInvariant, NoUseAfterFree
  <2>4. Abstract!Free
    <3>1. freed' \ freed \in SUBSET (claimed \ freed) /\ freed' = freed \cup (freed' \ freed)
      BY <2>1, <2>2, Zenon
    <3> QED  BY <2>1, <2>3, <3>1, Zenon DEF Abstract!Free
  <2> QED  BY <2>4 DEF Abstract!Next
<1>7. ASSUME NEW t \in Threads, ReaderStep(t) \/ RetireStep(t) \/ ReclaimStep(t) \/ SyncStep(t)
      PROVE  [Abstract!Next]_(Abstract!vars)
  BY <1>2, <1>3, <1>4, <1>5, <1>6, <1>7, Unseen, UnseenStutters
  DEF ReaderStep, RetireStep, ReclaimStep
<1> QED  BY <1>1, <1>7 DEF Next

(* epoch_domain implements SafeReclamation: an object is retired once,     *)
(* after it has left the structure, and what is freed was retired and is   *)
(* held by no reader.                                                      *)
THEOREM EpochReclaimsSafely == Spec => ImplementsSafeReclamation
<1>1. Init => Abstract!Init
  BY DEF Init, Abstract!Init
<1>2. EpochInvariant /\ EpochInvariant' /\ [Next]_vars => [Abstract!Next]_(Abstract!vars)
  BY StepMaps
<1> QED  BY <1>1, <1>2, EpochIsSound, PTL DEF Spec, ImplementsSafeReclamation, Abstract!Spec
=============================================================================
