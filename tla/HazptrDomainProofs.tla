------------------------- MODULE HazptrDomainProofs -------------------------
(***************************************************************************)
(* Hazard pointers, for any number of readers, writers and nodes: a reader *)
(* that follows the contract of protect() - publish, then re-validate,     *)
(* then use - never looks into a freed node, and hazptr_domain implements  *)
(* SafeReclamation.                                                        *)
(*                                                                         *)
(* The argument.  What head and the links show is linked (ChainLive), so a *)
(* node that re-validation accepts is not yet claimed, and no pass has     *)
(* detached it: detached lists hold claimed nodes only (Lists).  The slot  *)
(* keeps showing the node while it is used.  A pass that detaches it later *)
(* scans the slots afterwards, so it has seen the slot or will see it      *)
(* before it frees anything (Covered).  For the read of an F14 slot        *)
(* re-validation compares versions: a version that still stands means that *)
(* head is what was loaded.                                                *)
(***************************************************************************)
EXTENDS HazptrDomain, TLAPS

(* The provers that a step is given when it names none, one after another. *)
USE SMTT(10), ZenonT(20), SMTT(20), SMTT(40)

(* What is assumed of the constants.                                       *)
Setting ==
    /\ Chain \in Seq(Nodes) /\ None \notin Nodes
    /\ \A i, j \in 1..Len(Chain) : Chain[i] = Chain[j] => i = j
    /\ Modes \subseteq {"reload", "slot", "walk", "pin"}

Walking == {"compare", "protectnext", "verify", "verifynext", "reach", "reachnext"}
Reading == {"load", "protect", "reload", "restamp", "use", "done"} \cup Walking
Deep == {"flush", "auto", "autoend", "exchange", "count", "scan", "putback", "release"}
Writing == {"unlink", "retire"} \cup Deep
Returns == {"idle", "exchange", "autoend", "release"}
Links == Nodes \cup {None}

Chains ==
    /\ head \in Links /\ nxt \in [Nodes -> Links] /\ version \in Nat
    /\ fresh \subseteq Nodes /\ claimed \subseteq Nodes \ fresh /\ freed \subseteq claimed

(* The links lead from younger to older nodes: no node leads to itself.    *)
NoLoops == \E rank \in [Nodes -> Int] :
    \A n \in Nodes : nxt[n] \in Nodes => rank[nxt[n]] < rank[n]

(* What can be reached by a link is neither fresh nor unlinked.            *)
ChainLive ==
    /\ head \in Nodes => ~Unlinked(head)
    /\ \A n \in Nodes : nxt[n] \in Nodes => ~Unlinked(nxt[n])

(* A writer has a node at hand exactly while it erases it, and no two have *)
(* the same.                                                               *)
Erasers ==
    /\ \A t \in Writers : IF pc[t] \in {"unlink", "retire"}
                          THEN reg[t].obj \in Nodes \ (claimed \cup fresh)
                          ELSE reg[t].obj = None
    /\ \A t, u \in Writers : t # u /\ reg[t].obj = reg[u].obj => reg[t].obj = None

(* The locals of a pass; only claimed nodes are buffered, pending or       *)
(* detached.                                                               *)
Locals(g) ==
    /\ g = [obj |-> g.obj, todo |-> g.todo, prot |-> g.prot, batch |-> g.batch, pos |-> g.pos,
            taken |-> g.taken, keep |-> g.keep, owed |-> g.owed]
    /\ g.pos \in Nat \ {0} /\ g.batch \in {0, 1}
    /\ g.taken \in Seq(claimed) /\ g.keep \in Seq(claimed)
Lists ==
    /\ reg = [t \in Writers |-> reg[t]] /\ \A t \in Writers : Locals(reg[t])
    /\ pending \in Seq(claimed)
    /\ buf = [t \in Writers |-> buf[t]] /\ \A t \in Writers : buf[t] \in Seq(claimed)

(* The return labels end with "idle", and there are some exactly inside    *)
(* flush_tls_buffer() and try_reclaim().                                   *)
Ends(s) == \A i \in 1..Len(s) : s[i] = "idle" <=> i = Len(s)
Stacks ==
    /\ pc \in [Readers \cup Writers -> {"idle"} \cup Reading \cup Writing]
    /\ stack = [t \in Writers |-> stack[t]]
    /\ \A t \in Writers : /\ stack[t] \in Seq(Returns) /\ Ends(stack[t])
                          /\ pc[t] \in Deep <=> stack[t] # <<>>

Readings ==
    /\ mode \in [Readers -> Modes] /\ active \subseteq Readers
    /\ hp \in [Readers -> Links \X Links]
    /\ ptr \in [Readers -> Links] /\ next \in [Readers -> Links] /\ cur \in [Readers -> Links]
    /\ stamp \in [Readers -> Nat] /\ bad \in [Readers -> BOOLEAN]

(* Where a reader is fits its protocol, and tells what its slot shows.     *)
ReaderFits(r) ==
    /\ pc[r] \in Reading => r \in active
    /\ pc[r] = "reload" => mode[r] = "reload"
    /\ pc[r] = "restamp" => mode[r] = "slot"
    /\ pc[r] \in Walking => mode[r] \notin Validated
    /\ pc[r] \in {"reload", "restamp", "use"} => hp[r][1] = ptr[r]
    /\ mode[r] \in Validated => ~bad[r]

(* A version that still stands means a head that still stands.             *)
StampFits(r) ==
    mode[r] = "slot" =>
      /\ pc[r] \in {"load", "protect", "restamp"} => stamp[r] <= version
      /\ pc[r] \in {"protect", "restamp"} /\ version = stamp[r] => ptr[r] = head

(* A pass over a node that is in use has found it in the reader's slot, or *)
(* has that slot still to scan.                                            *)
Covered(r, t) ==
    pc[t] = "scan" =>
      \A i \in 1..Len(reg[t].taken) :
         reg[t].taken[i] = ptr[r] => r \in reg[t].todo \/ ptr[r] \in reg[t].prot
UseSafe(r) ==
    pc[r] = "use" => /\ ptr[r] \in Nodes \ freed
                     /\ \A t \in Writers : Covered(r, t)

WriterSide == Chains /\ NoLoops /\ ChainLive /\ Erasers /\ Lists /\ Stacks
ReaderSide == Readings /\ \A r \in Readers : ReaderFits(r) /\ StampFits(r) /\ UseSafe(r)
HazptrInvariant == Setting /\ WriterSide /\ ReaderSide
-----------------------------------------------------------------------------
(* Sequences.                                                              *)
LEMMA SeqGrows == \A S, T : S \subseteq T => Seq(S) \subseteq Seq(T)
OBVIOUS

LEMMA ConcatSeq == \A S : \A s, u \in Seq(S) : s \o u \in Seq(S)
OBVIOUS

LEMMA AppendSeq == \A S : \A s \in Seq(S) : \A e \in S : Append(s, e) \in Seq(S)
OBVIOUS

LEMMA SubSeqSeq ==
  \A S : \A s \in Seq(S) : \A m \in Nat \ {0} : SubSeq(s, m, Len(s)) \in Seq(S)
OBVIOUS

LEMMA EmptySeq == \A S : <<>> \in Seq(S)
OBVIOUS

LEMMA EmptyLen == \A S : \A s \in Seq(S) : s = <<>> <=> Len(s) = 0
OBVIOUS

LEMMA Elements == \A S : \A s \in Seq(S) : Len(s) \in Nat /\ \A i \in 1..Len(s) : s[i] \in S
OBVIOUS

(* A writer that holds nothing.                                            *)
LEMMA NoLocals == Locals(NoRegs) /\ NoRegs.obj = None
<1>1. NoRegs.pos \in Nat \ {0} /\ NoRegs.batch \in {0, 1} /\ NoRegs.obj = None
  BY DEF NoRegs
<1>2. NoRegs.taken \in Seq(claimed) /\ NoRegs.keep \in Seq(claimed)
  BY EmptySeq DEF NoRegs
<1>3. NoRegs = [obj |-> NoRegs.obj, todo |-> NoRegs.todo, prot |-> NoRegs.prot,
                batch |-> NoRegs.batch, pos |-> NoRegs.pos, taken |-> NoRegs.taken,
                keep |-> NoRegs.keep, owed |-> NoRegs.owed]
  BY DEF NoRegs
<1> QED  BY <1>1, <1>2, <1>3, Zenon DEF Locals

LEMMA ReversedSeq == \A S : \A s \in Seq(S) : reverse_pending_list(s) \in Seq(S)
BY DEF reverse_pending_list

(* The return labels: one is pushed on others, the two of try_reclaim()    *)
(* are pushed on none, the first is popped.                                *)
LEMMA PushLabel ==
  \A s \in Seq(Returns) : \A l \in Returns \ {"idle"} :
    s # <<>> /\ Ends(s) => <<l>> \o s \in Seq(Returns) /\ <<l>> \o s # <<>> /\ Ends(<<l>> \o s)
<1> TAKE s \in Seq(Returns)
<1> TAKE l \in Returns \ {"idle"}
<1> HAVE s # <<>> /\ Ends(s)
<1> DEFINE n == <<l>> \o s
<1>1. n \in Seq(Returns) /\ Len(n) = Len(s) + 1 /\ Len(s) \in Nat \ {0} /\ n[1] = l
  OBVIOUS
<1>2. \A i \in 2..Len(n) : n[i] = s[i - 1]
  OBVIOUS
<1> HIDE DEF n
<1>3. Ends(n)
  BY <1>1, <1>2 DEF Ends
<1>4. n # <<>>
  BY <1>1
<1> QED  BY <1>1, <1>3, <1>4 DEF n

LEMMA FirstLabels ==
  /\ <<"idle">> \in Seq(Returns) /\ Ends(<<"idle">>)
  /\ <<"exchange", "idle">> \in Seq(Returns) /\ Ends(<<"exchange", "idle">>)
BY DEF Returns, Ends

LEMMA PopLabel ==
  \A s \in Seq(Returns) : s # <<>> /\ Ends(s) =>
    /\ Head(s) \in Returns /\ Tail(s) \in Seq(Returns) /\ Ends(Tail(s))
    /\ Head(s) = "idle" <=> Tail(s) = <<>>
<1> TAKE s \in Seq(Returns)
<1> HAVE s # <<>> /\ Ends(s)
<1> DEFINE n == Tail(s)
<1>1. /\ Len(s) \in Nat \ {0} /\ Head(s) = s[1] /\ s[1] \in Returns /\ n \in Seq(Returns)
      /\ Len(n) = Len(s) - 1
  OBVIOUS
<1>2. \A i \in 1..Len(n) : n[i] = s[i + 1]
  OBVIOUS
<1> HIDE DEF n
<1>3. n = <<>> <=> Len(n) = 0
  BY <1>1, EmptyLen
<1>4. Ends(n)
  BY <1>1, <1>2 DEF Ends
<1>5. Head(s) = "idle" <=> n = <<>>
  BY <1>1, <1>3 DEF Ends
<1> QED  BY <1>1, <1>4, <1>5 DEF n
-----------------------------------------------------------------------------
(* The first state.                                                        *)
LEMMA PlaceOf ==
  ASSUME Setting, NEW n \in Linked
  PROVE  /\ Place(n) \in 1..Len(Chain) /\ Chain[Place(n)] = n
         /\ \A i \in 1..Len(Chain) : Chain[i] = n => Place(n) = i
<1>1. \E i \in 1..Len(Chain) : Chain[i] = n
  BY DEF Linked
<1>2. Place(n) \in 1..Len(Chain) /\ Chain[Place(n)] = n
  BY <1>1, Zenon DEF Place
<1> QED  BY <1>2 DEF Setting

LEMMA ChainNodes ==
  ASSUME Setting
  PROVE  /\ Len(Chain) \in Nat /\ (Chain # <<>> => 1 \in 1..Len(Chain))
         /\ Linked \subseteq Nodes /\ \A i \in 1..Len(Chain) : Chain[i] \in Linked
  BY DEF Setting, Linked

LEMMA InitFits ==
  ASSUME Setting, Init
  PROVE  HazptrInvariant
<1> DEFINE c == Len(Chain)
<1>1. head \in Linked \cup {None} /\ \A n \in Nodes : nxt[n] \in Linked \cup {None}
  <2>1. head \in Linked \cup {None}
    BY ChainNodes DEF Init
  <2>2. ASSUME NEW n \in Nodes PROVE nxt[n] \in Linked \cup {None}
    BY ChainNodes, PlaceOf DEF Init
  <2> QED  BY <2>1, <2>2
<1>2. Chains
  BY <1>1, ChainNodes DEF Chains, Init, Links, Setting
<1>3. NoLoops
  <2> DEFINE rank == [n \in Nodes |-> IF n \in Linked THEN - Place(n) ELSE 0]
  <2>1. rank \in [Nodes -> Int]
    BY PlaceOf, ChainNodes
  <2>2. ASSUME NEW n \in Nodes, nxt[n] \in Nodes PROVE rank[nxt[n]] < rank[n]
    <3>1. n \in Linked /\ Place(n) < c /\ nxt[n] = Chain[Place(n) + 1]
      BY <2>2 DEF Init, Setting
    <3>2. nxt[n] \in Linked /\ Place(nxt[n]) = Place(n) + 1
      BY <3>1, ChainNodes, PlaceOf
    <3>3. rank[nxt[n]] = - Place(nxt[n]) /\ rank[n] = - Place(n) /\ Place(n) \in Int
      BY <2>2, <3>1, <3>2, PlaceOf, ChainNodes
    <3> HIDE DEF rank
    <3> QED  BY <3>2, <3>3
  <2> HIDE DEF rank
  <2> QED  BY <2>1, <2>2 DEF NoLoops
<1>4. \A n \in Linked : ~Unlinked(n)
  BY DEF Init, Unlinked
<1>5. ChainLive
  BY <1>1, <1>4 DEF ChainLive, Setting
<1>6. Erasers
  BY DEF Erasers, Init, NoRegs
<1>7. Lists
  BY NoLocals, EmptySeq DEF Lists, Init
<1>8. Stacks
  BY EmptySeq DEF Stacks, Init, Ends, Deep
<1>9. ReaderSide
  BY DEF ReaderSide, Readings, ReaderFits, StampFits, UseSafe, Init, Links, Reading, Walking
<1> QED  BY <1>2, <1>3, <1>5, <1>6, <1>7, <1>8, <1>9 DEF HazptrInvariant, WriterSide
-----------------------------------------------------------------------------
(* Readers.  A step of one leaves the writers' side and the other readers  *)
(* alone.                                                                  *)
OnlyReader(r, l) ==
    /\ Goto(r, l) /\ {pc[r], l} \subseteq {"idle"} \cup Reading
    /\ UNCHANGED <<mode, chainVars, retireVars>>
    /\ \A q \in Readers \ {r} : /\ hp'[q] = hp[q] /\ ptr'[q] = ptr[q] /\ stamp'[q] = stamp[q]
                                /\ bad'[q] = bad[q] /\ (q \in active => q \in active')

LEMMA ReaderFrame ==
  ASSUME HazptrInvariant, NEW r \in Readers, NEW l, OnlyReader(r, l)
  PROVE  /\ UNCHANGED <<head, nxt, version, fresh, claimed, freed, buf, pending, reg, stack, mode>>
         /\ pc'[r] = l /\ \A t \in (Readers \cup Writers) \ {r} : pc'[t] = pc[t]
         /\ \A t \in Readers \cup Writers :
               /\ pc'[t] \in Writing <=> pc[t] \in Writing
               /\ pc[t] \in Writing => pc'[t] = pc[t]
         /\ pc' \in [Readers \cup Writers -> {"idle"} \cup Reading \cup Writing]
<1>1. UNCHANGED <<head, nxt, version, fresh, claimed, freed, buf, pending, reg, stack, mode>>
  BY DEF OnlyReader, chainVars, retireVars
<1>2. pc \in [Readers \cup Writers -> {"idle"} \cup Reading \cup Writing]
  BY DEF HazptrInvariant, WriterSide, Stacks
<1>3. pc' = [pc EXCEPT ![r] = l] /\ {pc[r], l} \subseteq {"idle"} \cup Reading
  BY DEF OnlyReader, Goto
<1>4. pc'[r] = l /\ \A t \in (Readers \cup Writers) \ {r} : pc'[t] = pc[t]
  BY <1>2, <1>3
<1>5. \A x \in {"idle"} \cup Reading : x \notin Writing
  BY DEF Reading, Walking, Writing, Deep
<1>6. pc' \in [Readers \cup Writers -> {"idle"} \cup Reading \cup Writing]
  BY <1>2, <1>3
<1> QED  BY <1>1, <1>3, <1>4, <1>5, <1>6, Zenon

LEMMA ReaderKeepsWriters ==
  ASSUME HazptrInvariant, NEW r \in Readers, NEW l, OnlyReader(r, l)
  PROVE  WriterSide'
<1>1. /\ UNCHANGED <<head, nxt, version, fresh, claimed, freed, buf, pending, reg, stack>>
      /\ \A t \in Writers : /\ pc'[t] \in Writing <=> pc[t] \in Writing
                            /\ pc[t] \in Writing => pc'[t] = pc[t]
      /\ pc' \in [Readers \cup Writers -> {"idle"} \cup Reading \cup Writing]
  BY ReaderFrame, Zenon
<1>2. \A t \in Writers : /\ pc'[t] = "retire" <=> pc[t] = "retire"
                         /\ pc'[t] \in {"unlink", "retire"} <=> pc[t] \in {"unlink", "retire"}
                         /\ pc'[t] \in Deep <=> pc[t] \in Deep
  BY <1>1, Zenon DEF Writing
<1>3. WriterSide
  BY DEF HazptrInvariant
<1>4. Chains' /\ NoLoops'
  BY <1>1, <1>3, Zenon DEF WriterSide, Chains, NoLoops
<1>5. \A n : Unlinked(n)' <=> Unlinked(n)
  BY <1>1, <1>2, Zenon DEF Unlinked
<1>6. ChainLive'
  BY <1>1, <1>3, <1>5, Zenon DEF WriterSide, ChainLive
<1>7. Erasers'
  BY <1>1, <1>2, <1>3, Zenon DEF WriterSide, Erasers
<1>8. Lists'
  BY <1>1, <1>3, Zenon DEF WriterSide, Lists, Locals
<1>9. Stacks'
  BY <1>1, <1>2, <1>3, Zenon DEF WriterSide, Stacks
<1> QED  BY <1>4, <1>6, <1>7, <1>8, <1>9 DEF WriterSide

LEMMA ReaderKeepsReaders ==
  ASSUME HazptrInvariant, NEW r \in Readers, NEW l, OnlyReader(r, l), NEW q \in Readers \ {r}
  PROVE  ReaderFits(q)' /\ StampFits(q)' /\ UseSafe(q)'
<1>1. /\ UNCHANGED <<head, version, freed, reg, mode>> /\ pc'[q] = pc[q]
      /\ hp'[q] = hp[q] /\ ptr'[q] = ptr[q] /\ stamp'[q] = stamp[q] /\ bad'[q] = bad[q]
      /\ (q \in active => q \in active')
  BY ReaderFrame, Zenon DEF OnlyReader
<1>2. \A t \in Writers : pc'[t] = "scan" => pc[t] = "scan"
  BY ReaderFrame DEF Writing, Deep
<1>3. ReaderFits(q) /\ StampFits(q) /\ UseSafe(q)
  BY DEF HazptrInvariant, ReaderSide
<1>4. ReaderFits(q)' /\ StampFits(q)'
  BY <1>1, <1>3, Zenon DEF ReaderFits, StampFits
<1>5. UseSafe(q)'
  BY <1>1, <1>2, <1>3, Zenon DEF UseSafe, Covered
<1> QED  BY <1>4, <1>5

LEMMA ReaderMoves ==
  ASSUME HazptrInvariant, NEW r \in Readers, NEW l, OnlyReader(r, l),
         Readings', ReaderFits(r)', StampFits(r)', UseSafe(r)'
  PROVE  HazptrInvariant'
<1>1. ReaderSide'
  BY ReaderKeepsReaders DEF ReaderSide
<1> QED  BY <1>1, ReaderKeepsWriters DEF HazptrInvariant, Setting

LEMMA BeginKeeps ==
  ASSUME HazptrInvariant, NEW r \in Readers, Begin(r)
  PROVE  HazptrInvariant'
<1>1. OnlyReader(r, "load") /\ Readings'
  BY DEF Begin, OnlyReader, Goto, Reading, HazptrInvariant, ReaderSide, Readings, WriterSide,
         Chains, chainVars, retireVars
<1>2. /\ pc'[r] = "load" /\ mode' = mode /\ version' = version /\ bad' = bad /\ r \in active'
      /\ (mode[r] = "slot" => stamp'[r] = version) /\ version \in Nat /\ ReaderFits(r)
  BY <1>1, ReaderFrame DEF Begin, HazptrInvariant, ReaderSide, Readings, WriterSide, Chains
<1>3. ReaderFits(r)'
  BY <1>2 DEF ReaderFits, Walking
<1>4. StampFits(r)' /\ UseSafe(r)'
  BY <1>2 DEF StampFits, UseSafe
<1> QED  BY <1>1, <1>3, <1>4, ReaderMoves

LEMMA ExitKeeps ==
  ASSUME HazptrInvariant, NEW r \in Readers, ReaderExit(r)
  PROVE  HazptrInvariant'
<1>1. /\ UNCHANGED <<mode, hp, ptr, next, cur, stamp, bad, pc, chainVars, retireVars>>
      /\ active' = active \ {r} /\ pc[r] = "idle"
  BY DEF ReaderExit
<1>2. pc' = [pc EXCEPT ![r] = "idle"]
  BY <1>1 DEF HazptrInvariant, WriterSide, Stacks
<1>3. OnlyReader(r, "idle") /\ Readings'
  BY <1>1, <1>2, Zenon DEF OnlyReader, Goto, HazptrInvariant, ReaderSide, Readings
<1>4. ReaderFits(r)' /\ StampFits(r)' /\ UseSafe(r)'
  <2>1. pc'[r] = "idle" /\ bad' = bad /\ mode' = mode /\ ReaderFits(r)
    BY <1>1 DEF HazptrInvariant, ReaderSide
  <2> QED  BY <2>1 DEF ReaderFits, StampFits, UseSafe, Reading, Walking
<1> QED  BY <1>3, <1>4, ReaderMoves

(* The two slots of a reader.                                              *)
LEMMA SlotPair ==
  \A p \in Links \X Links : \A n \in Links :
    /\ [p EXCEPT ![1] = n] \in Links \X Links /\ [p EXCEPT ![1] = n][1] = n
    /\ [p EXCEPT ![2] = n] \in Links \X Links
    /\ <<p[2], p[1]>> \in Links \X Links
OBVIOUS

LEMMA Published ==
  ASSUME HazptrInvariant, NEW r \in Readers, NEW i \in {1, 2}, NEW n \in Links, Publish(r, i, n)
  PROVE  /\ hp' \in [Readers -> Links \X Links] /\ (i = 1 => hp'[r][1] = n)
         /\ \A q \in Readers \ {r} : hp'[q] = hp[q]
<1>1. hp \in [Readers -> Links \X Links]
  BY DEF HazptrInvariant, ReaderSide, Readings
<1> DEFINE p == [hp[r] EXCEPT ![i] = n]
<1>2. p \in Links \X Links /\ (i = 1 => p[1] = n)
  BY <1>1, SlotPair
<1>3. hp' = [hp EXCEPT ![r] = p]
  BY DEF Publish
<1> HIDE DEF p
<1> QED  BY <1>1, <1>2, <1>3

LEMMA LoadKeeps ==
  ASSUME HazptrInvariant, NEW r \in Readers, Load(r)
  PROVE  HazptrInvariant'
<1>1. OnlyReader(r, "protect") /\ Readings' /\ ptr'[r] = head
  BY DEF Load, OnlyReader, Goto, Reading, HazptrInvariant, ReaderSide, Readings, WriterSide,
         Chains, chainVars, retireVars
<1>2. /\ pc[r] = "load" /\ pc'[r] = "protect"
      /\ UNCHANGED <<mode, version, head, bad, active, stamp>>
      /\ ReaderFits(r) /\ StampFits(r)
  BY <1>1, ReaderFrame DEF Load, HazptrInvariant, ReaderSide
<1>3. ReaderFits(r)'
  BY <1>2 DEF ReaderFits, Walking, Reading
<1>4. StampFits(r)' /\ UseSafe(r)'
  BY <1>1, <1>2 DEF StampFits, UseSafe
<1> QED  BY <1>1, <1>3, <1>4, ReaderMoves

LEMMA ProtectKeeps ==
  ASSUME HazptrInvariant, NEW r \in Readers, Protect(r)
  PROVE  HazptrInvariant'
<1> DEFINE l == CASE mode[r] = "reload" -> "reload"
                  [] mode[r] = "slot" -> "restamp"
                  [] mode[r] = "walk" -> "compare"
                  [] mode[r] = "pin" -> "verify"
<1>1. /\ pc[r] = "protect" /\ Publish(r, 1, ptr[r]) /\ Goto(r, l)
      /\ UNCHANGED <<mode, active, ptr, next, cur, stamp, bad, chainVars, retireVars>>
  BY Zenon DEF Protect
<1>2. \/ l = "reload" /\ mode[r] = "reload"
      \/ l = "restamp" /\ mode[r] = "slot"
      \/ l \in {"compare", "verify"} /\ mode[r] \notin Validated
  <2>1. mode[r] \in {"reload", "slot", "walk", "pin"}
    BY Zenon DEF HazptrInvariant, ReaderSide, Readings, Setting
  <2>2. CASE mode[r] = "reload"
    BY <2>2
  <2>3. CASE mode[r] = "slot"
    BY <2>3
  <2>4. CASE mode[r] = "walk"
    BY <2>4 DEF Validated
  <2>5. CASE mode[r] = "pin"
    BY <2>5 DEF Validated
  <2> QED  BY <2>1, <2>2, <2>3, <2>4, <2>5
<1> HIDE DEF l
<1>3. ptr[r] \in Links /\ Readings
  BY DEF HazptrInvariant, ReaderSide, Readings
<1>4. /\ hp' \in [Readers -> Links \X Links] /\ hp'[r][1] = ptr[r]
      /\ \A q \in Readers \ {r} : hp'[q] = hp[q]
  BY <1>1, <1>3, Published
<1>5. OnlyReader(r, l)
  BY <1>1, <1>2, <1>4 DEF OnlyReader, Reading, Walking
<1>6. Readings'
  BY <1>1, <1>3, <1>4 DEF Readings
<1>7. /\ pc'[r] = l /\ UNCHANGED <<version, head>> /\ ReaderFits(r) /\ StampFits(r)
  BY <1>5, ReaderFrame DEF HazptrInvariant, ReaderSide
<1>8. ReaderFits(r)'
  BY <1>1, <1>2, <1>4, <1>7, Zenon DEF ReaderFits, Walking, Reading
<1>9. StampFits(r)' /\ UseSafe(r)'
  BY <1>1, <1>2, <1>7 DEF StampFits, UseSafe, Validated
<1> QED  BY <1>5, <1>6, <1>8, <1>9, ReaderMoves

(* A node that is linked is in no detached list.                           *)
LEMMA LinkedUntaken ==
  ASSUME HazptrInvariant, NEW n \in Nodes, ~Unlinked(n)
  PROVE  /\ n \notin claimed /\ n \notin freed
         /\ \A t \in Writers : \A i \in 1..Len(reg[t].taken) : reg[t].taken[i] # n
<1>1. n \notin claimed /\ n \notin freed
  BY DEF HazptrInvariant, WriterSide, Chains, Unlinked
<1>2. \A t \in Writers : reg[t].taken \in Seq(claimed)
  BY Zenon DEF HazptrInvariant, WriterSide, Lists, Locals
<1> QED  BY <1>1, <1>2, Elements

LEMMA Accepted ==
  ASSUME HazptrInvariant, NEW r \in Readers, OnlyReader(r, "use"), active' = active, bad' = bad,
         pc[r] \in {"reload", "restamp"}, head # None, ptr[r] = head, ptr'[r] = head, hp' = hp,
         Readings'
  PROVE  HazptrInvariant'
<1>1. /\ UNCHANGED <<head, version, freed, reg, mode>> /\ pc'[r] = "use"
      /\ ReaderFits(r)
  BY ReaderFrame DEF HazptrInvariant, ReaderSide
<1>2. head \in Nodes /\ ~Unlinked(head)
  BY DEF HazptrInvariant, WriterSide, Chains, ChainLive, Links
<1>3. ReaderFits(r)'
  BY <1>1 DEF ReaderFits, Walking, Reading
<1>4. StampFits(r)'
  BY <1>1 DEF StampFits
<1>5. UseSafe(r)'
  BY <1>1, <1>2, LinkedUntaken DEF UseSafe, Covered
<1> QED  BY <1>3, <1>4, <1>5, ReaderMoves

(* A step to where a reader holds nothing.                                 *)
LEMMA LetsGo ==
  ASSUME HazptrInvariant, NEW r \in Readers, OnlyReader(r, "done"), active' = active, bad' = bad,
         pc[r] \in Reading, Readings'
  PROVE  HazptrInvariant'
<1>1. /\ pc'[r] = "done" /\ mode' = mode /\ ReaderFits(r)
  BY ReaderFrame DEF HazptrInvariant, ReaderSide
<1>2. ReaderFits(r)' /\ StampFits(r)' /\ UseSafe(r)'
  BY <1>1 DEF ReaderFits, StampFits, UseSafe, Walking, Reading
<1> QED  BY <1>2, ReaderMoves

LEMMA ReloadKeeps ==
  ASSUME HazptrInvariant, NEW r \in Readers, Reload(r)
  PROVE  HazptrInvariant'
<1> DEFINE l == IF head # ptr[r] THEN "protect" ELSE IF head = None THEN "done" ELSE "use"
<1>1. /\ pc[r] = "reload" /\ Goto(r, l) /\ ptr' = [ptr EXCEPT ![r] = head]
      /\ UNCHANGED <<mode, active, hp, next, cur, stamp, bad, chainVars, retireVars>>
  BY DEF Reload
<1>2. Readings' /\ ptr'[r] = head /\ (\A q \in Readers \ {r} : ptr'[q] = ptr[q])
  BY <1>1 DEF HazptrInvariant, ReaderSide, Readings, WriterSide, Chains
<1>3. OnlyReader(r, l)
  BY <1>1, <1>2 DEF OnlyReader, Reading
<1>4. CASE l = "protect"
  <2>1. /\ pc'[r] = "protect" /\ mode' = mode /\ ReaderFits(r)
    BY <1>3, <1>4, ReaderFrame DEF HazptrInvariant, ReaderSide
  <2>2. ReaderFits(r)' /\ StampFits(r)' /\ UseSafe(r)'
    BY <1>1, <2>1 DEF ReaderFits, StampFits, UseSafe, Walking, Reading
  <2> QED  BY <1>2, <1>3, <2>2, ReaderMoves
<1>5. CASE head = ptr[r] /\ head # None
  BY <1>1, <1>2, <1>3, <1>5, Accepted
<1>6. CASE head = ptr[r] /\ head = None
  BY <1>1, <1>2, <1>3, <1>6, LetsGo DEF Reading
<1> QED  BY <1>4, <1>5, <1>6

LEMMA RestampKeeps ==
  ASSUME HazptrInvariant, NEW r \in Readers, Restamp(r)
  PROVE  HazptrInvariant'
<1> DEFINE l == IF version = stamp[r] /\ ptr[r] # None THEN "use" ELSE "done"
<1>1. pc[r] = "restamp" /\ Goto(r, l) /\ UNCHANGED <<readVars, chainVars, retireVars>>
  BY DEF Restamp
<1>2. Readings'
  BY <1>1 DEF HazptrInvariant, ReaderSide, Readings, readVars
<1>3. OnlyReader(r, l)
  BY <1>1 DEF OnlyReader, Reading, readVars
<1>4. CASE version = stamp[r] /\ ptr[r] # None
  <2>1. ptr[r] = head
    BY <1>1, <1>4, Zenon DEF HazptrInvariant, ReaderSide, ReaderFits, StampFits
  <2> QED  BY <1>1, <1>2, <1>3, <1>4, <2>1, Accepted, Zenon DEF readVars
<1>5. CASE ~(version = stamp[r] /\ ptr[r] # None)
  BY <1>1, <1>2, <1>3, <1>5, LetsGo DEF Reading, readVars
<1> QED  BY <1>4, <1>5

LEMMA UseKeeps ==
  ASSUME HazptrInvariant, NEW r \in Readers, Use(r)
  PROVE  HazptrInvariant'
<1>1. /\ pc[r] = "use" /\ Touch(r, ptr[r])
      /\ UNCHANGED <<mode, active, hp, ptr, next, cur, stamp, chainVars, retireVars>>
  BY DEF Use
<1>2. ptr[r] \notin freed /\ Readings /\ ReaderFits(r) /\ UseSafe(r)
  BY <1>1 DEF HazptrInvariant, ReaderSide, UseSafe
<1>3. bad' = bad
  BY <1>1, <1>2 DEF Touch, Readings
<1>4. Readings'
  BY <1>1, <1>2, <1>3 DEF Readings
<1>5. CASE Goto(r, "done")
  <2>1. OnlyReader(r, "done")
    BY <1>1, <1>3, <1>5 DEF OnlyReader, Reading
  <2> QED  BY <1>1, <1>3, <1>4, <2>1, LetsGo DEF Reading
<1>6. CASE Goto(r, "use")
  <2>1. OnlyReader(r, "use")
    BY <1>1, <1>3, <1>6 DEF OnlyReader, Reading
  <2>2. pc'[r] = "use" /\ pc' = pc
    BY <1>1, <1>6, <2>1, ReaderFrame, Zenon DEF Goto, HazptrInvariant, WriterSide, Stacks
  <2>3. ReaderFits(r)' /\ StampFits(r)' /\ UseSafe(r)'
    BY <1>1, <1>2, <1>3, <2>2 DEF ReaderFits, StampFits, UseSafe, Covered, chainVars, retireVars
  <2> QED  BY <1>4, <2>1, <2>3, ReaderMoves
<1> QED  BY <1>5, <1>6 DEF Use

LEMMA DoneKeeps ==
  ASSUME HazptrInvariant, NEW r \in Readers, Done(r)
  PROVE  HazptrInvariant'
<1>1. /\ pc[r] = "done" /\ Release(r) /\ UNCHANGED <<mode, active, bad, chainVars, retireVars>>
  BY DEF Done
<1>2. OnlyReader(r, "idle")
  BY <1>1 DEF OnlyReader, Release, Reading, HazptrInvariant, ReaderSide, Readings
<1>3. Readings'
  BY <1>1 DEF Release, Readings, Links, HazptrInvariant, ReaderSide
<1>4. pc'[r] = "idle" /\ ReaderFits(r)
  BY <1>2, ReaderFrame, Zenon DEF HazptrInvariant, ReaderSide
<1>5. ReaderFits(r)' /\ StampFits(r)' /\ UseSafe(r)'
  BY <1>1, <1>4 DEF ReaderFits, StampFits, UseSafe, Walking, Reading
<1> QED  BY <1>2, <1>3, <1>5, ReaderMoves

(* The chain walks: nothing is claimed of what they look into.             *)
LEMMA WalkMoves ==
  ASSUME HazptrInvariant, NEW r \in Readers, pc[r] \in Walking,
         NEW l \in Walking \cup {"done", "protect"}, OnlyReader(r, l), active' = active, Readings'
  PROVE  HazptrInvariant'
<1>1. /\ pc'[r] = l /\ mode' = mode /\ mode[r] \notin Validated /\ r \in active'
  BY ReaderFrame, Zenon DEF HazptrInvariant, ReaderSide, ReaderFits, Reading
<1>2. ReaderFits(r)'
  BY <1>1, Zenon DEF ReaderFits, Walking
<1>3. StampFits(r)' /\ UseSafe(r)'
  BY <1>1, Zenon DEF StampFits, UseSafe, Validated, Walking
<1> QED  BY <1>2, <1>3, ReaderMoves, Zenon

LEMMA CompareKeeps ==
  ASSUME HazptrInvariant, NEW r \in Readers, Compare(r)
  PROVE  HazptrInvariant'
<1>1. /\ pc[r] = "compare" /\ Readings /\ nxt \in [Nodes -> Links] /\ ptr[r] \in Links
      /\ UNCHANGED <<mode, active, hp, ptr, cur, stamp, chainVars, retireVars>>
  BY DEF Compare, HazptrInvariant, WriterSide, Chains, ReaderSide, Readings
<1>2. PICK l \in {"done", "protectnext"} : Goto(r, l)
  BY DEF Compare
<1>3. /\ bad' \in [Readers -> BOOLEAN] /\ next' \in [Readers -> Links]
      /\ \A q \in Readers \ {r} : bad'[q] = bad[q] /\ next'[q] = next[q]
  <2>1. CASE ptr[r] = None
    BY <1>1, <2>1 DEF Compare, Readings
  <2>2. CASE ptr[r] # None
    <3>1. /\ bad' = [bad EXCEPT ![r] = bad[r] \/ ptr[r] \in freed]
          /\ next' = [next EXCEPT ![r] = nxt[ptr[r]]] /\ ptr[r] \in Nodes
      BY <1>1, <2>2 DEF Compare, Touch, Links
    <3>2. bad \in [Readers -> BOOLEAN] /\ next \in [Readers -> Links] /\ nxt[ptr[r]] \in Links
      BY <1>1, <3>1 DEF Readings
    <3>3. bad' \in [Readers -> BOOLEAN] /\ \A q \in Readers \ {r} : bad'[q] = bad[q]
      BY <3>1, <3>2
    <3> QED  BY <3>1, <3>2, <3>3, Zenon
  <2> QED  BY <2>1, <2>2
<1>4. OnlyReader(r, l)
  BY <1>1, <1>2, <1>3 DEF OnlyReader, Reading, Walking
<1>5. Readings'
  BY <1>1, <1>3 DEF Readings
<1> QED  BY <1>1, <1>2, <1>4, <1>5, WalkMoves DEF Walking

LEMMA ProtectNextKeeps ==
  ASSUME HazptrInvariant, NEW r \in Readers, ProtectNext(r)
  PROVE  HazptrInvariant'
<1>1. /\ pc[r] = "protectnext" /\ Goto(r, "verifynext") /\ Publish(r, 2, next[r])
      /\ UNCHANGED <<mode, active, ptr, next, cur, stamp, bad, chainVars, retireVars>>
  BY DEF ProtectNext
<1>2. Readings /\ next[r] \in Links
  BY DEF HazptrInvariant, ReaderSide, Readings
<1>3. hp' \in [Readers -> Links \X Links] /\ \A q \in Readers \ {r} : hp'[q] = hp[q]
  BY <1>1, <1>2, Published
<1>4. OnlyReader(r, "verifynext")
  BY <1>1, <1>3 DEF OnlyReader, Reading, Walking
<1>5. Readings'
  BY <1>1, <1>2, <1>3 DEF Readings
<1> QED  BY <1>1, <1>4, <1>5, WalkMoves DEF Walking

LEMMA VerifyKeeps ==
  ASSUME HazptrInvariant, NEW r \in Readers, Verify(r)
  PROVE  HazptrInvariant'
<1>1. /\ pc[r] \in {"verify", "verifynext"} /\ Readings /\ head \in Links
      /\ UNCHANGED <<mode, active, hp, ptr, next, stamp, bad, chainVars, retireVars>>
  BY DEF Verify, HazptrInvariant, WriterSide, Chains, ReaderSide
<1>2. PICK l \in {"done", "reach", "reachnext"} : Goto(r, l)
  BY DEF Verify
<1>3. cur' \in [Readers -> Links] /\ \A q \in Readers \ {r} : cur'[q] = cur[q]
  BY <1>1 DEF Verify, Readings
<1>4. OnlyReader(r, l)
  BY <1>1, <1>2, <1>3 DEF OnlyReader, Reading, Walking
<1>5. Readings'
  BY <1>1, <1>3 DEF Readings
<1> QED  BY <1>1, <1>2, <1>4, <1>5, WalkMoves, Zenon DEF Walking

LEMMA ReachKeeps ==
  ASSUME HazptrInvariant, NEW r \in Readers, Reach(r)
  PROVE  HazptrInvariant'
<1>1. /\ pc[r] \in {"reach", "reachnext"} /\ Readings /\ nxt \in [Nodes -> Links] /\ cur[r] \in Nodes
      /\ Touch(r, cur[r]) /\ cur' = [cur EXCEPT ![r] = nxt[cur[r]]]
      /\ UNCHANGED <<mode, active, hp, ptr, next, stamp, pc, chainVars, retireVars>>
  BY DEF Reach, HazptrInvariant, WriterSide, Chains, ReaderSide, Readings, Links
<1>2. /\ cur' \in [Readers -> Links] /\ bad' \in [Readers -> BOOLEAN]
      /\ \A q \in Readers \ {r} : cur'[q] = cur[q] /\ bad'[q] = bad[q]
  BY <1>1 DEF Readings, Touch
<1>3. Goto(r, pc[r])
  BY <1>1, Zenon DEF Goto, HazptrInvariant, WriterSide, Stacks
<1>4. OnlyReader(r, pc[r])
  BY <1>1, <1>2, <1>3 DEF OnlyReader, Reading, Walking
<1>5. Readings'
  BY <1>1, <1>2 DEF Readings
<1> QED  BY <1>1, <1>4, <1>5, WalkMoves DEF Walking

LEMMA RestartKeeps ==
  ASSUME HazptrInvariant, NEW r \in Readers, Restart(r)
  PROVE  HazptrInvariant'
<1>1. /\ pc[r] \in {"reach", "reachnext"} /\ Readings /\ head \in Links /\ Goto(r, "protect")
      /\ ptr' = [ptr EXCEPT ![r] = head]
      /\ UNCHANGED <<mode, active, hp, next, cur, stamp, bad, chainVars, retireVars>>
  BY DEF Restart, HazptrInvariant, WriterSide, Chains, ReaderSide
<1>2. ptr' \in [Readers -> Links] /\ \A q \in Readers \ {r} : ptr'[q] = ptr[q]
  BY <1>1 DEF Readings
<1>3. OnlyReader(r, "protect")
  BY <1>1, <1>2 DEF OnlyReader, Reading, Walking
<1>4. Readings'
  BY <1>1, <1>2 DEF Readings
<1> QED  BY <1>1, <1>3, <1>4, WalkMoves, Zenon DEF Walking

LEMMA ConfirmKeeps ==
  ASSUME HazptrInvariant, NEW r \in Readers, Confirm(r)
  PROVE  HazptrInvariant'
<1>1. /\ pc[r] = "reach" /\ Readings /\ Goto(r, "compare")
      /\ UNCHANGED <<readVars, chainVars, retireVars>>
  BY DEF Confirm, HazptrInvariant, ReaderSide
<1>2. OnlyReader(r, "compare") /\ Readings'
  BY <1>1 DEF OnlyReader, Reading, Walking, Readings, readVars
<1> QED  BY <1>1, <1>2, WalkMoves, Zenon DEF Walking, readVars

LEMMA AdvanceKeeps ==
  ASSUME HazptrInvariant, NEW r \in Readers, Advance(r)
  PROVE  HazptrInvariant'
<1>1. /\ pc[r] = "reachnext" /\ Readings
      /\ hp' = [hp EXCEPT ![r] = <<hp[r][2], hp[r][1]>>] /\ ptr' = [ptr EXCEPT ![r] = next[r]]
      /\ UNCHANGED <<mode, active, next, cur, stamp, bad, chainVars, retireVars>>
  BY DEF Advance, HazptrInvariant, ReaderSide
<1>2. PICK l \in {"verify", "compare"} : Goto(r, l)
  BY DEF Advance
<1>3. <<hp[r][2], hp[r][1]>> \in Links \X Links
  BY <1>1, SlotPair DEF Readings
<1>4. /\ hp' \in [Readers -> Links \X Links] /\ ptr' \in [Readers -> Links]
      /\ \A q \in Readers \ {r} : ptr'[q] = ptr[q] /\ hp'[q] = hp[q]
  BY <1>1, <1>3 DEF Readings
<1>5. OnlyReader(r, l)
  BY <1>1, <1>2, <1>4 DEF OnlyReader, Reading, Walking
<1>6. Readings'
  BY <1>1, <1>4 DEF Readings
<1> QED  BY <1>1, <1>2, <1>5, <1>6, WalkMoves DEF Walking

LEMMA ReaderStepKeeps ==
  ASSUME HazptrInvariant, NEW r \in Readers, ReaderStep(r)
  PROVE  HazptrInvariant'
BY BeginKeeps, ExitKeeps, LoadKeeps, ProtectKeeps, ReloadKeeps, RestampKeeps, UseKeeps, DoneKeeps,
   CompareKeeps, ProtectNextKeeps, VerifyKeeps, ReachKeeps, RestartKeeps, ConfirmKeeps,
   AdvanceKeeps, Zenon DEF ReaderStep
-----------------------------------------------------------------------------
(* What every step of a writer leaves to the readers.                      *)
OnlyWriter(t, l) ==
    /\ Goto(t, l) /\ {pc[t], l} \subseteq {"idle"} \cup Writing
    /\ UNCHANGED readVars
    /\ \A u \in Writers \ {t} : reg'[u] = reg[u]

LEMMA WriterFrame ==
  ASSUME HazptrInvariant, NEW t \in Writers, NEW l, OnlyWriter(t, l)
  PROVE  /\ pc'[t] = l /\ \A u \in (Readers \cup Writers) \ {t} : pc'[u] = pc[u]
         /\ pc[t] \notin Reading /\ l \notin Reading
         /\ pc' \in [Readers \cup Writers -> {"idle"} \cup Reading \cup Writing]
<1>1. pc \in [Readers \cup Writers -> {"idle"} \cup Reading \cup Writing]
  BY DEF HazptrInvariant, WriterSide, Stacks
<1>2. pc' = [pc EXCEPT ![t] = l] /\ {pc[t], l} \subseteq {"idle"} \cup Writing
  BY DEF OnlyWriter, Goto
<1>3. pc'[t] = l /\ \A u \in (Readers \cup Writers) \ {t} : pc'[u] = pc[u]
  BY <1>1, <1>2
<1>4. \A x \in {"idle"} \cup Writing : x \notin Reading
  BY DEF Reading, Walking, Writing, Deep
<1>5. pc' \in [Readers \cup Writers -> {"idle"} \cup Reading \cup Writing]
  BY <1>1, <1>2, ZenonT(60)
<1> QED  BY <1>2, <1>3, <1>4, <1>5, Zenon

(* A writer does the readers no harm if it moves the version with the head *)
(* and takes and frees nothing that is in use.                             *)
LEMMA WriterMoves ==
  ASSUME HazptrInvariant, NEW t \in Writers, NEW l, OnlyWriter(t, l), WriterSide',
         (version' = version /\ head' = head) \/ version' > version,
         \A r \in Readers : pc[r] = "use" => ptr[r] \notin freed' /\ Covered(r, t)'
  PROVE  HazptrInvariant'
<1>1. /\ pc'[t] = l /\ \A u \in (Readers \cup Writers) \ {t} : pc'[u] = pc[u]
      /\ pc[t] \notin Reading /\ l \notin Reading
  BY WriterFrame, ZenonT(60)
<1>2. UNCHANGED <<mode, active, hp, ptr, next, cur, stamp, bad>>
  BY Zenon DEF OnlyWriter, readVars
<1>3. Readings'
  BY <1>2 DEF HazptrInvariant, ReaderSide, Readings
<1>4. ASSUME NEW r \in Readers
      PROVE  ReaderFits(r)' /\ StampFits(r)' /\ UseSafe(r)'
  <2>1. ReaderFits(r) /\ StampFits(r) /\ UseSafe(r)
    BY Zenon DEF HazptrInvariant, ReaderSide
  <2>2. CASE r = t
    <3>1. pc'[r] \notin Reading
      BY <1>1, <2>2
    <3>2. pc'[r] \notin {"load", "protect", "reload", "restamp", "use"} \cup Walking
      BY <3>1 DEF Reading
    <3> QED  BY <1>2, <2>1, <3>1, <3>2, Zenon DEF ReaderFits, StampFits, UseSafe
  <2>3. CASE r # t
    <3>1. pc'[r] = pc[r]
      BY <1>1, <2>3
    <3>2. ReaderFits(r)'
      BY <1>2, <2>1, <3>1, Zenon DEF ReaderFits
    <3>3. StampFits(r)'
      <4>1. version \in Nat /\ version' \in Nat /\ stamp[r] \in Nat
        BY DEF HazptrInvariant, WriterSide, Chains, ReaderSide, Readings
      <4> QED  BY <1>2, <2>1, <3>1, <4>1 DEF StampFits
    <3>4. UseSafe(r)'
      <4>1. \A u \in Writers \ {t} : pc[r] = "use" => Covered(r, u)'
        BY <1>1, <1>2, <2>1, ZenonT(60) DEF UseSafe, Covered, OnlyWriter
      <4> QED  BY <1>2, <2>1, <3>1, <4>1, Zenon DEF UseSafe
    <3> QED  BY <3>2, <3>3, <3>4
  <2> QED  BY <2>2, <2>3
<1> QED  BY <1>3, <1>4 DEF HazptrInvariant, ReaderSide, Setting

(* What a writer that detaches nothing owes to the readers.                *)
LEMMA NothingTaken ==
  ASSUME HazptrInvariant, NEW t \in Writers, NEW l, OnlyWriter(t, l), l # "scan", freed' = freed
  PROVE  \A r \in Readers : pc[r] = "use" => ptr[r] \notin freed' /\ Covered(r, t)'
<1>1. pc'[t] = l
  BY WriterFrame, Zenon
<1> QED  BY <1>1, Zenon DEF Covered, HazptrInvariant, ReaderSide, UseSafe

(* Inside flush_tls_buffer() and try_reclaim() the chain is left alone.    *)
LEMMA DeepMoves ==
  ASSUME HazptrInvariant, NEW t \in Writers, NEW l, OnlyWriter(t, l),
         {pc[t], l} \subseteq {"idle"} \cup Deep, UNCHANGED <<chainVars, claimed>>,
         freed' \subseteq claimed, Lists', Stacks', reg'[t].obj = reg[t].obj,
         \A r \in Readers : pc[r] = "use" => ptr[r] \notin freed' /\ Covered(r, t)'
  PROVE  HazptrInvariant'
<1>1. UNCHANGED <<head, nxt, version, fresh, claimed>>
  BY DEF chainVars
<1>2. WriterSide
  BY DEF HazptrInvariant
<1>3. /\ pc'[t] = l /\ \A u \in (Readers \cup Writers) \ {t} : pc'[u] = pc[u]
  BY WriterFrame, Zenon
<1>4. \A u \in Writers : /\ reg'[u].obj = reg[u].obj
                         /\ pc'[u] = "retire" <=> pc[u] = "retire"
                         /\ pc'[u] \in {"unlink", "retire"} <=> pc[u] \in {"unlink", "retire"}
  BY <1>3, Zenon DEF OnlyWriter, Deep
<1>5. Chains' /\ NoLoops'
  BY <1>1, <1>2, Zenon DEF WriterSide, Chains, NoLoops
<1>6. \A n : Unlinked(n)' <=> Unlinked(n)
  BY <1>1, <1>4, Zenon DEF Unlinked
<1>7. ChainLive' 
  BY <1>1, <1>2, <1>6, Zenon DEF WriterSide, ChainLive
<1>8. Erasers'
  BY <1>1, <1>2, <1>4, ZenonT(60) DEF WriterSide, Erasers
<1>9. WriterSide'
  BY <1>5, <1>7, <1>8, Zenon DEF WriterSide
<1> QED  BY <1>1, <1>9, WriterMoves

(* The return labels, after a step that pushes none, one, or pops one.     *)
LEMMA StackStays ==
  ASSUME HazptrInvariant, NEW t \in Writers, NEW l, OnlyWriter(t, l), stack' = stack,
         pc[t] \in Deep <=> l \in Deep
  PROVE  Stacks'
<1>1. /\ pc'[t] = l /\ \A u \in (Readers \cup Writers) \ {t} : pc'[u] = pc[u]
      /\ pc' \in [Readers \cup Writers -> {"idle"} \cup Reading \cup Writing]
  BY WriterFrame, Zenon
<1>2. Stacks
  BY DEF HazptrInvariant, WriterSide
<1> QED  BY <1>1, <1>2, Zenon DEF Stacks

LEMMA StackTurns ==
  ASSUME HazptrInvariant, NEW t \in Writers, NEW l, OnlyWriter(t, l),
         NEW s \in Seq(Returns), Ends(s), stack' = [stack EXCEPT ![t] = s], l \in Deep <=> s # <<>>
  PROVE  Stacks'
<1>1. /\ pc'[t] = l /\ \A u \in (Readers \cup Writers) \ {t} : pc'[u] = pc[u]
      /\ pc' \in [Readers \cup Writers -> {"idle"} \cup Reading \cup Writing]
  BY WriterFrame, Zenon
<1>2. Stacks
  BY DEF HazptrInvariant, WriterSide
<1>3. stack'[t] = s /\ (\A u \in Writers \ {t} : stack'[u] = stack[u]) /\ DOMAIN stack' = Writers
  BY <1>2 DEF Stacks
<1>4. stack' = [u \in Writers |-> stack'[u]]
  BY <1>2, Zenon DEF Stacks
<1> QED  BY <1>1, <1>2, <1>3, <1>4, Zenon DEF Stacks

LEMMA Returning ==
  ASSUME HazptrInvariant, NEW t \in Writers, pc[t] \in Deep, Return(t), UNCHANGED readVars,
         \A u \in Writers \ {t} : reg'[u] = reg[u]
  PROVE  \E l \in ({"idle"} \cup Deep) \ {"scan"} : OnlyWriter(t, l) /\ Stacks'
<1> DEFINE s == stack[t]
           l == Head(s)
<1>1. s \in Seq(Returns) /\ Ends(s) /\ s # <<>>
  BY DEF HazptrInvariant, WriterSide, Stacks
<1>2. /\ l \in Returns /\ Tail(s) \in Seq(Returns) /\ Ends(Tail(s)) /\ (l = "idle" <=> Tail(s) = <<>>)
  BY <1>1, PopLabel, Zenon
<1>3. Goto(t, l) /\ stack' = [stack EXCEPT ![t] = Tail(s)]
  BY DEF Return
<1> HIDE DEF l
<1>4. l \in ({"idle"} \cup Deep) \ {"scan"} /\ (l \in Deep <=> l # "idle")
  BY <1>2 DEF Returns, Deep
<1>5. OnlyWriter(t, l)
  BY <1>3, <1>4 DEF OnlyWriter, Writing
<1>6. Stacks'
  BY <1>2, <1>3, <1>4, <1>5, StackTurns, Zenon
<1> QED  BY <1>4, <1>5, <1>6

LEMMA Calling ==
  ASSUME HazptrInvariant, NEW t \in Writers, pc[t] \in Deep, NEW l \in Deep,
         NEW ret \in Returns \ {"idle"}, Call(t, l, ret), UNCHANGED readVars,
         \A u \in Writers \ {t} : reg'[u] = reg[u]
  PROVE  OnlyWriter(t, l) /\ Stacks'
<1> DEFINE s == stack[t]
           n == <<ret>> \o s
<1>1. s \in Seq(Returns) /\ Ends(s) /\ s # <<>>
  BY DEF HazptrInvariant, WriterSide, Stacks
<1>2. n \in Seq(Returns) /\ Ends(n) /\ n # <<>>
  BY <1>1, PushLabel, Zenon
<1>3. Goto(t, l) /\ stack' = [stack EXCEPT ![t] = n]
  BY DEF Call
<1> HIDE DEF n
<1>4. OnlyWriter(t, l)
  BY <1>3 DEF OnlyWriter, Writing
<1> QED  BY <1>2, <1>3, <1>4, StackTurns, Zenon

(* A step inside those functions that detaches and frees nothing.          *)
LEMMA QuietMoves ==
  ASSUME HazptrInvariant, NEW t \in Writers, NEW l, OnlyWriter(t, l),
         {pc[t], l} \subseteq {"idle"} \cup Deep, l # "scan",
         UNCHANGED <<chainVars, claimed, freed>>, Lists', Stacks', reg'[t].obj = reg[t].obj
  PROVE  HazptrInvariant'
<1>1. freed' \subseteq claimed
  BY DEF HazptrInvariant, WriterSide, Chains
<1>2. \A r \in Readers : pc[r] = "use" => ptr[r] \notin freed' /\ Covered(r, t)'
  BY NothingTaken
<1> QED  BY <1>1, <1>2, DeepMoves, Zenon

LEMMA ListsStay ==
  ASSUME HazptrInvariant, UNCHANGED <<claimed, reg, buf, pending>>
  PROVE  Lists'
BY Zenon DEF HazptrInvariant, WriterSide, Lists, Locals

LEMMA FlushKeeps ==
  ASSUME HazptrInvariant, NEW t \in Writers, Flush(t)
  PROVE  HazptrInvariant'
<1>1. /\ pc[t] = "flush" /\ pending' = buf[t] \o pending /\ buf' = [buf EXCEPT ![t] = <<>>]
      /\ UNCHANGED <<claimed, reclaiming, freed, reg, chainVars, readVars>>
  BY DEF Flush
<1>2. Lists
  BY DEF HazptrInvariant, WriterSide
<1>3. Lists'
  <2>1. pending' \in Seq(claimed')
    BY <1>1, <1>2, ConcatSeq DEF Lists
  <2>2. buf' = [u \in Writers |-> buf'[u]] /\ \A u \in Writers : buf'[u] \in Seq(claimed')
    BY <1>1, <1>2, EmptySeq, Zenon DEF Lists
  <2>3. reg' = [u \in Writers |-> reg'[u]] /\ \A u \in Writers : Locals(reg[u])'
    BY <1>1, <1>2, Zenon DEF Lists, Locals
  <2> QED  BY <2>1, <2>2, <2>3 DEF Lists
<1>4. CASE buf[t] = <<>>
  <2>1. PICK l \in ({"idle"} \cup Deep) \ {"scan"} : OnlyWriter(t, l) /\ Stacks'
    BY <1>1, <1>4, Returning, Zenon DEF Flush, Deep
  <2> QED  BY <1>1, <1>3, <2>1, QuietMoves DEF Deep
<1>5. CASE buf[t] # <<>>
  <2>1. OnlyWriter(t, "auto") /\ stack' = stack
    BY <1>1, <1>5, Zenon DEF Flush, OnlyWriter, Writing, Deep
  <2>2. Stacks'
    BY <1>1, <2>1, StackStays DEF Deep
  <2> QED  BY <1>1, <1>3, <2>1, <2>2, QuietMoves, Zenon DEF Deep
<1> QED  BY <1>4, <1>5

LEMMA AutoReclaimKeeps ==
  ASSUME HazptrInvariant, NEW t \in Writers, AutoReclaim(t)
  PROVE  HazptrInvariant'
<1>1. pc[t] = "auto" /\ UNCHANGED <<claimed, buf, pending, ledger, freed, reg, chainVars, readVars>>
  BY DEF AutoReclaim
<1>2. CASE Call(t, "exchange", "autoend")
  <2>1. OnlyWriter(t, "exchange") /\ Stacks'
    BY <1>1, <1>2, Calling, Zenon DEF Deep, Returns
  <2> QED  BY <1>1, <2>1, ListsStay, QuietMoves, Zenon DEF Deep
<1>3. CASE Return(t)
  <2>1. PICK l \in ({"idle"} \cup Deep) \ {"scan"} : OnlyWriter(t, l) /\ Stacks'
    BY <1>1, <1>3, Returning, Zenon DEF Deep
  <2> QED  BY <1>1, <2>1, ListsStay, QuietMoves, Zenon DEF Deep
<1> QED  BY <1>2, <1>3 DEF AutoReclaim

LEMMA AutoEndKeeps ==
  ASSUME HazptrInvariant, NEW t \in Writers, AutoEnd(t)
  PROVE  HazptrInvariant'
<1>1. /\ pc[t] = "autoend" /\ Return(t)
      /\ UNCHANGED <<claimed, buf, pending, ledger, freed, reg, chainVars, readVars>>
  BY DEF AutoEnd
<1>2. PICK l \in ({"idle"} \cup Deep) \ {"scan"} : OnlyWriter(t, l) /\ Stacks'
  BY <1>1, Returning, Zenon DEF Deep
<1> QED  BY <1>1, <1>2, ListsStay, QuietMoves DEF Deep

LEMMA TryReclaimKeeps ==
  ASSUME HazptrInvariant, NEW t \in Writers, TryReclaim(t)
  PROVE  HazptrInvariant'
<1> DEFINE s == <<"exchange", "idle">>
<1>1. /\ pc[t] = "idle" /\ Goto(t, "flush") /\ stack' = [stack EXCEPT ![t] = s]
      /\ UNCHANGED <<claimed, buf, pending, ledger, freed, reg, chainVars, readVars>>
  BY DEF TryReclaim, Idle, Goto
<1>2. s \in Seq(Returns) /\ Ends(s) /\ s # <<>>
  BY FirstLabels
<1> HIDE DEF s
<1>3. OnlyWriter(t, "flush")
  BY <1>1, Zenon DEF OnlyWriter, Writing, Deep
<1>4. Stacks'
  BY <1>1, <1>2, <1>3, StackTurns, Zenon DEF Deep
<1> QED  BY <1>1, <1>3, <1>4, ListsStay, QuietMoves DEF Deep

(* A step that changes the locals of its pass.                             *)
LEMMA LocalsTurn ==
  ASSUME HazptrInvariant, NEW t \in Writers, NEW g, reg' = [reg EXCEPT ![t] = g], Locals(g),
         UNCHANGED <<claimed, buf>>, pending' \in Seq(claimed)
  PROVE  Lists' /\ reg'[t] = g /\ \A u \in Writers \ {t} : reg'[u] = reg[u]
<1>1. Lists
  BY DEF HazptrInvariant, WriterSide
<1>2. reg'[t] = g /\ \A u \in Writers \ {t} : reg'[u] = reg[u]
  BY <1>1 DEF Lists
<1>3. reg' = [u \in Writers |-> reg'[u]]
  BY <1>1, Zenon DEF Lists
<1>4. \A u \in Writers : Locals(reg[u])'
  BY <1>1, <1>2, Zenon DEF Lists, Locals
<1> QED  BY <1>1, <1>2, <1>3, <1>4, Zenon DEF Lists

LEMMA HasLocals ==
  ASSUME HazptrInvariant, NEW t \in Writers
  PROVE  Locals(reg[t]) /\ reg = [u \in Writers |-> reg[u]] /\ pending \in Seq(claimed)
BY Zenon DEF HazptrInvariant, WriterSide, Lists

(* One local is set, the others stay.                                      *)
LEMMA TodoSet ==
  ASSUME NEW g, Locals(g), NEW x
  PROVE  LET h == [g EXCEPT !.todo = x]
         IN /\ Locals(h) /\ h.todo = x
            /\ h.obj = g.obj /\ h.prot = g.prot /\ h.batch = g.batch /\ h.pos = g.pos
            /\ h.taken = g.taken /\ h.keep = g.keep /\ h.owed = g.owed
BY DEF Locals

LEMMA ProtSet ==
  ASSUME NEW g, Locals(g), NEW x, NEW h, h = [g EXCEPT !.prot = x]
  PROVE  /\ Locals(h) /\ h.prot = x
         /\ h.obj = g.obj /\ h.todo = g.todo /\ h.batch = g.batch /\ h.pos = g.pos
         /\ h.taken = g.taken /\ h.keep = g.keep /\ h.owed = g.owed
BY Zenon DEF Locals

LEMMA BatchSet ==
  ASSUME NEW g, Locals(g), NEW x \in {0, 1}, NEW h, h = [g EXCEPT !.batch = x]
  PROVE  /\ Locals(h) /\ h.batch = x
         /\ h.obj = g.obj /\ h.todo = g.todo /\ h.prot = g.prot /\ h.pos = g.pos
         /\ h.taken = g.taken /\ h.keep = g.keep /\ h.owed = g.owed
BY DEF Locals

LEMMA PosSet ==
  ASSUME NEW g, Locals(g), NEW x \in Nat \ {0}, NEW h, h = [g EXCEPT !.pos = x]
  PROVE  /\ Locals(h) /\ h.pos = x
         /\ h.obj = g.obj /\ h.todo = g.todo /\ h.prot = g.prot /\ h.batch = g.batch
         /\ h.taken = g.taken /\ h.keep = g.keep /\ h.owed = g.owed
BY Zenon DEF Locals

LEMMA TakenSet ==
  ASSUME NEW g, Locals(g), NEW x \in Seq(claimed), NEW h, h = [g EXCEPT !.taken = x]
  PROVE  /\ Locals(h) /\ h.taken = x
         /\ h.obj = g.obj /\ h.todo = g.todo /\ h.prot = g.prot /\ h.batch = g.batch
         /\ h.pos = g.pos /\ h.keep = g.keep /\ h.owed = g.owed
BY Zenon DEF Locals

LEMMA KeepSet ==
  ASSUME NEW g, Locals(g), NEW x \in Seq(claimed), NEW h, h = [g EXCEPT !.keep = x]
  PROVE  /\ Locals(h) /\ h.keep = x
         /\ h.obj = g.obj /\ h.todo = g.todo /\ h.prot = g.prot /\ h.batch = g.batch
         /\ h.pos = g.pos /\ h.taken = g.taken /\ h.owed = g.owed
BY DEF Locals

LEMMA OwedSet ==
  ASSUME NEW g, Locals(g), NEW x
  PROVE  LET h == [g EXCEPT !.owed = x]
         IN /\ Locals(h) /\ h.owed = x
            /\ h.obj = g.obj /\ h.todo = g.todo /\ h.prot = g.prot /\ h.batch = g.batch
            /\ h.pos = g.pos /\ h.taken = g.taken /\ h.keep = g.keep
BY DEF Locals

LEMMA ExchangeKeeps ==
  ASSUME HazptrInvariant, NEW t \in Writers, Exchange(t)
  PROVE  HazptrInvariant'
<1>1. /\ pc[t] = "exchange" /\ pending' = <<>>
      /\ UNCHANGED <<claimed, buf, ledger, reclaiming, freed, chainVars, readVars>>
  BY DEF Exchange
<1>2. Locals(reg[t]) /\ reg = [u \in Writers |-> reg[u]] /\ pending \in Seq(claimed)
      /\ pending' \in Seq(claimed)
  BY <1>1, HasLocals, EmptySeq
<1>3. CASE pending = <<>>
  <2>1. Return(t) /\ reg' = reg
    BY <1>3 DEF Exchange
  <2>2. PICK l \in ({"idle"} \cup Deep) \ {"scan"} : OnlyWriter(t, l) /\ Stacks'
    BY <1>1, <2>1, Returning, Zenon DEF Deep
  <2> QED  BY <1>1, <1>3, <2>1, <2>2, ListsStay, QuietMoves, Zenon DEF Deep
<1>4. CASE pending # <<>>
  <2>1. PICK batch \in {0, 1} :
          reg' = [reg EXCEPT ![t].batch = batch,
                             ![t].taken = IF batch > 0 THEN reverse_pending_list(pending)
                                                       ELSE pending]
    BY <1>4, Zenon DEF Exchange
  <2> DEFINE list == IF batch > 0 THEN reverse_pending_list(pending) ELSE pending
             f == [reg[t] EXCEPT !.batch = batch]
             g == [f EXCEPT !.taken = list]
  <2>2. list \in Seq(claimed)
    BY <1>2, ReversedSeq
  <2>3. reg' = [reg EXCEPT ![t] = g]
    BY <1>2, <2>1, Zenon
  <2> HIDE DEF list
  <2> HIDE DEF f, g
  <2>4. Locals(g) /\ g.obj = reg[t].obj
    <3>1. Locals(f) /\ f.obj = reg[t].obj
      BY <1>2, BatchSet DEF f
    <3> QED  BY <2>2, <3>1, TakenSet DEF g
  <2>5. Lists' /\ reg'[t] = g /\ \A u \in Writers \ {t} : reg'[u] = reg[u]
    BY <1>1, <1>2, <2>3, <2>4, LocalsTurn
  <2>6. OnlyWriter(t, "count") /\ stack' = stack
    BY <1>1, <1>4, <2>5 DEF Exchange, OnlyWriter, Writing, Deep
  <2>7. Stacks'
    BY <1>1, <2>6, StackStays DEF Deep
  <2> QED  BY <1>1, <2>4, <2>5, <2>6, <2>7, QuietMoves DEF Deep
<1> QED  BY <1>3, <1>4

(* Slots are counted before they are scanned: a reader that uses a node    *)
(* owns its slots.                                                         *)
LEMMA CountActiveKeeps ==
  ASSUME HazptrInvariant, NEW t \in Writers, CountActive(t)
  PROVE  HazptrInvariant'
<1> DEFINE todo == IF active = {} THEN {} ELSE Readers
           g == [reg[t] EXCEPT !.todo = todo]
<1>1. /\ pc[t] = "count" /\ Goto(t, "scan") /\ reg' = [reg EXCEPT ![t] = g]
      /\ UNCHANGED <<claimed, buf, pending, ledger, reclaiming, freed, stack, chainVars, readVars>>
  BY DEF CountActive
<1>2. Locals(reg[t]) /\ pending' \in Seq(claimed)
  BY <1>1, HasLocals
<1> HIDE DEF g
<1>3. Locals(g) /\ g.obj = reg[t].obj /\ g.todo = todo
  <2>1. g = [reg[t] EXCEPT !.todo = todo]
    BY DEF g
  <2> HIDE DEF todo
  <2>2. Locals(reg[t])
    BY <1>2
  <2> QED  BY <2>1, <2>2, TodoSet
<1>4. Lists' /\ reg'[t] = g /\ \A u \in Writers \ {t} : reg'[u] = reg[u]
  BY <1>1, <1>2, <1>3, LocalsTurn, Zenon
<1>5. OnlyWriter(t, "scan")
  BY <1>1, <1>4 DEF OnlyWriter, Writing, Deep
<1>6. Stacks'
  BY <1>1, <1>5, StackStays DEF Deep
<1>7. freed' \subseteq claimed
  BY <1>1 DEF HazptrInvariant, WriterSide, Chains
<1>8. ASSUME NEW r \in Readers, pc[r] = "use"
      PROVE  ptr[r] \notin freed' /\ Covered(r, t)'
  <2>1. r \in active /\ ptr[r] \notin freed
    BY <1>8, Zenon DEF HazptrInvariant, ReaderSide, ReaderFits, UseSafe, Reading
  <2>2. r \in reg'[t].todo
    BY <1>3, <1>4, <2>1
  <2> QED  BY <1>1, <2>1, <2>2 DEF Covered
<1> QED  BY <1>1, <1>3, <1>4, <1>5, <1>6, <1>7, <1>8, DeepMoves, Zenon DEF Deep

(* Once a reader's slots have been scanned, what it uses is in prot.       *)
LEMMA ScanSlotsKeeps ==
  ASSUME HazptrInvariant, NEW t \in Writers, ScanSlots(t)
  PROVE  HazptrInvariant'
<1>1. PICK q \in reg[t].todo :
        reg' = [reg EXCEPT ![t].todo = @ \ {q},
                           ![t].prot = @ \cup IF q \in active THEN {hp[q][1], hp[q][2]} ELSE {}]
  BY Zenon DEF ScanSlots
<1> DEFINE seen == IF q \in active THEN {hp[q][1], hp[q][2]} ELSE {}
           f == [reg[t] EXCEPT !.todo = reg[t].todo \ {q}]
           g == [f EXCEPT !.prot = reg[t].prot \cup seen]
<1>2. /\ pc[t] = "scan" /\ pc' = pc
      /\ UNCHANGED <<claimed, buf, pending, ledger, reclaiming, freed, pc, stack, chainVars, readVars>>
  BY DEF ScanSlots
<1>3. Locals(reg[t]) /\ reg = [u \in Writers |-> reg[u]] /\ pending' \in Seq(claimed)
  BY <1>2, HasLocals
<1>4. reg' = [reg EXCEPT ![t] = g]
  BY <1>1, <1>3, Zenon
<1> HIDE DEF f, g
<1>5. /\ Locals(g) /\ g.obj = reg[t].obj /\ g.taken = reg[t].taken
      /\ g.todo = reg[t].todo \ {q} /\ g.prot = reg[t].prot \cup seen
  <2> DEFINE todo == reg[t].todo \ {q}
  <2>1. /\ Locals(f) /\ f.obj = reg[t].obj /\ f.taken = reg[t].taken /\ f.prot = reg[t].prot
        /\ f.todo = reg[t].todo \ {q}
    <3>1. f = [reg[t] EXCEPT !.todo = todo]
      BY DEF f
    <3> HIDE DEF todo
    <3>2. /\ Locals(f) /\ f.obj = reg[t].obj /\ f.taken = reg[t].taken /\ f.prot = reg[t].prot
          /\ f.todo = todo
      BY <1>3, <3>1, TodoSet
    <3> QED  BY <3>2 DEF todo
  <2> HIDE DEF seen
  <2> QED  BY <2>1, ProtSet DEF g
<1>6. Lists' /\ reg'[t] = g /\ \A u \in Writers \ {t} : reg'[u] = reg[u]
  BY <1>2, <1>3, <1>4, <1>5, LocalsTurn
<1>7. Goto(t, "scan")
  BY <1>2 DEF Goto, HazptrInvariant, WriterSide, Stacks
<1>8. OnlyWriter(t, "scan")
  BY <1>2, <1>6, <1>7, Zenon DEF OnlyWriter, Writing, Deep
<1>9. Stacks'
  BY <1>2, <1>8, StackStays, Zenon DEF Deep
<1>10. freed' \subseteq claimed
  BY <1>2, Zenon DEF HazptrInvariant, WriterSide, Chains
<1>11. ASSUME NEW r \in Readers, pc[r] = "use"
       PROVE  ptr[r] \notin freed' /\ Covered(r, t)'
  <2>1. /\ r \in active /\ hp[r][1] = ptr[r] /\ ptr[r] \notin freed /\ Covered(r, t)
    BY <1>11, Zenon DEF HazptrInvariant, ReaderSide, ReaderFits, UseSafe, Reading
  <2>2. ptr' = ptr
    BY <1>2 DEF readVars
  <2>3. q = r => ptr[r] \in seen
    BY <2>1
  <2> QED  BY <1>2, <1>5, <1>6, <2>1, <2>2, <2>3, Zenon DEF Covered
<1> QED  BY <1>2, <1>5, <1>6, <1>8, <1>9, <1>10, <1>11, DeepMoves, Zenon DEF Deep

LEMMA FreeNextKeeps ==
  ASSUME HazptrInvariant, NEW t \in Writers, FreeNext(t)
  PROVE  HazptrInvariant'
<1> DEFINE n == reg[t].taken[reg[t].pos]
           f == [reg[t] EXCEPT !.pos = reg[t].pos + 1]
<1>1. /\ pc[t] = "scan" /\ reg[t].todo = {} /\ reg[t].pos <= Len(reg[t].taken)
      /\ UNCHANGED <<claimed, buf, pending, ledger, reclaiming, pc, stack, chainVars, readVars>>
  BY DEF FreeNext, More
<1>2. Locals(reg[t]) /\ reg = [u \in Writers |-> reg[u]] /\ pending' \in Seq(claimed)
  BY <1>1, HasLocals, Zenon
<1>3. /\ reg[t].pos \in 1..Len(reg[t].taken) /\ reg[t].pos + 1 \in Nat \ {0}
      /\ reg[t].keep \in Seq(claimed)
  BY <1>1, <1>2, Elements DEF Locals
<1>4. n \in claimed
  BY <1>2, <1>3, Elements DEF Locals
<1>5. /\ Locals(f) /\ f.obj = reg[t].obj /\ f.taken = reg[t].taken /\ f.keep = reg[t].keep
      /\ f.todo = {} /\ f.prot = reg[t].prot
  BY <1>1, <1>2, <1>3, PosSet
<1>6. Goto(t, "scan")
  BY <1>1 DEF Goto, HazptrInvariant, WriterSide, Stacks
<1>7. freed \subseteq claimed
  BY DEF HazptrInvariant, WriterSide, Chains
<1>8. /\ freed' \subseteq claimed
      /\ \E g : /\ reg' = [reg EXCEPT ![t] = g] /\ Locals(g) /\ g.obj = reg[t].obj
                /\ g.taken = reg[t].taken /\ g.todo = {} /\ g.prot = reg[t].prot
      /\ freed' = freed \/ (freed' = freed \cup {n} /\ n \notin reg[t].prot)
  <2>1. CASE IsProtected(t, n)
    <3> DEFINE k == Append(reg[t].keep, n)
               g == [f EXCEPT !.keep = k]
    <3>1. /\ freed' = freed
          /\ reg' = [reg EXCEPT ![t].pos = @ + 1, ![t].keep = Append(@, n)]
      BY <2>1 DEF FreeNext
    <3>2. reg' = [reg EXCEPT ![t] = g]
      BY <1>2, <3>1, Zenon
    <3>3. k \in Seq(claimed)
      BY <1>3, <1>4, AppendSeq, Zenon
    <3> HIDE DEF f, k
    <3>4. /\ Locals(g) /\ g.obj = reg[t].obj /\ g.taken = reg[t].taken /\ g.todo = {}
          /\ g.prot = reg[t].prot
      BY <1>5, <3>3, KeepSet
    <3> HIDE DEF g, n
    <3> QED  BY <1>7, <3>1, <3>2, <3>4, Zenon
  <2>2. CASE ~IsProtected(t, n)
    <3>1. /\ freed' = freed \cup {n} /\ n \notin reg[t].prot
          /\ reg' = [reg EXCEPT ![t] = f]
      BY <1>2, <2>2 DEF FreeNext, IsProtected
    <3> HIDE DEF f, n
    <3> QED  BY <1>4, <1>5, <1>7, <3>1, Zenon
  <2> QED  BY <2>1, <2>2, Zenon
<1> HIDE DEF f
<1>9. PICK g : /\ reg' = [reg EXCEPT ![t] = g] /\ Locals(g) /\ g.obj = reg[t].obj
               /\ g.taken = reg[t].taken /\ g.todo = {} /\ g.prot = reg[t].prot
  BY <1>8, Zenon
<1>10. Lists' /\ reg'[t] = g /\ \A u \in Writers \ {t} : reg'[u] = reg[u]
  BY <1>1, <1>2, <1>9, LocalsTurn, ZenonT(60)
<1>11. OnlyWriter(t, "scan")
  BY <1>1, <1>6, <1>10, Zenon DEF OnlyWriter, Writing, Deep
<1>12. Stacks'
  BY <1>1, <1>11, StackStays DEF Deep
<1>13. ASSUME NEW r \in Readers, pc[r] = "use"
       PROVE  ptr[r] \notin freed' /\ Covered(r, t)'
  <2>1. ptr[r] \notin freed /\ Covered(r, t) /\ ptr' = ptr
    BY <1>1, <1>13, Zenon DEF HazptrInvariant, ReaderSide, UseSafe, readVars
  <2>2. ptr[r] \notin freed'
    BY <1>1, <1>3, <1>8, <2>1, Zenon DEF Covered
  <2>3. Covered(r, t)'
    BY <1>1, <1>9, <1>10, <2>1, Zenon DEF Covered
  <2> QED  BY <2>2, <2>3
<1> QED  BY <1>1, <1>8, <1>9, <1>10, <1>11, <1>12, <1>13, DeepMoves, Zenon DEF Deep

LEMMA FreeEndKeeps ==
  ASSUME HazptrInvariant, NEW t \in Writers, FreeEnd(t)
  PROVE  HazptrInvariant'
<1> DEFINE k == reg[t].keep \o SubSeq(reg[t].taken, reg[t].pos, Len(reg[t].taken))
           g == [reg[t] EXCEPT !.keep = k]
<1>1. /\ pc[t] = "scan" /\ Goto(t, "putback") /\ reg' = [reg EXCEPT ![t] = g]
      /\ UNCHANGED <<claimed, buf, pending, ledger, reclaiming, freed, stack, chainVars, readVars>>
  BY DEF FreeEnd
<1>2. Locals(reg[t]) /\ pending' \in Seq(claimed)
  BY <1>1, HasLocals, Zenon
<1>3. k \in Seq(claimed)
  <2>1. SubSeq(reg[t].taken, reg[t].pos, Len(reg[t].taken)) \in Seq(claimed)
    BY <1>2, SubSeqSeq DEF Locals
  <2> QED  BY <1>2, <2>1, ConcatSeq, Zenon DEF Locals
<1> HIDE DEF k
<1>4. Locals(g) /\ g.obj = reg[t].obj
  BY <1>2, <1>3, KeepSet
<1> HIDE DEF g
<1>5. Lists' /\ reg'[t] = g /\ \A u \in Writers \ {t} : reg'[u] = reg[u]
  BY <1>1, <1>2, <1>4, LocalsTurn, Zenon
<1>6. OnlyWriter(t, "putback")
  BY <1>1, <1>5 DEF OnlyWriter, Writing, Deep
<1>7. Stacks'
  BY <1>1, <1>6, StackStays DEF Deep
<1> QED  BY <1>1, <1>4, <1>5, <1>6, <1>7, QuietMoves DEF Deep

LEMMA PutBackKeeps ==
  ASSUME HazptrInvariant, NEW t \in Writers, PutBack(t)
  PROVE  HazptrInvariant'
<1> DEFINE w == <<Len(reg[t].taken)>> \o reg[t].owed
           g == [NoRegs EXCEPT !.owed = w]
<1>1. /\ pc[t] = "putback" /\ pending' = reg[t].keep \o pending /\ reg' = [reg EXCEPT ![t] = g]
      /\ UNCHANGED <<claimed, buf, reclaiming, freed, chainVars, readVars>>
  BY DEF PutBack
<1>2. Locals(reg[t]) /\ pending' \in Seq(claimed)
  BY <1>1, HasLocals, ConcatSeq DEF Locals
<1>3. reg[t].obj = None
  BY <1>1 DEF HazptrInvariant, WriterSide, Erasers
<1> HIDE DEF w
<1>4. Locals(g) /\ g.obj = None
  BY NoLocals, OwedSet
<1> HIDE DEF g
<1>5. Lists' /\ reg'[t] = g /\ \A u \in Writers \ {t} : reg'[u] = reg[u]
  BY <1>1, <1>2, <1>4, LocalsTurn, Zenon
<1>6. CASE reg[t].keep = <<>>
  <2>1. OnlyWriter(t, "release") /\ stack' = stack
    BY <1>1, <1>5, <1>6 DEF PutBack, OnlyWriter, Writing, Deep
  <2>2. Stacks'
    BY <1>1, <2>1, StackStays, Zenon DEF Deep
  <2> QED  BY <1>1, <1>3, <1>4, <1>5, <2>1, <2>2, QuietMoves DEF Deep
<1>7. CASE reg[t].keep # <<>>
  <2>1. Call(t, "auto", "release")
    BY <1>7 DEF PutBack
  <2>2. OnlyWriter(t, "auto") /\ Stacks'
    BY <1>1, <1>5, <2>1, Calling, Zenon DEF Deep, Returns
  <2> QED  BY <1>1, <1>3, <1>4, <1>5, <2>2, QuietMoves DEF Deep
<1> QED  BY <1>6, <1>7

LEMMA PendingReleaseKeeps ==
  ASSUME HazptrInvariant, NEW t \in Writers, PendingRelease(t)
  PROVE  HazptrInvariant'
<1> DEFINE g == [reg[t] EXCEPT !.owed = Tail(reg[t].owed)]
<1>1. /\ pc[t] = "release" /\ Return(t) /\ reg' = [reg EXCEPT ![t] = g]
      /\ UNCHANGED <<claimed, buf, pending, reclaiming, freed, chainVars, readVars>>
  BY DEF PendingRelease
<1>2. Locals(reg[t]) /\ pending' \in Seq(claimed)
  BY <1>1, HasLocals
<1>3. Locals(g) /\ g.obj = reg[t].obj
  BY <1>2, OwedSet, ZenonT(60)
<1> HIDE DEF g
<1>4. Lists' /\ reg'[t] = g /\ \A u \in Writers \ {t} : reg'[u] = reg[u]
  BY <1>1, <1>2, <1>3, LocalsTurn, Zenon
<1>5. PICK l \in ({"idle"} \cup Deep) \ {"scan"} : OnlyWriter(t, l) /\ Stacks'
  BY <1>1, <1>4, Returning DEF Deep
<1> QED  BY <1>1, <1>3, <1>4, <1>5, QuietMoves DEF Deep

(* The chain itself.  A link to a node that is put in front of the chain   *)
(* or taken out of it keeps its direction.                                 *)
LEMMA InsertKeeps ==
  ASSUME HazptrInvariant, NEW t \in Writers, Insert(t)
  PROVE  HazptrInvariant'
<1>1. PICK n \in fresh : /\ nxt' = [nxt EXCEPT ![n] = head] /\ head' = n /\ fresh' = fresh \ {n}
  BY Zenon DEF Insert
<1>2. pc[t] = "idle" /\ version' = version + 2 /\ UNCHANGED <<pc, readVars, retireVars>>
  BY DEF Insert, Idle
<1>3. UNCHANGED <<claimed, buf, pending, freed, stack, reg>>
  BY <1>2 DEF retireVars
<1>4. Chains /\ NoLoops /\ ChainLive /\ Erasers /\ Lists /\ Stacks
  BY Zenon DEF HazptrInvariant, WriterSide
<1>5. /\ n \in Nodes /\ n # head /\ (\A m \in Nodes : nxt[m] # n) /\ Unlinked(n)
  BY <1>1, <1>4 DEF Chains, ChainLive, Unlinked
<1>6. Chains'
  BY <1>1, <1>2, <1>3, <1>4, <1>5 DEF Chains, Links
<1>7. NoLoops'
  <2>1. PICK rank \in [Nodes -> Int] :
          \A m \in Nodes : nxt[m] \in Nodes => rank[nxt[m]] < rank[m]
    BY <1>4 DEF NoLoops
  <2> DEFINE top == IF head \in Nodes THEN rank[head] + 1 ELSE 0
             high == [rank EXCEPT ![n] = top]
  <2>2. top \in Int /\ (head \in Nodes => rank[head] < top)
    BY <2>1
  <2> HIDE DEF top
  <2>3. /\ high \in [Nodes -> Int] /\ high[n] = top /\ \A m \in Nodes \ {n} : high[m] = rank[m]
    BY <1>5, <2>2
  <2>4. nxt'[n] = head /\ \A m \in Nodes \ {n} : nxt'[m] = nxt[m]
    BY <1>1, <1>4, <1>5, Zenon DEF Chains
  <2> HIDE DEF high
  <2>5. \A m \in Nodes : nxt'[m] \in Nodes => high[nxt'[m]] < high[m]
    BY <1>5, <2>1, <2>2, <2>3, <2>4, Zenon
  <2> QED  BY <2>3, <2>5 DEF NoLoops
<1>8. \A m : Unlinked(m)' => Unlinked(m) /\ m # n
  <2>1. \A u \in Writers : pc[u] = "retire" => reg[u].obj # n
    BY <1>1, <1>4, Zenon DEF Erasers
  <2>2. n \notin claimed /\ n \notin fresh'
    BY <1>1, <1>4 DEF Chains
  <2> QED  BY <1>1, <1>2, <1>3, <2>1, <2>2, ZenonT(60) DEF Unlinked
<1>9. ChainLive'
  <2>1. \A m \in Nodes : nxt'[m] = head \/ nxt'[m] = nxt[m]
    BY <1>1, <1>4, Zenon DEF Chains
  <2> QED  BY <1>1, <1>4, <1>8, <2>1 DEF ChainLive
<1>10. Erasers'
  BY <1>1, <1>2, <1>3, <1>4 DEF Erasers
<1>11. Lists'
  BY <1>3, ListsStay
<1>12. Goto(t, "idle")
  BY <1>2, <1>4, Zenon DEF Goto, Stacks
<1>13. OnlyWriter(t, "idle")
  BY <1>2, <1>3, <1>12 DEF OnlyWriter
<1>14. Stacks'
  BY <1>2, <1>3, <1>13, StackStays
<1>15. version' > version
  BY <1>2, <1>4 DEF Chains
<1>16. WriterSide'
  BY <1>6, <1>7, <1>9, <1>10, <1>11, <1>14, ZenonT(60) DEF WriterSide
<1>17. \A r \in Readers : pc[r] = "use" => ptr[r] \notin freed' /\ Covered(r, t)'
  BY <1>3, <1>13, NothingTaken
<1> QED  BY <1>13, <1>15, <1>16, <1>17, WriterMoves

LEMMA ObjSet ==
  ASSUME NEW g, Locals(g), NEW x
  PROVE  LET h == [g EXCEPT !.obj = x]
         IN /\ Locals(h) /\ h.obj = x /\ h.taken = g.taken /\ h.keep = g.keep
            /\ h.pos = g.pos /\ h.batch = g.batch
BY DEF Locals

LEMMA EraseBeginKeeps ==
  ASSUME HazptrInvariant, NEW t \in Writers, EraseBegin(t)
  PROVE  HazptrInvariant'
<1>1. PICK n \in Nodes \ (claimed \cup fresh) :
        (\A u \in Writers : reg[u].obj # n) /\ reg' = [reg EXCEPT ![t].obj = n]
  BY Zenon DEF EraseBegin
<1>2. /\ pc[t] = "idle" /\ version' = version + 1 /\ Goto(t, "unlink")
      /\ UNCHANGED <<head, nxt, fresh, readVars, claimed, buf, pending, freed, stack>>
  BY DEF EraseBegin, Idle
<1>3. Chains /\ NoLoops /\ ChainLive /\ Erasers /\ Lists /\ Stacks
  BY DEF HazptrInvariant, WriterSide
<1> DEFINE g == [reg[t] EXCEPT !.obj = n]
<1>4. Locals(reg[t]) /\ pending' \in Seq(claimed)
  BY <1>2, <1>3 DEF Lists
<1>5. Locals(g) /\ g.obj = n
  BY <1>4, ObjSet
<1>6. reg' = [reg EXCEPT ![t] = g]
  BY <1>1
<1> HIDE DEF g
<1>7. Lists' /\ reg'[t] = g /\ \A u \in Writers \ {t} : reg'[u] = reg[u]
  BY <1>2, <1>4, <1>5, <1>6, LocalsTurn, Zenon
<1>8. OnlyWriter(t, "unlink")
  BY <1>2, <1>7 DEF OnlyWriter, Writing
<1>9. pc'[t] = "unlink" /\ \A u \in Writers \ {t} : pc'[u] = pc[u]
  BY <1>8, WriterFrame
<1>10. Stacks'
  BY <1>2, <1>8, StackStays DEF Deep
<1>11. Chains' /\ version' > version
  BY <1>2, <1>3 DEF Chains
<1>12. NoLoops'
  BY <1>2, <1>3, Zenon DEF NoLoops
<1>13. \A m : Unlinked(m)' => Unlinked(m)
  BY <1>2, <1>7, <1>9 DEF Unlinked
<1>14. ChainLive'
  BY <1>2, <1>3, <1>13, Zenon DEF ChainLive
<1>15. Erasers'
  <2>1. \A u \in Writers \ {t} : reg'[u].obj = reg[u].obj /\ reg[u].obj # n
    BY <1>1, <1>7, Zenon
  <2>2. reg'[t].obj = n
    BY <1>5, <1>7
  <2> QED  BY <1>1, <1>2, <1>3, <1>9, <2>1, <2>2 DEF Erasers
<1>16. WriterSide'
  BY <1>7, <1>10, <1>11, <1>12, <1>14, <1>15, ZenonT(60) DEF WriterSide
<1>17. \A r \in Readers : pc[r] = "use" => ptr[r] \notin freed' /\ Covered(r, t)'
  BY <1>2, <1>8, NothingTaken
<1> QED  BY <1>8, <1>11, <1>16, <1>17, WriterMoves

LEMMA EraseEndKeeps ==
  ASSUME HazptrInvariant, NEW t \in Writers, EraseEnd(t)
  PROVE  HazptrInvariant'
<1> DEFINE n == reg[t].obj
<1>1. /\ pc[t] = "unlink" /\ version' = version + 1 /\ Goto(t, "retire")
      /\ head' = (IF head = n THEN nxt[n] ELSE head)
      /\ nxt' = [m \in Nodes |-> IF m = n THEN None ELSE IF nxt[m] = n THEN nxt[n] ELSE nxt[m]]
      /\ UNCHANGED <<fresh, readVars, retireVars>>
  BY Zenon DEF EraseEnd
<1>2. UNCHANGED <<fresh, claimed, buf, pending, freed, stack, reg>>
  BY <1>1, Zenon DEF retireVars
<1>3. Chains /\ NoLoops /\ ChainLive /\ Erasers /\ Lists /\ Stacks
  BY DEF HazptrInvariant, WriterSide
<1>4. n \in Nodes /\ None \notin Nodes
  BY <1>1, <1>3, Zenon DEF Erasers, HazptrInvariant, Setting
<1> HIDE DEF n
<1>5. OnlyWriter(t, "retire")
  BY <1>1, <1>2, Zenon DEF OnlyWriter, Writing
<1>6. pc'[t] = "retire" /\ \A u \in Writers \ {t} : pc'[u] = pc[u]
  BY <1>5, WriterFrame, Zenon
<1>7. Stacks'
  <2>1. pc[t] = "unlink" /\ stack' = stack
    BY <1>1, <1>2, Zenon
  <2>2. "unlink" \notin Deep /\ "retire" \notin Deep
    BY DEF Deep
  <2> QED  BY <1>5, <2>1, <2>2, StackStays, Zenon
<1>8. Lists'
  BY <1>2, ListsStay, Zenon
<1>9. Chains' /\ version' > version
  BY <1>1, <1>2, <1>3, <1>4 DEF Chains, Links
<1>10. PICK rank \in [Nodes -> Int] :
         \A m \in Nodes : nxt[m] \in Nodes => rank[nxt[m]] < rank[m]
  BY <1>3, Zenon DEF NoLoops
<1>11. \A m \in Nodes : nxt'[m] \in Nodes =>
         /\ m # n /\ nxt'[m] = (IF nxt[m] = n THEN nxt[n] ELSE nxt[m])
  BY <1>1, <1>4, Zenon
<1>12. NoLoops'
  <2>1. \A m \in Nodes : nxt'[m] \in Nodes => rank[nxt'[m]] < rank[m]
    BY <1>4, <1>10, <1>11
  <2> QED  BY <1>10, <2>1 DEF NoLoops
<1>13. \A m : Unlinked(m)' => Unlinked(m) \/ m = n
  BY <1>1, <1>2, <1>6 DEF Unlinked, n
<1>14. ChainLive'
  <2>1. nxt[n] \in Nodes => nxt[n] # n /\ ~Unlinked(nxt[n])
    BY <1>3, <1>4, <1>10 DEF ChainLive
  <2>2. head' \in Nodes => ~Unlinked(head)'
    <3>1. head' \in Nodes => ~Unlinked(head') /\ head' # n
      BY <1>1, <1>3, <2>1, Zenon DEF ChainLive
    <3>2. Unlinked(head)' => Unlinked(head') \/ head' = n
      BY <1>1, <1>2, <1>6, Zenon DEF Unlinked, n
    <3> QED  BY <3>1, <3>2
  <2>3. ASSUME NEW m \in Nodes, nxt'[m] \in Nodes
        PROVE  ~Unlinked(nxt[m])'
    <3>1. ~Unlinked(nxt'[m]) /\ nxt'[m] # n
      BY <1>3, <1>11, <2>1, <2>3, Zenon DEF ChainLive
    <3>2. Unlinked(nxt[m])' => Unlinked(nxt'[m]) \/ nxt'[m] = n
      BY <1>1, <1>2, <1>6, Zenon DEF Unlinked, n
    <3> QED  BY <3>1, <3>2, Zenon
  <2> QED  BY <2>2, <2>3 DEF ChainLive
<1>15. Erasers'
  BY <1>1, <1>2, <1>3, <1>6 DEF Erasers
<1>16. WriterSide'
  BY <1>7, <1>8, <1>9, <1>12, <1>14, <1>15, ZenonT(60) DEF WriterSide
<1>17. \A r \in Readers : pc[r] = "use" => ptr[r] \notin freed' /\ Covered(r, t)'
  BY <1>2, <1>5, NothingTaken
<1> QED  BY <1>5, <1>9, <1>16, <1>17, WriterMoves, Zenon

LEMMA RetireKeeps ==
  ASSUME HazptrInvariant, NEW t \in Writers, Retire(t)
  PROVE  HazptrInvariant'
<1> DEFINE n == reg[t].obj
           g == [reg[t] EXCEPT !.obj = None]
<1>1. /\ pc[t] = "retire" /\ reg' = [reg EXCEPT ![t] = g] /\ claimed' = claimed \cup {n}
      /\ buf' = [buf EXCEPT ![t] = Append(buf[t], n)]
      /\ UNCHANGED <<pending, freed, head, nxt, version, fresh, readVars>>
  BY DEF Retire, chainVars
<1>2. Chains /\ NoLoops /\ ChainLive /\ Erasers /\ Lists /\ Stacks
  BY DEF HazptrInvariant, WriterSide
<1>3. n \in Nodes \ (claimed \cup fresh) /\ n # None
  BY <1>1, <1>2 DEF Erasers, HazptrInvariant, Setting
<1>4. \A u \in Writers \ {t} : reg[u].obj # n
  BY <1>2, <1>3 DEF Erasers
<1>5. Locals(reg[t])
  BY <1>2 DEF Lists
<1>6. Locals(g) /\ g.obj = None
  BY <1>5, ObjSet
<1> HIDE DEF n, g
<1>7. reg'[t] = g /\ (\A u \in Writers \ {t} : reg'[u] = reg[u]) /\ reg' = [u \in Writers |-> reg'[u]]
  BY <1>1, <1>2, Zenon DEF Lists
<1>8. claimed \subseteq claimed' /\ Seq(claimed) \subseteq Seq(claimed')
  BY <1>1, SeqGrows
<1>9. Lists'
  <2>1. \A u \in Writers : Locals(reg'[u])
    BY <1>2, <1>6, <1>7, Zenon DEF Lists
  <2>2. \A u \in Writers : Locals(reg[u])'
    BY <1>8, <2>1, Zenon DEF Locals
  <2>3. pending' \in Seq(claimed')
    BY <1>1, <1>2, <1>8 DEF Lists
  <2>4. Append(buf[t], n) \in Seq(claimed')
    <3>1. buf[t] \in Seq(claimed') /\ n \in claimed'
      BY <1>1, <1>2, <1>8 DEF Lists
    <3> QED  BY <3>1, AppendSeq
  <2>5. buf' = [u \in Writers |-> buf'[u]] /\ \A u \in Writers : buf'[u] \in Seq(claimed')
    <3> DEFINE b == Append(buf[t], n)
    <3>1. b \in Seq(claimed') /\ buf' = [buf EXCEPT ![t] = b]
      BY <1>1, <2>4
    <3> HIDE DEF b
    <3> QED  BY <1>2, <1>8, <3>1, Zenon DEF Lists
  <2> QED  BY <1>7, <2>2, <2>3, <2>5, Zenon DEF Lists
<1>10. \E l \in {"idle", "flush"} : OnlyWriter(t, l) /\ Stacks'
  <2>1. stack[t] = <<>>
    BY <1>1, <1>2 DEF Stacks, Deep
  <2>2. CASE Call(t, "flush", "idle")
    <3>1. OnlyWriter(t, "flush")
      BY <1>1, <1>7, <2>2 DEF OnlyWriter, Call, Writing, Deep
    <3>2. stack' = [stack EXCEPT ![t] = <<"idle">>]
      BY <2>1, <2>2 DEF Call
    <3>3. Stacks'
      BY <3>1, <3>2, FirstLabels, StackTurns, Zenon DEF Deep
    <3> QED  BY <3>1, <3>3, Zenon
  <2>3. CASE Goto(t, "idle") /\ UNCHANGED stack
    <3>1. OnlyWriter(t, "idle")
      BY <1>1, <1>7, <2>3, Zenon DEF OnlyWriter, Writing
    <3>2. Stacks'
      BY <1>1, <2>3, <3>1, StackStays DEF Deep
    <3> QED  BY <3>1, <3>2
  <2> QED  BY <2>2, <2>3, Zenon DEF Retire
<1>11. PICK l \in {"idle", "flush"} : OnlyWriter(t, l) /\ Stacks'
  BY <1>10
<1>12. pc'[t] = l /\ \A u \in Writers \ {t} : pc'[u] = pc[u]
  BY <1>11, WriterFrame
<1>13. Chains'
  BY <1>1, <1>2, <1>3, Zenon DEF Chains
<1>14. NoLoops'
  BY <1>1, <1>2, Zenon DEF NoLoops
<1>15. \A m : Unlinked(m)' => Unlinked(m)
  <2>1. Unlinked(n)
    BY <1>1 DEF Unlinked, n
  <2> QED  BY <1>1, <1>7, <1>12, <2>1, Zenon DEF Unlinked
<1>16. ChainLive'
  BY <1>1, <1>2, <1>15, Zenon DEF ChainLive
<1>17. Erasers'
  BY <1>1, <1>2, <1>4, <1>6, <1>7, <1>12, Zenon DEF Erasers
<1>18. WriterSide'
  BY <1>9, <1>11, <1>13, <1>14, <1>16, <1>17 DEF WriterSide
<1>19. \A r \in Readers : pc[r] = "use" => ptr[r] \notin freed' /\ Covered(r, t)'
  BY <1>1, <1>11, NothingTaken, Zenon
<1> QED  BY <1>1, <1>11, <1>18, <1>19, WriterMoves, Zenon

LEMMA WriterStepKeeps ==
  ASSUME HazptrInvariant, NEW t \in Writers, WriterStep(t)
  PROVE  HazptrInvariant'
BY InsertKeeps, EraseBeginKeeps, EraseEndKeeps, RetireKeeps, FlushKeeps, AutoReclaimKeeps,
   AutoEndKeeps, TryReclaimKeeps, ExchangeKeeps, CountActiveKeeps, ScanSlotsKeeps, FreeNextKeeps,
   FreeEndKeeps, PutBackKeeps, PendingReleaseKeeps, Zenon DEF WriterStep

LEMMA StutterKeeps ==
  ASSUME HazptrInvariant, UNCHANGED vars
  PROVE  HazptrInvariant'
<1>1. UNCHANGED <<head, nxt, version, mode, active, hp, ptr, next, cur, stamp, bad, fresh,
                  claimed, buf, pending, freed, pc, stack, reg>>
  BY DEF vars
<1>2. \A n : Unlinked(n)' <=> Unlinked(n)
  BY <1>1, Zenon DEF Unlinked
<1>3. WriterSide'
  <2>1. Chains' /\ NoLoops' /\ Erasers' /\ Stacks'
    BY <1>1, Zenon DEF HazptrInvariant, WriterSide, Chains, NoLoops, Erasers, Stacks
  <2>2. ChainLive'
    BY <1>1, <1>2, Zenon DEF HazptrInvariant, WriterSide, ChainLive
  <2>3. Lists'
    BY <1>1, ListsStay
  <2> QED  BY <2>1, <2>2, <2>3 DEF WriterSide
<1>4. ReaderSide'
  BY <1>1, ZenonT(60) DEF HazptrInvariant, ReaderSide, Readings, ReaderFits, StampFits, UseSafe, Covered
<1> QED  BY <1>3, <1>4 DEF HazptrInvariant, Setting

(* The inductive invariant holds in every reachable state.                 *)
THEOREM HazptrIsSound ==
  ASSUME Setting
  PROVE  Spec => []HazptrInvariant
<1>1. Init => HazptrInvariant
  BY InitFits
<1>2. HazptrInvariant /\ [Next]_vars => HazptrInvariant'
  BY ReaderStepKeeps, WriterStepKeeps, StutterKeeps, Zenon DEF Next
<1> QED  BY <1>1, <1>2, PTL DEF Spec

(* A reader that publishes, re-validates and only then uses a node never   *)
(* looks into a freed one, however the scan of try_reclaim(), automatic    *)
(* passes started inside it and other writers interleave.                  *)
THEOREM ValidatedReadersAreSafe ==
  ASSUME Setting
  PROVE  Spec => []NoUseAfterFree
<1>1. HazptrInvariant => NoUseAfterFree
  BY DEF HazptrInvariant, ReaderSide, ReaderFits, NoUseAfterFree
<1> QED  BY <1>1, HazptrIsSound, PTL
-----------------------------------------------------------------------------
(* Refinement.                                                             *)
reachable == {n \in Nodes : ~Unlinked(n)}
ref == [r \in Readers |-> IF pc[r] = "use" THEN {ptr[r]} ELSE {}]

LEMMA GotoTurns ==
  ASSUME HazptrInvariant, NEW t \in Readers \cup Writers, NEW l, Goto(t, l)
  PROVE  pc'[t] = l /\ \A u \in (Readers \cup Writers) \ {t} : pc'[u] = pc[u]
BY DEF HazptrInvariant, WriterSide, Stacks, Goto

(* A step of a reader: what it holds afterwards it held before, or it is   *)
(* linked.                                                                 *)
Held(r) == pc'[r] = "use" => (pc[r] = "use" /\ ptr'[r] = ptr[r]) \/ ptr'[r] \in reachable

LEMMA ReaderTurns ==
  ASSUME HazptrInvariant, NEW r \in Readers, ReaderStep(r)
  PROVE  /\ UNCHANGED <<fresh, claimed, freed, reg>>
         /\ \E l : Goto(r, l) /\ l # "retire"
         /\ pc[r] # "retire" /\ \A q \in Readers \ {r} : ptr'[q] = ptr[q]
         /\ Held(r)
<1>1. UNCHANGED <<fresh, claimed, freed, reg>>
  BY Zenon DEF ReaderStep, Begin, ReaderExit, Load, Protect, Reload, Restamp, Use, Done, Compare,
     ProtectNext, Verify, Reach, Restart, Confirm, Advance, chainVars, retireVars
<1>2. pc[r] # "retire"
  BY DEF ReaderStep, Begin, ReaderExit, Load, Protect, Reload, Restamp, Use, Done, Compare,
     ProtectNext, Verify, Reach, Restart, Confirm, Advance
<1>3. pc = [t \in Readers \cup Writers |-> pc[t]] /\ ptr = [q \in Readers |-> ptr[q]]
  BY DEF HazptrInvariant, WriterSide, Stacks, ReaderSide, Readings
<1>4. \A q \in Readers \ {r} : ptr'[q] = ptr[q]
  BY <1>3 DEF ReaderStep, Begin, ReaderExit, Load, Protect, Reload, Restamp, Use, Done, Compare,
     ProtectNext, Verify, Reach, Restart, Confirm, Advance, Release, readVars
<1>5. \E l : Goto(r, l) /\ l # "retire" /\ (l = "use" => Held(r))
  <2>1. CASE Begin(r) \/ Load(r) \/ Done(r) \/ Compare(r) \/ ProtectNext(r) \/ Verify(r)
             \/ Restart(r) \/ Confirm(r) \/ Advance(r)
    <3>1. CASE Begin(r)
      BY <3>1 DEF Begin
    <3>2. CASE Load(r)
      BY <3>2 DEF Load
    <3>3. CASE Done(r)
      BY <3>3 DEF Done, Release
    <3>4. CASE Compare(r)
      BY <3>4 DEF Compare
    <3>5. CASE ProtectNext(r)
      BY <3>5 DEF ProtectNext
    <3>6. CASE Verify(r)
      BY <3>6 DEF Verify
    <3>7. CASE Restart(r)
      BY <3>7 DEF Restart
    <3>8. CASE Confirm(r)
      BY <3>8 DEF Confirm
    <3>9. CASE Advance(r)
      BY <3>9 DEF Advance
    <3> QED  BY <2>1, <3>1, <3>2, <3>3, <3>4, <3>5, <3>6, <3>7, <3>8, <3>9, Zenon
  <2>2. CASE ReaderExit(r) \/ Reach(r)
    <3>1. Goto(r, pc[r]) /\ pc[r] # "use"
      BY <1>3, <2>2 DEF ReaderExit, Reach, Goto
    <3> QED  BY <1>2, <3>1
  <2>3. CASE Protect(r)
    <3>1. mode[r] \in {"reload", "slot", "walk", "pin"}
      BY Zenon DEF HazptrInvariant, ReaderSide, Readings, Setting
    <3>2. CASE mode[r] = "reload"
      BY <2>3, <3>2 DEF Protect
    <3>3. CASE mode[r] = "slot"
      BY <2>3, <3>3 DEF Protect
    <3>4. CASE mode[r] = "walk"
      BY <2>3, <3>4 DEF Protect
    <3>5. CASE mode[r] = "pin"
      BY <2>3, <3>5 DEF Protect
    <3> QED  BY <3>1, <3>2, <3>3, <3>4, <3>5
  <2>4. CASE Use(r)
    <3>1. pc[r] = "use" /\ ptr' = ptr
      BY <2>4, Zenon DEF Use
    <3>2. \E l : Goto(r, l) /\ l # "retire"
      <4>1. PICK last \in BOOLEAN : Goto(r, IF last THEN "done" ELSE "use")
        BY <2>4, Zenon DEF Use
      <4>2. Goto(r, "done") \/ Goto(r, "use")
        BY <4>1
      <4>3. "done" # "retire" /\ "use" # "retire"
        OBVIOUS
      <4> QED  BY <4>2, <4>3, Zenon
    <3> QED  BY <3>1, <3>2 DEF Held
  <2>5. CASE Reload(r)
    <3>1. /\ Goto(r, IF head # ptr[r] THEN "protect" ELSE IF head = None THEN "done" ELSE "use")
          /\ ptr' = [ptr EXCEPT ![r] = head]
      BY <2>5 DEF Reload
    <3>2. head # None => head \in reachable
      BY DEF HazptrInvariant, WriterSide, Chains, ChainLive, Links, reachable
    <3>3. CASE head # None
      BY <1>3, <3>1, <3>2, <3>3 DEF Held
    <3>4. CASE head = None
      BY <3>1, <3>4
    <3> QED  BY <3>3, <3>4, Zenon
  <2>6. CASE Restamp(r)
    <3>1. /\ Goto(r, IF version = stamp[r] /\ ptr[r] # None THEN "use" ELSE "done") /\ ptr' = ptr
          /\ pc[r] = "restamp"
      BY <2>6, Zenon DEF Restamp, readVars
    <3>2. CASE version = stamp[r] /\ ptr[r] # None
      <4>1. ptr[r] = head /\ head # None
        BY <3>1, <3>2, Zenon DEF HazptrInvariant, ReaderSide, ReaderFits, StampFits
      <4>2. head \in reachable
        BY <4>1 DEF HazptrInvariant, WriterSide, Chains, ChainLive, Links, reachable
      <4> QED  BY <3>1, <3>2, <4>1, <4>2, Zenon DEF Held
    <3>3. CASE ~(version = stamp[r] /\ ptr[r] # None)
      BY <3>1, <3>3
    <3> QED  BY <3>2, <3>3, Zenon
  <2> QED  BY <2>1, <2>2, <2>3, <2>4, <2>5, <2>6, ZenonT(60) DEF ReaderStep
<1>6. PICK l : Goto(r, l) /\ l # "retire" /\ (l = "use" => Held(r))
  BY <1>5, Zenon
<1>7. Held(r)
  <2>1. pc'[r] = l
    BY <1>6, GotoTurns
  <2> QED  BY <1>6, <2>1 DEF Held
<1> QED  BY <1>1, <1>2, <1>4, <1>6, <1>7, Zenon

LEMMA ReaderStepMaps ==
  ASSUME HazptrInvariant, NEW r \in Readers, ReaderStep(r)
  PROVE  Abstract!Reference(r)
<1>1. /\ UNCHANGED <<fresh, claimed, freed, reg>> /\ pc[r] # "retire"
      /\ (\A q \in Readers \ {r} : ptr'[q] = ptr[q]) /\ Held(r)
  BY ReaderTurns, Zenon
<1>2. PICK l : Goto(r, l) /\ l # "retire"
  BY ReaderTurns, Zenon
<1>3. pc'[r] # "retire" /\ \A u \in (Readers \cup Writers) \ {r} : pc'[u] = pc[u]
  BY <1>2, GotoTurns, Zenon
<1>4. \A u \in Writers : pc'[u] = "retire" <=> pc[u] = "retire"
  BY <1>1, <1>3, Zenon
<1>5. reachable' = reachable
  BY <1>1, <1>4, Zenon DEF reachable, Unlinked
<1> DEFINE S == IF pc'[r] = "use" THEN {ptr'[r]} ELSE {}
<1>6. S \in SUBSET (ref[r] \cup reachable)
  BY <1>1 DEF Held, ref
<1>7. ref' = [ref EXCEPT ![r] = S]
  BY <1>1, <1>3, Zenon DEF ref
<1> HIDE DEF S
<1> QED  BY <1>1, <1>5, <1>6, <1>7, Zenon DEF Abstract!Reference, reachable, ref

(* A step of a writer does not change what readers hold.                   *)
LEMMA WriterHolds ==
  ASSUME HazptrInvariant, NEW t \in Writers, NEW l, Goto(t, l), pc[t] # "use", l # "use", ptr' = ptr
  PROVE  ref' = ref
<1>1. pc'[t] = l /\ \A u \in (Readers \cup Writers) \ {t} : pc'[u] = pc[u]
  BY GotoTurns, Zenon
<1>2. \A r \in Readers : pc'[r] = "use" <=> pc[r] = "use"
  BY <1>1
<1> QED  BY <1>2, Zenon DEF ref

LEMMA InsertMaps ==
  ASSUME HazptrInvariant, NEW t \in Writers, Insert(t)
  PROVE  Abstract!Relink
<1>1. PICK n \in fresh : fresh' = fresh \ {n}
  BY DEF Insert
<1>2. pc[t] = "idle" /\ UNCHANGED <<pc, ptr, claimed, freed, reg>>
  BY DEF Insert, Idle, readVars, retireVars
<1>3. Chains /\ Erasers
  BY DEF HazptrInvariant, WriterSide
<1>4. n \in Nodes /\ n \notin claimed /\ freed \subseteq claimed /\ fresh \subseteq Nodes
  BY <1>1, <1>3 DEF Chains
<1>5. \A u \in Writers : pc[u] = "retire" => reg[u].obj # n
  BY <1>1, <1>3, Zenon DEF Erasers
<1>6. reachable' = (reachable \ {}) \cup {n}
  BY <1>1, <1>2, <1>4, <1>5 DEF reachable, Unlinked
<1>7. n \notin reachable /\ n \notin freed
  BY <1>1, <1>4, Zenon DEF reachable, Unlinked
<1>8. ref' = ref
  BY <1>2 DEF ref
<1> DEFINE in == {n}
<1>9. in \in SUBSET Nodes /\ in \cap (reachable \cup claimed \cup freed) = {}
  BY <1>4, <1>7
<1>10. reachable' = (reachable \ {}) \cup in
  BY <1>6
<1> HIDE DEF in
<1> QED  BY <1>2, <1>8, <1>9, <1>10, Zenon DEF Abstract!Relink, reachable, ref

LEMMA EraseEndMaps ==
  ASSUME HazptrInvariant, NEW t \in Writers, EraseEnd(t)
  PROVE  Abstract!Relink
<1> DEFINE n == reg[t].obj
           out == {n}
<1>1. pc[t] = "unlink" /\ Goto(t, "retire") /\ UNCHANGED <<ptr, claimed, freed, reg, fresh>>
  BY DEF EraseEnd, readVars, retireVars
<1>2. Erasers /\ None \notin Nodes
  BY Zenon DEF HazptrInvariant, WriterSide, Setting
<1>3. /\ n \in Nodes /\ n \notin claimed /\ n \notin fresh /\ n # None
      /\ \A u \in Writers \ {t} : reg[u].obj # n
  BY <1>1, <1>2, Zenon DEF Erasers
<1>4. pc'[t] = "retire" /\ \A u \in (Readers \cup Writers) \ {t} : pc'[u] = pc[u]
  BY <1>1, GotoTurns, Zenon
<1>5. n \in reachable
  BY <1>1, <1>3, Zenon DEF reachable, Unlinked
<1>6. \A m : Unlinked(m)' <=> Unlinked(m) \/ m = n
  BY <1>1, <1>4 DEF Unlinked
<1>7. reachable' = reachable \ out
  BY <1>6 DEF reachable
<1>8. ref' = ref
  BY <1>1, WriterHolds
<1>9. out \in SUBSET Nodes /\ out \subseteq reachable
  BY <1>3, <1>5
<1> HIDE DEF out
<1>10. /\ {} \in SUBSET Nodes /\ {} \cap (reachable \cup claimed \cup freed) = {}
       /\ reachable' = (reachable \ out) \cup {}
  BY <1>7
<1> QED  BY <1>1, <1>8, <1>9, <1>10, Zenon DEF Abstract!Relink, reachable, ref

LEMMA RetireMaps ==
  ASSUME HazptrInvariant, NEW t \in Writers, Retire(t)
  PROVE  Abstract!Retire(reg[t].obj) /\ reg[t].obj \in Nodes
<1> DEFINE n == reg[t].obj
<1>1. /\ pc[t] = "retire" /\ claimed' = claimed \cup {n} /\ UNCHANGED <<ptr, freed, fresh>>
      /\ reg' = [reg EXCEPT ![t].obj = None]
  BY DEF Retire, readVars, chainVars
<1>2. PICK l \in {"idle", "flush"} : Goto(t, l)
  BY DEF Retire, Call
<1>3. Erasers /\ Lists
  BY DEF HazptrInvariant, WriterSide
<1>4. n \in Nodes /\ n \notin claimed /\ Unlinked(n)
  BY <1>1, <1>3, Zenon DEF Erasers, Unlinked
<1>5. pc'[t] = l /\ \A u \in (Readers \cup Writers) \ {t} : pc'[u] = pc[u]
  BY <1>2, GotoTurns
<1>6. \A u \in Writers \ {t} : reg'[u] = reg[u]
  BY <1>1, <1>3 DEF Lists
<1>7. \A m : Unlinked(m)' <=> Unlinked(m)
  BY <1>1, <1>2, <1>5, <1>6 DEF Unlinked
<1>8. reachable' = reachable
  BY <1>7 DEF reachable
<1>9. ref' = ref
  BY <1>1, <1>2, WriterHolds, Zenon
<1>10. n \notin reachable \cup claimed
  BY <1>4 DEF reachable
<1> QED  BY <1>1, <1>4, <1>8, <1>9, <1>10, Zenon DEF Abstract!Retire, reachable, ref

(* Every other step of a writer: at most it frees.                         *)
LEMMA OtherTurns ==
  ASSUME HazptrInvariant, NEW t \in Writers,
         \/ EraseBegin(t) \/ Flush(t) \/ AutoReclaim(t) \/ AutoEnd(t) \/ TryReclaim(t) \/ Exchange(t)
         \/ CountActive(t) \/ ScanSlots(t) \/ FreeNext(t) \/ FreeEnd(t) \/ PutBack(t)
         \/ PendingRelease(t)
  PROVE  /\ pc[t] \notin {"use", "retire"} /\ \E l : Goto(t, l) /\ l \notin {"use", "retire"}
         /\ UNCHANGED <<ptr, claimed, fresh>> /\ freed \subseteq freed'
         /\ \A u \in Writers \ {t} : reg'[u] = reg[u]
<1>1. pc[t] \notin {"use", "retire"} /\ freed \subseteq freed'
  BY Zenon DEF EraseBegin, Idle, Flush, AutoReclaim, AutoEnd, TryReclaim, Exchange, CountActive, ScanSlots,
     FreeNext, FreeEnd, PutBack, PendingRelease
<1>2. UNCHANGED <<ptr, claimed, fresh>>
  BY Zenon DEF EraseBegin, Flush, AutoReclaim, AutoEnd, TryReclaim, Exchange, CountActive, ScanSlots,
     FreeNext, FreeEnd, PutBack, PendingRelease, readVars, chainVars
<1>3. \A u \in Writers \ {t} : reg'[u] = reg[u]
  <2>1. reg = [u \in Writers |-> reg[u]]
    BY DEF HazptrInvariant, WriterSide, Lists
  <2>2. CASE EraseBegin(t) \/ Exchange(t) \/ CountActive(t) \/ ScanSlots(t)
    BY <2>1, <2>2, Zenon DEF EraseBegin, Exchange, CountActive, ScanSlots
  <2>3. CASE FreeNext(t) \/ FreeEnd(t) \/ PutBack(t) \/ PendingRelease(t)
    BY <2>1, <2>3, Zenon DEF FreeNext, FreeEnd, PutBack, PendingRelease
  <2>4. CASE Flush(t) \/ AutoReclaim(t) \/ AutoEnd(t) \/ TryReclaim(t)
    BY <2>4, Zenon DEF Flush, AutoReclaim, AutoEnd, TryReclaim
  <2> QED  BY <2>2, <2>3, <2>4, Zenon
<1>4. ASSUME pc[t] \in Deep, Return(t) PROVE \E l : Goto(t, l) /\ l \notin {"use", "retire"}
  <2> DEFINE l == Head(stack[t])
  <2>1. l \in Returns
    BY <1>4, PopLabel, Zenon DEF HazptrInvariant, WriterSide, Stacks
  <2>2. Goto(t, l)
    BY <1>4, Zenon DEF Return
  <2> HIDE DEF l
  <2> QED  BY <2>1, <2>2 DEF Returns
<1>5. \E l : Goto(t, l) /\ l \notin {"use", "retire"}
  <2>1. CASE EraseBegin(t) \/ CountActive(t) \/ FreeEnd(t) \/ PutBack(t)
    <3>1. \/ Goto(t, "unlink") \/ Goto(t, "scan") \/ Goto(t, "putback") \/ Goto(t, "release")
          \/ Goto(t, "auto")
      BY <2>1, Zenon DEF EraseBegin, CountActive, FreeEnd, PutBack, Call
    <3> QED  BY <3>1
  <2>2. CASE TryReclaim(t)
    <3>1. Goto(t, "flush")
      BY <2>2, Zenon DEF TryReclaim, Goto
    <3> QED  BY <3>1
  <2>3. CASE ScanSlots(t) \/ FreeNext(t)
    <3>1. Goto(t, "scan")
      BY <2>3, Zenon DEF ScanSlots, FreeNext, Goto, HazptrInvariant, WriterSide, Stacks
    <3> QED  BY <3>1
  <2>4. CASE Flush(t) \/ AutoReclaim(t) \/ Exchange(t)
    <3>1. pc[t] \in Deep
      BY <2>4, Zenon DEF Flush, AutoReclaim, Exchange, Deep
    <3>2. Return(t) \/ Goto(t, "auto") \/ Goto(t, "exchange") \/ Goto(t, "count")
      BY <2>4 DEF Flush, AutoReclaim, Exchange, Call
    <3> QED  BY <1>4, <3>1, <3>2
  <2>5. CASE AutoEnd(t) \/ PendingRelease(t)
    BY <1>4, <2>5 DEF AutoEnd, PendingRelease, Deep
  <2> QED  BY <2>1, <2>2, <2>3, <2>4, <2>5, Zenon
<1> QED  BY <1>1, <1>2, <1>3, <1>5, Zenon

LEMMA OtherMaps ==
  ASSUME HazptrInvariant, HazptrInvariant', NEW t \in Writers,
         \/ EraseBegin(t) \/ Flush(t) \/ AutoReclaim(t) \/ AutoEnd(t) \/ TryReclaim(t) \/ Exchange(t)
         \/ CountActive(t) \/ ScanSlots(t) \/ FreeNext(t) \/ FreeEnd(t) \/ PutBack(t)
         \/ PendingRelease(t)
  PROVE  Abstract!Free
<1>1. /\ pc[t] \notin {"use", "retire"} /\ UNCHANGED <<ptr, claimed, fresh>> /\ freed \subseteq freed'
      /\ \A u \in Writers \ {t} : reg'[u] = reg[u]
  BY OtherTurns, Zenon
<1>2. PICK l : Goto(t, l) /\ l \notin {"use", "retire"}
  BY OtherTurns, Zenon
<1>3. pc'[t] = l /\ \A u \in (Readers \cup Writers) \ {t} : pc'[u] = pc[u]
  BY <1>2, GotoTurns, Zenon
<1>4. ref' = ref
  BY <1>1, <1>2, WriterHolds, Zenon
<1>5. \A m : Unlinked(m)' <=> Unlinked(m)
  BY <1>1, <1>2, <1>3, Zenon DEF Unlinked
<1>6. reachable' = reachable
  BY <1>5 DEF reachable
<1> DEFINE S == freed' \ freed
<1>7. S \in SUBSET (claimed \ freed) /\ freed' = freed \cup S
  BY <1>1, Zenon DEF HazptrInvariant, WriterSide, Chains
<1>8. \A r \in Readers : ref[r] \cap S = {}
  <2>1. \A r \in Readers : pc'[r] = "use" => ptr'[r] \notin freed'
    BY Zenon DEF HazptrInvariant, ReaderSide, UseSafe
  <2>2. \A r \in Readers : ref'[r] \cap S = {}
    BY <2>1, Zenon DEF ref
  <2> QED  BY <1>4, <2>2, Zenon
<1> HIDE DEF S
<1> QED  BY <1>1, <1>4, <1>6, <1>7, <1>8, Zenon DEF Abstract!Free, reachable, ref

LEMMA StepMaps ==
  ASSUME HazptrInvariant, HazptrInvariant', [Next]_vars
  PROVE  [Abstract!Next]_(Abstract!vars)
<1>1. CASE UNCHANGED vars
  <2>1. UNCHANGED <<fresh, claimed, freed, reg, pc, ptr>>
    BY <1>1 DEF vars
  <2>2. reachable' = reachable /\ ref' = ref
    BY <2>1, Zenon DEF reachable, ref, Unlinked
  <2> QED  BY <2>1, <2>2, Zenon DEF Abstract!vars, reachable, ref
<1>2. ASSUME NEW r \in Readers, ReaderStep(r) PROVE Abstract!Next
  BY <1>2, ReaderStepMaps, Zenon DEF Abstract!Next
<1>3. ASSUME NEW t \in Writers, WriterStep(t) PROVE Abstract!Next
  BY <1>3, InsertMaps, EraseEndMaps, RetireMaps, OtherMaps, Zenon DEF WriterStep, Abstract!Next
<1> QED  BY <1>1, <1>2, <1>3, Zenon DEF Next

(* hazptr_domain implements SafeReclamation: a node is retired once, after *)
(* it has been unlinked, and what is freed was retired and is used by no   *)
(* reader that has re-validated it.                                        *)
THEOREM HazptrReclaimsSafely ==
  ASSUME Setting
  PROVE  Spec => ImplementsSafeReclamation
<1>1. Init => Abstract!Init
  BY DEF Init, Abstract!Init
<1>2. HazptrInvariant /\ HazptrInvariant' /\ [Next]_vars => [Abstract!Next]_(Abstract!vars)
  BY StepMaps
<1> QED  BY <1>1, <1>2, HazptrIsSound, PTL DEF Spec, ImplementsSafeReclamation, Abstract!Spec
=============================================================================
