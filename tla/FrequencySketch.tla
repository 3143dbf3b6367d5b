-------------------------- MODULE FrequencySketch ---------------------------
(***************************************************************************)
(* count_min_sketch (detail/count_min_sketch.hpp): rows of saturating      *)
(* counters, incremented without a lock and halved when a window of        *)
(* accesses has passed.  The thread whose access fills the window claims   *)
(* the halving with a compare-and-swap and does it with the others still   *)
(* counting, cell by cell, a load and a store.  Operations under the       *)
(* exclusive lock are single steps; which cells a key has is given.  The   *)
(* number of saturated cells, decay_step_ and the version that guards the  *)
(* lock-free estimate() against a new table shape decide nothing here.     *)
(***************************************************************************)
EXTENDS Naturals, FiniteSets, FiniteSetsExt

CONSTANTS
  Threads, Keys, depth, Cells,
  index_for,       \* per key and row, its cell
  CellMax,         \* 2^32 - 1
  max_window, kMinWindowSize,
  MaxRecords       \* bound: calls

VARIABLES
  table,     \* per row and cell
  total,     \* total_accesses_
  window,    \* window_size_
  op,        \* per thread, the call in progress
  calls,
  sure       \* per key, accesses that no halving has overlapped

vars == <<table, total, window, op, calls, sure>>

Rows == 1..depth
Idle == [at |-> "idle", key |-> CHOOSE k \in Keys : TRUE, row |-> 1, cell |-> 0, mine |-> 0, safe |-> TRUE]
At(t, where) == op[t].at = where
Halving == {t \in Threads : op[t].at \in {"claimed", "load", "store", "shrink", "resize"}}
Halved(f) == [x \in DOMAIN f |-> f[x] \div 2]
AllHalved == [r \in Rows |-> Halved(table[r])]

record(t, k) ==
  /\ At(t, "idle") /\ calls < MaxRecords /\ calls' = calls + 1
  /\ op' = [op EXCEPT ![t] = [Idle EXCEPT !.at = "count", !.key = k, !.safe = Halving = {}]]
  /\ UNCHANGED <<table, total, window, sure>>

Count(t) ==
  LET r == op[t].row
      c == index_for[op[t].key][r]
  IN
  /\ At(t, "count")
  /\ table' = [table EXCEPT ![r][c] = IF @ < CellMax THEN @ + 1 ELSE @]
  /\ op' = [op EXCEPT ![t] = IF r < depth THEN [@ EXCEPT !.row = r + 1] ELSE [@ EXCEPT !.at = "add"]]
  /\ UNCHANGED <<total, window, calls, sure>>

(* The access is counted towards the window; one that fills it claims.     *)
Add(t) ==
  LET k == op[t].key IN
  /\ At(t, "add")
  /\ total' = total + 1
  /\ sure' = IF op[t].safe /\ Halving = {} /\ sure[k] < CellMax
             THEN [sure EXCEPT ![k] = @ + 1] ELSE sure
  /\ op' = [op EXCEPT ![t].at = "full", ![t].mine = total + 1]
  /\ UNCHANGED <<table, window, calls>>
Full(t) ==
  /\ At(t, "full")
  /\ op' = [op EXCEPT ![t] = IF @.mine < window THEN Idle ELSE [@ EXCEPT !.at = "claim"]]
  /\ UNCHANGED <<table, total, window, calls, sure>>

Claim(t) ==
  /\ At(t, "claim")
  /\ IF total = op[t].mine
     THEN /\ total' = 0 /\ sure' = Halved(sure)
          /\ op' = [u \in Threads |-> IF u = t THEN [Idle EXCEPT !.at = "claimed"]
                                      ELSE [op[u] EXCEPT !.safe = FALSE]]
     ELSE op' = [op EXCEPT ![t] = Idle] /\ UNCHANGED <<total, sure>>
  /\ UNCHANGED <<table, window, calls>>

(* The lock is given up and taken again before the halving.                *)
Resume(t) ==
  /\ At(t, "claimed")
  /\ op' = [op EXCEPT ![t].at = "load", ![t].cell = 1]
  /\ UNCHANGED <<table, total, window, calls, sure>>

(* step_decay_shared(): increments between the load and the store are lost. *)
HalveLoad(t) ==
  /\ At(t, "load")
  /\ op' = [op EXCEPT ![t].at = "store", ![t].mine = table[op[t].row][op[t].cell]]
  /\ UNCHANGED <<table, total, window, calls, sure>>

NextCell(t) ==
  LET o == op[t] IN
  IF o.cell < Cells THEN [o EXCEPT !.at = "load", !.cell = @ + 1, !.mine = 0]
  ELSE IF o.row < depth THEN [o EXCEPT !.at = "load", !.row = @ + 1, !.cell = 1, !.mine = 0]
  ELSE [Idle EXCEPT !.at = "shrink"]
step_decay_shared(t) ==
  /\ At(t, "store")
  /\ table' = [table EXCEPT ![op[t].row][op[t].cell] = op[t].mine \div 2]
  /\ op' = [op EXCEPT ![t] = NextCell(t)]
  /\ UNCHANGED <<total, window, calls, sure>>

Smaller(w) == IF w > kMinWindowSize THEN Max({w \div 2, kMinWindowSize}) ELSE w
Shrink(t) ==
  /\ At(t, "shrink")
  /\ op' = [op EXCEPT ![t].at = "resize", ![t].mine = IF window > kMinWindowSize THEN Smaller(window) ELSE 0]
  /\ UNCHANGED <<table, total, window, calls, sure>>
Resize(t) ==
  /\ At(t, "resize")
  /\ window' = IF op[t].mine > 0 THEN op[t].mine ELSE window
  /\ op' = [op EXCEPT ![t] = Idle]
  /\ UNCHANGED <<table, total, calls, sure>>

-----------------------------------------------------------------------------
(* Under the exclusive lock: no access is being counted or halved.         *)
Alone == calls < MaxRecords /\ \A u \in Threads : op[u].at \in {"idle", "claimed"}

decay ==
  /\ Alone /\ calls' = calls + 1
  /\ table' = AllHalved /\ sure' = Halved(sure)
  /\ total' = 0 /\ window' = max_window
  /\ UNCHANGED op
step_decay ==
  /\ Alone /\ calls' = calls + 1
  /\ table' = AllHalved /\ sure' = Halved(sure)
  /\ total' = 0 /\ window' = Smaller(window)
  /\ UNCHANGED op
reset ==
  /\ Alone /\ calls' = calls + 1
  /\ table' = [r \in Rows |-> [c \in 1..Cells |-> 0]]
  /\ sure' = [k \in Keys |-> 0] /\ total' = 0
  /\ UNCHANGED <<window, op>>

Init ==
  /\ table = [r \in Rows |-> [c \in 1..Cells |-> 0]]
  /\ total = 0 /\ window = max_window
  /\ op = [t \in Threads |-> Idle] /\ calls = 0 /\ sure = [k \in Keys |-> 0]
Done == calls = MaxRecords /\ (\A t \in Threads : At(t, "idle")) /\ UNCHANGED vars
Next ==
  \/ \E t \in Threads :
       \/ (\E k \in Keys : record(t, k)) \/ Count(t) \/ Add(t) \/ Full(t) \/ Claim(t)
       \/ Resume(t) \/ HalveLoad(t) \/ step_decay_shared(t) \/ Shrink(t) \/ Resize(t)
  \/ decay \/ step_decay \/ reset \/ Done
Spec == Init /\ [][Next]_vars

estimate(k) == Min({table[r][index_for[k][r]] : r \in Rows})

-----------------------------------------------------------------------------
TypeOK ==
  /\ \A r \in Rows, c \in 1..Cells : table[r][c] \in 0..CellMax
  /\ window \in kMinWindowSize..max_window /\ calls \in 0..MaxRecords

(* The estimate never falls short of the accesses that are certain: those  *)
(* no halving has overlapped, halved as often as the table was.            *)
EstimateCovers == \A k \in Keys : sure[k] <= estimate(k)

(* The window never fills up unnoticed: of the accesses that race for a    *)
(* full window one claims the halving, though each fails if another        *)
(* access comes between its count and its claim.                           *)
WindowClaimed == (\A t \in Threads : At(t, "idle")) => total < max_window
=============================================================================
