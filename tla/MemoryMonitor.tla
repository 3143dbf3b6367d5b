--------------------------- MODULE MemoryMonitor ----------------------------
(***************************************************************************)
(* memory_monitor, memory_guard and rate_limiter (memory.hpp).  A guard    *)
(* asks for admission, reserves its bytes with a compare-and-swap that it  *)
(* validates afterwards, and then commits them to the gauge or gives them  *)
(* back.  The cache reports its memory as an absolute gauge; the samples   *)
(* go round a ring of which the limiter compares the ends.                 *)
(*                                                                         *)
(* Sizes are small integers; the fractions of the budget are percentages.  *)
(* The pressure callback and the state of the operating system are free.   *)
(* The pressure counters are statistics and left out.                      *)
(***************************************************************************)
EXTENDS Integers, FiniteSets, Sequences, FiniteSetsExt

CONSTANTS
  Guards,           \* threads that use memory_guard
  Delta,            \* the bytes of an insertion
  Budgets,          \* values of max_memory_bytes, 0 for none
  Throttle, Critical,   \* throttle_fraction and critical_fraction, in percent
  Window,           \* capacity of the ring of samples, a power of two
  Samples,          \* gauge values the cache reports
  MaxRate,          \* max_growth_rate_bytes
  kReserveAttempts,
  MaxCalls          \* bound: guards constructed and gauges reported

VARIABLES
  max,       \* max_memory_bytes
  current,   \* current_memory_
  reserved,  \* reserved_bytes_
  flags,     \* is_throttled_, bg_eviction_requested_, growth_rate_exceeded_
  guard,     \* per thread, its guard
  ring,      \* the growth limiter: head_, count_, buffer_, and the report under way
  calls,     \* guards constructed and gauges reported
  history    \* the gauges reported since the limiter was reset

vars == <<max, current, reserved, flags, guard, ring, calls, history>>

None == [at |-> "none", c |-> 0, r |-> 0, tries |-> 0, mem |-> 0]
At(t, where) == guard[t].at = where
Go(t, where) == guard' = [guard EXCEPT ![t].at = where]

-----------------------------------------------------------------------------
(* should_admit(): the callback, the system, then the share of the budget  *)
(* the insertion would bring the cache to.                                 *)
memory_guard(t) ==
  /\ At(t, "none") /\ calls < MaxCalls
  /\ calls' = calls + 1
  /\ guard' = [guard EXCEPT ![t] = [None EXCEPT !.at = "sense", !.mem = current]]
  /\ UNCHANGED <<max, current, reserved, flags, ring, history>>

Raise(level) == flags' = [flags EXCEPT !.throttled = level, !.evict = level]

pressure_callback(t) ==
  /\ At(t, "sense")
  /\ Raise(TRUE) /\ Go(t, "refused")
  /\ UNCHANGED <<max, current, reserved, ring, calls, history>>

(* Critical pressure of the system: one insertion in a thousand goes on.   *)
OsCritical(t) ==
  /\ At(t, "sense")
  /\ Raise(TRUE)
  /\ Go(t, "refused") \/ Go(t, "budget")
  /\ UNCHANGED <<max, current, reserved, ring, calls, history>>

(* A warning raises the flags and the internal model decides.              *)
OsWarning(t) ==
  /\ At(t, "sense") /\ ~(flags.throttled /\ flags.evict)
  /\ Raise(TRUE)
  /\ UNCHANGED <<max, current, reserved, guard, ring, calls, history>>

(* Without a budget a raised flag stays.  At or above the critical share   *)
(* the chance of an insertion is zero unless the share is below one.       *)
should_admit(t) ==
  LET projected == guard[t].mem + reserved + Delta
      critical == 100 * projected >= Critical * max
      throttled == 100 * projected >= Throttle * max \/ (MaxRate > 0 /\ flags.exceeded)
  IN
  /\ At(t, "sense")
  /\ IF max = 0
     THEN /\ IF flags.throttled THEN UNCHANGED flags ELSE flags' = [flags EXCEPT !.evict = FALSE]
          /\ Go(t, "reserve")
     ELSE /\ Raise(critical \/ throttled)
          /\ \/ ~critical /\ Go(t, "budget")
             \/ critical /\ projected < max /\ Go(t, "budget")
             \/ critical /\ Go(t, "refused")
  /\ UNCHANGED <<max, current, reserved, ring, calls, history>>

memory_budget_allows(t) ==
  /\ At(t, "budget")
  /\ Go(t, IF max = 0 \/ current + reserved + Delta <= max THEN "reserve" ELSE "refused")
  /\ UNCHANGED <<max, current, reserved, flags, ring, calls, history>>

-----------------------------------------------------------------------------
(* try_reserve(): both gauges are read, the swap is made if the bytes fit, *)
(* and both gauges are read again.                                         *)
ReserveRead(t) ==
  /\ At(t, "reserve")
  /\ IF max = 0
     THEN reserved' = reserved + Delta /\ Go(t, "held")
     ELSE guard' = [guard EXCEPT ![t].at = "committed", ![t].c = current] /\ UNCHANGED reserved
  /\ UNCHANGED <<max, current, flags, ring, calls, history>>

ReserveCheck(t) ==
  LET fits == guard[t].c < max /\ guard[t].c + reserved + Delta <= max IN
  /\ At(t, "committed")
  /\ guard' = [guard EXCEPT ![t].at = IF fits THEN "swap" ELSE "refused", ![t].r = reserved]
  /\ UNCHANGED <<max, current, reserved, flags, ring, calls, history>>

Retry(t) ==
  IF guard[t].tries + 1 < kReserveAttempts
  THEN guard' = [guard EXCEPT ![t].at = "reserve", ![t].tries = @ + 1]
  ELSE Go(t, "refused")

try_reserve(t) ==
  /\ At(t, "swap")
  /\ IF reserved = guard[t].r
     THEN reserved' = reserved + Delta /\ Go(t, "validate")
     ELSE Retry(t) /\ UNCHANGED reserved
  /\ UNCHANGED <<max, current, flags, ring, calls, history>>

Validate(t) ==
  /\ At(t, "validate")
  /\ guard' = [guard EXCEPT ![t].at = "confirm", ![t].c = current]
  /\ UNCHANGED <<max, current, reserved, flags, ring, calls, history>>

(* Mutant: bytes that do not pass the validation are kept.                 *)
ConfirmKeeps(t) ==
  /\ At(t, "confirm")
  /\ IF guard[t].c + reserved <= max THEN Go(t, "held") ELSE Retry(t)
  /\ UNCHANGED <<max, current, reserved, flags, ring, calls, history>>

Confirm(t) ==
  /\ At(t, "confirm")
  /\ IF guard[t].c + reserved <= max
     THEN Go(t, "held") /\ UNCHANGED reserved
     ELSE Retry(t) /\ reserved' = reserved - Delta
  /\ UNCHANGED <<max, current, flags, ring, calls, history>>

-----------------------------------------------------------------------------
(* commit(): the gauge grows first, then the reservation goes.             *)
report_insert(t) ==
  /\ At(t, "held")
  /\ current' = current + Delta
  /\ Go(t, "commit")
  /\ UNCHANGED <<max, reserved, flags, ring, calls, history>>

commit(t) ==
  /\ At(t, "commit")
  /\ reserved' = reserved - Delta
  /\ Go(t, "committed_bytes")
  /\ UNCHANGED <<max, current, flags, ring, calls, history>>

(* The destructor returns what was admitted and not committed.             *)
release_reservation(t) ==
  /\ At(t, "held")
  /\ reserved' = reserved - Delta
  /\ guard' = [guard EXCEPT ![t] = None]
  /\ UNCHANGED <<max, current, flags, ring, calls, history>>

Destroy(t) ==
  /\ At(t, "refused")
  /\ guard' = [guard EXCEPT ![t] = None]
  /\ UNCHANGED <<max, current, reserved, flags, ring, calls, history>>

(* The committed bytes leave the cache again.                              *)
report_evict(t) ==
  /\ At(t, "committed_bytes")
  /\ current' = current - Delta
  /\ guard' = [guard EXCEPT ![t] = None]
  /\ UNCHANGED <<max, reserved, flags, ring, calls, history>>

-----------------------------------------------------------------------------
(* report_memory(): the gauge, a sample for the ring, and the verdict.     *)
report_memory(value) ==
  /\ ring.at = "rest" /\ calls < MaxCalls
  /\ calls' = calls + 1
  /\ current' = value
  /\ ring' = [ring EXCEPT !.at = "add", !.sample = value]
  /\ UNCHANGED <<max, reserved, flags, guard, history>>

add_value ==
  /\ ring.at = "add"
  /\ ring' = [ring EXCEPT !.at = "refresh", !.head = @ + 1,
                          !.buffer[ring.head % Window] = ring.sample,
                          !.count = IF @ < Window THEN @ + 1 ELSE @, !.sample = 0]
  /\ history' = Append(history, ring.sample)
  /\ UNCHANGED <<max, current, reserved, flags, guard, calls>>

(* normalized_rate() > budget, without the division.                       *)
exceeded ==
  /\ ring.count >= 2
  /\ ring.buffer[(ring.head - 1) % Window] - ring.buffer[(ring.head - ring.count) % Window]
       > MaxRate * (ring.count - 1)

refresh_growth_rate_flag ==
  /\ ring.at = "refresh"
  /\ flags' = [flags EXCEPT !.exceeded = MaxRate > 0 /\ exceeded]
  /\ ring' = [ring EXCEPT !.at = "rest"]
  /\ UNCHANGED <<max, current, reserved, guard, calls, history>>

(* reset(), and configure() with another budget: no guard may be held.     *)
EmptyRing ==
  [head |-> 0, count |-> 0, buffer |-> [i \in 0..(Window - 1) |-> 0], at |-> "rest", sample |-> 0]
NoFlags == [throttled |-> FALSE, evict |-> FALSE, exceeded |-> FALSE]
reset ==
  /\ ring.at = "rest" /\ calls < MaxCalls
  /\ \A t \in Guards : At(t, "none")
  /\ calls' = calls + 1
  /\ current' = 0 /\ reserved' = 0 /\ flags' = NoFlags
  /\ ring' = [ring EXCEPT !.head = 0, !.count = 0] /\ history' = <<>>
  /\ UNCHANGED <<max, guard>>
configure ==
  /\ ring.at = "rest" /\ calls < MaxCalls
  /\ \A t \in Guards : At(t, "none")
  /\ calls' = calls + 1
  /\ max' \in Budgets \ {max}
  /\ current' = 0 /\ reserved' = 0 /\ flags' = NoFlags
  /\ ring' = EmptyRing /\ history' = <<>>
  /\ UNCHANGED guard

-----------------------------------------------------------------------------
Init ==
  /\ max \in Budgets
  /\ current = 0 /\ reserved = 0 /\ flags = NoFlags
  /\ guard = [t \in Guards |-> None]
  /\ ring = EmptyRing /\ calls = 0 /\ history = <<>>

Step(t) ==
  \/ memory_guard(t) \/ pressure_callback(t) \/ OsCritical(t) \/ OsWarning(t) \/ should_admit(t)
  \/ memory_budget_allows(t) \/ ReserveRead(t) \/ ReserveCheck(t) \/ try_reserve(t)
  \/ Validate(t) \/ Confirm(t) \/ report_insert(t) \/ commit(t) \/ release_reservation(t)
  \/ Destroy(t) \/ report_evict(t)
Cache ==
  \/ \E value \in Samples : report_memory(value)
  \/ add_value \/ refresh_growth_rate_flag \/ reset \/ configure
Done ==
  /\ calls = MaxCalls /\ ring.at = "rest" /\ \A t \in Guards : At(t, "none")
  /\ UNCHANGED vars
Next == (\E t \in Guards : Step(t)) \/ Cache \/ Done
Spec == Init /\ [][Next]_vars

-----------------------------------------------------------------------------
TypeOK ==
  /\ max \in Budgets /\ current \in Int /\ reserved \in Int
  /\ ring.count <= ring.head

Holding(where) == Cardinality({t \in Guards : guard[t].at \in where})

(* The gauge is the sum of what guards reported, until the cache reports   *)
(* an absolute figure.                                                     *)
Summed == history = <<>> /\ ring.at = "rest"

(* Every reserved byte belongs to a guard that will commit or return it,   *)
(* through retries, refusals and validations that fail, and the gauge is   *)
(* what the guards have committed.                                         *)
ReservationsExact ==
  /\ reserved = Delta * Holding({"validate", "confirm", "held", "commit"})
  /\ Summed => current = Delta * Holding({"commit", "committed_bytes"})

(* The limiter judges the newest against the oldest of the last samples,   *)
(* however often the ring has gone round.                                  *)
RateOfWindow ==
  LET n == Len(history)
      w == IF n < Window THEN n ELSE Window
  IN  ring.at # "add" =>
        (exceeded <=> n >= 2 /\ history[n] - history[n - w + 1] > MaxRate * (w - 1))

(* "the guard is what makes max_memory_bytes a *hard* limit": the bytes    *)
(* that guards have committed never exceed the budget.                     *)
HardCap == max > 0 /\ Summed => current <= max
=============================================================================
