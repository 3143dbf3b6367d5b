--------------------------- MODULE SafeReclamation ---------------------------
(***************************************************************************)
(* What deferred reclamation promises the rest of the cache: an object is  *)
(* published, read through references, unlinked, retired once and freed    *)
(* once, and it is freed only while no reader still holds a reference that *)
(* it obtained while the object was published.  Both epoch_domain          *)
(* (EpochDomain) and hazptr_domain (HazptrDomain) are shown to implement   *)
(* this specification.                                                     *)
(*                                                                         *)
(* unsafe is TRUE once the operator's opt-in force-advance policy has      *)
(* skipped a live reader; only then may a referenced object be freed.      *)
(***************************************************************************)
EXTENDS Naturals

CONSTANTS Readers, Objects

VARIABLES reachable, ref, retired, freed, unsafe

vars == <<reachable, ref, retired, freed, unsafe>>

Init ==
    /\ reachable \in SUBSET Objects
    /\ ref = [r \in Readers |-> {}]
    /\ retired = {}
    /\ freed = {}
    /\ unsafe = FALSE

(* The structure is changed: objects leave it for good, new ones enter it. *)
Relink ==
    /\ \E out, in \in SUBSET Objects :
          /\ out \subseteq reachable
          /\ in \cap (reachable \cup retired \cup freed) = {}
          /\ reachable' = (reachable \ out) \cup in
    /\ UNCHANGED <<ref, retired, freed, unsafe>>

(* A reader takes a reference to an object it finds in the structure, or   *)
(* gives references up.                                                    *)
Reference(r) ==
    /\ \E S \in SUBSET (ref[r] \cup reachable) : ref' = [ref EXCEPT ![r] = S]
    /\ UNCHANGED <<reachable, retired, freed, unsafe>>

Retire(o) ==
    /\ o \notin reachable \cup retired
    /\ retired' = retired \cup {o}
    /\ UNCHANGED <<reachable, ref, freed, unsafe>>

Free ==
    /\ \E S \in SUBSET (retired \ freed) :
          /\ freed' = freed \cup S
          /\ unsafe \/ \A r \in Readers : ref[r] \cap S = {}
    /\ UNCHANGED <<reachable, ref, retired, unsafe>>

(* The operator's force-advance policy skips a stalled reader.             *)
ForceAdvance ==
    /\ unsafe' = TRUE
    /\ UNCHANGED <<reachable, ref, retired, freed>>

Next ==
    \/ Relink \/ Free \/ ForceAdvance
    \/ \E r \in Readers : Reference(r)
    \/ \E o \in Objects : Retire(o)

Spec == Init /\ [][Next]_vars
=============================================================================
