---------------------------- MODULE MCHashTable ----------------------------
EXTENDS HashTable

\* n2 and n3 carry the same key; both keys share bucket 1 of two and part in four.
MCKeyOf == [n \in Nodes |-> IF n = "n1" THEN "k1" ELSE "k2"]
MCHashOf == [k \in Keys |-> IF k = "k1" THEN 1 ELSE 3]

Scenario(f, inc, nodes, ops, lookups) ==
    [f14 |-> f, incremental |-> inc, nodes |-> nodes, ops |-> ops, lookups |-> lookups]
Two == {"n1", "n3"}
Same == {"n2", "n3"}

\* Each probing mode and rehash strategy with each kind of write and lookup.
MCScenarios ==
    {Scenario(FALSE, TRUE, Two, {"insert", "erase"}, {"optimistic"}),
     Scenario(FALSE, TRUE, Same, {"insert", "assign", "erase"}, {}),
     Scenario(FALSE, TRUE, {"n3"}, {"insert", "erase"}, {"lockfree"}),
     Scenario(TRUE, TRUE, Same, {"assign", "erase"}, {"optimistic"}),
     Scenario(TRUE, TRUE, Two, {"insert", "erase"}, {"locked"})}
    \cup
    {Scenario(f, FALSE, Two, {"insert", "assign", "erase"}, {"locked", "optimistic", "lockfree"}) :
        f \in BOOLEAN}

\* Types hold, and every node is where look-ups search it and nowhere else,
\* through inserts, erases, migrations and array swaps (HashTable).
EveryNodePlaced == TypeOK /\ Placed
=============================================================================
