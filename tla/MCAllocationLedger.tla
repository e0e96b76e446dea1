------------------------ MODULE MCAllocationLedger ------------------------
(* A pool of 3 units of bytes and 2 of inodes shared by three allocations:   *)
(* a1 and a2 fit together, a3 fits only when one of them was released.       *)
EXTENDS AllocationLedger

CONSTANTS a1, a2, a3

MCMaximum == [q \in Resources |-> IF q = "bytes" THEN 3 ELSE 2]
MCDemand  == [a \in Allocs |-> [q \in Resources |->
                IF q = "inodes" THEN 1 ELSE IF a = a2 THEN 2 ELSE 1]]
============================================================================
