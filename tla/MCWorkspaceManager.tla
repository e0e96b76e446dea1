------------------------ MODULE MCWorkspaceManager ------------------------
(* Instances of the manager with named permits, hosts and allocations.       *)
EXTENDS WorkspaceManager, TLC

CONSTANTS h1, h2, o1, o2, o3

\* o1 and o2 are permits of the manager on h1, o3 of the one on h2.
MCOpHost == [o \in Ops |-> IF o = o3 THEN h2 ELSE h1]

\* Every allocation takes one unit of the pool.
MCDemand  == [a \in Allocs |-> [q \in Resources |-> 1]]
MCMaximum == [q \in Resources |-> 1]

\* The permits of one manager are interchangeable, and the processes it starts.
MCRunSymmetry == Permutations(Ops \ {o3}) \union Permutations(Namespaces)

\* Processes are interchangeable, and two hosts with one permit each.
MCSwapHosts == (h1 :> h2) @@ (h2 :> h1) @@ (o1 :> o3) @@ (o3 :> o1)
MCHostSymmetry == Permutations(Namespaces) \union {MCSwapHosts}
============================================================================
