------------------------------ MODULE MCLeases -------------------------------
(***************************************************************************)
(* Leases for TLC: clients, files, connections, workers and slots are      *)
(* interchangeable.                                                        *)
(***************************************************************************)
EXTENDS Leases, TLC

Symmetry ==
  Permutations(Clients) \cup Permutations(Files) \cup Permutations(Conns)
    \cup Permutations(Workers) \cup Permutations(Slots)

\* Every set of n files with these operations, lease states and drops.
Using(n, ops, reqs, drops) ==
  {[files |-> F, ops |-> ops, reqs |-> reqs, drops |-> drops] :
     F \in {G \in SUBSET Files : Cardinality(G) = n}}

\* One file and everything that changes or removes it, on connections that go down;
\* two files and the RENAME that breaks the leases on both.
Changing ==
  Using(1, {"read", "write", "overwrite"}, {"RH"}, TRUE)
    \cup Using(1, {"read", "dispose"}, {"R"}, TRUE)
    \cup Using(2, {"read", "rename"}, {"R"}, FALSE)

\* One file that is only overwritten, on connections that go down.
Overwriting == Using(1, {"overwrite"}, {"RH"}, TRUE)

\* One file that is read and written, on connections that stay.
Writing == Using(1, {"read", "write"}, {"R"}, FALSE)
=============================================================================
