------------------------------ MODULE MCTenancy ------------------------------
(* Tenancy for TLC: small sets, and three histories of the master that a       *)
(* follower applies.                                                           *)
EXTENDS Tenancy, TLC

CONSTANTS u1, u2, a1, a2, r1, r2

Op(op, p, name) == [op |-> op, p |-> p, name |-> name]

\* The histories of a master that a follower applies.
MasterHistories ==
  {<<Op("create", "p1", "n1"), Op("document", "p1", "n1"),
     Op("update", "p1", "n2"), Op("document", "p1", "n1")>>,
   <<Op("create", "p1", "n1"), Op("document", "p1", "n1"),
     Op("delete", "p1", "n1")>>,
   <<Op("create", "p1", "n1"), Op("update", "p1", "n2"),
     Op("create", "p2", "n1"), Op("document", "p2", "n1")>>}

Symmetry == Permutations({u1, u2}) \cup Permutations({a1, a2}) \cup Permutations({r1, r2})
==============================================================================
