------------------------------ MODULE MCContent ------------------------------
(* Content for TLC: small sets, and two batches of the document API.           *)
EXTENDS Content, TLC

CONSTANTS r1, r2, p1, p2

\* A batch that deletes what it inserted, and one that updates and lacks data.
Batched == {<<"insert", "delete">>, <<"update", "noData">>}

Symmetry == Permutations({r1, r2}) \cup Permutations({p1, p2})
==============================================================================
