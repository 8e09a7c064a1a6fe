----------------------------- MODULE MCNetTable -----------------------------
(* Instances of NetTable: all networks with one hash, or two hashes.       *)
EXTENDS NetTable

CONSTANTS n1, n2, n3, n4

OneHash   == [n \in {n1, n2, n3, n4} |-> 0]
TwoHashes == (n1 :> 0) @@ (n2 :> 0) @@ (n3 :> 1)

(* Handles and access lists are not told apart, nor networks of one hash.  *)
Symmetry ==
  Permutations(Handles) \cup Permutations(Indices) \cup Permutations(Networks)
=============================================================================
