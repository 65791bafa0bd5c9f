------------------------------ MODULE MCStorage ------------------------------
(* Small instances of the storage service for TLC. *)
EXTENDS StorageProperties, TLC

CONSTANTS o1, o2

OneOwner  == {o1}
TwoOwners == {o1, o2}
OneOp     == {1}
TwoOps    == {1, 2}
OfOne     == [k \in Ops |-> o1]
OfTwo     == [k \in Ops |-> IF k = 1 THEN o1 ELSE o2]
LimitsLow    == {1, 2}
LimitsShared == {2, 4}

RequestsAreAlike == Permutations(Requests)
==============================================================================
