----------------------------- MODULE MCRevisions -----------------------------
(* Small instances of a document's revisions for TLC. *)
EXTENDS RevisionsProperties, TLC

CONSTANTS e1, e2, s1, s2, k1, k2, k3

TwoSessions   == [e \in Editors |-> IF e = e1 THEN s1 ELSE s2]
OneSession    == [e \in Editors |-> s1]

KeysAreAlike == Permutations(Keys)
==============================================================================
