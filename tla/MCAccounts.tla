------------------------------ MODULE MCAccounts ------------------------------
(* Small instances of accounts and sessions for TLC. *)
EXTENDS AccountsProperties, TLC

RequestsAreAlike == Permutations(Requests)
==============================================================================
