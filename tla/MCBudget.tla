------------------------------ MODULE MCBudget ------------------------------
(* Small instances of Budget for TLC. *)
EXTENDS Budget, TLC

\* Every user id names its own keys.
PlainUid == [u \in Users |-> u]

\* Nothing tells the clients apart; only safety is checked with it.
Alike == Permutations(Clients)
=============================================================================
