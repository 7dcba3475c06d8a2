----------------------------- MODULE MCFailover ------------------------------
(* Small instances of Failover for TLC: a primary and one backup. *)
EXTENDS Failover, TLC

CONSTANTS primary, backup

PrimaryFirst == <<primary, backup>>
Alike == Permutations(Threads)
=============================================================================
