------------------------------ MODULE MCSoftCap ------------------------------
(***************************************************************************)
(* A small instance of SoftCap for TLC: two tiers to fall back on, a        *)
(* dearer one that is not on the list and one without prices.               *)
(***************************************************************************)
EXTENDS SoftCap, TLC

MCPrice ==
  [low |-> [input |-> 0, output |-> 1, cacheRead |-> 0],
   medium |-> [input |-> 1, output |-> 1, cacheRead |-> 0],
   high |-> [input |-> 1, output |-> 3, cacheRead |-> 1],
   unpriced |-> [input |-> 0, output |-> 0, cacheRead |-> 0]]
MCTiers == DOMAIN MCPrice
LowFirst == <<"low", "medium">>
Alike == Permutations(Threads)
=============================================================================
