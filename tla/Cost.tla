-------------------------------- MODULE Cost ---------------------------------
(***************************************************************************)
(* M1, CostCalculator (cost.py): what a call costs at one provider.  A      *)
(* price is a natural number of the smallest amount of money the            *)
(* configuration distinguishes; 0 is its default (config.py:43-45).         *)
(***************************************************************************)
EXTENDS Integers

CONSTANTS
  Tiers, \* the tiers the provider has prices for
  Price  \* per tier: input, output and cacheRead per token

ASSUME PriceAssumption == Price \in [Tiers -> [input : Nat, output : Nat, cacheRead : Nat]]

NotCached(in, cached) == IF in >= cached THEN in - cached ELSE 0

CostUsd(tier, in, out, cached) ==
  NotCached(in, cached) * Price[tier].input
    + out * Price[tier].output
    + cached * Price[tier].cacheRead
=============================================================================
