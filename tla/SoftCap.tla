------------------------------- MODULE SoftCap -------------------------------
(***************************************************************************)
(* M4, SoftCapRouter.call (resilience.py): threads that serve requests near *)
(* the end of a budget.  Each reads once what remains, picks the requested  *)
(* tier or a cheaper one by an estimate, and calls the model; the call is   *)
(* charged when its real usage is known.  What remains is the figure of     *)
(* BudgetTracker.status: the limit less what is spent, without the          *)
(* reservations of calls in flight (budget.py:175).                         *)
(***************************************************************************)
EXTENDS Cost, Sequences, FiniteSets

CONSTANTS
  Threads,
  CheapestFirst,       \* the tiers to fall back on
  EstInput, EstOutput, \* the tokens a call is estimated at, whatever the request
  MaxInput, MaxOutput, \* bounds on the tokens a call really uses
  CallCost,            \* no call costs more
  Limit                \* the budget of a window

\* Mutant: the estimate leaves the output out.
EstCostOfInput(t) == CostUsd(t, EstInput, 0, 0)

EstCost(t) == CostUsd(t, EstInput, EstOutput, 0)

ASSUME SoftCapAssumption ==
  /\ EstInput \in Nat \ {0} /\ EstOutput \in Nat \ {0}
  /\ MaxInput \in Nat /\ MaxOutput \in Nat /\ CallCost \in Nat /\ Limit \in Nat
ASSUME ThreadsAssumption == IsFiniteSet(Threads)
\* The name of the parameter: cheapest first.
ASSUME OrderAssumption ==
  /\ CheapestFirst \in Seq(Tiers)
  /\ \A i, j \in DOMAIN CheapestFirst :
       i <= j => EstCost(CheapestFirst[i]) <= EstCost(CheapestFirst[j])
ASSUME CallCostAssumption ==
  \A t \in Tiers, in \in 0..MaxInput, out \in 0..MaxOutput :
    CostUsd(t, in, out, 0) <= CallCost

VARIABLES
  spent,     \* what the calls of this window have been charged
  pc,        \* per thread: whether its request is being served, or was rejected
  requested, \* the tier its latest request asked for
  tier,      \* the tier that request is, or was, served by
  remaining  \* what remained when it looked

vars == <<spent, pc, requested, tier, remaining>>

PCs == {"idle", "served", "degraded", "rejected"}
Serving == {"served", "degraded"}

Init ==
  /\ spent = 0
  /\ pc = [s \in Threads |-> "idle"]
  /\ requested \in [Threads -> Tiers]
  /\ tier = requested
  /\ remaining = [s \in Threads |-> 0]

\* Mutant: without max(0, ...).
SignedRemaining == Limit - spent

Remaining == IF spent <= Limit THEN Limit - spent ELSE 0

Fits(t) == EstCost(t) <= Remaining

\* Mutant: the tier before the requested one is left out as well.
CheaperButOne(t) ==
  {i \in DOMAIN CheapestFirst : \A j \in DOMAIN CheapestFirst : CheapestFirst[j] = t => j > i + 1}

\* The places before the requested tier, or all of them if it is not listed.
Cheaper(t) == {i \in DOMAIN CheapestFirst : \A j \in 1..i : CheapestFirst[j] # t}

Begin(s, t, outcome, by) ==
  /\ pc[s] \notin Serving
  /\ pc' = [pc EXCEPT ![s] = outcome]
  /\ requested' = [requested EXCEPT ![s] = t]
  /\ tier' = [tier EXCEPT ![s] = by]
  /\ remaining' = [remaining EXCEPT ![s] = Remaining]
  /\ UNCHANGED spent

-----------------------------------------------------------------------------
(* call *)

ServeRequested(s, t) == Fits(t) /\ Begin(s, t, "served", t)

\* Mutant: goes through the tiers from the dearest.
DegradeLeast(s, t) ==
  /\ ~Fits(t)
  /\ \E i \in Cheaper(t) :
       /\ Fits(CheapestFirst[i])
       /\ \A j \in Cheaper(t) : j > i => ~Fits(CheapestFirst[j])
       /\ Begin(s, t, "degraded", CheapestFirst[i])

Degrade(s, t) ==
  /\ ~Fits(t)
  /\ \E i \in Cheaper(t) :
       /\ Fits(CheapestFirst[i])
       /\ \A j \in 1..(i - 1) : ~Fits(CheapestFirst[j])
       /\ Begin(s, t, "degraded", CheapestFirst[i])

\* BudgetExceededError
Reject(s, t) ==
  /\ ~Fits(t)
  /\ \A i \in Cheaper(t) : ~Fits(CheapestFirst[i])
  /\ Begin(s, t, "rejected", t)

-----------------------------------------------------------------------------
(* The call function and the budget behind it. *)

Reply(s) ==
  /\ pc[s] \in Serving
  /\ \E in \in 0..MaxInput, out \in 0..MaxOutput :
       spent' = spent + CostUsd(tier[s], in, out, 0)
  /\ pc' = [pc EXCEPT ![s] = "idle"]
  /\ UNCHANGED <<requested, tier, remaining>>

CallRaises(s) ==
  /\ pc[s] \in Serving
  /\ pc' = [pc EXCEPT ![s] = "idle"]
  /\ UNCHANGED <<spent, requested, tier, remaining>>

NewWindow == spent' = 0 /\ UNCHANGED <<pc, requested, tier, remaining>>

-----------------------------------------------------------------------------

Next ==
  \/ \E s \in Threads, t \in Tiers : ServeRequested(s, t) \/ Degrade(s, t) \/ Reject(s, t)
  \/ \E s \in Threads : Reply(s) \/ CallRaises(s)
  \/ NewWindow

Spec == Init /\ [][Next]_vars

-----------------------------------------------------------------------------

TypeOK ==
  /\ spent \in Nat
  /\ pc \in [Threads -> PCs]
  /\ requested \in [Threads -> Tiers]
  /\ tier \in [Threads -> Tiers]
  /\ remaining \in [Threads -> 0..Limit]

\* "Only when even the cheapest tier doesn't fit does it raise" (resilience.py:13-14):
\* nothing on the list fits what a rejected request found, although the loop
\* never looks at the tiers from the requested one on (resilience.py:201).
RejectsBelowTheFloor ==
  \A s \in Threads : pc[s] = "rejected" =>
    \A i \in DOMAIN CheapestFirst : EstCost(CheapestFirst[i]) > remaining[s]

\* A request is only degraded to save money, wherever its tier stands in the
\* list, and it always gets the lowest price there, also when a tier between
\* would fit: the first fit of a list in order of price is its head
\* (resilience.py:203-208).
DegradesToTheBottom ==
  \A s \in Threads : pc[s] = "degraded" =>
    /\ EstCost(tier[s]) < EstCost(requested[s])
    /\ \A i \in DOMAIN CheapestFirst : EstCost(tier[s]) <= EstCost(CheapestFirst[i])

\* How far the budget can be overrun by threads that look at the same remaining
\* amount before any of them is charged (resilience.py:179, 186): by one call
\* each, and no further however many requests follow.
OverrunBounded == spent <= Limit + Cardinality(Threads) * CallCost
=============================================================================
