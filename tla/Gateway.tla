------------------------------- MODULE Gateway -------------------------------
(***************************************************************************)
(* C3, TieredRouter.complete (router.py): one call of a user walks through  *)
(* the budget, the breaker and the provider and back.  The threads of one   *)
(* worker run calls at the same time.  Budget and breaker operations take   *)
(* effect at one instant here: BudgetProofs has that of the budget, and     *)
(* BreakerProofs that of the breaker, for one worker that lives on.  Any of *)
(* them may raise because Redis cannot be reached.  A transaction of the    *)
(* budget whose reply is lost does not raise: it is repeated (budget.py:134,*)
(* 160), as in Budget.  One user, inside one running window.                *)
(***************************************************************************)
EXTENDS BreakerMachine, Totals

CONSTANTS
  Threads,
  Ests,      \* estimated costs of calls
  Overrun,   \* how far the actual cost may exceed the estimate
  Limit,     \* the user's budget
  Answers,   \* what the provider may do: ok, malformed, error
  Faulty,    \* operations on Redis that may raise or lose their reply
  MaxCalls, MaxFaults  \* bounds on calls admitted or about to be, and on faults

Operations == {"reserve", "allow", "refund", "charge", "success", "status", "failed", "release"}

ASSUME GatewayAssumption ==
  /\ IsFiniteSet(Threads)
  /\ Ests \subseteq Nat /\ Overrun \in Nat /\ Limit \in Nat
  /\ Answers \subseteq {"ok", "malformed", "error"}
  /\ Faulty \subseteq Operations /\ MaxCalls \in Nat /\ MaxFaults \in Nat
ASSUME MachineAssumption == Threshold \in Nat \ {0} /\ Recovery \in Nat /\ SlotTtl \in Nat

VARIABLES
  reserved, spent,  \* Redis, the user's counters
  breaker,          \* Redis, the provider's breaker
  pc,               \* where each thread is: the operation it does next
  est, cost,        \* estimated and actual cost of its call
  owes,      \* history: its reservation has not been released yet
  billed,    \* history: what the provider bills for its last call
  charged,   \* history: what the user was charged for its last call
  repeated,  \* history: the part of that by charges whose reply was lost
  stranded,  \* history: reservations nobody is left to release
  calls, faults  \* history: what the bounds count, admitted calls and faults

books == <<reserved, spent, owes, charged, repeated>>
vars  == <<books, breaker, pc, est, cost, billed, stranded, calls, faults>>

PCs == {"idle", "reserve", "allow", "refund", "call", "charge", "success", "status", "failed", "release"}

Init ==
  /\ reserved = 0 /\ spent = 0
  /\ breaker = Fresh
  /\ pc = [t \in Threads |-> "idle"]
  /\ est = [t \in Threads |-> 0] /\ cost = [t \in Threads |-> 0]
  /\ owes = [t \in Threads |-> FALSE]
  /\ billed = [t \in Threads |-> 0] /\ charged = [t \in Threads |-> 0]
  /\ repeated = [t \in Threads |-> 0]
  /\ stranded = 0 /\ calls = 0 /\ faults = 0

Goto(t, from, to) == pc[t] = from /\ pc' = [pc EXCEPT ![t] = to]

-----------------------------------------------------------------------------
(* The operations of the other components *)

\* Mutant: the check forgets what others have reserved.
FitsAlone(e) == e = 0 \/ spent + e <= Limit

\* check_and_reserve, inside a running window.
Fits(e) == e = 0 \/ spent + reserved + e <= Limit

\* Mutant: charges without releasing.
RecordCharge(t, actual) ==
  /\ spent' = spent + actual
  /\ charged' = [charged EXCEPT ![t] = @ + actual]
  /\ owes' = [owes EXCEPT ![t] = FALSE]
  /\ UNCHANGED reserved

\* Mutant: the max(0, ...) of record_actual forgotten.
RecordSigned(t, actual) ==
  /\ spent' = spent + actual
  /\ reserved' = reserved - est[t]
  /\ owes' = [owes EXCEPT ![t] = FALSE]
  /\ charged' = [charged EXCEPT ![t] = @ + actual]

\* record_actual(est, actual)
RecordActual(t, actual) ==
  /\ spent' = spent + actual
  /\ reserved' = IF reserved > est[t] THEN reserved - est[t] ELSE 0
  /\ owes' = [owes EXCEPT ![t] = FALSE]
  /\ charged' = [charged EXCEPT ![t] = @ + actual]

-----------------------------------------------------------------------------
(* complete *)

Request(t) ==
  /\ calls + Cardinality({s \in Threads : pc[s] = "reserve"}) < MaxCalls
  /\ Goto(t, "idle", "reserve")
  /\ \E e \in Ests : est' = [est EXCEPT ![t] = e]
  /\ cost' = [cost EXCEPT ![t] = 0] /\ billed' = [billed EXCEPT ![t] = 0]
  /\ charged' = [charged EXCEPT ![t] = 0] /\ repeated' = [repeated EXCEPT ![t] = 0]
  /\ UNCHANGED <<reserved, spent, owes, breaker, stranded, calls, faults>>

Reserve(t) ==
  /\ Goto(t, "reserve", "allow")
  /\ Fits(est[t])
  /\ reserved' = reserved + est[t]
  /\ owes' = [owes EXCEPT ![t] = TRUE]
  /\ calls' = calls + 1
  /\ UNCHANGED <<spent, charged, repeated, breaker, est, cost, billed, stranded, faults>>

\* BudgetExceededError: no transaction confirms what the comparison has read, so
\* that the call may fit by now (RefusalJustified of Budget says when it does not).
Refuse(t) ==
  /\ Goto(t, "reserve", "idle")
  /\ est[t] > 0
  /\ UNCHANGED <<books, breaker, est, cost, billed, stranded, calls, faults>>

Allow(t) ==
  /\ CanAdmit(breaker) /\ breaker' = Admitted(breaker)
  /\ Goto(t, "allow", "call")
  /\ UNCHANGED <<books, est, cost, billed, stranded, calls, faults>>

\* Mutant: rejects without giving the reservation back.
DenyOnly(t) ==
  /\ ~CanAdmit(breaker)
  /\ Goto(t, "allow", "idle")
  /\ owes' = [owes EXCEPT ![t] = FALSE]
  /\ UNCHANGED <<reserved, spent, charged, repeated, breaker, est, cost, billed,
                 stranded, calls, faults>>

Deny(t) ==
  /\ ~CanAdmit(breaker)
  /\ Goto(t, "allow", "refund")
  /\ UNCHANGED <<books, breaker, est, cost, billed, stranded, calls, faults>>

Refund(t) ==
  /\ Goto(t, "refund", "idle")
  /\ RecordActual(t, 0)
  /\ UNCHANGED <<repeated, breaker, est, cost, billed, stranded, calls, faults>>

\* The provider works for the call and bills it.  An answer without choices, or
\* with a usage that has no numbers, raises while it is taken apart.
Answer(t) ==
  /\ \E answer \in Answers \cap {"ok", "malformed"}, c \in 0..(est[t] + Overrun) :
       /\ Goto(t, "call", IF answer = "ok" THEN "charge" ELSE "failed")
       /\ billed' = [billed EXCEPT ![t] = c]
       /\ cost' = [cost EXCEPT ![t] = IF answer = "ok" THEN c ELSE 0]
  /\ UNCHANGED <<books, breaker, est, stranded, calls, faults>>

ProviderFails(t) ==
  /\ "error" \in Answers
  /\ Goto(t, "call", "failed")
  /\ UNCHANGED <<books, breaker, est, cost, billed, stranded, calls, faults>>

Charge(t) ==
  /\ Goto(t, "charge", "success")
  /\ RecordActual(t, cost[t])
  /\ UNCHANGED <<repeated, breaker, est, cost, billed, stranded, calls, faults>>

RecordSuccess(t) ==
  /\ Goto(t, "success", "status")
  /\ breaker' = Succeeded(breaker)
  /\ UNCHANGED <<books, est, cost, billed, stranded, calls, faults>>

\* status() and breaker.state are read for the reply.
Reply(t) ==
  /\ Goto(t, "status", "idle")
  /\ UNCHANGED <<books, breaker, est, cost, billed, stranded, calls, faults>>

RecordFailure(t) ==
  /\ Goto(t, "failed", "release")
  /\ breaker' = Failed(breaker)
  /\ UNCHANGED <<books, est, cost, billed, stranded, calls, faults>>

\* Mutant: the except branch charges what the call has cost, once more.
ReleaseAsBilled(t) ==
  /\ Goto(t, "release", "idle")
  /\ RecordActual(t, cost[t])
  /\ UNCHANGED <<repeated, breaker, est, cost, billed, stranded, calls, faults>>

\* The caller gets a RuntimeError.
Release(t) ==
  /\ Goto(t, "release", "idle")
  /\ RecordActual(t, 0)
  /\ UNCHANGED <<repeated, breaker, est, cost, billed, stranded, calls, faults>>

-----------------------------------------------------------------------------
(* Redis fails.  A connection lost while keys are watched is a WatchError to the *)
(* budget, which tries again; before that, its operations raise and have done      *)
(* nothing.  Those of the breaker raise having done nothing, part or all.          *)

Raises(op) == op \in Faulty /\ faults < MaxFaults /\ faults' = faults + 1

\* The reservation is written and its reply lost: nobody knows of it, and the
\* loop reserves again, or finds that it does not fit any more.
ReserveReplyLost(t) ==
  /\ Raises("reserve") /\ pc[t] = "reserve"
  /\ est[t] > 0 /\ Fits(est[t])
  /\ reserved' = reserved + est[t] /\ stranded' = stranded + est[t]
  /\ UNCHANGED <<spent, owes, charged, repeated, breaker, pc, est, cost, billed, calls>>

ReserveRaises(t) ==
  /\ Raises("reserve") /\ Goto(t, "reserve", "idle")
  /\ est[t] > 0
  /\ UNCHANGED <<books, breaker, est, cost, billed, stranded, calls>>

Settling == {"refund", "charge", "release"}
Settled(t) == IF pc[t] = "charge" THEN cost[t] ELSE 0

\* The same in record_actual, which settles again; a settlement of nothing for
\* nothing does not get to Redis (budget.py:143).
SettlesSomething(t) == est[t] > 0 \/ Settled(t) > 0
RecordReplyLost(t) ==
  /\ pc[t] \in Settling /\ Raises(pc[t])
  /\ SettlesSomething(t)
  /\ RecordActual(t, Settled(t))
  /\ repeated' = [repeated EXCEPT ![t] = @ + Settled(t)]
  /\ UNCHANGED <<breaker, pc, est, cost, billed, stranded, calls>>

\* The call ends with its reservation unreleased.
Abandon(t) ==
  /\ stranded' = stranded + (IF owes[t] THEN est[t] ELSE 0)
  /\ owes' = [owes EXCEPT ![t] = FALSE]

\* Outside the try.
AllowRaises(t) ==
  /\ Raises("allow")
  /\ Goto(t, "allow", "idle")
  /\ Abandon(t)
  /\ breaker' \in PartlyAdmitted(breaker)
  /\ UNCHANGED <<reserved, spent, charged, repeated, est, cost, billed, calls>>

\* record_actual raises where nothing catches it.
LastRecordRaises(t) ==
  /\ \E op \in {"refund", "release"} : Raises(op) /\ Goto(t, op, "idle")
  /\ SettlesSomething(t)
  /\ Abandon(t)
  /\ UNCHANGED <<reserved, spent, charged, repeated, breaker, est, cost, billed, calls>>

ChargeRaises(t) ==
  /\ Raises("charge") /\ Goto(t, "charge", "failed")
  /\ SettlesSomething(t)
  /\ UNCHANGED <<books, breaker, est, cost, billed, stranded, calls>>

SuccessRaises(t) ==
  /\ Raises("success") /\ Goto(t, "success", "failed")
  /\ breaker' \in PartlySucceeded(breaker)
  /\ UNCHANGED <<books, est, cost, billed, stranded, calls>>

StatusRaises(t) ==
  /\ Raises("status") /\ Goto(t, "status", "failed")
  /\ UNCHANGED <<books, breaker, est, cost, billed, stranded, calls>>

\* Raised inside the except branch: record_actual is not reached.
FailureRaises(t) ==
  /\ Raises("failed") /\ Goto(t, "failed", "idle")
  /\ breaker' \in PartlyFailed(breaker)
  /\ Abandon(t)
  /\ UNCHANGED <<reserved, spent, charged, repeated, est, cost, billed, calls>>

\* Time passes for the breaker.
Tick ==
  /\ breaker' = Later(breaker)
  /\ UNCHANGED <<books, pc, est, cost, billed, stranded, calls, faults>>

Complete(t) ==
  \/ Request(t) \/ Reserve(t) \/ Refuse(t) \/ Allow(t) \/ Deny(t) \/ Refund(t)
  \/ Answer(t) \/ ProviderFails(t) \/ Charge(t) \/ RecordSuccess(t) \/ Reply(t)
  \/ RecordFailure(t) \/ Release(t)
Fault(t) ==
  \/ ReserveReplyLost(t) \/ ReserveRaises(t) \/ AllowRaises(t)
  \/ RecordReplyLost(t) \/ LastRecordRaises(t) \/ ChargeRaises(t)
  \/ SuccessRaises(t) \/ StatusRaises(t) \/ FailureRaises(t)

Next == (\E t \in Threads : Complete(t) \/ Fault(t)) \/ Tick

Spec == Init /\ [][Next]_vars

-----------------------------------------------------------------------------
(* Properties *)

TypeOK ==
  /\ reserved \in Nat /\ spent \in Nat
  /\ breaker \in Breakers
  /\ pc \in [Threads -> PCs]
  /\ est \in [Threads -> Nat] /\ cost \in [Threads -> Nat]
  /\ owes \in [Threads -> BOOLEAN]
  /\ billed \in [Threads -> Nat] /\ charged \in [Threads -> Nat]
  /\ repeated \in [Threads -> Nat]
  /\ stranded \in Nat /\ calls \in Nat /\ faults \in Nat

Owed == Total(est, {t \in Threads : owes[t]})

\* Whatever way calls end (answered, refused by the breaker, failed, malformed),
\* the reserved counter is what the calls in flight have reserved
\* (router.py:120, 164, 190), as long as Redis answers.
BooksBalance == faults = 0 => reserved = Owed

\* When Redis fails, a reservation stays behind only if nobody is left to release
\* it: its call gave up, or made it a second time because the reply to the first
\* was lost.  The counter never holds more than that (router.py:186-191,
\* budget.py:134).
NoExtraReservation == reserved <= Owed + stranded

\* What the user has spent and reserved passes the limit by no more than calls
\* have overrun their estimates (SCALING.md:47, "cannot overspend"), as long as
\* Redis answers.
SpendWithinLimit == faults = 0 => spent + reserved <= Limit + calls * Overrun

\* Whichever operation fails, a call charges its user nothing or its bill, and its
\* bill if it goes on to its reply (router.py:164, 166, 190); what charges whose
\* reply was lost have charged comes on top (budget.py:160).
ChargedAsBilled ==
  \A t \in Threads :
    /\ charged[t] \in {repeated[t], billed[t] + repeated[t]}
    /\ pc[t] \in {"success", "status"} => charged[t] = billed[t] + repeated[t]

-----------------------------------------------------------------------------
(* What the documentation says and the code does not do *)

\* SCALING.md:47, "cannot overspend", also when Redis fails after the charge and
\* no call overruns its estimate.
SpentWithinLimit == spent <= Limit
=============================================================================
