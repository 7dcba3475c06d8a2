---------------------------- MODULE GatewayProofs ----------------------------
(***************************************************************************)
(* Theorems about Gateway: types, what calls are charged, and the sums over *)
(* calls in flight, for any number of threads, calls and faults.            *)
(***************************************************************************)
EXTENDS Gateway, TotalTheorems

\* The breaker's operations keep it a breaker (breaker.py:167-211).
LEMMA MachineTypes ==
  ASSUME NEW b \in Breakers
  PROVE  /\ Fresh \in Breakers /\ Admitted(b) \in Breakers /\ Succeeded(b) \in Breakers
         /\ Failed(b) \in Breakers /\ Later(b) \in Breakers
         /\ PartlyAdmitted(b) \subseteq Breakers /\ PartlySucceeded(b) \subseteq Breakers
         /\ PartlyFailed(b) \subseteq Breakers
<1> USE MachineAssumption
<1>0. /\ b = [state |-> b.state, failures |-> b.failures, age |-> b.age, slot |-> b.slot]
      /\ b.state \in {"closed", "open", "half_open"} /\ b.failures \in 0..Threshold
      /\ b.age \in -1..Recovery /\ b.slot \in 0..SlotTtl
  BY DEF Breakers
<1>1. Fresh \in Breakers
  BY DEF Fresh, Breakers
<1>2. Admitted(b) \in Breakers
  <2>1. CASE Unguarded(b) BY <2>1 DEF Admitted
  <2>2. CASE ~Unguarded(b)
    <3>1. Admitted(b) = [state |-> "half_open", failures |-> b.failures, age |-> b.age, slot |-> SlotTtl]
      BY <1>0, <2>2 DEF Admitted
    <3> QED BY <1>0, <3>1 DEF Breakers
  <2> QED BY <2>1, <2>2
<1>3. Succeeded(b) \in Breakers
  <2>1. Succeeded(b) = [state |-> "closed", failures |-> 0, age |-> b.age, slot |-> 0]
    BY <1>0 DEF Succeeded, Fresh
  <2> QED BY <1>0, <2>1 DEF Breakers
<1>4. Failed(b) \in Breakers
  <2>1. CASE Trips(b)
    <3>1. Failed(b) = [state |-> "open", failures |-> Threshold, age |-> 0, slot |-> b.slot]
      BY <1>0, <2>1 DEF Failed
    <3> QED BY <1>0, <3>1 DEF Breakers
  <2>2. CASE ~Trips(b)
    <3>1. Failed(b) = [state |-> b.state, failures |-> b.failures + 1, age |-> b.age, slot |-> b.slot]
      BY <1>0, <2>2 DEF Failed
    <3>2. b.failures + 1 \in 0..Threshold BY <1>0, <2>2 DEF Trips
    <3> QED BY <1>0, <3>1, <3>2 DEF Breakers
  <2> QED BY <2>1, <2>2
<1>5. Later(b) \in Breakers
  <2> DEFINE l == IF b.slot = 0 THEN 0 ELSE b.slot - 1
  <2>1. Later(b) = [state |-> b.state, failures |-> b.failures, age |-> Older(b.age), slot |-> l]
    BY DEF Later
  <2>2. Older(b.age) \in -1..Recovery /\ l \in 0..SlotTtl BY <1>0 DEF Older
  <2> QED BY <1>0, <2>1, <2>2 DEF Breakers
<1>6. PartlyAdmitted(b) \subseteq Breakers
  BY <1>2 DEF PartlyAdmitted, Breakers
<1>7. PartlySucceeded(b) \subseteq Breakers
  <2>1. [b EXCEPT !.failures = 0]
          = [state |-> b.state, failures |-> 0, age |-> b.age, slot |-> b.slot]
    BY <1>0
  <2>2. [Succeeded(b) EXCEPT !.slot = b.slot]
          = [state |-> "closed", failures |-> 0, age |-> b.age, slot |-> b.slot]
    <3>1. Succeeded(b) = [state |-> "closed", failures |-> 0, age |-> b.age, slot |-> 0]
      BY DEF Succeeded, Fresh
    <3> QED BY <3>1
  <2>3. [b EXCEPT !.failures = 0] \in Breakers BY <1>0, <2>1 DEF Breakers
  <2>4. [Succeeded(b) EXCEPT !.slot = b.slot] \in Breakers BY <1>0, <2>2 DEF Breakers
  <2> QED BY <1>3, <2>3, <2>4 DEF PartlySucceeded
<1>8. PartlyFailed(b) \subseteq Breakers
  BY <1>4 DEF PartlyFailed, Breakers
<1> QED BY <1>1, <1>2, <1>3, <1>4, <1>5, <1>6, <1>7, <1>8

\* record_actual keeps the types of what it writes (budget.py:137-161).
LEMMA RecordTypes ==
  ASSUME TypeOK, NEW t \in Threads, NEW actual \in Nat, RecordActual(t, actual)
  PROVE  /\ reserved' \in Nat /\ spent' \in Nat
         /\ owes' \in [Threads -> BOOLEAN] /\ charged' \in [Threads -> Nat]
<1>1. est[t] \in Nat /\ reserved \in Nat /\ spent \in Nat /\ charged[t] \in Nat
  BY DEF TypeOK
<1>2. reserved' \in Nat /\ spent' \in Nat
  BY <1>1 DEF RecordActual
<1>3. owes' \in [Threads -> BOOLEAN] /\ charged' \in [Threads -> Nat]
  BY <1>1 DEF TypeOK, RecordActual
<1> QED BY <1>2, <1>3

\* A call that gives up keeps the types of the books (router.py:119, 189).
LEMMA AbandonTypes ==
  ASSUME TypeOK, NEW t \in Threads, Abandon(t)
  PROVE  stranded' \in Nat /\ owes' \in [Threads -> BOOLEAN]
BY DEF TypeOK, Abandon

\* Every step of complete keeps the types.
LEMMA TypeStep == TypeOK /\ [Next]_vars => TypeOK'
<1> SUFFICES ASSUME TypeOK, [Next]_vars PROVE TypeOK' OBVIOUS
<1> USE GatewayAssumption, MachineAssumption
<1>1. ASSUME NEW t \in Threads, Complete(t) PROVE TypeOK'
  <2>1. CASE Request(t)
    <3>1. PICK e \in Ests : est' = [est EXCEPT ![t] = e] BY <2>1 DEF Request
    <3>2. e \in Nat OBVIOUS
    <3>3. est' \in [Threads -> Nat] BY <3>1, <3>2 DEF TypeOK
    <3> QED BY <2>1, <3>3 DEF TypeOK, Request, Goto, PCs
  <2>12. CASE Reserve(t)
    <3>1. est[t] \in Nat BY DEF TypeOK
    <3> QED BY <2>12, <3>1 DEF TypeOK, Reserve, Goto, PCs
  <2>13. CASE Refuse(t)
    BY <2>13 DEF TypeOK, Refuse, Goto, PCs, books
  <2>2. CASE Allow(t)
    BY <2>2, MachineTypes DEF TypeOK, Allow, Goto, PCs, books
  <2>3. CASE Deny(t)
    BY <2>3 DEF TypeOK, Deny, Goto, PCs, books
  <2>4. CASE Refund(t)
    <3>1. RecordActual(t, 0) BY <2>4 DEF Refund
    <3> QED BY <2>4, <3>1, RecordTypes DEF TypeOK, Refund, Goto, PCs
  <2>5. CASE Answer(t)
    <3>1. PICK answer \in Answers \cap {"ok", "malformed"}, c \in 0..(est[t] + Overrun) :
            /\ Goto(t, "call", IF answer = "ok" THEN "charge" ELSE "failed")
            /\ billed' = [billed EXCEPT ![t] = c]
            /\ cost' = [cost EXCEPT ![t] = IF answer = "ok" THEN c ELSE 0]
      BY <2>5 DEF Answer
    <3>2. c \in Nat BY DEF TypeOK
    <3>3. pc' \in [Threads -> PCs] BY <3>1 DEF TypeOK, Goto, PCs
    <3>4. cost' \in [Threads -> Nat] /\ billed' \in [Threads -> Nat] BY <3>1, <3>2 DEF TypeOK
    <3> QED BY <2>5, <3>3, <3>4 DEF TypeOK, Answer, books
  <2>6. CASE ProviderFails(t)
    BY <2>6 DEF TypeOK, ProviderFails, Goto, PCs, books
  <2>7. CASE Charge(t)
    <3>1. cost[t] \in Nat /\ RecordActual(t, cost[t]) BY <2>7 DEF Charge, TypeOK
    <3> QED BY <2>7, <3>1, RecordTypes DEF TypeOK, Charge, Goto, PCs
  <2>8. CASE RecordSuccess(t)
    BY <2>8, MachineTypes DEF TypeOK, RecordSuccess, Goto, PCs, books
  <2>9. CASE Reply(t)
    BY <2>9 DEF TypeOK, Reply, Goto, PCs, books
  <2>10. CASE RecordFailure(t)
    BY <2>10, MachineTypes DEF TypeOK, RecordFailure, Goto, PCs, books
  <2>11. CASE Release(t)
    <3>1. RecordActual(t, 0) BY <2>11 DEF Release
    <3> QED BY <2>11, <3>1, RecordTypes DEF TypeOK, Release, Goto, PCs
  <2> QED BY <1>1, <2>1, <2>2, <2>3, <2>4, <2>5, <2>6, <2>7, <2>8, <2>9, <2>10, <2>11, <2>12, <2>13 DEF Complete
<1>2. ASSUME NEW t \in Threads, Fault(t) PROVE TypeOK'
  <2>1. CASE ReserveRaises(t)
    BY <2>1 DEF TypeOK, ReserveRaises, Raises, Goto, PCs, books
  <2>8. CASE ReserveReplyLost(t)
    <3>1. est[t] \in Nat BY DEF TypeOK
    <3> QED BY <2>8, <3>1 DEF TypeOK, ReserveReplyLost, Raises
  <2>9. CASE RecordReplyLost(t)
    <3>1. Settled(t) \in Nat BY DEF TypeOK, Settled
    <3>2. /\ reserved' \in Nat /\ spent' \in Nat
          /\ owes' \in [Threads -> BOOLEAN] /\ charged' \in [Threads -> Nat]
      BY <2>9, <3>1, RecordTypes DEF RecordReplyLost
    <3>3. repeated' \in [Threads -> Nat] /\ faults' \in Nat
      BY <2>9, <3>1 DEF RecordReplyLost, Raises, TypeOK
    <3> QED BY <2>9, <3>2, <3>3 DEF TypeOK, RecordReplyLost
  <2>2. CASE AllowRaises(t)
    <3>1. breaker' \in Breakers BY <2>2, MachineTypes DEF AllowRaises, TypeOK
    <3> QED BY <2>2, <3>1, AbandonTypes DEF TypeOK, AllowRaises, Raises, Goto, PCs
  <2>3. CASE LastRecordRaises(t)
    <3>1. pc' \in [Threads -> PCs] /\ faults' \in Nat
      BY <2>3 DEF LastRecordRaises, Raises, Goto, PCs, TypeOK
    <3> QED BY <2>3, <3>1, AbandonTypes DEF TypeOK, LastRecordRaises
  <2>4. CASE ChargeRaises(t)
    BY <2>4 DEF TypeOK, ChargeRaises, Raises, Goto, PCs, books
  <2>5. CASE SuccessRaises(t)
    <3>1. breaker' \in Breakers BY <2>5, MachineTypes DEF SuccessRaises, TypeOK
    <3> QED BY <2>5, <3>1 DEF TypeOK, SuccessRaises, Raises, Goto, PCs, books
  <2>6. CASE StatusRaises(t)
    BY <2>6 DEF TypeOK, StatusRaises, Raises, Goto, PCs, books
  <2>7. CASE FailureRaises(t)
    <3>1. breaker' \in Breakers BY <2>7, MachineTypes DEF FailureRaises, TypeOK
    <3> QED BY <2>7, <3>1, AbandonTypes DEF TypeOK, FailureRaises, Raises, Goto, PCs
  <2> QED BY <1>2, <2>1, <2>2, <2>3, <2>4, <2>5, <2>6, <2>7, <2>8, <2>9 DEF Fault
<1>3. CASE Tick
  BY <1>3, MachineTypes DEF TypeOK, Tick, books
<1>4. CASE UNCHANGED vars
  BY <1>4 DEF TypeOK, vars, books
<1> QED BY <1>1, <1>2, <1>3, <1>4 DEF Next

\* Every counter, breaker and history variable keeps its type, whatever raises.
THEOREM TypeCorrect == Spec => []TypeOK
<1>1. Init => TypeOK
  <2> SUFFICES ASSUME Init PROVE TypeOK OBVIOUS
  <2>1. Fresh \in Breakers BY MachineAssumption DEF Fresh, Breakers
  <2>2. breaker \in Breakers BY <2>1 DEF Init
  <2>3. pc \in [Threads -> PCs] BY DEF Init, PCs
  <2>4. est \in [Threads -> Nat] /\ cost \in [Threads -> Nat] BY DEF Init
  <2>5. /\ billed \in [Threads -> Nat] /\ charged \in [Threads -> Nat]
        /\ repeated \in [Threads -> Nat]
    BY DEF Init
  <2>6. owes \in [Threads -> BOOLEAN] BY DEF Init
  <2>7. reserved \in Nat /\ spent \in Nat /\ stranded \in Nat /\ calls \in Nat /\ faults \in Nat
    BY DEF Init
  <2> QED BY <2>2, <2>3, <2>4, <2>5, <2>6, <2>7 DEF TypeOK
<1> QED BY <1>1, TypeStep, PTL DEF Spec

-----------------------------------------------------------------------------
\* The invariant behind ChargedAsBilled: nothing is charged before the provider
\* has answered, what is about to be charged is the bill, and until a charge is
\* answered only those have charged whose reply was lost.
Unanswered == {"reserve", "allow", "refund", "call"}

ChargeInv ==
  \A t \in Threads :
    /\ charged[t] \in {repeated[t], billed[t] + repeated[t]}
    /\ pc[t] \in Unanswered => charged[t] = 0 /\ repeated[t] = 0
    /\ pc[t] = "charge" => cost[t] = billed[t] /\ charged[t] = repeated[t]
    /\ pc[t] \in {"success", "status"} => charged[t] = billed[t] + repeated[t]

\* Settling a call for nothing, or for what is on its bill, keeps ChargeInv
\* once the call has moved on (router.py:120, 164, 190).
LEMMA RecordCharges ==
  ASSUME TypeOK, ChargeInv, NEW t \in Threads, NEW actual \in Nat, RecordActual(t, actual),
         NEW to \in PCs \ (Unanswered \cup {"charge"}), pc' = [pc EXCEPT ![t] = to],
         charged[t] + actual \in {repeated[t], billed[t] + repeated[t]},
         to \in {"success", "status"} => charged[t] + actual = billed[t] + repeated[t],
         UNCHANGED <<billed, cost, repeated>>
  PROVE  ChargeInv'
<1> SUFFICES ASSUME NEW s \in Threads
             PROVE  /\ charged'[s] \in {repeated'[s], billed'[s] + repeated'[s]}
                    /\ pc'[s] \in Unanswered => charged'[s] = 0 /\ repeated'[s] = 0
                    /\ pc'[s] = "charge" => cost'[s] = billed'[s] /\ charged'[s] = repeated'[s]
                    /\ pc'[s] \in {"success", "status"} => charged'[s] = billed'[s] + repeated'[s]
  BY DEF ChargeInv
<1>1. CASE s = t
  BY <1>1 DEF TypeOK, ChargeInv, RecordActual
<1>2. CASE s # t
  BY <1>2 DEF TypeOK, ChargeInv, RecordActual
<1> QED BY <1>1, <1>2

\* A settlement whose reply is lost charges what it adds to the repeated part.
LEMMA RepeatedCharges ==
  ASSUME TypeOK, ChargeInv, NEW t \in Threads, RecordReplyLost(t) PROVE ChargeInv'
<1>1. /\ pc[t] \in Settling /\ Settled(t) \in Nat
      /\ charged' = [charged EXCEPT ![t] = @ + Settled(t)]
      /\ repeated' = [repeated EXCEPT ![t] = @ + Settled(t)]
      /\ UNCHANGED <<pc, billed, cost>>
  BY DEF RecordReplyLost, RecordActual, Settled, TypeOK
<1>2. /\ charged[t] \in Nat /\ repeated[t] \in Nat /\ billed[t] \in Nat
      /\ charged'[t] = charged[t] + Settled(t) /\ repeated'[t] = repeated[t] + Settled(t)
      /\ \A s \in Threads \ {t} : charged'[s] = charged[s] /\ repeated'[s] = repeated[s]
  BY <1>1 DEF TypeOK
<1>3. pc[t] # "charge" => Settled(t) = 0
  BY DEF Settled
<1> SUFFICES ASSUME NEW s \in Threads
             PROVE  /\ charged'[s] \in {repeated'[s], billed[s] + repeated'[s]}
                    /\ pc[s] \in Unanswered => charged'[s] = 0 /\ repeated'[s] = 0
                    /\ pc[s] = "charge" => cost[s] = billed[s] /\ charged'[s] = repeated'[s]
                    /\ pc[s] \in {"success", "status"} => charged'[s] = billed[s] + repeated'[s]
  BY <1>1 DEF ChargeInv
<1>4. CASE s # t
  BY <1>2, <1>4 DEF ChargeInv
<1>5. CASE s = t /\ pc[t] = "charge"
  BY <1>2, <1>5 DEF ChargeInv, Unanswered
<1>6. CASE s = t /\ pc[t] # "charge"
  BY <1>2, <1>3, <1>6 DEF ChargeInv
<1> QED BY <1>4, <1>5, <1>6

\* A step that neither charges nor bills keeps ChargeInv, unless it enters the
\* states before the answer from elsewhere.
LEMMA QuietCharges ==
  ASSUME TypeOK, ChargeInv, NEW t \in Threads, NEW from \in PCs, NEW to \in PCs,
         Goto(t, from, to),
         \/ to \notin Unanswered \cup {"charge", "success", "status"}
         \/ from \in Unanswered /\ to \in {"allow", "refund", "call"}
         \/ from = "success" /\ to = "status",
         UNCHANGED <<billed, charged, cost, repeated>>
  PROVE  ChargeInv'
BY DEF TypeOK, ChargeInv, Goto, Unanswered

\* Every step of complete keeps ChargeInv.
LEMMA ChargeStep == TypeOK /\ ChargeInv /\ [Next]_vars => ChargeInv'
<1> SUFFICES ASSUME TypeOK, ChargeInv, [Next]_vars PROVE ChargeInv' OBVIOUS
<1> USE GatewayAssumption
<1>1. ASSUME NEW t \in Threads, Complete(t) PROVE ChargeInv'
  <2>1. CASE Request(t)
    BY <2>1 DEF TypeOK, ChargeInv, Unanswered, Request, Goto
  <2>12. CASE Reserve(t)
    BY <2>12, QuietCharges DEF Reserve, PCs, Unanswered
  <2>13. CASE Refuse(t)
    BY <2>13, QuietCharges DEF Refuse, books, PCs, Unanswered
  <2>2. CASE Allow(t)
    BY <2>2, QuietCharges DEF Allow, books, PCs, Unanswered
  <2>3. CASE Deny(t)
    BY <2>3, QuietCharges DEF Deny, books, PCs, Unanswered
  <2>4. CASE Refund(t)
    <3>1. charged[t] + 0 \in {repeated[t], billed[t] + repeated[t]} BY DEF TypeOK, ChargeInv
    <3> QED BY <2>4, <3>1, RecordCharges DEF Refund, Goto, PCs, Unanswered
  <2>5. CASE Answer(t)
    <3>1. PICK answer \in Answers \cap {"ok", "malformed"}, c \in 0..(est[t] + Overrun) :
            /\ Goto(t, "call", IF answer = "ok" THEN "charge" ELSE "failed")
            /\ billed' = [billed EXCEPT ![t] = c]
            /\ cost' = [cost EXCEPT ![t] = IF answer = "ok" THEN c ELSE 0]
      BY <2>5 DEF Answer
    <3>2. /\ c \in Nat /\ charged[t] = 0 /\ repeated[t] = 0
          /\ charged' = charged /\ repeated' = repeated
      BY <2>5, <3>1 DEF TypeOK, ChargeInv, Goto, Answer, books, Unanswered
    <3> QED BY <3>1, <3>2 DEF TypeOK, ChargeInv, Goto, Unanswered
  <2>6. CASE ProviderFails(t)
    BY <2>6, QuietCharges DEF ProviderFails, books, PCs, Unanswered
  <2>7. CASE Charge(t)
    <3>1. cost[t] \in Nat /\ charged[t] + cost[t] = billed[t] + repeated[t]
      BY <2>7 DEF TypeOK, ChargeInv, Charge, Goto
    <3> QED BY <2>7, <3>1, RecordCharges DEF Charge, Goto, PCs, Unanswered
  <2>8. CASE RecordSuccess(t)
    BY <2>8, QuietCharges DEF RecordSuccess, books, PCs, Unanswered
  <2>9. CASE Reply(t)
    BY <2>9, QuietCharges DEF Reply, books, PCs, Unanswered
  <2>10. CASE RecordFailure(t)
    BY <2>10, QuietCharges DEF RecordFailure, books, PCs, Unanswered
  <2>11. CASE Release(t)
    <3>1. charged[t] + 0 \in {repeated[t], billed[t] + repeated[t]} BY DEF TypeOK, ChargeInv
    <3> QED BY <2>11, <3>1, RecordCharges DEF Release, Goto, PCs, Unanswered
  <2> QED BY <1>1, <2>1, <2>2, <2>3, <2>4, <2>5, <2>6, <2>7, <2>8, <2>9, <2>10, <2>11, <2>12, <2>13 DEF Complete
<1>2. ASSUME NEW t \in Threads, Fault(t) PROVE ChargeInv'
  <2>1. CASE ReserveRaises(t)
    BY <2>1, QuietCharges DEF ReserveRaises, books, PCs, Unanswered
  <2>8. CASE ReserveReplyLost(t)
    BY <2>8 DEF ChargeInv, ReserveReplyLost
  <2>9. CASE RecordReplyLost(t)
    BY <2>9, RepeatedCharges
  <2>2. CASE AllowRaises(t)
    BY <2>2, QuietCharges DEF AllowRaises, PCs, Unanswered
  <2>3. CASE LastRecordRaises(t)
    BY <2>3, QuietCharges DEF LastRecordRaises, PCs, Unanswered
  <2>4. CASE ChargeRaises(t)
    BY <2>4, QuietCharges DEF ChargeRaises, books, PCs, Unanswered
  <2>5. CASE SuccessRaises(t)
    BY <2>5, QuietCharges DEF SuccessRaises, books, PCs, Unanswered
  <2>6. CASE StatusRaises(t)
    BY <2>6, QuietCharges DEF StatusRaises, books, PCs, Unanswered
  <2>7. CASE FailureRaises(t)
    BY <2>7, QuietCharges DEF FailureRaises, PCs, Unanswered
  <2> QED BY <1>2, <2>1, <2>2, <2>3, <2>4, <2>5, <2>6, <2>7, <2>8, <2>9 DEF Fault
<1>3. CASE Tick
  BY <1>3 DEF ChargeInv, Tick, books
<1>4. CASE UNCHANGED vars
  BY <1>4 DEF ChargeInv, vars, books
<1> QED BY <1>1, <1>2, <1>3, <1>4 DEF Next

\* No call charges anything but its bill, once, and what charges whose reply was
\* lost have charged, whichever operations fail and however the threads' steps mix.
THEOREM ChargeCorrect == Spec => []ChargedAsBilled
<1>1. Init => ChargeInv
  BY DEF Init, ChargeInv, Unanswered
<1>2. ChargeInv => ChargedAsBilled
  BY DEF ChargeInv, ChargedAsBilled
<1> QED BY <1>1, <1>2, ChargeStep, TypeCorrect, PTL DEF Spec

-----------------------------------------------------------------------------
\* The overruns that calls in flight may still be charged.
Overruns == Total([t \in Threads |-> Overrun], {t \in Threads : owes[t]})

\* Who still owes its reservation, by where it is in complete; what is about to
\* be charged overruns the estimate by no more than Overrun.
Clear == {"idle", "reserve", "success", "status"}

OwesInv ==
  \A t \in Threads :
    /\ pc[t] \in Clear => ~owes[t]
    /\ faults = 0 /\ pc[t] \notin Clear => owes[t]
    /\ pc[t] = "charge" => cost[t] <= est[t] + Overrun

\* The counters against the calls in flight.  What is spent and reserved leaves
\* room for the overruns to come, which the calls so far account for.
SumInv ==
  /\ reserved <= Owed + stranded
  /\ faults = 0 =>
       /\ reserved = Owed
       /\ Overruns <= calls * Overrun
       /\ spent + reserved + Overruns <= Limit + calls * Overrun

\* A call that settles and ends, or goes on to record its success, owes nothing.
LEMMA OwesSettled ==
  ASSUME TypeOK, OwesInv, NEW t \in Threads, NEW actual \in Nat, RecordActual(t, actual),
         NEW to \in {"idle", "success"}, pc' = [pc EXCEPT ![t] = to],
         UNCHANGED <<est, cost>>, faults' = 0 => faults = 0
  PROVE  OwesInv'
BY DEF TypeOK, OwesInv, Clear, RecordActual

\* A call that gives up owes nothing.
LEMMA OwesAbandoned ==
  ASSUME TypeOK, OwesInv, NEW t \in Threads, Abandon(t), pc' = [pc EXCEPT ![t] = "idle"],
         UNCHANGED <<est, cost>>, faults' = 0 => faults = 0
  PROVE  OwesInv'
BY DEF TypeOK, OwesInv, Clear, Abandon

\* A step within the states in which a call owes its reservation, or within
\* those in which it does not.
LEMMA OwesKept ==
  ASSUME TypeOK, OwesInv, NEW t \in Threads, NEW from \in PCs, NEW to \in PCs \ {"charge"},
         Goto(t, from, to),
         \/ {from, to} \subseteq Clear
         \/ {from, to} \cap Clear = {}
         \/ to \notin Clear /\ faults' # 0,
         UNCHANGED <<owes, est, cost>>, faults' = 0 => faults = 0
  PROVE  OwesInv'
BY DEF TypeOK, OwesInv, Goto

\* A raise counts.
LEMMA RaisesCounts == ASSUME TypeOK, NEW op, Raises(op) PROVE faults' # 0 /\ faults' \in Nat
BY DEF TypeOK, Raises

\* Every step of complete keeps OwesInv.
LEMMA OwesStep == TypeOK /\ OwesInv /\ [Next]_vars => OwesInv'
<1> SUFFICES ASSUME TypeOK, OwesInv, [Next]_vars PROVE OwesInv' OBVIOUS
<1> USE GatewayAssumption
<1>1. ASSUME NEW t \in Threads, Complete(t) PROVE OwesInv'
  <2>1. CASE Request(t)
    BY <2>1 DEF TypeOK, OwesInv, Clear, Request, Goto
  <2>12. CASE Reserve(t)
    BY <2>12 DEF TypeOK, OwesInv, Clear, Reserve, Goto
  <2>13. CASE Refuse(t)
    BY <2>13, OwesKept DEF Refuse, books, PCs, Clear
  <2>2. CASE Allow(t)
    BY <2>2, OwesKept DEF Allow, books, PCs, Clear
  <2>3. CASE Deny(t)
    BY <2>3, OwesKept DEF Deny, books, PCs, Clear
  <2>4. CASE Refund(t)
    BY <2>4, OwesSettled DEF Refund, Goto
  <2>5. CASE Answer(t)
    <3>1. PICK answer \in Answers \cap {"ok", "malformed"}, c \in 0..(est[t] + Overrun) :
            /\ Goto(t, "call", IF answer = "ok" THEN "charge" ELSE "failed")
            /\ cost' = [cost EXCEPT ![t] = IF answer = "ok" THEN c ELSE 0]
      BY <2>5 DEF Answer
    <3>2. c \in Nat /\ c <= est[t] + Overrun BY DEF TypeOK
    <3>3. owes' = owes /\ est' = est /\ faults' = faults BY <2>5 DEF Answer, books
    <3> QED BY <3>1, <3>2, <3>3 DEF TypeOK, OwesInv, Clear, Goto
  <2>6. CASE ProviderFails(t)
    BY <2>6, OwesKept DEF ProviderFails, books, PCs, Clear
  <2>7. CASE Charge(t)
    <3>1. cost[t] \in Nat BY DEF TypeOK
    <3> QED BY <2>7, <3>1, OwesSettled DEF Charge, Goto
  <2>8. CASE RecordSuccess(t)
    BY <2>8, OwesKept DEF RecordSuccess, books, PCs, Clear
  <2>9. CASE Reply(t)
    BY <2>9, OwesKept DEF Reply, books, PCs, Clear
  <2>10. CASE RecordFailure(t)
    BY <2>10, OwesKept DEF RecordFailure, books, PCs, Clear
  <2>11. CASE Release(t)
    BY <2>11, OwesSettled DEF Release, Goto
  <2> QED BY <1>1, <2>1, <2>2, <2>3, <2>4, <2>5, <2>6, <2>7, <2>8, <2>9, <2>10, <2>11, <2>12, <2>13 DEF Complete
<1>2. ASSUME NEW t \in Threads, Fault(t) PROVE OwesInv'
  <2>1. CASE ReserveRaises(t)
    BY <2>1, OwesKept, RaisesCounts DEF ReserveRaises, books, PCs, Clear
  <2>8. CASE ReserveReplyLost(t)
    BY <2>8, RaisesCounts DEF OwesInv, ReserveReplyLost
  <2>9. CASE RecordReplyLost(t)
    <3>1. faults' # 0 /\ UNCHANGED <<pc, est, cost>> /\ owes' = [owes EXCEPT ![t] = FALSE]
      BY <2>9, RaisesCounts DEF RecordReplyLost, RecordActual
    <3> QED BY <3>1 DEF TypeOK, OwesInv
  <2>2. CASE AllowRaises(t)
    BY <2>2, OwesAbandoned, RaisesCounts DEF AllowRaises, Goto
  <2>3. CASE LastRecordRaises(t)
    BY <2>3, OwesAbandoned, RaisesCounts DEF LastRecordRaises, Goto
  <2>4. CASE ChargeRaises(t)
    BY <2>4, OwesKept, RaisesCounts DEF ChargeRaises, books, PCs, Clear
  <2>5. CASE SuccessRaises(t)
    BY <2>5, OwesKept, RaisesCounts DEF SuccessRaises, books, PCs, Clear
  <2>6. CASE StatusRaises(t)
    BY <2>6, OwesKept, RaisesCounts DEF StatusRaises, books, PCs, Clear
  <2>7. CASE FailureRaises(t)
    BY <2>7, OwesAbandoned, RaisesCounts DEF FailureRaises, Goto
  <2> QED BY <1>2, <2>1, <2>2, <2>3, <2>4, <2>5, <2>6, <2>7, <2>8, <2>9 DEF Fault
<1>3. CASE Tick
  BY <1>3 DEF OwesInv, Tick, books
<1>4. CASE UNCHANGED vars
  BY <1>4 DEF OwesInv, vars, books
<1> QED BY <1>1, <1>2, <1>3, <1>4 DEF Next

\* When only t's reservation changes hands, what is owed changes by it, and so do
\* the overruns to come.
LEMMA OwedChange ==
  ASSUME TypeOK, TypeOK', NEW t \in Threads,
         \A s \in Threads \ {t} : owes'[s] = owes[s] /\ est'[s] = est[s]
  PROVE  /\ Owed \in Nat /\ Owed' \in Nat /\ Overruns \in Nat /\ Overruns' \in Nat
         /\ owes[t] /\ ~owes'[t] => /\ Owed' + est[t] = Owed
                                    /\ Overruns' + Overrun = Overruns
         /\ ~owes[t] /\ owes'[t] => /\ Owed' = Owed + est'[t]
                                    /\ Overruns' = Overruns + Overrun
         /\ ~owes[t] /\ ~owes'[t] => Owed' = Owed /\ Overruns' = Overruns
<1> DEFINE S == {s \in Threads : owes[s]}
           T == {s \in Threads : owes'[s]}
           each == [s \in Threads |-> Overrun]
<1>1. IsFiniteSet(S) /\ IsFiniteSet(T) BY GatewayAssumption, FS_Subset
<1>2. S \ {t} = T \ {t} /\ (t \in S <=> owes[t]) /\ (t \in T <=> owes'[t]) OBVIOUS
<1>3. /\ \A s \in S : est[s] \in Nat /\ each[s] \in Nat
      /\ \A s \in T : est'[s] \in Nat /\ each[s] \in Nat
  BY GatewayAssumption DEF TypeOK
<1>4. \A s \in S \ {t} : est[s] = est'[s] OBVIOUS
<1>5. /\ Owed = Total(est, S) /\ Owed' = Total(est', T)
      /\ Overruns = Total(each, S) /\ Overruns' = Total(each, T)
  BY DEF Owed, Overruns
<1>6. /\ owes[t] => Share(est, S, t) = est[t] /\ Share(each, S, t) = Overrun
      /\ ~owes[t] => Share(est, S, t) = 0 /\ Share(each, S, t) = 0
      /\ owes'[t] => Share(est', T, t) = est'[t] /\ Share(each, T, t) = Overrun
      /\ ~owes'[t] => Share(est', T, t) = 0 /\ Share(each, T, t) = 0
  BY <1>2 DEF Share
<1> HIDE DEF S, T, each
<1>7. /\ Total(est, S) \in Nat /\ Total(est', T) \in Nat
      /\ Total(est', T) + Share(est, S, t) = Total(est, S) + Share(est', T, t)
  BY <1>1, <1>2, <1>3, <1>4, TotalChange
<1>8. /\ Total(each, S) \in Nat /\ Total(each, T) \in Nat
      /\ Total(each, T) + Share(each, S, t) = Total(each, S) + Share(each, T, t)
  BY <1>1, <1>2, <1>3, TotalChange
<1>9. est[t] \in Nat /\ est'[t] \in Nat /\ Overrun \in Nat BY GatewayAssumption DEF TypeOK
<1> QED BY <1>5, <1>6, <1>7, <1>8, <1>9

\* Settling for at most the estimate and its overrun keeps the sums; the call
\* need not owe its reservation any more once something has raised
\* (router.py:120, 164, 190).
LEMMA SumSettled ==
  ASSUME TypeOK, TypeOK', SumInv, NEW t \in Threads, NEW actual \in Nat,
         RecordActual(t, actual), faults' = 0 => faults = 0 /\ owes[t],
         actual <= est[t] + Overrun, UNCHANGED <<est, stranded, calls>>
  PROVE  SumInv'
<1>1. /\ ~owes'[t] /\ est[t] \in Nat
      /\ \A s \in Threads \ {t} : owes'[s] = owes[s] /\ est'[s] = est[s]
  BY DEF RecordActual, TypeOK
<1>2. /\ Owed \in Nat /\ Owed' \in Nat /\ Overruns \in Nat /\ Overruns' \in Nat
      /\ owes[t] => Owed' + est[t] = Owed /\ Overruns' + Overrun = Overruns
      /\ ~owes[t] => Owed' = Owed /\ Overruns' = Overruns
  BY <1>1, OwedChange
<1>3. /\ reserved' = IF reserved > est[t] THEN reserved - est[t] ELSE 0
      /\ spent' = spent + actual
  BY DEF RecordActual
<1>4. /\ reserved \in Nat /\ spent \in Nat /\ stranded \in Nat /\ calls \in Nat
      /\ Overrun \in Nat /\ Limit \in Nat
  BY GatewayAssumption DEF TypeOK
<1>5. reserved' <= Owed' + stranded'
  <2>1. reserved <= Owed + stranded /\ stranded' = stranded BY DEF SumInv
  <2>2. Owed <= Owed' + est[t]
    <3>1. CASE owes[t]
      <4>1. Owed' + est[t] = Owed BY <1>2, <3>1
      <4> QED BY <1>1, <1>2, <4>1
    <3>2. CASE ~owes[t]
      <4>1. Owed' = Owed BY <1>2, <3>2
      <4> QED BY <1>1, <1>2, <4>1
    <3> QED BY <3>1, <3>2
  <2>3. est[t] \in Nat /\ Owed \in Nat /\ Owed' \in Nat BY <1>1, <1>2
  <2> QED BY <1>3, <1>4, <2>1, <2>2, <2>3
<1>6. ASSUME faults' = 0
      PROVE  /\ reserved' = Owed' /\ Overruns' <= calls' * Overrun
             /\ spent' + reserved' + Overruns' <= Limit + calls' * Overrun
  <2>1. /\ reserved = Owed /\ Overruns <= calls * Overrun
        /\ spent + reserved + Overruns <= Limit + calls * Overrun
    BY <1>6 DEF SumInv
  <2>2. Owed' + est[t] = Owed /\ Overruns' + Overrun = Overruns
    <3>1. owes[t] BY <1>6
    <3> QED BY <1>2, <3>1
  <2>3. /\ est[t] \in Nat /\ Owed \in Nat /\ Owed' \in Nat
        /\ Overruns \in Nat /\ Overruns' \in Nat
    BY <1>1, <1>2
  <2>4. PICK room \in Nat :
          /\ calls' * Overrun = room
          /\ Overruns <= room /\ spent + reserved + Overruns <= Limit + room
    <3>1. calls * Overrun \in Nat /\ calls' = calls BY <1>4
    <3> QED BY <2>1, <3>1
  <2>5. reserved' = Owed' /\ reserved = reserved' + est[t] BY <1>3, <1>4, <2>1, <2>2, <2>3
  <2>6. spent' + reserved' <= spent + reserved + Overrun BY <1>3, <1>4, <2>3, <2>5
  <2>7. spent' \in Nat /\ reserved' \in Nat BY DEF TypeOK
  <2>8. Overruns' <= room /\ spent' + reserved' + Overruns' <= Limit + room
    <3>1. PICK paid, held, rest \in Nat : paid = spent' /\ held = reserved' /\ rest = Overruns'
      BY <2>3, <2>7, Zenon
    <3>2. rest + Overrun = Overruns /\ paid + held <= spent + reserved + Overrun
      BY <2>2, <2>6, <3>1, Zenon
    <3>3. Overruns \in Nat BY <2>3
    <3>4. rest <= room /\ paid + held + rest <= Limit + room BY <1>4, <2>4, <3>2, <3>3
    <3> QED BY <3>1, <3>4, Zenon
  <2> QED BY <2>4, <2>5, <2>8
<1> QED BY <1>5, <1>6 DEF SumInv

\* So does giving up, once something has raised.
LEMMA SumAbandoned ==
  ASSUME TypeOK, TypeOK', SumInv, NEW t \in Threads, Abandon(t), faults' # 0,
         UNCHANGED <<reserved, est>>
  PROVE  SumInv'
<1>1. /\ ~owes'[t] /\ est[t] \in Nat
      /\ \A s \in Threads \ {t} : owes'[s] = owes[s] /\ est'[s] = est[s]
  BY DEF Abandon, TypeOK
<1>2. /\ Owed \in Nat /\ Owed' \in Nat
      /\ owes[t] => Owed' + est[t] = Owed
      /\ ~owes[t] => Owed' = Owed
  BY <1>1, OwedChange
<1>3. /\ owes[t] => stranded' = stranded + est[t]
      /\ ~owes[t] => stranded' = stranded + 0
  BY DEF Abandon
<1>4. Owed' + stranded' = Owed + stranded
  <2>1. stranded \in Nat BY DEF TypeOK
  <2>2. CASE owes[t]
    <3>1. Owed' + est[t] = Owed /\ stranded' = stranded + est[t] BY <1>2, <1>3, <2>2
    <3> QED BY <1>1, <1>2, <2>1, <3>1
  <2>3. CASE ~owes[t]
    <3>1. Owed' = Owed /\ stranded' = stranded + 0 BY <1>2, <1>3, <2>3
    <3> QED BY <2>1, <3>1
  <2> QED BY <2>2, <2>3
<1> QED BY <1>4 DEF SumInv

\* So does a step that leaves the books alone.
LEMMA SumKept ==
  ASSUME SumInv, faults' = 0 => faults = 0, UNCHANGED <<books, est, stranded, calls>>
  PROVE  SumInv'
<1>1. Owed' = Owed /\ Overruns' = Overruns BY DEF Owed, Overruns, books
<1> QED BY <1>1 DEF SumInv, books

\* So does a reservation that fits (budget.py:92).
LEMMA SumReserved ==
  ASSUME TypeOK, TypeOK', OwesInv, SumInv, NEW t \in Threads, Reserve(t)
  PROVE  SumInv'
<1> DEFINE e == est[t]
<1>0. /\ e \in Nat /\ calls' = calls + 1 /\ stranded' = stranded /\ faults' = faults
  BY DEF Reserve, TypeOK
<1>1. /\ ~owes[t] /\ owes'[t] /\ est'[t] = e
      /\ \A s \in Threads \ {t} : owes'[s] = owes[s] /\ est'[s] = est[s]
  BY DEF Reserve, TypeOK, OwesInv, Clear, Goto
<1>2. /\ Owed \in Nat /\ Owed' \in Nat /\ Overruns \in Nat /\ Overruns' \in Nat
      /\ Owed' = Owed + e /\ Overruns' = Overruns + Overrun
  BY <1>0, <1>1, OwedChange, GatewayAssumption
<1>3. reserved' = reserved + e /\ spent' = spent /\ Fits(e) BY DEF Reserve
<1> HIDE DEF e
<1>4. /\ reserved \in Nat /\ spent \in Nat /\ stranded \in Nat /\ calls \in Nat
      /\ Overrun \in Nat /\ Limit \in Nat
  BY GatewayAssumption DEF TypeOK
<1>5. calls' * Overrun = calls * Overrun + Overrun /\ calls * Overrun \in Nat
  BY <1>0, <1>4
<1>6. ASSUME faults' = 0
      PROVE  spent' + reserved' + Overruns' <= Limit + calls' * Overrun
  <2>1. /\ Overruns <= calls * Overrun
        /\ spent + reserved + Overruns <= Limit + calls * Overrun
    BY <1>0, <1>6 DEF SumInv
  <2>2. CASE e = 0 BY <1>0, <1>2, <1>3, <1>4, <1>5, <2>1, <2>2
  <2>3. CASE spent + reserved + e <= Limit BY <1>0, <1>2, <1>3, <1>4, <1>5, <2>1, <2>3
  <2> QED BY <1>3, <2>2, <2>3 DEF Fits
<1>7. reserved' <= Owed' + stranded' BY <1>0, <1>2, <1>3, <1>4 DEF SumInv
<1>8. faults' = 0 => reserved' = Owed' /\ Overruns' <= calls' * Overrun
  BY <1>0, <1>2, <1>3, <1>4, <1>5 DEF SumInv
<1> QED BY <1>6, <1>7, <1>8 DEF SumInv

\* So does a call that begins: it owes nothing yet.
LEMMA SumRequested ==
  ASSUME TypeOK, TypeOK', OwesInv, SumInv, NEW t \in Threads, Request(t)
  PROVE  SumInv'
<1>1. /\ ~owes[t] /\ ~owes'[t]
      /\ \A s \in Threads \ {t} : owes'[s] = owes[s] /\ est'[s] = est[s]
      /\ UNCHANGED <<reserved, spent, stranded, calls, faults>>
  BY DEF Request, TypeOK, OwesInv, Clear, Goto
<1>2. Owed' = Owed /\ Overruns' = Overruns
  BY <1>1, OwedChange
<1> QED BY <1>1, <1>2 DEF SumInv

\* Every step of complete keeps SumInv.
LEMMA SumStep == TypeOK /\ TypeOK' /\ OwesInv /\ SumInv /\ [Next]_vars => SumInv'
<1> SUFFICES ASSUME TypeOK, TypeOK', OwesInv, SumInv, [Next]_vars PROVE SumInv' OBVIOUS
<1> USE GatewayAssumption
<1>1. ASSUME NEW t \in Threads, Complete(t) PROVE SumInv'
  <2>1. CASE Request(t)
    BY <2>1, SumRequested
  <2>6. CASE Reserve(t)
    BY <2>6, SumReserved
  <2>2. CASE Refuse(t) \/ Allow(t) \/ Deny(t) \/ Answer(t) \/ ProviderFails(t)
    BY <2>2, SumKept DEF Refuse, Allow, Deny, Answer, ProviderFails
  <2>3. CASE RecordSuccess(t) \/ Reply(t) \/ RecordFailure(t)
    BY <2>3, SumKept DEF RecordSuccess, Reply, RecordFailure
  <2>4. CASE Refund(t) \/ Release(t)
    <3>1. /\ RecordActual(t, 0) /\ pc[t] \in {"refund", "release"}
          /\ UNCHANGED <<est, stranded, calls, faults>>
      BY <2>4 DEF Refund, Release, Goto
    <3>2. 0 <= est[t] + Overrun /\ (faults = 0 => owes[t]) BY <3>1 DEF TypeOK, OwesInv, Clear
    <3> QED BY <3>1, <3>2, SumSettled
  <2>5. CASE Charge(t)
    <3>1. /\ RecordActual(t, cost[t]) /\ pc[t] = "charge"
          /\ UNCHANGED <<est, stranded, calls, faults>>
      BY <2>5 DEF Charge, Goto
    <3>2. cost[t] \in Nat /\ cost[t] <= est[t] + Overrun /\ (faults = 0 => owes[t])
      BY <3>1 DEF TypeOK, OwesInv, Clear
    <3> QED BY <3>1, <3>2, SumSettled
  <2> QED BY <1>1, <2>1, <2>2, <2>3, <2>4, <2>5, <2>6 DEF Complete
<1>2. ASSUME NEW t \in Threads, Fault(t) PROVE SumInv'
  <2>1. CASE ReserveReplyLost(t)
    <3>1. est[t] \in Nat /\ faults' # 0 /\ UNCHANGED <<owes, est>>
          /\ reserved' = reserved + est[t] /\ stranded' = stranded + est[t]
      BY <2>1, RaisesCounts DEF ReserveReplyLost, TypeOK
    <3>2. Owed' = Owed /\ Owed \in Nat
      BY <3>1, OwedChange DEF Owed
    <3> QED BY <3>1, <3>2 DEF SumInv, TypeOK
  <2>2. CASE AllowRaises(t)
    BY <2>2, SumAbandoned, RaisesCounts DEF AllowRaises
  <2>3. CASE LastRecordRaises(t)
    BY <2>3, SumAbandoned, RaisesCounts DEF LastRecordRaises
  <2>4. CASE RecordReplyLost(t)
    <3>1. /\ faults' # 0 /\ UNCHANGED <<est, stranded, calls>> /\ RecordActual(t, Settled(t))
      BY <2>4, RaisesCounts DEF RecordReplyLost
    <3>2. Settled(t) \in Nat /\ Settled(t) <= est[t] + Overrun
      BY DEF Settled, TypeOK, OwesInv
    <3> QED BY <3>1, <3>2, SumSettled
  <2>5. CASE ReserveRaises(t) \/ ChargeRaises(t) \/ SuccessRaises(t) \/ StatusRaises(t)
    BY <2>5, SumKept, RaisesCounts DEF ReserveRaises, ChargeRaises, SuccessRaises, StatusRaises
  <2>6. CASE FailureRaises(t)
    BY <2>6, SumAbandoned, RaisesCounts DEF FailureRaises
  <2> QED BY <1>2, <2>1, <2>2, <2>3, <2>4, <2>5, <2>6 DEF Fault
<1>3. CASE Tick
  BY <1>3, SumKept DEF Tick
<1>4. CASE UNCHANGED vars
  BY <1>4, SumKept DEF vars
<1> QED BY <1>1, <1>2, <1>3, <1>4 DEF Next

\* The invariant behind the next three theorems.
LEMMA BooksInvariant == Spec => [](TypeOK /\ OwesInv /\ SumInv)
<1>1. Init => OwesInv /\ SumInv
  <2> SUFFICES ASSUME Init PROVE OwesInv /\ SumInv OBVIOUS
  <2>1. OwesInv BY DEF Init, OwesInv, Clear
  <2>2. {t \in Threads : owes[t]} = {} BY DEF Init
  <2>3. Owed = 0 /\ Overruns = 0 BY <2>2, TotalEmpty DEF Owed, Overruns
  <2>4. 0 <= 0 * Overrun /\ 0 * Overrun = 0 /\ Limit \in Nat BY GatewayAssumption
  <2> QED BY <2>1, <2>3, <2>4 DEF Init, SumInv
<1> QED BY <1>1, OwesStep, SumStep, TypeCorrect, PTL DEF Spec

\* However calls end, the reserved counter is what the calls in flight have
\* reserved, as long as Redis answers.
THEOREM BooksCorrect == Spec => []BooksBalance
<1>1. SumInv => BooksBalance BY DEF SumInv, BooksBalance
<1> QED BY <1>1, BooksInvariant, PTL

\* Whatever raises, the counter holds no more than calls in flight have reserved
\* and what nobody is left to release.
THEOREM ReservationsCorrect == Spec => []NoExtraReservation
<1>1. SumInv => NoExtraReservation BY DEF SumInv, NoExtraReservation
<1> QED BY <1>1, BooksInvariant, PTL

\* As long as Redis answers, the user's limit is passed by no more than calls
\* overrun their estimates, for any number of threads and calls.
THEOREM SpendCorrect == Spec => []SpendWithinLimit
<1>1. TypeOK /\ SumInv => SpendWithinLimit
  <2> SUFFICES ASSUME TypeOK, SumInv, faults = 0
               PROVE  spent + reserved <= Limit + calls * Overrun
    BY DEF SpendWithinLimit
  <2>1. Overruns \in Nat
    <3>1. IsFiniteSet({t \in Threads : owes[t]}) BY GatewayAssumption, FS_Subset
    <3> QED BY <3>1, GatewayAssumption, TotalType DEF Overruns
  <2>2. calls * Overrun \in Nat /\ Limit \in Nat BY GatewayAssumption DEF TypeOK
  <2> QED BY <2>1, <2>2 DEF SumInv, TypeOK
<1> QED BY <1>1, BooksInvariant, PTL
=============================================================================
