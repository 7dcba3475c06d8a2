--------------------------- MODULE FailoverProofs ----------------------------
(***************************************************************************)
(* Theorems about Failover, for any number of threads and providers: types, *)
(* and that a provider of which no call has failed, or was counted as       *)
(* failed, keeps its breaker closed and is passed over by no request.       *)
(***************************************************************************)
EXTENDS Failover, TLAPS

\* What the proof needs of the types.
Shape ==
  /\ DOMAIN breaker = Providers /\ breaker = [p \in Providers |-> breaker[p]]
  /\ pc \in [Threads -> PCs] /\ at \in [Threads -> DOMAIN Order]

\* A failure is only recorded against a provider of which a call has failed, or
\* the recording of a success has.
InnocentInv ==
  /\ \A p \in Providers \ failed : breaker[p].state = "closed"
  /\ \A t \in Threads : pc[t] = "broken" => Here(t) \in failed

\* The loop of call stays within the list of providers (resilience.py:93).
LEMMA MovesOn ==
  ASSUME Shape, NEW t \in Threads, NEW from \in PCs, TryNext(t, from)
  PROVE  /\ pc' \in [Threads -> PCs] /\ at' \in [Threads -> DOMAIN Order]
         /\ \A s \in Threads : pc'[s] = "broken" => pc[s] = "broken" /\ at'[s] = at[s]
<1>1. DOMAIN Order = 1..Len(Order) /\ Len(Order) \in Nat
  BY OrderAssumption
<1>2. CASE at[t] < Len(Order)
  <2>1. at[t] \in 1..Len(Order)
    BY <1>1 DEF Shape
  <2>2. at[t] + 1 \in DOMAIN Order
    BY <1>1, <1>2, <2>1
  <2>3. pc' = [pc EXCEPT ![t] = "asking"] /\ at' = [at EXCEPT ![t] = at[t] + 1]
    BY <1>2 DEF TryNext, Goto
  <2>4. pc' \in [Threads -> PCs] /\ at' \in [Threads -> DOMAIN Order]
    BY <2>2, <2>3 DEF Shape, PCs
  <2>5. ASSUME NEW s \in Threads, pc'[s] = "broken"
        PROVE  pc[s] = "broken" /\ at'[s] = at[s]
    <3>1. s # t
      BY <2>3, <2>5 DEF Shape
    <3> QED BY <2>3, <2>5, <3>1 DEF Shape
  <2> QED BY <2>4, <2>5
<1>3. CASE ~(at[t] < Len(Order))
  BY <1>3 DEF Shape, TryNext, Goto, PCs
<1> QED BY <1>2, <1>3

\* A request that is over starts at the primary again (resilience.py:93).
LEMMA Returns ==
  ASSUME Shape, NEW t \in Threads, NEW from \in PCs, Return(t, from)
  PROVE  /\ pc' \in [Threads -> PCs] /\ at' \in [Threads -> DOMAIN Order]
         /\ \A s \in Threads : pc'[s] = "broken" => pc[s] = "broken" /\ at'[s] = at[s]
<1>1. 1 \in DOMAIN Order
  BY OrderAssumption
<1> QED BY <1>1 DEF Shape, Return, Goto, PCs

\* Every step keeps the shape and the innocent providers closed.
LEMMA InnocentStep == Shape /\ InnocentInv /\ [Next]_vars => Shape' /\ InnocentInv'
<1> SUFFICES ASSUME Shape, InnocentInv, [Next]_vars PROVE Shape' /\ InnocentInv' OBVIOUS
<1>0. \A t \in Threads : Here(t) \in Providers
  BY DEF Shape, Here, Providers
<1>1. ASSUME NEW t \in Threads, Call(t) PROVE Shape' /\ InnocentInv'
  <2>1. CASE Start(t)
    BY <2>1 DEF Shape, InnocentInv, Start, Goto, PCs, Here
  <2>2. CASE Allow(t)
    BY <1>0, <2>2 DEF Shape, InnocentInv, Allow, Goto, PCs, Here, Admitted, Unguarded
  <2>3. CASE Skip(t)
    BY <2>3, MovesOn DEF Shape, InnocentInv, Skip, PCs, Here
  <2>4. CASE Answer(t)
    BY <2>4 DEF Shape, InnocentInv, Answer, Goto, PCs, Here
  <2>5. CASE RecordSuccess(t)
    BY <1>0, <2>5, Returns DEF Shape, InnocentInv, RecordSuccess, PCs, Here, Succeeded, Fresh
  <2>6. CASE RecordFailure(t)
    <3>1. Here(t) \in failed BY <2>6 DEF InnocentInv, RecordFailure, TryNext, Goto
    <3> QED BY <1>0, <2>6, <3>1, MovesOn DEF Shape, InnocentInv, RecordFailure, PCs, Here
  <2>7. CASE Reject(t)
    BY <2>7, Returns DEF Shape, InnocentInv, Reject, PCs, Here
  <2> QED BY <1>1, <2>1, <2>2, <2>3, <2>4, <2>5, <2>6, <2>7 DEF Call
<1>2. ASSUME NEW t \in Threads, Fault(t) PROVE Shape' /\ InnocentInv'
  <2>1. CASE AllowRaises(t)
    <3>1. PICK b \in PartlyAdmitted(breaker[Here(t)]) : breaker' = [breaker EXCEPT ![Here(t)] = b]
      BY <2>1 DEF AllowRaises, Leaves
    <3>2. breaker[Here(t)].state = "closed" => b = breaker[Here(t)]
      BY DEF PartlyAdmitted, Unguarded
    <3>3. Shape'
      BY <1>0, <2>1, <3>1, Returns DEF Shape, AllowRaises, PCs
    <3>4. InnocentInv'
      BY <1>0, <2>1, <3>1, <3>2, Returns DEF Shape, InnocentInv, AllowRaises, PCs, Here
    <3> QED BY <3>3, <3>4
  <2>2. CASE SuccessRaises(t)
    <3>1. PICK b \in PartlySucceeded(breaker[Here(t)]) : breaker' = [breaker EXCEPT ![Here(t)] = b]
      BY <2>2 DEF SuccessRaises, Leaves
    <3> QED BY <1>0, <2>2, <3>1 DEF Shape, InnocentInv, SuccessRaises, Goto, PCs, Here
  <2>3. CASE FailureRaises(t)
    <3>1. PICK b \in PartlyFailed(breaker[Here(t)]) : breaker' = [breaker EXCEPT ![Here(t)] = b]
      BY <2>3 DEF FailureRaises, Leaves
    <3>2. Here(t) \in failed BY <2>3 DEF InnocentInv, FailureRaises, Return, Goto
    <3>3. Shape' BY <1>0, <2>3, <3>1, Returns DEF Shape, FailureRaises, PCs
    <3>4. InnocentInv'
      BY <1>0, <2>3, <3>1, <3>2, Returns DEF Shape, InnocentInv, FailureRaises, PCs, Here
    <3> QED BY <3>3, <3>4
  <2> QED BY <1>2, <2>1, <2>2, <2>3 DEF Fault
<1>3. CASE ProviderChanges
  BY <1>3 DEF Shape, InnocentInv, ProviderChanges, Here
<1>4. CASE Tick
  <2>1. \A p \in Providers : breaker'[p].state = breaker[p].state
    BY <1>4 DEF Tick, Later
  <2> QED BY <1>4, <2>1 DEF Shape, InnocentInv, Tick, Here
<1>5. CASE UNCHANGED vars
  BY <1>5 DEF Shape, InnocentInv, vars, Here
<1> QED BY <1>1, <1>2, <1>3, <1>4, <1>5 DEF Next

\* The providers a request has gone past, all of them when it is rejected, have
\* failed.
Passed(t) == /\ \A i \in 1..(at[t] - 1) : Order[i] \in failed
             /\ pc[t] = "rejected" => Providers \subseteq failed
PassedInv == \A t \in Threads : Passed(t)

\* A request may leave a provider that has failed for the next (resilience.py:98,
\* 116).
LEMMA PassedOn ==
  ASSUME Shape, PassedInv, NEW t \in Threads, NEW from \in PCs, TryNext(t, from),
         Here(t) \in failed, failed \subseteq failed'
  PROVE  PassedInv'
<1>1. DOMAIN Order = 1..Len(Order) /\ Len(Order) \in Nat BY OrderAssumption
<1>2. at[t] \in 1..Len(Order) BY <1>1 DEF Shape
<1>3. \A i \in 1..at[t] : Order[i] \in failed'
  <2>1. ASSUME NEW i \in 1..at[t] PROVE Order[i] \in failed
    <3>1. i = at[t] \/ i \in 1..(at[t] - 1) BY <1>2
    <3> QED BY <3>1 DEF PassedInv, Passed, Here
  <2> QED BY <2>1
<1>4. ASSUME NEW s \in Threads, s # t PROVE Passed(s)'
  <2>1. pc'[s] = pc[s] /\ at'[s] = at[s] BY <1>4 DEF Shape, TryNext, Goto
  <2> QED BY <2>1 DEF PassedInv, Passed
<1>5. Passed(t)'
  <2>1. CASE at[t] < Len(Order)
    <3>1. pc'[t] = "asking" /\ at'[t] = at[t] + 1 BY <2>1 DEF Shape, TryNext, Goto
    <3>2. at'[t] - 1 = at[t] BY <1>2, <3>1
    <3> QED BY <1>3, <3>1, <3>2 DEF Passed
  <2>2. CASE ~(at[t] < Len(Order))
    <3>1. at'[t] = at[t] /\ at[t] = Len(Order) BY <1>2, <2>2 DEF TryNext
    <3>2. \A i \in DOMAIN Order : Order[i] \in failed' BY <1>1, <1>3, <3>1
    <3>3. Providers \subseteq failed' BY <3>2 DEF Providers
    <3>4. \A i \in 1..(at'[t] - 1) : Order[i] \in failed' BY <1>1, <3>1, <3>2
    <3> QED BY <3>3, <3>4 DEF Passed
  <2> QED BY <2>1, <2>2
<1> QED BY <1>4, <1>5 DEF PassedInv

\* A request that is over has gone past nobody.
LEMMA PassedBack ==
  ASSUME Shape, PassedInv, NEW t \in Threads, NEW from \in PCs, Return(t, from),
         failed \subseteq failed'
  PROVE  PassedInv'
<1>1. ASSUME NEW s \in Threads, s # t PROVE Passed(s)'
  <2>1. pc'[s] = pc[s] /\ at'[s] = at[s] BY <1>1 DEF Shape, Return, Goto
  <2> QED BY <2>1 DEF PassedInv, Passed
<1>2. pc'[t] = "idle" /\ at'[t] = 1 BY DEF Shape, Return, Goto
<1>3. Passed(t)' BY <1>2 DEF Passed
<1> QED BY <1>1, <1>3 DEF PassedInv

\* Nor does a step that leaves a request at its provider take it past one.
LEMMA PassedStill ==
  ASSUME PassedInv, UNCHANGED at, failed \subseteq failed',
         \A s \in Threads : pc'[s] = "rejected" => pc[s] = "rejected"
  PROVE  PassedInv'
BY DEF PassedInv, Passed

LEMMA PassedStep == Shape /\ InnocentInv /\ PassedInv /\ [Next]_vars => PassedInv'
<1> SUFFICES ASSUME Shape, InnocentInv, PassedInv, [Next]_vars PROVE PassedInv' OBVIOUS
<1>1. ASSUME NEW t \in Threads, Call(t) PROVE PassedInv'
  <2>0. Here(t) \in Providers BY DEF Shape, Here, Providers
  <2>1. CASE Skip(t)
    <3>1. breaker[Here(t)].state # "closed" BY <2>1 DEF Skip, CanAdmit, Unguarded
    <3>2. Here(t) \in failed BY <2>0, <3>1 DEF InnocentInv
    <3> QED BY <2>1, <3>2, PassedOn DEF Skip, PCs
  <2>2. CASE RecordFailure(t)
    <3>1. Here(t) \in failed BY <2>2 DEF InnocentInv, RecordFailure, TryNext, Goto
    <3> QED BY <2>2, <3>1, PassedOn DEF RecordFailure, PCs
  <2>3. CASE RecordSuccess(t) \/ Reject(t)
    BY <2>3, PassedBack DEF RecordSuccess, Reject, PCs
  <2>4. CASE Start(t) \/ Allow(t) \/ Answer(t)
    BY <2>4, PassedStill DEF Shape, Start, Allow, Answer, Goto
  <2> QED BY <1>1, <2>1, <2>2, <2>3, <2>4 DEF Call
<1>2. ASSUME NEW t \in Threads, Fault(t) PROVE PassedInv'
  <2>1. CASE AllowRaises(t) \/ FailureRaises(t)
    BY <2>1, PassedBack DEF AllowRaises, FailureRaises, PCs
  <2>2. CASE SuccessRaises(t)
    BY <2>2, PassedStill DEF Shape, SuccessRaises, Goto
  <2> QED BY <1>2, <2>1, <2>2 DEF Fault
<1>3. CASE ProviderChanges \/ Tick \/ UNCHANGED vars
  BY <1>3, PassedStill DEF ProviderChanges, Tick, vars
<1> QED BY <1>1, <1>2, <1>3 DEF Next

\* No provider is shut out, and none passed over, for what other providers do
\* (resilience.py:93-98, 106, 113-118).
THEOREM InnocentCorrect == Spec => []NoInnocentPassedOver
<1>1. Init => Shape /\ InnocentInv /\ PassedInv
  <2>1. 1 \in DOMAIN Order BY OrderAssumption
  <2> QED BY <2>1 DEF Init, Shape, InnocentInv, PassedInv, Passed, PCs, Fresh
<1>2. InnocentInv /\ PassedInv => NoInnocentPassedOver
  BY DEF InnocentInv, PassedInv, Passed, NoInnocentPassedOver
<1>3. Shape /\ InnocentInv /\ [Next]_vars => Shape' /\ InnocentInv'
  BY InnocentStep
<1> QED BY <1>1, <1>2, <1>3, PassedStep, PTL DEF Spec

-----------------------------------------------------------------------------
(* Types *)

\* What each operation of a breaker leaves is a breaker (breaker.py:167-211), also
\* where it raises half way.
LEMMA MachineTypes ==
  ASSUME NEW b \in Breakers
  PROVE  /\ Fresh \in Breakers /\ Admitted(b) \in Breakers /\ Succeeded(b) \in Breakers
         /\ Failed(b) \in Breakers /\ Later(b) \in Breakers
         /\ PartlyAdmitted(b) \subseteq Breakers /\ PartlySucceeded(b) \subseteq Breakers
         /\ PartlyFailed(b) \subseteq Breakers
<1> USE MachineAssumption
<1>0. /\ b = [state |-> b.state, failures |-> b.failures, age |-> b.age, slot |-> b.slot]
      /\ b.state \in {"closed", "open", "half_open"} /\ b.failures \in 0..Threshold
      /\ b.age \in -1..Recovery /\ b.slot \in 0..SlotTtl
  BY DEF Breakers
<1>1. Fresh \in Breakers
  BY DEF Fresh, Breakers
<1>2. Admitted(b) \in Breakers
  <2>1. CASE Unguarded(b) BY <2>1 DEF Admitted
  <2>2. CASE ~Unguarded(b)
    <3>1. Admitted(b) = [state |-> "half_open", failures |-> b.failures, age |-> b.age, slot |-> SlotTtl]
      BY <1>0, <2>2 DEF Admitted
    <3> QED BY <1>0, <3>1 DEF Breakers
  <2> QED BY <2>1, <2>2
<1>3. Succeeded(b) \in Breakers
  <2>1. Succeeded(b) = [state |-> "closed", failures |-> 0, age |-> b.age, slot |-> 0]
    BY <1>0 DEF Succeeded, Fresh
  <2> QED BY <1>0, <2>1 DEF Breakers
<1>4. Failed(b) \in Breakers
  <2>1. CASE Trips(b)
    <3>1. Failed(b) = [state |-> "open", failures |-> Threshold, age |-> 0, slot |-> b.slot]
      BY <1>0, <2>1 DEF Failed
    <3> QED BY <1>0, <3>1 DEF Breakers
  <2>2. CASE ~Trips(b)
    <3>1. Failed(b) = [state |-> b.state, failures |-> b.failures + 1, age |-> b.age, slot |-> b.slot]
      BY <1>0, <2>2 DEF Failed
    <3>2. b.failures + 1 \in 0..Threshold BY <1>0, <2>2 DEF Trips
    <3> QED BY <1>0, <3>1, <3>2 DEF Breakers
  <2> QED BY <2>1, <2>2
<1>5. Later(b) \in Breakers
  <2> DEFINE l == IF b.slot = 0 THEN 0 ELSE b.slot - 1
  <2>1. Later(b) = [state |-> b.state, failures |-> b.failures, age |-> Older(b.age), slot |-> l]
    BY DEF Later
  <2>2. Older(b.age) \in -1..Recovery /\ l \in 0..SlotTtl BY <1>0 DEF Older
  <2> QED BY <1>0, <2>1, <2>2 DEF Breakers
<1>6. PartlyAdmitted(b) \subseteq Breakers
  BY <1>2 DEF PartlyAdmitted, Breakers
<1>7. PartlySucceeded(b) \subseteq Breakers
  <2>1. [b EXCEPT !.failures = 0]
          = [state |-> b.state, failures |-> 0, age |-> b.age, slot |-> b.slot]
    BY <1>0
  <2>2. [Succeeded(b) EXCEPT !.slot = b.slot]
          = [state |-> "closed", failures |-> 0, age |-> b.age, slot |-> b.slot]
    <3>1. Succeeded(b) = [state |-> "closed", failures |-> 0, age |-> b.age, slot |-> 0]
      BY DEF Succeeded, Fresh
    <3> QED BY <3>1
  <2>3. [b EXCEPT !.failures = 0] \in Breakers BY <1>0, <2>1 DEF Breakers
  <2>4. [Succeeded(b) EXCEPT !.slot = b.slot] \in Breakers BY <1>0, <2>2 DEF Breakers
  <2> QED BY <1>3, <2>3, <2>4 DEF PartlySucceeded
<1>8. PartlyFailed(b) \subseteq Breakers
  BY <1>4 DEF PartlyFailed, Breakers
<1> QED BY <1>1, <1>2, <1>3, <1>4, <1>5, <1>6, <1>7, <1>8

\* A step writes at most one provider's breaker, and a breaker.
LEMMA BreakerStep ==
  ASSUME TypeOK, NEW t \in Threads, Call(t) \/ Fault(t)
  PROVE  breaker' \in [Providers -> Breakers]
<1>1. Here(t) \in Providers BY DEF TypeOK, Here, Providers
<1>2. breaker[Here(t)] \in Breakers BY <1>1 DEF TypeOK
<1>3. \/ breaker' = breaker
      \/ \E b \in Breakers : breaker' = [breaker EXCEPT ![Here(t)] = b]
  <2>1. CASE Call(t)
    BY <1>2, <2>1, MachineTypes DEF Call, Start, Allow, Skip, Answer, RecordSuccess,
       RecordFailure, Reject
  <2>2. CASE Fault(t)
    BY <1>2, <2>2, MachineTypes DEF Fault, AllowRaises, SuccessRaises, FailureRaises, Leaves
  <2> QED BY <2>1, <2>2
<1> QED BY <1>1, <1>3 DEF TypeOK

LEMMA TypeStep == TypeOK /\ Shape /\ Shape' /\ [Next]_vars => TypeOK'
<1> SUFFICES ASSUME TypeOK, Shape, Shape', [Next]_vars PROVE TypeOK' OBVIOUS
<1>0. pc' \in [Threads -> PCs] /\ at' \in [Threads -> DOMAIN Order] BY DEF Shape
<1>1. ASSUME NEW t \in Threads, Call(t) \/ Fault(t) PROVE TypeOK'
  <2>1. Here(t) \in Providers BY DEF TypeOK, Here, Providers
  <2>2. up' = up /\ failed' \subseteq Providers /\ faults' \in Nat
    BY <1>1, <2>1 DEF TypeOK, Call, Fault, Start, Allow, Skip, Answer, RecordSuccess,
       RecordFailure, Reject, AllowRaises, SuccessRaises, FailureRaises, Raises
  <2> QED BY <1>0, <1>1, <2>2, BreakerStep DEF TypeOK
<1>2. CASE ProviderChanges
  BY <1>0, <1>2, FailoverAssumption DEF TypeOK, ProviderChanges
<1>3. CASE Tick
  BY <1>0, <1>3, MachineTypes DEF TypeOK, Tick
<1>4. CASE UNCHANGED vars
  BY <1>4 DEF TypeOK, vars
<1> QED BY <1>1, <1>2, <1>3, <1>4 DEF Next

\* Every reachable state is well typed: a request never looks past the last
\* provider (resilience.py:93), also when Redis raises half way.
THEOREM TypeCorrect == Spec => []TypeOK
<1>1. Init => TypeOK /\ Shape /\ InnocentInv
  <2>1. 1 \in DOMAIN Order BY OrderAssumption
  <2>2. Fresh \in Breakers BY MachineAssumption DEF Fresh, Breakers
  <2> QED BY <2>1, <2>2 DEF Init, TypeOK, Shape, InnocentInv, PCs, Fresh
<1> QED BY <1>1, TypeStep, InnocentStep, PTL DEF Spec
=============================================================================
