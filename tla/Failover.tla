------------------------------ MODULE Failover -------------------------------
(***************************************************************************)
(* M4, FailoverRouter.call (resilience.py): the threads of one worker offer *)
(* a request to the providers in order, each behind a breaker of its own,   *)
(* while providers go down and come back.  A breaker's operations take      *)
(* effect at one instant (BreakerMachine); when Redis cannot be reached     *)
(* they raise, having written all, part or nothing.                         *)
(***************************************************************************)
EXTENDS BreakerMachine, Sequences

CONSTANTS
  Threads,
  Order,      \* the providers, the primary first
  Unreliable, \* the providers that may be down
  Faulty,     \* which of allow, success and failure may raise
  MaxFaults   \* bound on how often they do

Providers == {Order[i] : i \in DOMAIN Order}

ASSUME OrderAssumption ==
  /\ Order \in Seq(Providers) /\ Order # <<>>
  /\ \A i, j \in DOMAIN Order : Order[i] = Order[j] => i = j
ASSUME FailoverAssumption ==
  /\ Unreliable \subseteq Providers
  /\ Faulty \subseteq {"allow", "success", "failure"} /\ MaxFaults \in Nat
ASSUME MachineAssumption == Threshold \in Nat \ {0} /\ Recovery \in Nat /\ SlotTtl \in Nat

VARIABLES
  breaker,  \* Redis, per provider
  up,       \* per provider: whether it answers
  pc,       \* where each thread is
  at,       \* the position in Order of the provider it is trying
  failed,   \* history: providers of which a call has failed or was counted as failed
  faults    \* history: what the bound counts

vars == <<breaker, up, pc, at, failed, faults>>

PCs == {"idle", "asking", "calling", "answered", "broken", "rejected"}

Init ==
  /\ breaker = [p \in Providers |-> Fresh]
  /\ up = [p \in Providers |-> TRUE]
  /\ pc = [t \in Threads |-> "idle"]
  /\ at = [t \in Threads |-> 1]
  /\ failed = {} /\ faults = 0

Here(t) == Order[at[t]]
Goto(t, from, to) == pc[t] = from /\ pc' = [pc EXCEPT ![t] = to]

\* Mutant: one step past the last provider.
TryPast(t, from) ==
  IF at[t] <= Len(Order)
  THEN Goto(t, from, "asking") /\ at' = [at EXCEPT ![t] = @ + 1]
  ELSE Goto(t, from, "rejected") /\ UNCHANGED at

\* continue: the next provider, or the RuntimeError after the last one.
TryNext(t, from) ==
  IF at[t] < Len(Order)
  THEN Goto(t, from, "asking") /\ at' = [at EXCEPT ![t] = @ + 1]
  ELSE Goto(t, from, "rejected") /\ UNCHANGED at

Return(t, from) == Goto(t, from, "idle") /\ at' = [at EXCEPT ![t] = 1]

-----------------------------------------------------------------------------
(* call *)

\* Mutant: starts with the first provider whose breaker is closed.
StartClosed(t) ==
  /\ Goto(t, "idle", "asking")
  /\ \E i \in DOMAIN Order :
       /\ at' = [at EXCEPT ![t] = i]
       /\ i = Len(Order) \/ breaker[Order[i]].state = "closed"
       /\ \A j \in 1..(i - 1) : breaker[Order[j]].state # "closed"
  /\ UNCHANGED <<breaker, up, failed, faults>>

Start(t) ==
  /\ Goto(t, "idle", "asking")
  /\ UNCHANGED <<breaker, up, at, failed, faults>>

Allow(t) ==
  /\ CanAdmit(breaker[Here(t)])
  /\ Goto(t, "asking", "calling")
  /\ breaker' = [breaker EXCEPT ![Here(t)] = Admitted(@)]
  /\ UNCHANGED <<up, at, failed, faults>>

\* Mutant: a provider that refuses ends the request.
SkipNone(t) ==
  /\ ~CanAdmit(breaker[Here(t)])
  /\ Goto(t, "asking", "rejected")
  /\ UNCHANGED <<breaker, up, at, failed, faults>>

Skip(t) ==
  /\ ~CanAdmit(breaker[Here(t)])
  /\ TryNext(t, "asking")
  /\ UNCHANGED <<breaker, up, failed, faults>>

Answer(t) ==
  /\ Goto(t, "calling", IF up[Here(t)] THEN "answered" ELSE "broken")
  /\ failed' = IF up[Here(t)] THEN failed ELSE failed \cup {Here(t)}
  /\ UNCHANGED <<breaker, up, at, faults>>

RecordSuccess(t) ==
  /\ Return(t, "answered")
  /\ breaker' = [breaker EXCEPT ![Here(t)] = Succeeded(@)]
  /\ UNCHANGED <<up, failed, faults>>

\* Mutant: the failure is counted against the provider tried next.
RecordNext(t) ==
  /\ TryNext(t, "broken")
  /\ breaker' = [breaker EXCEPT ![Order[at'[t]]] = Failed(@)]
  /\ UNCHANGED <<up, failed, faults>>

RecordFailure(t) ==
  /\ TryNext(t, "broken")
  /\ breaker' = [breaker EXCEPT ![Here(t)] = Failed(@)]
  /\ UNCHANGED <<up, failed, faults>>

Reject(t) ==
  /\ Return(t, "rejected")
  /\ UNCHANGED <<breaker, up, failed, faults>>

-----------------------------------------------------------------------------
(* Redis raises *)

Raises(op) == op \in Faulty /\ faults < MaxFaults /\ faults' = faults + 1

\* The breaker the thread was at, in one of the ways it may have been left.
Leaves(t, outcomes) == \E b \in outcomes : breaker' = [breaker EXCEPT ![Here(t)] = b]

\* Outside the try: the request ends here, whatever providers are left.
AllowRaises(t) ==
  /\ Raises("allow") /\ Return(t, "asking")
  /\ Leaves(t, PartlyAdmitted(breaker[Here(t)]))
  /\ UNCHANGED <<up, failed>>

\* Inside the try: the reply is dropped, the provider counted as failed.
SuccessRaises(t) ==
  /\ Raises("success") /\ Goto(t, "answered", "broken")
  /\ failed' = failed \cup {Here(t)}
  /\ Leaves(t, PartlySucceeded(breaker[Here(t)]))
  /\ UNCHANGED <<up, at>>

\* Inside the except: the request ends here.
FailureRaises(t) ==
  /\ Raises("failure") /\ Return(t, "broken")
  /\ Leaves(t, PartlyFailed(breaker[Here(t)]))
  /\ UNCHANGED <<up, failed>>

-----------------------------------------------------------------------------
ProviderChanges ==
  /\ \E p \in Unreliable : up' = [up EXCEPT ![p] = ~@]
  /\ UNCHANGED <<breaker, pc, at, failed, faults>>

Tick ==
  /\ breaker' = [p \in Providers |-> Later(breaker[p])]
  /\ UNCHANGED <<up, pc, at, failed, faults>>

Call(t) == \/ Start(t) \/ Allow(t) \/ Skip(t) \/ Answer(t)
           \/ RecordSuccess(t) \/ RecordFailure(t) \/ Reject(t)
Fault(t) == AllowRaises(t) \/ SuccessRaises(t) \/ FailureRaises(t)

Next == (\E t \in Threads : Call(t) \/ Fault(t)) \/ ProviderChanges \/ Tick

Spec == Init /\ [][Next]_vars

\* Requests keep coming, every request goes on, and time passes.
FairSpec == Spec /\ WF_vars(Tick) /\ \A t \in Threads : WF_vars(Call(t))

-----------------------------------------------------------------------------
(* Properties *)

TypeOK ==
  /\ breaker \in [Providers -> Breakers]
  /\ up \in [Providers -> BOOLEAN]
  /\ pc \in [Threads -> PCs] /\ at \in [Threads -> DOMAIN Order]
  /\ failed \subseteq Providers /\ faults \in Nat

\* A provider of which no call has failed, and no success failed to be recorded,
\* is never shut out, and no request goes on past it or is rejected, whatever the
\* other providers do, wherever requests come from and whichever other operations
\* raise (resilience.py:93-98, 106, 114, 118).
NoInnocentPassedOver ==
  /\ \A p \in Providers \ failed : breaker[p].state = "closed"
  /\ \A t \in Threads : /\ \A i \in 1..(at[t] - 1) : Order[i] \in failed
                         /\ pc[t] = "rejected" => Providers \subseteq failed

Primary == Order[1]

\* A primary that has come back for good gets its requests back, also after a
\* probe was lost (resilience.py:60, "iterates providers in order").
PrimaryReturns == <>[]up[Primary] => <>[](breaker[Primary].state = "closed")

\* As long as one provider stays up, requests are rejected only for a while
\* (resilience.py:8-9).
NoEndlessRejection ==
  \A p \in Providers : <>[]up[p] => <>[](\A t \in Threads : pc[t] # "rejected")

=============================================================================
