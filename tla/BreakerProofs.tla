---------------------------- MODULE BreakerProofs ---------------------------
(* Theorems about Breaker, for every number of threads and workers. *)
EXTENDS Breaker, TLAPS

LEMMA LockTtlNat == LockTtl \in Nat /\ LockTtl <= Recovery
<1>1. Second \in Nat \ {0} /\ Recovery \in Nat BY NumberAssumption
<1>2. Recovery \div Second \in Nat BY <1>1
<1>3. \A x, y \in Nat : x * y \in Nat OBVIOUS
<1>4. (Recovery \div Second) * Second <= Recovery BY <1>1
<1> QED BY <1>1, <1>2, <1>3, <1>4 DEF LockTtl

LEMMA InitType == Init => TypeOK
BY LockTtlNat, NumberAssumption DEF Init, TypeOK, Free, PCs, Inside

LEMMA DoneType ==
  ASSUME TypeOK, NEW t \in Threads, NEW losers \in SUBSET Threads,
         Done(t, losers) \/ UNCHANGED <<lease, orphans>>
  PROVE  lease' \in [Threads -> 0..LockTtl] /\ orphans' \subseteq Threads
<1>1. 0 \in 0..LockTtl BY LockTtlNat
<1>2. CASE Done(t, losers) BY <1>1, <1>2 DEF Done, TypeOK
<1>3. CASE UNCHANGED <<lease, orphans>> BY <1>3 DEF TypeOK
<1> QED BY <1>2, <1>3

LEMMA StepType == ASSUME TypeOK, NEW t \in Threads, Step(t) PROVE TypeOK'
<1> USE DEF redis, Goto, TypeOK
<1>0. Me(t) \in Workers /\ Threshold \in Nat \ {0} /\ Recovery \in Nat /\ LockTtl \in Nat
  BY WorkerAssumption, NumberAssumption, LockTtlNat DEF Me
<1>1. CASE GetState(t) BY <1>1 DEF GetState, PCs, Inside
<1>2. CASE GetOpenedAt(t) BY <1>2 DEF GetOpenedAt, PCs, Inside
<1>3. CASE Compare(t) BY <1>0, <1>3 DEF Compare, PCs, Inside
<1>4. ASSUME NEW from, NEW to \in PCs, Acquire(t, from, to) PROVE TypeOK'
  <2>1. "idle" \in PCs BY DEF PCs
  <2>2. [owner |-> Me(t), ttl |-> LockTtl] \in [owner : Workers \cup {None, Dead}, ttl : 0..LockTtl]
    BY <1>0
  <2> QED BY <1>0, <1>4, <2>1, <2>2 DEF Acquire
<1>5. CASE SetnxOpen(t) \/ SetnxHalf(t)
  <2>1. "setHalf" \in PCs /\ "calling" \in PCs BY DEF PCs, Inside
  <2> QED BY <1>4, <1>5, <2>1 DEF SetnxOpen, SetnxHalf
<1>6. CASE SetHalfOpen(t) BY <1>6 DEF SetHalfOpen, PCs
<1>7. {} \in SUBSET Threads /\ Siblings(t) \in SUBSET Threads BY DEF Siblings
<1>8. CASE ResetFailureCount(t)
  <2>1. pc' \in [Threads -> PCs] BY <1>8 DEF ResetFailureCount, PCs, Inside
  <2>2. failures' \in 0..Threshold BY <1>0, <1>8 DEF ResetFailureCount
  <2>3. UNCHANGED <<state, openedAge, lock, up, seenAge, lease, orphans, crashes, resets>>
    BY <1>8 DEF ResetFailureCount
  <2> QED BY <2>1, <2>2, <2>3
<1>9. CASE SetClosed(t) BY <1>9 DEF SetClosed, PCs, Inside
<1>10. CASE Release(t)
  <2>1. lock' \in {lock, Free} BY <1>10 DEF Release
  <2>2. lock' \in [owner : Workers \cup {None, Dead}, ttl : 0..LockTtl]
    BY <1>0, <2>1 DEF Free
  <2>3. Done(t, {}) \/ Done(t, Siblings(t)) BY <1>10 DEF Release
  <2>4. lease' \in [Threads -> 0..LockTtl] /\ orphans' \subseteq Threads
    BY <1>7, <2>3, DoneType
  <2> QED BY <1>10, <2>2, <2>4 DEF Release, PCs
<1>11. CASE ReleaseGet(t)
  <2>1. Done(t, {}) \/ UNCHANGED <<lease, orphans>> BY <1>11 DEF ReleaseGet
  <2>2. pc' \in [Threads -> PCs] BY <1>11 DEF ReleaseGet, PCs, Inside
  <2>3. UNCHANGED <<redis, up, seenAge, crashes, resets>> BY <1>11 DEF ReleaseGet
  <2> QED BY <1>7, <2>1, <2>2, <2>3, DoneType
<1>12. CASE ReleaseDel(t)
  <2>1. lease' \in [Threads -> 0..LockTtl] /\ orphans' \subseteq Threads
    BY <1>12, DoneType DEF ReleaseDel
  <2>2. pc' \in [Threads -> PCs] BY <1>12 DEF ReleaseDel, PCs
  <2>3. lock' = Free /\ UNCHANGED <<state, failures, openedAge, up, seenAge, crashes, resets>>
    BY <1>12 DEF ReleaseDel
  <2> QED BY <1>0, <2>1, <2>2, <2>3 DEF Free
<1>13. CASE IncrementFailureCount(t)
  <2> DEFINE count == IF failures < Threshold THEN failures + 1 ELSE Threshold
  <2>1. count \in 0..Threshold BY <1>0
  <2>2. /\ failures' = count
        /\ pc' = [pc EXCEPT ![t] = IF count >= Threshold THEN "setOpen" ELSE "idle"]
        /\ UNCHANGED <<lease, orphans>> \/ Done(t, {})
        /\ UNCHANGED <<state, openedAge, lock, up, seenAge, crashes, resets>>
    BY <1>13 DEF IncrementFailureCount
  <2> HIDE DEF count
  <2>3. "setOpen" \in PCs /\ "idle" \in PCs BY DEF PCs, Inside
  <2>4. pc' \in [Threads -> PCs] BY <2>2, <2>3
  <2>5. lease' \in [Threads -> 0..LockTtl] /\ orphans' \subseteq Threads
    BY <1>7, <2>2, DoneType
  <2> QED BY <2>1, <2>2, <2>4, <2>5
<1>14. CASE SetOpen(t) BY <1>14 DEF SetOpen, PCs, Inside
<1>15. CASE SetOpenedAt(t)
  <2>1. lease' \in [Threads -> 0..LockTtl] /\ orphans' \subseteq Threads
    BY <1>7, <1>15, DoneType DEF SetOpenedAt
  <2>2. pc' \in [Threads -> PCs] BY <1>15 DEF SetOpenedAt, PCs
  <2>3. openedAge' = 0 /\ UNCHANGED <<state, failures, lock, up, seenAge, crashes, resets>>
    BY <1>15 DEF SetOpenedAt
  <2>4. openedAge' \in -1..Recovery BY <1>0, <2>3
  <2> QED BY <2>1, <2>2, <2>3, <2>4
<1> QED BY <1>1, <1>2, <1>3, <1>5, <1>6, <1>8, <1>9, <1>10, <1>11, <1>12, <1>13, <1>14, <1>15
        DEF Step, Allow, RecordSuccess, RecordFailure

LEMMA EnvironmentType ==
  ASSUME TypeOK, Reset \/ Tick \/ ProviderChanges \/ \E w \in Workers : Crash(w) PROVE TypeOK'
<1> USE DEF redis, TypeOK
<1>0. Recovery \in Nat /\ LockTtl \in Nat /\ Health \subseteq BOOLEAN /\ Threshold \in Nat
  BY NumberAssumption, LockTtlNat
<1>1. CASE Reset BY <1>0, <1>1 DEF Reset, Free
<1>2. CASE Tick
  <2>1. \A age \in -1..Recovery : Older(age) \in -1..Recovery
    BY <1>0 DEF Older
  <2>2. lock' \in [owner : Workers \cup {None, Dead}, ttl : 0..LockTtl]
    BY <1>0, <1>2 DEF Tick, Free
  <2>3. openedAge' \in -1..Recovery /\ seenAge' \in [Threads -> -1..Recovery]
    BY <1>2, <2>1 DEF Tick
  <2>4. lease' \in [Threads -> 0..LockTtl]
    BY <1>0, <1>2 DEF Tick
  <2> QED BY <1>2, <2>2, <2>3, <2>4 DEF Tick
<1>3. CASE ProviderChanges BY <1>0, <1>3 DEF ProviderChanges
<1>4. ASSUME NEW w \in Workers, Crash(w) PROVE TypeOK'
  <2>1. pc' \in [Threads -> PCs]
    BY <1>4 DEF Crash, PCs
  <2>2. seenAge' \in [Threads -> -1..Recovery] /\ lease' \in [Threads -> 0..LockTtl]
    BY <1>0, <1>4 DEF Crash
  <2>3. lock' \in [owner : Workers \cup {None, Dead}, ttl : 0..LockTtl]
    BY <1>4 DEF Crash
  <2>4. crashes' \in Nat /\ orphans' \subseteq Threads
        /\ UNCHANGED <<state, failures, openedAge, up, resets>>
    BY <1>4 DEF Crash
  <2> QED BY <2>1, <2>2, <2>3, <2>4
<1> QED BY <1>1, <1>2, <1>3, <1>4

LEMMA NextType == TypeOK /\ [Next]_vars => TypeOK'
<1>1. ASSUME TypeOK, UNCHANGED vars PROVE TypeOK'
  BY <1>1 DEF vars, redis, TypeOK
<1> QED BY <1>1, StepType, EnvironmentType DEF Next

\* Every reachable state is well typed, whatever Redis, workers and provider do.
THEOREM TypeCorrect == Spec => []TypeOK
BY InitType, NextType, PTL DEF Spec

-----------------------------------------------------------------------------
(* The half-open lock, for any workers, threads and Redis, until a reset(). *)

\* The cores of LeaseIsLock and of OneLease.
LeaseHolds ==
  \A t \in Threads : Holding(t) => lock = [owner |-> Me(t), ttl |-> lease[t]]
OneHolds == \A s, t \in Threads : Holding(s) /\ Holding(t) => s = t

LeaseInv == TypeOK /\ LeaseHolds /\ OneHolds

LEMMA LeaseInit == Init => LeaseHolds /\ OneHolds
BY DEF Init, LeaseHolds, OneHolds, Holding

\* A step is harmless that lets nobody hold anew and keeps the lock of who holds on.
LEMMA HeldOn ==
  ASSUME LeaseInv,
         \A s \in Threads : Holding(s)' => Holding(s) /\ lease'[s] = lease[s] /\ lock' = lock
  PROVE  LeaseHolds' /\ OneHolds'
<1>1. LeaseHolds' BY DEF LeaseInv, LeaseHolds, Me
<1>2. OneHolds' BY DEF LeaseInv, OneHolds
<1> QED BY <1>1, <1>2

\* Whoever holds on when t is done is not t, and none of the losers.
LEMMA DoneHolds ==
  ASSUME TypeOK, NEW t \in Threads, NEW losers \in SUBSET Threads, Done(t, losers),
         NEW s \in Threads, Holding(s)'
  PROVE  Holding(s) /\ lease'[s] = lease[s] /\ s \notin losers
<1>1. lease' = [lease EXCEPT ![t] = 0] /\ lease \in [Threads -> 0..LockTtl]
  BY DEF Done, TypeOK
<1>2. lease'[s] > 0 /\ s \notin orphans' BY DEF Holding
<1>3. s # t BY <1>1, <1>2
<1>4. lease'[s] = lease[s] /\ lease[s] > 0 BY <1>1, <1>2, <1>3
<1>5. s \notin orphans /\ s \notin losers BY <1>2, <1>3, <1>4 DEF Done
<1> QED BY <1>4, <1>5 DEF Holding

LEMMA LeaseStep ==
  ASSUME LeaseInv, NEW t \in Threads, Step(t)
  PROVE  LeaseHolds' /\ OneHolds'
<1> USE DEF redis, Goto
<1>0. /\ TypeOK /\ LeaseHolds /\ OneHolds
      /\ Me(t) \in Workers /\ None \notin Workers
      /\ \A s \in Threads : Me(s) \in Workers /\ Me(s)' = Me(s)
      /\ {} \in SUBSET Threads /\ Siblings(t) \in SUBSET Threads
  BY WorkerAssumption DEF LeaseInv, Me, Siblings
<1>1. ASSUME UNCHANGED lock, UNCHANGED <<lease, orphans>> \/ Done(t, {})
      PROVE  LeaseHolds' /\ OneHolds'
  <2>1. \A s \in Threads : Holding(s)' => Holding(s) /\ lease'[s] = lease[s]
    BY <1>0, <1>1, DoneHolds DEF Holding
  <2> QED BY <1>1, <2>1, HeldOn
<1>2. ASSUME NEW from, NEW to, Acquire(t, from, to) PROVE LeaseHolds' /\ OneHolds'
  <2>1. CASE lock = Free
    <3>1. \A s \in Threads : ~Holding(s)
      BY <1>0, <2>1 DEF LeaseHolds, Free
    <3>2. /\ lock' = [owner |-> Me(t), ttl |-> LockTtl] /\ lease' = [lease EXCEPT ![t] = LockTtl]
          /\ UNCHANGED orphans /\ lease \in [Threads -> 0..LockTtl]
      BY <1>0, <1>2, <2>1 DEF Acquire, TypeOK
    <3>3. \A s \in Threads : Holding(s)' => s = t
      BY <3>1, <3>2 DEF Holding
    <3> QED BY <1>0, <3>2, <3>3 DEF LeaseHolds, OneHolds
  <2>2. CASE lock # Free
    BY <1>1, <1>2, <2>2 DEF Acquire
  <2> QED BY <2>1, <2>2
<1>3. CASE Allow(t)
  <2>1. CASE GetState(t) \/ GetOpenedAt(t) \/ Compare(t) \/ SetHalfOpen(t)
    BY <1>1, <2>1 DEF GetState, GetOpenedAt, Compare, SetHalfOpen
  <2>2. CASE SetnxOpen(t) \/ SetnxHalf(t)
    BY <1>2, <2>2 DEF SetnxOpen, SetnxHalf
  <2> QED BY <1>3, <2>1, <2>2 DEF Allow
<1>4. CASE RecordSuccess(t)
  <2>1. CASE ResetFailureCount(t) \/ SetClosed(t)
    BY <1>1, <2>1 DEF ResetFailureCount, SetClosed
  <2>2. CASE Release(t)
    <3>1. CASE lock.owner = Me(t)
      <4>1. Done(t, Siblings(t)) BY <2>2, <3>1 DEF Release
      <4>2. \A s \in Threads : Holding(s) => s \in Siblings(t)
        BY <1>0, <3>1 DEF LeaseHolds, Siblings
      <4>3. \A s \in Threads : ~Holding(s)' BY <1>0, <4>1, <4>2, DoneHolds
      <4> QED BY <4>3, HeldOn
    <3>2. CASE lock.owner # Me(t)
      BY <1>1, <2>2, <3>2 DEF Release
    <3> QED BY <3>1, <3>2
  <2>3. CASE ReleaseGet(t)
    BY <1>1, <2>3 DEF ReleaseGet
  <2>4. CASE ReleaseDel(t)
    <3>1. \A s \in Threads : ~Holding(s)'
      BY <1>0, <2>4, DoneHolds DEF ReleaseDel
    <3> QED BY <3>1, HeldOn
  <2> QED BY <1>4, <2>1, <2>2, <2>3, <2>4 DEF RecordSuccess
<1>5. CASE RecordFailure(t)
  BY <1>1, <1>5 DEF RecordFailure, IncrementFailureCount, SetOpen, SetOpenedAt
<1> QED BY <1>3, <1>4, <1>5 DEF Step

LEMMA LeaseEnvironment ==
  ASSUME LeaseInv, Tick \/ ProviderChanges \/ \E w \in Workers : Crash(w)
  PROVE  LeaseHolds' /\ OneHolds'
<1> USE DEF redis
<1>0. /\ TypeOK /\ LeaseHolds /\ OneHolds /\ lease \in [Threads -> 0..LockTtl] /\ LockTtl \in Nat
      /\ \A s \in Threads : Me(s)' = Me(s)
  BY LockTtlNat DEF LeaseInv, TypeOK, Me
<1>1. CASE Tick
  <2>1. ASSUME NEW s \in Threads, Holding(s)'
        PROVE  Holding(s) /\ lock' = [owner |-> Me(s), ttl |-> lease'[s]]
    <3>1. lease[s] \in Nat BY <1>0
    <3>2. lease'[s] > 0 /\ s \notin orphans' BY <2>1 DEF Holding
    <3>3. lease[s] > 1 /\ lease'[s] = lease[s] - 1
      BY <1>1, <3>1, <3>2 DEF Tick
    <3>4. Holding(s) BY <1>1, <3>1, <3>2, <3>3 DEF Tick, Holding
    <3>5. lock = [owner |-> Me(s), ttl |-> lease[s]] BY <1>0, <3>4 DEF LeaseHolds
    <3>6. lock' = [lock EXCEPT !.ttl = @ - 1]
      BY <1>1, <3>1, <3>3, <3>5 DEF Tick
    <3> QED BY <3>3, <3>4, <3>5, <3>6
  <2> QED BY <1>0, <2>1 DEF LeaseHolds, OneHolds
<1>2. CASE ProviderChanges
  BY <1>2, HeldOn DEF ProviderChanges, Holding
<1>3. ASSUME NEW w \in Workers, Crash(w) PROVE LeaseHolds' /\ OneHolds'
  <2>1. ASSUME NEW s \in Threads, Holding(s)'
        PROVE  Holding(s) /\ lease'[s] = lease[s] /\ lock' = lock
    <3>1. lease'[s] > 0 /\ s \notin orphans' BY <2>1 DEF Holding
    <3>2. Me(s) # w /\ lease'[s] = lease[s] BY <1>3, <3>1 DEF Crash
    <3>3. Holding(s) BY <1>3, <3>1, <3>2 DEF Crash, Holding
    <3>4. lock.owner # w BY <1>0, <3>2, <3>3 DEF LeaseHolds
    <3> QED BY <1>3, <3>2, <3>3, <3>4 DEF Crash
  <2> QED BY <2>1, HeldOn
<1> QED BY <1>1, <1>2, <1>3

\* Nothing but reset() counts resets.
LEMMA ResetsKept ==
  ASSUME [Next]_vars, ~Reset PROVE UNCHANGED resets
<1>1. ASSUME NEW t \in Threads, Allow(t) PROVE UNCHANGED resets
  BY <1>1 DEF Allow, GetState, GetOpenedAt, Compare, SetnxOpen, SetnxHalf, SetHalfOpen, Acquire
<1>2. ASSUME NEW t \in Threads, RecordSuccess(t) PROVE UNCHANGED resets
  BY <1>2 DEF RecordSuccess, ResetFailureCount, SetClosed, Release, ReleaseGet, ReleaseDel
<1>3. ASSUME NEW t \in Threads, RecordFailure(t) PROVE UNCHANGED resets
  BY <1>3 DEF RecordFailure, IncrementFailureCount, SetOpen, SetOpenedAt
<1> QED BY <1>1, <1>2, <1>3 DEF Next, Step, Crash, Tick, ProviderChanges, vars

\* Until reset() is called, types and leases are as they should be.
LEMMA LeaseCore == Spec => [](TypeOK /\ (resets = 0 => LeaseHolds /\ OneHolds))
<1> DEFINE IInv == TypeOK /\ (resets = 0 => LeaseHolds /\ OneHolds)
<1>1. Init => IInv
  BY InitType, LeaseInit
<1>2. IInv /\ [Next]_vars => IInv'
  <2> SUFFICES ASSUME IInv, [Next]_vars, resets' = 0 PROVE LeaseHolds' /\ OneHolds'
    BY NextType
  <2>1. ~Reset
    BY DEF Reset, TypeOK
  <2>2. LeaseInv
    BY <2>1, ResetsKept DEF LeaseInv
  <2>3. CASE UNCHANGED vars
    BY <2>2, <2>3, HeldOn DEF vars, redis, Holding
  <2> QED BY <2>1, <2>2, <2>3, LeaseStep, LeaseEnvironment DEF Next
<1> QED BY <1>1, <1>2, PTL DEF Spec

\* A probe inside its lease owns the half-open lock until a thread of its own worker
\* releases it (breaker.py:52, 102) or reset() is called, for any number of workers
\* and threads and any deaths, stragglers and clock; with EVAL no other worker
\* releases it (breaker.py:96-102).
THEOREM LeaseCorrect == Spec => []LeaseIsLock
<1>1. TypeOK /\ (resets = 0 => LeaseHolds /\ OneHolds) => LeaseIsLock
  BY DEF LeaseHolds, LeaseIsLock
<1> QED BY <1>1, LeaseCore, PTL

\* Of two probes inside their leases at once, one has had its lock released under it.
THEOREM OneLeaseCorrect == Spec => []OneLease
<1>1. TypeOK /\ (resets = 0 => LeaseHolds /\ OneHolds) => OneLease
  BY DEF OneHolds, OneLease
<1> QED BY <1>1, LeaseCore, PTL

-----------------------------------------------------------------------------
(* One worker that lives on, and no reset(): its threads see the machine of *)
(* BreakerFSM.  The thread lock leaves one handler running at a time, and   *)
(* what that handler has read still holds when it acts on it.               *)

OneWorker == \A s, t \in Threads : Me(s) = Me(t)
Undisturbed == MaxDisturbances = 0

\* Nobody but t is in a handler.
Only(t) == \A s \in Threads : pc[s] \in Inside => s = t

Mutex == \A t \in Threads : pc[t] \in Inside => Only(t)

\* The lock is free or the worker's own.
OwnLock == lock = Free \/ \A t \in Threads : lock.owner = Me(t)

\* OPEN always comes with the time it opened, or is about to.
OpenDated == state = "open" => openedAge >= 0 \/ SomeAt({"setOpened"})

\* What an allow() has read is still so at its next step.
ReadsHold ==
  \A t \in Threads :
    /\ pc[t] \in {"getOpened", "compare", "setnxOpen"} => state = "open" /\ openedAge >= 0
    /\ pc[t] = "compare" => seenAge[t] = openedAge
    /\ pc[t] = "setnxOpen" => openedAge >= Recovery
    /\ pc[t] = "setnxHalf" => state = "half_open"

MachineInv == Mutex /\ OwnLock /\ OpenDated /\ ReadsHold

\* A step of a handler runs alone; the others stay where they are.
LEMMA HandlerAlone ==
  ASSUME TypeOK, OneWorker, Mutex, NEW t \in Threads,
         Allow(t) \/ RecordSuccess(t) \/ RecordFailure(t)
  PROVE  /\ Only(t) /\ Only(t)' /\ Mutex'
         /\ \A s \in Threads : s # t => pc'[s] = pc[s]
<1>1. \A s \in Threads : s # t => pc'[s] = pc[s]
  BY DEF TypeOK, Goto, Allow, GetState, GetOpenedAt, Compare, SetnxOpen, SetnxHalf, SetHalfOpen,
         Acquire, RecordSuccess, ResetFailureCount, SetClosed, Release, ReleaseGet, ReleaseDel,
         RecordFailure, IncrementFailureCount, SetOpen, SetOpenedAt
<1>2. pc[t] \in Inside \/ LockIsFree(t)
  BY DEF Inside, Goto, Allow, GetState, GetOpenedAt, Compare, SetnxOpen, SetnxHalf, SetHalfOpen,
         Acquire, RecordSuccess, ResetFailureCount, SetClosed, Release, ReleaseGet, ReleaseDel,
         RecordFailure, IncrementFailureCount, SetOpen, SetOpenedAt
<1>3. Only(t)
  BY <1>2 DEF Mutex, Only, LockIsFree, OneWorker
<1>4. Only(t)'
  BY <1>1, <1>3 DEF Only
<1>5. Mutex'
  BY <1>4 DEF Mutex, Only
<1> QED BY <1>1, <1>3, <1>4, <1>5

\* When only t is in a handler, what some thread does there t does.
LEMMA SomeIsMe ==
  ASSUME NEW t \in Threads, NEW places \in SUBSET Inside
  PROVE  /\ Only(t) => (SomeAt(places) <=> pc[t] \in places)
         /\ Only(t)' => (SomeAt(places)' <=> pc'[t] \in places)
BY DEF Only, SomeAt

LEMMA MachineInit == Init => MachineInv
BY DEF Init, MachineInv, Mutex, Inside, OwnLock, OpenDated, ReadsHold

LEMMA MachineHandler ==
  ASSUME TypeOK, OneWorker, MachineInv, NEW t \in Threads,
         Allow(t) \/ RecordSuccess(t) \/ RecordFailure(t)
  PROVE  MachineInv'
<1> USE DEF redis, Goto
<1>0. /\ Only(t) /\ Only(t)' /\ Mutex'
      /\ \A s \in Threads : s # t => pc'[s] = pc[s]
      /\ pc \in [Threads -> PCs] /\ seenAge \in [Threads -> -1..Recovery]
      /\ openedAge \in -1..Recovery /\ Recovery \in Nat
      /\ state \in {"closed", "open", "half_open"}
  BY HandlerAlone, NumberAssumption DEF MachineInv, TypeOK
<1>1. OwnLock'
  <2>1. lock' = lock \/ lock' = Free \/ lock'.owner = Me(t)
    BY DEF Allow, GetState, GetOpenedAt, Compare, SetnxOpen, SetnxHalf, SetHalfOpen,
           Acquire, RecordSuccess, ResetFailureCount, SetClosed, Release, ReleaseGet, ReleaseDel,
           RecordFailure, IncrementFailureCount, SetOpen, SetOpenedAt
  <2> QED BY <2>1 DEF OwnLock, MachineInv, OneWorker, Me
<1>2. (state = "open" => openedAge >= 0 \/ pc[t] = "setOpened")
  BY <1>0, SomeIsMe DEF MachineInv, OpenDated, Inside
<1>3. OpenDated' <=> (state' = "open" => openedAge' >= 0 \/ pc'[t] = "setOpened")
  BY <1>0, SomeIsMe DEF OpenDated, Inside
<1>4. ReadsHold' <=>
        /\ pc'[t] \in {"getOpened", "compare", "setnxOpen"} => state' = "open" /\ openedAge' >= 0
        /\ pc'[t] = "compare" => seenAge'[t] = openedAge'
        /\ pc'[t] = "setnxOpen" => openedAge' >= Recovery
        /\ pc'[t] = "setnxHalf" => state' = "half_open"
  BY <1>0 DEF ReadsHold, Only, Inside
<1>5. /\ pc[t] \in {"getOpened", "compare", "setnxOpen"} => state = "open" /\ openedAge >= 0
      /\ pc[t] = "compare" => seenAge[t] = openedAge
      /\ pc[t] = "setnxOpen" => openedAge >= Recovery
      /\ pc[t] = "setnxHalf" => state = "half_open"
  BY DEF MachineInv, ReadsHold
<1>6. CASE Allow(t)
  <2>1. CASE GetState(t)
    BY <1>0, <1>1, <1>2, <1>3, <1>4, <2>1 DEF GetState, MachineInv
  <2>2. CASE GetOpenedAt(t)
    BY <1>0, <1>1, <1>2, <1>3, <1>4, <1>5, <2>2 DEF GetOpenedAt, MachineInv
  <2>3. CASE Compare(t)
    BY <1>0, <1>1, <1>2, <1>3, <1>4, <1>5, <2>3 DEF Compare, MachineInv
  <2>4. CASE SetnxOpen(t) \/ SetnxHalf(t)
    BY <1>0, <1>1, <1>2, <1>3, <1>4, <1>5, <2>4 DEF SetnxOpen, SetnxHalf, Acquire, MachineInv
  <2>5. CASE SetHalfOpen(t)
    BY <1>0, <1>1, <1>3, <1>4, <2>5 DEF SetHalfOpen, MachineInv
  <2> QED BY <1>6, <2>1, <2>2, <2>3, <2>4, <2>5 DEF Allow
<1>7. CASE RecordSuccess(t)
  <2>1. pc'[t] \in {"idle", "setClosed", "release", "releaseDel"} /\ pc[t] # "setOpened"
        /\ openedAge' = openedAge /\ state' \in {state, "closed"}
    BY <1>0, <1>7 DEF RecordSuccess, ResetFailureCount, SetClosed, Release, ReleaseGet, ReleaseDel
  <2> QED BY <1>0, <1>1, <1>2, <1>3, <1>4, <2>1 DEF MachineInv
<1>8. CASE RecordFailure(t)
  <2>1. CASE IncrementFailureCount(t)
    <3>1. pc'[t] \in {"idle", "setOpen"} /\ pc[t] = "calling" /\ UNCHANGED <<state, openedAge>>
      BY <1>0, <2>1 DEF IncrementFailureCount
    <3> QED BY <1>0, <1>1, <1>2, <1>3, <1>4, <3>1 DEF MachineInv
  <2>2. CASE SetOpen(t)
    BY <1>0, <1>1, <1>3, <1>4, <2>2 DEF SetOpen, MachineInv
  <2>3. CASE SetOpenedAt(t)
    BY <1>0, <1>1, <1>3, <1>4, <2>3 DEF SetOpenedAt, MachineInv
  <2> QED BY <1>8, <2>1, <2>2, <2>3 DEF RecordFailure
<1> QED BY <1>6, <1>7, <1>8

\* The provider's changes and time leave the handlers where they are.
LEMMA MachineOther ==
  ASSUME TypeOK, MachineInv, Tick \/ ProviderChanges
  PROVE  MachineInv'
<1> USE DEF redis, Goto, MachineInv
<1>0. Recovery \in Nat /\ pc \in [Threads -> PCs]
  BY NumberAssumption DEF TypeOK
<1>1. CASE Tick
  <2>1. \A age \in -1..Recovery : /\ age >= 0 => Older(age) >= 0
                                  /\ age >= Recovery => Older(age) >= Recovery
    BY <1>0 DEF Older
  <2>2. /\ openedAge \in -1..Recovery /\ openedAge' = Older(openedAge)
        /\ seenAge' = [t \in Threads |-> Older(seenAge[t])]
        /\ UNCHANGED <<state, pc>>
    BY <1>1 DEF Tick, TypeOK
  <2>3. OwnLock'
    <3>1. lock' = Free \/ (lock # Free /\ lock'.owner = lock.owner)
      BY <1>1 DEF Tick, Free, TypeOK
    <3> QED BY <3>1 DEF OwnLock, Me
  <2>4. Mutex' BY <2>2 DEF Mutex, Only
  <2>5. OpenDated' BY <2>1, <2>2 DEF OpenDated, SomeAt
  <2>6. ReadsHold' BY <2>1, <2>2 DEF ReadsHold
  <2> QED BY <2>3, <2>4, <2>5, <2>6
<1>2. CASE ProviderChanges
  BY <1>2 DEF ProviderChanges, Mutex, Only, OwnLock, Me, OpenDated, SomeAt, ReadsHold
<1> QED BY <1>1, <1>2

\* Without deaths and reset(), nothing else ever happens.
LEMMA NoDisturbance ==
  ASSUME TypeOK, Undisturbed, Next
  PROVE  \/ \E t \in Threads : Allow(t) \/ RecordSuccess(t) \/ RecordFailure(t)
         \/ Tick \/ ProviderChanges
BY DEF TypeOK, Undisturbed, Next, Step, Reset, Crash

LEMMA MachineStep ==
  ASSUME OneWorker, Undisturbed, TypeOK, MachineInv, [Next]_vars PROVE MachineInv'
<1>1. CASE UNCHANGED vars
  BY <1>1 DEF vars, redis, MachineInv, Mutex, Only, OwnLock, Me, OpenDated, SomeAt, ReadsHold
<1>2. CASE Next
  BY <1>2, NoDisturbance, MachineHandler, MachineOther
<1> QED BY <1>1, <1>2

-----------------------------------------------------------------------------
(* Each step is a step of the machine, or it sees none. *)

LEMMA FSMInit == Init => FSM!Init
<1> SUFFICES ASSUME Init PROVE FSM!Init OBVIOUS
<1>1. \A t \in Threads : pc[t] = "idle"
  BY DEF Init
<1>2. /\ Seen = [state |-> "closed", failures |-> 0, age |-> -1, slot |-> 0]
      /\ Opening = FALSE /\ Busy = {}
  BY <1>1 DEF Init, Seen, Opening, Busy, InCall, SomeAt, Free
<1> QED BY <1>2 DEF FSM!Init, FSM!Fresh

\* The machine as a thread that is alone in its handler at p shows it.
View(p, st, count, age, l) ==
  [state    |-> IF p = "setOpen" THEN "open"
                ELSE IF p = "setHalf" THEN "half_open"
                ELSE IF p = "setClosed" THEN "closed" ELSE st,
   failures |-> count,
   age      |-> IF p \in {"setOpen", "setOpened"} THEN 0 ELSE age,
   slot     |-> IF p \in {"setClosed", "release", "releaseDel"} THEN 0 ELSE l.ttl]

LEMMA ViewOf ==
  ASSUME NEW t \in Threads
  PROVE  /\ Only(t) => /\ Seen = View(pc[t], state, failures, openedAge, lock)
                       /\ Opening <=> pc[t] \in {"setOpen", "setOpened"}
         /\ Only(t)' => /\ Seen' = View(pc'[t], state', failures', openedAge', lock')
                        /\ Opening' <=> pc'[t] \in {"setOpen", "setOpened"}
<1> DEFINE Places == {{"setOpen"}, {"setHalf"}, {"setClosed"}, {"setOpen", "setOpened"},
                      {"setClosed", "release", "releaseDel"}}
<1>1. \A places \in Places : places \in SUBSET Inside
  BY DEF Inside
<1>2. Only(t) => \A places \in Places : SomeAt(places) <=> pc[t] \in places
  BY <1>1, SomeIsMe
<1>3. Only(t)' => \A places \in Places : SomeAt(places)' <=> pc'[t] \in places
  BY <1>1, SomeIsMe
<1> QED BY <1>2, <1>3 DEF Seen, View, Opening

LEMMA BusyMove ==
  ASSUME TypeOK, NEW t \in Threads, NEW from, NEW to, Goto(t, from, to)
  PROVE  /\ t \in Busy <=> from \in InCall
         /\ Busy' = IF to \in InCall THEN Busy \cup {t} ELSE Busy \ {t}
BY DEF Busy, Goto, TypeOK

LEMMA BusyKept ==
  ASSUME TypeOK, NEW t \in Threads, NEW from, NEW to, Goto(t, from, to),
         from \in InCall <=> to \in InCall
  PROVE  Busy' = Busy
BY BusyMove DEF Busy

States == {"closed", "open", "half_open"}
Records == [state : States, failures : Nat, age : Int, slot : Nat]

LEMMA SameFields ==
  ASSUME NEW b \in Records, NEW c \in Records,
         b.state = c.state, b.failures = c.failures, b.age = c.age, b.slot = c.slot
  PROVE  b = c
BY DEF Records

LEMMA ProbeFields ==
  ASSUME NEW b \in Records, NEW st \in States, NEW l \in Nat
  PROVE  [b EXCEPT !.state = st, !.slot = l]
           = [state |-> st, failures |-> b.failures, age |-> b.age, slot |-> l]
<1>1. [b EXCEPT !.state = st, !.slot = l] \in Records
  BY DEF Records
<1>2. [state |-> st, failures |-> b.failures, age |-> b.age, slot |-> l] \in Records
  BY DEF Records
<1> QED BY <1>1, <1>2, SameFields DEF Records

LEMMA TripFields ==
  ASSUME NEW b \in Records, NEW st \in States, NEW n \in Nat, NEW a \in Int
  PROVE  [b EXCEPT !.state = st, !.failures = n, !.age = a]
           = [state |-> st, failures |-> n, age |-> a, slot |-> b.slot]
<1>1. [b EXCEPT !.state = st, !.failures = n, !.age = a] \in Records
  BY DEF Records
<1>2. [state |-> st, failures |-> n, age |-> a, slot |-> b.slot] \in Records
  BY DEF Records
<1> QED BY <1>1, <1>2, SameFields DEF Records

\* What is known in a step of t's handler.
LEMMA Alone ==
  ASSUME TypeOK, OneWorker, MachineInv, NEW t \in Threads,
         Allow(t) \/ RecordSuccess(t) \/ RecordFailure(t)
  PROVE  /\ Seen = View(pc[t], state, failures, openedAge, lock)
         /\ Seen' = View(pc'[t], state', failures', openedAge', lock')
         /\ Opening <=> pc[t] \in {"setOpen", "setOpened"}
         /\ Opening' <=> pc'[t] \in {"setOpen", "setOpened"}
         /\ Opening \in BOOLEAN /\ Opening' \in BOOLEAN
         /\ lock = Free \/ lock.owner = Me(t)
         /\ pc \in [Threads -> PCs] /\ t \in Threads
BY HandlerAlone, ViewOf DEF MachineInv, TypeOK, OwnLock, Opening, SomeAt

LEMMA AllowFSM ==
  ASSUME TypeOK, OneWorker, MachineInv, NEW t \in Threads, Allow(t)
  PROVE  FSM!Next \/ UNCHANGED FSM!vars
<1> USE DEF redis, Goto
<1>0. /\ Seen = View(pc[t], state, failures, openedAge, lock)
      /\ Seen' = View(pc'[t], state', failures', openedAge', lock')
      /\ Opening <=> pc[t] \in {"setOpen", "setOpened"}
      /\ Opening' <=> pc'[t] \in {"setOpen", "setOpened"}
      /\ Opening \in BOOLEAN /\ Opening' \in BOOLEAN
      /\ pc \in [Threads -> PCs] /\ openedAge \in -1..Recovery
      /\ state \in {"closed", "open", "half_open"} /\ Recovery \in Nat
  BY Alone, NumberAssumption DEF TypeOK
<1>1. ASSUME t \notin Busy, Busy' = Busy \cup {t}, UNCHANGED Opening,
             FSM!CanAdmit(Seen), Seen' = FSM!Admitted(Seen)
      PROVE  FSM!Next
  BY <1>1 DEF FSM!Next, FSM!Admit
<1>2. ASSUME UNCHANGED <<Seen, Opening, Busy>> PROVE UNCHANGED FSM!vars
  BY <1>2 DEF FSM!vars
<1>3. /\ pc[t] \in {"getOpened", "compare", "setnxOpen"} => state = "open" /\ openedAge >= 0
      /\ pc[t] = "setnxOpen" => openedAge >= Recovery
      /\ pc[t] = "setnxHalf" => state = "half_open"
  BY DEF MachineInv, ReadsHold
<1>4. CASE GetState(t)
  <2>1. CASE state = "closed"
    <3>1. Goto(t, "idle", "calling") /\ UNCHANGED redis
      BY <1>4, <2>1 DEF GetState
    <3>2. t \notin Busy /\ Busy' = Busy \cup {t}
      BY <3>1, BusyMove DEF InCall
    <3>3. Seen.state = "closed" /\ Seen' = Seen /\ UNCHANGED Opening
      BY <1>0, <2>1, <3>1 DEF View
    <3> QED BY <1>1, <3>2, <3>3 DEF FSM!CanAdmit, FSM!Unguarded, FSM!Admitted
  <2>2. CASE state # "closed"
    <3>1. PICK to \in {"getOpened", "setnxHalf"} : Goto(t, "idle", to) /\ UNCHANGED redis
      BY <1>0, <1>4, <2>2 DEF GetState
    <3>2. Busy' = Busy
      BY <3>1, BusyKept DEF InCall
    <3>3. UNCHANGED <<Seen, Opening>>
      BY <1>0, <3>1 DEF View
    <3> QED BY <1>2, <3>2, <3>3
  <2> QED BY <2>1, <2>2
<1>5. CASE GetOpenedAt(t)
  <2>0. openedAge # -1
    BY <1>0, <1>3, <1>5 DEF GetOpenedAt
  <2>1. Goto(t, "getOpened", "compare") /\ UNCHANGED redis
    BY <1>5, <2>0 DEF GetOpenedAt
  <2>2. Busy' = Busy
    BY <2>1, BusyKept DEF InCall
  <2>3. UNCHANGED <<Seen, Opening>>
    BY <1>0, <2>1 DEF View
  <2> QED BY <1>2, <2>2, <2>3
<1>6. CASE Compare(t)
  <2>1. PICK to \in {"setnxOpen", "idle"} : Goto(t, "compare", to) /\ UNCHANGED redis
    BY <1>6 DEF Compare
  <2>2. Busy' = Busy
    BY <2>1, BusyKept DEF InCall
  <2>3. UNCHANGED <<Seen, Opening>>
    BY <1>0, <2>1 DEF View
  <2> QED BY <1>2, <2>2, <2>3
<1>7. ASSUME NEW from \in {"setnxOpen", "setnxHalf"}, NEW to, Acquire(t, from, to), lock # Free
      PROVE  UNCHANGED FSM!vars
  <2>1. Goto(t, from, "idle") /\ UNCHANGED redis
    BY <1>7 DEF Acquire
  <2>2. Busy' = Busy
    BY <2>1, BusyKept DEF InCall
  <2>3. UNCHANGED <<Seen, Opening>>
    BY <1>0, <2>1 DEF View
  <2> QED BY <1>2, <2>2, <2>3
<1>8. ASSUME NEW from \in {"setnxOpen", "setnxHalf"}, NEW to \in {"setHalf", "calling"},
             Acquire(t, from, to), lock = Free,
             to = "calling" => state = "half_open",
             (state = "open" /\ openedAge >= Recovery) \/ state = "half_open"
      PROVE  FSM!Next
  <2>1. /\ Goto(t, from, to) /\ UNCHANGED <<state, failures, openedAge>>
        /\ lock.ttl = 0 /\ lock'.ttl = LockTtl
    BY <1>8 DEF Acquire, Free
  <2>2. t \notin Busy /\ Busy' = Busy \cup {t}
    BY <2>1, BusyMove DEF InCall
  <2>3. Seen = [state |-> state, failures |-> failures, age |-> openedAge, slot |-> 0]
    BY <1>0, <2>1 DEF View
  <2>4. Seen' = [state |-> "half_open", failures |-> failures, age |-> openedAge, slot |-> LockTtl]
    BY <1>0, <1>8, <2>1 DEF View
  <2>5. /\ Seen.state = state /\ Seen.age = openedAge /\ Seen.slot = 0 /\ Seen.failures = failures
        /\ Seen \in Records
    <3>1. state \in States /\ failures \in Nat /\ openedAge \in Int
      BY <1>0, NumberAssumption DEF TypeOK, States
    <3> QED BY <2>3, <3>1 DEF Records
  <2>6. FSM!CanAdmit(Seen)
    BY <1>8, <2>5 DEF FSM!CanAdmit
  <2>7. FSM!Admitted(Seen) = [Seen EXCEPT !.state = "half_open", !.slot = LockTtl]
    <3>1. ~FSM!Unguarded(Seen)
      BY <1>0, <1>8, <2>5 DEF FSM!Unguarded
    <3> QED BY <3>1 DEF FSM!Admitted
  <2>8. Seen' = FSM!Admitted(Seen)
    BY <2>4, <2>5, <2>7, ProbeFields, LockTtlNat DEF States
  <2>9. UNCHANGED Opening
    BY <1>0, <2>1
  <2> QED BY <1>1, <2>2, <2>6, <2>8, <2>9
<1>9. CASE SetnxOpen(t)
  BY <1>3, <1>7, <1>8, <1>9 DEF SetnxOpen, Acquire
<1>10. CASE SetnxHalf(t)
  BY <1>3, <1>7, <1>8, <1>10 DEF SetnxHalf, Acquire
<1>11. CASE SetHalfOpen(t)
  <2>1. /\ Goto(t, "setHalf", "calling") /\ state' = "half_open"
        /\ UNCHANGED <<failures, openedAge, lock>>
    BY <1>11 DEF SetHalfOpen
  <2>2. Busy' = Busy
    BY <2>1, BusyKept DEF InCall
  <2>3. UNCHANGED <<Seen, Opening>>
    BY <1>0, <2>1 DEF View
  <2> QED BY <1>2, <2>2, <2>3
<1> QED BY <1>4, <1>5, <1>6, <1>9, <1>10, <1>11 DEF Allow

LEMMA SuccessFSM ==
  ASSUME TypeOK, OneWorker, MachineInv, NEW t \in Threads, RecordSuccess(t)
  PROVE  FSM!Next \/ UNCHANGED FSM!vars
<1> USE DEF redis, Goto
<1>0. /\ Seen = View(pc[t], state, failures, openedAge, lock)
      /\ Seen' = View(pc'[t], state', failures', openedAge', lock')
      /\ Opening <=> pc[t] \in {"setOpen", "setOpened"}
      /\ Opening' <=> pc'[t] \in {"setOpen", "setOpened"}
      /\ Opening \in BOOLEAN /\ Opening' \in BOOLEAN
      /\ lock = Free \/ lock.owner = Me(t)
      /\ pc \in [Threads -> PCs]
  BY Alone
<1>1. ASSUME NEW from, NEW to, Goto(t, from, to), from \notin InCall, to \notin InCall,
             UNCHANGED <<Seen, Opening>>
      PROVE  UNCHANGED FSM!vars
  BY <1>1, BusyKept DEF FSM!vars
<1>9. {"setClosed", "release", "releaseDel", "idle"} \cap InCall = {}
  BY DEF InCall
<1>2. CASE ResetFailureCount(t)
  <2>0. Goto(t, "calling", "setClosed")
    BY <1>2 DEF ResetFailureCount
  <2>1. Goto(t, "calling", "setClosed") /\ failures' = 0 /\ UNCHANGED <<state, openedAge, lock>>
    BY <1>2 DEF ResetFailureCount
  <2>2. t \in Busy /\ Busy' = Busy \ {t}
    <3>1. "calling" \in InCall /\ "setClosed" \notin InCall
      BY DEF InCall
    <3> QED BY <2>0, <3>1, BusyMove
  <2>3. Seen.age = openedAge
    BY <1>0, <2>1 DEF View
  <2>4. Seen' = [state |-> "closed", failures |-> 0, age |-> openedAge, slot |-> 0]
    BY <1>0, <2>1 DEF View
  <2>5. Seen' = FSM!Succeeded(Seen)
    BY <2>3, <2>4 DEF FSM!Succeeded, FSM!Fresh
  <2>6. UNCHANGED Opening
    BY <1>0, <2>1
  <2> QED BY <2>2, <2>5, <2>6 DEF FSM!Next, FSM!Succeed
<1>3. CASE SetClosed(t)
  <2>1. /\ Goto(t, "setClosed", "release") /\ state' = "closed"
        /\ UNCHANGED <<failures, openedAge, lock>>
    BY <1>3 DEF SetClosed
  <2>2. UNCHANGED <<Seen, Opening>>
    BY <1>0, <2>1 DEF View
  <2> QED BY <1>1, <1>9, <2>1, <2>2
<1>4. CASE Release(t)
  <2>1. /\ Goto(t, "release", "idle") /\ UNCHANGED <<state, failures, openedAge>>
        /\ lock'.ttl = 0
    BY <1>0, <1>4 DEF Release, Free
  <2>2. UNCHANGED <<Seen, Opening>>
    BY <1>0, <2>1 DEF View
  <2> QED BY <1>1, <1>9, <2>1, <2>2
<1>5. CASE ReleaseGet(t)
  <2>1. PICK to \in {"releaseDel", "idle"} :
          Goto(t, "release", to) /\ UNCHANGED redis /\ (to = "idle" => lock.ttl = 0)
    <3>1. CASE lock.owner = Me(t)
      BY <1>5, <3>1 DEF ReleaseGet
    <3>2. CASE lock.owner # Me(t)
      <4>1. lock.ttl = 0
        BY <1>0, <3>2 DEF Free
      <4> QED BY <1>5, <3>2, <4>1 DEF ReleaseGet
    <3> QED BY <3>1, <3>2
  <2>2. UNCHANGED <<Seen, Opening>>
    BY <1>0, <2>1 DEF View
  <2> QED BY <1>1, <1>9, <2>1, <2>2
<1>6. CASE ReleaseDel(t)
  <2>1. /\ Goto(t, "releaseDel", "idle") /\ UNCHANGED <<state, failures, openedAge>>
        /\ lock'.ttl = 0
    BY <1>6 DEF ReleaseDel, Free
  <2>2. UNCHANGED <<Seen, Opening>>
    BY <1>0, <2>1 DEF View
  <2> QED BY <1>1, <1>9, <2>1, <2>2
<1> QED BY <1>2, <1>3, <1>4, <1>5, <1>6 DEF RecordSuccess

LEMMA FailureFSM ==
  ASSUME TypeOK, OneWorker, MachineInv, NEW t \in Threads, RecordFailure(t)
  PROVE  FSM!Next \/ UNCHANGED FSM!vars
<1> USE DEF redis, Goto
<1>0. /\ Seen = View(pc[t], state, failures, openedAge, lock)
      /\ Seen' = View(pc'[t], state', failures', openedAge', lock')
      /\ Opening <=> pc[t] \in {"setOpen", "setOpened"}
      /\ Opening' <=> pc'[t] \in {"setOpen", "setOpened"}
      /\ Opening \in BOOLEAN /\ Opening' \in BOOLEAN
      /\ pc \in [Threads -> PCs]
  BY Alone
<1>1. /\ state \in States /\ failures \in 0..Threshold /\ Threshold \in Nat \ {0}
      /\ openedAge \in Int /\ lock.ttl \in Nat
  BY NumberAssumption, LockTtlNat DEF TypeOK, States
<1>2. CASE IncrementFailureCount(t)
  <2>1. PICK to \in {"setOpen", "idle"} : Goto(t, "calling", to)
    BY <1>2 DEF IncrementFailureCount
  <2>2. UNCHANGED <<state, openedAge, lock>>
    BY <1>2 DEF IncrementFailureCount
  <2>3. t \in Busy /\ Busy' = Busy \ {t}
    BY <2>1, BusyMove DEF InCall
  <2>4. Seen = [state |-> state, failures |-> failures, age |-> openedAge, slot |-> lock.ttl]
    BY <1>0, <2>1 DEF View
  <2>5. Seen \in Records /\ Seen.failures = failures /\ Seen.slot = lock.ttl
    BY <1>1, <2>4 DEF Records
  <2>6. Opening = FALSE
    BY <1>0, <2>1
  <2>7. CASE failures + 1 >= Threshold
    <3>1. to = "setOpen" /\ failures' = Threshold
      BY <1>0, <1>1, <1>2, <2>1, <2>7 DEF IncrementFailureCount
    <3>2. FSM!Trips(Seen)
      BY <2>5, <2>7 DEF FSM!Trips
    <3>3. FSM!Failed(Seen) = [Seen EXCEPT !.state = "open", !.failures = Threshold, !.age = 0]
      BY <3>2 DEF FSM!Failed
    <3>4. FSM!Failed(Seen)
            = [state |-> "open", failures |-> Threshold, age |-> 0, slot |-> lock.ttl]
      <4>1. "open" \in States /\ Threshold \in Nat /\ 0 \in Int
        BY <1>1 DEF States
      <4>2. \A b \in Records :
              [b EXCEPT !.state = "open", !.failures = Threshold, !.age = 0]
                = [state |-> "open", failures |-> Threshold, age |-> 0, slot |-> b.slot]
        BY <4>1, TripFields
      <4> QED BY <2>5, <3>3, <4>2
    <3>5. Seen' = [state |-> "open", failures |-> Threshold, age |-> 0, slot |-> lock.ttl]
      BY <1>0, <2>1, <2>2, <3>1 DEF View
    <3>6. Opening' = TRUE
      BY <1>0, <2>1, <3>1
    <3> QED BY <2>3, <2>6, <3>2, <3>4, <3>5, <3>6 DEF FSM!Next, FSM!Fail
  <2>8. CASE ~(failures + 1 >= Threshold)
    <3>1. to = "idle" /\ failures' = failures + 1
      BY <1>0, <1>1, <1>2, <2>1, <2>8 DEF IncrementFailureCount
    <3>2. ~FSM!Trips(Seen)
      BY <2>5, <2>8 DEF FSM!Trips
    <3>3. FSM!Failed(Seen) = [Seen EXCEPT !.failures = @ + 1]
      BY <3>2 DEF FSM!Failed
    <3>4. Seen' = [state |-> state, failures |-> failures + 1, age |-> openedAge, slot |-> lock.ttl]
      BY <1>0, <2>1, <2>2, <3>1 DEF View
    <3>5. Seen' = FSM!Failed(Seen)
      BY <2>4, <3>3, <3>4
    <3>6. Opening' = FALSE
      BY <1>0, <2>1, <3>1
    <3> QED BY <2>3, <2>6, <3>2, <3>5, <3>6 DEF FSM!Next, FSM!Fail
  <2> QED BY <2>7, <2>8
<1>3. CASE SetOpen(t)
  <2>1. /\ Goto(t, "setOpen", "setOpened") /\ state' = "open"
        /\ UNCHANGED <<failures, openedAge, lock>>
    BY <1>3 DEF SetOpen
  <2>2. UNCHANGED <<Seen, Opening>>
    BY <1>0, <2>1 DEF View
  <2>3. Busy' = Busy
    BY <2>1, BusyKept DEF InCall
  <2> QED BY <2>2, <2>3 DEF FSM!vars
<1>4. CASE SetOpenedAt(t)
  <2>1. /\ Goto(t, "setOpened", "idle") /\ openedAge' = 0
        /\ UNCHANGED <<state, failures, lock>>
    BY <1>4 DEF SetOpenedAt
  <2>2. Seen' = Seen /\ Opening /\ Opening' = FALSE
    BY <1>0, <2>1 DEF View
  <2>3. Busy' = Busy
    BY <2>1, BusyKept DEF InCall
  <2> QED BY <2>2, <2>3 DEF FSM!Next, FSM!Opened
<1> QED BY <1>2, <1>3, <1>4 DEF RecordFailure

\* The machine's clock is the breaker's, also under a handler.
LEMMA TickFSM == ASSUME TypeOK, Tick PROVE FSM!Tick
<1>0. UNCHANGED <<state, failures, pc>>
  BY DEF Tick
<1>1. \A places : SomeAt(places)' = SomeAt(places)
  BY <1>0 DEF SomeAt
<1>2. Opening' = Opening /\ Busy' = Busy
  BY <1>0, <1>1 DEF Opening, Busy
<1>3. /\ Seen.state = Seen'.state /\ Seen.failures = Seen'.failures
  BY <1>0, <1>1 DEF Seen
<1>4. FSM!Older(Seen.age) = IF Opening THEN FSM!Older(0) ELSE Seen'.age
  BY <1>1 DEF Seen, Opening, Tick, Older, FSM!Older
<1>5. Opening => Seen.age = 0 /\ Seen'.age = 0
  BY <1>1 DEF Seen, Opening
<1>6. lock'.ttl = IF lock.ttl = 0 THEN 0 ELSE lock.ttl - 1
  <2>1. lock.ttl \in Nat
    BY LockTtlNat DEF TypeOK
  <2>2. CASE lock.ttl > 1
    BY <2>1, <2>2 DEF Tick, TypeOK
  <2>3. CASE lock.ttl = 1
    BY <2>3 DEF Tick, Free
  <2>4. CASE lock.ttl = 0
    BY <2>4 DEF Tick
  <2> QED BY <2>1, <2>2, <2>3, <2>4
<1>7. Seen'.slot = IF Seen.slot = 0 THEN 0 ELSE Seen.slot - 1
  BY <1>1, <1>6 DEF Seen
<1>8. FSM!Later(Seen) = [state |-> Seen.state, failures |-> Seen.failures,
                         age |-> FSM!Older(Seen.age), slot |-> Seen'.slot]
  BY <1>7 DEF FSM!Later
<1>9. Seen' = [state |-> Seen'.state, failures |-> Seen'.failures,
               age |-> Seen'.age, slot |-> Seen'.slot]
  BY DEF Seen
<1>10. CASE ~Opening
  BY <1>2, <1>3, <1>4, <1>8, <1>9, <1>10 DEF FSM!Tick
<1>11. CASE Opening
  <2>1. [FSM!Later(Seen) EXCEPT !.age = Seen.age]
          = [state |-> Seen.state, failures |-> Seen.failures, age |-> Seen.age, slot |-> Seen'.slot]
    BY <1>8
  <2> QED BY <1>2, <1>3, <1>5, <1>9, <1>11, <2>1 DEF FSM!Tick
<1> QED BY <1>10, <1>11

\* The provider is no part of the machine.
LEMMA ProviderFSM == ASSUME ProviderChanges PROVE UNCHANGED FSM!vars
BY DEF ProviderChanges, redis, FSM!vars, Seen, Opening, Busy, SomeAt

LEMMA FSMStep ==
  ASSUME OneWorker, Undisturbed, TypeOK, MachineInv, [Next]_vars
  PROVE  [FSM!Next]_(FSM!vars)
<1>1. CASE UNCHANGED vars
  BY <1>1 DEF vars, redis, FSM!vars, Seen, Opening, Busy, SomeAt
<1>2. CASE Tick
  BY <1>2, TickFSM DEF FSM!Next
<1>3. CASE Next /\ ~Tick
  BY <1>3, NoDisturbance, AllowFSM, SuccessFSM, FailureFSM, ProviderFSM
<1> QED BY <1>1, <1>2, <1>3

\* While nobody calls reset(), any number of threads of one worker that lives on see
\* the three-state machine in which allow(), record_success() and
\* record_failure() take effect at one instant each, with EVAL or without
\* (breaker.py:121-123; the thread lock, breaker.py:169, 196, 207).
THEOREM ImplementsFSM ==
  ASSUME OneWorker, Undisturbed PROVE Spec => IsFSM
<1>1. Init => TypeOK /\ MachineInv /\ FSM!Init
  BY InitType, MachineInit, FSMInit
<1>2. TypeOK /\ MachineInv /\ [Next]_vars => (TypeOK /\ MachineInv)'
  BY NextType, MachineStep
<1>3. TypeOK /\ MachineInv /\ [Next]_vars => [FSM!Next]_(FSM!vars)
  BY FSMStep
<1> QED BY <1>1, <1>2, <1>3, PTL DEF Spec, IsFSM, FSM!Spec

-----------------------------------------------------------------------------
\* Where threads are as long as no call fails: allow() has looked no further than
\* at the state, and nobody records a failure.
Served == {"idle", "calling", "setClosed", "release", "releaseDel"}

HealthyInv ==
  /\ state = "closed" /\ failures = 0
  /\ \A t \in Threads : pc[t] \in Served

LEMMA HealthyStep == HealthyInv /\ TypeOK /\ up /\ [Next]_vars => HealthyInv'
<1> SUFFICES ASSUME HealthyInv, TypeOK, up, [Next]_vars PROVE HealthyInv' OBVIOUS
<1> USE DEF HealthyInv, Served, redis, Goto
<1>0. pc \in [Threads -> PCs] BY DEF TypeOK
<1>1. ASSUME NEW t \in Threads, Step(t) PROVE HealthyInv'
  <2>1. CASE Allow(t)
    <3>1. GetState(t)
      BY <2>1 DEF Allow, GetOpenedAt, Compare, SetnxOpen, SetHalfOpen, SetnxHalf, Acquire
    <3> QED BY <1>0, <3>1 DEF GetState
  <2>3. CASE RecordSuccess(t)
    BY <1>0, <2>3 DEF RecordSuccess, ResetFailureCount, SetClosed, Release, ReleaseGet, ReleaseDel
  <2>4. CASE RecordFailure(t)
    BY <2>4 DEF RecordFailure, IncrementFailureCount, SetOpen, SetOpenedAt
  <2> QED BY <1>1, <2>1, <2>3, <2>4 DEF Step
<1>2. ASSUME NEW w \in Workers, Crash(w) PROVE HealthyInv'
  <2>1. \A t \in Threads : pc'[t] \in {"idle", pc[t]} BY <1>2 DEF Crash
  <2> QED BY <1>2, <2>1 DEF Crash
<1>3. CASE Reset \/ Tick \/ ProviderChanges \/ UNCHANGED vars
  BY <1>3 DEF Reset, Tick, ProviderChanges, vars
<1> QED BY <1>1, <1>2, <1>3 DEF Next

\* A provider that stays up is never refused a call, whatever workers, deaths,
\* resets and lock expiries there are: its breaker stays closed and no allow()
\* goes beyond reading that (breaker.py:171-173, 197-199).
THEOREM HealthyServed == Spec /\ []up => []HealthyInv
<1>1. Init => HealthyInv BY DEF Init, HealthyInv, Served
<1> QED BY <1>1, HealthyStep, TypeCorrect, PTL DEF Spec
=============================================================================
