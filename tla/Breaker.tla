------------------------------- MODULE Breaker -------------------------------
(***************************************************************************)
(* C2, the circuit breaker of one provider (breaker.py): threads of several *)
(* workers ask allow(), call the provider and record how it went.  State,   *)
(* failure count, opened_at and the half-open lock are keys of Redis; the   *)
(* threads of one worker share a CircuitBreaker, whose thread lock keeps    *)
(* its handlers apart and whose token marks the half-open lock as its own.  *)
(* Each step below is one Redis round trip.  Time is kept as ages and       *)
(* remaining lifetimes, so that runs need no horizon.                       *)
(***************************************************************************)
EXTENDS Integers, FiniteSets

CONSTANTS
  Threads, Workers, WorkerOf,  \* who calls; the worker a thread belongs to
  Threshold,   \* failure_threshold
  Recovery,    \* recovery_seconds, in clock ticks
  Second,      \* clock ticks per second: int(expire) drops a fraction of it
  EvalWorks,   \* whether Redis answers EVAL
  Health,      \* what the provider may be: up (TRUE), down (FALSE) or either
  None,        \* no value: an absent key, no owner
  Dead,        \* the token of a worker that is gone
  MaxDisturbances  \* bound on worker deaths and calls of reset(), together

ASSUME WorkerAssumption == WorkerOf \in [Threads -> Workers] /\ None \notin Workers \cup {Dead}
                           /\ Dead \notin Workers
ASSUME NumberAssumption ==
  /\ Threshold \in Nat \ {0} /\ Second \in Nat \ {0}
  /\ Recovery \in Nat /\ Recovery >= Second
  /\ EvalWorks \in BOOLEAN /\ Health \subseteq BOOLEAN
  /\ MaxDisturbances \in Nat

VARIABLES
  state,     \* Redis: closed (also when absent), open or half_open
  failures,  \* Redis: the failure count; beyond Threshold it makes no difference
  openedAge, \* Redis: how long ago opened_at is, -1 when absent, at most Recovery
  lock,      \* Redis: owner of the half-open lock and its remaining lifetime
  up,        \* whether the provider answers
  pc,        \* where each thread is
  seenAge,   \* the age of the opened_at value a thread has read
  lease,     \* history: what is left of the lifetime of the lock a probe took
  orphans,   \* history: probes whose lock was deleted under them by a release
  crashes, resets  \* history: what the bound counts

redis == <<state, failures, openedAge, lock>>
vars  == <<redis, up, pc, seenAge, lease, orphans, crashes, resets>>

LockTtl == (Recovery \div Second) * Second
Free == [owner |-> None, ttl |-> 0]
Me(t) == WorkerOf[t]

\* Inside the thread lock of the worker's CircuitBreaker, after its first step.
Inside == {"getOpened", "compare", "setnxOpen", "setHalf", "setnxHalf",
           "setClosed", "release", "releaseDel", "setOpen", "setOpened"}
PCs == Inside \cup {"idle", "calling"}

NoThreadLock(t) == TRUE  \* mutant: handlers of one worker may overlap
LockIsFree(t) == \A s \in Threads \ {t} : Me(s) = Me(t) => pc[s] \notin Inside

Init ==
  /\ state = "closed" /\ failures = 0 /\ openedAge = -1 /\ lock = Free
  /\ up \in Health
  /\ pc = [t \in Threads |-> "idle"]
  /\ seenAge = [t \in Threads |-> -1]
  /\ lease = [t \in Threads |-> 0] /\ orphans = {}
  /\ crashes = 0 /\ resets = 0

Goto(t, from, to) == pc[t] = from /\ pc' = [pc EXCEPT ![t] = to]

-----------------------------------------------------------------------------
(* allow *)

\* Mutant: a half_open breaker never hands out another slot.
GetStateStrict(t) ==
  /\ LockIsFree(t)
  /\ Goto(t, "idle", CASE state = "closed" -> "calling"
                       [] state = "open" -> "getOpened"
                       [] state = "half_open" -> "idle")
  /\ UNCHANGED <<redis, up, seenAge, lease, orphans, crashes, resets>>

GetState(t) ==
  /\ LockIsFree(t)
  /\ Goto(t, "idle", CASE state = "closed" -> "calling"
                       [] state = "open" -> "getOpened"
                       [] state = "half_open" -> "setnxHalf")
  /\ UNCHANGED <<redis, up, seenAge, lease, orphans, crashes, resets>>

\* An OPEN breaker without opened_at lets the call through.
GetOpenedAt(t) ==
  /\ Goto(t, "getOpened", IF openedAge = -1 THEN "calling" ELSE "compare")
  /\ seenAge' = [seenAge EXCEPT ![t] = openedAge]
  /\ UNCHANGED <<redis, up, lease, orphans, crashes, resets>>

\* time.time() is taken here, after opened_at was read.
Compare(t) ==
  /\ Goto(t, "compare", IF seenAge[t] >= Recovery THEN "setnxOpen" ELSE "idle")
  /\ seenAge' = [seenAge EXCEPT ![t] = -1]
  /\ UNCHANGED <<redis, up, lease, orphans, crashes, resets>>

\* Mutants of the lock: SET without EX, without NX, and with a longer lifetime.
AcquireForever(t, from, to) ==
  /\ Goto(t, from, IF lock = Free THEN to ELSE "idle")
  /\ IF lock = Free
     THEN lock' = [owner |-> Me(t), ttl |-> -1]
     ELSE UNCHANGED lock
  /\ UNCHANGED <<state, failures, openedAge, up, seenAge, lease, orphans, crashes, resets>>
AcquireAnyway(t, from, to) ==
  /\ Goto(t, from, to)
  /\ lock' = [owner |-> Me(t), ttl |-> LockTtl]
  /\ lease' = [lease EXCEPT ![t] = LockTtl]
  /\ UNCHANGED <<state, failures, openedAge, up, seenAge, orphans, crashes, resets>>
AcquireLonger(t, from, to) ==
  /\ Goto(t, from, IF lock = Free THEN to ELSE "idle")
  /\ IF lock = Free
     THEN /\ lock' = [owner |-> Me(t), ttl |-> LockTtl + 1]
          /\ lease' = [lease EXCEPT ![t] = LockTtl]
     ELSE UNCHANGED <<lock, lease>>
  /\ UNCHANGED <<state, failures, openedAge, up, seenAge, orphans, crashes, resets>>

\* acquire_half_open_lock: SET NX EX.
Acquire(t, from, to) ==
  /\ Goto(t, from, IF lock = Free THEN to ELSE "idle")
  /\ IF lock = Free
     THEN /\ lock' = [owner |-> Me(t), ttl |-> LockTtl]
          /\ lease' = [lease EXCEPT ![t] = LockTtl]
     ELSE UNCHANGED <<lock, lease>>
  /\ UNCHANGED <<state, failures, openedAge, up, seenAge, orphans, crashes, resets>>

SetnxOpen(t) == Acquire(t, "setnxOpen", "setHalf")
SetnxHalf(t) == Acquire(t, "setnxHalf", "calling")

SetHalfOpen(t) ==
  /\ Goto(t, "setHalf", "calling")
  /\ state' = "half_open"
  /\ UNCHANGED <<failures, openedAge, lock, up, seenAge, lease, orphans, crashes, resets>>

Allow(t) == GetState(t) \/ GetOpenedAt(t) \/ Compare(t) \/ SetnxOpen(t) \/ SetHalfOpen(t) \/ SetnxHalf(t)

-----------------------------------------------------------------------------
(* record_success and record_failure.  A call ends when the thread, which then has *)
(* the thread lock, starts to record how it went: as the provider may change at any *)
(* time, it makes no difference how long before the provider has answered.         *)

ResetFailureCount(t) ==
  /\ LockIsFree(t)
  /\ up /\ Goto(t, "calling", "setClosed")
  /\ failures' = 0
  /\ UNCHANGED <<state, openedAge, lock, up, seenAge, lease, orphans, crashes, resets>>

SetClosed(t) ==
  /\ Goto(t, "setClosed", "release")
  /\ state' = "closed"
  /\ UNCHANGED <<failures, openedAge, lock, up, seenAge, lease, orphans, crashes, resets>>

\* The call is over, and so is the lease of a probe; others lose their locks.
Done(t, losers) ==
  /\ lease' = [lease EXCEPT ![t] = 0]
  /\ orphans' = (orphans \cup {s \in losers : lease[s] > 0}) \ {t}
Siblings(t) == {s \in Threads : Me(s) = Me(t)}

\* Mutant: DEL without comparing the token.
ReleaseAny(t) ==
  /\ EvalWorks
  /\ Goto(t, "release", "idle")
  /\ lock' = Free
  /\ Done(t, Siblings(t))
  /\ UNCHANGED <<state, failures, openedAge, up, seenAge, crashes, resets>>

\* release_half_open_lock, EVAL: compare and delete at once.  The token is the
\* worker's, so any success of its threads deletes the lock one of them probes on.
Release(t) ==
  /\ EvalWorks
  /\ Goto(t, "release", "idle")
  /\ IF lock.owner = Me(t) THEN lock' = Free /\ Done(t, Siblings(t))
     ELSE UNCHANGED lock /\ Done(t, {})
  /\ UNCHANGED <<state, failures, openedAge, up, seenAge, crashes, resets>>

\* The same without EVAL: GET, and DEL if the token was ours.
ReleaseGet(t) ==
  /\ ~EvalWorks
  /\ Goto(t, "release", IF lock.owner = Me(t) THEN "releaseDel" ELSE "idle")
  /\ IF lock.owner = Me(t) THEN UNCHANGED <<lease, orphans>> ELSE Done(t, {})
  /\ UNCHANGED <<redis, up, seenAge, crashes, resets>>

ReleaseDel(t) ==
  /\ Goto(t, "releaseDel", "idle")
  /\ lock' = Free
  /\ Done(t, Threads)
  /\ UNCHANGED <<state, failures, openedAge, up, seenAge, crashes, resets>>

\* INCR; its reply decides.
IncrementFailureCount(t) ==
  LET count == IF failures < Threshold THEN failures + 1 ELSE Threshold
  IN  /\ LockIsFree(t)
      /\ failures' = count
      /\ ~up /\ Goto(t, "calling", IF count >= Threshold THEN "setOpen" ELSE "idle")
      /\ IF count >= Threshold THEN UNCHANGED <<lease, orphans>> ELSE Done(t, {})
      /\ UNCHANGED <<state, openedAge, lock, up, seenAge, crashes, resets>>

SetOpen(t) ==
  /\ Goto(t, "setOpen", "setOpened")
  /\ state' = "open"
  /\ UNCHANGED <<failures, openedAge, lock, up, seenAge, lease, orphans, crashes, resets>>

\* The half-open lock is left to expire.
SetOpenedAt(t) ==
  /\ Goto(t, "setOpened", "idle")
  /\ openedAge' = 0
  /\ Done(t, {})
  /\ UNCHANGED <<state, failures, lock, up, seenAge, crashes, resets>>

RecordSuccess(t) == ResetFailureCount(t) \/ SetClosed(t) \/ Release(t) \/ ReleaseGet(t) \/ ReleaseDel(t)
RecordFailure(t) == IncrementFailureCount(t) \/ SetOpen(t) \/ SetOpenedAt(t)

-----------------------------------------------------------------------------
(* reset, time, the provider, and workers that die *)

\* One DEL of the four keys.  The thread lock is taken and given back before.
Reset ==
  /\ crashes + resets < MaxDisturbances /\ resets' = resets + 1
  /\ state' = "closed" /\ failures' = 0 /\ openedAge' = -1 /\ lock' = Free
  /\ UNCHANGED <<up, pc, seenAge, lease, orphans, crashes>>

Older(age) == IF age = -1 \/ age >= Recovery THEN age ELSE age + 1

Tick ==
  /\ openedAge' = Older(openedAge)
  /\ seenAge' = [t \in Threads |-> Older(seenAge[t])]
  /\ lock' = CASE lock.ttl > 1 -> [lock EXCEPT !.ttl = @ - 1]
               [] lock.ttl = 1 -> Free
               [] OTHER -> lock
  /\ lease' = [t \in Threads |-> IF lease[t] = 0 THEN 0 ELSE lease[t] - 1]
  /\ orphans' = {t \in orphans : lease[t] > 1}
  /\ UNCHANGED <<state, failures, up, pc, crashes, resets>>

ProviderChanges ==
  /\ up' \in Health \ {up}
  /\ UNCHANGED <<redis, pc, seenAge, lease, orphans, crashes, resets>>

\* A worker dies in the middle of anything.  Its successor has a new token.
Crash(w) ==
  LET of == {t \in Threads : Me(t) = w}
      Clear(f, v) == [t \in Threads |-> IF t \in of THEN v ELSE f[t]]
  IN  /\ crashes + resets < MaxDisturbances /\ crashes' = crashes + 1
      /\ pc' = Clear(pc, "idle") /\ seenAge' = Clear(seenAge, -1)
      /\ lease' = Clear(lease, 0) /\ orphans' = orphans \ of
      /\ lock' = IF lock.owner = w THEN [lock EXCEPT !.owner = Dead] ELSE lock
      /\ UNCHANGED <<state, failures, openedAge, up, resets>>

Step(t) == Allow(t) \/ RecordSuccess(t) \/ RecordFailure(t)
Next == (\E t \in Threads : Step(t)) \/ (\E w \in Workers : Crash(w))
        \/ Reset \/ Tick \/ ProviderChanges

Spec == Init /\ [][Next]_vars

\* Requests keep coming, every thread in a call goes on, and time passes.
Fairness == WF_vars(Tick) /\ \A t \in Threads : WF_vars(Step(t))
FairSpec == Spec /\ Fairness

-----------------------------------------------------------------------------
(* Properties *)

TypeOK ==
  /\ state \in {"closed", "open", "half_open"}
  /\ failures \in 0..Threshold /\ openedAge \in -1..Recovery
  /\ lock \in [owner : Workers \cup {None, Dead}, ttl : 0..LockTtl]
  /\ up \in BOOLEAN
  /\ pc \in [Threads -> PCs]
  /\ seenAge \in [Threads -> -1..Recovery]
  /\ lease \in [Threads -> 0..LockTtl] /\ orphans \subseteq Threads
  /\ crashes \in Nat /\ resets \in Nat

Holding(t) == lease[t] > 0 /\ t \notin orphans

\* While its lease lasts, a probe owns the half-open lock and the lock lives as
\* long as the lease: the late successes of other workers, which release too
\* (breaker.py:199), deaths and expiry never take it away or hand it on.  Three
\* things do: reset(), a late success of a thread of the probe's own worker, whose
\* token is the same (breaker.py:52, 102), and the DEL of a release without EVAL
\* (breaker.py:106).
LeaseIsLock ==
  resets = 0 => \A t \in Threads : Holding(t) => lock = [owner |-> Me(t), ttl |-> lease[t]]

\* So of two probes inside their leases, one has lost its lock to one of these
\* (SCALING.md:54-55 has no such probes).
OneLease == resets = 0 => \A s, t \in Threads : Holding(s) /\ Holding(t) => s = t

\* The breaker never shuts a provider out for ever, healthy or not: some call
\* is always admitted again, also after a probe died holding the lock.
KeepsProbing == []<>(\E t \in Threads : pc[t] = "calling")

\* When the provider stays up, the breaker closes and stays closed.
Recovers == <>[]up => <>[](state = "closed")

SomeAt(places) == \E t \in Threads : pc[t] \in places

\* The one breaker the threads see.  An allow() that gets the lock counts from its
\* SETNX, a record_success from its DEL and a record_failure from its INCR.
Seen ==
  [state    |-> IF SomeAt({"setOpen"}) THEN "open"
                ELSE IF SomeAt({"setHalf"}) THEN "half_open"
                ELSE IF SomeAt({"setClosed"}) THEN "closed" ELSE state,
   failures |-> failures,
   age      |-> IF SomeAt({"setOpen", "setOpened"}) THEN 0 ELSE openedAge,
   slot     |-> IF SomeAt({"setClosed", "release", "releaseDel"}) THEN 0 ELSE lock.ttl]
Opening == SomeAt({"setOpen", "setOpened"})
InCall == {"setHalf", "calling"}
Busy == {t \in Threads : pc[t] \in InCall}

FSM == INSTANCE BreakerFSM WITH
  breaker <- Seen, opening <- Opening, busy <- Busy, SlotTtl <- LockTtl

\* The threads of one worker, kept apart by the thread lock (breaker.py:169,
\* 196, 207), see the three-state machine with atomic operations.
IsFSM == FSM!Spec

-----------------------------------------------------------------------------
(* What the documentation says and the code does not do *)

\* breaker.py:127, "when it reaches failure_threshold, sets state=OPEN":
\* once nobody is in a handler, a count at the threshold means the breaker is
\* not closed.
FailuresTrip ==
  (\A t \in Threads : pc[t] \notin Inside) /\ failures >= Threshold => state # "closed"
=============================================================================
