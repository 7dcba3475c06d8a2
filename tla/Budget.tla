------------------------------- MODULE Budget -------------------------------
(***************************************************************************)
(* C1, the per-user dollar budget (budget.py): worker threads reserve an    *)
(* estimate before a model call and reconcile it afterwards, against        *)
(* counters kept in Redis.  Each step below is one Redis round trip, so     *)
(* every interleaving of the WATCH/MULTI/EXEC loops of several workers is   *)
(* explored, together with window expiry, administrative calls, connections *)
(* that drop and workers that die half way.  Amounts are micro-dollars;     *)
(* time is a shared clock.                                                  *)
(***************************************************************************)
EXTENDS Totals

CONSTANTS
  Clients,        \* threads of all workers; each runs one call at a time
  Users,          \* user ids as callers spell them
  Uid,            \* the id with ":" replaced by "_", which names the keys
  Ests,           \* estimates callers may ask for (0: rounds to nothing)
  Overrun,        \* how far the actual cost may exceed the estimate
  DefaultLimit, DefaultWindow,  \* limit and window of a user without set_budget
  LimitArgs, WindowArgs,        \* arguments set_budget may be called with
  Second,         \* clock ticks per second: int(window) drops a fraction of it
  MaxTime, MaxCalls, MaxAdmin, MaxFaults  \* bounds on clock, calls, admin, faults

ASSUME ClientsAssumption == IsFiniteSet(Clients)
ASSUME UidAssumption ==
  /\ Users # {} /\ Uid \in [Users -> Users]
  /\ \A u \in Users : Uid[Uid[u]] = Uid[u]
ASSUME AmountAssumption ==
  /\ Ests \subseteq Nat /\ Overrun \in Nat
  /\ DefaultLimit \in Nat /\ LimitArgs \subseteq Nat
ASSUME TimeAssumption ==
  /\ Second \in Nat \ {0} /\ DefaultWindow \in Nat /\ WindowArgs \subseteq Nat \ {0}
  /\ \A w \in WindowArgs \cup {DefaultWindow} : w >= Second
ASSUME BoundAssumption ==
  /\ MaxTime \in Nat /\ MaxCalls \in Nat /\ MaxAdmin \in Nat /\ MaxFaults \in Nat

VARIABLES
  acct,     \* Redis, per account: reserved, spent, window_start and its expiry
  limits,   \* Redis, cow:budget:<id>:limit, DefaultLimit where absent
  windows,  \* Redis, cow:budget:<id>:window, DefaultWindow where absent
  clock,
  pc,       \* where each client is
  call,     \* the arguments of its call
  terms,    \* limit, window and now as check_and_reserve read them
  seen,     \* reserved and spent as the current transaction read them
  dirty,    \* Redis' mark that a key this client watches was written
  current,  \* history: its reservation was made in the running window
  leaked,   \* history: reservations of the running window that nobody will release
  lost,     \* history: transactions that went through and whose reply was lost
  calls, admin, faults          \* history: what the bounds count

store == <<acct, limits, windows, clock>>
local == <<pc, call, terms, seen>>
counts == <<calls, admin, faults>>
vars == <<store, local, dirty, current, leaked, lost, counts>>

NoCall  == [user |-> CHOOSE u \in Users : TRUE, est |-> 0, actual |-> 0]
NoTerms == [limit |-> 0, window |-> 0, now |-> 0]
NoSeen  == [reserved |-> 0, spent |-> 0]

Ttl(w) == (w \div Second) * Second
SignedLess(x, y) == x - y  \* mutant: the max(0, ...) of record_actual forgotten
LessButNotNegative(x, y) == IF x > y THEN x - y ELSE 0

Account(c) == Uid[call[c].user]
HasWindow(a) == clock < acct[a].expires

\* The transaction a client is in, by its program counter.
Reserving == {"getWindow", "getReserved", "getSpent", "execOpen", "execRoll", "execAdd"}
Settling  == {"getReservedS", "getSpentS", "execSettle"}
Exec      == {"execOpen", "execRoll", "execAdd", "execSettle"}
PCs == {"idle", "limit", "window", "watch", "calling", "watchS"} \cup Reserving \cup Settling

\* Mutants: one key missing from the WATCH of a transaction.
WatchedButReserved(c) == IF pc[c] \in Reserving THEN {"window", "spent"}
                         ELSE IF pc[c] \in Settling THEN {"reserved", "spent"} ELSE {}
WatchedButWindow(c) == IF pc[c] \in Reserving THEN {"reserved", "spent"}
                       ELSE IF pc[c] \in Settling THEN {"reserved", "spent"} ELSE {}
WatchedSpentOnly(c) == IF pc[c] \in Reserving THEN {"window", "reserved", "spent"}
                       ELSE IF pc[c] \in Settling THEN {"spent"} ELSE {}

WatchedBy(c) == IF pc[c] \in Reserving THEN {"window", "reserved", "spent"}
                ELSE IF pc[c] \in Settling THEN {"reserved", "spent"} ELSE {}

\* Writing keys of account a marks every other client that watches one of them.
Touched(a, keys, others) ==
  [c \in Clients |-> dirty[c] \/ (c \in others /\ Account(c) = a /\ WatchedBy(c) \cap keys # {})]

Init ==
  /\ acct = [u \in Users |-> [reserved |-> 0, spent |-> 0, start |-> 0, expires |-> 0]]
  /\ limits = [u \in Users |-> DefaultLimit]
  /\ windows = [u \in Users |-> DefaultWindow]
  /\ clock = 0
  /\ pc = [c \in Clients |-> "idle"]
  /\ call = [c \in Clients |-> NoCall]
  /\ terms = [c \in Clients |-> NoTerms]
  /\ seen = [c \in Clients |-> NoSeen]
  /\ dirty = [c \in Clients |-> FALSE]
  /\ current = [c \in Clients |-> FALSE]
  /\ leaked = [u \in Users |-> 0]
  /\ lost = 0 /\ calls = 0 /\ admin = 0 /\ faults = 0

Goto(c, from, to) == pc[c] = from /\ pc' = [pc EXCEPT ![c] = to]

\* A function returns: its local variables are gone.
Return(c) ==
  /\ terms' = [terms EXCEPT ![c] = NoTerms]
  /\ seen' = [seen EXCEPT ![c] = NoSeen]

\* The whole call is over.
Forget(c) == call' = [call EXCEPT ![c] = NoCall] /\ Return(c)

-----------------------------------------------------------------------------
(* check_and_reserve *)

StartReserve(c) ==
  /\ calls < MaxCalls
  /\ \E u \in Users, e \in Ests :
       /\ call' = [call EXCEPT ![c] = [user |-> u, est |-> e, actual |-> 0]]
       /\ Goto(c, "idle", IF e = 0 THEN "calling" ELSE "limit")
  /\ calls' = calls + 1
  /\ UNCHANGED <<store, terms, seen, dirty, current, leaked, lost, admin, faults>>

ReadLimit(c) ==
  /\ Goto(c, "limit", "window")
  /\ terms' = [terms EXCEPT ![c].limit = limits[call[c].user]]
  /\ UNCHANGED <<store, call, seen, dirty, current, leaked, lost, counts>>

ReadWindow(c) ==
  /\ Goto(c, "window", "watch")
  /\ terms' = [terms EXCEPT ![c].window = windows[call[c].user], ![c].now = clock]
  /\ UNCHANGED <<store, call, seen, dirty, current, leaked, lost, counts>>

WatchReserve(c) ==
  /\ Goto(c, "watch", "getWindow")
  /\ dirty' = [dirty EXCEPT ![c] = FALSE]
  /\ UNCHANGED <<store, call, terms, seen, current, leaked, lost, counts>>

WindowElapsed(c) == terms[c].now - acct[Account(c)].start >= terms[c].window

GetWindow(c) ==
  /\ Goto(c, "getWindow", IF ~HasWindow(Account(c)) THEN "execOpen"
                          ELSE IF WindowElapsed(c) THEN "execRoll" ELSE "getReserved")
  /\ UNCHANGED <<store, call, terms, seen, dirty, current, leaked, lost, counts>>

GetReserved(c) ==
  /\ Goto(c, "getReserved", "getSpent")
  /\ seen' = [seen EXCEPT ![c].reserved = acct[Account(c)].reserved]
  /\ UNCHANGED <<store, call, terms, dirty, current, leaked, lost, counts>>

\* Mutants: a call that just fits is refused; the check leaves the estimate out.
OverflowsAtLimit(c, spent) == spent + seen[c].reserved + call[c].est >= terms[c].limit
OverflowsBefore(c, spent) == spent + seen[c].reserved > terms[c].limit

Overflows(c, spent) == spent + seen[c].reserved + call[c].est > terms[c].limit

\* spent fits: go on to the transaction.
GetSpent(c) ==
  /\ ~Overflows(c, acct[Account(c)].spent)
  /\ Goto(c, "getSpent", "execAdd")
  /\ seen' = [seen EXCEPT ![c].spent = acct[Account(c)].spent]
  /\ UNCHANGED <<store, call, terms, dirty, current, leaked, lost, counts>>

\* spent does not fit: BudgetExceededError, raised without an EXEC.
Reject(c) ==
  /\ Overflows(c, acct[Account(c)].spent)
  /\ Goto(c, "getSpent", "idle")
  /\ Forget(c)
  /\ dirty' = [dirty EXCEPT ![c] = FALSE]
  /\ UNCHANGED <<store, current, leaked, lost, counts>>

\* An EXEC of client c that goes through: its account becomes v, c moves on.
Commit(c, from, to, v, keys) ==
  /\ ~dirty[c]
  /\ Goto(c, from, to)
  /\ acct' = [acct EXCEPT ![Account(c)] = v]
  /\ dirty' = Touched(Account(c), keys, Clients \ {c})
  /\ UNCHANGED <<limits, windows, clock>>

\* No window_start key: SET it and SET reserved.  spent is left as it is.
Opened(c) == [acct[Account(c)] EXCEPT !.reserved = call[c].est, !.start = terms[c].now,
                                      !.expires = clock + Ttl(terms[c].window)]

\* window_start is there but old: DEL both counters, then the same two SETs.
Rolled(c) == [reserved |-> call[c].est, spent |-> 0, start |-> terms[c].now,
              expires |-> clock + Ttl(terms[c].window)]

\* Inside a window: SET reserved to the value read plus the estimate.
Added(c) == [acct[Account(c)] EXCEPT !.reserved = seen[c].reserved + call[c].est]

\* A fresh window: what others hold was reserved in an earlier one.
NewWindow(c) ==
  /\ current' = [d \in Clients |-> d = c \/ (current[d] /\ Account(d) # Account(c))]
  /\ leaked' = [leaked EXCEPT ![Account(c)] = 0]
  /\ Return(c) /\ UNCHANGED <<call, lost, counts>>

ExecOpen(c) ==
  /\ Commit(c, "execOpen", "calling", Opened(c), {"window", "reserved"})
  /\ NewWindow(c)

ExecRoll(c) ==
  /\ Commit(c, "execRoll", "calling", Rolled(c), {"window", "reserved", "spent"})
  /\ NewWindow(c)

ExecAdd(c) ==
  /\ Commit(c, "execAdd", "calling", Added(c), {"reserved"})
  /\ current' = [current EXCEPT ![c] = TRUE]
  /\ Return(c) /\ UNCHANGED <<call, leaked, lost, counts>>

\* The transaction is over and the loop goes round again.
Retry(c) ==
  /\ pc' = [pc EXCEPT ![c] = IF @ \in Settling THEN "watchS" ELSE "watch"]
  /\ seen' = [seen EXCEPT ![c] = NoSeen]
  /\ dirty' = [dirty EXCEPT ![c] = FALSE]
  /\ UNCHANGED <<call, terms>>

\* Mutant: the loop reads again on the same connection without a new WATCH.
AbortUnwatched(c) ==
  /\ pc[c] \in Exec /\ dirty[c]
  /\ pc' = [pc EXCEPT ![c] = IF @ = "execSettle" THEN "getReservedS" ELSE "getWindow"]
  /\ seen' = [seen EXCEPT ![c] = NoSeen]
  /\ UNCHANGED <<store, call, terms, dirty, current, leaked, lost, counts>>

\* EXEC returns nil, WatchError: go round the loop again, with the same now.
Abort(c) ==
  /\ pc[c] \in Exec /\ dirty[c] /\ Retry(c)
  /\ UNCHANGED <<store, current, leaked, lost, counts>>

-----------------------------------------------------------------------------
(* record_actual *)

\* The model call is over; nothing to reconcile when both amounts are zero.
StartSettle(c) ==
  /\ \E cost \in 0..(call[c].est + Overrun) :
       IF call[c].est = 0 /\ cost = 0
       THEN Goto(c, "calling", "idle") /\ Forget(c)
       ELSE /\ Goto(c, "calling", "watchS")
            /\ call' = [call EXCEPT ![c].actual = cost]
            /\ UNCHANGED <<terms, seen>>
  /\ UNCHANGED <<store, dirty, current, leaked, lost, counts>>

WatchSettle(c) ==
  /\ Goto(c, "watchS", "getReservedS")
  /\ dirty' = [dirty EXCEPT ![c] = FALSE]
  /\ UNCHANGED <<store, call, terms, seen, current, leaked, lost, counts>>

GetReservedS(c) ==
  /\ Goto(c, "getReservedS", "getSpentS")
  /\ seen' = [seen EXCEPT ![c].reserved = acct[Account(c)].reserved]
  /\ UNCHANGED <<store, call, terms, dirty, current, leaked, lost, counts>>

GetSpentS(c) ==
  /\ Goto(c, "getSpentS", "execSettle")
  /\ seen' = [seen EXCEPT ![c].spent = acct[Account(c)].spent]
  /\ UNCHANGED <<store, call, terms, dirty, current, leaked, lost, counts>>

\* Mutant: releases what the call cost instead of what it had reserved.
SettledActual(c) ==
  [acct[Account(c)] EXCEPT
     !.spent = seen[c].spent + call[c].actual,
     !.reserved = LessButNotNegative(seen[c].reserved, call[c].actual)]

Settled(c) ==
  [acct[Account(c)] EXCEPT
     !.spent = seen[c].spent + call[c].actual,
     !.reserved = LessButNotNegative(seen[c].reserved, call[c].est)]

ExecSettle(c) ==
  /\ Commit(c, "execSettle", "idle", Settled(c), {"reserved", "spent"})
  /\ Forget(c)
  /\ current' = [current EXCEPT ![c] = FALSE]
  /\ UNCHANGED <<leaked, lost, counts>>

-----------------------------------------------------------------------------
(* set_budget, reset, time and faults *)

\* One MULTI/EXEC; a window argument of None (0) leaves the stored one alone.
SetBudget(u, l, w) ==
  /\ admin < MaxAdmin /\ admin' = admin + 1
  /\ limits' = [limits EXCEPT ![Uid[u]] = l]
  /\ windows' = IF w = 0 THEN windows ELSE [windows EXCEPT ![Uid[u]] = w]
  /\ acct' = [acct EXCEPT ![Uid[u]].start = clock,
                          ![Uid[u]].expires = clock + Ttl(IF w = 0 THEN DefaultWindow ELSE w)]
  /\ dirty' = Touched(Uid[u], {"window"}, Clients)
  /\ UNCHANGED <<clock, local, current, leaked, lost, calls, faults>>

\* One DEL of the three keys (taken as a write even where they are absent).
Reset(u) ==
  /\ admin < MaxAdmin /\ admin' = admin + 1
  /\ acct' = [acct EXCEPT ![Uid[u]] = [reserved |-> 0, spent |-> 0, start |-> 0, expires |-> 0]]
  /\ dirty' = Touched(Uid[u], {"window", "reserved", "spent"}, Clients)
  /\ current' = [c \in Clients |-> current[c] /\ Account(c) # Uid[u]]
  /\ leaked' = [leaked EXCEPT ![Uid[u]] = 0]
  /\ UNCHANGED <<limits, windows, clock, local, lost, calls, faults>>

\* Time passes; a window key that reaches its expiry is gone, and that counts
\* as a write for those who watch it.
Tick ==
  /\ clock < MaxTime /\ clock' = clock + 1
  /\ dirty' = [c \in Clients |-> dirty[c] \/ ("window" \in WatchedBy(c)
                                              /\ acct[Account(c)].expires = clock + 1)]
  /\ UNCHANGED <<acct, limits, windows, local, current, leaked, lost, counts>>

CountFault == faults < MaxFaults /\ faults' = faults + 1 /\ UNCHANGED <<calls, admin>>

Holds(c) == pc[c] \in {"calling", "watchS"} \cup Settling

\* A worker dies: what it had reserved stays reserved.
Crash(c) ==
  /\ CountFault
  /\ pc[c] # "idle" /\ pc' = [pc EXCEPT ![c] = "idle"]
  /\ leaked' = IF Holds(c) /\ current[c]
               THEN [leaked EXCEPT ![Account(c)] = @ + call[c].est] ELSE leaked
  /\ Forget(c)
  /\ dirty' = [dirty EXCEPT ![c] = FALSE]
  /\ current' = [current EXCEPT ![c] = FALSE]
  /\ UNCHANGED <<store, lost>>

\* The connection drops while keys are watched, and Redis has not run the EXEC:
\* redis-py raises WatchError.
Disconnect(c) ==
  /\ CountFault
  /\ pc[c] \in Reserving \cup Settling /\ Retry(c)
  /\ UNCHANGED <<store, current, leaked, lost>>

\* It drops after Redis has run the EXEC: the same WatchError, and what has been
\* reserved or charged is reserved or charged again.
LoseReply(c) ==
  /\ CountFault /\ lost' = lost + 1
  /\ \/ /\ \/ Commit(c, "execOpen", "watch", Opened(c), {"window", "reserved"})
           \/ Commit(c, "execRoll", "watch", Rolled(c), {"window", "reserved", "spent"})
        /\ current' = [d \in Clients |-> current[d] /\ Account(d) # Account(c)]
        /\ leaked' = [leaked EXCEPT ![Account(c)] = call[c].est]
     \/ /\ Commit(c, "execAdd", "watch", Added(c), {"reserved"})
        /\ leaked' = [leaked EXCEPT ![Account(c)] = @ + call[c].est]
        /\ UNCHANGED current
     \/ /\ Commit(c, "execSettle", "watchS", Settled(c), {"reserved", "spent"})
        /\ current' = [current EXCEPT ![c] = FALSE]
        /\ UNCHANGED leaked
  /\ seen' = [seen EXCEPT ![c] = NoSeen]
  /\ UNCHANGED <<call, terms>>

Fault(c) == Crash(c) \/ Disconnect(c) \/ LoseReply(c)
Reserve(c) ==
  \/ StartReserve(c) \/ ReadLimit(c) \/ ReadWindow(c) \/ WatchReserve(c) \/ GetWindow(c)
  \/ GetReserved(c) \/ GetSpent(c) \/ Reject(c) \/ ExecOpen(c) \/ ExecRoll(c) \/ ExecAdd(c)
Settle(c) ==
  \/ StartSettle(c) \/ WatchSettle(c) \/ GetReservedS(c) \/ GetSpentS(c) \/ ExecSettle(c)
Admin == \E u \in Users :
  \/ \E l \in LimitArgs, w \in WindowArgs \cup {0} : SetBudget(u, l, w)
  \/ Reset(u)

Next == (\E c \in Clients : Reserve(c) \/ Settle(c) \/ Abort(c) \/ Fault(c)) \/ Tick \/ Admin

Spec == Init /\ [][Next]_vars

\* A thread inside a call keeps running: Redis answers, the model call ends.
Fairness == \A c \in Clients : WF_vars(pc[c] # "idle" /\ (Reserve(c) \/ Settle(c) \/ Abort(c)))
FairSpec == Spec /\ Fairness

-----------------------------------------------------------------------------
(* Properties *)

Amounts == [reserved : Nat, spent : Nat]

\* Every variable keeps its type: counters never go below zero.
TypeOK ==
  /\ acct \in [Users -> [reserved : Nat, spent : Nat, start : Nat, expires : Nat]]
  /\ limits \in [Users -> Nat] /\ windows \in [Users -> Nat] /\ clock \in Nat
  /\ pc \in [Clients -> PCs]
  /\ call \in [Clients -> [user : Users, est : Nat, actual : Nat]]
  /\ terms \in [Clients -> [limit : Nat, window : Nat, now : Nat]]
  /\ seen \in [Clients -> Amounts]
  /\ dirty \in [Clients -> BOOLEAN] /\ current \in [Clients -> BOOLEAN]
  /\ leaked \in [Users -> Nat]
  /\ lost \in Nat /\ calls \in Nat /\ admin \in Nat /\ faults \in Nat

WindowFresh(c) == HasWindow(Account(c)) /\ ~WindowElapsed(c)

\* What a clean client concluded from its reads is still true of the store.
Faithful(c) ==
  /\ pc[c] \in {"getSpent", "execAdd", "getSpentS", "execSettle"}
       => seen[c].reserved = acct[Account(c)].reserved
  /\ pc[c] \in {"execAdd", "execSettle"} => seen[c].spent = acct[Account(c)].spent
  /\ pc[c] = "execOpen" => ~HasWindow(Account(c))
  /\ pc[c] = "execRoll" => HasWindow(Account(c)) /\ WindowElapsed(c)
  /\ pc[c] \in {"getReserved", "getSpent", "execAdd"} => WindowFresh(c)

\* WATCH does its job (budget.py:106, 150): as long as Redis would still let a
\* transaction through, everything its branch was chosen on, the window's
\* presence and age, reserved and spent, is what the store holds now, whatever
\* other workers, administrators and expiry did between the reads.
SnapshotFaithful ==
  \A c \in Clients :
    /\ ~dirty[c] => Faithful(c)
    /\ pc[c] = "execAdd" => ~Overflows(c, seen[c].spent)

AdmitsWithinLimit ==
  \A c \in Clients : pc[c] \in Reserving /\ pc'[c] = "calling" =>
    IF WindowFresh(c)
    THEN acct'[Account(c)].spent + acct'[Account(c)].reserved <= terms[c].limit
    ELSE acct'[Account(c)].reserved = call[c].est

\* An admission inside a running window leaves spent plus reserved, as the store
\* holds them at that instant, within the limit read (budget.py:92); the one
\* that nobody compares with the limit (budget.py:111, 119) finds no window
\* running and is the only reservation of the one it opens.
AdmissionFits == [][AdmitsWithinLimit]_vars

RefusesForCause ==
  \A c \in Clients : pc[c] = "getSpent" /\ pc'[c] = "idle" /\ faults' = faults /\ ~dirty[c] =>
    acct[Account(c)].spent + acct[Account(c)].reserved + call[c].est > terms[c].limit

\* No EXEC validates a refusal (budget.py:122-129), and the two counters come
\* from two round trips: a call that would fit is refused only if another
\* transaction, an administrator or expiry came between them.
RefusalJustified == [][RefusesForCause]_vars

Holders(u) == {c \in Clients : Holds(c) /\ current[c] /\ Account(c) = u}
Outstanding(u) == Total([c \in Clients |-> call[c].est], Holders(u))

\* While no window ends, the reserved counter is exactly what the calls in
\* flight have reserved, plus what dead workers left behind: no update of
\* check_and_reserve or record_actual is lost or applied twice.
ReservedMatchesOutstanding ==
  \A u \in Users : acct[u].reserved = Outstanding(u) + leaked[u]

\* Across windows, late settlements and resets the counter never holds more
\* than that: a settlement that crosses a rollover (budget.py:154) cannot leave
\* budget blocked that nobody is using; a worker that died, or a reservation made
\* twice because its reply was lost, can.
NoPhantomReservation ==
  \A u \in Users : acct[u].reserved <= Outstanding(u) + leaked[u]

\* The promise to the user (budget.py:92) over a whole window: when estimates
\* are at most the limit and actual costs at most the estimates, money charged
\* and money reserved together never pass the limit, however calls interleave.
BudgetNeverExceeded ==
  \A u \in Users : acct[u].spent + acct[u].reserved <= limits[u]

\* The retry loops end (budget.py:103, 147): every call that starts comes to an
\* answer, since a transaction only fails when another one has gone through.
EveryCallReturns == \A c \in Clients : pc[c] # "idle" ~> pc[c] = "idle"

Phase(p) == CASE p \in {"limit", "window"} -> "asking"
              [] p \in {"watch"} \cup Reserving -> "reserving"
              [] p \in {"watchS"} \cup Settling -> "settling"
              [] OTHER -> p

Ledger == INSTANCE BudgetLedger WITH phase <- [c \in Clients |-> Phase(pc[c])]

\* The WATCH/MULTI/EXEC loops implement reservations and settlements that take
\* effect at one instant (budget.py:14-16, "Atomicity"), once, and once more for
\* every reply that was lost.
IsLedger == Ledger!Spec

-----------------------------------------------------------------------------
(* What the documentation says and the code does not do *)

\* tests/test_failures.py:44, "After window expires, reserved/spent must reset
\* to 0": a window that opens because the old one is over starts from spent 0.
FreshWindowClearsSpend ==
  [][\A c \in Clients : pc[c] \in {"execOpen", "execRoll"} /\ pc'[c] = "calling" =>
       acct'[Account(c)].spent = 0]_vars
=============================================================================
