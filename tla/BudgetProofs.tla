---------------------------- MODULE BudgetProofs ----------------------------
(* Theorems about Budget, for every number of clients, users and amounts. *)
EXTENDS Budget, TotalTheorems

\* set_budget and check_and_reserve give the window key a lifetime in Nat.
LEMMA TtlNat == ASSUME NEW w \in Nat PROVE Ttl(w) \in Nat
<1>1. /\ Second \in Nat \ {0} BY TimeAssumption
<1>2. w \div Second \in Nat BY <1>1
<1>3. \A x, y \in Nat : x * y \in Nat OBVIOUS
<1> QED BY <1>1, <1>2, <1>3 DEF Ttl

\* An account is one of the users, and each client has one.
LEMMA AccountType ==
  ASSUME TypeOK, NEW c \in Clients PROVE Account(c) \in Users
BY UidAssumption DEF TypeOK, Account

\* An account whose fields are overwritten with naturals is still an account.
LEMMA AccountFields ==
  ASSUME NEW a \in [reserved : Nat, spent : Nat, start : Nat, expires : Nat],
         NEW x \in Nat, NEW y \in Nat, NEW z \in Nat
  PROVE /\ [a EXCEPT !.reserved = x, !.start = y, !.expires = z]
             \in [reserved : Nat, spent : Nat, start : Nat, expires : Nat]
        /\ [a EXCEPT !.spent = x, !.reserved = y]
             \in [reserved : Nat, spent : Nat, start : Nat, expires : Nat]
        /\ [a EXCEPT !.start = x, !.expires = y]
             \in [reserved : Nat, spent : Nat, start : Nat, expires : Nat]
OBVIOUS

LEMMA InitType == Init => TypeOK
<1> SUFFICES ASSUME Init PROVE TypeOK
  OBVIOUS
<1>1. NoCall \in [user : Users, est : Nat, actual : Nat]
  BY UidAssumption DEF NoCall
<1>2. "idle" \in PCs
  BY DEF PCs
<1> QED BY <1>1, <1>2, AmountAssumption, TimeAssumption
        DEF Init, TypeOK, NoTerms, NoSeen, Amounts

LEMMA ForgetType ==
  ASSUME TypeOK, NEW c \in Clients, Forget(c)
  PROVE /\ call' \in [Clients -> [user : Users, est : Nat, actual : Nat]]
        /\ terms' \in [Clients -> [limit : Nat, window : Nat, now : Nat]]
        /\ seen' \in [Clients -> Amounts]
<1>1. NoCall \in [user : Users, est : Nat, actual : Nat]
  BY UidAssumption DEF NoCall
<1> QED BY <1>1 DEF Forget, Return, TypeOK, NoTerms, NoSeen, Amounts

LEMMA ReturnType ==
  ASSUME TypeOK, NEW c \in Clients, Return(c)
  PROVE /\ terms' \in [Clients -> [limit : Nat, window : Nat, now : Nat]]
        /\ seen' \in [Clients -> Amounts]
BY DEF Return, TypeOK, NoTerms, NoSeen, Amounts

LEMMA GotoType ==
  ASSUME TypeOK, NEW c \in Clients, NEW from, NEW to \in PCs, Goto(c, from, to)
  PROVE pc' \in [Clients -> PCs]
BY DEF Goto, TypeOK

LEMMA CommitType ==
  ASSUME TypeOK, NEW c \in Clients, NEW from, NEW to \in PCs, NEW keys,
         NEW v \in [reserved : Nat, spent : Nat, start : Nat, expires : Nat],
         Commit(c, from, to, v, keys)
  PROVE /\ pc' \in [Clients -> PCs]
        /\ acct' \in [Users -> [reserved : Nat, spent : Nat, start : Nat, expires : Nat]]
        /\ dirty' \in [Clients -> BOOLEAN]
        /\ UNCHANGED <<limits, windows, clock>>
<1>1. Account(c) \in Users BY AccountType
<1>2. pc' \in [Clients -> PCs] BY GotoType DEF Commit
<1>3. dirty' \in [Clients -> BOOLEAN] BY DEF Commit, Touched, TypeOK
<1> QED BY <1>1, <1>2, <1>3 DEF Commit, TypeOK

\* What a transaction writes is an account.
LEMMA WrittenType ==
  ASSUME TypeOK, NEW c \in Clients
  PROVE  /\ Opened(c) \in [reserved : Nat, spent : Nat, start : Nat, expires : Nat]
         /\ Rolled(c) \in [reserved : Nat, spent : Nat, start : Nat, expires : Nat]
         /\ Added(c) \in [reserved : Nat, spent : Nat, start : Nat, expires : Nat]
         /\ Settled(c) \in [reserved : Nat, spent : Nat, start : Nat, expires : Nat]
<1>1. /\ acct[Account(c)] \in [reserved : Nat, spent : Nat, start : Nat, expires : Nat]
      /\ call[c].est \in Nat /\ call[c].actual \in Nat
      /\ terms[c].window \in Nat /\ terms[c].now \in Nat
      /\ seen[c] \in Amounts /\ clock \in Nat
  BY AccountType DEF TypeOK
<1>2. clock + Ttl(terms[c].window) \in Nat
  BY <1>1, TtlNat
<1>3. Opened(c) \in [reserved : Nat, spent : Nat, start : Nat, expires : Nat]
  BY <1>1, <1>2, AccountFields DEF Opened
<1>4. Rolled(c) \in [reserved : Nat, spent : Nat, start : Nat, expires : Nat]
  BY <1>1, <1>2 DEF Rolled
<1>5. Added(c) \in [reserved : Nat, spent : Nat, start : Nat, expires : Nat]
  BY <1>1 DEF Added, Amounts
<1>6. Settled(c) \in [reserved : Nat, spent : Nat, start : Nat, expires : Nat]
  <2>1. /\ seen[c].spent + call[c].actual \in Nat
        /\ LessButNotNegative(seen[c].reserved, call[c].est) \in Nat
    BY <1>1 DEF Amounts, LessButNotNegative
  <2> QED BY <1>1, <2>1, AccountFields DEF Settled
<1> QED BY <1>3, <1>4, <1>5, <1>6

LEMMA RetryType ==
  ASSUME TypeOK, NEW c \in Clients, Retry(c)
  PROVE  /\ pc' \in [Clients -> PCs] /\ seen' \in [Clients -> Amounts]
         /\ dirty' \in [Clients -> BOOLEAN] /\ UNCHANGED <<call, terms>>
BY DEF Retry, TypeOK, PCs, NoSeen, Amounts

LEMMA FaultType == ASSUME TypeOK, NEW c \in Clients, Fault(c) PROVE TypeOK'
<1> USE DEF store
<1>0. calls' \in Nat /\ admin' \in Nat /\ faults' \in Nat
  BY DEF Fault, Crash, Disconnect, LoseReply, CountFault, TypeOK
<1>1. CASE Crash(c)
  <2>1. leaked' \in [Users -> Nat]
    <3>1. Account(c) \in Users /\ call[c].est \in Nat
      BY AccountType DEF TypeOK
    <3> QED BY <1>1, <3>1 DEF Crash, TypeOK
  <2>2. pc' \in [Clients -> PCs]
    BY <1>1 DEF Crash, TypeOK, PCs
  <2>3. /\ dirty' \in [Clients -> BOOLEAN] /\ current' \in [Clients -> BOOLEAN]
        /\ UNCHANGED <<store, lost>> /\ Forget(c)
    BY <1>1 DEF Crash, TypeOK
  <2> QED BY <1>0, <2>1, <2>2, <2>3, ForgetType DEF TypeOK
<1>2. CASE Disconnect(c)
  BY <1>0, <1>2, RetryType DEF Disconnect, TypeOK
<1>3. CASE LoseReply(c)
  <2>1. "watch" \in PCs /\ "watchS" \in PCs
    BY DEF PCs
  <2>2. /\ pc' \in [Clients -> PCs]
        /\ acct' \in [Users -> [reserved : Nat, spent : Nat, start : Nat, expires : Nat]]
        /\ dirty' \in [Clients -> BOOLEAN]
        /\ UNCHANGED <<limits, windows, clock>>
    <3>1. CASE Commit(c, "execOpen", "watch", Opened(c), {"window", "reserved"})
      BY <3>1, <2>1, WrittenType, CommitType
    <3>2. CASE Commit(c, "execRoll", "watch", Rolled(c), {"window", "reserved", "spent"})
      BY <3>2, <2>1, WrittenType, CommitType
    <3>3. CASE Commit(c, "execAdd", "watch", Added(c), {"reserved"})
      BY <3>3, <2>1, WrittenType, CommitType
    <3>4. CASE Commit(c, "execSettle", "watchS", Settled(c), {"reserved", "spent"})
      BY <3>4, <2>1, WrittenType, CommitType
    <3> QED BY <1>3, <3>1, <3>2, <3>3, <3>4 DEF LoseReply
  <2>3. current' \in [Clients -> BOOLEAN] /\ leaked' \in [Users -> Nat]
    <3>1. Account(c) \in Users /\ call[c].est \in Nat /\ leaked[Account(c)] + call[c].est \in Nat
      BY AccountType DEF TypeOK
    <3>2. \/ current' = [d \in Clients |-> current[d] /\ Account(d) # Account(c)]
          \/ current' = [current EXCEPT ![c] = FALSE] \/ current' = current
      BY <1>3 DEF LoseReply
    <3>3. \/ leaked' = [leaked EXCEPT ![Account(c)] = call[c].est]
          \/ leaked' = [leaked EXCEPT ![Account(c)] = leaked[Account(c)] + call[c].est]
          \/ leaked' = leaked
      BY <1>3 DEF LoseReply
    <3>4. current' \in [Clients -> BOOLEAN]
      BY <3>2 DEF TypeOK
    <3> QED BY <3>1, <3>3, <3>4 DEF TypeOK
  <2>4. /\ seen' \in [Clients -> Amounts] /\ lost' \in Nat /\ UNCHANGED <<call, terms>>
    BY <1>3 DEF LoseReply, TypeOK, NoSeen, Amounts
  <2> QED BY <1>0, <2>2, <2>3, <2>4 DEF TypeOK
<1> QED BY <1>1, <1>2, <1>3 DEF Fault

\* Every step of a client preserves the types.
LEMMA ClientType ==
  ASSUME TypeOK, NEW c \in Clients,
         Reserve(c) \/ Settle(c) \/ Abort(c) \/ Fault(c)
  PROVE TypeOK'
<1> USE DEF store, local, counts
<1>0. /\ Account(c) \in Users
      /\ acct[Account(c)] \in [reserved : Nat, spent : Nat, start : Nat, expires : Nat]
      /\ call[c] \in [user : Users, est : Nat, actual : Nat]
      /\ terms[c] \in [limit : Nat, window : Nat, now : Nat]
      /\ seen[c] \in Amounts /\ clock \in Nat
  BY AccountType DEF TypeOK
<1>1. CASE StartReserve(c)
  BY <1>1, AmountAssumption DEF StartReserve, Goto, TypeOK, PCs
<1>2. CASE ReadLimit(c)
  BY <1>2, <1>0 DEF ReadLimit, Goto, TypeOK, PCs
<1>3. CASE ReadWindow(c)
  BY <1>3, <1>0 DEF ReadWindow, Goto, TypeOK, PCs
<1>4. CASE WatchReserve(c)
  BY <1>4 DEF WatchReserve, Goto, TypeOK, PCs, Reserving
<1>5. CASE GetWindow(c)
  BY <1>5 DEF GetWindow, Goto, TypeOK, PCs, Reserving
<1>6. CASE GetReserved(c)
  BY <1>6, <1>0 DEF GetReserved, Goto, TypeOK, PCs, Reserving, Amounts
<1>7. CASE GetSpent(c)
  BY <1>7, <1>0 DEF GetSpent, Goto, TypeOK, PCs, Reserving, Amounts
<1>8. CASE Reject(c)
  <2>1. "idle" \in PCs BY DEF PCs
  <2> QED BY <1>8, <2>1, ForgetType, GotoType DEF Reject, TypeOK
<1>9. CASE ExecOpen(c)
  <2>1. "calling" \in PCs BY DEF PCs
  <2>2. Commit(c, "execOpen", "calling", Opened(c), {"window", "reserved"}) /\ NewWindow(c)
    BY <1>9 DEF ExecOpen
  <2> QED BY <1>0, <2>1, <2>2, WrittenType, CommitType, ReturnType DEF NewWindow, TypeOK
<1>10. CASE ExecRoll(c)
  <2>1. "calling" \in PCs BY DEF PCs
  <2>2. Commit(c, "execRoll", "calling", Rolled(c), {"window", "reserved", "spent"}) /\ NewWindow(c)
    BY <1>10 DEF ExecRoll
  <2> QED BY <1>0, <2>1, <2>2, WrittenType, CommitType, ReturnType DEF NewWindow, TypeOK
<1>11. CASE ExecAdd(c)
  <2>1. "calling" \in PCs BY DEF PCs
  <2>2. /\ Commit(c, "execAdd", "calling", Added(c), {"reserved"}) /\ Return(c)
        /\ UNCHANGED <<call, leaked, lost, counts>>
    BY <1>11 DEF ExecAdd
  <2>3. current' \in [Clients -> BOOLEAN]
    BY <1>11 DEF ExecAdd, TypeOK
  <2> QED BY <2>1, <2>2, <2>3, WrittenType, CommitType, ReturnType DEF TypeOK
<1>12. CASE Abort(c)
  BY <1>12, RetryType DEF Abort, TypeOK
<1>13. CASE StartSettle(c)
  <2>1. PICK cost \in 0..(call[c].est + Overrun) :
          IF call[c].est = 0 /\ cost = 0
          THEN Goto(c, "calling", "idle") /\ Forget(c)
          ELSE /\ Goto(c, "calling", "watchS")
               /\ call' = [call EXCEPT ![c].actual = cost]
               /\ UNCHANGED <<terms, seen>>
    BY <1>13 DEF StartSettle
  <2>2. "idle" \in PCs /\ "watchS" \in PCs BY DEF PCs
  <2>3. cost \in Nat /\ call[c].est + Overrun \in Nat BY <1>0, AmountAssumption
  <2>4. UNCHANGED <<store, dirty, current, leaked, lost, counts>> BY <1>13 DEF StartSettle
  <2>5. CASE call[c].est = 0 /\ cost = 0
    BY <2>1, <2>2, <2>4, <2>5, ForgetType, GotoType DEF TypeOK
  <2>6. CASE ~(call[c].est = 0 /\ cost = 0)
    <3>1. call' \in [Clients -> [user : Users, est : Nat, actual : Nat]]
      <4>1. call' = [call EXCEPT ![c].actual = cost] BY <2>1, <2>6
      <4>2. [call[c] EXCEPT !.actual = cost] \in [user : Users, est : Nat, actual : Nat]
        BY <1>0, <2>3
      <4> QED BY <4>1, <4>2 DEF TypeOK
    <3> QED BY <2>1, <2>2, <2>4, <2>6, <3>1, GotoType DEF TypeOK
  <2> QED BY <2>5, <2>6
<1>14. CASE WatchSettle(c)
  BY <1>14 DEF WatchSettle, Goto, TypeOK, PCs, Settling
<1>15. CASE GetReservedS(c)
  BY <1>15, <1>0 DEF GetReservedS, Goto, TypeOK, PCs, Settling, Amounts
<1>16. CASE GetSpentS(c)
  BY <1>16, <1>0 DEF GetSpentS, Goto, TypeOK, PCs, Settling, Amounts
<1>17. CASE ExecSettle(c)
  <2>1. "idle" \in PCs BY DEF PCs
  <2>2. /\ Commit(c, "execSettle", "idle", Settled(c), {"reserved", "spent"}) /\ Forget(c)
        /\ UNCHANGED <<leaked, lost, counts>>
    BY <1>17 DEF ExecSettle
  <2>3. current' \in [Clients -> BOOLEAN]
    BY <1>17 DEF ExecSettle, TypeOK
  <2> QED BY <2>1, <2>2, <2>3, WrittenType, CommitType, ForgetType DEF TypeOK
<1>18. CASE Fault(c)
  BY <1>18, FaultType
<1> QED BY <1>1, <1>2, <1>3, <1>4, <1>5, <1>6, <1>7, <1>8, <1>9, <1>10, <1>11, <1>12,
           <1>13, <1>14, <1>15, <1>16, <1>17, <1>18 DEF Reserve, Settle

\* So do administrators and the clock.
LEMMA OthersType == ASSUME TypeOK, Tick \/ Admin PROVE TypeOK'
<1> USE DEF store, local, counts
<1>1. CASE Tick
  BY <1>1 DEF Tick, TypeOK
<1>2. ASSUME NEW u \in Users, NEW l \in LimitArgs, NEW w \in WindowArgs \cup {0},
             SetBudget(u, l, w)
      PROVE TypeOK'
  <2>1. Uid[u] \in Users /\ l \in Nat /\ w \in Nat
    BY UidAssumption, AmountAssumption, TimeAssumption
  <2>2. Ttl(IF w = 0 THEN DefaultWindow ELSE w) \in Nat
    BY <2>1, TtlNat, TimeAssumption
  <2> DEFINE e == clock + Ttl(IF w = 0 THEN DefaultWindow ELSE w)
             v == [acct[Uid[u]] EXCEPT !.start = clock, !.expires = e]
  <2>3. v \in [reserved : Nat, spent : Nat, start : Nat, expires : Nat]
    <3>1. acct[Uid[u]] \in [reserved : Nat, spent : Nat, start : Nat, expires : Nat]
      BY <2>1 DEF TypeOK
    <3>2. clock \in Nat /\ e \in Nat
      BY <2>2 DEF TypeOK
    <3> QED BY <3>1, <3>2, AccountFields
  <2>4. acct' = [acct EXCEPT ![Uid[u]] = v]
    BY <1>2 DEF SetBudget
  <2> HIDE DEF v
  <2>5. acct' \in [Users -> [reserved : Nat, spent : Nat, start : Nat, expires : Nat]]
    BY <2>1, <2>3, <2>4 DEF TypeOK
  <2>6. limits' \in [Users -> Nat] /\ windows' \in [Users -> Nat]
    BY <1>2, <2>1 DEF SetBudget, TypeOK
  <2>7. dirty' \in [Clients -> BOOLEAN] /\ admin' \in Nat
    BY <1>2 DEF SetBudget, TypeOK, Touched
  <2>8. UNCHANGED <<clock, local, current, leaked, lost, calls, faults>>
    BY <1>2 DEF SetBudget
  <2> QED BY <2>5, <2>6, <2>7, <2>8 DEF TypeOK
<1>3. ASSUME NEW u \in Users, Reset(u) PROVE TypeOK'
  <2>1. acct' \in [Users -> [reserved : Nat, spent : Nat, start : Nat, expires : Nat]]
    BY <1>3 DEF Reset, TypeOK
  <2>2. dirty' \in [Clients -> BOOLEAN] /\ current' \in [Clients -> BOOLEAN] /\ admin' \in Nat
    BY <1>3 DEF Reset, TypeOK, Touched
  <2>3. leaked' \in [Users -> Nat]
    BY <1>3 DEF Reset, TypeOK
  <2>4. UNCHANGED <<limits, windows, clock, local, lost, calls, faults>>
    BY <1>3 DEF Reset
  <2> QED BY <2>1, <2>2, <2>3, <2>4 DEF TypeOK
<1> QED BY <1>1, <1>2, <1>3 DEF Admin

LEMMA NextType == TypeOK /\ [Next]_vars => TypeOK'
<1>1. ASSUME TypeOK, UNCHANGED vars PROVE TypeOK'
  BY <1>1 DEF vars, store, local, counts, TypeOK
<1> QED BY <1>1, ClientType, OthersType DEF Next

\* Every reachable state is well typed: no counter of Redis ever goes below
\* zero, whatever the order of late settlements and rollovers (budget.py:154).
THEOREM TypeCorrect == Spec => []TypeOK
<1> QED BY InitType, NextType, PTL DEF Spec

-----------------------------------------------------------------------------
(* SnapshotFaithful: TypeOK /\ SnapshotFaithful is inductive. *)

\* What SnapshotFaithful says of one client.
Snapshot(d) ==
  /\ ~dirty[d] => Faithful(d)
  /\ pc[d] = "execAdd" => ~Overflows(d, seen[d].spent)

\* The places at which a client relies on something it has read.
Relying == {"getReserved", "getSpent", "execOpen", "execRoll", "execAdd",
            "getSpentS", "execSettle"}

LEMMA NothingToRelyOn ==
  ASSUME NEW d \in Clients, pc'[d] \notin Relying PROVE Snapshot(d)'
BY DEF Snapshot, Faithful, Relying

\* d itself does nothing and what it relies on is unchanged, or it is marked.
Undisturbed(d) ==
  /\ pc'[d] = pc[d] /\ call'[d] = call[d] /\ terms'[d] = terms[d] /\ seen'[d] = seen[d]
  /\ ~dirty'[d] => /\ ~dirty[d]
                   /\ \/ WatchedBy(d) = {}
                      \/ acct'[Account(d)] = acct[Account(d)]
                      \/ /\ pc[d] \in Settling
                         /\ acct'[Account(d)].reserved = acct[Account(d)].reserved
                         /\ acct'[Account(d)].spent = acct[Account(d)].spent
                   /\ pc[d] \in Reserving => (HasWindow(Account(d)) <=> clock' < acct'[Account(d)].expires)

LEMMA Frame ==
  ASSUME NEW d \in Clients, Snapshot(d), Undisturbed(d) PROVE Snapshot(d)'
<1>1. Account(d)' = Account(d)
  BY DEF Undisturbed, Account
<1>2. ASSUME pc'[d] = "execAdd" PROVE ~Overflows(d, seen[d].spent)'
  BY <1>2 DEF Undisturbed, Snapshot, Overflows
<1>3. ASSUME ~dirty'[d] PROVE Faithful(d)'
  <2>1. Faithful(d) /\ ~dirty[d]
    BY <1>3 DEF Undisturbed, Snapshot
  <2>2. CASE WatchedBy(d) = {}
    <3>1. pc[d] \notin Reserving \cup Settling
      BY <2>2 DEF WatchedBy
    <3> QED BY <3>1 DEF Undisturbed, Faithful, Reserving, Settling
  <2>3. CASE /\ acct'[Account(d)] = acct[Account(d)]
             /\ pc[d] \in Reserving => (HasWindow(Account(d)) <=> clock' < acct'[Account(d)].expires)
    <3>1. WindowElapsed(d)' <=> WindowElapsed(d)
      BY <1>1, <2>3 DEF WindowElapsed, Undisturbed
    <3>2. pc[d] \in Reserving => (HasWindow(Account(d))' <=> HasWindow(Account(d)))
      BY <1>1, <2>3 DEF HasWindow
    <3>3. acct'[Account(d)'].reserved = acct[Account(d)].reserved
          /\ acct'[Account(d)'].spent = acct[Account(d)].spent
      BY <1>1, <2>3
    <3> QED BY <1>1, <2>1, <3>1, <3>2, <3>3 DEF Undisturbed, Faithful, WindowFresh, Reserving
  <2>4. CASE /\ pc[d] \in Settling
             /\ acct'[Account(d)].reserved = acct[Account(d)].reserved
             /\ acct'[Account(d)].spent = acct[Account(d)].spent
    BY <1>1, <2>1, <2>4 DEF Undisturbed, Faithful, Settling
  <2> QED BY <1>3, <2>2, <2>3, <2>4 DEF Undisturbed
<1> QED BY <1>2, <1>3 DEF Snapshot

\* A committed transaction of c marks every client on the same account that
\* watches a key it writes, and leaves other accounts alone.
LEMMA CommitFrame ==
  ASSUME TypeOK, NEW c \in Clients, NEW d \in Clients, d # c, NEW from, NEW to, NEW v, NEW keys,
         "reserved" \in keys, Commit(c, from, to, v, keys)
  PROVE  /\ pc'[d] = pc[d]
         /\ ~dirty'[d] => /\ ~dirty[d]
                          /\ WatchedBy(d) = {} \/ acct'[Account(d)] = acct[Account(d)]
                          /\ pc[d] \in Reserving => (HasWindow(Account(d)) <=> clock' < acct'[Account(d)].expires)
<1>1. Account(c) \in Users /\ Account(d) \in Users
  BY AccountType
<1>2. pc'[d] = pc[d]
  BY DEF Commit, Goto, TypeOK
<1>3. ASSUME ~dirty'[d] PROVE ~dirty[d] /\ (WatchedBy(d) = {} \/ Account(d) # Account(c))
  <2>1. ~(dirty[d] \/ (d \in Clients \ {c} /\ Account(d) = Account(c) /\ WatchedBy(d) \cap keys # {}))
    BY <1>3 DEF Commit, Touched
  <2>2. "reserved" \in WatchedBy(d) \/ WatchedBy(d) = {}
    BY DEF WatchedBy
  <2> QED BY <2>1, <2>2
<1>4. Account(d) # Account(c) => acct'[Account(d)] = acct[Account(d)]
  BY <1>1 DEF Commit, TypeOK
<1>5. WatchedBy(d) = {} => pc[d] \notin Reserving
  BY DEF WatchedBy
<1>6. UNCHANGED clock
  BY DEF Commit
<1> QED BY <1>2, <1>3, <1>4, <1>5, <1>6 DEF HasWindow

\* A step of c leaves every other client undisturbed.
LEMMA ClientFrame ==
  ASSUME TypeOK, NEW c \in Clients, NEW d \in Clients, d # c,
         Reserve(c) \/ Settle(c) \/ Abort(c) \/ Fault(c)
  PROVE  Undisturbed(d)
<1> USE DEF store, local, counts
<1>1. /\ pc'[d] = pc[d] /\ call'[d] = call[d] /\ terms'[d] = terms[d] /\ seen'[d] = seen[d]
  <2> USE DEF TypeOK, Goto
  <2>1. CASE StartReserve(c) BY <2>1 DEF StartReserve
  <2>2. CASE ReadLimit(c) \/ ReadWindow(c) BY <2>2 DEF ReadLimit, ReadWindow
  <2>3. CASE WatchReserve(c) \/ GetWindow(c) BY <2>3 DEF WatchReserve, GetWindow
  <2>4. CASE GetReserved(c) \/ GetSpent(c) BY <2>4 DEF GetReserved, GetSpent
  <2>5. CASE Reject(c) BY <2>5 DEF Reject, Forget, Return
  <2>6. CASE ExecOpen(c) BY <2>6 DEF ExecOpen, Commit, NewWindow, Return
  <2>7. CASE ExecRoll(c) BY <2>7 DEF ExecRoll, Commit, NewWindow, Return
  <2>8. CASE ExecAdd(c) BY <2>8 DEF ExecAdd, Commit, Return
  <2>9. CASE StartSettle(c) BY <2>9 DEF StartSettle, Forget, Return
  <2>10. CASE WatchSettle(c) \/ GetReservedS(c) \/ GetSpentS(c)
    BY <2>10 DEF WatchSettle, GetReservedS, GetSpentS
  <2>11. CASE ExecSettle(c) BY <2>11 DEF ExecSettle, Commit, Forget, Return
  <2>12. CASE Abort(c) \/ Disconnect(c) BY <2>12 DEF Abort, Disconnect, Retry
  <2>13. CASE Crash(c) BY <2>13 DEF Crash, Forget, Return
  <2>14. CASE LoseReply(c) BY <2>14 DEF LoseReply, Commit
  <2> QED BY <2>1, <2>2, <2>3, <2>4, <2>5, <2>6, <2>7, <2>8, <2>9, <2>10, <2>11, <2>12, <2>13,
             <2>14 DEF Reserve, Settle, Fault
<1>2. CASE \E from, to, v, keys : "reserved" \in keys /\ Commit(c, from, to, v, keys)
  BY <1>1, <1>2, CommitFrame DEF Undisturbed
<1>3. CASE UNCHANGED store /\ dirty'[d] = dirty[d]
  BY <1>1, <1>3 DEF Undisturbed, HasWindow
<1>4. \/ \E from, to, v, keys : "reserved" \in keys /\ Commit(c, from, to, v, keys)
      \/ UNCHANGED store /\ dirty'[d] = dirty[d]
  <2>1. CASE ExecOpen(c) \/ ExecRoll(c) \/ ExecAdd(c) \/ ExecSettle(c) \/ LoseReply(c)
    <3>1. "reserved" \in {"window", "reserved"} /\ "reserved" \in {"window", "reserved", "spent"}
          /\ "reserved" \in {"reserved"} /\ "reserved" \in {"reserved", "spent"}
      OBVIOUS
    <3> QED BY <2>1, <3>1 DEF ExecOpen, ExecRoll, ExecAdd, ExecSettle, LoseReply
  <2>2. CASE StartReserve(c) \/ ReadLimit(c) \/ ReadWindow(c) \/ WatchReserve(c) \/ GetWindow(c)
             \/ GetReserved(c) \/ GetSpent(c) \/ Reject(c)
    BY <2>2 DEF StartReserve, ReadLimit, ReadWindow, WatchReserve, GetWindow, GetReserved,
                GetSpent, Reject, TypeOK
  <2>3. CASE \/ StartSettle(c) \/ WatchSettle(c) \/ GetReservedS(c) \/ GetSpentS(c)
             \/ Abort(c) \/ Disconnect(c) \/ Crash(c)
    BY <2>3 DEF StartSettle, WatchSettle, GetReservedS, GetSpentS, Abort, Disconnect, Retry,
                Crash, TypeOK
  <2> QED BY <2>1, <2>2, <2>3 DEF Reserve, Settle, Fault
<1> QED BY <1>2, <1>3, <1>4

\* A step of c leaves c relying on what it has just read and nothing else.
LEMMA ClientOwn ==
  ASSUME TypeOK, NEW c \in Clients, Snapshot(c),
         Reserve(c) \/ Settle(c) \/ Abort(c) \/ Fault(c)
  PROVE  Snapshot(c)'
<1> USE DEF store, local, counts
<1>1. CASE StartReserve(c) \/ ReadLimit(c) \/ ReadWindow(c) \/ WatchReserve(c)
  <2>1. pc'[c] \notin Relying
    BY <1>1 DEF StartReserve, ReadLimit, ReadWindow, WatchReserve, Goto, TypeOK, Relying
  <2> QED BY <2>1, NothingToRelyOn
<1>2. CASE GetWindow(c)
  <2>1. Account(c)' = Account(c) /\ (HasWindow(Account(c))' <=> HasWindow(Account(c)))
        /\ (WindowElapsed(c)' <=> WindowElapsed(c))
    BY <1>2 DEF GetWindow, Account, HasWindow, WindowElapsed
  <2>2. pc'[c] = IF ~HasWindow(Account(c)) THEN "execOpen"
                 ELSE IF WindowElapsed(c) THEN "execRoll" ELSE "getReserved"
    BY <1>2 DEF GetWindow, Goto, TypeOK
  <2> QED BY <2>1, <2>2 DEF Snapshot, Faithful, WindowFresh
<1>3. CASE GetReserved(c)
  <2>1. /\ pc[c] = "getReserved" /\ pc'[c] = "getSpent" /\ dirty'[c] = dirty[c]
        /\ seen'[c].reserved = acct[Account(c)].reserved
    BY <1>3 DEF GetReserved, Goto, TypeOK, Amounts
  <2>2. Account(c)' = Account(c) /\ (WindowFresh(c)' <=> WindowFresh(c)) /\ acct' = acct
    BY <1>3 DEF GetReserved, Account, HasWindow, WindowElapsed, WindowFresh
  <2> QED BY <2>1, <2>2 DEF Snapshot, Faithful
<1>4. CASE GetSpent(c)
  <2>1. /\ pc[c] = "getSpent" /\ pc'[c] = "execAdd" /\ dirty'[c] = dirty[c]
        /\ seen'[c].spent = acct[Account(c)].spent /\ seen'[c].reserved = seen[c].reserved
    BY <1>4 DEF GetSpent, Goto, TypeOK, Amounts
  <2>2. Account(c)' = Account(c) /\ (WindowFresh(c)' <=> WindowFresh(c)) /\ acct' = acct
    BY <1>4 DEF GetSpent, Account, HasWindow, WindowElapsed, WindowFresh
  <2>3. ~Overflows(c, seen[c].spent)'
    BY <1>4, <2>1 DEF GetSpent, Overflows
  <2> QED BY <2>1, <2>2, <2>3 DEF Snapshot, Faithful
<1>5. CASE \/ Reject(c) \/ StartSettle(c) \/ WatchSettle(c)
           \/ Abort(c) \/ Crash(c) \/ Disconnect(c)
  <2>1. pc'[c] \notin Relying
    BY <1>5 DEF Reject, StartSettle, WatchSettle, Abort, Retry, Crash, Disconnect, Goto, TypeOK,
                Relying
  <2> QED BY <2>1, NothingToRelyOn
<1>6. CASE ExecOpen(c) \/ ExecRoll(c) \/ ExecAdd(c) \/ ExecSettle(c) \/ LoseReply(c)
  <2>1. pc'[c] \notin Relying
    BY <1>6 DEF ExecOpen, ExecRoll, ExecAdd, ExecSettle, LoseReply, Commit, Goto, TypeOK, Relying
  <2> QED BY <2>1, NothingToRelyOn
<1>7. CASE GetReservedS(c)
  <2>1. /\ pc'[c] = "getSpentS" /\ dirty'[c] = dirty[c]
        /\ seen'[c].reserved = acct[Account(c)].reserved
    BY <1>7 DEF GetReservedS, Goto, TypeOK, Amounts
  <2>2. Account(c)' = Account(c) /\ acct' = acct
    BY <1>7 DEF GetReservedS, Account
  <2> QED BY <2>1, <2>2 DEF Snapshot, Faithful
<1>8. CASE GetSpentS(c)
  <2>1. /\ pc[c] = "getSpentS" /\ pc'[c] = "execSettle" /\ dirty'[c] = dirty[c]
        /\ seen'[c].spent = acct[Account(c)].spent /\ seen'[c].reserved = seen[c].reserved
    BY <1>8 DEF GetSpentS, Goto, TypeOK, Amounts
  <2>2. Account(c)' = Account(c) /\ acct' = acct
    BY <1>8 DEF GetSpentS, Account
  <2> QED BY <2>1, <2>2 DEF Snapshot, Faithful
<1> QED BY <1>1, <1>2, <1>3, <1>4, <1>5, <1>6, <1>7, <1>8 DEF Reserve, Settle, Fault

\* Administrators and the clock mark whoever relies on what they change.
LEMMA OthersFrame ==
  ASSUME TypeOK, NEW d \in Clients, Tick \/ Admin PROVE Undisturbed(d)
<1> USE DEF store, local, counts
<1>0. /\ Account(d) \in Users /\ clock \in Nat /\ acct[Account(d)].expires \in Nat
  BY AccountType DEF TypeOK
<1>1. CASE Tick
  <2>1. ASSUME ~dirty'[d] PROVE ~dirty[d] /\ ("window" \in WatchedBy(d)
                                                => acct[Account(d)].expires # clock + 1)
    BY <1>1, <2>1 DEF Tick
  <2>2. pc[d] \in Reserving => "window" \in WatchedBy(d)
    BY DEF WatchedBy
  <2>3. acct' = acct /\ clock' = clock + 1
    BY <1>1 DEF Tick
  <2>4. acct[Account(d)].expires # clock + 1
          => (HasWindow(Account(d)) <=> clock' < acct'[Account(d)].expires)
    BY <1>0, <2>3 DEF HasWindow
  <2>5. pc' = pc /\ call' = call /\ terms' = terms /\ seen' = seen
    BY <1>1 DEF Tick
  <2> QED BY <2>1, <2>2, <2>3, <2>4, <2>5 DEF Undisturbed
<1>2. ASSUME NEW u \in Users, NEW l \in LimitArgs, NEW w \in WindowArgs \cup {0},
             SetBudget(u, l, w)
      PROVE Undisturbed(d)
  <2>1. pc' = pc /\ call' = call /\ terms' = terms /\ seen' = seen /\ clock' = clock
    BY <1>2 DEF SetBudget
  <2>2. ASSUME ~dirty'[d]
        PROVE ~dirty[d] /\ ~(Account(d) = Uid[u] /\ "window" \in WatchedBy(d))
    BY <1>2, <2>2 DEF SetBudget, Touched
  <2>3. Account(d) # Uid[u] => acct'[Account(d)] = acct[Account(d)]
    BY <1>2, <1>0 DEF SetBudget, TypeOK
  <2>4. /\ acct'[Account(d)].reserved = acct[Account(d)].reserved
        /\ acct'[Account(d)].spent = acct[Account(d)].spent
    BY <1>2, <1>0 DEF SetBudget, TypeOK
  <2>5. "window" \in WatchedBy(d) \/ pc[d] \in Settling \ Reserving \/ WatchedBy(d) = {}
    BY DEF WatchedBy
  <2>6. WatchedBy(d) = {} => pc[d] \notin Reserving
    BY DEF WatchedBy
  <2> QED BY <2>1, <2>2, <2>3, <2>4, <2>5, <2>6 DEF Undisturbed, HasWindow
<1>3. ASSUME NEW u \in Users, Reset(u) PROVE Undisturbed(d)
  <2>1. pc' = pc /\ call' = call /\ terms' = terms /\ seen' = seen /\ clock' = clock
    BY <1>3 DEF Reset
  <2>2. ASSUME ~dirty'[d]
        PROVE ~dirty[d] /\ ~(Account(d) = Uid[u]
                              /\ WatchedBy(d) \cap {"window", "reserved", "spent"} # {})
    BY <1>3, <2>2 DEF Reset, Touched
  <2>3. Account(d) # Uid[u] => acct'[Account(d)] = acct[Account(d)]
    BY <1>3, <1>0 DEF Reset, TypeOK
  <2>4. "reserved" \in WatchedBy(d) \/ WatchedBy(d) = {}
    BY DEF WatchedBy
  <2>5. WatchedBy(d) = {} => pc[d] \notin Reserving
    BY DEF WatchedBy
  <2> QED BY <2>1, <2>2, <2>3, <2>4, <2>5 DEF Undisturbed, HasWindow
<1> QED BY <1>1, <1>2, <1>3 DEF Admin

LEMMA SnapshotStep == TypeOK /\ SnapshotFaithful /\ [Next]_vars => SnapshotFaithful'
<1> SUFFICES ASSUME TypeOK, \A d \in Clients : Snapshot(d), [Next]_vars
             PROVE  \A d \in Clients : Snapshot(d)'
  BY DEF SnapshotFaithful, Snapshot
<1> TAKE d \in Clients
<1>1. CASE UNCHANGED vars
  BY <1>1, Frame DEF vars, store, local, Undisturbed, HasWindow
<1>2. CASE Tick \/ Admin
  BY <1>2, OthersFrame, Frame
<1>3. ASSUME NEW c \in Clients, Reserve(c) \/ Settle(c) \/ Abort(c) \/ Fault(c)
      PROVE  Snapshot(d)'
  <2>1. CASE c = d BY <1>3, <2>1, ClientOwn
  <2>2. CASE c # d BY <1>3, <2>2, ClientFrame, Frame
  <2> QED BY <2>1, <2>2
<1> QED BY <1>1, <1>2, <1>3 DEF Next

LEMMA InitSnapshot == Init => SnapshotFaithful
BY DEF Init, SnapshotFaithful, Faithful

\* The WATCH set of each loop is enough, for any number of workers, accounts,
\* limits and windows: a transaction that commits acts on what the store holds.
THEOREM SnapshotCorrect == Spec => []SnapshotFaithful
<1>1. Init => TypeOK /\ SnapshotFaithful
  BY InitType, InitSnapshot
<1>2. TypeOK /\ SnapshotFaithful /\ [Next]_vars => (TypeOK /\ SnapshotFaithful)'
  BY NextType, SnapshotStep
<1> QED BY <1>1, <1>2, PTL DEF Spec

\* What an admission finds and leaves, by the branch it took.
LEMMA Admission ==
  ASSUME TypeOK, SnapshotFaithful, NEW c \in Clients, ExecOpen(c) \/ ExecRoll(c) \/ ExecAdd(c)
  PROVE  IF WindowFresh(c)
         THEN acct'[Account(c)].spent + acct'[Account(c)].reserved <= terms[c].limit
         ELSE acct'[Account(c)].reserved = call[c].est
<1>1. /\ ~dirty[c] /\ Faithful(c) /\ Account(c) \in Users
      /\ acct[Account(c)] \in [reserved : Nat, spent : Nat, start : Nat, expires : Nat]
  BY AccountType DEF ExecOpen, ExecRoll, ExecAdd, Commit, SnapshotFaithful, TypeOK
<1>2. CASE ExecOpen(c) \/ ExecRoll(c)
  <2>1. ~WindowFresh(c)
    BY <1>1, <1>2 DEF ExecOpen, ExecRoll, Commit, Goto, Faithful, WindowFresh
  <2>2. acct'[Account(c)] \in {Opened(c), Rolled(c)}
    BY <1>1, <1>2 DEF ExecOpen, ExecRoll, Commit, TypeOK
  <2>3. Opened(c).reserved = call[c].est /\ Rolled(c).reserved = call[c].est
    BY <1>1 DEF Opened, Rolled
  <2> QED BY <2>1, <2>2, <2>3
<1>3. CASE ExecAdd(c)
  <2>1. WindowFresh(c) /\ seen[c].spent = acct[Account(c)].spent /\ ~Overflows(c, seen[c].spent)
    BY <1>1, <1>3 DEF ExecAdd, Commit, Goto, Faithful, SnapshotFaithful
  <2>2. /\ acct'[Account(c)].spent = acct[Account(c)].spent
        /\ acct'[Account(c)].reserved = seen[c].reserved + call[c].est
    BY <1>1, <1>3 DEF ExecAdd, Commit, Added, TypeOK
  <2>3. /\ seen[c].spent \in Nat /\ seen[c].reserved \in Nat
        /\ call[c].est \in Nat /\ terms[c].limit \in Nat
    BY DEF TypeOK, Amounts
  <2> QED BY <2>1, <2>2, <2>3 DEF Overflows
<1> QED BY <1>1, <1>2, <1>3

\* Only the client itself moves its program counter.
LEMMA OwnStep ==
  ASSUME TypeOK, Next, NEW c \in Clients, pc'[c] # pc[c]
  PROVE  Reserve(c) \/ Settle(c) \/ Abort(c) \/ Fault(c)
<1>1. ~(Tick \/ Admin)
  BY OthersFrame DEF Undisturbed
<1> QED BY <1>1, ClientFrame DEF Next, Undisturbed

LEMMA AdmissionStep ==
  TypeOK /\ SnapshotFaithful /\ [Next]_vars => [AdmitsWithinLimit]_vars
<1> SUFFICES ASSUME TypeOK, SnapshotFaithful, Next,
                    NEW c \in Clients, pc[c] \in Reserving, pc'[c] = "calling"
             PROVE  IF WindowFresh(c)
                    THEN acct'[Account(c)].spent + acct'[Account(c)].reserved <= terms[c].limit
                    ELSE acct'[Account(c)].reserved = call[c].est
  BY DEF AdmitsWithinLimit
<1>1. Reserve(c) \/ Settle(c) \/ Abort(c) \/ Fault(c)
  BY OwnStep DEF Reserving
<1>2. ExecOpen(c) \/ ExecRoll(c) \/ ExecAdd(c)
  BY <1>1 DEF Reserve, Settle, Abort, Fault, Crash, Disconnect, LoseReply, Retry, StartReserve,
              ReadLimit, ReadWindow, WatchReserve, GetWindow, GetReserved, GetSpent, Reject,
              StartSettle, WatchSettle, GetReservedS, GetSpentS, ExecSettle, Commit, Goto,
              TypeOK, Reserving
<1> QED BY <1>2, Admission

\* No admission inside a running window passes the limit it was read with, and
\* the one that opens a window is alone in it.
THEOREM AdmissionCorrect == Spec => AdmissionFits
BY TypeCorrect, SnapshotCorrect, AdmissionStep, PTL DEF Spec, AdmissionFits

LEMMA RefusalStep ==
  TypeOK /\ SnapshotFaithful /\ [Next]_vars => [RefusesForCause]_vars
<1> SUFFICES ASSUME TypeOK, SnapshotFaithful, Next, NEW c \in Clients,
                    pc[c] = "getSpent", pc'[c] = "idle", faults' = faults, ~dirty[c]
             PROVE  acct[Account(c)].spent + acct[Account(c)].reserved + call[c].est
                      > terms[c].limit
  BY DEF RefusesForCause
<1>1. Reserve(c) \/ Settle(c) \/ Abort(c) \/ Fault(c)
  BY OwnStep
<1>2. ~Fault(c)
  <2>1. faults \in Nat BY DEF TypeOK
  <2> QED BY <2>1 DEF Fault, Crash, Disconnect, LoseReply, CountFault
<1>3. Reject(c)
  BY <1>1, <1>2 DEF Reserve, Settle, Abort, Exec, StartReserve, ReadLimit, ReadWindow,
                    WatchReserve, GetWindow, GetReserved, GetSpent, ExecOpen, ExecRoll, ExecAdd,
                    StartSettle, WatchSettle, GetReservedS, GetSpentS, ExecSettle, Commit, Goto,
                    TypeOK
<1>4. seen[c].reserved = acct[Account(c)].reserved /\ Overflows(c, acct[Account(c)].spent)
  BY <1>3 DEF Reject, SnapshotFaithful, Faithful
<1> QED BY <1>4 DEF Overflows

\* A call that fits is refused only when something came between the two reads.
THEOREM RefusalCorrect == Spec => RefusalJustified
BY TypeCorrect, SnapshotCorrect, RefusalStep, PTL DEF Spec, RefusalJustified

-----------------------------------------------------------------------------
(* The sums: what the reserved counter holds against the calls in flight. *)

\* Nothing has ended the window a user starts in: no lifetime of a window is over,
\* nobody has administered a budget and no reply of a transaction was lost.
FirstWindow == clock < Ttl(DefaultWindow) /\ admin = 0 /\ lost = 0

\* Until then windows open once, and who holds a reservation made it in the
\* window that runs.
WindowInv ==
  FirstWindow =>
    /\ \A u \in Users : /\ limits[u] = DefaultLimit /\ windows[u] = DefaultWindow
                        /\ acct[u].expires = 0 \/ acct[u].expires >= Ttl(DefaultWindow)
    /\ \A c \in Clients :
         /\ pc[c] \in {"watch"} \cup Reserving
              => terms[c].window = DefaultWindow /\ terms[c].now <= clock
         /\ Holds(c) /\ call[c].est > 0 => current[c] /\ acct[Account(c)].expires # 0

\* A call asks for an estimate that is offered, and is charged no more than that.
LimitInv ==
  FirstWindow =>
    /\ \A c \in Clients :
         /\ pc[c] \in {"window", "watch"} \cup Reserving => terms[c].limit = DefaultLimit
         /\ pc[c] # "idle" => call[c].est \in Ests
         /\ pc[c] \in {"watchS"} \cup Settling => call[c].est > 0 /\ call[c].actual <= call[c].est
    /\ \A u \in Users : /\ acct[u].expires = 0 => acct[u].spent = 0
                        /\ acct[u].spent + acct[u].reserved <= DefaultLimit

\* What c's call adds to Outstanding(u).
Due(c, u) == Share([d \in Clients |-> call[d].est], Holders(u), c)

\* When only c's reservation changes hands, what is outstanding changes by it.
LEMMA OutstandingChange ==
  ASSUME TypeOK, TypeOK', NEW c \in Clients, NEW u \in Users,
         \A d \in Clients \ {c} : /\ d \in Holders(u) <=> d \in Holders(u)'
                                 /\ call'[d].est = call[d].est
  PROVE  /\ Outstanding(u) \in Nat /\ Outstanding(u)' \in Nat
         /\ Due(c, u) \in Nat /\ Due(c, u)' \in Nat /\ Due(c, u) <= Outstanding(u)
         /\ Outstanding(u)' + Due(c, u) = Outstanding(u) + Due(c, u)'
<1> DEFINE S == Holders(u)
           T == Holders(u)'
           old == [d \in Clients |-> call[d].est]
           new == [d \in Clients |-> call'[d].est]
<1>1. S \subseteq Clients /\ T \subseteq Clients BY DEF Holders
<1>2. IsFiniteSet(S) /\ IsFiniteSet(T) BY <1>1, ClientsAssumption, FS_Subset
<1>3. S \ {c} = T \ {c} BY <1>1
<1>4. (\A d \in S : old[d] \in Nat) /\ (\A d \in T : new[d] \in Nat) BY <1>1 DEF TypeOK
<1>5. \A d \in S \ {c} : old[d] = new[d] BY <1>1
<1>6. /\ Outstanding(u) = Total(old, S) /\ Outstanding(u)' = Total(new, T)
      /\ Due(c, u) = Share(old, S, c) /\ Due(c, u)' = Share(new, T, c)
  BY DEF Outstanding, Due
<1> HIDE DEF S, T, old, new
<1>7. /\ Total(old, S) \in Nat /\ Total(new, T) \in Nat
      /\ Share(old, S, c) \in Nat /\ Share(new, T, c) \in Nat
      /\ Share(old, S, c) <= Total(old, S)
      /\ Total(new, T) + Share(old, S, c) = Total(old, S) + Share(new, T, c)
  BY <1>2, <1>3, <1>4, <1>5, TotalChange
<1> QED BY <1>6, <1>7

\* A step of c leaves what others hold alone, as long as their windows run on.
LEMMA OthersHold ==
  ASSUME TypeOK, TypeOK', NEW c \in Clients, Reserve(c) \/ Settle(c) \/ Abort(c) \/ Fault(c),
         NEW u \in Users,
         \A d \in Clients \ {c} : Account(d) = u => current'[d] = current[d]
  PROVE  /\ Outstanding(u) \in Nat /\ Outstanding(u)' \in Nat
         /\ Due(c, u) \in Nat /\ Due(c, u)' \in Nat /\ Due(c, u) <= Outstanding(u)
         /\ Outstanding(u)' + Due(c, u) = Outstanding(u) + Due(c, u)'
<1>1. \A d \in Clients \ {c} : Undisturbed(d) BY ClientFrame
<1>2. \A d \in Clients \ {c} : /\ Account(d)' = Account(d) /\ (Holds(d)' <=> Holds(d))
                               /\ call'[d] = call[d]
  BY <1>1 DEF Undisturbed, Account, Holds
<1>3. \A d \in Clients \ {c} : d \in Holders(u) <=> d \in Holders(u)'
  BY <1>2 DEF Holders
<1> QED BY <1>2, <1>3, OutstandingChange

\* What c contributes.
LEMMA DueOf ==
  ASSUME NEW c \in Clients, NEW u
  PROVE  /\ Holds(c) /\ current[c] /\ Account(c) = u => Due(c, u) = call[c].est
         /\ ~(Holds(c) /\ current[c] /\ Account(c) = u) => Due(c, u) = 0
         /\ call[c].est = 0 => Due(c, u) = 0
BY DEF Due, Share, Holders

LEMMA DueNext ==
  ASSUME NEW c \in Clients, NEW u
  PROVE  /\ Holds(c)' /\ current'[c] /\ Account(c)' = u => Due(c, u)' = call'[c].est
         /\ ~(Holds(c)' /\ current'[c] /\ Account(c)' = u) => Due(c, u)' = 0
         /\ call'[c].est = 0 => Due(c, u)' = 0
BY DEF Due, Share, Holders

\* What a transaction that goes through writes and where the client goes.
LEMMA CommitValue ==
  ASSUME TypeOK, NEW c \in Clients, NEW from, NEW to, NEW v, NEW keys, NEW u \in Users,
         Commit(c, from, to, v, keys)
  PROVE  /\ pc[c] = from /\ pc'[c] = to /\ ~dirty[c] /\ Account(c) \in Users
         /\ u = Account(c) => acct'[u] = v
         /\ u # Account(c) => acct'[u] = acct[u]
BY AccountType DEF Commit, Goto, TypeOK

\* The effect of a step on the sums of account u: reserved and what accounts for
\* it move together; or start afresh with a window; or a settlement takes away
\* less than its estimate.
Kept(u)  == acct'[u].reserved + Outstanding(u) + leaked[u]
              = acct[u].reserved + Outstanding(u)' + leaked'[u]
Fresh(u) == acct'[u].reserved = Outstanding(u)' + leaked'[u]
Late(c, u) ==
  /\ pc[c] = "execSettle" /\ u = Account(c)
  /\ (call[c].est > 0 /\ ~current[c]) \/ acct[u].reserved < call[c].est
  /\ acct'[u].reserved <= acct[u].reserved /\ leaked'[u] = leaked[u]
  /\ acct'[u].reserved = 0 \/ Outstanding(u)' = Outstanding(u)

\* The steps that change neither counters nor reservations: every read, every
\* refusal and every retry, and the two ends of a call.
LEMMA ReadSums ==
  ASSUME TypeOK, TypeOK', NEW c \in Clients, NEW u \in Users,
         \/ StartReserve(c) \/ ReadLimit(c) \/ ReadWindow(c) \/ WatchReserve(c) \/ GetWindow(c)
         \/ GetReserved(c) \/ GetSpent(c) \/ Reject(c) \/ Abort(c) \/ StartSettle(c)
         \/ WatchSettle(c) \/ GetReservedS(c) \/ GetSpentS(c) \/ Disconnect(c)
  PROVE  Kept(u)
<1> USE DEF store, local, counts
<1>1. UNCHANGED <<acct, current, leaked>>
  BY DEF StartReserve, ReadLimit, ReadWindow, WatchReserve, GetWindow, GetReserved, GetSpent,
         Reject, Abort, StartSettle, WatchSettle, GetReservedS, GetSpentS, Disconnect
<1>2. /\ Outstanding(u) \in Nat /\ Outstanding(u)' \in Nat
      /\ Outstanding(u)' + Due(c, u) = Outstanding(u) + Due(c, u)'
  BY <1>1, OthersHold DEF Reserve, Settle, Fault
<1>3. Due(c, u)' = Due(c, u)
  <2>1. CASE StartReserve(c)
    <3>1. ~Holds(c) /\ (~Holds(c)' \/ call'[c].est = 0)
      BY <2>1 DEF StartReserve, Goto, Holds, Settling, TypeOK
    <3> QED BY <3>1, DueOf, DueNext
  <2>2. CASE ReadLimit(c) \/ ReadWindow(c) \/ WatchReserve(c) \/ GetWindow(c)
             \/ GetReserved(c) \/ GetSpent(c) \/ Reject(c)
    <3>1. ~Holds(c) /\ ~Holds(c)'
      BY <2>2 DEF ReadLimit, ReadWindow, WatchReserve, GetWindow, GetReserved, GetSpent,
                  Reject, Goto, Holds, Settling, TypeOK
    <3> QED BY <3>1, DueOf, DueNext
  <2>3. CASE Abort(c) \/ WatchSettle(c) \/ GetReservedS(c) \/ GetSpentS(c) \/ Disconnect(c)
    <3>1. /\ (Holds(c)' <=> Holds(c)) /\ call'[c] = call[c]
      BY <2>3 DEF Abort, WatchSettle, GetReservedS, GetSpentS, Disconnect, Retry,
                  Goto, Holds, Settling, Reserving, Exec, TypeOK
    <3>2. Account(c)' = Account(c) BY <3>1 DEF Account
    <3> QED BY <1>1, <3>1, <3>2, DueOf, DueNext
  <2>4. CASE StartSettle(c)
    <3>1. PICK cost \in 0..(call[c].est + Overrun) :
            IF call[c].est = 0 /\ cost = 0
            THEN Goto(c, "calling", "idle") /\ Forget(c)
            ELSE /\ Goto(c, "calling", "watchS")
                 /\ call' = [call EXCEPT ![c].actual = cost]
                 /\ UNCHANGED <<terms, seen>>
      BY <2>4 DEF StartSettle
    <3>2. CASE call[c].est = 0 /\ cost = 0
      <4>1. call'[c].est = 0 BY <3>1, <3>2 DEF Forget, NoCall, TypeOK
      <4> QED BY <3>2, <4>1, DueOf, DueNext
    <3>3. CASE ~(call[c].est = 0 /\ cost = 0)
      <4>1. /\ Holds(c) /\ Holds(c)' /\ call'[c].est = call[c].est
            /\ call'[c].user = call[c].user
        BY <3>1, <3>3 DEF Goto, Holds, TypeOK
      <4>2. Account(c)' = Account(c) BY <4>1 DEF Account
      <4> QED BY <1>1, <4>1, <4>2, DueOf, DueNext
    <3> QED BY <3>2, <3>3
  <2> QED BY <2>1, <2>2, <2>3, <2>4
<1>4. Outstanding(u)' = Outstanding(u)
  <2>1. Due(c, u) \in Nat BY <1>1, OthersHold DEF Reserve, Settle, Fault
  <2> QED BY <1>2, <1>3, <2>1
<1> QED BY <1>1, <1>4 DEF Kept

\* A transaction that opens a window, or rolls an old one over: the counter is
\* the one reservation of the new window, held by c or, if c does not hear of
\* it, by nobody (budget.py:111, 119).
LEMMA OpenSums ==
  ASSUME TypeOK, TypeOK', NEW c \in Clients, NEW u \in Users, NEW from, NEW to, NEW v, NEW keys,
         Reserve(c) \/ Settle(c) \/ Abort(c) \/ Fault(c),
         Commit(c, from, to, v, keys), v.reserved = call[c].est, from \in Reserving,
         \/ /\ to = "calling" /\ call' = call
            /\ current' = [d \in Clients |-> d = c \/ (current[d] /\ Account(d) # Account(c))]
            /\ leaked' = [leaked EXCEPT ![Account(c)] = 0]
         \/ /\ to = "watch" /\ call' = call
            /\ current' = [d \in Clients |-> current[d] /\ Account(d) # Account(c)]
            /\ leaked' = [leaked EXCEPT ![Account(c)] = call[c].est]
  PROVE  IF u = Account(c) THEN Fresh(u) ELSE Kept(u)
<1>1. /\ pc[c] = from /\ pc'[c] = to /\ Account(c) \in Users
      /\ (u = Account(c) => acct'[u] = v) /\ (u # Account(c) => acct'[u] = acct[u])
  BY CommitValue
<1>2. \A d \in Clients : Account(d)' = Account(d) BY DEF Account
<1>3. ~Holds(c) /\ (Holds(c)' <=> to = "calling")
  BY <1>1 DEF Holds, Settling, Reserving
<1>4. CASE u # Account(c)
  <2>1. \A d \in Clients \ {c} : Account(d) = u => current'[d] = current[d]
    BY <1>4 DEF TypeOK
  <2>2. Due(c, u) = 0 /\ Due(c, u)' = 0 BY <1>2, <1>4, DueOf, DueNext
  <2>3. Outstanding(u)' = Outstanding(u) BY <2>1, <2>2, OthersHold
  <2>4. leaked'[u] = leaked[u] BY <1>4 DEF TypeOK
  <2> QED BY <1>1, <1>4, <2>3, <2>4 DEF Kept
<1>5. CASE u = Account(c)
  <2> DEFINE new == [d \in Clients |-> call'[d].est]
  <2>1. Outstanding(u)' = Total(new, Holders(u)') BY DEF Outstanding
  <2>2. CASE to = "calling"
    <3>1. Holders(u)' = {c} BY <1>1, <1>2, <1>3, <1>5, <2>2 DEF Holders, TypeOK
    <3>2. new[c] = call[c].est /\ call[c].est \in Nat BY <2>2 DEF TypeOK
    <3> HIDE DEF new
    <3>3. {c} \ {c} = {} OBVIOUS
    <3>4. \A y \in {c} : new[y] \in Nat BY <3>2
    <3>5. IsFiniteSet({c}) BY FS_Singleton
    <3>6. Total(new, {c}) = Total(new, {}) + new[c] BY <3>3, <3>4, <3>5, TotalSplit
    <3>7. Outstanding(u)' = call[c].est BY <2>1, <3>1, <3>2, <3>6, TotalEmpty
    <3>8. leaked'[u] = 0 BY <1>5, <2>2 DEF TypeOK
    <3> QED BY <1>1, <1>5, <3>2, <3>7, <3>8 DEF Fresh
  <2>3. CASE to = "watch"
    <3>1. Holders(u)' = {} BY <1>1, <1>2, <1>3, <1>5, <2>3 DEF Holders, TypeOK
    <3>2. Outstanding(u)' = 0 BY <2>1, <3>1, TotalEmpty
    <3>3. leaked'[u] = call[c].est /\ call[c].est \in Nat BY <1>5, <2>3 DEF TypeOK
    <3> QED BY <1>1, <1>5, <3>2, <3>3 DEF Fresh
  <2> QED BY <2>2, <2>3
<1> QED BY <1>4, <1>5

\* A reservation inside a window adds its estimate to the counter and to what c
\* holds, or to what nobody will release.
LEMMA AddSums ==
  ASSUME TypeOK, TypeOK', NEW c \in Clients, NEW u \in Users, NEW to, NEW keys,
         Reserve(c) \/ Settle(c) \/ Abort(c) \/ Fault(c), SnapshotFaithful,
         Commit(c, "execAdd", to, Added(c), keys), call' = call,
         \/ /\ to = "calling" /\ current' = [current EXCEPT ![c] = TRUE] /\ leaked' = leaked
         \/ /\ to = "watch" /\ current' = current
            /\ leaked' = [leaked EXCEPT ![Account(c)] = @ + call[c].est]
  PROVE  Kept(u)
<1>1. /\ pc[c] = "execAdd" /\ pc'[c] = to /\ ~dirty[c] /\ Account(c) \in Users
      /\ (u = Account(c) => acct'[u] = Added(c)) /\ (u # Account(c) => acct'[u] = acct[u])
  BY CommitValue
<1>2. /\ ~Holds(c) /\ (Holds(c)' <=> to = "calling") /\ Account(c)' = Account(c)
      /\ \A d \in Clients \ {c} : current'[d] = current[d]
  BY <1>1 DEF Holds, Settling, Account, TypeOK
<1>3. /\ Outstanding(u) \in Nat /\ Outstanding(u)' \in Nat
      /\ Outstanding(u)' + Due(c, u) = Outstanding(u) + Due(c, u)'
  BY <1>2, OthersHold
<1>4. Due(c, u) = 0 BY <1>2, DueOf
<1>5. /\ acct[u].reserved \in Nat /\ leaked[u] \in Nat /\ call[c].est \in Nat
  BY DEF TypeOK
<1>6. CASE u # Account(c)
  <2>1. Due(c, u)' = 0 BY <1>2, <1>6, DueNext
  <2>2. leaked'[u] = leaked[u] BY <1>6 DEF TypeOK
  <2> QED BY <1>1, <1>3, <1>4, <1>5, <1>6, <2>1, <2>2 DEF Kept
<1>7. CASE u = Account(c)
  <2>1. acct'[u].reserved = acct[u].reserved + call[c].est
    <3>1. seen[c].reserved = acct[u].reserved
      BY <1>1, <1>7 DEF SnapshotFaithful, Faithful
    <3> QED BY <1>1, <1>7, <3>1 DEF Added, TypeOK
  <2>2. CASE to = "calling"
    <3>1. Due(c, u)' = call[c].est /\ leaked'[u] = leaked[u]
      BY <1>2, <1>7, <2>2, DueNext DEF TypeOK
    <3> QED BY <1>3, <1>4, <1>5, <2>1, <3>1 DEF Kept
  <2>3. CASE to = "watch"
    <3>1. Due(c, u)' = 0 BY <1>2, <2>3, DueNext
    <3>2. leaked'[u] = leaked[u] + call[c].est BY <1>7, <2>3 DEF TypeOK
    <3> QED BY <1>3, <1>4, <1>5, <2>1, <3>1, <3>2 DEF Kept
  <2> QED BY <2>2, <2>3
<1> QED BY <1>6, <1>7

\* A settlement takes its estimate off the counter and off what is outstanding;
\* one whose window is over takes it off what others hold (budget.py:154).
LEMMA SettleSums ==
  ASSUME TypeOK, TypeOK', NEW c \in Clients, NEW u \in Users, NEW to, NEW keys,
         Reserve(c) \/ Settle(c) \/ Abort(c) \/ Fault(c), SnapshotFaithful,
         Commit(c, "execSettle", to, Settled(c), keys),
         current' = [current EXCEPT ![c] = FALSE], leaked' = leaked
  PROVE  Kept(u) \/ Late(c, u)
<1>1. /\ pc[c] = "execSettle" /\ ~dirty[c] /\ Account(c) \in Users
      /\ (u = Account(c) => acct'[u] = Settled(c)) /\ (u # Account(c) => acct'[u] = acct[u])
  BY CommitValue
<1>2. Holds(c) /\ ~current'[c] /\ \A d \in Clients \ {c} : current'[d] = current[d]
  BY <1>1 DEF Holds, Settling, TypeOK
<1>3. /\ Outstanding(u) \in Nat /\ Outstanding(u)' \in Nat
      /\ Outstanding(u)' + Due(c, u) = Outstanding(u) + Due(c, u)'
  BY <1>2, OthersHold
<1>4. Due(c, u)' = 0 BY <1>2, DueNext
<1>5. /\ acct[u].reserved \in Nat /\ leaked[u] \in Nat /\ call[c].est \in Nat
  BY DEF TypeOK
<1>6. CASE u # Account(c)
  <2>1. Due(c, u) = 0 BY <1>6, DueOf
  <2> QED BY <1>1, <1>3, <1>4, <1>5, <1>6, <2>1 DEF Kept
<1>7. CASE u = Account(c)
  <2>1. acct'[u].reserved = LessButNotNegative(acct[u].reserved, call[c].est)
    <3>1. seen[c].reserved = acct[u].reserved
      BY <1>1, <1>7 DEF SnapshotFaithful, Faithful
    <3>2. \A x, y : \A a \in [reserved : Nat, spent : Nat, start : Nat, expires : Nat] :
            [a EXCEPT !.spent = x, !.reserved = y].reserved = y
      OBVIOUS
    <3>3. Settled(c).reserved = LessButNotNegative(seen[c].reserved, call[c].est)
      BY <1>1, <3>2 DEF Settled, TypeOK
    <3> QED BY <1>1, <1>7, <3>1, <3>3
  <2>2. CASE acct[u].reserved < call[c].est
    <3>1. acct'[u].reserved = 0 BY <1>5, <2>1, <2>2 DEF LessButNotNegative
    <3> QED BY <1>1, <1>5, <1>7, <2>2, <3>1 DEF Late
  <2>3. CASE acct[u].reserved >= call[c].est
    <3>1. acct'[u].reserved = acct[u].reserved - call[c].est
      BY <1>5, <2>1, <2>3 DEF LessButNotNegative
    <3>2. CASE current[c]
      <4>1. Due(c, u) = call[c].est BY <1>2, <1>7, <3>2, DueOf
      <4> QED BY <1>3, <1>4, <1>5, <3>1, <4>1 DEF Kept
    <3>3. CASE ~current[c]
      <4>1. Due(c, u) = 0 BY <3>3, DueOf
      <4>2. Outstanding(u)' = Outstanding(u) BY <1>3, <1>4, <4>1
      <4>3. CASE call[c].est = 0 BY <1>3, <1>5, <3>1, <4>2, <4>3 DEF Kept
      <4>4. CASE call[c].est > 0
        <5>1. acct'[u].reserved <= acct[u].reserved BY <1>5, <3>1
        <5> QED BY <1>1, <1>7, <3>3, <4>2, <4>4, <5>1 DEF Late
      <4> QED BY <1>5, <4>3, <4>4
    <3> QED BY <3>2, <3>3
  <2> QED BY <1>5, <2>2, <2>3
<1> QED BY <1>6, <1>7

\* What a dead worker held stays in the counter and is nobody's from then on.
LEMMA CrashSums ==
  ASSUME TypeOK, TypeOK', NEW c \in Clients, NEW u \in Users, Crash(c) PROVE Kept(u)
<1>1. /\ acct' = acct /\ ~current'[c] /\ Account(c) \in Users
      /\ \A d \in Clients \ {c} : current'[d] = current[d]
  BY AccountType DEF Crash, TypeOK, store
<1>2. /\ Outstanding(u) \in Nat /\ Outstanding(u)' \in Nat
      /\ Outstanding(u)' + Due(c, u) = Outstanding(u) + Due(c, u)'
  BY <1>1, OthersHold DEF Fault
<1>3. Due(c, u)' = 0 BY <1>1, DueNext
<1>4. /\ acct[u].reserved \in Nat /\ leaked[u] \in Nat /\ call[c].est \in Nat
  BY DEF TypeOK
<1>5. CASE Holds(c) /\ current[c] /\ Account(c) = u
  <2>1. Due(c, u) = call[c].est BY <1>5, DueOf
  <2>2. leaked'[u] = leaked[u] + call[c].est BY <1>5 DEF Crash, TypeOK
  <2> QED BY <1>1, <1>2, <1>3, <1>4, <2>1, <2>2 DEF Kept
<1>6. CASE ~(Holds(c) /\ current[c] /\ Account(c) = u)
  <2>1. Due(c, u) = 0 BY <1>6, DueOf
  <2>2. leaked'[u] = leaked[u] BY <1>1, <1>6 DEF Crash, TypeOK
  <2> QED BY <1>1, <1>2, <1>3, <1>4, <2>1, <2>2 DEF Kept
<1> QED BY <1>5, <1>6

\* Every step of a client.
LEMMA ClientSums ==
  ASSUME TypeOK, TypeOK', SnapshotFaithful, NEW c \in Clients, NEW u \in Users,
         Reserve(c) \/ Settle(c) \/ Abort(c) \/ Fault(c)
  PROVE  Kept(u) \/ Fresh(u) \/ Late(c, u)
<1> USE DEF counts
<1>0. Opened(c).reserved = call[c].est /\ Rolled(c).reserved = call[c].est
  BY AccountType DEF Opened, Rolled, TypeOK
<1>1. CASE ExecOpen(c) \/ ExecRoll(c)
  <2>1. PICK from, v, keys :
          from \in Reserving /\ Commit(c, from, "calling", v, keys) /\ v.reserved = call[c].est
    BY <1>0, <1>1 DEF ExecOpen, ExecRoll, Reserving
  <2>2. /\ call' = call /\ leaked' = [leaked EXCEPT ![Account(c)] = 0]
        /\ current' = [d \in Clients |-> d = c \/ (current[d] /\ Account(d) # Account(c))]
    BY <1>1 DEF ExecOpen, ExecRoll, NewWindow
  <2> QED BY <2>1, <2>2, OpenSums
<1>2. CASE ExecAdd(c)
  BY <1>2, AddSums DEF ExecAdd
<1>3. CASE ExecSettle(c)
  BY <1>3, SettleSums DEF ExecSettle
<1>4. CASE Crash(c)
  BY <1>4, CrashSums
<1>5. CASE LoseReply(c)
  <2>1. call' = call BY <1>5 DEF LoseReply
  <2>2. CASE /\ \/ Commit(c, "execOpen", "watch", Opened(c), {"window", "reserved"})
                \/ Commit(c, "execRoll", "watch", Rolled(c), {"window", "reserved", "spent"})
             /\ current' = [d \in Clients |-> current[d] /\ Account(d) # Account(c)]
             /\ leaked' = [leaked EXCEPT ![Account(c)] = call[c].est]
    <3>1. PICK from, v, keys :
            from \in Reserving /\ Commit(c, from, "watch", v, keys) /\ v.reserved = call[c].est
      BY <1>0, <2>2 DEF Reserving
    <3> QED BY <2>1, <2>2, <3>1, OpenSums
  <2>3. CASE /\ Commit(c, "execAdd", "watch", Added(c), {"reserved"})
             /\ leaked' = [leaked EXCEPT ![Account(c)] = @ + call[c].est]
             /\ UNCHANGED current
    BY <2>1, <2>3, AddSums
  <2>4. CASE /\ Commit(c, "execSettle", "watchS", Settled(c), {"reserved", "spent"})
             /\ current' = [current EXCEPT ![c] = FALSE]
             /\ UNCHANGED leaked
    BY <2>4, SettleSums
  <2> QED BY <1>5, <2>2, <2>3, <2>4 DEF LoseReply
<1> QED BY <1>1, <1>2, <1>3, <1>4, <1>5, ReadSums DEF Reserve, Settle, Fault

\* What is outstanding is an amount.
LEMMA OutstandingType ==
  ASSUME NEW u PROVE (TypeOK => Outstanding(u) \in Nat) /\ (TypeOK' => Outstanding(u)' \in Nat)
<1>1. IsFiniteSet(Holders(u)) /\ IsFiniteSet(Holders(u)')
  BY ClientsAssumption, FS_Subset DEF Holders
<1>2. ASSUME TypeOK PROVE Outstanding(u) \in Nat
  <2>1. \A c \in Holders(u) : [d \in Clients |-> call[d].est][c] \in Nat
    BY <1>2 DEF Holders, TypeOK
  <2> QED BY <1>1, <2>1, TotalType DEF Outstanding
<1>3. ASSUME TypeOK' PROVE Outstanding(u)' \in Nat
  <2>1. \A c \in Holders(u)' : [d \in Clients |-> call'[d].est][c] \in Nat
    BY <1>3 DEF Holders, TypeOK
  <2> QED BY <1>1, <2>1, TotalType DEF Outstanding
<1> QED BY <1>2, <1>3

\* Time and administrators: a reset takes the counter and what accounts for it.
LEMMA OtherSums ==
  ASSUME TypeOK, TypeOK', NEW u \in Users, Tick \/ Admin
  PROVE  Kept(u) \/ acct'[u].reserved <= Outstanding(u)' + leaked'[u]
<1> USE DEF store, local, counts
<1>1. Outstanding(u)' \in Nat BY OutstandingType
<1>2. ASSUME UNCHANGED <<local, current, leaked>>, acct'[u].reserved = acct[u].reserved
      PROVE  Kept(u)
  <2>1. Outstanding(u)' = Outstanding(u) BY <1>2 DEF Outstanding, Holders, Holds, Account
  <2> QED BY <1>2, <2>1 DEF Kept
<1>3. CASE Tick
  BY <1>1, <1>2, <1>3 DEF Tick
<1>4. ASSUME NEW w \in Users, Reset(w)
      PROVE  Kept(u) \/ acct'[u].reserved <= Outstanding(u)' + leaked'[u]
  <2>1. Uid[w] \in Users BY UidAssumption
  <2>2. CASE u = Uid[w]
    <3>1. acct'[u].reserved = 0 /\ leaked'[u] \in Nat
      BY <1>4, <2>1, <2>2 DEF Reset, TypeOK
    <3> QED BY <1>1, <3>1
  <2>3. CASE u # Uid[w]
    <3>1. Holders(u)' = Holders(u)
      BY <1>4, <2>3 DEF Reset, Holders, Holds, Account, TypeOK
    <3>2. Outstanding(u)' = Outstanding(u) BY <1>4, <3>1 DEF Outstanding, Reset
    <3>3. acct'[u] = acct[u] /\ leaked'[u] = leaked[u] BY <1>4, <2>3 DEF Reset, TypeOK
    <3> QED BY <3>2, <3>3 DEF Kept
  <2> QED BY <2>2, <2>3
<1>5. ASSUME NEW w \in Users, NEW l, NEW n, SetBudget(w, l, n) PROVE Kept(u)
  <2>1. acct'[u].reserved = acct[u].reserved BY <1>5 DEF SetBudget, TypeOK
  <2> QED BY <1>2, <1>5, <2>1 DEF SetBudget
<1> QED BY <1>1, <1>3, <1>4, <1>5 DEF Admin

LEMMA PhantomStep ==
  TypeOK /\ TypeOK' /\ SnapshotFaithful /\ NoPhantomReservation /\ [Next]_vars
    => NoPhantomReservation'
<1> SUFFICES ASSUME TypeOK, TypeOK', SnapshotFaithful, NoPhantomReservation, [Next]_vars,
                    NEW u \in Users
             PROVE  acct'[u].reserved <= Outstanding(u)' + leaked'[u]
  BY DEF NoPhantomReservation
<1>1. /\ acct[u].reserved \in Nat /\ leaked[u] \in Nat
      /\ acct'[u].reserved \in Nat /\ leaked'[u] \in Nat
      /\ Outstanding(u) \in Nat /\ Outstanding(u)' \in Nat
      /\ acct[u].reserved <= Outstanding(u) + leaked[u]
  BY OutstandingType DEF TypeOK, NoPhantomReservation
<1>2. CASE Kept(u) BY <1>1, <1>2 DEF Kept
<1>3. ASSUME NEW c \in Clients, Reserve(c) \/ Settle(c) \/ Abort(c) \/ Fault(c)
      PROVE  acct'[u].reserved <= Outstanding(u)' + leaked'[u]
  <2>1. CASE Fresh(u) BY <1>1, <2>1 DEF Fresh
  <2>2. CASE Late(c, u) BY <1>1, <2>2 DEF Late
  <2> QED BY <1>2, <1>3, <2>1, <2>2, ClientSums
<1>4. CASE Tick \/ Admin BY <1>2, <1>4, OtherSums
<1>5. CASE UNCHANGED vars
  <2>1. Outstanding(u)' = Outstanding(u)
    BY <1>5 DEF vars, local, Outstanding, Holders, Holds, Account
  <2> QED BY <1>1, <1>5, <2>1 DEF vars, store
<1> QED BY <1>3, <1>4, <1>5 DEF Next

\* Before anybody asks, nothing is reserved and nothing outstanding.
LEMMA InitSums == Init => ReservedMatchesOutstanding /\ NoPhantomReservation
<1> SUFFICES ASSUME Init, NEW u \in Users
             PROVE  acct[u].reserved = Outstanding(u) + leaked[u] /\ acct[u].reserved = 0
  BY DEF ReservedMatchesOutstanding, NoPhantomReservation
<1>1. Holders(u) = {} BY DEF Init, Holders
<1>2. Outstanding(u) = 0 BY <1>1, TotalEmpty DEF Outstanding
<1> QED BY <1>2 DEF Init

\* Whatever crosses a rollover, a reset or a crash, and whatever reply is lost,
\* no budget stays blocked beyond what calls hold and dead workers left behind.
THEOREM PhantomCorrect == Spec => []NoPhantomReservation
BY InitSums, PhantomStep, TypeCorrect, SnapshotCorrect, PTL DEF Spec

\* A window lives at most its length: int() drops a fraction of a second.
LEMMA TtlBound == ASSUME NEW w \in Nat PROVE Ttl(w) \in Nat /\ Ttl(w) <= w
<1>1. Second \in Nat /\ Second > 0 BY TimeAssumption
<1>2. (w \div Second) * Second <= w BY <1>1
<1> QED BY <1>2, TtlNat DEF Ttl

\* Once a window has ended, a budget was administered or a reply was lost, that
\* stays so.
LEMMA FirstWindowBefore ==
  ASSUME TypeOK, [Next]_vars, FirstWindow'
  PROVE  FirstWindow /\ ~Admin /\ (\A c \in Clients : ~LoseReply(c)) /\ clock <= clock'
<1> USE DEF store, local, counts
<1>1. Ttl(DefaultWindow) \in Nat BY TimeAssumption, TtlNat
<1>2. ~Admin
  <2>1. \A u, l, w : SetBudget(u, l, w) => admin' = admin + 1 BY DEF SetBudget
  <2>2. \A u : Reset(u) => admin' = admin + 1 BY DEF Reset
  <2>3. admin' = 0 /\ admin \in Nat BY DEF FirstWindow, TypeOK
  <2> QED BY <2>1, <2>2, <2>3 DEF Admin
<1>3. \A c \in Clients : ~LoseReply(c) BY DEF FirstWindow, LoseReply, TypeOK
<1>4. CASE UNCHANGED vars BY <1>2, <1>3, <1>4 DEF vars, FirstWindow, TypeOK
<1>5. CASE Tick BY <1>1, <1>2, <1>3, <1>5 DEF Tick, FirstWindow, TypeOK
<1>6. ASSUME NEW c \in Clients, Reserve(c) \/ Settle(c) \/ Abort(c) \/ Crash(c) \/ Disconnect(c)
      PROVE  clock' = clock /\ admin' = admin /\ lost' = lost
  BY <1>6 DEF Reserve, Settle, StartReserve, ReadLimit, ReadWindow, WatchReserve, GetWindow,
     GetReserved, GetSpent, Reject, ExecOpen, ExecRoll, ExecAdd, Commit, NewWindow, StartSettle,
     WatchSettle, GetReservedS, GetSpentS, ExecSettle, Abort, Crash, Disconnect, CountFault
<1>7. ASSUME NEW c \in Clients, Reserve(c) \/ Settle(c) \/ Abort(c) \/ Crash(c) \/ Disconnect(c)
      PROVE  FirstWindow /\ clock <= clock'
  BY <1>6, <1>7 DEF FirstWindow, TypeOK
<1> QED BY <1>2, <1>3, <1>4, <1>5, <1>7 DEF Next, Fault

\* Until then a transaction that goes through finds its account without a window
\* and without a reservation, or inside the window it opened.
LEMMA FirstCommit ==
  ASSUME TypeOK, SnapshotFaithful, WindowInv, FirstWindow, NEW c \in Clients, ~dirty[c]
  PROVE  /\ pc[c] = "execOpen" => acct[Account(c)].expires = 0
         /\ pc[c] # "execRoll"
         /\ pc[c] = "execAdd" => acct[Account(c)].expires # 0
<1>1. /\ Account(c) \in Users /\ clock \in Nat /\ acct[Account(c)].expires \in Nat
      /\ acct[Account(c)].start \in Nat /\ terms[c].now \in Nat
  BY AccountType DEF TypeOK
<1>2. acct[Account(c)].expires = 0 \/ acct[Account(c)].expires >= Ttl(DefaultWindow)
  BY <1>1 DEF WindowInv
<1>3. Ttl(DefaultWindow) \in Nat /\ Ttl(DefaultWindow) <= DefaultWindow /\ DefaultWindow \in Nat
  BY TimeAssumption, TtlBound
<1>4. clock < Ttl(DefaultWindow) BY DEF FirstWindow
<1>5. Faithful(c) BY DEF SnapshotFaithful
<1>6. ASSUME pc[c] = "execOpen" PROVE acct[Account(c)].expires = 0
  BY <1>1, <1>2, <1>3, <1>4, <1>5, <1>6 DEF Faithful, HasWindow
<1>7. pc[c] # "execRoll"
  <2> SUFFICES ASSUME pc[c] = "execRoll" PROVE FALSE OBVIOUS
  <2>1. WindowElapsed(c) BY <1>5 DEF Faithful
  <2>2. terms[c].window = DefaultWindow /\ terms[c].now <= clock BY DEF WindowInv, Reserving
  <2> QED BY <1>1, <1>3, <1>4, <2>1, <2>2 DEF WindowElapsed
<1>8. ASSUME pc[c] = "execAdd" PROVE acct[Account(c)].expires # 0
  BY <1>1, <1>5, <1>8 DEF Faithful, WindowFresh, HasWindow
<1> QED BY <1>6, <1>7, <1>8

\* What a step of c does to the accounts' windows until then.
LEMMA FirstExpiry ==
  ASSUME TypeOK, SnapshotFaithful, WindowInv, FirstWindow, NEW c \in Clients,
         Reserve(c) \/ Settle(c) \/ Abort(c) \/ Crash(c) \/ Disconnect(c), NEW u \in Users
  PROVE  \/ acct'[u].expires = acct[u].expires
         \/ /\ pc[c] = "execOpen" /\ ~dirty[c] /\ u = Account(c)
            /\ acct[u].expires = 0 /\ acct'[u].expires = clock + Ttl(DefaultWindow)
<1> USE DEF store
<1>1. CASE ExecOpen(c)
  <2>1. /\ pc[c] = "execOpen" /\ ~dirty[c] /\ Account(c) \in Users
        /\ (u = Account(c) => acct'[u] = Opened(c)) /\ (u # Account(c) => acct'[u] = acct[u])
    BY <1>1, CommitValue DEF ExecOpen
  <2>2. terms[c].window = DefaultWindow BY <2>1 DEF WindowInv, Reserving
  <2>3. Opened(c).expires = clock + Ttl(DefaultWindow) BY <2>1, <2>2 DEF Opened, TypeOK
  <2> QED BY <2>1, <2>3, FirstCommit
<1>2. CASE ExecRoll(c)
  BY <1>2, FirstCommit, CommitValue DEF ExecRoll
<1>3. CASE ExecAdd(c) \/ ExecSettle(c)
  <2>1. \A x, y : \A a \in [reserved : Nat, spent : Nat, start : Nat, expires : Nat] :
          /\ [a EXCEPT !.reserved = y].expires = a.expires
          /\ [a EXCEPT !.spent = x, !.reserved = y].expires = a.expires
    OBVIOUS
  <2>2. Account(c) \in Users BY AccountType
  <2>3. /\ Added(c).expires = acct[Account(c)].expires
        /\ Settled(c).expires = acct[Account(c)].expires
    BY <2>1, <2>2 DEF Added, Settled, TypeOK
  <2> QED BY <1>3, <2>3, CommitValue DEF ExecAdd, ExecSettle
<1>4. CASE ~(ExecOpen(c) \/ ExecRoll(c) \/ ExecAdd(c) \/ ExecSettle(c))
  BY <1>4 DEF Reserve, Settle, StartReserve, ReadLimit, ReadWindow, WatchReserve, GetWindow,
     GetReserved, GetSpent, Reject, StartSettle, WatchSettle, GetReservedS, GetSpentS, Abort,
     Crash, Disconnect
<1> QED BY <1>1, <1>2, <1>3, <1>4

\* The terms a client goes by, until then.
LEMMA FirstTerms ==
  ASSUME TypeOK, WindowInv, FirstWindow, NEW c \in Clients, clock <= clock',
         Reserve(c) \/ Settle(c) \/ Abort(c) \/ Crash(c) \/ Disconnect(c),
         pc'[c] \in {"watch"} \cup Reserving
  PROVE  terms'[c].window = DefaultWindow /\ terms'[c].now <= clock'
<1>1. clock \in Nat /\ terms[c].now \in Nat /\ call[c].user \in Users BY DEF TypeOK
<1>2. CASE ReadWindow(c)
  <2>1. windows[call[c].user] = DefaultWindow BY <1>1 DEF WindowInv
  <2>2. terms'[c].window = windows[call[c].user] /\ terms'[c].now = clock /\ clock' = clock
    BY <1>2 DEF ReadWindow, TypeOK, store
  <2> QED BY <1>1, <2>1, <2>2
<1>3. CASE WatchReserve(c) \/ GetWindow(c) \/ GetReserved(c) \/ GetSpent(c) \/ Abort(c)
           \/ Disconnect(c)
  <2>1. pc[c] \in {"watch"} \cup Reserving /\ terms' = terms /\ clock' = clock
    BY <1>3 DEF WatchReserve, GetWindow, GetReserved, GetSpent, Abort, Disconnect, Retry, Goto,
       Reserving, Settling, Exec, TypeOK, store
  <2> QED BY <1>1, <2>1 DEF WindowInv
<1>4. ~(StartReserve(c) \/ ReadLimit(c) \/ Reject(c) \/ ExecOpen(c) \/ ExecRoll(c) \/ ExecAdd(c)
        \/ StartSettle(c) \/ WatchSettle(c) \/ GetReservedS(c) \/ GetSpentS(c) \/ ExecSettle(c)
        \/ Crash(c))
  BY DEF StartReserve, ReadLimit, Reject, ExecOpen, ExecRoll, ExecAdd, Commit, StartSettle,
     WatchSettle, GetReservedS, GetSpentS, ExecSettle, Crash, Goto, Reserving, TypeOK
<1> QED BY <1>2, <1>3, <1>4 DEF Reserve, Settle

\* Until then whoever holds a reservation after its own step made it in the
\* window that runs.
LEMMA FirstHolds ==
  ASSUME TypeOK, TypeOK', SnapshotFaithful, WindowInv, FirstWindow, NEW c \in Clients,
         Reserve(c) \/ Settle(c) \/ Abort(c) \/ Crash(c) \/ Disconnect(c),
         Holds(c)', call'[c].est > 0
  PROVE  current'[c] /\ acct'[Account(c)'].expires # 0
<1>1. \A u \in Users : acct[u].expires # 0 => acct'[u].expires # 0
  BY FirstExpiry
<1>2. Account(c) \in Users BY AccountType
<1>3. CASE ExecOpen(c) \/ ExecRoll(c) \/ ExecAdd(c)
  <2>1. current'[c] /\ Account(c)' = Account(c)
    BY <1>3 DEF ExecOpen, ExecRoll, ExecAdd, NewWindow, Account, TypeOK
  <2>2. CASE ExecAdd(c)
    BY <1>1, <1>2, <2>1, <2>2, FirstCommit DEF ExecAdd, Commit, Goto
  <2>3. CASE ExecRoll(c)
    BY <2>3, FirstCommit DEF ExecRoll, Commit, Goto
  <2>4. CASE ExecOpen(c)
    <3>1. /\ pc[c] = "execOpen" /\ ~dirty[c] /\ acct'[Account(c)] = Opened(c)
      BY <1>2, <2>4, CommitValue DEF ExecOpen
    <3>2. terms[c].window = DefaultWindow BY <3>1 DEF WindowInv, Reserving
    <3>3. Opened(c).expires = clock + Ttl(DefaultWindow)
      BY <1>2, <3>1, <3>2 DEF Opened, TypeOK
    <3>4. clock \in Nat /\ Ttl(DefaultWindow) \in Nat /\ clock < Ttl(DefaultWindow)
      BY TimeAssumption, TtlNat DEF TypeOK, FirstWindow
    <3> QED BY <2>1, <3>1, <3>3, <3>4
  <2> QED BY <1>3, <2>2, <2>3, <2>4
<1>4. CASE StartSettle(c) \/ WatchSettle(c) \/ GetReservedS(c) \/ GetSpentS(c) \/ Abort(c)
           \/ Disconnect(c)
  <2>1. current' = current /\ acct' = acct
    BY <1>4 DEF StartSettle, WatchSettle, GetReservedS, GetSpentS, Abort, Disconnect, store
  <2>2. Holds(c) /\ call'[c].est = call[c].est /\ call'[c].user = call[c].user
    <3>1. CASE StartSettle(c)
      BY <3>1 DEF StartSettle, Goto, Forget, NoCall, Holds, Settling, TypeOK
    <3>2. CASE ~StartSettle(c)
      BY <1>4, <3>2 DEF WatchSettle, GetReservedS, GetSpentS, Abort, Disconnect, Retry, Goto,
         Holds, Settling, Reserving, Exec, TypeOK
    <3> QED BY <3>1, <3>2
  <2>3. Account(c)' = Account(c) BY <2>2 DEF Account
  <2> QED BY <2>1, <2>2, <2>3 DEF WindowInv
<1>5. ~StartReserve(c)
  BY DEF StartReserve, Goto, Holds, Settling, TypeOK
<1>6. ~(ReadLimit(c) \/ ReadWindow(c) \/ WatchReserve(c) \/ GetWindow(c) \/ GetReserved(c)
        \/ GetSpent(c) \/ Reject(c) \/ ExecSettle(c) \/ Crash(c))
  BY DEF ReadLimit, ReadWindow, WatchReserve, GetWindow, GetReserved, GetSpent, Reject,
     ExecSettle, Commit, Crash, Goto, Holds, Settling, TypeOK
<1> QED BY <1>3, <1>4, <1>5, <1>6 DEF Reserve, Settle

\* Until then no step of c takes a reservation out of another client's window.
LEMMA FirstOthers ==
  ASSUME TypeOK, TypeOK', SnapshotFaithful, WindowInv, FirstWindow, NEW c \in Clients,
         Reserve(c) \/ Settle(c) \/ Abort(c) \/ Crash(c) \/ Disconnect(c),
         NEW d \in Clients, d # c, Holds(d), call[d].est > 0
  PROVE  current'[d] /\ acct'[Account(d)].expires # 0
<1>1. current[d] /\ acct[Account(d)].expires # 0 BY DEF WindowInv
<1>2. Account(d) \in Users /\ Account(c) \in Users BY AccountType
<1>3. acct'[Account(d)].expires # 0 BY <1>1, <1>2, FirstExpiry
<1>4. CASE ExecOpen(c)
  <2>1. Account(d) # Account(c) BY <1>1, <1>4, FirstCommit DEF ExecOpen, Commit, Goto
  <2>2. current'[d] BY <1>1, <1>4, <2>1 DEF ExecOpen, NewWindow
  <2> QED BY <1>3, <2>2
<1>5. CASE ExecRoll(c)
  BY <1>5, FirstCommit DEF ExecRoll, Commit, Goto
<1>6. CASE ~(ExecOpen(c) \/ ExecRoll(c))
  <2>1. current'[d] = current[d]
    BY <1>6 DEF Reserve, Settle, StartReserve, ReadLimit, ReadWindow, WatchReserve, GetWindow,
       GetReserved, GetSpent, Reject, ExecAdd, StartSettle, WatchSettle, GetReservedS, GetSpentS,
       ExecSettle, Abort, Crash, Disconnect, TypeOK
  <2> QED BY <1>1, <1>3, <2>1
<1> QED BY <1>4, <1>5, <1>6

\* What a client's step does not touch: limits and lengths of windows.
LEMMA ClientKeeps ==
  ASSUME NEW c \in Clients, Reserve(c) \/ Settle(c) \/ Abort(c) \/ Fault(c)
  PROVE  limits' = limits /\ windows' = windows
BY DEF Reserve, Settle, Fault, StartReserve, ReadLimit, ReadWindow, WatchReserve, GetWindow,
   GetReserved, GetSpent, Reject, ExecOpen, ExecRoll, ExecAdd, Commit, StartSettle, WatchSettle,
   GetReservedS, GetSpentS, ExecSettle, Abort, Crash, Disconnect, LoseReply, store

LEMMA WindowStep ==
  TypeOK /\ TypeOK' /\ SnapshotFaithful /\ WindowInv /\ [Next]_vars => WindowInv'
<1> SUFFICES ASSUME TypeOK, TypeOK', SnapshotFaithful, WindowInv, [Next]_vars, FirstWindow'
             PROVE  WindowInv'
  BY DEF WindowInv
<1> USE DEF store, local
<1>1. FirstWindow /\ ~Admin /\ (\A c \in Clients : ~LoseReply(c)) /\ clock <= clock'
  BY FirstWindowBefore
<1>2. /\ clock \in Nat /\ clock' \in Nat /\ Ttl(DefaultWindow) \in Nat
      /\ \A c \in Clients : terms[c].now \in Nat
  BY TimeAssumption, TtlNat DEF TypeOK
<1>3. CASE Tick \/ UNCHANGED vars
  <2>1. UNCHANGED <<acct, limits, windows, local, current>>
    BY <1>3 DEF Tick, vars
  <2>2. \A c \in Clients : Account(c)' = Account(c) /\ (Holds(c)' <=> Holds(c))
    BY <2>1 DEF Account, Holds
  <2>3. \A c \in Clients : terms[c].now <= clock => terms[c].now <= clock'
    BY <1>1, <1>2
  <2> QED BY <1>1, <2>1, <2>2, <2>3 DEF WindowInv
<1>4. ASSUME NEW c \in Clients, Reserve(c) \/ Settle(c) \/ Abort(c) \/ Crash(c) \/ Disconnect(c)
      PROVE  WindowInv'
  <2>1. limits' = limits /\ windows' = windows BY <1>4, ClientKeeps DEF Fault
  <2>2. ASSUME NEW u \in Users
        PROVE  acct'[u].expires = 0 \/ acct'[u].expires >= Ttl(DefaultWindow)
    <3>1. CASE acct'[u].expires = acct[u].expires BY <1>1, <3>1 DEF WindowInv
    <3>2. CASE acct'[u].expires = clock + Ttl(DefaultWindow) BY <1>2, <3>2
    <3> QED BY <1>1, <1>4, <3>1, <3>2, FirstExpiry
  <2>3. ASSUME NEW d \in Clients, d # c
        PROVE  /\ pc'[d] \in {"watch"} \cup Reserving
                    => terms'[d].window = DefaultWindow /\ terms'[d].now <= clock'
               /\ Holds(d)' /\ call'[d].est > 0
                    => current'[d] /\ acct'[Account(d)'].expires # 0
    <3>1. Undisturbed(d) BY <1>4, <2>3, ClientFrame DEF Fault
    <3>2. Account(d)' = Account(d) /\ (Holds(d)' <=> Holds(d)) BY <3>1 DEF Undisturbed, Account, Holds
    <3>3. terms[d].now <= clock => terms[d].now <= clock' BY <1>1, <1>2
    <3> QED BY <1>1, <1>4, <2>3, <3>1, <3>2, <3>3, FirstOthers DEF WindowInv, Undisturbed
  <2>4. /\ pc'[c] \in {"watch"} \cup Reserving
             => terms'[c].window = DefaultWindow /\ terms'[c].now <= clock'
        /\ Holds(c)' /\ call'[c].est > 0
             => current'[c] /\ acct'[Account(c)'].expires # 0
    BY <1>1, <1>4, FirstTerms, FirstHolds
  <2> QED BY <1>1, <2>1, <2>2, <2>3, <2>4 DEF WindowInv
<1> QED BY <1>1, <1>3, <1>4 DEF Next, Fault

LEMMA InitWindow == Init => WindowInv
BY DEF Init, WindowInv, Reserving, Holds, Settling

\* In the first window what a call holds is part of what its account counts.
LEMMA HeldIsCounted ==
  ASSUME TypeOK, WindowInv, FirstWindow, ReservedMatchesOutstanding,
         NEW c \in Clients, Holds(c), call[c].est > 0
  PROVE  current[c] /\ call[c].est <= acct[Account(c)].reserved
<1> DEFINE u == Account(c)
<1>1. current[c] BY DEF WindowInv
<1>2. Due(c, u) = call[c].est BY <1>1, DueOf
<1>3. Due(c, u) <= Outstanding(u)
  <2>1. IsFiniteSet(Holders(u)) BY ClientsAssumption, FS_Subset DEF Holders
  <2>2. \A d \in Holders(u) : [e \in Clients |-> call[e].est][d] \in Nat BY DEF Holders, TypeOK
  <2> QED BY <2>1, <2>2, TotalChange DEF Due, Outstanding
<1>4. /\ u \in Users /\ acct[u].reserved = Outstanding(u) + leaked[u]
      /\ leaked[u] \in Nat /\ Outstanding(u) \in Nat /\ call[c].est \in Nat
  BY AccountType, OutstandingType DEF ReservedMatchesOutstanding, TypeOK
<1> QED BY <1>1, <1>2, <1>3, <1>4

\* Until the first window ends nothing is lost or counted twice: only a late
\* settlement could drift, and there is none.
LEMMA MatchStep ==
  TypeOK /\ TypeOK' /\ SnapshotFaithful /\ WindowInv /\ [Next]_vars
    /\ (FirstWindow => ReservedMatchesOutstanding)
    => (FirstWindow => ReservedMatchesOutstanding)'
<1> SUFFICES ASSUME TypeOK, TypeOK', SnapshotFaithful, WindowInv, [Next]_vars, FirstWindow',
                    FirstWindow => ReservedMatchesOutstanding, NEW u \in Users
             PROVE  acct'[u].reserved = Outstanding(u)' + leaked'[u]
  BY DEF ReservedMatchesOutstanding
<1>1. FirstWindow /\ ~Admin BY FirstWindowBefore
<1>2. /\ acct[u].reserved \in Nat /\ leaked[u] \in Nat
      /\ acct'[u].reserved \in Nat /\ leaked'[u] \in Nat
      /\ Outstanding(u) \in Nat /\ Outstanding(u)' \in Nat
      /\ acct[u].reserved = Outstanding(u) + leaked[u]
  BY <1>1, OutstandingType DEF TypeOK, ReservedMatchesOutstanding
<1>3. CASE Kept(u) BY <1>2, <1>3 DEF Kept
<1>4. ASSUME NEW c \in Clients, Reserve(c) \/ Settle(c) \/ Abort(c) \/ Fault(c), Late(c, u)
      PROVE  FALSE
  <2>1. Holds(c) /\ call[c].est \in Nat /\ u = Account(c)
    BY <1>4 DEF Late, Holds, Settling, TypeOK
  <2>2. call[c].est > 0 BY <1>2, <1>4, <2>1 DEF Late
  <2>3. current[c] /\ call[c].est <= acct[u].reserved BY <1>1, <2>1, <2>2, HeldIsCounted
  <2> QED BY <1>2, <1>4, <2>1, <2>3 DEF Late
<1>5. CASE \E c \in Clients : Reserve(c) \/ Settle(c) \/ Abort(c) \/ Fault(c)
  BY <1>3, <1>4, <1>5, ClientSums DEF Fresh
<1>6. CASE Tick
  <2>1. UNCHANGED <<acct, local, current, leaked>> BY <1>6 DEF Tick
  <2>2. Outstanding(u)' = Outstanding(u)
    BY <2>1 DEF local, Outstanding, Holders, Holds, Account
  <2> QED BY <1>2, <2>1, <2>2
<1>7. CASE UNCHANGED vars
  <2>1. Outstanding(u)' = Outstanding(u)
    BY <1>7 DEF vars, local, Outstanding, Holders, Holds, Account
  <2> QED BY <1>2, <1>7, <2>1 DEF vars, store
<1> QED BY <1>1, <1>5, <1>6, <1>7 DEF Next

\* In a user's first window the counter is exactly what calls in flight hold plus
\* what dead workers left: no update is lost or made twice (budget.py:106, 150).
THEOREM MatchCorrect == Spec => [](FirstWindow => ReservedMatchesOutstanding)
<1>1. Init => (FirstWindow => ReservedMatchesOutstanding) BY InitSums
<1>2. Init => WindowInv BY InitWindow
<1> QED BY <1>1, <1>2, WindowStep, MatchStep, TypeCorrect, SnapshotCorrect, PTL DEF Spec

\* Until the first window ends a step of c that is charged for, or reserves, more
\* than the account has left does not go through.
LEMMA LimitWritten ==
  ASSUME TypeOK, TypeOK', SnapshotFaithful, WindowInv, LimitInv, FirstWindow,
         ReservedMatchesOutstanding, \A e \in Ests : e <= DefaultLimit,
         NEW c \in Clients, NEW u \in Users,
         Reserve(c) \/ Settle(c) \/ Abort(c) \/ Crash(c) \/ Disconnect(c)
  PROVE  /\ acct'[u].expires = 0 => acct'[u].spent = 0
         /\ acct'[u].spent + acct'[u].reserved <= DefaultLimit
<1> USE DEF store
<1>1. /\ acct[u].expires = 0 => acct[u].spent = 0
      /\ acct[u].spent + acct[u].reserved <= DefaultLimit
  BY DEF LimitInv
<1>2. /\ acct[u].spent \in Nat /\ acct[u].reserved \in Nat /\ call[c].est \in Nat
      /\ call[c].actual \in Nat /\ DefaultLimit \in Nat
      /\ seen[c].spent \in Nat /\ seen[c].reserved \in Nat
      /\ acct[u] \in [reserved : Nat, spent : Nat, start : Nat, expires : Nat]
  BY AmountAssumption DEF TypeOK, Amounts
<1>3. \A x, y, z : \A a \in [reserved : Nat, spent : Nat, start : Nat, expires : Nat] :
        /\ [a EXCEPT !.reserved = x, !.start = y, !.expires = z].spent = a.spent
        /\ [a EXCEPT !.reserved = x, !.start = y, !.expires = z].reserved = x
        /\ [a EXCEPT !.reserved = x].spent = a.spent
        /\ [a EXCEPT !.reserved = x].reserved = x
        /\ [a EXCEPT !.spent = x, !.reserved = y].spent = x
        /\ [a EXCEPT !.spent = x, !.reserved = y].reserved = y
  OBVIOUS
<1>4. acct[u].expires # 0 => acct'[u].expires # 0 BY FirstExpiry
<1>5. CASE ExecOpen(c)
  <2>1. /\ pc[c] = "execOpen" /\ ~dirty[c]
        /\ (u = Account(c) => acct'[u] = Opened(c)) /\ (u # Account(c) => acct'[u] = acct[u])
    BY <1>5, CommitValue DEF ExecOpen
  <2>2. CASE u = Account(c)
    <3>1. acct[u].spent = 0 BY <1>1, <2>1, <2>2, FirstCommit
    <3>2. acct'[u].spent = acct[u].spent /\ acct'[u].reserved = call[c].est
      BY <1>2, <1>3, <2>1, <2>2 DEF Opened
    <3>3. call[c].est <= DefaultLimit BY <2>1 DEF LimitInv
    <3> QED BY <1>2, <3>1, <3>2, <3>3
  <2> QED BY <1>1, <2>1, <2>2
<1>6. CASE ExecRoll(c)
  BY <1>6, FirstCommit, CommitValue DEF ExecRoll
<1>7. CASE ExecAdd(c)
  <2>1. /\ pc[c] = "execAdd" /\ ~dirty[c]
        /\ (u = Account(c) => acct'[u] = Added(c)) /\ (u # Account(c) => acct'[u] = acct[u])
    BY <1>7, CommitValue DEF ExecAdd
  <2>2. CASE u = Account(c)
    <3>1. acct[u].expires # 0 BY <2>1, <2>2, FirstCommit
    <3>2. seen[c].reserved = acct[u].reserved /\ seen[c].spent = acct[u].spent
      BY <2>1, <2>2 DEF SnapshotFaithful, Faithful
    <3>3. ~(seen[c].spent + seen[c].reserved + call[c].est > terms[c].limit)
      BY <2>1 DEF SnapshotFaithful, Overflows
    <3>4. terms[c].limit = DefaultLimit BY <2>1 DEF LimitInv, Reserving
    <3>5. acct'[u].spent = acct[u].spent /\ acct'[u].reserved = seen[c].reserved + call[c].est
      BY <1>2, <1>3, <2>1, <2>2 DEF Added
    <3> QED BY <1>2, <1>4, <3>1, <3>2, <3>3, <3>4, <3>5
  <2> QED BY <1>1, <2>1, <2>2
<1>8. CASE ExecSettle(c)
  <2>1. /\ pc[c] = "execSettle" /\ ~dirty[c]
        /\ (u = Account(c) => acct'[u] = Settled(c)) /\ (u # Account(c) => acct'[u] = acct[u])
    BY <1>8, CommitValue DEF ExecSettle
  <2>2. CASE u = Account(c)
    <3>1. Holds(c) /\ call[c].est > 0 /\ call[c].actual <= call[c].est
      BY <2>1 DEF LimitInv, Holds, Settling
    <3>2. acct[u].expires # 0 BY <2>2, <3>1 DEF WindowInv
    <3>3. call[c].est <= acct[u].reserved BY <2>2, <3>1, HeldIsCounted
    <3>4. seen[c].reserved = acct[u].reserved /\ seen[c].spent = acct[u].spent
      BY <2>1, <2>2 DEF SnapshotFaithful, Faithful
    <3>5. /\ acct'[u].spent = seen[c].spent + call[c].actual
          /\ acct'[u].reserved = LessButNotNegative(seen[c].reserved, call[c].est)
      BY <1>2, <1>3, <2>1, <2>2 DEF Settled
    <3>6. LessButNotNegative(acct[u].reserved, call[c].est) = acct[u].reserved - call[c].est
      BY <1>2, <3>3 DEF LessButNotNegative
    <3> QED BY <1>1, <1>2, <1>4, <3>1, <3>2, <3>3, <3>4, <3>5, <3>6
  <2> QED BY <1>1, <2>1, <2>2
<1>9. CASE ~(ExecOpen(c) \/ ExecRoll(c) \/ ExecAdd(c) \/ ExecSettle(c))
  BY <1>1, <1>9 DEF Reserve, Settle, StartReserve, ReadLimit, ReadWindow, WatchReserve, GetWindow,
     GetReserved, GetSpent, Reject, StartSettle, WatchSettle, GetReservedS, GetSpentS, Abort,
     Crash, Disconnect
<1> QED BY <1>5, <1>6, <1>7, <1>8, <1>9

\* What LimitInv says of one client.
Offered(c) ==
  /\ pc[c] \in {"window", "watch"} \cup Reserving => terms[c].limit = DefaultLimit
  /\ pc[c] # "idle" => call[c].est \in Ests
  /\ pc[c] \in {"watchS"} \cup Settling => call[c].est > 0 /\ call[c].actual <= call[c].est

LEMMA OfferedStep ==
  ASSUME TypeOK, TypeOK', WindowInv, FirstWindow, Overrun = 0, NEW c \in Clients, Offered(c),
         Reserve(c) \/ Settle(c) \/ Abort(c) \/ Crash(c) \/ Disconnect(c)
  PROVE  Offered(c)'
<1> USE DEF Goto, TypeOK, Reserving, Settling, Exec
<1>1. CASE StartReserve(c) BY <1>1 DEF StartReserve, Offered
<1>2. CASE ReadLimit(c)
  <2>1. limits[call[c].user] = DefaultLimit BY DEF WindowInv
  <2> QED BY <1>2, <2>1 DEF ReadLimit, Offered
<1>3. CASE ReadWindow(c)
  <2>1. terms'[c].limit = terms[c].limit BY <1>3 DEF ReadWindow
  <2> QED BY <1>3, <2>1 DEF ReadWindow, Offered
<1>4. CASE WatchReserve(c) \/ GetWindow(c) \/ GetReserved(c) \/ GetSpent(c) \/ WatchSettle(c)
           \/ GetReservedS(c) \/ GetSpentS(c) \/ Abort(c) \/ Disconnect(c)
  BY <1>4 DEF WatchReserve, GetWindow, GetReserved, GetSpent, WatchSettle, GetReservedS,
     GetSpentS, Abort, Disconnect, Retry, Offered
<1>5. CASE Reject(c) \/ ExecSettle(c) \/ Crash(c)
  BY <1>5 DEF Reject, ExecSettle, Commit, Crash, Offered
<1>6. CASE ExecOpen(c) \/ ExecRoll(c) \/ ExecAdd(c)
  BY <1>6 DEF ExecOpen, ExecRoll, ExecAdd, Commit, NewWindow, Offered
<1>7. CASE StartSettle(c)
  <2>1. PICK cost \in 0..(call[c].est + Overrun) :
          IF call[c].est = 0 /\ cost = 0
          THEN Goto(c, "calling", "idle") /\ Forget(c)
          ELSE /\ Goto(c, "calling", "watchS")
               /\ call' = [call EXCEPT ![c].actual = cost]
               /\ UNCHANGED <<terms, seen>>
    BY <1>7 DEF StartSettle
  <2>2. CASE call[c].est = 0 /\ cost = 0 BY <2>1, <2>2 DEF Offered
  <2>3. CASE ~(call[c].est = 0 /\ cost = 0)
    <3>1. call'[c].est = call[c].est /\ call'[c].actual = cost BY <2>1, <2>3
    <3>2. call[c].est > 0 /\ cost <= call[c].est BY <2>1, <2>3
    <3> QED BY <2>1, <2>3, <3>1, <3>2 DEF Offered
  <2> QED BY <2>2, <2>3
<1> QED BY <1>1, <1>2, <1>3, <1>4, <1>5, <1>6, <1>7 DEF Reserve, Settle

LEMMA LimitStep ==
  ASSUME Overrun = 0, \A e \in Ests : e <= DefaultLimit
  PROVE  TypeOK /\ TypeOK' /\ SnapshotFaithful /\ WindowInv /\ LimitInv /\ [Next]_vars
           /\ (FirstWindow => ReservedMatchesOutstanding) => LimitInv'
<1> SUFFICES ASSUME TypeOK, TypeOK', SnapshotFaithful, WindowInv, LimitInv, [Next]_vars,
                    FirstWindow => ReservedMatchesOutstanding, FirstWindow'
             PROVE  LimitInv'
  BY DEF LimitInv
<1>1. FirstWindow /\ ~Admin /\ \A c \in Clients : ~LoseReply(c)
  BY FirstWindowBefore
<1>2. \A c \in Clients : Offered(c) BY <1>1 DEF LimitInv, Offered
<1>3. CASE Tick \/ UNCHANGED vars
  BY <1>1, <1>3 DEF Tick, vars, store, local, LimitInv
<1>4. ASSUME NEW c \in Clients, Reserve(c) \/ Settle(c) \/ Abort(c) \/ Crash(c) \/ Disconnect(c)
      PROVE  LimitInv'
  <2>1. \A u \in Users : /\ acct'[u].expires = 0 => acct'[u].spent = 0
                         /\ acct'[u].spent + acct'[u].reserved <= DefaultLimit
    BY <1>1, <1>4, LimitWritten
  <2>2. ASSUME NEW d \in Clients PROVE Offered(d)'
    <3>1. CASE d = c BY <1>1, <1>2, <1>4, <3>1, OfferedStep
    <3>2. CASE d # c
      <4>1. Undisturbed(d) BY <1>4, <3>2, ClientFrame DEF Fault
      <4> QED BY <1>2, <4>1 DEF Undisturbed, Offered
    <3> QED BY <3>1, <3>2
  <2> QED BY <2>1, <2>2 DEF LimitInv, Offered
<1> QED BY <1>1, <1>3, <1>4 DEF Next, Fault

LEMMA InitLimit == Init => LimitInv
<1>1. DefaultLimit >= 0 BY AmountAssumption
<1> QED BY <1>1 DEF Init, LimitInv, Reserving, Settling

\* The promise of budget.py:92, for every number of workers: with estimates no
\* larger than the limit and actual costs no larger than the estimates, money
\* charged and money reserved together stay within the limit of the first window.
THEOREM NeverExceededCorrect ==
  ASSUME Overrun = 0, \A e \in Ests : e <= DefaultLimit
  PROVE  Spec => [](FirstWindow => BudgetNeverExceeded)
<1>1. WindowInv /\ LimitInv => (FirstWindow => BudgetNeverExceeded)
  BY DEF WindowInv, LimitInv, BudgetNeverExceeded
<1>2. TypeOK /\ TypeOK' /\ SnapshotFaithful /\ WindowInv /\ LimitInv /\ [Next]_vars
        /\ (FirstWindow => ReservedMatchesOutstanding) => LimitInv'
  BY LimitStep
<1> QED BY <1>1, <1>2, InitWindow, InitLimit, WindowStep, MatchCorrect, TypeCorrect,
           SnapshotCorrect, PTL DEF Spec

-----------------------------------------------------------------------------
(* Budget implements BudgetLedger: each loop takes effect at its EXEC. *)

phase == [c \in Clients |-> Phase(pc[c])]

LEMMA PhaseMove ==
  ASSUME TypeOK, NEW c \in Clients, NEW from, NEW to, Goto(c, from, to)
  PROVE  phase[c] = Phase(from) /\ phase' = [phase EXCEPT ![c] = Phase(to)]
BY DEF phase, Goto, TypeOK

LEMMA PhaseValues ==
  /\ Phase("idle") = "idle" /\ Phase("calling") = "calling"
  /\ Phase("limit") = "asking" /\ Phase("window") = "asking"
  /\ \A p \in {"watch"} \cup Reserving : Phase(p) = "reserving"
  /\ \A p \in {"watchS"} \cup Settling : Phase(p) = "settling"
<1>1. Phase("idle") = "idle" /\ Phase("calling") = "calling"
  BY DEF Phase, Reserving, Settling
<1>2. Phase("limit") = "asking" /\ Phase("window") = "asking"
  BY DEF Phase, Reserving, Settling
<1>3. \A p \in {"watch"} \cup Reserving : Phase(p) = "reserving"
  BY DEF Phase, Reserving, Settling
<1>4. \A p \in {"watchS"} \cup Settling : Phase(p) = "settling"
  BY DEF Phase, Reserving, Settling
<1> QED BY <1>1, <1>2, <1>3, <1>4

LEMMA LedgerInit == Init => Ledger!Init
<1> SUFFICES ASSUME Init PROVE Ledger!Init
  OBVIOUS
<1>1. phase = [c \in Clients |-> "idle"]
  BY PhaseValues DEF Init, phase
<1> QED BY <1>1 DEF Init, Ledger!Init, Ledger!Empty, Ledger!NoCall, Ledger!NoTerms,
                    NoCall, NoTerms, phase

\* The steps the ledger does not see: the reads of a transaction and its retry.
LEMMA HiddenSteps ==
  ASSUME TypeOK, NEW c \in Clients,
         \/ WatchReserve(c) \/ GetWindow(c) \/ GetReserved(c) \/ GetSpent(c) \/ Abort(c)
         \/ WatchSettle(c) \/ GetReservedS(c) \/ GetSpentS(c) \/ Disconnect(c)
  PROVE  UNCHANGED Ledger!vars
<1>1. phase' = phase
  <2>1. \A p, q \in {"watch"} \cup Reserving : Phase(p) = Phase(q)
    BY PhaseValues
  <2>2. \A p, q \in {"watchS"} \cup Settling : Phase(p) = Phase(q)
    BY PhaseValues
  <2>3. Phase(pc'[c]) = Phase(pc[c])
    <3>1. \/ pc[c] \in {"watch"} \cup Reserving /\ pc'[c] \in {"watch"} \cup Reserving
          \/ pc[c] \in {"watchS"} \cup Settling /\ pc'[c] \in {"watchS"} \cup Settling
      BY DEF WatchReserve, GetWindow, GetReserved, GetSpent, Abort, Disconnect, Retry,
             WatchSettle, GetReservedS, GetSpentS, Goto, TypeOK, Reserving, Settling, Exec
    <3> QED BY <2>1, <2>2, <3>1
  <2>4. \A d \in Clients : d # c => pc'[d] = pc[d]
    BY DEF WatchReserve, GetWindow, GetReserved, GetSpent, Abort, Disconnect, Retry,
           WatchSettle, GetReservedS, GetSpentS, Goto, TypeOK
  <2> QED BY <2>3, <2>4 DEF phase
<1>2. UNCHANGED <<acct, limits, windows, clock, call, terms, lost>>
  BY DEF WatchReserve, GetWindow, GetReserved, GetSpent, Abort, Disconnect, Retry,
         WatchSettle, GetReservedS, GetSpentS, store
<1> QED BY <1>1, <1>2 DEF Ledger!vars, phase

LEMMA SameDefaults ==
  /\ Ledger!NoCall = NoCall /\ Ledger!NoTerms = NoTerms
  /\ \A w : Ledger!Ttl(w) = Ttl(w)
BY DEF Ledger!NoCall, NoCall, Ledger!NoTerms, NoTerms, Ledger!Ttl, Ttl

\* The calls, refusals and deaths: the ledger takes the same step.
LEMMA CallSteps ==
  ASSUME TypeOK, NEW c \in Clients,
         StartReserve(c) \/ ReadLimit(c) \/ ReadWindow(c) \/ Reject(c) \/ StartSettle(c) \/ Crash(c)
  PROVE  Ledger!Next
<1> USE DEF store, local, counts, Ledger!Client
<1>0. UNCHANGED lost
  BY DEF StartReserve, ReadLimit, ReadWindow, Reject, StartSettle, Crash
<1>1. CASE StartReserve(c)
  <2>1. PICK u \in Users, e \in Ests :
          /\ call' = [call EXCEPT ![c] = [user |-> u, est |-> e, actual |-> 0]]
          /\ Goto(c, "idle", IF e = 0 THEN "calling" ELSE "limit")
    BY <1>1 DEF StartReserve
  <2>2. phase[c] = "idle" /\ phase' = [phase EXCEPT ![c] = IF e = 0 THEN "calling" ELSE "asking"]
    BY <2>1, PhaseMove, PhaseValues
  <2>3. UNCHANGED <<acct, limits, windows, clock, terms>>
    BY <1>1 DEF StartReserve
  <2>4. Ledger!Ask(c)
    BY <2>1, <2>2, <2>3 DEF Ledger!Ask, Ledger!Moves, phase
  <2> QED BY <1>0, <2>4 DEF Ledger!Next
<1>2. CASE ReadLimit(c)
  <2>1. phase[c] = "asking" /\ phase' = [phase EXCEPT ![c] = "asking"]
    BY <1>2, PhaseMove, PhaseValues DEF ReadLimit
  <2>2. phase' = phase
    BY <2>1 DEF phase
  <2>3. Ledger!ReadLimit(c)
    BY <1>2, <2>1, <2>2 DEF ReadLimit, Ledger!ReadLimit, phase
  <2> QED BY <1>0, <2>3 DEF Ledger!Next
<1>3. CASE ReadWindow(c)
  <2>1. phase[c] = "asking" /\ phase' = [phase EXCEPT ![c] = "reserving"]
    BY <1>3, PhaseMove, PhaseValues DEF ReadWindow
  <2>2. Ledger!ReadWindow(c)
    BY <1>3, <2>1 DEF ReadWindow, Ledger!ReadWindow, Ledger!Moves, phase
  <2> QED BY <1>0, <2>2 DEF Ledger!Next
<1>4. CASE Reject(c)
  <2>1. phase[c] = "reserving" /\ phase' = [phase EXCEPT ![c] = "idle"]
    BY <1>4, PhaseMove, PhaseValues DEF Reject, Reserving
  <2>2. Ledger!Refuse(c)
    BY <1>4, <2>1, SameDefaults
       DEF Reject, Forget, Return, Ledger!Refuse, Ledger!Moves, Ledger!Ends, phase
  <2> QED BY <1>0, <2>2 DEF Ledger!Next
<1>5. CASE StartSettle(c)
  <2>1. PICK cost \in 0..(call[c].est + Overrun) :
          IF call[c].est = 0 /\ cost = 0
          THEN Goto(c, "calling", "idle") /\ Forget(c)
          ELSE /\ Goto(c, "calling", "watchS")
               /\ call' = [call EXCEPT ![c].actual = cost]
               /\ UNCHANGED <<terms, seen>>
    BY <1>5 DEF StartSettle
  <2>2. UNCHANGED <<acct, limits, windows, clock>>
    BY <1>5 DEF StartSettle
  <2>3. CASE call[c].est = 0 /\ cost = 0
    <3>1. Goto(c, "calling", "idle") /\ Forget(c)
      BY <2>1, <2>3
    <3>2. phase[c] = "calling" /\ phase' = [phase EXCEPT ![c] = "idle"]
      BY <3>1, PhaseMove, PhaseValues
    <3>3. Ledger!Moves(c, "calling", "idle") /\ Ledger!Ends(c)
      BY <3>1, <3>2, SameDefaults DEF Forget, Return, Ledger!Moves, Ledger!Ends, phase
    <3> QED BY <1>0, <2>2, <2>3, <3>3 DEF Ledger!Next, Ledger!Finish
  <2>4. CASE ~(call[c].est = 0 /\ cost = 0)
    <3>1. /\ Goto(c, "calling", "watchS") /\ UNCHANGED terms
          /\ call' = [call EXCEPT ![c].actual = cost]
      BY <2>1, <2>4
    <3>2. phase[c] = "calling" /\ phase' = [phase EXCEPT ![c] = "settling"]
      BY <3>1, PhaseMove, PhaseValues
    <3>3. Ledger!Moves(c, "calling", "settling")
      BY <3>2 DEF Ledger!Moves, phase
    <3>4. call[c].est > 0 \/ cost > 0
      <4>1. call[c].est \in Nat /\ Overrun \in Nat BY AmountAssumption DEF TypeOK
      <4> QED BY <2>4, <4>1
    <3> QED BY <1>0, <2>2, <3>1, <3>3, <3>4 DEF Ledger!Next, Ledger!Finish
  <2> QED BY <2>3, <2>4
<1>6. CASE Crash(c)
  <2>1. Goto(c, pc[c], "idle") /\ pc[c] # "idle" /\ Forget(c)
    BY <1>6 DEF Crash, Goto
  <2>2. phase[c] = Phase(pc[c]) /\ phase' = [phase EXCEPT ![c] = "idle"]
    BY <2>1, PhaseMove, PhaseValues
  <2>3. phase[c] # "idle"
    BY <2>1, <2>2 DEF Phase, Reserving, Settling
  <2>4. Ledger!Crash(c)
    BY <1>6, <2>1, <2>2, <2>3, SameDefaults
       DEF Crash, Forget, Return, Ledger!Crash, Ledger!Ends, phase
  <2> QED BY <1>0, <2>4 DEF Ledger!Next
<1> QED BY <1>1, <1>2, <1>3, <1>4, <1>5, <1>6

\* What the EXECs do to the account is what the ledger does.
LEMMA ReserveEffect ==
  ASSUME TypeOK, SnapshotFaithful, NEW c \in Clients, NEW to, NEW keys,
         \/ Commit(c, "execOpen", to, Opened(c), keys)
         \/ Commit(c, "execRoll", to, Rolled(c), keys)
         \/ Commit(c, "execAdd", to, Added(c), keys)
  PROVE  Ledger!Reserves(c) /\ phase[c] = "reserving" /\ UNCHANGED <<limits, windows, clock>>
<1> DEFINE u == Account(c)
           a == acct[u]
<1>0. /\ ~dirty[c] /\ Faithful(c) /\ u \in Users /\ clock \in Nat
      /\ a \in [reserved : Nat, spent : Nat, start : Nat, expires : Nat]
      /\ UNCHANGED <<limits, windows, clock>>
  BY AccountType DEF Commit, SnapshotFaithful, TypeOK
<1>1. CASE Commit(c, "execOpen", to, Opened(c), keys)
  <2>1. phase[c] = "reserving"
    BY <1>1, PhaseMove, PhaseValues DEF Commit, Reserving
  <2>2. acct' = [acct EXCEPT ![u] = Ledger!Opened(c, a)]
    BY <1>1, SameDefaults DEF Commit, Opened, Ledger!Opened
  <2>3. clock >= a.expires
    BY <1>0, <1>1 DEF Commit, Goto, Faithful, HasWindow
  <2> QED BY <1>0, <2>1, <2>2, <2>3 DEF Ledger!Reserves, Account
<1>2. CASE Commit(c, "execRoll", to, Rolled(c), keys)
  <2>1. phase[c] = "reserving"
    BY <1>2, PhaseMove, PhaseValues DEF Commit, Reserving
  <2>2. acct' = [acct EXCEPT ![u] = Ledger!Rolled(c)]
    BY <1>2, SameDefaults DEF Commit, Rolled, Ledger!Rolled
  <2>3. clock < a.expires /\ terms[c].now - a.start >= terms[c].window
    BY <1>0, <1>2 DEF Commit, Goto, Faithful, HasWindow, WindowElapsed
  <2> QED BY <1>0, <2>1, <2>2, <2>3 DEF Ledger!Reserves, Account
<1>3. CASE Commit(c, "execAdd", to, Added(c), keys)
  <2>1. phase[c] = "reserving"
    BY <1>3, PhaseMove, PhaseValues DEF Commit, Reserving
  <2>2. seen[c].reserved = a.reserved /\ seen[c].spent = a.spent /\ WindowFresh(c)
        /\ ~Overflows(c, seen[c].spent)
    BY <1>0, <1>3 DEF Commit, Goto, Faithful, SnapshotFaithful
  <2>3. acct' = [acct EXCEPT ![u] = Ledger!Added(c, a)]
    BY <1>3, <2>2 DEF Commit, Added, Ledger!Added
  <2>4. /\ clock < a.expires /\ ~(terms[c].now - a.start >= terms[c].window)
        /\ a.spent + a.reserved + call[c].est <= terms[c].limit
    <3>1. call[c].est \in Nat /\ terms[c].limit \in Nat
      BY DEF TypeOK
    <3> QED BY <1>0, <2>2, <3>1 DEF WindowFresh, HasWindow, WindowElapsed, Overflows
  <2> QED BY <1>0, <2>1, <2>3, <2>4 DEF Ledger!Reserves, Account
<1> QED BY <1>1, <1>2, <1>3

LEMMA SettleEffect ==
  ASSUME TypeOK, SnapshotFaithful, NEW c \in Clients, NEW to, NEW keys,
         Commit(c, "execSettle", to, Settled(c), keys)
  PROVE  Ledger!Settles(c) /\ phase[c] = "settling" /\ UNCHANGED <<limits, windows, clock>>
<1> DEFINE u == Account(c)
           a == acct[u]
<1>1. /\ Faithful(c) /\ u \in Users /\ UNCHANGED <<limits, windows, clock>>
      /\ a \in [reserved : Nat, spent : Nat, start : Nat, expires : Nat]
  BY AccountType DEF Commit, SnapshotFaithful, TypeOK
<1>2. phase[c] = "settling"
  BY PhaseMove, PhaseValues DEF Commit, Settling
<1>3. seen[c].reserved = a.reserved /\ seen[c].spent = a.spent
  BY <1>1 DEF Commit, Goto, Faithful
<1>4. acct' = [acct EXCEPT
                 ![u].spent = @ + call[c].actual,
                 ![u].reserved = IF @ > call[c].est THEN @ - call[c].est ELSE 0]
  BY <1>1, <1>3 DEF Commit, Settled, LessButNotNegative, TypeOK
<1> QED BY <1>1, <1>2, <1>4 DEF Ledger!Settles, Account

\* The commit points: the one step of a loop the ledger sees.
LEMMA CommitSteps ==
  ASSUME TypeOK, SnapshotFaithful, NEW c \in Clients,
         ExecOpen(c) \/ ExecRoll(c) \/ ExecAdd(c) \/ ExecSettle(c)
  PROVE  Ledger!Next
<1>0. UNCHANGED lost
  BY DEF ExecOpen, ExecRoll, ExecAdd, ExecSettle, NewWindow
<1>1. CASE ExecOpen(c) \/ ExecRoll(c) \/ ExecAdd(c)
  <2>1. /\ Ledger!Reserves(c) /\ phase[c] = "reserving" /\ UNCHANGED <<limits, windows, clock>>
    BY <1>1, ReserveEffect DEF ExecOpen, ExecRoll, ExecAdd
  <2>2. phase' = [phase EXCEPT ![c] = "calling"]
    BY <1>1, PhaseMove, PhaseValues DEF ExecOpen, ExecRoll, ExecAdd, Commit
  <2>3. terms' = [terms EXCEPT ![c] = NoTerms] /\ UNCHANGED call
    BY <1>1 DEF ExecOpen, ExecRoll, ExecAdd, NewWindow, Return
  <2>4. Ledger!Reserve(c)
    BY <2>1, <2>2, <2>3, SameDefaults DEF Ledger!Reserve, Ledger!Moves, phase
  <2> QED BY <1>0, <2>4 DEF Ledger!Next, Ledger!Client
<1>2. CASE ExecSettle(c)
  <2>1. /\ Ledger!Settles(c) /\ phase[c] = "settling" /\ UNCHANGED <<limits, windows, clock>>
    BY <1>2, SettleEffect DEF ExecSettle
  <2>2. phase' = [phase EXCEPT ![c] = "idle"]
    BY <1>2, PhaseMove, PhaseValues DEF ExecSettle, Commit
  <2>3. Ledger!Ends(c)
    BY <1>2, SameDefaults DEF ExecSettle, Forget, Return, Ledger!Ends
  <2>4. Ledger!Settle(c)
    BY <2>1, <2>2, <2>3 DEF Ledger!Settle, Ledger!Moves, phase
  <2> QED BY <1>0, <2>4 DEF Ledger!Next, Ledger!Client
<1> QED BY <1>1, <1>2

\* The commit points nobody hears of.
LEMMA LostSteps ==
  ASSUME TypeOK, SnapshotFaithful, NEW c \in Clients, LoseReply(c) PROVE Ledger!Next
<1>1. lost' = lost + 1 /\ UNCHANGED <<call, terms>>
  BY DEF LoseReply
<1>2. CASE \/ Commit(c, "execOpen", "watch", Opened(c), {"window", "reserved"})
           \/ Commit(c, "execRoll", "watch", Rolled(c), {"window", "reserved", "spent"})
           \/ Commit(c, "execAdd", "watch", Added(c), {"reserved"})
  <2>1. /\ Ledger!Reserves(c) /\ phase[c] = "reserving" /\ UNCHANGED <<limits, windows, clock>>
    BY <1>2, ReserveEffect
  <2>2. phase' = [phase EXCEPT ![c] = "reserving"]
    BY <1>2, PhaseMove, PhaseValues DEF Commit
  <2>3. phase' = phase
    BY <2>1, <2>2 DEF phase
  <2> QED BY <1>1, <2>1, <2>3 DEF Ledger!Next, Ledger!LoseReply, phase
<1>3. CASE Commit(c, "execSettle", "watchS", Settled(c), {"reserved", "spent"})
  <2>1. /\ Ledger!Settles(c) /\ phase[c] = "settling" /\ UNCHANGED <<limits, windows, clock>>
    BY <1>3, SettleEffect
  <2>2. phase' = [phase EXCEPT ![c] = "settling"]
    BY <1>3, PhaseMove, PhaseValues DEF Commit
  <2>3. phase' = phase
    BY <2>1, <2>2 DEF phase
  <2> QED BY <1>1, <2>1, <2>3 DEF Ledger!Next, Ledger!LoseReply, phase
<1> QED BY <1>2, <1>3 DEF LoseReply

LEMMA OtherSteps == ASSUME TypeOK, Tick \/ Admin PROVE Ledger!Next
<1> USE DEF store, local, counts, Ledger!Other
<1>1. CASE Tick
  BY <1>1 DEF Tick, Ledger!Next, Ledger!Tick
<1>2. ASSUME NEW u \in Users, NEW l \in LimitArgs, NEW w \in WindowArgs \cup {0},
             SetBudget(u, l, w)
      PROVE Ledger!Next
  <2>1. Ledger!SetBudget(u, l, w)
    BY <1>2, SameDefaults DEF SetBudget, Ledger!SetBudget
  <2> QED BY <1>2, <2>1 DEF SetBudget, Ledger!Next
<1>3. ASSUME NEW u \in Users, Reset(u) PROVE Ledger!Next
  <2>1. Ledger!Reset(u)
    BY <1>3 DEF Reset, Ledger!Reset, Ledger!Empty
  <2> QED BY <1>3, <2>1 DEF Reset, Ledger!Next
<1> QED BY <1>1, <1>2, <1>3 DEF Admin

LEMMA LedgerStep ==
  TypeOK /\ SnapshotFaithful /\ [Next]_vars => [Ledger!Next]_(Ledger!vars)
<1> SUFFICES ASSUME TypeOK, SnapshotFaithful, [Next]_vars
             PROVE  Ledger!Next \/ UNCHANGED Ledger!vars
  OBVIOUS
<1>1. CASE UNCHANGED vars
  BY <1>1 DEF vars, store, local, Ledger!vars
<1>2. CASE Next
  BY <1>2, HiddenSteps, CallSteps, CommitSteps, LostSteps, OtherSteps DEF Next, Reserve, Settle, Fault
<1> QED BY <1>1, <1>2

\* Whatever other workers, administrators, expiry and crashes do in between,
\* check_and_reserve and record_actual behave as if each ran at one instant, and
\* once more for every lost reply: budget.py:14-16, "Atomicity", for every number
\* of workers and accounts.
THEOREM ImplementsLedger == Spec => IsLedger
BY LedgerInit, LedgerStep, TypeCorrect, SnapshotCorrect, PTL DEF Spec, IsLedger, Ledger!Spec
=============================================================================
