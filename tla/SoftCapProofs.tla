---------------------------- MODULE SoftCapProofs ----------------------------
(***************************************************************************)
(* Theorems about Cost and SoftCap, for every price table, list of tiers,   *)
(* estimate and number of threads.                                          *)
(***************************************************************************)
EXTENDS SoftCap, FiniteSetTheorems, TLAPS

-----------------------------------------------------------------------------
(* Costs. *)

\* Products of naturals are natural, and only 0 where a factor is.
LEMMA Product ==
  ASSUME NEW a \in Nat, NEW b \in Nat
  PROVE  a * b \in Nat /\ (a * b = 0 => a = 0 \/ b = 0)
OBVIOUS

\* A call costs a natural amount.
LEMMA CostIsNat ==
  ASSUME NEW t \in Tiers, NEW in \in Nat, NEW out \in Nat, NEW cached \in Nat
  PROVE  CostUsd(t, in, out, cached) \in Nat
<1>1. NotCached(in, cached) \in Nat
  BY DEF NotCached
<1>2. Price[t].input \in Nat /\ Price[t].output \in Nat /\ Price[t].cacheRead \in Nat
  BY PriceAssumption
<1>3. /\ NotCached(in, cached) * Price[t].input \in Nat
      /\ out * Price[t].output \in Nat
      /\ cached * Price[t].cacheRead \in Nat
  BY <1>1, <1>2, Product
<1> QED BY <1>3 DEF CostUsd

\* Cached tokens are billed instead of input tokens, not in addition (cost.py:24-26):
\* where they are no dearer, caching part of the input never makes a call dearer.
THEOREM CachingNeverCostsMore ==
  ASSUME NEW t \in Tiers, NEW in \in Nat, NEW out \in Nat, NEW cached \in 0..in,
         Price[t].cacheRead <= Price[t].input
  PROVE  CostUsd(t, in, out, cached) <= CostUsd(t, in, out, 0)
<1> DEFINE p == Price[t].input
           r == Price[t].cacheRead
<1>1. p \in Nat /\ r \in Nat /\ Price[t].output \in Nat
  BY PriceAssumption
<1>2. cached * r <= cached * p
  <2>1. p - r \in Nat BY <1>1
  <2>2. cached * (p - r) \in Nat BY <2>1, Product
  <2>3. cached * (p - r) = cached * p - cached * r BY <1>1
  <2>4. cached * p \in Int /\ cached * r \in Int BY <1>1
  <2> QED BY <2>2, <2>3, <2>4
<1>3. (in - cached) * p = in * p - cached * p
  BY <1>1
<1>4. NotCached(in, cached) = in - cached /\ NotCached(in, 0) = in
  BY DEF NotCached
<1> DEFINE x == in * p
           y == cached * p
           z == cached * r
           o == out * Price[t].output
<1>5. x \in Nat /\ y \in Nat /\ z \in Nat /\ o \in Nat
  BY <1>1, Product
<1>6. CostUsd(t, in, out, cached) = (x - y) + o + z
  BY <1>3, <1>4 DEF CostUsd
<1>7. CostUsd(t, in, out, 0) = x + o + 0
  BY <1>1, <1>4 DEF CostUsd
<1>8. z <= y BY <1>2
<1> HIDE DEF x, y, z, o
<1> QED BY <1>5, <1>6, <1>7, <1>8

-----------------------------------------------------------------------------
(* Estimates. *)

\* Estimates are natural numbers.
LEMMA EstIsNat == ASSUME NEW t \in Tiers PROVE EstCost(t) \in Nat
BY CostIsNat, SoftCapAssumption DEF EstCost

\* A tier whose estimate is nothing has no prices, so its calls cost nothing: the
\* estimates of input and output are both positive (resilience.py:158-159).
LEMMA FreeIsFree ==
  ASSUME NEW t \in Tiers, EstCost(t) = 0, NEW in \in Nat, NEW out \in Nat
  PROVE  CostUsd(t, in, out, 0) = 0
<1> DEFINE p == Price[t].input
           o == Price[t].output
<1>1. p \in Nat /\ o \in Nat /\ Price[t].cacheRead \in Nat
  BY PriceAssumption
<1>2. EstInput * p \in Nat /\ EstOutput * o \in Nat
  BY <1>1, SoftCapAssumption, Product
<1>3. EstCost(t) = EstInput * p + EstOutput * o
  BY <1>1, SoftCapAssumption DEF EstCost, CostUsd, NotCached
<1>4. EstInput * p = 0 /\ EstOutput * o = 0
  BY <1>2, <1>3
<1>5. p = 0 /\ o = 0
  BY <1>1, <1>4, SoftCapAssumption, Product
<1> QED BY <1>1, <1>5 DEF CostUsd, NotCached

\* What remains lies between nothing and the limit (budget.py:175).
LEMMA RemainingIsAmount == ASSUME spent \in Nat PROVE Remaining \in 0..Limit
BY SoftCapAssumption DEF Remaining

\* The places to fall back on are places of the list.
LEMMA ListedTier == ASSUME NEW i \in DOMAIN CheapestFirst PROVE CheapestFirst[i] \in Tiers
BY OrderAssumption

-----------------------------------------------------------------------------
(* Types. *)

\* Every step keeps the types.
LEMMA TypeStep == TypeOK /\ [Next]_vars => TypeOK'
<1> SUFFICES ASSUME TypeOK, [Next]_vars PROVE TypeOK' OBVIOUS
<1>1. ASSUME NEW s \in Threads, NEW t \in Tiers, NEW by \in Tiers, NEW outcome \in PCs,
             Begin(s, t, outcome, by)
      PROVE  TypeOK'
  BY <1>1, RemainingIsAmount DEF TypeOK, Begin
<1>2. ASSUME NEW s \in Threads, NEW t \in Tiers, ServeRequested(s, t) PROVE TypeOK'
  BY <1>1, <1>2 DEF ServeRequested, PCs
<1>3. ASSUME NEW s \in Threads, NEW t \in Tiers, Degrade(s, t) PROVE TypeOK'
  BY <1>1, <1>3, ListedTier DEF Degrade, Cheaper, PCs
<1>4. ASSUME NEW s \in Threads, NEW t \in Tiers, Reject(s, t) PROVE TypeOK'
  BY <1>1, <1>4 DEF Reject, PCs
<1>5. ASSUME NEW s \in Threads, Reply(s) PROVE TypeOK'
  <2>1. PICK in \in 0..MaxInput, out \in 0..MaxOutput :
          spent' = spent + CostUsd(tier[s], in, out, 0)
    BY <1>5 DEF Reply
  <2>2. tier[s] \in Tiers /\ in \in Nat /\ out \in Nat
    BY SoftCapAssumption DEF TypeOK
  <2>3. CostUsd(tier[s], in, out, 0) \in Nat
    BY <2>2, CostIsNat
  <2> QED BY <1>5, <2>1, <2>3 DEF TypeOK, Reply, PCs
<1>6. ASSUME NEW s \in Threads, CallRaises(s) PROVE TypeOK'
  BY <1>6 DEF TypeOK, CallRaises, PCs
<1>7. CASE NewWindow
  BY <1>7 DEF TypeOK, NewWindow
<1>8. CASE UNCHANGED vars
  BY <1>8 DEF TypeOK, vars
<1> QED BY <1>2, <1>3, <1>4, <1>5, <1>6, <1>7, <1>8 DEF Next

\* Type correctness: what remains is never negative, nor above the limit.
THEOREM TypeCorrect == Spec => []TypeOK
<1>1. Init => TypeOK
  BY SoftCapAssumption DEF Init, TypeOK, PCs
<1> QED BY <1>1, TypeStep, PTL DEF Spec

-----------------------------------------------------------------------------
(* What is chosen. *)

Choices == RejectsBelowTheFloor /\ DegradesToTheBottom

\* No tier of the list from the requested one on fits if the requested one does
\* not, so the loop may stop before it (resilience.py:200-203).
LEMMA NoneFits ==
  ASSUME TypeOK, NEW t \in Tiers, ~Fits(t),
         \A i \in Cheaper(t) : ~Fits(CheapestFirst[i])
  PROVE  \A i \in DOMAIN CheapestFirst : EstCost(CheapestFirst[i]) > Remaining
<1> SUFFICES ASSUME NEW i \in DOMAIN CheapestFirst
             PROVE  EstCost(CheapestFirst[i]) > Remaining
  OBVIOUS
<1>1. EstCost(CheapestFirst[i]) \in Nat /\ EstCost(t) \in Nat /\ Remaining \in Nat
  BY EstIsNat, ListedTier, RemainingIsAmount DEF TypeOK
<1>2. CASE i \in Cheaper(t)
  BY <1>1, <1>2 DEF Fits
<1>3. CASE i \notin Cheaper(t)
  <2>1. PICK j \in 1..i : CheapestFirst[j] = t
    BY <1>3 DEF Cheaper
  <2>2. j \in DOMAIN CheapestFirst /\ j <= i
    BY OrderAssumption
  <2>3. EstCost(t) <= EstCost(CheapestFirst[i])
    BY <2>1, <2>2, OrderAssumption
  <2> QED BY <1>1, <2>3 DEF Fits
<1> QED BY <1>2, <1>3

\* The first fit of a list in order of price is as cheap as any tier on it
\* (resilience.py:203-208).
LEMMA FirstFitIsCheapest ==
  ASSUME TypeOK, NEW i \in DOMAIN CheapestFirst, Fits(CheapestFirst[i]),
         \A j \in 1..(i - 1) : ~Fits(CheapestFirst[j]),
         NEW k \in DOMAIN CheapestFirst
  PROVE  EstCost(CheapestFirst[i]) <= EstCost(CheapestFirst[k])
<1>1. EstCost(CheapestFirst[i]) \in Nat /\ EstCost(CheapestFirst[k]) \in Nat /\ Remaining \in Nat
  BY EstIsNat, ListedTier, RemainingIsAmount DEF TypeOK
<1>2. i \in Nat \ {0} /\ k \in Nat \ {0}
  BY OrderAssumption
<1>3. CASE i <= k
  BY <1>3, OrderAssumption
<1>4. CASE k < i
  <2>1. k \in 1..(i - 1) /\ k <= i BY <1>2, <1>4
  <2>2. EstCost(CheapestFirst[k]) > Remaining BY <1>1, <2>1 DEF Fits
  <2>3. EstCost(CheapestFirst[k]) <= EstCost(CheapestFirst[i]) BY <2>1, OrderAssumption
  <2> QED BY <1>1, <2>2, <2>3 DEF Fits
<1> QED BY <1>2, <1>3, <1>4

\* A step that begins no request leaves what was chosen, or forgets it.
LEMMA ChoicesKept ==
  ASSUME Choices, UNCHANGED <<requested, tier, remaining>>,
         \A s \in Threads : pc'[s] \in Serving \cup {"rejected"} => pc'[s] = pc[s]
  PROVE  Choices'
<1>1. RejectsBelowTheFloor'
  BY DEF Choices, RejectsBelowTheFloor, Serving
<1>2. DegradesToTheBottom'
  BY DEF Choices, DegradesToTheBottom, Serving
<1> QED BY <1>1, <1>2 DEF Choices

\* A request that begins with a choice that is right leaves the others alone.
LEMMA ChoiceMade ==
  ASSUME TypeOK, Choices, NEW r \in Threads, NEW t \in Tiers, NEW by \in Tiers,
         NEW outcome \in PCs, Begin(r, t, outcome, by),
         outcome = "degraded" => EstCost(by) < EstCost(t),
         outcome = "degraded" => \A i \in DOMAIN CheapestFirst : EstCost(by) <= EstCost(CheapestFirst[i]),
         outcome = "rejected" => \A i \in DOMAIN CheapestFirst : EstCost(CheapestFirst[i]) > Remaining
  PROVE  Choices'
<1>1. /\ pc'[r] = outcome /\ requested'[r] = t /\ tier'[r] = by /\ remaining'[r] = Remaining
      /\ \A s \in Threads \ {r} :
           pc'[s] = pc[s] /\ requested'[s] = requested[s] /\ tier'[s] = tier[s]
             /\ remaining'[s] = remaining[s]
  BY DEF TypeOK, Begin
<1>2. RejectsBelowTheFloor'
  BY <1>1 DEF Choices, RejectsBelowTheFloor
<1>3. DegradesToTheBottom'
  BY <1>1 DEF Choices, DegradesToTheBottom
<1> QED BY <1>2, <1>3 DEF Choices

\* Every step keeps the choices right.
LEMMA ChoicesStep == TypeOK /\ Choices /\ [Next]_vars => Choices'
<1> SUFFICES ASSUME TypeOK, Choices, [Next]_vars PROVE Choices' OBVIOUS
<1>1. ASSUME NEW s \in Threads, NEW t \in Tiers, ServeRequested(s, t) PROVE Choices'
  <2>1. Begin(s, t, "served", t)
    BY <1>1 DEF ServeRequested
  <2> QED BY <2>1, ChoiceMade DEF PCs
<1>2. ASSUME NEW s \in Threads, NEW t \in Tiers, Degrade(s, t) PROVE Choices'
  <2>1. PICK i \in Cheaper(t) :
          /\ Fits(CheapestFirst[i])
          /\ \A j \in 1..(i - 1) : ~Fits(CheapestFirst[j])
          /\ Begin(s, t, "degraded", CheapestFirst[i])
    BY <1>2 DEF Degrade
  <2>2. i \in DOMAIN CheapestFirst /\ CheapestFirst[i] \in Tiers
    BY <2>1, ListedTier DEF Cheaper
  <2>3. \A k \in DOMAIN CheapestFirst : EstCost(CheapestFirst[i]) <= EstCost(CheapestFirst[k])
    BY <2>1, <2>2, FirstFitIsCheapest
  <2>4. EstCost(CheapestFirst[i]) \in Nat /\ EstCost(t) \in Nat /\ Remaining \in Nat
    BY <2>2, EstIsNat, RemainingIsAmount DEF TypeOK
  <2>5. EstCost(CheapestFirst[i]) < EstCost(t)
    BY <1>2, <2>1, <2>4 DEF Degrade, Fits
  <2> QED BY <2>1, <2>2, <2>3, <2>5, ChoiceMade DEF PCs
<1>3. ASSUME NEW s \in Threads, NEW t \in Tiers, Reject(s, t) PROVE Choices'
  <2>1. \A i \in DOMAIN CheapestFirst : EstCost(CheapestFirst[i]) > Remaining
    BY <1>3, NoneFits DEF Reject
  <2>2. Begin(s, t, "rejected", t)
    BY <1>3 DEF Reject
  <2> QED BY <2>1, <2>2, ChoiceMade DEF PCs
<1>4. ASSUME NEW s \in Threads, Reply(s) PROVE Choices'
  BY <1>4, ChoicesKept DEF TypeOK, Reply, Serving
<1>5. ASSUME NEW s \in Threads, CallRaises(s) PROVE Choices'
  BY <1>5, ChoicesKept DEF TypeOK, CallRaises, Serving
<1>6. CASE NewWindow
  BY <1>6, ChoicesKept DEF NewWindow
<1>7. CASE UNCHANGED vars
  BY <1>7, ChoicesKept DEF vars
<1> QED BY <1>1, <1>2, <1>3, <1>4, <1>5, <1>6, <1>7 DEF Next

\* Whatever the tiers cost, a request is degraded only to a cheaper tier, gets
\* the cheapest there is, and is rejected only when nothing on the list fits
\* (resilience.py:11-14).
THEOREM ChoicesCorrect ==
  Spec => [](RejectsBelowTheFloor /\ DegradesToTheBottom)
<1>1. Init => TypeOK /\ Choices
  <2>1. Init => TypeOK
    BY SoftCapAssumption DEF Init, TypeOK, PCs
  <2>2. Init => Choices
    BY DEF Init, Choices, RejectsBelowTheFloor, DegradesToTheBottom
  <2> QED BY <2>1, <2>2
<1>2. TypeOK /\ Choices /\ [Next]_vars => TypeOK' /\ Choices'
  BY TypeStep, ChoicesStep
<1>3. Choices => RejectsBelowTheFloor /\ DegradesToTheBottom
  BY DEF Choices
<1> QED BY <1>1, <1>2, <1>3, PTL DEF Spec

-----------------------------------------------------------------------------
(* The overrun. *)

\* The requests in flight that can still be charged something.
Committed == {s \in Threads : pc[s] \in Serving /\ EstCost(tier[s]) # 0}

\* The invariant, for n spent and the threads of C committed: a thread commits only
\* while something remains, and then every thread owes at most one call.
Room(n, C) == n + Cardinality(C) * CallCost <= Limit + Cardinality(Threads) * CallCost

\* Sets of threads can be counted, and smaller ones owe less.
LEMMA FewerOweLess ==
  ASSUME NEW C \in SUBSET Threads, NEW D \in SUBSET C
  PROVE  /\ Cardinality(C) \in Nat /\ Cardinality(D) \in Nat
         /\ Cardinality(C) * CallCost \in Nat /\ Cardinality(D) * CallCost \in Nat
         /\ Cardinality(D) * CallCost <= Cardinality(C) * CallCost
<1>1. IsFiniteSet(C) /\ IsFiniteSet(D)
  BY ThreadsAssumption, FS_Subset
<1> DEFINE m == Cardinality(D)
           n == Cardinality(C)
<1>2. m \in Nat /\ n \in Nat /\ m <= n
  BY <1>1, FS_Subset, FS_CardinalityType
<1> HIDE DEF m, n
<1>3. n - m \in Nat
  BY <1>2
<1>4. (n - m) * CallCost \in Nat /\ n * CallCost \in Nat /\ m * CallCost \in Nat
  BY <1>2, <1>3, SoftCapAssumption, Product
<1>5. (n - m) * CallCost = n * CallCost - m * CallCost
  BY <1>2, SoftCapAssumption
<1>6. m * CallCost <= n * CallCost
  BY <1>4, <1>5
<1> QED BY <1>2, <1>4, <1>6 DEF m, n

\* Within the limit there is room for every thread to owe a call.
LEMMA RoomWithinLimit ==
  ASSUME NEW n \in Nat, n <= Limit, NEW C \in SUBSET Threads
  PROVE  Room(n, C)
<1> DEFINE x == Cardinality(C) * CallCost
           y == Cardinality(Threads) * CallCost
<1>1. x \in Nat /\ y \in Nat /\ x <= y
  BY FewerOweLess
<1>2. Room(n, C) <=> n + x <= Limit + y
  BY DEF Room
<1> HIDE DEF x, y
<1> QED BY <1>1, <1>2, SoftCapAssumption

\* Whoever is no longer committed leaves room.
LEMMA RoomKept ==
  ASSUME NEW n \in Nat, NEW C \in SUBSET Threads, NEW D \in SUBSET C, Room(n, C)
  PROVE  Room(n, D)
<1> DEFINE x == Cardinality(D) * CallCost
           y == Cardinality(C) * CallCost
           z == Cardinality(Threads) * CallCost
<1>1. x \in Nat /\ y \in Nat /\ z \in Nat /\ x <= y
  BY FewerOweLess
<1>2. n + y <= Limit + z /\ (Room(n, D) <=> n + x <= Limit + z)
  BY DEF Room
<1> HIDE DEF x, y, z
<1> QED BY <1>1, <1>2, SoftCapAssumption

\* A thread that pays for its call no longer owes it.
LEMMA RoomPaid ==
  ASSUME NEW n \in Nat, NEW C \in SUBSET Threads, NEW s \in C,
         NEW c \in Nat, c <= CallCost, Room(n, C)
  PROVE  Room(n + c, C \ {s})
<1> DEFINE m == Cardinality(C)
           y == m * CallCost
           z == Cardinality(Threads) * CallCost
<1>1. IsFiniteSet(C)
  BY ThreadsAssumption, FS_Subset
<1>2. Cardinality(C \ {s}) = m - 1 /\ m \in Nat
  BY <1>1, FS_RemoveElement, FS_CardinalityType
<1>3. y \in Nat /\ z \in Nat
  BY FewerOweLess
<1>4. n + y <= Limit + z /\ (Room(n + c, C \ {s}) <=> n + c + (m - 1) * CallCost <= Limit + z)
  BY <1>2 DEF Room
<1> HIDE DEF m, z
<1>5. (m - 1) * CallCost = y - CallCost
  BY <1>2, SoftCapAssumption
<1> HIDE DEF y
<1> QED BY <1>3, <1>4, <1>5, SoftCapAssumption

\* A tier that fits and is not free fits within the limit.
LEMMA BeginsWithinLimit ==
  ASSUME TypeOK, NEW t \in Tiers, Fits(t), EstCost(t) # 0
  PROVE  spent <= Limit
<1>1. EstCost(t) \in Nat /\ EstCost(t) <= Remaining
  BY EstIsNat DEF Fits
<1> QED BY <1>1, SoftCapAssumption DEF Remaining, TypeOK

\* A request that begins keeps the room: it is rejected, free, or begun within
\* the limit.
LEMMA RoomAtBegin ==
  ASSUME TypeOK, Room(spent, Committed), NEW s \in Threads, NEW t \in Tiers, NEW by \in Tiers,
         NEW outcome \in PCs, Begin(s, t, outcome, by), outcome \in Serving => Fits(by)
  PROVE  Room(spent', Committed')
<1>1. /\ pc'[s] = outcome /\ tier'[s] = by /\ pc[s] \notin Serving /\ spent' = spent
      /\ \A r \in Threads \ {s} : pc'[r] = pc[r] /\ tier'[r] = tier[r]
  BY DEF TypeOK, Begin
<1>2. CASE outcome \in Serving /\ EstCost(by) # 0
  <2>1. spent <= Limit
    BY <1>2, BeginsWithinLimit
  <2>2. Committed' \in SUBSET Threads
    BY DEF Committed
  <2> QED BY <1>1, <2>1, <2>2, RoomWithinLimit DEF TypeOK
<1>3. CASE outcome \notin Serving \/ EstCost(by) = 0
  <2>1. Committed' = Committed
    BY <1>1, <1>3 DEF Committed
  <2> QED BY <1>1, <2>1
<1> QED BY <1>2, <1>3

\* Every step keeps the room.
LEMMA RoomStep ==
  TypeOK /\ Room(spent, Committed) /\ [Next]_vars => Room(spent', Committed')
<1> SUFFICES ASSUME TypeOK, Room(spent, Committed), [Next]_vars PROVE Room(spent', Committed')
  OBVIOUS
<1>0. Committed \in SUBSET Threads /\ Committed' \in SUBSET Threads /\ spent \in Nat
  BY DEF Committed, TypeOK
<1>1. ASSUME NEW s \in Threads, NEW t \in Tiers, ServeRequested(s, t)
      PROVE  Room(spent', Committed')
  BY <1>1, RoomAtBegin DEF ServeRequested, PCs
<1>2. ASSUME NEW s \in Threads, NEW t \in Tiers, Degrade(s, t)
      PROVE  Room(spent', Committed')
  <2>1. PICK i \in DOMAIN CheapestFirst :
          Fits(CheapestFirst[i]) /\ Begin(s, t, "degraded", CheapestFirst[i])
    BY <1>2 DEF Degrade, Cheaper
  <2> QED BY <2>1, ListedTier, RoomAtBegin DEF PCs
<1>3. ASSUME NEW s \in Threads, NEW t \in Tiers, Reject(s, t)
      PROVE  Room(spent', Committed')
  BY <1>3, RoomAtBegin DEF Reject, PCs, Serving
<1>4. ASSUME NEW s \in Threads, Reply(s) PROVE Room(spent', Committed')
  <2>1. PICK in \in 0..MaxInput, out \in 0..MaxOutput :
          spent' = spent + CostUsd(tier[s], in, out, 0)
    BY <1>4 DEF Reply
  <2> DEFINE c == CostUsd(tier[s], in, out, 0)
  <2>2. tier[s] \in Tiers /\ in \in Nat /\ out \in Nat
    BY SoftCapAssumption DEF TypeOK
  <2>3. c \in Nat /\ c <= CallCost
    BY <2>2, CostIsNat, CallCostAssumption
  <2>4. /\ pc[s] \in Serving /\ pc'[s] \notin Serving
        /\ \A r \in Threads \ {s} : pc'[r] = pc[r] /\ tier'[r] = tier[r]
    BY <1>4 DEF TypeOK, Reply, Serving
  <2>5. Committed' = Committed \ {s}
    BY <2>4 DEF Committed
  <2>6. CASE EstCost(tier[s]) # 0
    <3>1. s \in Committed
      BY <2>4, <2>6 DEF Committed
    <3> QED BY <1>0, <2>1, <2>3, <2>5, <3>1, RoomPaid
  <2>7. CASE EstCost(tier[s]) = 0
    <3>1. spent' = spent
      BY <1>0, <2>1, <2>2, <2>7, FreeIsFree
    <3> QED BY <1>0, <2>5, <3>1, RoomKept
  <2> QED BY <2>6, <2>7
<1>5. ASSUME NEW s \in Threads, CallRaises(s) PROVE Room(spent', Committed')
  <2>1. spent' = spent /\ Committed' \in SUBSET Committed
    BY <1>5 DEF TypeOK, CallRaises, Committed, Serving
  <2> QED BY <1>0, <2>1, RoomKept
<1>6. CASE NewWindow
  BY <1>0, <1>6, RoomWithinLimit, SoftCapAssumption DEF NewWindow
<1>7. CASE UNCHANGED vars
  BY <1>7 DEF vars, Committed
<1> QED BY <1>1, <1>2, <1>3, <1>4, <1>5, <1>6, <1>7 DEF Next

\* Threads that look at the same remaining amount overrun the budget by one call
\* each at most, however many requests follow (resilience.py:179, 186).
THEOREM OverrunCorrect == Spec => []OverrunBounded
<1>1. Init => TypeOK /\ Room(spent, Committed)
  <2>1. Init => TypeOK
    BY SoftCapAssumption DEF Init, TypeOK, PCs
  <2>2. Init => Room(spent, Committed)
    BY SoftCapAssumption, RoomWithinLimit DEF Init, Committed
  <2> QED BY <2>1, <2>2
<1>2. TypeOK /\ Room(spent, Committed) /\ [Next]_vars => TypeOK' /\ Room(spent, Committed)'
  BY TypeStep, RoomStep
<1>3. TypeOK /\ Room(spent, Committed) => OverrunBounded
  <2> SUFFICES ASSUME TypeOK, Room(spent, Committed) PROVE OverrunBounded OBVIOUS
  <2>1. Room(spent, {})
    BY RoomKept DEF TypeOK, Committed
  <2>2. Cardinality({}) * CallCost = 0
    BY FS_EmptySet, SoftCapAssumption
  <2>3. Cardinality(Threads) * CallCost \in Nat
    BY FewerOweLess
  <2> QED BY <2>1, <2>2, <2>3, SoftCapAssumption DEF TypeOK, Room, OverrunBounded
<1> QED BY <1>1, <1>2, <1>3, PTL DEF Spec
=============================================================================
