---------------------------- MODULE TotalTheorems ----------------------------
(***************************************************************************)
(* What the sums of Totals do when their set or one amount changes.         *)
(***************************************************************************)
EXTENDS Totals, FiniteSetTheorems, TLAPS

\* An amount has as many units as it says.
LEMMA OneAmount ==
  ASSUME NEW x, NEW n \in Nat
  PROVE  IsFiniteSet({x} \X (1..n)) /\ Cardinality({x} \X (1..n)) = n
<1> DEFINE X == {x}
           N == 1..n
<1>1. IsFiniteSet(X) /\ Cardinality(X) = 1 BY FS_Singleton
<1>2. IsFiniteSet(N) /\ Cardinality(N) = n BY FS_Interval
<1> HIDE DEF X, N
<1>3. IsFiniteSet(X \X N) /\ Cardinality(X \X N) = Cardinality(X) * Cardinality(N)
  BY <1>1, <1>2, FS_Product
<1>4. IsFiniteSet(X \X N) /\ Cardinality(X \X N) = n BY <1>1, <1>2, <1>3
<1> QED BY <1>4 DEF X, N

\* There are finitely many units.
LEMMA UnitsFinite ==
  ASSUME NEW S, IsFiniteSet(S), NEW amount, \A x \in S : amount[x] \in Nat
  PROVE  IsFiniteSet(Units(amount, S))
<1> DEFINE Own(x) == {x} \X (1..amount[x])
           own == [x \in S |-> Own(x)]
           All == {Own(x) : x \in S}
<1>1. own \in Surjection(S, All)
  <2> HIDE DEF Own
  <2> QED BY DEF Surjection
<1>2. IsFiniteSet(All) BY <1>1, FS_Surjection
<1>3. \A T \in All : IsFiniteSet(T)
  <2>1. \A x \in S : IsFiniteSet(Own(x)) BY OneAmount
  <2> HIDE DEF Own
  <2> QED BY <2>1
<1> QED BY <1>2, <1>3, FS_UNION DEF Units

\* The units of x are apart from those of the others.
LEMMA UnitsSplit ==
  ASSUME NEW amount, NEW S, NEW x \in S
  PROVE  /\ Units(amount, S) = Units(amount, S \ {x}) \cup ({x} \X (1..amount[x]))
         /\ Units(amount, S \ {x}) \cap ({x} \X (1..amount[x])) = {}
<1> DEFINE Own(y) == {y} \X (1..amount[y])
<1>1. \A y : \A u \in Own(y) : u[1] = y OBVIOUS
<1>2. \A T : Units(amount, T) = UNION {Own(y) : y \in T} BY DEF Units
<1> HIDE DEF Own
<1>3. UNION {Own(y) : y \in S} = (UNION {Own(y) : y \in S \ {x}}) \cup Own(x) OBVIOUS
<1>4. (UNION {Own(y) : y \in S \ {x}}) \cap Own(x) = {} BY <1>1
<1>5. Own(x) = {x} \X (1..amount[x]) BY DEF Own
<1> QED BY <1>2, <1>3, <1>4, <1>5

\* A sum of natural numbers is one.
LEMMA TotalType ==
  ASSUME NEW S, IsFiniteSet(S), NEW amount, \A x \in S : amount[x] \in Nat
  PROVE  Total(amount, S) \in Nat
BY UnitsFinite, FS_CardinalityType DEF Total

\* Nothing sums up to nothing.
LEMMA TotalEmpty == \A amount : Total(amount, {}) = 0
<1>1. \A amount : Units(amount, {}) = {} BY DEF Units
<1> QED BY <1>1, FS_EmptySet DEF Total

\* What one member contributes.
LEMMA TotalSplit ==
  ASSUME NEW S, IsFiniteSet(S), NEW amount, \A y \in S : amount[y] \in Nat, NEW x \in S
  PROVE  Total(amount, S) = Total(amount, S \ {x}) + amount[x]
<1> DEFINE Own == {x} \X (1..amount[x])
           Others == Units(amount, S \ {x})
<1>1. IsFiniteSet(S \ {x}) BY FS_Subset
<1>2. IsFiniteSet(Others) /\ Cardinality(Others) \in Nat
  BY <1>1, UnitsFinite, FS_CardinalityType
<1>3. IsFiniteSet(Own) /\ Cardinality(Own) = amount[x] BY OneAmount
<1>4. Cardinality(Others \cap Own) = 0 BY UnitsSplit, FS_EmptySet
<1>5. Cardinality(Others \cup Own) = Cardinality(Others) + amount[x]
  <2> HIDE DEF Own, Others
  <2> QED BY <1>2, <1>3, <1>4, FS_Union
<1> QED BY <1>5, UnitsSplit DEF Total

\* Only the members' amounts count.
LEMMA TotalSame ==
  ASSUME NEW S, NEW amount, NEW other, \A x \in S : amount[x] = other[x]
  PROVE  Total(amount, S) = Total(other, S)
<1>1. Units(amount, S) = Units(other, S)
  <2> DEFINE Own(x) == {x} \X (1..amount[x])
             Another(x) == {x} \X (1..other[x])
  <2>1. \A x \in S : Own(x) = Another(x) OBVIOUS
  <2>2. Units(amount, S) = UNION {Own(x) : x \in S} BY DEF Units
  <2>3. Units(other, S) = UNION {Another(x) : x \in S} BY DEF Units
  <2> HIDE DEF Own, Another
  <2>4. UNION {Own(x) : x \in S} = UNION {Another(x) : x \in S} BY <2>1
  <2> QED BY <2>2, <2>3, <2>4
<1> QED BY <1>1 DEF Total

\* What x contributes to the sum over S.
Share(amount, S, x) == IF x \in S THEN amount[x] ELSE 0

\* When only x joins, leaves or changes its amount, the sum changes by what x
\* contributed and contributes.
LEMMA TotalChange ==
  ASSUME NEW S, IsFiniteSet(S), NEW amount, \A y \in S : amount[y] \in Nat,
         NEW T, IsFiniteSet(T), NEW other, \A y \in T : other[y] \in Nat,
         NEW x, S \ {x} = T \ {x}, \A y \in S \ {x} : amount[y] = other[y]
  PROVE  /\ Total(amount, S) \in Nat /\ Total(other, T) \in Nat
         /\ Share(amount, S, x) \in Nat /\ Share(other, T, x) \in Nat
         /\ Share(amount, S, x) <= Total(amount, S)
         /\ Total(other, T) + Share(amount, S, x) = Total(amount, S) + Share(other, T, x)
<1> DEFINE Rest == Total(amount, S \ {x})
<1>1. Rest \in Nat
  <2>1. IsFiniteSet(S \ {x}) BY FS_Subset
  <2> QED BY <2>1, TotalType
<1>2. Total(amount, S) = Rest + Share(amount, S, x)
  <2>1. CASE x \in S BY <2>1, TotalSplit DEF Share
  <2>2. CASE x \notin S
    <3>1. S \ {x} = S BY <2>2
    <3> QED BY <1>1, <2>2, <3>1 DEF Share
  <2> QED BY <2>1, <2>2
<1>3. Rest = Total(other, T \ {x}) BY TotalSame
<1>4. Total(other, T) = Rest + Share(other, T, x)
  <2>1. CASE x \in T BY <1>3, <2>1, TotalSplit DEF Share
  <2>2. CASE x \notin T
    <3>1. T \ {x} = T BY <2>2
    <3>2. Share(other, T, x) = 0 BY <2>2 DEF Share
    <3>3. Total(other, T) = Rest BY <1>3, <3>1
    <3> HIDE DEF Rest
    <3> QED BY <1>1, <3>2, <3>3
  <2> QED BY <2>1, <2>2
<1>5. Share(amount, S, x) \in Nat /\ Share(other, T, x) \in Nat BY DEF Share
<1> HIDE DEF Rest
<1> QED BY <1>1, <1>2, <1>4, <1>5
=============================================================================
