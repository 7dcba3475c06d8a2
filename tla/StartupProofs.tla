--------------------------- MODULE StartupProofs ----------------------------
(***************************************************************************)
(* Theorems about Redactor, for texts and secrets of any length, about what *)
(* Config makes of any two files, and that Startup, which composes the two, *)
(* implements the redactor.  What the recursive substitution does is shown  *)
(* by the least counterexample: of the places of a text where a claim       *)
(* fails, look at the last one.                                             *)
(***************************************************************************)
EXTENDS Startup, SequenceTheorems, WellFoundedInduction, TLAPS

LEMMA Least ==
  ASSUME NEW T, T \subseteq Nat, T # {}
  PROVE  \E x \in T : \A y \in T : x <= y
<1> DEFINE Less == {pair \in Nat \X Nat : pair[1] < pair[2]}
<1>1. IsWellFoundedOn(Less, Nat)
  BY NatLessThanWellFounded DEF OpToRel
<1>2. PICK x \in T : \A y \in T : ~(<<y, x>> \in Less)
  <2> HIDE DEF Less
  <2> QED BY <1>1, WFMin
<1>3. \A y \in T : x <= y
  <2> SUFFICES ASSUME NEW y \in T, y < x PROVE FALSE
    OBVIOUS
  <2>1. <<y, x>> \in Less
    OBVIOUS
  <2> QED BY <1>2, <2>1
<1> QED BY <1>3

\* The last of some places of a text.
LEMMA LastPlace ==
  ASSUME NEW n \in Nat, NEW T, T \subseteq 1..n, T # {}
  PROVE  \E x \in T : \A y \in T : y <= x
<1> DEFINE Back == {n - x : x \in T}
<1>1. \A x \in T : x \in Nat /\ n - x \in Nat
  OBVIOUS
<1>2. Back \subseteq Nat
  BY <1>1
<1>3. Back # {}
  OBVIOUS
<1>4. PICK b \in Back : \A c \in Back : b <= c
  BY <1>2, <1>3, Least
<1>5. PICK x \in T : b = n - x
  BY <1>4
<1>6. ASSUME NEW y \in T PROVE y <= x
  <2>1. n - y \in Back
    OBVIOUS
  <2>2. n - x <= n - y
    BY <1>4, <1>5, <2>1
  <2> QED BY <1>1, <2>2
<1> QED BY <1>6

-----------------------------------------------------------------------------
(* Substitution: the recursive definition is one. *)

\* What is left to match at each place stays inside the text.
Fits(t, at) == at \in [DOMAIN t -> Nat] /\ \A i \in DOMAIN t : i + at[i] <= Len(t) + 1

\* The text from place i on, substituted, if rest says so of the later places.
Unfold(t, at, rest, i) ==
  IF i > Len(t) THEN <<>>
  ELSE IF at[i] > 0 THEN <<Mark>> \o rest[i + at[i]]
  ELSE <<t[i]>> \o rest[i + 1]

LEMMA RestExists ==
  ASSUME NEW S, NEW t \in Seq(S), NEW at, Fits(t, at)
  PROVE  \E rest : rest = [i \in 1..(Len(t) + 1) |-> Unfold(t, at, rest, i)]
<1> DEFINE n == Len(t) + 1
           From(m, rest) == rest = [i \in m..n |-> Unfold(t, at, rest, i)]
           Bad == {m \in 1..n : ~\E rest : From(m, rest)}
<1>0. Len(t) \in Nat /\ n \in Nat \ {0} /\ DOMAIN t = 1..Len(t)
  BY LenProperties
<1>1. SUFFICES ASSUME Bad # {} PROVE FALSE
  <2>1. 1 \in 1..n BY <1>0
  <2>2. \E rest : From(1, rest) BY <1>1, <2>1
  <2> QED BY <2>2
<1>2. PICK m \in Bad : \A k \in Bad : k <= m
  BY <1>0, <1>1, LastPlace
<1>3. CASE m = n
  <2>1. From(n, [i \in n..n |-> <<>>])
    BY <1>0 DEF Unfold
  <2> QED BY <1>2, <1>3, <2>1
<1>4. CASE m # n
  <2>1. m + 1 \in 1..n /\ m + 1 \notin Bad /\ m \in 1..Len(t)
    BY <1>0, <1>2, <1>4
  <2>2. PICK rest : From(m + 1, rest)
    BY <2>1
  <2> DEFINE more == [i \in m..n |-> IF i = m THEN Unfold(t, at, rest, m) ELSE rest[i]]
  <2>3. \A i \in (m + 1)..n : more[i] = rest[i]
    BY <1>0, <2>1
  <2>4. \A i \in m..n : Unfold(t, at, more, i) = Unfold(t, at, rest, i)
    <3> SUFFICES ASSUME NEW i \in m..n PROVE Unfold(t, at, more, i) = Unfold(t, at, rest, i)
      OBVIOUS
    <3>1. CASE i > Len(t)
      BY <3>1 DEF Unfold
    <3>2. CASE i <= Len(t)
      <4>1. i \in DOMAIN t /\ i + 1 \in (m + 1)..n
        BY <1>0, <2>1, <3>2
      <4>2. at[i] > 0 => i + at[i] \in (m + 1)..n
        BY <1>0, <2>1, <4>1 DEF Fits
      <4> HIDE DEF more
      <4> QED BY <2>3, <4>1, <4>2 DEF Unfold
    <3> QED BY <1>0, <2>1, <3>1, <3>2
  <2>5. \A i \in m..n : more[i] = Unfold(t, at, rest, i)
    <3> SUFFICES ASSUME NEW i \in m..n, i # m PROVE more[i] = Unfold(t, at, rest, i)
      OBVIOUS
    <3>1. i \in (m + 1)..n
      BY <1>0, <2>1
    <3> QED BY <2>2, <2>3, <3>1
  <2>6. From(m, more)
    <3>1. more = [i \in m..n |-> more[i]]
      OBVIOUS
    <3> HIDE DEF more
    <3> QED BY <2>4, <2>5, <3>1
  <2> QED BY <1>2, <2>6
<1> QED BY <1>3, <1>4

\* s with x before it.
Before(x, s) == <<x>> \o s

\* What Sub makes of a text from each place on.
Unfolds(t, at, rest) ==
  /\ rest[Len(t) + 1] = <<>>
  /\ \A i \in 1..Len(t) : at[i] > 0 => rest[i] = Before(Mark, rest[i + at[i]])
  /\ \A i \in 1..Len(t) : at[i] = 0 => rest[i] = Before(t[i], rest[i + 1])

\* Sub unfolds as it reads.
LEMMA SubUnfolds ==
  ASSUME NEW S, NEW t \in Seq(S), NEW at, Fits(t, at)
  PROVE  \E rest : Sub(t, at) = rest[1] /\ Unfolds(t, at, rest)
<1>1. PICK r : r = [i \in 1..(Len(t) + 1) |-> Unfold(t, at, r, i)]
  BY RestExists
<1>2. PICK rest : rest = [i \in 1..(Len(t) + 1) |-> Unfold(t, at, rest, i)]
                  /\ Sub(t, at) = rest[1]
  BY <1>1 DEF Sub, Unfold
<1>3. Len(t) \in Nat
  BY LenProperties
<1>4. \A i \in 1..(Len(t) + 1) : rest[i] = Unfold(t, at, rest, i)
  BY <1>2
<1>5. rest[Len(t) + 1] = <<>>
  <2>1. Len(t) + 1 \in 1..(Len(t) + 1) /\ Len(t) + 1 > Len(t)
    BY <1>3
  <2> QED BY <1>4, <2>1, Zenon DEF Unfold
<1>6. ASSUME NEW i \in 1..Len(t)
      PROVE  /\ at[i] > 0 => rest[i] = Before(Mark, rest[i + at[i]])
             /\ at[i] = 0 => rest[i] = Before(t[i], rest[i + 1])
  <2>1. i \in 1..(Len(t) + 1) /\ ~(i > Len(t)) /\ (at[i] = 0 => ~(at[i] > 0))
    BY <1>3
  <2> QED BY <1>4, <2>1, Zenon DEF Unfold, Before
<1>7. Unfolds(t, at, rest)
  BY <1>5, <1>6, Zenon DEF Unfolds
<1> QED BY <1>2, <1>7

LEMMA RestType ==
  ASSUME NEW S, NEW t \in Seq(S), Mark \in S, NEW at, Fits(t, at), NEW rest, Unfolds(t, at, rest)
  PROVE  \A i \in 1..(Len(t) + 1) : rest[i] \in Seq(S)
<1> DEFINE n == Len(t) + 1
           Bad == {i \in 1..n : rest[i] \notin Seq(S)}
<1>0. Len(t) \in Nat /\ n \in Nat \ {0} /\ DOMAIN t = 1..Len(t) /\ \A i \in 1..Len(t) : t[i] \in S
  BY LenProperties, ElementOfSeq
<1>1. SUFFICES ASSUME Bad # {} PROVE FALSE
  OBVIOUS
<1>2. PICK i \in Bad : \A j \in Bad : j <= i
  BY <1>0, <1>1, LastPlace
<1>3. i \in 1..n /\ rest[i] \notin Seq(S)
  OBVIOUS
<1>4. i \in 1..Len(t)
  <2>1. rest[n] \in Seq(S)
    <3>1. rest[n] = <<>> BY DEF Unfolds
    <3> QED BY <3>1, EmptySeq
  <2>2. i # n
    BY <1>3, <2>1
  <2> QED BY <1>0, <1>3, <2>2
<1>5. \A k \in (i + 1)..n : rest[k] \in Seq(S)
  BY <1>0, <1>2, <1>3
<1>6. PICK x \in S, k \in (i + 1)..n : rest[i] = <<x>> \o rest[k]
  <2>0. at[i] \in Nat /\ t[i] \in S
    BY <1>0, <1>4 DEF Fits
  <2>1. CASE at[i] > 0
    <3>1. i + at[i] \in (i + 1)..n
      BY <1>0, <1>4, <2>0, <2>1 DEF Fits
    <3>2. rest[i] = <<Mark>> \o rest[i + at[i]]
      BY <1>4, <2>1, Zenon DEF Unfolds, Before
    <3> QED BY <3>1, <3>2, Zenon
  <2>2. CASE at[i] = 0
    <3>1. i + 1 \in (i + 1)..n
      BY <1>0, <1>4
    <3>2. rest[i] = <<t[i]>> \o rest[i + 1]
      BY <1>4, <2>2, Zenon DEF Unfolds, Before
    <3> QED BY <2>0, <3>1, <3>2, Zenon
  <2>3. at[i] > 0 \/ at[i] = 0
    BY <2>0
  <2> QED BY <2>1, <2>2, <2>3, Zenon
<1>7. <<x>> \in Seq(S) /\ rest[k] \in Seq(S)
  BY <1>5
<1>8. rest[i] \in Seq(S)
  BY <1>6, <1>7, ConcatProperties
<1> QED BY <1>8

\* One place further: a match becomes the mark, another symbol is copied.
LEMMA RestStep ==
  ASSUME NEW S, NEW t \in Seq(S), NEW at, Fits(t, at), NEW rest, Unfolds(t, at, rest)
  PROVE  /\ rest[Len(t) + 1] = <<>>
         /\ \A i \in 1..(Len(t) + 1) : Len(rest[i]) \in Nat
         /\ \A i \in 1..Len(t) : \E k \in (i + 1)..(Len(t) + 1) :
              /\ Len(rest[i]) = Len(rest[k]) + 1
              /\ \A p \in 1..Len(rest[k]) : rest[i][p + 1] = rest[k][p]
              /\ at[i] > 0 => k = i + at[i] /\ rest[i][1] = Mark
              /\ at[i] = 0 => k = i + 1 /\ rest[i][1] = t[i]
<1> DEFINE n == Len(t) + 1
           All == S \cup {Mark}
<1>0. Len(t) \in Nat /\ n \in Nat \ {0} /\ DOMAIN t = 1..Len(t) /\ \A i \in 1..Len(t) : t[i] \in All
  BY LenProperties, ElementOfSeq
<1>1. t \in Seq(All) /\ Mark \in All
  BY SeqMonotonic
<1>2. \A i \in 1..n : rest[i] \in Seq(All)
  BY <1>1, RestType
<1>3. /\ rest[n] = <<>>
      /\ \A i \in 1..Len(t) : at[i] > 0 => rest[i] = <<Mark>> \o rest[i + at[i]]
      /\ \A i \in 1..Len(t) : at[i] = 0 => rest[i] = <<t[i]>> \o rest[i + 1]
  BY DEF Unfolds, Before
<1>4. \A i \in 1..n : Len(rest[i]) \in Nat
  BY <1>2, LenProperties
<1>5. ASSUME NEW x \in All, NEW r \in Seq(All)
      PROVE  /\ Len(<<x>> \o r) = Len(r) + 1 /\ (<<x>> \o r)[1] = x
             /\ \A p \in 1..Len(r) : (<<x>> \o r)[p + 1] = r[p]
  <2>1. <<x>> \in Seq(All) /\ Len(<<x>>) = 1 /\ Len(r) \in Nat /\ <<x>>[1] = x
    BY LenProperties
  <2>2. /\ Len(<<x>> \o r) = 1 + Len(r)
        /\ \A p \in 1..(1 + Len(r)) : (<<x>> \o r)[p] = IF p <= 1 THEN <<x>>[p] ELSE r[p - 1]
    BY <2>1, ConcatProperties
  <2>3. (<<x>> \o r)[1] = x
    <3>1. 1 \in 1..(1 + Len(r)) BY <2>1
    <3> QED BY <2>1, <2>2, <3>1
  <2>4. ASSUME NEW p \in 1..Len(r) PROVE (<<x>> \o r)[p + 1] = r[p]
    <3>1. p + 1 \in 1..(1 + Len(r)) /\ ~(p + 1 <= 1) /\ (p + 1) - 1 = p BY <2>1
    <3> QED BY <2>2, <3>1
  <2> QED BY <2>1, <2>2, <2>3, <2>4
<1>6. ASSUME NEW i \in 1..Len(t)
      PROVE  \E k \in (i + 1)..n :
               /\ Len(rest[i]) = Len(rest[k]) + 1
               /\ \A p \in 1..Len(rest[k]) : rest[i][p + 1] = rest[k][p]
               /\ at[i] > 0 => k = i + at[i] /\ rest[i][1] = Mark
               /\ at[i] = 0 => k = i + 1 /\ rest[i][1] = t[i]
  <2>0. at[i] \in Nat
    BY <1>0 DEF Fits
  <2>1. CASE at[i] > 0
    <3>1. i + at[i] \in (i + 1)..n /\ rest[i + at[i]] \in Seq(All)
      BY <1>0, <1>2, <2>1 DEF Fits
    <3>2. rest[i] = <<Mark>> \o rest[i + at[i]]
      BY <1>3, <2>1
    <3>3. Mark \in All OBVIOUS
    <3> HIDE DEF All, n
    <3>4. /\ Len(rest[i]) = Len(rest[i + at[i]]) + 1 /\ rest[i][1] = Mark
          /\ \A p \in 1..Len(rest[i + at[i]]) : rest[i][p + 1] = rest[i + at[i]][p]
      BY <1>5, <3>1, <3>2, <3>3
    <3>5. at[i] # 0
      BY <2>1
    <3> QED BY <3>1, <3>4, <3>5, Zenon
  <2>2. CASE at[i] = 0
    <3>1. i + 1 \in (i + 1)..n /\ rest[i + 1] \in Seq(All) /\ t[i] \in All
      BY <1>0, <1>2
    <3>2. rest[i] = <<t[i]>> \o rest[i + 1]
      BY <1>3, <2>2
    <3> HIDE DEF All
    <3> QED BY <1>5, <2>2, <3>1, <3>2
  <2> QED BY <2>0, <2>1, <2>2
<1> QED BY <1>3, <1>4, <1>6

\* As long as no mark comes, the substituted text is the text.
LEMMA RestPrefix ==
  ASSUME NEW S, NEW t \in Seq(S), NEW at, Fits(t, at), NEW rest, Unfolds(t, at, rest)
  PROVE  \A i \in 1..(Len(t) + 1) : \A m \in 0..Len(rest[i]) :
           (\A p \in 1..m : rest[i][p] # Mark) =>
             /\ i + m <= Len(t) + 1
             /\ \A p \in 1..m : at[i + p - 1] = 0 /\ rest[i][p] = t[i + p - 1]
<1> DEFINE n == Len(t) + 1
           Holds(i, m) ==
             (\A p \in 1..m : rest[i][p] # Mark) =>
               /\ i + m <= n
               /\ \A p \in 1..m : at[i + p - 1] = 0 /\ rest[i][p] = t[i + p - 1]
           Bad == {i \in 1..n : ~\A m \in 0..Len(rest[i]) : Holds(i, m)}
<1>0. /\ Len(t) \in Nat /\ n \in Nat \ {0} /\ DOMAIN t = 1..Len(t)
      /\ \A i \in 1..n : Len(rest[i]) \in Nat
      /\ Len(rest[n]) = 0
  BY LenProperties, RestStep, EmptySeq
<1>1. SUFFICES ASSUME Bad # {} PROVE FALSE
  <2>1. \A i \in 1..n : \A m \in 0..Len(rest[i]) : Holds(i, m)
    BY <1>1
  <2> QED BY <2>1
<1>2. PICK i \in Bad : \A j \in Bad : j <= i
  BY <1>0, <1>1, LastPlace
<1>3. PICK m \in 0..Len(rest[i]) : ~Holds(i, m)
  OBVIOUS
<1>4. m # 0
  BY <1>0, <1>3
<1>5. i \in 1..Len(t) /\ m \in Nat /\ m >= 1 /\ m <= Len(rest[i])
  BY <1>0, <1>3, <1>4
<1>6. \A p \in 1..m : rest[i][p] # Mark
  BY <1>3
<1>7. at[i] = 0
  <2>1. at[i] \in Nat BY <1>0, <1>5 DEF Fits
  <2>2. rest[i][1] # Mark BY <1>5, <1>6
  <2> QED BY <1>5, <2>1, <2>2, RestStep
<1>8. /\ Len(rest[i]) = Len(rest[i + 1]) + 1
      /\ \A p \in 1..Len(rest[i + 1]) : rest[i][p + 1] = rest[i + 1][p]
      /\ rest[i][1] = t[i]
  <2>1. PICK k \in (i + 1)..(Len(t) + 1) :
          /\ Len(rest[i]) = Len(rest[k]) + 1
          /\ \A p \in 1..Len(rest[k]) : rest[i][p + 1] = rest[k][p]
          /\ at[i] = 0 => k = i + 1 /\ rest[i][1] = t[i]
    BY <1>5, RestStep
  <2> QED BY <1>7, <2>1
<1>9. Holds(i + 1, m - 1) /\ m - 1 \in 0..Len(rest[i + 1])
  <2>1. i + 1 \in 1..n /\ i + 1 \notin Bad
    BY <1>0, <1>2, <1>5
  <2>2. Len(rest[i + 1]) \in Nat /\ m - 1 \in 0..Len(rest[i + 1])
    BY <1>0, <1>5, <1>8, <2>1
  <2> QED BY <2>1, <2>2
<1>10. \A p \in 1..(m - 1) : rest[i + 1][p] # Mark
  <2> SUFFICES ASSUME NEW p \in 1..(m - 1) PROVE rest[i + 1][p] # Mark
    OBVIOUS
  <2>1. p + 1 \in 1..m /\ p \in 1..Len(rest[i + 1])
    BY <1>5, <1>9
  <2> QED BY <1>6, <1>8, <2>1
<1>11. /\ (i + 1) + (m - 1) <= n
       /\ \A p \in 1..(m - 1) : at[(i + 1) + p - 1] = 0 /\ rest[i + 1][p] = t[(i + 1) + p - 1]
  BY <1>9, <1>10
<1>12. ASSUME NEW p \in 1..m PROVE at[i + p - 1] = 0 /\ rest[i][p] = t[i + p - 1]
  <2>1. CASE p = 1
    BY <1>5, <1>7, <1>8, <2>1
  <2>2. CASE p # 1
    <3>1. p - 1 \in 1..(m - 1) /\ (p - 1) + 1 = p /\ (i + 1) + (p - 1) - 1 = i + p - 1
          /\ p - 1 \in 1..Len(rest[i + 1])
      BY <1>5, <1>9, <2>2
    <3>2. at[(i + 1) + (p - 1) - 1] = 0 /\ rest[i + 1][p - 1] = t[(i + 1) + (p - 1) - 1]
      BY <1>11, <3>1
    <3>3. rest[i][(p - 1) + 1] = rest[i + 1][p - 1]
      BY <1>8, <3>1
    <3> QED BY <3>1, <3>2, <3>3
  <2> QED BY <2>1, <2>2
<1>13. i + m <= n
  BY <1>0, <1>5, <1>11
<1> QED BY <1>3, <1>12, <1>13

\* m symbols of r from a on were copied from one place of t, where nothing matched.
Copied(t, at, r, a, m) ==
  \E q \in 1..(Len(t) + 1) :
    /\ q + m <= Len(t) + 1
    /\ \A p \in 1..m : at[q + p - 1] = 0 /\ r[a + p - 1] = t[q + p - 1]

\* What stands between two marks was copied.
LEMMA RestSegment ==
  ASSUME NEW S, NEW t \in Seq(S), NEW at, Fits(t, at), NEW rest, Unfolds(t, at, rest)
  PROVE  \A i \in 1..(Len(t) + 1) : \A a \in 1..Len(rest[i]), m \in Nat :
           a + m - 1 <= Len(rest[i]) /\ (\A p \in 1..m : rest[i][a + p - 1] # Mark) =>
             Copied(t, at, rest[i], a, m)
<1> USE DEF Copied
<1> DEFINE n == Len(t) + 1
           From(i, a, m, q) ==
             /\ q + m <= n
             /\ \A p \in 1..m : at[q + p - 1] = 0 /\ rest[i][a + p - 1] = t[q + p - 1]
           Holds(i, a, m) ==
             a + m - 1 <= Len(rest[i]) /\ (\A p \in 1..m : rest[i][a + p - 1] # Mark) =>
               \E q \in 1..n : From(i, a, m, q)
           Bad == {i \in 1..n : ~\A a \in 1..Len(rest[i]), m \in Nat : Holds(i, a, m)}
<1>0. /\ Len(t) \in Nat /\ n \in Nat \ {0}
      /\ \A i \in 1..n : Len(rest[i]) \in Nat
      /\ Len(rest[n]) = 0
  BY LenProperties, RestStep, EmptySeq
<1>1. SUFFICES ASSUME Bad # {} PROVE FALSE
  <2> HIDE DEF Holds
  <2>1. \A i \in 1..n : \A a \in 1..Len(rest[i]), m \in Nat : Holds(i, a, m)
    BY <1>1
  <2> QED BY <2>1 DEF Holds
<1>2. PICK i \in Bad : \A j \in Bad : j <= i
  BY <1>0, <1>1, LastPlace
<1>3. PICK a \in 1..Len(rest[i]), m \in Nat : ~Holds(i, a, m)
  OBVIOUS
<1>4. /\ a + m - 1 <= Len(rest[i])
      /\ \A p \in 1..m : rest[i][a + p - 1] # Mark
      /\ ~\E q \in 1..n : From(i, a, m, q)
  BY <1>3
<1>5. i \in 1..Len(t) /\ a \in Nat /\ a >= 1
  BY <1>0
<1>6. CASE a = 1
  <2>1. m \in 0..Len(rest[i]) /\ \A p \in 1..m : a + p - 1 = p
    BY <1>0, <1>4, <1>5, <1>6
  <2>2. \A p \in 1..m : rest[i][p] # Mark
    BY <1>4, <2>1
  <2>3. /\ i + m <= n
        /\ \A p \in 1..m : at[i + p - 1] = 0 /\ rest[i][p] = t[i + p - 1]
    BY <1>5, <2>1, <2>2, RestPrefix
  <2>4. From(i, a, m, i)
    BY <2>1, <2>3
  <2> QED BY <1>4, <2>4
<1>7. CASE a # 1
  <2>1. PICK k \in (i + 1)..n : /\ Len(rest[i]) = Len(rest[k]) + 1
                                /\ \A p \in 1..Len(rest[k]) : rest[i][p + 1] = rest[k][p]
    BY <1>5, RestStep
  <2>2. k \in 1..n /\ ~(k <= i) /\ k \notin Bad
    <3>1. k \in 1..n /\ ~(k <= i)
      BY <1>0, <1>5
    <3> HIDE DEF Bad
    <3> QED BY <1>2, <3>1
  <2>3. Len(rest[k]) \in Nat /\ a - 1 \in 1..Len(rest[k])
    BY <1>0, <1>5, <1>7, <2>1, <2>2
  <2>4. Holds(k, a - 1, m)
    <3> HIDE DEF Holds
    <3> QED BY <2>2, <2>3
  <2>5. ASSUME NEW p \in 1..m PROVE rest[k][(a - 1) + p - 1] = rest[i][a + p - 1]
    <3>1. (a - 1) + p - 1 \in 1..Len(rest[k]) /\ ((a - 1) + p - 1) + 1 = a + p - 1
      BY <1>4, <1>5, <2>1, <2>3
    <3> QED BY <2>1, <3>1
  <2>6. (a - 1) + m - 1 <= Len(rest[k]) /\ \A p \in 1..m : rest[k][(a - 1) + p - 1] # Mark
    <3>1. (a - 1) + m - 1 <= Len(rest[k])
      BY <1>4, <1>5, <2>1, <2>3
    <3> QED BY <1>4, <2>5, <3>1
  <2>7. PICK q \in 1..n : From(k, a - 1, m, q)
    BY <2>4, <2>6
  <2>8. From(i, a, m, q)
    BY <2>5, <2>7
  <2> QED BY <1>4, <2>8
<1> QED BY <1>6, <1>7

-----------------------------------------------------------------------------
(* Substitution: what a caller of Sub may rely on. *)

\* w stands in s from place i on.
StandsAt(w, s, i) == i + Len(w) - 1 <= Len(s) /\ \A p \in 1..Len(w) : s[i + p - 1] = w[p]

LEMMA Standing ==
  ASSUME NEW S, NEW s \in Seq(S), NEW w \in Seq(S), w # <<>>
  PROVE  /\ \A i \in 1..Len(s) : (i + Len(w) - 1 <= Len(s) /\ SubSeq(s, i, i + Len(w) - 1) = w)
                                    <=> StandsAt(w, s, i)
         /\ w \in SubSeqs(s) <=> \E i \in 1..Len(s) : StandsAt(w, s, i)
<1>0. /\ Len(s) \in Nat /\ Len(w) \in Nat \ {0}
      /\ \A i \in 1..Len(s) : s[i] \in S
  BY LenProperties, EmptySeq, ElementOfSeq
<1>1. ASSUME NEW i \in 1..Len(s), NEW j \in Int, i <= j, j <= Len(s)
      PROVE  /\ SubSeq(s, i, j) \in Seq(S) /\ Len(SubSeq(s, i, j)) = j - i + 1
             /\ \A p \in 1..(j - i + 1) : SubSeq(s, i, j)[p] = s[i + p - 1]
  <2>1. i \in Int /\ \A k \in i..j : s[k] \in S
    BY <1>0, <1>1
  <2>2. /\ SubSeq(s, i, j) \in Seq(S)
        /\ Len(SubSeq(s, i, j)) = IF i <= j THEN j - i + 1 ELSE 0
        /\ \A p \in 1..(j - i + 1) : SubSeq(s, i, j)[p] = s[i + p - 1]
    BY <2>1, SubSeqProperties
  <2> QED BY <1>1, <2>2
<1>2. ASSUME NEW i \in 1..Len(s)
      PROVE  (i + Len(w) - 1 <= Len(s) /\ SubSeq(s, i, i + Len(w) - 1) = w) <=> StandsAt(w, s, i)
  <2> DEFINE j == i + Len(w) - 1
  <2>1. j \in Int /\ i <= j /\ j - i + 1 = Len(w)
    BY <1>0
  <2> HIDE DEF j
  <2>2. ASSUME j <= Len(s)
        PROVE  /\ SubSeq(s, i, j) \in Seq(S) /\ Len(SubSeq(s, i, j)) = Len(w)
               /\ \A p \in 1..Len(w) : SubSeq(s, i, j)[p] = s[i + p - 1]
    BY <1>1, <2>1, <2>2
  <2>3. ASSUME j <= Len(s), \A p \in 1..Len(w) : s[i + p - 1] = w[p]
        PROVE  SubSeq(s, i, j) = w
    BY <2>2, <2>3, SeqEqual
  <2> USE DEF StandsAt
  <2>4. j <= Len(s) /\ SubSeq(s, i, j) = w <=> j <= Len(s) /\ \A p \in 1..Len(w) : s[i + p - 1] = w[p]
    <3>1. ASSUME j <= Len(s), SubSeq(s, i, j) = w
          PROVE  \A p \in 1..Len(w) : s[i + p - 1] = w[p]
      BY <2>2, <3>1
    <3> QED BY <2>3, <3>1
  <2> QED BY <2>4 DEF j
<1>3. ASSUME w \in SubSeqs(s) PROVE \E i \in 1..Len(s) : StandsAt(w, s, i)
  <2>1. PICK i \in 0..Len(s), j \in 0..Len(s) : w = SubSeq(s, i + 1, j)
    BY <1>3 DEF SubSeqs
  <2>2. i + 1 <= j
    <3> SUFFICES ASSUME j < i + 1 PROVE FALSE
      BY <1>0
    <3>1. SubSeq(s, i + 1, j) = <<>>
      BY <1>0, SubSeqEmpty
    <3> QED BY <2>1, <3>1
  <2>3. i + 1 \in 1..Len(s) /\ j \in Int /\ j <= Len(s)
    BY <1>0, <2>2
  <2>4. Len(w) = j - (i + 1) + 1
    BY <1>1, <2>1, <2>2, <2>3
  <2>5. (i + 1) + Len(w) - 1 = j
    BY <1>0, <2>3, <2>4
  <2> QED BY <1>2, <2>1, <2>3, <2>5
<1>4. ASSUME NEW i \in 1..Len(s), StandsAt(w, s, i) PROVE w \in SubSeqs(s)
  <2>1. i + Len(w) - 1 <= Len(s) /\ SubSeq(s, i, i + Len(w) - 1) = w
    BY <1>2, <1>4
  <2>2. i - 1 \in 0..Len(s) /\ i + Len(w) - 1 \in 0..Len(s) /\ (i - 1) + 1 = i
    BY <1>0, <2>1
  <2>3. \A k, j \in 0..Len(s) : SubSeq(s, k + 1, j) \in SubSeqs(s)
    BY SMT DEF SubSeqs
  <2>4. SubSeq(s, (i - 1) + 1, i + Len(w) - 1) \in SubSeqs(s)
    BY <2>2, <2>3, Zenon
  <2> QED BY <2>1, <2>2, <2>4
<1> QED BY <1>2, <1>3, <1>4

\* The places of a key.
LEMMA KeyFits ==
  ASSUME NEW S, NEW t \in Seq(S), NEW key \in Seq(S)
  PROVE  /\ Fits(t, KeyAt(t, key))
         /\ key = <<>> => \A i \in 1..Len(t) : KeyAt(t, key)[i] = 0
         /\ key # <<>> => \A i \in 1..Len(t) :
              KeyAt(t, key)[i] = IF StandsAt(key, t, i) THEN Len(key) ELSE 0
<1>0. Len(t) \in Nat /\ DOMAIN t = 1..Len(t) /\ Len(key) \in Nat /\ (key = <<>> => Len(key) = 0)
  BY LenProperties, EmptySeq
<1>1. \A i \in 1..Len(t) :
        KeyAt(t, key)[i] = IF i + Len(key) - 1 <= Len(t) /\ SubSeq(t, i, i + Len(key) - 1) = key
                           THEN Len(key) ELSE 0
  BY <1>0, Zenon DEF KeyAt
<1>2. Fits(t, KeyAt(t, key))
  <2>1. KeyAt(t, key) \in [DOMAIN t -> Nat]
    BY <1>0 DEF KeyAt
  <2>2. \A i \in DOMAIN t : i + KeyAt(t, key)[i] <= Len(t) + 1
    BY <1>0, <1>1
  <2> QED BY <2>1, <2>2 DEF Fits
<1>3. key # <<>> => \A i \in 1..Len(t) :
        KeyAt(t, key)[i] = IF StandsAt(key, t, i) THEN Len(key) ELSE 0
  BY <1>1, Standing
<1>4. key = <<>> => \A i \in 1..Len(t) : KeyAt(t, key)[i] = 0
  BY <1>0, <1>1
<1> QED BY <1>2, <1>3, <1>4

\* The places of a credential shape: the body is read to its end.
LEMMA ShapeFits ==
  ASSUME NEW S, NEW t \in Seq(S), NEW p
  PROVE  /\ Fits(t, ShapeAt(t, p))
         /\ \A i \in 1..Len(t) : ShapeAt(t, p)[i] > 0 =>
              /\ t[i] = p.head
              /\ \A j \in (i + 1)..(i + ShapeAt(t, p)[i] - 1) : t[j] \in p.body
<1>0. Len(t) \in Nat /\ DOMAIN t = 1..Len(t)
  BY LenProperties
<1> DEFINE Ends(i, n) == /\ \A j \in (i + 1)..(i + n) : t[j] \in p.body
                         /\ i + n = Len(t) \/ t[i + n + 1] \notin p.body
           Run(i) == CHOOSE n \in 0..(Len(t) - i) : Ends(i, n)
<1>1. ASSUME NEW i \in 1..Len(t) PROVE \E n \in 0..(Len(t) - i) : Ends(i, n)
  <2> DEFINE Stops == {n \in 0..(Len(t) - i) : i + n = Len(t) \/ t[i + n + 1] \notin p.body}
  <2>1. Len(t) - i \in Stops
    BY <1>0
  <2>2. Stops \subseteq Nat /\ Stops # {}
    <3>1. 0..(Len(t) - i) \subseteq Nat OBVIOUS
    <3>2. Stops # {} BY <2>1
    <3> QED BY <3>1, <3>2
  <2>3. PICK n \in Stops : \A m \in Stops : n <= m
    <3> HIDE DEF Stops
    <3> QED BY <2>2, Least
  <2>4. ASSUME NEW j \in (i + 1)..(i + n) PROVE t[j] \in p.body
    <3>0. n \in 0..(Len(t) - i)
      OBVIOUS
    <3>1. j - i - 1 \in 0..(Len(t) - i) /\ ~(n <= j - i - 1) /\ i + (j - i - 1) + 1 = j
      <4> HIDE DEF Stops
      <4> QED BY <1>0, <3>0
    <3>2. j - i - 1 \notin Stops
      BY <2>3, <3>1
    <3> QED BY <3>1, <3>2
  <2> QED BY <2>4
<1>2. ASSUME NEW i \in 1..Len(t) PROVE Run(i) \in 0..(Len(t) - i) /\ Ends(i, Run(i))
  <2> HIDE DEF Ends
  <2> QED BY <1>1
<1>3. ShapeAt(t, p) = [i \in 1..Len(t) |-> IF t[i] = p.head /\ Run(i) >= p.min THEN Run(i) + 1 ELSE 0]
  BY <1>0, Zenon DEF ShapeAt
<1>4. ASSUME NEW i \in 1..Len(t)
      PROVE  /\ ShapeAt(t, p)[i] \in Nat /\ i + ShapeAt(t, p)[i] <= Len(t) + 1
             /\ ShapeAt(t, p)[i] > 0 => t[i] = p.head /\ ShapeAt(t, p)[i] = Run(i) + 1
  <2>1. Run(i) \in 0..(Len(t) - i)
    BY <1>2
  <2> HIDE DEF Run
  <2>2. (ShapeAt(t, p)[i] = Run(i) + 1 /\ t[i] = p.head) \/ ShapeAt(t, p)[i] = 0
    BY <1>3
  <2> QED BY <1>0, <2>1, <2>2
<1>5. Fits(t, ShapeAt(t, p))
  <2>1. DOMAIN ShapeAt(t, p) = 1..Len(t)
    BY <1>3
  <2>2. ShapeAt(t, p) = [i \in 1..Len(t) |-> ShapeAt(t, p)[i]]
    BY <1>3, <2>1
  <2> QED BY <1>0, <1>4, <2>2 DEF Fits
<1>6. ASSUME NEW i \in 1..Len(t), ShapeAt(t, p)[i] > 0,
             NEW j \in (i + 1)..(i + ShapeAt(t, p)[i] - 1)
      PROVE  t[j] \in p.body
  <2>1. Ends(i, Run(i)) /\ Run(i) \in 0..(Len(t) - i) /\ ShapeAt(t, p)[i] = Run(i) + 1
    BY <1>2, <1>4, <1>6
  <2> HIDE DEF Run
  <2>2. j \in (i + 1)..(i + Run(i))
    BY <2>1
  <2> QED BY <2>1, <2>2
<1> QED BY <1>4, <1>5, <1>6

\* A word without the mark that is in the substituted text was in the text,
\* in a place where nothing matched.
LEMMA SubKeeps ==
  ASSUME NEW S, NEW t \in Seq(S), Mark \in S, NEW at, Fits(t, at),
         NEW w \in Seq(S \ {Mark}), w # <<>>, w \in SubSeqs(Sub(t, at))
  PROVE  \E q \in 1..Len(t) : StandsAt(w, t, q) /\ at[q] = 0
<1>0. /\ Len(t) \in Nat /\ Len(w) \in Nat \ {0} /\ w \in Seq(S)
      /\ \A p \in 1..Len(w) : w[p] # Mark
  BY LenProperties, EmptySeq, SeqMonotonic, ElementOfSeq
<1>1. PICK rest : Sub(t, at) = rest[1] /\ Unfolds(t, at, rest)
  BY SubUnfolds
<1>2. 1 \in 1..(Len(t) + 1) /\ rest[1] \in Seq(S)
  BY <1>0, <1>1, RestType
<1>2a. \A i \in 1..(Len(t) + 1) : \A a \in 1..Len(rest[i]), m \in Nat :
        a + m - 1 <= Len(rest[i]) /\ (\A p \in 1..m : rest[i][a + p - 1] # Mark) =>
          Copied(t, at, rest[i], a, m)
  BY <1>1, RestSegment
<1>3. PICK a \in 1..Len(rest[1]) : StandsAt(w, rest[1], a)
  BY <1>0, <1>1, <1>2, Standing
<1>4. PICK q \in 1..(Len(t) + 1) :
        /\ q + Len(w) <= Len(t) + 1
        /\ \A p \in 1..Len(w) : at[q + p - 1] = 0 /\ rest[1][a + p - 1] = t[q + p - 1]
  <2>1. /\ a + Len(w) - 1 <= Len(rest[1])
        /\ \A p \in 1..Len(w) : rest[1][a + p - 1] # Mark
    BY <1>0, <1>3 DEF StandsAt
  <2>2. Copied(t, at, rest[1], a, Len(w))
    BY <1>0, <1>2, <1>2a, <2>1
  <2> QED BY <2>2, Zenon DEF Copied
<1>5. q \in 1..Len(t) /\ q + 1 - 1 = q /\ 1 \in 1..Len(w)
  BY <1>0, <1>4
<1>6. at[q] = 0
  BY <1>4, <1>5
<1>7. StandsAt(w, t, q)
  <2>1. q + Len(w) - 1 <= Len(t)
    BY <1>0, <1>4
  <2>2. \A p \in 1..Len(w) : t[q + p - 1] = w[p]
    BY <1>3, <1>4 DEF StandsAt
  <2> QED BY <2>1, <2>2 DEF StandsAt
<1> QED BY <1>5, <1>6, <1>7

\* A key that was cut out is gone, and no other one comes into the text with it.
LEMMA KeyGone ==
  ASSUME NEW S, NEW t \in Seq(S), Mark \in S, NEW key \in Seq(S \ {Mark}), key # <<>>
  PROVE  key \notin SubSeqs(Sub(t, KeyAt(t, key)))
<1> SUFFICES ASSUME key \in SubSeqs(Sub(t, KeyAt(t, key))) PROVE FALSE
  OBVIOUS
<1>1. key \in Seq(S) /\ Len(key) \in Nat \ {0}
  BY SeqMonotonic, EmptySeq
<1>2. Fits(t, KeyAt(t, key))
  BY <1>1, KeyFits
<1>3. PICK q \in 1..Len(t) : StandsAt(key, t, q) /\ KeyAt(t, key)[q] = 0
  BY <1>2, SubKeeps
<1>4. KeyAt(t, key)[q] = Len(key)
  BY <1>1, <1>3, KeyFits
<1> QED BY <1>1, <1>3, <1>4

LEMMA KeyStaysGone ==
  ASSUME NEW S, NEW t \in Seq(S), Mark \in S, NEW at, Fits(t, at),
         NEW key \in Seq(S \ {Mark}), key # <<>>, key \notin SubSeqs(t)
  PROVE  key \notin SubSeqs(Sub(t, at))
<1> SUFFICES ASSUME key \in SubSeqs(Sub(t, at)) PROVE FALSE
  OBVIOUS
<1>1. key \in Seq(S)
  BY SeqMonotonic
<1>2. PICK q \in 1..Len(t) : StandsAt(key, t, q) /\ at[q] = 0
  BY SubKeeps
<1> QED BY <1>1, <1>2, Standing

\* Up to the first match the text stays, and there the mark comes.
LEMMA FirstMatch ==
  ASSUME NEW S, NEW t \in Seq(S), NEW at, Fits(t, at), \E i \in DOMAIN at : at[i] > 0
  PROVE  \E i \in 1..Len(t) :
           /\ at[i] > 0 /\ i <= Len(Sub(t, at)) /\ Sub(t, at)[i] = Mark
           /\ \A j \in 1..(i - 1) : at[j] = 0 /\ Sub(t, at)[j] = t[j]
<1>0. Len(t) \in Nat /\ DOMAIN at = 1..Len(t) /\ \A i \in 1..Len(t) : at[i] \in Nat
  BY LenProperties DEF Fits
<1>1. PICK rest : Sub(t, at) = rest[1] /\ Unfolds(t, at, rest)
  BY SubUnfolds
<1> DEFINE Matches == {i \in 1..Len(t) : at[i] > 0}
<1>2. PICK f \in Matches : \A i \in Matches : f <= i
  <2>1. Matches \subseteq Nat /\ Matches # {}
    BY <1>0
  <2> HIDE DEF Matches
  <2> QED BY <2>1, Least
<1>3. f \in 1..Len(t) /\ at[f] > 0 /\ \A j \in 1..(f - 1) : at[j] = 0
  <2>1. ASSUME NEW j \in 1..(f - 1) PROVE at[j] = 0
    <3>1. j \in 1..Len(t) /\ ~(f <= j)
      BY <1>0
    <3> QED BY <1>0, <1>2, <3>1
  <2> QED BY <2>1
<1> HIDE DEF Matches
<1> DEFINE Holds(i) == /\ f - i + 1 <= Len(rest[i]) /\ rest[i][f - i + 1] = Mark
                       /\ \A p \in 1..(f - i) : rest[i][p] = t[i + p - 1]
           Bad == {i \in 1..f : ~Holds(i)}
<1>4. Holds(1)
  <2>0. 1 \in 1..f
    BY <1>0, <1>3
  <2> HIDE DEF Holds
  <2> SUFFICES ASSUME Bad # {} PROVE FALSE
    BY <2>0
  <2>1. PICK i \in Bad : \A j \in Bad : j <= i
    <3>1. f \in Nat /\ Bad \subseteq 1..f
      BY <1>0, <1>3
    <3> HIDE DEF Bad
    <3> QED BY <3>1, LastPlace
  <2>2. i \in 1..f /\ ~Holds(i) /\ i \in 1..Len(t)
    <3>1. i \in 1..f /\ ~Holds(i)
      BY <2>1
    <3> QED BY <1>0, <1>3, <3>1
  <2> HIDE DEF Bad
  <2>3. PICK k \in (i + 1)..(Len(t) + 1) :
          /\ Len(rest[i]) = Len(rest[k]) + 1 /\ Len(rest[k]) \in Nat
          /\ \A p \in 1..Len(rest[k]) : rest[i][p + 1] = rest[k][p]
          /\ at[i] > 0 => rest[i][1] = Mark
          /\ at[i] = 0 => k = i + 1 /\ rest[i][1] = t[i]
    <3>1. PICK k \in (i + 1)..(Len(t) + 1) :
            /\ Len(rest[i]) = Len(rest[k]) + 1
            /\ \A p \in 1..Len(rest[k]) : rest[i][p + 1] = rest[k][p]
            /\ at[i] > 0 => rest[i][1] = Mark
            /\ at[i] = 0 => k = i + 1 /\ rest[i][1] = t[i]
      BY <1>1, <2>2, RestStep
    <3>2. k \in 1..(Len(t) + 1)
      BY <1>0, <2>2
    <3>3. Len(rest[k]) \in Nat
      BY <1>1, <3>2, RestStep
    <3> QED BY <3>1, <3>3
  <2> USE DEF Holds
  <2>4. CASE i = f
    <3>1. f - i + 1 = 1 /\ f - i + 1 <= Len(rest[i]) /\ rest[i][1] = Mark /\ 1..(f - i) = {}
      BY <1>0, <1>3, <2>2, <2>3, <2>4
    <3> QED BY <2>2, <3>1
  <2>5. CASE i # f
    <3>1. at[i] = 0 /\ i + 1 \in 1..f /\ ~(i + 1 <= i)
      BY <1>0, <1>3, <2>2, <2>5
    <3>2. Holds(i + 1)
      <4>1. i + 1 \notin Bad
        BY <2>1, <3>1
      <4> HIDE DEF Holds
      <4> QED BY <3>1, <4>1 DEF Bad
    <3>3. k = i + 1 /\ rest[i][1] = t[i]
      BY <2>3, <3>1
    <3>4. f - i + 1 <= Len(rest[i]) /\ rest[i][f - i + 1] = Mark
      <4>1. f - (i + 1) + 1 \in 1..Len(rest[k]) /\ (f - (i + 1) + 1) + 1 = f - i + 1
        BY <1>0, <1>3, <2>2, <2>3, <3>1, <3>2, <3>3
      <4>2. rest[i][(f - (i + 1) + 1) + 1] = rest[k][f - (i + 1) + 1]
        BY <2>3, <4>1
      <4> QED BY <2>3, <3>2, <3>3, <4>1, <4>2
    <3>5. ASSUME NEW p \in 1..(f - i) PROVE rest[i][p] = t[i + p - 1]
      <4>1. CASE p = 1
        BY <2>2, <3>3, <4>1
      <4>2. CASE p # 1
        <5>1. /\ p - 1 \in 1..(f - (i + 1)) /\ (p - 1) + 1 = p /\ (i + 1) + (p - 1) - 1 = i + p - 1
              /\ p - 1 \in 1..Len(rest[k])
          BY <1>0, <1>3, <2>2, <2>3, <3>2, <3>3, <4>2
        <5>2. rest[i + 1][p - 1] = t[(i + 1) + (p - 1) - 1]
          BY <3>2, <5>1
        <5>3. rest[i][(p - 1) + 1] = rest[k][p - 1]
          BY <2>3, <5>1
        <5> QED BY <3>3, <5>1, <5>2, <5>3
      <4> QED BY <4>1, <4>2
    <3> QED BY <2>2, <3>4, <3>5
  <2> QED BY <2>4, <2>5
<1>5. f <= Len(rest[1]) /\ rest[1][f] = Mark /\ \A j \in 1..(f - 1) : rest[1][j] = t[j]
  <2>1. f - 1 + 1 = f /\ \A j \in 1..(f - 1) : 1 + j - 1 = j
    BY <1>0, <1>3
  <2> QED BY <1>4, <2>1
<1> QED BY <1>1, <1>3, <1>5

-----------------------------------------------------------------------------
(* The steps of the redactor *)

\* What the loops substitute: the matches of a key or of a shape.  None of them
\* begins with a mark.
Cuts(t, at) == Fits(t, at) /\ \A i \in 1..Len(t) : at[i] > 0 => t[i] # Mark

LEMMA KeyCuts ==
  ASSUME NEW S, NEW t \in Seq(S), NEW key \in Seq(S \ {Mark})
  PROVE  Cuts(t, KeyAt(t, key))
<1>1. key \in Seq(S) /\ Len(key) \in Nat /\ (key # <<>> => Len(key) >= 1)
  BY SeqMonotonic, EmptySeq, LenProperties
<1>2. Fits(t, KeyAt(t, key))
  BY <1>1, KeyFits
<1>3. ASSUME NEW i \in 1..Len(t), KeyAt(t, key)[i] > 0 PROVE t[i] # Mark
  <2>0. Len(t) \in Nat
    BY LenProperties
  <2>1. key # <<>> /\ StandsAt(key, t, i)
    BY <1>1, <1>3, KeyFits
  <2>2. 1 \in 1..Len(key) /\ i + 1 - 1 = i
    BY <1>1, <2>0, <2>1
  <2>3. key[1] # Mark /\ t[i] = key[1]
    BY <2>1, <2>2, ElementOfSeq DEF StandsAt
  <2> QED BY <2>3
<1> QED BY <1>2, <1>3 DEF Cuts

LEMMA ShapeCuts ==
  ASSUME NEW S, NEW t \in Seq(S), NEW n \in DOMAIN Patterns
  PROVE  Cuts(t, ShapeAt(t, Patterns[n]))
<1>1. Mark # Patterns[n].head
  BY PatternAssumption
<1> QED BY <1>1, ShapeFits DEF Cuts

LEMMA SubType ==
  ASSUME NEW S, NEW t \in Seq(S), Mark \in S, NEW at, Fits(t, at)
  PROVE  Sub(t, at) \in Seq(S)
<1>1. PICK rest : Sub(t, at) = rest[1] /\ Unfolds(t, at, rest)
  BY SubUnfolds
<1>2. 1 \in 1..(Len(t) + 1)
  BY LenProperties
<1> QED BY <1>1, <1>2, RestType

Entries == {Configured} \cup DOMAIN Patterns

\* The symbols of the text and the mark: what the cleaned text is made of.
InkOf(s) == Range(s) \cup {Mark}

\* RedactorTypeOK, with the secrets known to be all cut out behind the loops.
TypeInv(secrets) ==
  /\ RedactorTypeOK /\ (step # "keys" => todo = {})
  /\ sensitive \subseteq secrets
  /\ text \in Seq(Range(text))
  /\ cleaned \in Seq(InkOf(text))
  /\ redactions \in Seq(Entries)

\* One thing is cut out: a secret that is then done with, or the next shape.
Cut(at, by) ==
  /\ Cuts(cleaned, at) /\ Substitute(at, by)
  /\ step = "keys" /\ UNCHANGED <<text, sensitive, asks, flagged, step>>
  /\ \/ /\ UNCHANGED next
        /\ \E key \in todo : todo' = todo \ {key} /\ at = KeyAt(cleaned, key)
     \/ /\ next < Len(Patterns) + 1 /\ next' = next + 1 /\ todo = {} /\ UNCHANGED todo
        /\ next \in DOMAIN Patterns /\ at = ShapeAt(cleaned, Patterns[next])

LEMMA Steps ==
  ASSUME NEW Symbols, NEW Secrets, Secrets \subseteq Seq(Symbols \ {Mark}),
         TypeInv(Secrets), RedactKey \/ RedactShape
  PROVE  \E by \in Entries : \E at : Cut(at, by)
<1> DEFINE All == Symbols \cup InkOf(text)
<1>0. cleaned \in Seq(All)
  BY SeqMonotonic DEF TypeInv
<1>1. CASE RedactKey
  <2>1. PICK key \in todo : todo' = todo \ {key} /\ Substitute(KeyAt(cleaned, key), Configured)
    BY <1>1 DEF RedactKey
  <2>2. key \in Seq(Symbols \ {Mark})
    BY DEF TypeInv, RedactorTypeOK
  <2>3. key \in Seq(All \ {Mark})
    BY <2>2, SeqMonotonic
  <2>4. Cuts(cleaned, KeyAt(cleaned, key))
    BY <1>0, <2>3, KeyCuts
  <2>5. Configured \in Entries
    BY DEF Entries
  <2>6. Cut(KeyAt(cleaned, key), Configured)
    BY <1>1, <2>1, <2>4 DEF RedactKey, Cut
  <2> QED BY <2>5, <2>6, Zenon
<1>2. CASE RedactShape
  <2>1. /\ next <= Len(Patterns) /\ next' = next + 1 /\ todo = {} /\ step = "keys"
        /\ Substitute(ShapeAt(cleaned, Patterns[next]), next)
        /\ UNCHANGED <<text, sensitive, asks, todo, flagged, step>>
    BY <1>2 DEF RedactShape
  <2>2. next \in DOMAIN Patterns /\ next < Len(Patterns) + 1
    BY <2>1, PatternAssumption DEF TypeInv, RedactorTypeOK
  <2>3. Cuts(cleaned, ShapeAt(cleaned, Patterns[next]))
    BY <1>0, <2>2, ShapeCuts
  <2>4. next \in Entries
    BY <2>2 DEF Entries
  <2>5. Cut(ShapeAt(cleaned, Patterns[next]), next)
    BY <2>1, <2>2, <2>3 DEF Cut
  <2> QED BY <2>4, <2>5, Zenon
<1> QED BY <1>1, <1>2

LEMMA SubstituteTypes ==
  ASSUME NEW S, cleaned \in Seq(S), Mark \in S, redactions \in Seq(Entries),
         NEW at, Fits(cleaned, at), NEW by \in Entries, Substitute(at, by)
  PROVE  cleaned' \in Seq(S) /\ redactions' \in Seq(Entries)
<1>1. CASE \E i \in DOMAIN at : at[i] > 0
  <2>1. cleaned' = Sub(cleaned, at) /\ redactions' = Append(redactions, by)
    BY <1>1 DEF Substitute
  <2> QED BY <2>1, SubType, AppendProperties
<1>2. CASE ~\E i \in DOMAIN at : at[i] > 0
  BY <1>2 DEF Substitute
<1> QED BY <1>1, <1>2

LEMMA TypeInduction ==
  ASSUME NEW Symbols, NEW Secrets, Texts \subseteq Seq(Symbols), Secrets \subseteq Seq(Symbols \ {Mark})
  PROVE  RedactorSpec(Secrets) => []TypeInv(Secrets)
<1>0. \A s \in Texts : s \in Seq(Range(s)) /\ s \in Seq(InkOf(s))
  <2>1. \A s \in Texts : s \in Seq(Range(s))
    BY SeqOfRange
  <2>2. \A s : Range(s) \subseteq InkOf(s)
    BY DEF InkOf
  <2> QED BY <2>1, <2>2, SeqMonotonic
<1>1. RedactorInit => TypeInv(Secrets)
  <2>1. ASSUME NEW S PROVE <<>> \in Seq(S)
    BY EmptySeq
  <2>2. 1 \in 1..(Len(Patterns) + 1) /\ Range(<<>>) = {}
    BY PatternAssumption DEF Range
  <2> QED BY <2>1, <2>2 DEF RedactorInit, TypeInv, RedactorTypeOK
<1>2. TypeInv(Secrets) /\ [RedactorNext(Secrets)]_redactor => TypeInv(Secrets)'
  <2> SUFFICES ASSUME TypeInv(Secrets), [RedactorNext(Secrets)]_redactor PROVE TypeInv(Secrets)'
    OBVIOUS
  <2>1. CASE \E keys \in SUBSET Secrets : Redact(keys)
    <3>1. PICK keys \in SUBSET Secrets : Redact(keys)
      BY <2>1
    <3>2. /\ text' \in Texts /\ cleaned' = text' /\ redactions' = <<>> /\ sensitive' = keys
          /\ todo' = keys /\ next' = 1 /\ asks' \in BOOLEAN /\ flagged' = FALSE /\ step' = "keys"
      BY <3>1 DEF Redact
    <3>3. redactions' \in Seq(Entries) /\ Range(redactions') = {}
      BY <3>2, EmptySeq DEF Range
    <3>4. cleaned' \in Seq(InkOf(text)') /\ text' \in Seq(Range(text)')
      BY <1>0, <3>2 DEF InkOf, Range
    <3>5. next' \in 1..(Len(Patterns) + 1)
      BY <3>2, PatternAssumption
    <3> QED BY <3>2, <3>3, <3>4, <3>5 DEF TypeInv, RedactorTypeOK, Range
  <2>2. CASE RedactKey \/ RedactShape
    <3>0. PICK by \in Entries : \E at : Cut(at, by)
      BY <2>2, Steps
    <3>1. PICK at :
            /\ Cuts(cleaned, at) /\ Substitute(at, by)
            /\ step = "keys" /\ UNCHANGED <<text, sensitive, asks, flagged, step>>
            /\ \/ UNCHANGED next /\ \E key \in todo : todo' = todo \ {key}
               \/ next < Len(Patterns) + 1 /\ next' = next + 1 /\ UNCHANGED todo
      BY <3>0, Zenon DEF Cut
    <3>2. Mark \in InkOf(text) /\ InkOf(text)' = InkOf(text)
      BY <3>1 DEF InkOf, Range
    <3>3. cleaned' \in Seq(InkOf(text)) /\ redactions' \in Seq(Entries)
      BY <3>1, <3>2, SubstituteTypes DEF TypeInv, Cuts
    <3>4. Range(cleaned') \subseteq InkOf(text) /\ Range(redactions') \subseteq Entries
      BY <3>3, RangeOfSeq
    <3>5. next' \in 1..(Len(Patterns) + 1) /\ todo' \subseteq sensitive'
      BY <3>1, PatternAssumption DEF TypeInv, RedactorTypeOK
    <3>6. RedactorTypeOK'
      BY <3>1, <3>4, <3>5 DEF TypeInv, RedactorTypeOK, InkOf, Entries, Range
    <3>7. text' \in Seq(Range(text)') /\ sensitive' \subseteq Secrets /\ step' = "keys"
      BY <3>1 DEF TypeInv, Range
    <3> QED BY <3>2, <3>3, <3>6, <3>7 DEF TypeInv
  <2>3. CASE Structural
    BY <2>3 DEF Structural, TypeInv, RedactorTypeOK, InkOf, Range
  <2>4. CASE Judge
    BY <2>4 DEF Judge, TypeInv, RedactorTypeOK, InkOf, Range
  <2>5. CASE Return
    <3>1. ASSUME NEW S PROVE <<>> \in Seq(S)
      BY EmptySeq
    <3>2. 1 \in 1..(Len(Patterns) + 1) /\ Range(<<>>) = {}
      BY PatternAssumption DEF Range
    <3>3. /\ text' = <<>> /\ cleaned' = <<>> /\ redactions' = <<>> /\ sensitive' = {} /\ next' = 1
          /\ todo' = {} /\ asks' = FALSE /\ flagged' = FALSE /\ step' = "ready"
      BY <2>5 DEF Return, TypeInv
    <3>4. RedactorTypeOK'
      BY <3>2, <3>3 DEF RedactorTypeOK, Range
    <3>5. text' \in Seq(Range(text)') /\ cleaned' \in Seq(InkOf(text)') /\ redactions' \in Seq(Entries)
      BY <3>1, <3>3
    <3> QED BY <3>3, <3>4, <3>5 DEF TypeInv
  <2>6. CASE UNCHANGED redactor
    BY <2>6 DEF redactor, TypeInv, RedactorTypeOK, InkOf, Range
  <2> QED BY <2>1, <2>2, <2>3, <2>4, <2>5, <2>6 DEF RedactorNext, Redacting
<1> QED BY <1>1, <1>2, PTL DEF RedactorSpec

\* What the redactor's variables are, for texts and secrets of any length in any
\* alphabet: nothing comes into a text but the mark, and the log names only the
\* configured keys and the shapes there are.
THEOREM TypeCorrect ==
  ASSUME NEW Symbols, NEW Secrets, Texts \subseteq Seq(Symbols), Secrets \subseteq Seq(Symbols \ {Mark})
  PROVE  RedactorSpec(Secrets) => []RedactorTypeOK
<1>1. TypeInv(Secrets) => RedactorTypeOK
  BY DEF TypeInv
<1> QED BY <1>1, TypeInduction, PTL

-----------------------------------------------------------------------------
(* No key is left. *)

\* The secrets the first loop is done with are not in the text any more, and no
\* later substitution brings one back.
KeysInv ==
  step \in {"keys", "judge", "returned"} =>
    \A key \in (sensitive \ todo) \ {<<>>} : key \notin SubSeqs(cleaned)

LEMMA CutLeavesNoKey ==
  ASSUME NEW Symbols, NEW Secrets, Secrets \subseteq Seq(Symbols \ {Mark}),
         TypeInv(Secrets), KeysInv, NEW by \in Entries, NEW at, Cut(at, by)
  PROVE  KeysInv'
<1> DEFINE All == Symbols \cup InkOf(text)
<1>0. /\ cleaned \in Seq(All) /\ Mark \in All
      /\ \A key \in sensitive : key \in Seq(All \ {Mark}) /\ key \in Seq(All)
  <2>1. Symbols \ {Mark} \subseteq All \ {Mark} /\ Symbols \ {Mark} \subseteq All
    OBVIOUS
  <2>2. \A key \in sensitive : key \in Seq(Symbols \ {Mark})
    BY DEF TypeInv
  <2>3. \A key \in sensitive : key \in Seq(All \ {Mark}) /\ key \in Seq(All)
    BY <2>1, <2>2, SeqMonotonic
  <2> QED BY <2>3, SeqMonotonic DEF TypeInv, InkOf
<1> HIDE DEF All
<1>1. /\ step = "keys" /\ sensitive' = sensitive /\ Fits(cleaned, at)
      /\ (\E i \in DOMAIN at : at[i] > 0) => cleaned' = Sub(cleaned, at)
      /\ (~\E i \in DOMAIN at : at[i] > 0) => cleaned' = cleaned
  BY DEF Cut, Cuts, Substitute
<1> SUFFICES ASSUME NEW key \in sensitive, key \notin todo', key # <<>>
             PROVE  key \notin SubSeqs(cleaned')
  BY <1>1 DEF KeysInv
<1>2. CASE key \notin SubSeqs(cleaned)
  <2>1. key \notin SubSeqs(Sub(cleaned, at))
    BY <1>0, <1>1, <1>2, KeyStaysGone
  <2> QED BY <1>1, <1>2, <2>1
<1>3. CASE key \in SubSeqs(cleaned)
  <2>1. key \in todo
    BY <1>1, <1>3 DEF KeysInv
  <2>2. at = KeyAt(cleaned, key)
    BY <2>1 DEF Cut
  <2>3. key \notin SubSeqs(Sub(cleaned, at))
    BY <1>0, <2>2, KeyGone
  <2>4. \E i \in DOMAIN at : at[i] > 0
    <3>1. PICK i \in 1..Len(cleaned) : StandsAt(key, cleaned, i)
      BY <1>0, <1>3, Standing
    <3>2. at[i] = Len(key)
      BY <1>0, <2>2, <3>1, KeyFits
    <3>3. Len(key) > 0 /\ DOMAIN at = DOMAIN cleaned /\ DOMAIN cleaned = 1..Len(cleaned)
      BY <1>0, <1>1, EmptySeq, LenProperties DEF Fits
    <3> QED BY <3>1, <3>2, <3>3
  <2> QED BY <1>1, <2>3, <2>4
<1> QED BY <1>2, <1>3

\* No configured key is left in what the judge is shown or the caller gets,
\* whatever the keys, wherever they stand and overlap, in whatever order the
\* first loop comes to them, and whatever the shapes cut out behind it.
THEOREM KeysCorrect ==
  ASSUME NEW Symbols, NEW Secrets, Texts \subseteq Seq(Symbols), Secrets \subseteq Seq(Symbols \ {Mark})
  PROVE  RedactorSpec(Secrets) => []NoKeyLeft
<1>1. RedactorInit => KeysInv
  BY DEF RedactorInit, KeysInv
<1>2. TypeInv(Secrets) /\ KeysInv /\ [RedactorNext(Secrets)]_redactor => KeysInv'
  <2> SUFFICES ASSUME TypeInv(Secrets), KeysInv, [RedactorNext(Secrets)]_redactor PROVE KeysInv'
    OBVIOUS
  <2>1. CASE \E keys \in SUBSET Secrets : Redact(keys)
    BY <2>1 DEF Redact, KeysInv
  <2>2. CASE RedactKey \/ RedactShape
    <3>1. PICK by \in Entries : \E at : Cut(at, by)
      BY <2>2, Steps
    <3>2. PICK at : Cut(at, by)
      BY <3>1
    <3> QED BY <3>2, CutLeavesNoKey
  <2>3. CASE Structural
    BY <2>3 DEF Structural, KeysInv
  <2>4. CASE Judge
    BY <2>4 DEF Judge, KeysInv
  <2>5. CASE Return
    BY <2>5 DEF Return, KeysInv
  <2>6. CASE UNCHANGED redactor
    BY <2>6 DEF redactor, KeysInv
  <2> QED BY <2>1, <2>2, <2>3, <2>4, <2>5, <2>6 DEF RedactorNext, Redacting
<1>3. TypeInv(Secrets) /\ KeysInv => NoKeyLeft
  BY DEF TypeInv, KeysInv, NoKeyLeft
<1> QED BY <1>1, <1>2, <1>3, TypeInduction, PTL DEF RedactorSpec

-----------------------------------------------------------------------------
(* The log tells whether the text is as it came. *)

\* At the first place where the text was changed there is a mark that was not there.
Touched ==
  \E j \in 1..Len(cleaned) :
    /\ j <= Len(text) /\ cleaned[j] = Mark /\ text[j] # Mark
    /\ \A i \in 1..(j - 1) : cleaned[i] = text[i]

LogInv == (redactions = <<>> => cleaned = text) /\ (redactions # <<>> => Touched)

LEMMA CutIsLogged ==
  ASSUME NEW Secrets, TypeInv(Secrets), LogInv, NEW by \in Entries, NEW at, Cut(at, by)
  PROVE  LogInv'
<1> DEFINE All == InkOf(text)
<1>0. /\ cleaned \in Seq(All) /\ Len(cleaned) \in Nat /\ Len(text) \in Nat
  BY LenProperties DEF TypeInv
<1> HIDE DEF All
<1>1. CASE ~\E i \in DOMAIN at : at[i] > 0
  BY <1>1 DEF Cut, Substitute, LogInv, Touched
<1>2. CASE \E i \in DOMAIN at : at[i] > 0
  <2>1. /\ cleaned' = Sub(cleaned, at) /\ redactions' = Append(redactions, by) /\ text' = text
        /\ Cuts(cleaned, at)
    BY <1>2 DEF Cut, Substitute
  <2>2. redactions' # <<>>
    BY <2>1, AppendProperties DEF TypeInv
  <2>3. PICK i \in 1..Len(cleaned) :
          /\ at[i] > 0 /\ i <= Len(cleaned') /\ cleaned'[i] = Mark
          /\ \A j \in 1..(i - 1) : at[j] = 0 /\ cleaned'[j] = cleaned[j]
    BY <1>0, <1>2, <2>1, FirstMatch DEF Cuts
  <2>4. cleaned[i] # Mark
    BY <2>1, <2>3 DEF Cuts
  <2>5. Len(cleaned') \in Nat
    <3>1. cleaned' \in Seq(All)
      BY <1>0, <2>1, SubType DEF All, Cuts, InkOf
    <3> QED BY <3>1, LenProperties
  <2>6. CASE redactions = <<>>
    <3>1. cleaned = text
      BY <2>6 DEF LogInv
    <3> QED BY <1>0, <2>1, <2>2, <2>3, <2>4, <2>5, <3>1 DEF LogInv, Touched
  <2>7. CASE redactions # <<>>
    <3>1. PICK j \in 1..Len(cleaned) :
            /\ j <= Len(text) /\ cleaned[j] = Mark /\ text[j] # Mark
            /\ \A k \in 1..(j - 1) : cleaned[k] = text[k]
      BY <2>7 DEF LogInv, Touched
    <3>2. CASE i < j
      <4>1. /\ i \in 1..(j - 1) /\ i \in 1..Len(cleaned') /\ i <= Len(text)
            /\ \A k \in 1..(i - 1) : k \in 1..(j - 1)
        BY <1>0, <2>3, <2>5, <3>1, <3>2
      <4>2. text[i] # Mark /\ \A k \in 1..(i - 1) : cleaned'[k] = text[k]
        BY <2>3, <2>4, <3>1, <4>1
      <4> QED BY <2>1, <2>2, <2>3, <4>1, <4>2 DEF LogInv, Touched
    <3>3. CASE j < i
      <4>1. /\ j \in 1..(i - 1) /\ j \in 1..Len(cleaned')
            /\ \A k \in 1..(j - 1) : k \in 1..(i - 1)
        BY <1>0, <2>3, <2>5, <3>1, <3>3
      <4>2. cleaned'[j] = Mark /\ \A k \in 1..(j - 1) : cleaned'[k] = text[k]
        BY <2>3, <3>1, <4>1
      <4> QED BY <2>1, <2>2, <3>1, <4>1, <4>2 DEF LogInv, Touched
    <3>4. i # j
      BY <2>4, <3>1
    <3> QED BY <1>0, <3>2, <3>3, <3>4
  <2> QED BY <2>6, <2>7
<1> QED BY <1>1, <1>2

\* log_safe is as good as comparing the two texts: no change of a text, by
\* whatever keys and shapes, goes unlogged, and none is logged that was undone
\* by a later one, also where the text came with a mark in it.
THEOREM LogCorrect ==
  ASSUME NEW Symbols, NEW Secrets, Texts \subseteq Seq(Symbols), Secrets \subseteq Seq(Symbols \ {Mark})
  PROVE  RedactorSpec(Secrets) => []LogSafeIfUntouched
<1>1. RedactorInit => LogInv
  BY DEF RedactorInit, LogInv
<1>2. TypeInv(Secrets) /\ LogInv /\ [RedactorNext(Secrets)]_redactor => LogInv'
  <2> SUFFICES ASSUME TypeInv(Secrets), LogInv, [RedactorNext(Secrets)]_redactor PROVE LogInv'
    OBVIOUS
  <2>1. CASE \E keys \in SUBSET Secrets : Redact(keys)
    BY <2>1 DEF Redact, LogInv
  <2>2. CASE RedactKey \/ RedactShape
    <3>1. PICK by \in Entries : \E at : Cut(at, by)
      BY <2>2, Steps
    <3>2. PICK at : Cut(at, by)
      BY <3>1
    <3> QED BY <3>2, CutIsLogged
  <2>3. CASE Structural
    BY <2>3 DEF Structural, LogInv, Touched
  <2>4. CASE Judge
    BY <2>4 DEF Judge, LogInv, Touched
  <2>5. CASE Return
    BY <2>5 DEF Return, LogInv
  <2>6. CASE UNCHANGED redactor
    BY <2>6 DEF redactor, LogInv, Touched
  <2> QED BY <2>1, <2>2, <2>3, <2>4, <2>5, <2>6 DEF RedactorNext, Redacting
<1>3. LogInv => LogSafeIfUntouched
  BY DEF LogInv, Touched, LogSafeIfUntouched, LogSafe
<1> QED BY <1>1, <1>2, <1>3, TypeInduction, PTL DEF RedactorSpec

-----------------------------------------------------------------------------
(* What is in no secret and in no shape gets through. *)

\* Kept from place i on, if kept says so of the next place.
KeptFrom(s, symbols, kept, i) ==
  IF i > Len(s) THEN <<>>
  ELSE IF s[i] \in symbols THEN <<s[i]>> \o kept[i + 1]
  ELSE kept[i + 1]

LEMMA KeptExists ==
  ASSUME NEW S, NEW s \in Seq(S), NEW symbols
  PROVE  \E kept : kept = [i \in 1..(Len(s) + 1) |-> KeptFrom(s, symbols, kept, i)]
<1> DEFINE n == Len(s) + 1
           From(m, kept) == kept = [i \in m..n |-> KeptFrom(s, symbols, kept, i)]
           Bad == {m \in 1..n : ~\E kept : From(m, kept)}
<1>0. Len(s) \in Nat /\ n \in Nat \ {0}
  BY LenProperties
<1>1. SUFFICES ASSUME Bad # {} PROVE FALSE
  <2>1. 1 \in 1..n BY <1>0
  <2>2. \E kept : From(1, kept) BY <1>1, <2>1
  <2> QED BY <2>2
<1>2. PICK m \in Bad : \A k \in Bad : k <= m
  BY <1>0, <1>1, LastPlace
<1>3. CASE m = n
  <2>1. From(n, [i \in n..n |-> <<>>])
    BY <1>0 DEF KeptFrom
  <2> QED BY <1>2, <1>3, <2>1
<1>4. CASE m # n
  <2>1. m + 1 \in 1..n /\ m + 1 \notin Bad /\ m \in 1..Len(s)
    BY <1>0, <1>2, <1>4
  <2>2. PICK kept : From(m + 1, kept)
    BY <2>1
  <2> DEFINE more == [i \in m..n |-> IF i = m THEN KeptFrom(s, symbols, kept, m) ELSE kept[i]]
  <2>3. \A i \in (m + 1)..n : more[i] = kept[i]
    BY <1>0, <2>1
  <2>4. \A i \in m..n : KeptFrom(s, symbols, more, i) = KeptFrom(s, symbols, kept, i)
    <3> SUFFICES ASSUME NEW i \in m..n
                 PROVE  KeptFrom(s, symbols, more, i) = KeptFrom(s, symbols, kept, i)
      OBVIOUS
    <3>1. CASE i > Len(s)
      BY <3>1 DEF KeptFrom
    <3>2. CASE i <= Len(s)
      <4>1. i + 1 \in (m + 1)..n
        BY <1>0, <2>1, <3>2
      <4> HIDE DEF more
      <4> QED BY <2>3, <4>1 DEF KeptFrom
    <3> QED BY <1>0, <2>1, <3>1, <3>2
  <2>5. \A i \in m..n : more[i] = KeptFrom(s, symbols, kept, i)
    <3> SUFFICES ASSUME NEW i \in m..n, i # m PROVE more[i] = KeptFrom(s, symbols, kept, i)
      OBVIOUS
    <3>1. i \in (m + 1)..n
      BY <1>0, <2>1
    <3> QED BY <2>2, <2>3, <3>1
  <2>6. From(m, more)
    <3>1. more = [i \in m..n |-> more[i]]
      OBVIOUS
    <3> HIDE DEF more
    <3> QED BY <2>4, <2>5, <3>1
  <2> QED BY <1>2, <2>6
<1> QED BY <1>3, <1>4

Keeps(s, symbols, kept) ==
  /\ kept[Len(s) + 1] = <<>>
  /\ \A i \in 1..Len(s) : /\ s[i] \in symbols => kept[i] = Before(s[i], kept[i + 1])
                          /\ s[i] \notin symbols => kept[i] = kept[i + 1]

LEMMA KeptUnfolds ==
  ASSUME NEW S, NEW s \in Seq(S), NEW symbols
  PROVE  \E kept : Kept(s, symbols) = kept[1] /\ Keeps(s, symbols, kept)
<1>0. Len(s) \in Nat
  BY LenProperties
<1>1. \E kept : kept = [i \in 1..(Len(s) + 1) |-> KeptFrom(s, symbols, kept, i)]
  BY KeptExists
<1>2. PICK kept : /\ kept = [i \in 1..(Len(s) + 1) |-> KeptFrom(s, symbols, kept, i)]
                  /\ Kept(s, symbols) = kept[1]
  BY <1>1 DEF Kept, KeptFrom
<1>3. \A i \in 1..(Len(s) + 1) : kept[i] = KeptFrom(s, symbols, kept, i)
  BY <1>2
<1>4. kept[Len(s) + 1] = <<>>
  <2>1. Len(s) + 1 \in 1..(Len(s) + 1) /\ Len(s) + 1 > Len(s)
    BY <1>0
  <2> QED BY <1>3, <2>1, Zenon DEF KeptFrom
<1>5. ASSUME NEW i \in 1..Len(s)
      PROVE  /\ s[i] \in symbols => kept[i] = Before(s[i], kept[i + 1])
             /\ s[i] \notin symbols => kept[i] = kept[i + 1]
  <2>1. i \in 1..(Len(s) + 1) /\ ~(i > Len(s))
    BY <1>0
  <2> QED BY <1>3, <2>1, Zenon DEF KeptFrom, Before
<1>6. Keeps(s, symbols, kept)
  BY <1>4, <1>5 DEF Keeps
<1> QED BY <1>2, <1>6

LEMMA KeptOfNothing ==
  ASSUME NEW symbols
  PROVE  Kept(<<>>, symbols) = <<>>
<1>1. <<>> \in Seq({}) /\ Len(<<>>) = 0
  BY EmptySeq
<1>2. PICK kept : Kept(<<>>, symbols) = kept[1] /\ Keeps(<<>>, symbols, kept)
  BY <1>1, KeptUnfolds
<1> QED BY <1>1, <1>2 DEF Keeps

\* Keeping goes symbol by symbol.
LEMMA KeptOfMore ==
  ASSUME NEW S, NEW x \in S, NEW r \in Seq(S), NEW symbols
  PROVE  /\ x \in symbols => Kept(Before(x, r), symbols) = Before(x, Kept(r, symbols))
         /\ x \notin symbols => Kept(Before(x, r), symbols) = Kept(r, symbols)
<1> DEFINE s == Before(x, r)
           n == Len(r) + 1
<1>0. /\ s \in Seq(S) /\ Len(s) = n /\ n \in Nat \ {0} /\ s[1] = x /\ Len(r) \in Nat
      /\ \A p \in 1..Len(r) : s[p + 1] = r[p]
  <2>1. <<x>> \in Seq(S) /\ Len(<<x>>) = 1 /\ Len(r) \in Nat /\ <<x>>[1] = x
    BY LenProperties
  <2>2. /\ s \in Seq(S) /\ Len(s) = 1 + Len(r)
        /\ \A p \in 1..(1 + Len(r)) : s[p] = IF p <= 1 THEN <<x>>[p] ELSE r[p - 1]
    BY <2>1, ConcatProperties DEF Before
  <2> HIDE DEF s
  <2>3. s[1] = x
    <3>1. 1 \in 1..(1 + Len(r)) BY <2>1
    <3> QED BY <2>1, <2>2, <3>1
  <2>4. ASSUME NEW p \in 1..Len(r) PROVE s[p + 1] = r[p]
    <3>1. p + 1 \in 1..(1 + Len(r)) /\ ~(p + 1 <= 1) /\ (p + 1) - 1 = p BY <2>1
    <3> QED BY <2>2, <3>1
  <2> QED BY <2>1, <2>2, <2>3, <2>4
<1> HIDE DEF s
<1>1. PICK a : Kept(s, symbols) = a[1] /\ Keeps(s, symbols, a)
  BY <1>0, KeptUnfolds
<1>2. PICK b : Kept(r, symbols) = b[1] /\ Keeps(r, symbols, b)
  BY KeptUnfolds
<1> DEFINE Bad == {i \in 1..n : a[i + 1] # b[i]}
<1>3. \A i \in 1..n : a[i + 1] = b[i]
  <2> SUFFICES ASSUME Bad # {} PROVE FALSE
    OBVIOUS
  <2>1. PICK i \in Bad : \A j \in Bad : j <= i
    BY <1>0, LastPlace
  <2>2. CASE i = n
    BY <1>0, <1>1, <1>2, <2>1, <2>2 DEF Keeps
  <2>3. CASE i # n
    <3>1. i \in 1..Len(r) /\ i + 1 \in 1..Len(s) /\ i + 1 \in 1..n /\ ~(i + 1 <= i) /\ s[i + 1] = r[i]
      BY <1>0, <2>3
    <3>2. a[(i + 1) + 1] = b[i + 1]
      <4>1. i + 1 \notin Bad
        BY <2>1, <3>1
      <4> QED BY <3>1, <4>1
    <3>3. a[i + 1] = b[i]
      BY <1>1, <1>2, <3>1, <3>2, Zenon DEF Keeps
    <3> QED BY <2>1, <3>3
  <2> QED BY <2>2, <2>3
<1>4. a[1 + 1] = b[1] /\ 1 \in 1..Len(s)
  BY <1>0, <1>3
<1>5. /\ x \in symbols => a[1] = Before(x, a[1 + 1])
      /\ x \notin symbols => a[1] = a[1 + 1]
  BY <1>0, <1>1, <1>4, Zenon DEF Keeps
<1> QED BY <1>1, <1>2, <1>4, <1>5, Zenon DEF s

\* Cutting out what is not to be kept changes nothing of what is.
LEMMA KeptOfSub ==
  ASSUME NEW S, NEW t \in Seq(S), Mark \in S, NEW at, Fits(t, at), NEW symbols, Mark \notin symbols,
         \A i \in 1..Len(t) : \A j \in i..(i + at[i] - 1) : t[j] \notin symbols
  PROVE  Kept(Sub(t, at), symbols) = Kept(t, symbols)
<1> DEFINE n == Len(t) + 1
<1>0. /\ Len(t) \in Nat /\ n \in Nat \ {0} /\ DOMAIN t = 1..Len(t)
      /\ \A i \in 1..Len(t) : t[i] \in S
  BY LenProperties, ElementOfSeq
<1>1. PICK rest : Sub(t, at) = rest[1] /\ Unfolds(t, at, rest)
  BY SubUnfolds
<1>2. PICK kept : Kept(t, symbols) = kept[1] /\ Keeps(t, symbols, kept)
  BY KeptUnfolds
<1>3. \A i \in 1..n : rest[i] \in Seq(S)
  BY <1>1, RestType
<1>4. ASSUME NEW i \in 1..Len(t) PROVE kept[i] = kept[i + at[i]]
  <2>0. at[i] \in Nat /\ i + at[i] <= n
    BY <1>0 DEF Fits
  <2> DEFINE Bad == {m \in 0..at[i] : kept[i + at[i] - m] # kept[i + at[i]]}
  <2>1. Bad = {}
    <3> SUFFICES ASSUME Bad # {} PROVE FALSE
      OBVIOUS
    <3>1. Bad \subseteq Nat
      BY <2>0
    <3>2. PICK m \in Bad : \A k \in Bad : m <= k
      <4> HIDE DEF Bad
      <4> QED BY <3>1, Least
    <3>3. m \in 0..at[i] /\ kept[i + at[i] - m] # kept[i + at[i]]
      BY <3>2
    <3>4. m # 0
      BY <1>0, <2>0, <3>3
    <3>5. m - 1 \in 0..at[i] /\ m - 1 \notin Bad
      <4>1. m - 1 \in 0..at[i] /\ ~(m <= m - 1)
        BY <2>0, <3>3, <3>4
      <4> HIDE DEF Bad
      <4> QED BY <3>2, <4>1
    <3> DEFINE j == i + at[i] - m
    <3>6. /\ j \in 1..Len(t) /\ j \in i..(i + at[i] - 1)
          /\ i + at[i] - (m - 1) = j + 1
      <4> HIDE DEF Bad
      <4>1. \A e \in Nat : m \in 0..e /\ i + e <= Len(t) + 1 =>
              /\ i + e - m \in 1..Len(t) /\ i + e - m \in i..(i + e - 1)
              /\ i + e - (m - 1) = (i + e - m) + 1
        BY <1>0, <3>4
      <4> QED BY <2>0, <3>3, <4>1
    <3>7. kept[j + 1] = kept[i + at[i]]
      BY <3>5, <3>6
    <3>8. kept[j] = kept[j + 1]
      <4> HIDE DEF j
      <4>1. t[j] \notin symbols
        BY <3>6
      <4> QED BY <1>2, <3>6, <4>1, Zenon DEF Keeps
    <3> QED BY <3>3, <3>7, <3>8
  <2>2. at[i] \in 0..at[i] /\ i + at[i] - at[i] = i
    BY <1>0, <2>0
  <2> QED BY <2>1, <2>2
<1>4a. /\ rest[n] = <<>>
       /\ \A i \in 1..Len(t) : at[i] > 0 => rest[i] = Before(Mark, rest[i + at[i]])
       /\ \A i \in 1..Len(t) : at[i] = 0 => rest[i] = Before(t[i], rest[i + 1])
  BY <1>1 DEF Unfolds
<1> DEFINE Bad == {i \in 1..n : Kept(rest[i], symbols) # kept[i]}
<1>5. \A i \in 1..n : Kept(rest[i], symbols) = kept[i]
  <2> SUFFICES ASSUME Bad # {} PROVE FALSE
    OBVIOUS
  <2>1. PICK i \in Bad : \A j \in Bad : j <= i
    BY <1>0, LastPlace
  <2>2. i \in 1..n /\ Kept(rest[i], symbols) # kept[i]
    BY <2>1
  <2>3. \A k \in (i + 1)..n : Kept(rest[k], symbols) = kept[k]
    BY <1>0, <2>1, <2>2
  <2>4. i # n
    <3>1. rest[n] = <<>> /\ kept[n] = <<>>
      BY <1>0, <1>2, <1>4a DEF Keeps
    <3> QED BY <2>2, <3>1, KeptOfNothing
  <2> HIDE DEF Bad
  <2>5. i \in 1..Len(t) /\ at[i] \in Nat /\ i + at[i] <= n
    <3>1. i \in 1..Len(t)
      BY <1>0, <2>2, <2>4
    <3> QED BY <1>0, <3>1 DEF Fits
  <2>6. CASE at[i] > 0
    <3>1. rest[i] = Before(Mark, rest[i + at[i]])
      BY <1>4a, <2>5, <2>6
    <3>2. i + at[i] \in (i + 1)..n /\ i + at[i] \in 1..n
      BY <1>0, <2>5, <2>6
    <3>3. rest[i + at[i]] \in Seq(S)
      BY <1>3, <3>2
    <3>4. Kept(Before(Mark, rest[i + at[i]]), symbols) = Kept(rest[i + at[i]], symbols)
      BY <3>3, KeptOfMore
    <3>5. Kept(rest[i], symbols) = kept[i + at[i]]
      BY <2>3, <3>1, <3>2, <3>4
    <3> QED BY <1>4, <2>2, <2>5, <3>5
  <2>7. CASE at[i] = 0
    <3>1. rest[i] = Before(t[i], rest[i + 1])
      BY <1>4a, <2>5, <2>7
    <3>2. i + 1 \in (i + 1)..n /\ i + 1 \in 1..n
      BY <1>0, <2>5
    <3>3. rest[i + 1] \in Seq(S) /\ t[i] \in S
      BY <1>0, <1>3, <2>5, <3>2
    <3>4. /\ t[i] \in symbols =>
               Kept(Before(t[i], rest[i + 1]), symbols) = Before(t[i], Kept(rest[i + 1], symbols))
          /\ t[i] \notin symbols => Kept(Before(t[i], rest[i + 1]), symbols) = Kept(rest[i + 1], symbols)
      BY <3>3, KeptOfMore
    <3>5. Kept(rest[i + 1], symbols) = kept[i + 1]
      BY <2>3, <3>2
    <3> QED BY <1>2, <2>2, <2>5, <3>1, <3>4, <3>5, Zenon DEF Keeps
  <2> QED BY <2>5, <2>6, <2>7
<1>6. 1 \in 1..n
  BY <1>0
<1> QED BY <1>1, <1>2, <1>5, <1>6

\* What a key or a shape takes with it is not plain.
LEMMA CutTakesNothingPlain ==
  ASSUME NEW Symbols, NEW Secrets, Secrets \subseteq Seq(Symbols \ {Mark}),
         TypeInv(Secrets), NEW by \in Entries, NEW at, Cut(at, by)
  PROVE  \A i \in 1..Len(cleaned) : \A j \in i..(i + at[i] - 1) : cleaned[j] \notin Plain
<1> DEFINE All == Symbols \cup InkOf(text)
<1>0. /\ cleaned \in Seq(All) /\ Len(cleaned) \in Nat /\ DOMAIN cleaned = 1..Len(cleaned)
      /\ \A key \in sensitive : key \in Seq(All)
  <2>1. \A key \in sensitive : key \in Seq(Symbols \ {Mark})
    BY DEF TypeInv
  <2>2. \A key \in sensitive : key \in Seq(All)
    BY <2>1, SeqMonotonic
  <2>3. cleaned \in Seq(All)
    BY SeqMonotonic DEF TypeInv
  <2> QED BY <2>2, <2>3, LenProperties
<1> HIDE DEF All
<1>1. Fits(cleaned, at)
  BY DEF Cut, Cuts
<1> SUFFICES ASSUME NEW i \in 1..Len(cleaned), NEW j \in i..(i + at[i] - 1)
             PROVE  cleaned[j] \notin Plain
  OBVIOUS
<1>2. at[i] \in Nat
  BY <1>0, <1>1 DEF Fits
<1>3. at[i] > 0
  BY <1>0, <1>2
<1>4. CASE \E key \in todo : at = KeyAt(cleaned, key)
  <2>1. PICK key \in todo : at = KeyAt(cleaned, key)
    BY <1>4
  <2>2. key \in sensitive /\ key \in Seq(All) /\ Len(key) \in Nat
    BY <1>0, LenProperties DEF TypeInv, RedactorTypeOK
  <2>3. StandsAt(key, cleaned, i) /\ at[i] = Len(key)
    BY <1>0, <1>3, <2>1, <2>2, KeyFits
  <2>4. j - i + 1 \in 1..Len(key) /\ i + (j - i + 1) - 1 = j
    BY <1>0, <2>2, <2>3
  <2>5. cleaned[j] = key[j - i + 1]
    BY <2>3, <2>4 DEF StandsAt
  <2>6. cleaned[j] \in Range(key)
    BY <2>2, <2>4, <2>5, LenProperties DEF Range
  <2> QED BY <2>2, <2>6 DEF Plain
<1>5. CASE next \in DOMAIN Patterns /\ at = ShapeAt(cleaned, Patterns[next])
  <2>1. /\ cleaned[i] = Patterns[next].head
        /\ \A k \in (i + 1)..(i + at[i] - 1) : cleaned[k] \in Patterns[next].body
    BY <1>0, <1>3, <1>5, ShapeFits
  <2>2. j = i \/ j \in (i + 1)..(i + at[i] - 1)
    BY <1>0, <1>2
  <2> QED BY <1>5, <2>1, <2>2 DEF Plain
<1> QED BY <1>4, <1>5 DEF Cut

\* Whatever the texts, the keys and the shapes: nothing but keys and shapes is
\* cut out of a text, and nothing changes its place.
THEOREM RestCorrect ==
  ASSUME NEW Symbols, NEW Secrets, Texts \subseteq Seq(Symbols), Secrets \subseteq Seq(Symbols \ {Mark})
  PROVE  RedactorSpec(Secrets) => []RestUntouched
<1>1. RedactorInit => RestUntouched
  BY DEF RedactorInit, RestUntouched
<1>2. TypeInv(Secrets) /\ RestUntouched /\ [RedactorNext(Secrets)]_redactor => RestUntouched'
  <2> SUFFICES ASSUME TypeInv(Secrets), RestUntouched, [RedactorNext(Secrets)]_redactor
               PROVE  RestUntouched'
    OBVIOUS
  <2>1. CASE cleaned' = text'
    BY <2>1 DEF RestUntouched
  <2>2. CASE UNCHANGED <<text, sensitive, cleaned>>
    BY <2>2 DEF RestUntouched, Plain
  <2>3. CASE RedactKey \/ RedactShape
    <3>1. PICK by \in Entries : \E at : Cut(at, by)
      BY <2>3, Steps
    <3>2. PICK at : Cut(at, by)
      BY <3>1
    <3>3. Fits(cleaned, at) /\ Substitute(at, by) /\ UNCHANGED <<text, sensitive>>
      BY <3>2 DEF Cut, Cuts
    <3>4. CASE cleaned' = Sub(cleaned, at)
      <4>1. cleaned \in Seq(InkOf(text)) /\ Mark \in InkOf(text) /\ Mark \notin Plain
        BY DEF TypeInv, InkOf, Plain
      <4>2. \A i \in 1..Len(cleaned) : \A j \in i..(i + at[i] - 1) : cleaned[j] \notin Plain
        BY <3>2, CutTakesNothingPlain
      <4>3. Kept(Sub(cleaned, at), Plain) = Kept(cleaned, Plain)
        BY <3>3, <4>1, <4>2, KeptOfSub
      <4>4. Plain' = Plain
        BY <3>3 DEF Plain
      <4> QED BY <3>3, <3>4, <4>3, <4>4 DEF RestUntouched
    <3> QED BY <2>2, <3>3, <3>4 DEF Substitute
  <2>4. CASE (\E keys \in SUBSET Secrets : Redact(keys)) \/ Return
    BY <2>1, <2>4 DEF Redact, Return
  <2>5. CASE Structural \/ Judge \/ UNCHANGED redactor
    BY <2>2, <2>5 DEF Structural, Judge, redactor
  <2> QED BY <2>3, <2>4, <2>5 DEF RedactorNext, Redacting
<1> QED BY <1>1, <1>2, TypeInduction, PTL DEF RedactorSpec

-----------------------------------------------------------------------------
(* The order of the secrets does not matter. *)

\* str.replace.
Replace(t, key) == Sub(t, KeyAt(t, key))

\* Nothing to replace, nothing changes.
LEMMA SubNothing ==
  ASSUME NEW S, NEW t \in Seq(S), Mark \in S, NEW at, Fits(t, at), \A i \in 1..Len(t) : at[i] = 0
  PROVE  Sub(t, at) = t
<1>1. PICK rest : Sub(t, at) = rest[1] /\ Unfolds(t, at, rest)
  BY SubUnfolds
<1>1a. ASSUME NEW i \in 1..Len(t)
       PROVE  /\ Len(rest[i]) = Len(rest[i + 1]) + 1
              /\ \A p \in 1..Len(rest[i + 1]) : rest[i][p + 1] = rest[i + 1][p]
              /\ rest[i][1] = t[i]
  <2>1. PICK k \in (i + 1)..(Len(t) + 1) :
          /\ Len(rest[i]) = Len(rest[k]) + 1
          /\ \A p \in 1..Len(rest[k]) : rest[i][p + 1] = rest[k][p]
          /\ at[i] = 0 => k = i + 1 /\ rest[i][1] = t[i]
    BY <1>1, RestStep
  <2> QED BY <2>1
<1> DEFINE n == Len(t) + 1
           Holds(i) == Len(rest[i]) = n - i /\ \A p \in 1..(n - i) : rest[i][p] = t[i + p - 1]
           Bad == {i \in 1..n : ~Holds(i)}
<1>0. Len(t) \in Nat /\ n \in Nat \ {0} /\ 1 \in 1..n /\ n - 1 = Len(t)
  BY LenProperties
<1>2. \A i \in 1..n : Holds(i)
  <2> HIDE DEF Holds
  <2> SUFFICES ASSUME Bad # {} PROVE FALSE
    OBVIOUS
  <2>1. PICK i \in Bad : \A j \in Bad : j <= i
    BY <1>0, LastPlace
  <2>2. i \in 1..n /\ ~Holds(i)
    BY <2>1
  <2> HIDE DEF Bad
  <2> USE DEF Holds
  <2>3. CASE i = n
    <3>1. Len(rest[i]) = 0 /\ n - i = 0 /\ 1..(n - i) = {}
      BY <1>0, <1>1, <2>3, RestStep, EmptySeq
    <3> QED BY <2>2, <3>1
  <2>4. CASE i # n
    <3>1. i \in 1..Len(t) /\ i + 1 \in 1..n /\ ~(i + 1 <= i)
      BY <1>0, <2>2, <2>4
    <3>2. Holds(i + 1)
      <4> HIDE DEF Holds
      <4> QED BY <2>1, <3>1 DEF Bad
    <3>3. /\ Len(rest[i]) = Len(rest[i + 1]) + 1
          /\ \A p \in 1..Len(rest[i + 1]) : rest[i][p + 1] = rest[i + 1][p]
          /\ rest[i][1] = t[i]
      BY <1>1a, <3>1
    <3>4. Len(rest[i]) = n - i
      BY <1>0, <3>1, <3>2, <3>3
    <3>5. ASSUME NEW p \in 1..(n - i) PROVE rest[i][p] = t[i + p - 1]
      <4>1. CASE p = 1
        BY <3>1, <3>3, <4>1
      <4>2. CASE p # 1
        <5>1. /\ p - 1 \in 1..(n - (i + 1)) /\ (p - 1) + 1 = p /\ (i + 1) + (p - 1) - 1 = i + p - 1
              /\ p - 1 \in 1..Len(rest[i + 1])
          BY <1>0, <3>1, <3>2, <4>2
        <5>2. rest[i + 1][p - 1] = t[(i + 1) + (p - 1) - 1]
          BY <3>2, <5>1
        <5>3. rest[i][(p - 1) + 1] = rest[i + 1][p - 1]
          BY <3>3, <5>1
        <5> QED BY <5>1, <5>2, <5>3
      <4> QED BY <4>1, <4>2
    <3> QED BY <2>2, <3>4, <3>5
  <2> QED BY <2>3, <2>4
<1>3. Len(rest[1]) = Len(t) /\ \A p \in 1..Len(t) : rest[1][p] = t[p]
  <2>1. \A p \in 1..Len(t) : 1 + p - 1 = p
    BY <1>0
  <2> QED BY <1>0, <1>2, <2>1
<1>4. rest[1] \in Seq(S)
  BY <1>0, <1>1, RestType
<1> QED BY <1>1, <1>3, <1>4, SeqEqual

\* s is w and then r.
Joined(w, r, s) ==
  /\ Len(s) = Len(w) + Len(r)
  /\ \A i \in 1..Len(w) : s[i] = w[i]
  /\ \A i \in 1..Len(r) : s[Len(w) + i] = r[i]

LEMMA Joining ==
  ASSUME NEW S, NEW w \in Seq(S), NEW r \in Seq(S)
  PROVE  w \o r \in Seq(S) /\ Joined(w, r, w \o r)
<1> DEFINE s == w \o r
<1>0. /\ Len(w) \in Nat /\ Len(r) \in Nat /\ s \in Seq(S) /\ Len(s) = Len(w) + Len(r)
      /\ \A q \in 1..(Len(w) + Len(r)) : s[q] = IF q <= Len(w) THEN w[q] ELSE r[q - Len(w)]
  BY LenProperties, ConcatProperties
<1> HIDE DEF s
<1>1. ASSUME NEW i \in 1..Len(w) PROVE s[i] = w[i]
  <2>1. i \in 1..(Len(w) + Len(r)) /\ i <= Len(w)
    BY <1>0
  <2> QED BY <1>0, <2>1
<1>2. ASSUME NEW i \in 1..Len(r) PROVE s[Len(w) + i] = r[i]
  <2>1. /\ Len(w) + i \in 1..(Len(w) + Len(r)) /\ ~(Len(w) + i <= Len(w))
        /\ Len(w) + i - Len(w) = i
    BY <1>0
  <2> QED BY <1>0, <2>1
<1>3. s \in Seq(S) /\ Joined(w, r, s)
  BY <1>0, <1>1, <1>2 DEF Joined
<1> QED BY <1>3 DEF s

\* What stands behind w stands there whatever w is, and is replaced there.
LEMMA StandsBehind ==
  ASSUME NEW S, NEW w \in Seq(S), NEW r \in Seq(S), NEW s \in Seq(S), Joined(w, r, s),
         NEW key \in Seq(S), NEW i \in 1..Len(r)
  PROVE  StandsAt(key, s, Len(w) + i) <=> StandsAt(key, r, i)
<1>0. Len(w) \in Nat /\ Len(r) \in Nat /\ Len(key) \in Nat
  BY LenProperties
<1>1. ASSUME NEW p \in 1..Len(key), i + Len(key) - 1 <= Len(r)
      PROVE  s[Len(w) + i + p - 1] = r[i + p - 1]
  <2>1. i + p - 1 \in 1..Len(r) /\ Len(w) + (i + p - 1) = Len(w) + i + p - 1
    BY <1>0, <1>1
  <2>2. s[Len(w) + (i + p - 1)] = r[i + p - 1]
    BY <2>1 DEF Joined
  <2> QED BY <2>1, <2>2
<1>2. Len(w) + i + Len(key) - 1 <= Len(s) <=> i + Len(key) - 1 <= Len(r)
  BY <1>0 DEF Joined
<1> QED BY <1>1, <1>2 DEF StandsAt

LEMMA ReplaceBehind ==
  ASSUME NEW S, NEW w \in Seq(S), NEW r \in Seq(S), NEW s \in Seq(S), Joined(w, r, s),
         NEW key \in Seq(S), key # <<>>, NEW rest, Unfolds(s, KeyAt(s, key), rest)
  PROVE  rest[Len(w) + 1] = Replace(r, key)
<1> DEFINE n == Len(r) + 1
           l == Len(w)
           a == KeyAt(s, key)
           b == KeyAt(r, key)
<1>0. /\ l \in Nat /\ Len(r) \in Nat /\ n \in Nat \ {0} /\ Len(s) = l + Len(r)
      /\ \A i \in 1..Len(r) : s[l + i] = r[i]
  <2>1. l \in Nat /\ Len(r) \in Nat
    BY LenProperties
  <2>2. Len(s) = l + Len(r) /\ \A i \in 1..Len(r) : s[l + i] = r[i]
    BY Zenon DEF Joined
  <2> QED BY <2>1, <2>2
<1>1. Fits(s, a) /\ Fits(r, b)
  BY KeyFits
<1>2. \A i \in 1..Len(r) : a[l + i] = b[i]
  <2> SUFFICES ASSUME NEW i \in 1..Len(r) PROVE a[l + i] = b[i]
    OBVIOUS
  <2>1. l + i \in 1..Len(s)
    BY <1>0
  <2>2. StandsAt(key, s, l + i) <=> StandsAt(key, r, i)
    BY StandsBehind
  <2>3. a[l + i] = IF StandsAt(key, s, l + i) THEN Len(key) ELSE 0
    BY <1>0, <2>1, KeyFits
  <2>4. b[i] = IF StandsAt(key, r, i) THEN Len(key) ELSE 0
    BY KeyFits
  <2> QED BY <2>2, <2>3, <2>4
<1>3. PICK own : Replace(r, key) = own[1] /\ Unfolds(r, b, own)
  BY <1>1, SubUnfolds DEF Replace
<1>4. /\ rest[Len(s) + 1] = <<>>
      /\ \A i \in 1..Len(s) : /\ a[i] > 0 => rest[i] = <<Mark>> \o rest[i + a[i]]
                              /\ a[i] = 0 => rest[i] = <<s[i]>> \o rest[i + 1]
  BY DEF Unfolds, Before
<1>5. /\ own[n] = <<>>
      /\ \A i \in 1..Len(r) : /\ b[i] > 0 => own[i] = <<Mark>> \o own[i + b[i]]
                              /\ b[i] = 0 => own[i] = <<r[i]>> \o own[i + 1]
  BY <1>3 DEF Unfolds, Before
<1>6. \A i \in 1..Len(r) : b[i] \in Nat /\ i + b[i] <= n
  <2>1. DOMAIN r = 1..Len(r)
    BY LenProperties
  <2> QED BY <1>1, <2>1 DEF Fits
<1>6a. n = Len(r) + 1 /\ l + n = Len(s) + 1 /\ Len(s) = l + Len(r)
  BY <1>0
<1> HIDE DEF n, l, a, b
<1> DEFINE Bad == {i \in 1..n : rest[l + i] # own[i]}
<1>7. \A i \in 1..n : rest[l + i] = own[i]
  <2> SUFFICES ASSUME Bad # {} PROVE FALSE
    OBVIOUS
  <2>1. PICK i \in Bad : \A j \in Bad : j <= i
    BY <1>0, LastPlace
  <2>2. i \in 1..n /\ rest[l + i] # own[i]
    BY <2>1
  <2>3. \A k \in (i + 1)..n : rest[l + k] = own[k]
    BY <1>0, <2>1, <2>2
  <2> HIDE DEF Bad
  <2>4. i # n
    <3> SUFFICES ASSUME i = n PROVE FALSE
      OBVIOUS
    <3>1. rest[l + i] = rest[Len(s) + 1]
      BY <1>6a
    <3> QED BY <1>4, <1>5, <2>2, <3>1
  <2>5. i \in 1..Len(r) /\ l + i \in 1..Len(s)
    BY <1>0, <1>6a, <2>2, <2>4
  <2>6. CASE b[i] > 0
    <3>1. i + b[i] \in (i + 1)..n /\ (l + i) + a[l + i] = l + (i + b[i])
      <4>1. b[i] \in Nat /\ i + b[i] <= n /\ a[l + i] = b[i]
        BY <1>2, <1>6, <2>5
      <4> QED BY <1>0, <2>5, <2>6, <4>1
    <3>2. rest[l + i] = <<Mark>> \o rest[(l + i) + a[l + i]] /\ own[i] = <<Mark>> \o own[i + b[i]]
      BY <1>2, <1>4, <1>5, <2>5, <2>6, Zenon
    <3>3. rest[l + (i + b[i])] = own[i + b[i]]
      BY <2>3, <3>1
    <3> QED BY <2>2, <3>1, <3>2, <3>3, Zenon
  <2>7. CASE b[i] = 0
    <3>1. i + 1 \in (i + 1)..n /\ (l + i) + 1 = l + (i + 1)
      BY <1>0, <2>5 DEF n
    <3>2. rest[l + i] = <<s[l + i]>> \o rest[(l + i) + 1] /\ own[i] = <<r[i]>> \o own[i + 1]
      BY <1>2, <1>4, <1>5, <2>5, <2>7, Zenon
    <3>3. rest[l + (i + 1)] = own[i + 1] /\ s[l + i] = r[i]
      BY <1>0, <2>3, <2>5, <3>1
    <3> QED BY <2>2, <3>1, <3>2, <3>3, Zenon
  <2> QED BY <1>6, <2>5, <2>6, <2>7
<1>8. rest[l + 1] = own[1]
  BY <1>0, <1>7
<1> QED BY <1>3, <1>8 DEF l

\* One symbol further, where the key does not stand.
LEMMA ReplaceMore ==
  ASSUME NEW S, NEW x \in S, NEW r \in Seq(S), NEW key \in Seq(S), key # <<>>,
         ~StandsAt(key, Before(x, r), 1)
  PROVE  Replace(Before(x, r), key) = Before(x, Replace(r, key))
<1> DEFINE s == Before(x, r)
           w == <<x>>
<1>0. Len(w) = 1 /\ w[1] = x
  BY LenProperties
<1>1. w \in Seq(S) /\ s \in Seq(S) /\ Joined(w, r, s)
  <2>1. w \in Seq(S)
    OBVIOUS
  <2>2. \A v \in Seq(S) : v \o r \in Seq(S) /\ Joined(v, r, v \o r)
    BY Joining
  <2>3. s = w \o r
    BY DEF Before
  <2> HIDE DEF w, s
  <2> QED BY <2>1, <2>2, <2>3, Zenon
<1> HIDE DEF s, w
<1>2. Fits(s, KeyAt(s, key))
  BY <1>1, KeyFits
<1>3. PICK rest : Replace(s, key) = rest[1] /\ Unfolds(s, KeyAt(s, key), rest)
  BY <1>1, <1>2, SubUnfolds DEF Replace
<1>4. rest[1 + 1] = Replace(r, key)
  <2>1. rest[Len(w) + 1] = Replace(r, key)
    BY <1>1, <1>3, ReplaceBehind
  <2> QED BY <1>0, <2>1
<1>5. 1 \in 1..Len(s) /\ s[1] = x
  <2>1. 1 \in 1..Len(w) /\ Len(r) \in Nat /\ Len(s) = 1 + Len(r)
    BY <1>0, <1>1, LenProperties DEF Joined
  <2> QED BY <1>0, <1>1, <2>1 DEF Joined
<1>6. KeyAt(s, key)[1] = 0
  <2>1. ~StandsAt(key, s, 1)
    BY DEF s
  <2> QED BY <1>1, <1>5, <2>1, KeyFits
<1>7. rest[1] = Before(s[1], rest[1 + 1])
  BY <1>3, <1>5, <1>6 DEF Unfolds
<1> QED BY <1>3, <1>4, <1>5, <1>7 DEF s

\* The key at the head.
LEMMA ReplaceKey ==
  ASSUME NEW S, NEW r \in Seq(S), NEW key \in Seq(S), key # <<>>,
         NEW s \in Seq(S), Joined(key, r, s)
  PROVE  Replace(s, key) = Before(Mark, Replace(r, key))
<1>1. Len(key) \in Nat /\ Len(key) >= 1 /\ Len(r) \in Nat
  BY EmptySeq, LenProperties
<1>2. Fits(s, KeyAt(s, key))
  BY <1>1, KeyFits
<1>3. PICK rest : Replace(s, key) = rest[1] /\ Unfolds(s, KeyAt(s, key), rest)
  BY <1>1, <1>2, SubUnfolds DEF Replace
<1>4. rest[Len(key) + 1] = Replace(r, key)
  BY <1>1, <1>3, ReplaceBehind
<1>5. 1 \in 1..Len(s) /\ StandsAt(key, s, 1)
  <2>1. 1 \in 1..Len(s) /\ 1 + Len(key) - 1 <= Len(s)
    BY <1>1 DEF Joined
  <2>2. \A p \in 1..Len(key) : 1 + p - 1 = p /\ s[p] = key[p]
    BY <1>1 DEF Joined
  <2> QED BY <2>1, <2>2 DEF StandsAt
<1>6. KeyAt(s, key)[1] = Len(key)
  BY <1>1, <1>5, KeyFits
<1>7. rest[1] = Before(Mark, rest[1 + Len(key)])
  <2>1. KeyAt(s, key)[1] > 0
    BY <1>1, <1>6
  <2>2. rest[1] = Before(Mark, rest[1 + KeyAt(s, key)[1]])
    BY <1>3, <1>5, <2>1 DEF Unfolds
  <2> QED BY <1>6, <2>2
<1>8. 1 + Len(key) = Len(key) + 1
  BY <1>1
<1> QED BY <1>3, <1>4, <1>7, <1>8

\* Where a word stands in the text and nothing matches, it is copied.
LEMMA RestCopies ==
  ASSUME NEW S, NEW t \in Seq(S), Mark \in S, NEW at, Fits(t, at), NEW rest, Unfolds(t, at, rest),
         NEW w \in Seq(S), NEW i \in 1..Len(t), StandsAt(w, t, i), \A p \in 1..Len(w) : at[i + p - 1] = 0
  PROVE  rest[i] = w \o rest[i + Len(w)]
<1> DEFINE n == Len(t) + 1
           l == Len(w)
<1>0. /\ Len(t) \in Nat /\ l \in Nat /\ n \in Nat \ {0} /\ i \in 1..n /\ i + l \in 1..n
      /\ \A k \in 1..n : rest[k] \in Seq(S) /\ Len(rest[k]) \in Nat
  <2>1. Len(t) \in Nat /\ l \in Nat /\ n \in Nat \ {0} /\ i \in 1..n /\ i + l \in 1..n
    BY LenProperties DEF StandsAt
  <2>2. \A k \in 1..n : rest[k] \in Seq(S)
    BY RestType
  <2> QED BY <2>1, <2>2, LenProperties
<1>1. ASSUME NEW k \in 1..Len(t), at[k] = 0
      PROVE  /\ Len(rest[k]) = Len(rest[k + 1]) + 1
             /\ \A p \in 1..Len(rest[k + 1]) : rest[k][p + 1] = rest[k + 1][p]
             /\ rest[k][1] = t[k]
  <2>1. PICK m \in (k + 1)..(Len(t) + 1) :
          /\ Len(rest[k]) = Len(rest[m]) + 1
          /\ \A p \in 1..Len(rest[m]) : rest[k][p + 1] = rest[m][p]
          /\ at[k] = 0 => m = k + 1 /\ rest[k][1] = t[k]
    BY RestStep
  <2> QED BY <1>1, <2>1
<1>2. /\ i + l <= n
      /\ \A p \in 1..l : t[i + p - 1] = w[p] /\ at[i + p - 1] = 0
  BY <1>0 DEF StandsAt
<1> HIDE DEF n, l
<1> DEFINE Holds(m) ==
             /\ Len(rest[i]) = m + Len(rest[i + m])
             /\ \A p \in 1..m : rest[i][p] = w[p]
             /\ \A p \in 1..Len(rest[i + m]) : rest[i][m + p] = rest[i + m][p]
           Bad == {m \in 0..l : ~Holds(m)}
<1>3. Holds(0)
  BY <1>0
<1>4. \A m \in 0..l : Holds(m)
  <2> HIDE DEF Holds
  <2> SUFFICES ASSUME Bad # {} PROVE FALSE
    OBVIOUS
  <2>1. PICK m \in Bad : \A k \in Bad : m <= k
    <3>1. Bad \subseteq Nat
      BY <1>0
    <3> HIDE DEF Bad
    <3> QED BY <3>1, Least
  <2>2. m \in 0..l /\ ~Holds(m)
    BY <2>1
  <2>3. m # 0
    BY <1>3, <2>2
  <2>4. m \in Nat /\ m - 1 \in 0..l /\ ~(m <= m - 1)
    BY <1>0, <2>2, <2>3
  <2>5. Holds(m - 1)
    BY <2>1, <2>4
  <2> HIDE DEF Bad
  <2> DEFINE k == i + (m - 1)
  <2>6. /\ k \in 1..Len(t) /\ k + 1 = i + m /\ k = i + m - 1 /\ m \in 1..l /\ k \in 1..n /\ k + 1 \in 1..n
    BY <1>0, <1>2, <2>2, <2>3 DEF n
  <2>7. /\ Len(rest[i]) = (m - 1) + Len(rest[k])
        /\ \A p \in 1..(m - 1) : rest[i][p] = w[p]
        /\ \A p \in 1..Len(rest[k]) : rest[i][(m - 1) + p] = rest[k][p]
    BY <2>5 DEF Holds
  <2> HIDE DEF k
  <2>8. at[k] = 0 /\ t[k] = w[m]
    BY <1>2, <2>6
  <2>9. /\ Len(rest[k]) = Len(rest[k + 1]) + 1
        /\ \A p \in 1..Len(rest[k + 1]) : rest[k][p + 1] = rest[k + 1][p]
        /\ rest[k][1] = t[k]
    BY <1>1, <2>6, <2>8
  <2>10. Len(rest[k]) \in Nat /\ Len(rest[k + 1]) \in Nat
    BY <1>0, <2>6
  <2>11. Len(rest[i]) = m + Len(rest[k + 1])
    BY <2>2, <2>7, <2>9, <2>10
  <2>12. rest[i][m] = w[m]
    <3>1. 1 \in 1..Len(rest[k]) /\ (m - 1) + 1 = m
      BY <2>2, <2>9, <2>10
    <3>2. rest[i][(m - 1) + 1] = rest[k][1]
      BY <2>7, <3>1
    <3> QED BY <2>8, <2>9, <3>1, <3>2
  <2>13. \A p \in 1..m : rest[i][p] = w[p]
    <3>1. \A p \in 1..m : p = m \/ p \in 1..(m - 1)
      BY <2>2
    <3> QED BY <2>7, <2>12, <3>1
  <2>14. ASSUME NEW p \in 1..Len(rest[k + 1]) PROVE rest[i][m + p] = rest[k + 1][p]
    <3> DEFINE e == Len(rest[k + 1])
    <3>1. e \in Nat /\ p \in 1..e /\ m \in Nat /\ Len(rest[k]) = e + 1
      BY <2>4, <2>9, <2>10
    <3> HIDE DEF e
    <3>2. p + 1 \in 1..Len(rest[k]) /\ (m - 1) + (p + 1) = m + p
      BY <3>1
    <3>3. rest[i][(m - 1) + (p + 1)] = rest[k][p + 1]
      BY <2>7, <3>2
    <3> QED BY <2>9, <3>2, <3>3
  <2>15. Holds(m)
    BY <2>6, <2>11, <2>13, <2>14 DEF Holds
  <2> QED BY <2>2, <2>15
<1>5. /\ Len(rest[i]) = l + Len(rest[i + l])
      /\ \A p \in 1..l : rest[i][p] = w[p]
      /\ \A p \in 1..Len(rest[i + l]) : rest[i][l + p] = rest[i + l][p]
  <2>1. l \in 0..l
    BY <1>0
  <2>2. Holds(l)
    BY <1>4, <2>1
  <2> QED BY <2>2
<1> HIDE DEF Holds, Bad
<1> DEFINE tail == rest[i + l]
           s == w \o tail
<1>6. tail \in Seq(S) /\ Len(tail) \in Nat /\ rest[i] \in Seq(S)
  BY <1>0
<1>7. s \in Seq(S) /\ Joined(w, tail, s)
  BY <1>6, Joining
<1>8. Len(rest[i]) = l + Len(tail) /\ \A p \in 1..Len(tail) : rest[i][l + p] = tail[p]
  BY <1>5
<1> HIDE DEF tail, s
<1>9. Len(rest[i]) = Len(s)
  BY <1>7, <1>8 DEF Joined, l
<1>10. ASSUME NEW q \in 1..Len(rest[i]) PROVE rest[i][q] = s[q]
  <2>1. CASE q \in 1..l
    BY <1>5, <1>7, <2>1 DEF Joined, l
  <2>2. CASE q \notin 1..l
    <3>1. q - l \in 1..Len(tail) /\ l + (q - l) = q
      BY <1>0, <1>6, <1>8, <2>2
    <3>2. rest[i][l + (q - l)] = tail[q - l]
      BY <1>8, <3>1
    <3>3. s[l + (q - l)] = tail[q - l]
      BY <1>7, <3>1 DEF Joined, l
    <3> QED BY <3>1, <3>2, <3>3
  <2> QED BY <2>1, <2>2
<1>11. rest[i] = s
  BY <1>6, <1>7, <1>9, <1>10, SeqEqual
<1> QED BY <1>11 DEF s, tail, l

\* Replacing a key in a text from which others were cut out is cutting it out with
\* them, where no match of the others begins with one of its symbols.
LEMMA CutTogether ==
  ASSUME NEW S, NEW t \in Seq(S), Mark \in S, NEW at, Fits(t, at),
         NEW key \in Seq(S \ {Mark}), key # <<>>,
         \A i \in 1..Len(t) : at[i] > 0 => t[i] \notin Range(key),
         NEW both, Fits(t, both),
         \A i \in 1..Len(t) : both[i] = IF at[i] > 0 THEN at[i] ELSE KeyAt(t, key)[i]
  PROVE  Replace(Sub(t, at), key) = Sub(t, both)
<1> DEFINE n == Len(t) + 1
           l == Len(key)
<1>0. /\ Len(t) \in Nat /\ n \in Nat \ {0} /\ DOMAIN t = 1..Len(t)
      /\ \A i \in 1..Len(t) : t[i] \in S
      /\ l \in Nat /\ l >= 1 /\ key \in Seq(S) /\ \A p \in 1..l : key[p] # Mark /\ key[p] \in Range(key)
  <2>1. DOMAIN key = 1..l /\ l \in Nat /\ l >= 1 /\ key \in Seq(S)
    BY LenProperties, EmptySeq, SeqMonotonic
  <2>2. \A p \in 1..l : key[p] # Mark
    BY ElementOfSeq
  <2>3. \A p \in 1..l : key[p] \in Range(key)
    BY <2>1 DEF Range
  <2> QED BY <2>1, <2>2, <2>3, LenProperties, ElementOfSeq
<1>1. PICK rest : Sub(t, at) = rest[1] /\ Unfolds(t, at, rest)
  BY SubUnfolds
<1>2. PICK full : Sub(t, both) = full[1] /\ Unfolds(t, both, full)
  BY SubUnfolds
<1>3. \A i \in 1..n : rest[i] \in Seq(S) /\ Len(rest[i]) \in Nat
  <2>1. \A i \in 1..n : rest[i] \in Seq(S)
    BY <1>1, RestType
  <2> QED BY <2>1, LenProperties
<1>4. /\ rest[n] = <<>>
      /\ \A i \in 1..Len(t) : /\ at[i] > 0 => rest[i] = Before(Mark, rest[i + at[i]])
                              /\ at[i] = 0 => rest[i] = Before(t[i], rest[i + 1])
  BY <1>1 DEF Unfolds
<1>5. /\ full[n] = <<>>
      /\ \A i \in 1..Len(t) : /\ both[i] > 0 => full[i] = Before(Mark, full[i + both[i]])
                              /\ both[i] = 0 => full[i] = Before(t[i], full[i + 1])
  BY <1>2 DEF Unfolds
<1>6. \A i \in 1..Len(t) : at[i] \in Nat /\ i + at[i] <= n
  BY <1>0 DEF Fits
<1>7. \A i \in 1..Len(t) : KeyAt(t, key)[i] = IF StandsAt(key, t, i) THEN l ELSE 0
  BY <1>0, KeyFits
\* Where the key stands no other match begins.
<1>8. ASSUME NEW i \in 1..Len(t), StandsAt(key, t, i)
      PROVE  i + l <= n /\ \A p \in 1..l : at[i + p - 1] = 0
  <2>1. i + l <= n
    BY <1>0, <1>8 DEF StandsAt
  <2>2. ASSUME NEW p \in 1..l PROVE at[i + p - 1] = 0
    <3>1. i + p - 1 \in 1..Len(t) /\ t[i + p - 1] = key[p] /\ key[p] \in Range(key)
      BY <1>0, <1>8, <2>1 DEF StandsAt
    <3>2. ~(at[i + p - 1] > 0)
      BY <3>1
    <3>3. at[i + p - 1] \in Nat
      BY <1>6, <3>1
    <3> QED BY <3>2, <3>3
  <2> QED BY <2>1, <2>2
\* What begins with the key, once the others are cut out, began with it before.
<1>9. ASSUME NEW i \in 1..Len(t), StandsAt(key, rest[i], 1)
      PROVE  StandsAt(key, t, i)
  <2>0. i \in 1..n /\ Len(rest[i]) \in Nat
    BY <1>0, <1>3
  <2>1. l \in 0..Len(rest[i]) /\ \A p \in 1..l : rest[i][p] = key[p]
    <3>1. \A p \in 1..l : 1 + p - 1 = p
      BY <1>0
    <3> QED BY <1>0, <1>9, <2>0, <3>1 DEF StandsAt
  <2>2. \A p \in 1..l : rest[i][p] # Mark
    BY <1>0, <2>1
  <2>3. /\ i + l <= n
        /\ \A p \in 1..l : rest[i][p] = t[i + p - 1]
    BY <1>1, <2>0, <2>1, <2>2, RestPrefix
  <2> QED BY <1>0, <2>1, <2>3 DEF StandsAt
<1> HIDE DEF n, l
<1> DEFINE Bad == {i \in 1..n : Replace(rest[i], key) # full[i]}
<1>10. \A i \in 1..n : Replace(rest[i], key) = full[i]
  <2> SUFFICES ASSUME Bad # {} PROVE FALSE
    OBVIOUS
  <2>1. PICK i \in Bad : \A j \in Bad : j <= i
    BY <1>0, LastPlace
  <2>2. i \in 1..n /\ Replace(rest[i], key) # full[i]
    BY <2>1
  <2>3. \A k \in (i + 1)..n : Replace(rest[k], key) = full[k]
    BY <1>0, <2>1, <2>2
  <2> HIDE DEF Bad
  <2>4. i # n
    <3>1. <<>> \in Seq(S) /\ 1..Len(<<>>) = {}
      BY EmptySeq
    <3>2. \A e \in Seq(S) : 1..Len(e) = {} => Sub(e, KeyAt(e, key)) = e
      <4> SUFFICES ASSUME NEW e \in Seq(S), 1..Len(e) = {} PROVE Sub(e, KeyAt(e, key)) = e
        OBVIOUS
      <4>1. Fits(e, KeyAt(e, key))
        BY <1>0, KeyFits
      <4> QED BY <4>1, SubNothing
    <3> QED BY <1>4, <1>5, <2>2, <3>1, <3>2 DEF Replace
  <2>5. i \in 1..Len(t) /\ at[i] \in Nat /\ i + at[i] <= n /\ t[i] \in S
    <3>1. i \in 1..Len(t)
      BY <1>0, <2>2, <2>4 DEF n
    <3> QED BY <1>0, <1>6, <3>1
  <2>6. CASE at[i] > 0
    <3>1. i + at[i] \in (i + 1)..n /\ i + at[i] \in 1..n /\ both[i] = at[i]
      BY <1>0, <2>5, <2>6
    <3>2. rest[i] = Before(Mark, rest[i + at[i]]) /\ full[i] = Before(Mark, full[i + at[i]])
      BY <1>4, <1>5, <2>5, <2>6, <3>1
    <3>3. rest[i + at[i]] \in Seq(S)
      BY <1>3, <3>1
    <3>4. ~StandsAt(key, rest[i], 1)
      <4> SUFFICES ASSUME StandsAt(key, rest[i], 1) PROVE FALSE
        OBVIOUS
      <4>1. StandsAt(key, t, i)
        BY <1>9, <2>5
      <4>2. 1 \in 1..l /\ i + 1 - 1 = i
        BY <1>0, <2>5
      <4>3. at[i] = 0
        BY <1>8, <2>5, <4>1, <4>2
      <4> QED BY <2>6, <4>3
    <3>5. Replace(rest[i], key) = Before(Mark, Replace(rest[i + at[i]], key))
      BY <1>0, <3>2, <3>3, <3>4, ReplaceMore
    <3>6. Replace(rest[i + at[i]], key) = full[i + at[i]]
      BY <2>3, <3>1
    <3> QED BY <2>2, <3>2, <3>5, <3>6
  <2>7. CASE at[i] = 0 /\ StandsAt(key, t, i)
    <3>1. i + l \in (i + 1)..n /\ i + l \in 1..n /\ both[i] = l /\ l > 0
      BY <1>0, <1>7, <1>8, <2>5, <2>7
    <3>2. full[i] = Before(Mark, full[i + l])
      BY <1>5, <2>5, <3>1
    <3>3. rest[i + l] \in Seq(S)
      BY <1>3, <3>1
    <3>4. rest[i] = key \o rest[i + l]
      BY <1>0, <1>1, <1>8, <2>5, <2>7, RestCopies DEF l
    <3>5. rest[i] \in Seq(S) /\ Joined(key, rest[i + l], rest[i])
      BY <1>0, <3>3, <3>4, Joining
    <3>6. Replace(rest[i], key) = Before(Mark, Replace(rest[i + l], key))
      BY <1>0, <3>3, <3>5, ReplaceKey
    <3>7. Replace(rest[i + l], key) = full[i + l]
      BY <2>3, <3>1
    <3> QED BY <2>2, <3>2, <3>6, <3>7
  <2>8. CASE at[i] = 0 /\ ~StandsAt(key, t, i)
    <3>1. i + 1 \in (i + 1)..n /\ i + 1 \in 1..n /\ both[i] = 0
      BY <1>0, <1>7, <2>5, <2>8 DEF n
    <3>2. rest[i] = Before(t[i], rest[i + 1]) /\ full[i] = Before(t[i], full[i + 1])
      BY <1>4, <1>5, <2>5, <2>8, <3>1
    <3>3. rest[i + 1] \in Seq(S)
      BY <1>3, <3>1
    <3>4. ~StandsAt(key, rest[i], 1)
      BY <1>9, <2>5, <2>8
    <3>5. Replace(rest[i], key) = Before(t[i], Replace(rest[i + 1], key))
      BY <1>0, <2>5, <3>2, <3>3, <3>4, ReplaceMore
    <3>6. Replace(rest[i + 1], key) = full[i + 1]
      BY <2>3, <3>1
    <3> QED BY <2>2, <3>2, <3>5, <3>6
  <2> QED BY <2>5, <2>6, <2>7, <2>8
<1>11. 1 \in 1..n
  BY <1>0
<1> QED BY <1>1, <1>2, <1>10, <1>11

\* Of secrets that have no symbol in common only one can stand in a place.
LEMMA AtOnceIs ==
  ASSUME NEW S, text \in Seq(S), NEW keys, keys \subseteq sensitive, keys \subseteq Seq(S), Apart,
         NEW i \in 1..Len(text)
  PROVE  /\ \A key \in keys : key # <<>> /\ StandsAt(key, text, i) => AtOnce(keys)[i] = Len(key)
         /\ (\A key \in keys : key # <<>> => ~StandsAt(key, text, i)) => AtOnce(keys)[i] = 0
<1> DEFINE V == {KeyAt(text, key)[i] : key \in keys} \cup {0}
<1>0. AtOnce(keys)[i] = Max(V) /\ Len(text) \in Nat
  <2>1. DOMAIN text = 1..Len(text) /\ Len(text) \in Nat
    BY LenProperties
  <2> QED BY <2>1 DEF AtOnce
<1>1. ASSUME NEW key \in keys
      PROVE  /\ key # <<>> => Len(key) \in Nat /\ Len(key) > 0
             /\ KeyAt(text, key)[i] = IF key # <<>> /\ StandsAt(key, text, i) THEN Len(key) ELSE 0
  BY KeyFits, EmptySeq
<1>2. ASSUME NEW m \in Nat, V \subseteq {0, m}, m \in V PROVE Max(V) = m
  <2> HIDE DEF V
  <2>1. \A y \in V : m >= y
    BY <1>2
  <2>2. \A x \in V : (\A y \in V : x >= y) => x = m
    BY <1>2
  <2> QED BY <1>2, <2>1, <2>2 DEF Max
<1>3. ASSUME NEW key \in keys, key # <<>>, StandsAt(key, text, i) PROVE AtOnce(keys)[i] = Len(key)
  <2>1. Len(key) \in Nat /\ Len(key) > 0 /\ KeyAt(text, key)[i] = Len(key)
    BY <1>1, <1>3
  <2>2. ASSUME NEW other \in keys, other # key PROVE KeyAt(text, other)[i] = 0
    <3> SUFFICES ASSUME other # <<>>, StandsAt(other, text, i) PROVE FALSE
      BY <1>1
    <3>1. /\ 1 \in DOMAIN key /\ 1 \in DOMAIN other
          /\ 1 \in 1..Len(key) /\ 1 \in 1..Len(other) /\ i + 1 - 1 = i
      <4>1. Len(other) \in Nat /\ Len(other) > 0
        BY <1>1
      <4> QED BY <1>0, <2>1, <4>1, LenProperties
    <3>2. text[i] = key[1] /\ text[i] = other[1]
      BY <1>3, <3>1 DEF StandsAt
    <3>3. text[i] \in Range(key) \cap Range(other)
      BY <3>1, <3>2 DEF Range
    <3> QED BY <2>2, <3>3 DEF Apart
  <2>3. V \subseteq {0, Len(key)} /\ Len(key) \in V
    BY <2>1, <2>2
  <2> QED BY <1>0, <1>2, <2>1, <2>3
<1>4. ASSUME \A key \in keys : key # <<>> => ~StandsAt(key, text, i) PROVE AtOnce(keys)[i] = 0
  <2>1. \A key \in keys : KeyAt(text, key)[i] = 0
    BY <1>1, <1>4
  <2>2. V \subseteq {0, 0} /\ 0 \in V
    BY <2>1
  <2> QED BY <1>0, <1>2, <2>2
<1> QED BY <1>3, <1>4

LEMMA AtOnceFits ==
  ASSUME NEW S, text \in Seq(S), NEW keys, keys \subseteq sensitive, keys \subseteq Seq(S), Apart
  PROVE  /\ Fits(text, AtOnce(keys))
         /\ \A i \in 1..Len(text) : AtOnce(keys)[i] > 0 =>
              \E key \in keys : key # <<>> /\ StandsAt(key, text, i) /\ AtOnce(keys)[i] = Len(key)
<1>0. Len(text) \in Nat /\ DOMAIN text = 1..Len(text)
  BY LenProperties
<1>1. ASSUME NEW i \in 1..Len(text)
      PROVE  \/ AtOnce(keys)[i] = 0
             \/ \E key \in keys : key # <<>> /\ StandsAt(key, text, i) /\ AtOnce(keys)[i] = Len(key)
  BY AtOnceIs
<1>2. ASSUME NEW i \in 1..Len(text)
      PROVE  AtOnce(keys)[i] \in Nat /\ i + AtOnce(keys)[i] <= Len(text) + 1
  <2>1. CASE AtOnce(keys)[i] = 0
    BY <1>0, <2>1
  <2>2. CASE \E key \in keys : StandsAt(key, text, i) /\ AtOnce(keys)[i] = Len(key)
    <3>1. PICK key \in keys : StandsAt(key, text, i) /\ AtOnce(keys)[i] = Len(key)
      BY <2>2
    <3>2. Len(key) \in Nat
      BY LenProperties
    <3> QED BY <1>0, <3>1, <3>2 DEF StandsAt
  <2> QED BY <1>1, <2>1, <2>2
<1>3. AtOnce(keys) = [i \in DOMAIN text |-> AtOnce(keys)[i]]
  BY DEF AtOnce
<1>4. AtOnce(keys) \in [DOMAIN text -> Nat]
  BY <1>0, <1>2, <1>3
<1> QED BY <1>0, <1>1, <1>2, <1>4 DEF Fits

\* One secret more.
LEMMA AtOnceMore ==
  ASSUME NEW S, text \in Seq(S), Mark \in S, sensitive \subseteq Seq(S \ {Mark}), Apart,
         NEW keys, keys \subseteq sensitive, NEW key \in sensitive \ keys
  PROVE  Replace(Sub(text, AtOnce(keys)), key) = Sub(text, AtOnce(keys \cup {key}))
<1> DEFINE at == AtOnce(keys)
           both == AtOnce(keys \cup {key})
<1>0. /\ keys \subseteq Seq(S) /\ keys \cup {key} \subseteq Seq(S) /\ keys \cup {key} \subseteq sensitive
      /\ key \in Seq(S \ {Mark}) /\ key \in Seq(S) /\ Len(text) \in Nat
  BY SeqMonotonic, LenProperties
<1>1. /\ Fits(text, at) /\ Fits(text, both)
      /\ \A i \in 1..Len(text) : at[i] \in Nat
      /\ \A i \in 1..Len(text) : at[i] > 0 =>
           \E k \in keys : k # <<>> /\ StandsAt(k, text, i) /\ at[i] = Len(k)
  <2>1. DOMAIN text = 1..Len(text)
    BY LenProperties
  <2> QED BY <1>0, <2>1, AtOnceFits DEF Fits
<1>2. ASSUME NEW i \in 1..Len(text), at[i] > 0 PROVE both[i] = at[i] /\ text[i] \notin Range(key)
  <2>1. PICK k \in keys : k # <<>> /\ StandsAt(k, text, i) /\ at[i] = Len(k)
    BY <1>1, <1>2
  <2>2. both[i] = Len(k)
    BY <1>0, <2>1, AtOnceIs
  <2>3. 1 \in 1..Len(k) /\ 1 \in DOMAIN k /\ i + 1 - 1 = i
    BY <1>0, <2>1, EmptySeq, LenProperties
  <2>4. text[i] = k[1] /\ text[i] \in Range(k)
    BY <2>1, <2>3 DEF StandsAt, Range
  <2>5. Range(k) \cap Range(key) = {}
    BY DEF Apart
  <2> QED BY <2>1, <2>2, <2>4, <2>5
<1>3. ASSUME NEW i \in 1..Len(text), ~(at[i] > 0)
      PROVE  both[i] = IF key # <<>> /\ StandsAt(key, text, i) THEN Len(key) ELSE 0
  <2>1. \A k \in keys : k # <<>> => ~StandsAt(k, text, i)
    <3> SUFFICES ASSUME NEW k \in keys, k # <<>>, StandsAt(k, text, i) PROVE FALSE
      OBVIOUS
    <3>1. at[i] = Len(k) /\ Len(k) \in Nat /\ Len(k) > 0
      BY <1>0, AtOnceIs, EmptySeq
    <3> QED BY <1>3, <3>1
  <2>2. CASE key # <<>> /\ StandsAt(key, text, i)
    BY <1>0, <2>2, AtOnceIs
  <2>3. CASE ~(key # <<>> /\ StandsAt(key, text, i))
    <3>1. \A k \in keys \cup {key} : k # <<>> => ~StandsAt(k, text, i)
      BY <2>1, <2>3
    <3> QED BY <1>0, <2>3, <3>1, AtOnceIs
  <2> QED BY <2>2, <2>3
<1>4. CASE key # <<>>
  <2>1. \A i \in 1..Len(text) : both[i] = IF at[i] > 0 THEN at[i] ELSE KeyAt(text, key)[i]
    <3>1. \A i \in 1..Len(text) : KeyAt(text, key)[i] = IF StandsAt(key, text, i) THEN Len(key) ELSE 0
      BY <1>0, <1>4, KeyFits
    <3> HIDE DEF at, both
    <3> QED BY <1>2, <1>3, <1>4, <3>1
  <2>2. \A i \in 1..Len(text) : at[i] > 0 => text[i] \notin Range(key)
    BY <1>2
  <2> HIDE DEF at, both
  <2>3. Replace(Sub(text, at), key) = Sub(text, both)
    BY <1>0, <1>1, <1>4, <2>1, <2>2, CutTogether
  <2> QED BY <2>3 DEF at, both
<1>5. CASE key = <<>>
  <2>1. \A i \in 1..Len(text) : both[i] = at[i]
    <3> HIDE DEF at, both
    <3> SUFFICES ASSUME NEW i \in 1..Len(text) PROVE both[i] = at[i]
      OBVIOUS
    <3>1. CASE at[i] > 0
      BY <1>2, <3>1
    <3>2. CASE ~(at[i] > 0)
      BY <1>1, <1>3, <1>5, <3>2
    <3> QED BY <3>1, <3>2
  <2>2. both = at
    <3>1. /\ both = [i \in DOMAIN text |-> both[i]] /\ at = [i \in DOMAIN text |-> at[i]]
          /\ DOMAIN text = 1..Len(text)
      BY LenProperties DEF AtOnce
    <3> HIDE DEF at, both
    <3> QED BY <2>1, <3>1
  <2>3. Sub(text, at) \in Seq(S)
    BY <1>1, SubType
  <2>4. Replace(Sub(text, at), key) = Sub(text, at)
    <3> HIDE DEF at
    <3>1. /\ Fits(Sub(text, at), KeyAt(Sub(text, at), key))
          /\ \A i \in 1..Len(Sub(text, at)) : KeyAt(Sub(text, at), key)[i] = 0
      BY <1>0, <1>5, <2>3, KeyFits
    <3> QED BY <2>3, <3>1, SubNothing DEF Replace
  <2> QED BY <2>2, <2>4
<1> QED BY <1>4, <1>5

\* The first loop is deterministic though the order of a set is not: at every
\* point the text is the one in which all secrets it has come to were cut out at
\* once, for any number of secrets that have no symbol in common.
THEOREM OrderCorrect ==
  ASSUME NEW Symbols, NEW Secrets, Texts \subseteq Seq(Symbols), Secrets \subseteq Seq(Symbols \ {Mark})
  PROVE  RedactorSpec(Secrets) => []OrderIrrelevant
<1>1. RedactorInit => OrderIrrelevant
  BY DEF RedactorInit, OrderIrrelevant
<1>2. TypeInv(Secrets) /\ OrderIrrelevant /\ [RedactorNext(Secrets)]_redactor => OrderIrrelevant'
  <2> SUFFICES ASSUME TypeInv(Secrets), OrderIrrelevant, [RedactorNext(Secrets)]_redactor
               PROVE  OrderIrrelevant'
    OBVIOUS
  <2>1. CASE \E keys \in SUBSET Secrets : Redact(keys)
    <3>1. PICK keys \in SUBSET Secrets : Redact(keys)
      BY <2>1
    <3>2. /\ text' \in Seq(Symbols) /\ cleaned' = text' /\ todo' = sensitive'
      BY <3>1 DEF Redact
    <3>3. \A i \in DOMAIN text' : AtOnce({})'[i] = 0
      <4>1. \A i \in DOMAIN text' : AtOnce({})'[i] = Max({0})
        BY DEF AtOnce
      <4>2. Max({0}) = 0
        BY DEF Max
      <4> QED BY <4>1, <4>2
    <3>4. Fits(text', AtOnce({})')
      <4>1. DOMAIN text' = 1..Len(text') /\ Len(text') \in Nat
        BY <3>2, LenProperties
      <4>2. AtOnce({})' = [i \in DOMAIN text' |-> AtOnce({})'[i]]
        BY DEF AtOnce
      <4>3. AtOnce({})' \in [DOMAIN text' -> Nat]
        BY <3>3, <4>2
      <4> QED BY <3>3, <4>1, <4>3 DEF Fits
    <3>5. Sub(text', AtOnce({})') = text'
      <4>1. text' \in Seq(Symbols \cup {Mark}) /\ DOMAIN text' = 1..Len(text')
        BY <3>2, SeqMonotonic, LenProperties
      <4> QED BY <3>3, <3>4, <4>1, SubNothing
    <3>6. (sensitive \ todo)' = {}
      BY <3>2
    <3> QED BY <3>2, <3>5, <3>6 DEF OrderIrrelevant, AtOnce
  <2>2. CASE RedactKey
    <3>1. PICK key \in todo : todo' = todo \ {key} /\ Substitute(KeyAt(cleaned, key), Configured)
      BY <2>2 DEF RedactKey
    <3>2. step = "keys" /\ UNCHANGED <<text, sensitive, next>>
      BY <2>2 DEF RedactKey
    <3> SUFFICES ASSUME next = 1, Apart PROVE cleaned' = Sub(text, AtOnce(sensitive \ todo'))
      BY <3>2 DEF OrderIrrelevant, Apart, AtOnce
    <3> DEFINE All == Symbols \cup InkOf(text)
               done == sensitive \ todo
    <3>3. cleaned = Sub(text, AtOnce(done))
      BY <3>2 DEF OrderIrrelevant
    <3>4. /\ text \in Seq(All) /\ Mark \in All /\ sensitive \subseteq Seq(All \ {Mark})
          /\ cleaned \in Seq(All) /\ key \in Seq(All)
      <4>1. Symbols \ {Mark} \subseteq All \ {Mark} /\ Symbols \ {Mark} \subseteq All
            /\ Range(text) \subseteq All /\ InkOf(text) \subseteq All
        BY DEF InkOf
      <4>2. \A k \in sensitive : k \in Seq(Symbols \ {Mark})
        BY DEF TypeInv
      <4>3. \A k \in sensitive : k \in Seq(All \ {Mark}) /\ k \in Seq(All)
        BY <4>1, <4>2, SeqMonotonic
      <4>4. key \in sensitive
        BY DEF TypeInv, RedactorTypeOK
      <4> QED BY <4>1, <4>3, <4>4, SeqMonotonic DEF TypeInv, InkOf
    <3>5. key \in sensitive \ done /\ done \subseteq sensitive /\ sensitive \ todo' = done \cup {key}
      BY <3>1 DEF TypeInv, RedactorTypeOK
    <3> HIDE DEF All, done
    <3>6. Replace(cleaned, key) = Sub(text, AtOnce(done \cup {key}))
      BY <3>3, <3>4, <3>5, AtOnceMore
    <3>7. cleaned' = Replace(cleaned, key)
      <4>1. CASE \E i \in DOMAIN KeyAt(cleaned, key) : KeyAt(cleaned, key)[i] > 0
        BY <3>1, <4>1 DEF Substitute, Replace
      <4>2. CASE ~\E i \in DOMAIN KeyAt(cleaned, key) : KeyAt(cleaned, key)[i] > 0
        <5>1. cleaned' = cleaned
          BY <3>1, <4>2 DEF Substitute
        <5>2. Fits(cleaned, KeyAt(cleaned, key)) /\ DOMAIN cleaned = 1..Len(cleaned)
          BY <3>4, KeyFits, LenProperties
        <5>3. \A i \in 1..Len(cleaned) : KeyAt(cleaned, key)[i] = 0
          BY <4>2, <5>2 DEF Fits
        <5> QED BY <3>4, <5>1, <5>2, <5>3, SubNothing DEF Replace
      <4> QED BY <4>1, <4>2
    <3> QED BY <3>5, <3>6, <3>7
  <2>3. CASE RedactShape
    <3>1. next' = next + 1 /\ next \in 1..(Len(Patterns) + 1)
      BY <2>3 DEF RedactShape, TypeInv, RedactorTypeOK
    <3>2. next' # 1
      BY <3>1, PatternAssumption
    <3> QED BY <3>2 DEF OrderIrrelevant
  <2>4. CASE Structural
    BY <2>4 DEF Structural, OrderIrrelevant
  <2>5. CASE Judge
    BY <2>5 DEF Judge, OrderIrrelevant
  <2>6. CASE Return
    BY <2>6 DEF Return, OrderIrrelevant
  <2>7. CASE UNCHANGED redactor
    BY <2>7 DEF redactor, OrderIrrelevant, Apart, AtOnce
  <2> QED BY <2>1, <2>2, <2>3, <2>4, <2>5, <2>6, <2>7 DEF RedactorNext, Redacting
<1> QED BY <1>1, <1>2, TypeInduction, PTL DEF RedactorSpec
-----------------------------------------------------------------------------
(* Configuration: what the merge of two files is, level by level. *)

Empty == Dict(<<>>)

\* The keys of a node are those of two others, and each is a dictionary or has
\* the value of the one that counts.
Laid(node, own, fallback) ==
  /\ DOMAIN node.dict = DOMAIN own.dict \cup DOMAIN fallback.dict
  /\ \A key \in DOMAIN node.dict :
       LET counts == IF key \in DOMAIN own.dict THEN own.dict[key] ELSE fallback.dict[key]
       IN /\ IsDict(node.dict[key]) <=> IsDict(counts)
          /\ ~IsDict(counts) => node.dict[key] = counts

TiersLaid(node, own, fallback) ==
  /\ Laid(node, own, fallback)
  /\ \A key \in DOMAIN node.dict :
       IsDict(node.dict[key]) => Laid(node.dict[key], Part(own, key), Part(fallback, key))

ProviderLaid(node, own, fallback) ==
  /\ Laid(node, own, fallback)
  /\ \A key \in DOMAIN node.dict :
       IsDict(node.dict[key]) => TiersLaid(node.dict[key], Part(own, key), Part(fallback, key))

SectionLaid(node, own, fallback) ==
  /\ Laid(node, own, fallback)
  /\ \A key \in DOMAIN node.dict :
       IsDict(node.dict[key]) => ProviderLaid(node.dict[key], Part(own, key), Part(fallback, key))

FileLaid(node, own, fallback) ==
  /\ Laid(node, own, fallback)
  /\ \A key \in DOMAIN node.dict :
       IsDict(node.dict[key]) => SectionLaid(node.dict[key], Part(own, key), Part(fallback, key))

LEMMA EmptyIs ==
  IsDict(Empty) /\ DOMAIN Empty.dict = {} /\ \A key : Part(Empty, key) = Empty
<1>1. Empty.dict = <<>> /\ DOMAIN Empty.dict = {}
  BY DEF Empty, Dict
<1>2. IsDict(Empty)
  BY DEF Empty, Dict, IsDict
<1> QED BY <1>1, <1>2 DEF Part, Empty

\* One alone is laid as it is.
LEMMA LaidAlone ==
  ASSUME NEW node
  PROVE  Laid(node, node, Empty) /\ Laid(node, Empty, node)
BY EmptyIs DEF Laid

\* What stands behind a key of one alone.
LEMMA PartAlone ==
  ASSUME NEW node, NEW key \in DOMAIN node.dict, IsDict(node.dict[key])
  PROVE  Part(node, key) = node.dict[key] /\ Part(Empty, key) = Empty
BY EmptyIs DEF Part

LEMMA TierLevel ==
  ASSUME NEW own, NEW fallback
  PROVE  /\ Laid(MergeTier(fallback, own), own, fallback)
         /\ Laid(own, own, Empty) /\ Laid(own, Empty, own)
         /\ IsDict(MergeTier(fallback, own))
<1>1. Laid(MergeTier(fallback, own), own, fallback)
  BY DEF Laid, MergeTier, Overlay, Dict, Override
<1>2. IsDict(MergeTier(fallback, own))
  BY DEF MergeTier, Overlay, Dict, IsDict
<1> QED BY <1>1, <1>2, LaidAlone

LEMMA TiersLevel ==
  ASSUME NEW own, NEW fallback
  PROVE  /\ TiersLaid(MergeTiers(fallback, own), own, fallback)
         /\ TiersLaid(own, own, Empty) /\ TiersLaid(own, Empty, own)
         /\ IsDict(MergeTiers(fallback, own))
<1> DEFINE node == MergeTiers(fallback, own)
<1>1. Laid(node, own, fallback)
  BY TierLevel DEF Laid, MergeTiers, Overlay, Dict
<1>2. IsDict(node)
  BY DEF MergeTiers, Overlay, Dict, IsDict
<1>3. ASSUME NEW key \in DOMAIN node.dict, IsDict(node.dict[key])
      PROVE  Laid(node.dict[key], Part(own, key), Part(fallback, key))
  <2>1. CASE /\ key \in DOMAIN fallback.dict /\ IsDict(fallback.dict[key])
             /\ key \in DOMAIN own.dict /\ IsDict(own.dict[key])
    <3>1. node.dict[key] = MergeTier(fallback.dict[key], own.dict[key])
      BY <2>1 DEF MergeTiers, Overlay, Dict
    <3> QED BY <2>1, <3>1, TierLevel, PartAlone
  <2>2. CASE key \in DOMAIN own.dict /\ ~(key \in DOMAIN fallback.dict /\ IsDict(fallback.dict[key]))
    <3>1. node.dict[key] = own.dict[key]
      BY <2>2 DEF MergeTiers, Overlay, Dict
    <3>2. Part(fallback, key) = Empty
      BY <2>2 DEF Part, Empty
    <3> QED BY <1>3, <2>2, <3>1, <3>2, TierLevel, PartAlone
  <2>3. CASE key \notin DOMAIN own.dict
    <3>1. node.dict[key] = fallback.dict[key] /\ key \in DOMAIN fallback.dict
      BY <2>3 DEF MergeTiers, Overlay, Dict
    <3>2. Part(own, key) = Empty
      BY <2>3 DEF Part, Empty
    <3> QED BY <1>3, <3>1, <3>2, TierLevel, PartAlone
  <2>4. CASE key \in DOMAIN own.dict /\ ~IsDict(own.dict[key])
    BY <1>1, <1>3, <2>4 DEF Laid
  <2> QED BY <2>1, <2>2, <2>3, <2>4
<1>4. TiersLaid(own, own, Empty) /\ TiersLaid(own, Empty, own)
  BY LaidAlone, PartAlone, TierLevel DEF TiersLaid
<1> QED BY <1>1, <1>2, <1>3, <1>4 DEF TiersLaid

LEMMA ProviderLevel ==
  ASSUME NEW own, NEW fallback
  PROVE  /\ ProviderLaid(MergeProvider(fallback, own), own, fallback)
         /\ ProviderLaid(own, own, Empty) /\ ProviderLaid(own, Empty, own)
         /\ IsDict(MergeProvider(fallback, own))
<1> DEFINE node == MergeProvider(fallback, own)
<1>1. Laid(node, own, fallback)
  BY TiersLevel DEF Laid, MergeProvider, Overlay, Dict
<1>2. IsDict(node)
  BY DEF MergeProvider, Overlay, Dict, IsDict
<1>3. ASSUME NEW key \in DOMAIN node.dict, IsDict(node.dict[key])
      PROVE  TiersLaid(node.dict[key], Part(own, key), Part(fallback, key))
  <2>1. CASE /\ key \in DOMAIN fallback.dict /\ IsDict(fallback.dict[key])
             /\ key \in DOMAIN own.dict /\ IsDict(own.dict[key])
    <3>1. node.dict[key] = MergeTiers(fallback.dict[key], own.dict[key])
      BY <2>1 DEF MergeProvider, Overlay, Dict
    <3> QED BY <2>1, <3>1, TiersLevel, PartAlone
  <2>2. CASE key \in DOMAIN own.dict /\ ~(key \in DOMAIN fallback.dict /\ IsDict(fallback.dict[key]))
    <3>1. node.dict[key] = own.dict[key]
      BY <2>2 DEF MergeProvider, Overlay, Dict
    <3>2. Part(fallback, key) = Empty
      BY <2>2 DEF Part, Empty
    <3> QED BY <1>3, <2>2, <3>1, <3>2, TiersLevel, PartAlone
  <2>3. CASE key \notin DOMAIN own.dict
    <3>1. node.dict[key] = fallback.dict[key] /\ key \in DOMAIN fallback.dict
      BY <2>3 DEF MergeProvider, Overlay, Dict
    <3>2. Part(own, key) = Empty
      BY <2>3 DEF Part, Empty
    <3> QED BY <1>3, <3>1, <3>2, TiersLevel, PartAlone
  <2>4. CASE key \in DOMAIN own.dict /\ ~IsDict(own.dict[key])
    BY <1>1, <1>3, <2>4 DEF Laid
  <2> QED BY <2>1, <2>2, <2>3, <2>4
<1>4. ProviderLaid(own, own, Empty) /\ ProviderLaid(own, Empty, own)
  BY LaidAlone, PartAlone, TiersLevel DEF ProviderLaid
<1> QED BY <1>1, <1>2, <1>3, <1>4 DEF ProviderLaid

LEMMA SectionLevel ==
  ASSUME NEW own, NEW fallback
  PROVE  /\ SectionLaid(MergeSection(fallback, own), own, fallback)
         /\ SectionLaid(own, own, Empty) /\ SectionLaid(own, Empty, own)
         /\ IsDict(MergeSection(fallback, own))
<1> DEFINE node == MergeSection(fallback, own)
<1>1. Laid(node, own, fallback)
  BY ProviderLevel DEF Laid, MergeSection, Overlay, Dict
<1>2. IsDict(node)
  BY DEF MergeSection, Overlay, Dict, IsDict
<1>3. ASSUME NEW key \in DOMAIN node.dict, IsDict(node.dict[key])
      PROVE  ProviderLaid(node.dict[key], Part(own, key), Part(fallback, key))
  <2>1. CASE /\ key \in DOMAIN fallback.dict /\ IsDict(fallback.dict[key])
             /\ key \in DOMAIN own.dict /\ IsDict(own.dict[key])
    <3>1. node.dict[key] = MergeProvider(fallback.dict[key], own.dict[key])
      BY <2>1 DEF MergeSection, Overlay, Dict
    <3> QED BY <2>1, <3>1, ProviderLevel, PartAlone
  <2>2. CASE key \in DOMAIN own.dict /\ ~(key \in DOMAIN fallback.dict /\ IsDict(fallback.dict[key]))
    <3>1. node.dict[key] = own.dict[key]
      BY <2>2 DEF MergeSection, Overlay, Dict
    <3>2. Part(fallback, key) = Empty
      BY <2>2 DEF Part, Empty
    <3> QED BY <1>3, <2>2, <3>1, <3>2, ProviderLevel, PartAlone
  <2>3. CASE key \notin DOMAIN own.dict
    <3>1. node.dict[key] = fallback.dict[key] /\ key \in DOMAIN fallback.dict
      BY <2>3 DEF MergeSection, Overlay, Dict
    <3>2. Part(own, key) = Empty
      BY <2>3 DEF Part, Empty
    <3> QED BY <1>3, <3>1, <3>2, ProviderLevel, PartAlone
  <2>4. CASE key \in DOMAIN own.dict /\ ~IsDict(own.dict[key])
    BY <1>1, <1>3, <2>4 DEF Laid
  <2> QED BY <2>1, <2>2, <2>3, <2>4
<1>4. SectionLaid(own, own, Empty) /\ SectionLaid(own, Empty, own)
  BY LaidAlone, PartAlone, ProviderLevel DEF SectionLaid
<1> QED BY <1>1, <1>2, <1>3, <1>4 DEF SectionLaid

LEMMA FileLevel ==
  ASSUME NEW own, NEW fallback
  PROVE  /\ FileLaid(DeepMerge(fallback, own), own, fallback)
         /\ FileLaid(own, own, Empty) /\ FileLaid(own, Empty, own)
         /\ IsDict(DeepMerge(fallback, own))
<1> DEFINE node == DeepMerge(fallback, own)
<1>1. Laid(node, own, fallback)
  BY SectionLevel DEF Laid, DeepMerge, Overlay, Dict
<1>2. IsDict(node)
  BY DEF DeepMerge, Overlay, Dict, IsDict
<1>3. ASSUME NEW key \in DOMAIN node.dict, IsDict(node.dict[key])
      PROVE  SectionLaid(node.dict[key], Part(own, key), Part(fallback, key))
  <2>1. CASE /\ key \in DOMAIN fallback.dict /\ IsDict(fallback.dict[key])
             /\ key \in DOMAIN own.dict /\ IsDict(own.dict[key])
    <3>1. node.dict[key] = MergeSection(fallback.dict[key], own.dict[key])
      BY <2>1 DEF DeepMerge, Overlay, Dict
    <3> QED BY <2>1, <3>1, SectionLevel, PartAlone
  <2>2. CASE key \in DOMAIN own.dict /\ ~(key \in DOMAIN fallback.dict /\ IsDict(fallback.dict[key]))
    <3>1. node.dict[key] = own.dict[key]
      BY <2>2 DEF DeepMerge, Overlay, Dict
    <3>2. Part(fallback, key) = Empty
      BY <2>2 DEF Part, Empty
    <3> QED BY <1>3, <2>2, <3>1, <3>2, SectionLevel, PartAlone
  <2>3. CASE key \notin DOMAIN own.dict
    <3>1. node.dict[key] = fallback.dict[key] /\ key \in DOMAIN fallback.dict
      BY <2>3 DEF DeepMerge, Overlay, Dict
    <3>2. Part(own, key) = Empty
      BY <2>3 DEF Part, Empty
    <3> QED BY <1>3, <3>1, <3>2, SectionLevel, PartAlone
  <2>4. CASE key \in DOMAIN own.dict /\ ~IsDict(own.dict[key])
    BY <1>1, <1>3, <2>4 DEF Laid
  <2> QED BY <2>1, <2>2, <2>3, <2>4
<1>4. FileLaid(own, own, Empty) /\ FileLaid(own, Empty, own)
  BY LaidAlone, PartAlone, SectionLevel DEF FileLaid
<1> QED BY <1>1, <1>2, <1>3, <1>4 DEF FileLaid

-----------------------------------------------------------------------------
(* Configuration: what is read out of a merge. *)

LEMMA ItemOf ==
  ASSUME NEW node, NEW own, NEW fallback, Laid(node, own, fallback), NEW keys,
         Plainly(own, keys), Plainly(fallback, keys), NEW key \in keys, NEW default
  PROVE  Item(node, key, default) = Either(own, fallback, key, default)
BY DEF Laid, Plainly, Item, Either

LEMMA FlatIs ==
  ASSUME NEW node, NEW own, NEW fallback, Laid(node, own, fallback), NEW key
  PROVE  /\ IsDict(Section(node, key)) <=> ~Flat(own, fallback, key)
         /\ key \in DOMAIN node.dict => (IsDict(node.dict[key]) <=> ~Flat(own, fallback, key))
         /\ DOMAIN node.dict = InEither(own, fallback)
<1>1. IsDict(Dict(<<>>))
  BY EmptyIs DEF Empty
<1> QED BY <1>1 DEF Laid, Section, Flat, InEither

\* What is silent is so in both.
LEMMA SilentParts ==
  ASSUME NEW node, NEW own, NEW fallback, Laid(node, own, fallback),
         NEW key, key \notin DOMAIN node.dict
  PROVE  Section(node, key) = Empty /\ Part(own, key) = Empty /\ Part(fallback, key) = Empty
BY DEF Laid, Section, Part, Empty

LEMMA SectionIsLaid ==
  ASSUME NEW raw, NEW own, NEW fallback, FileLaid(raw, own, fallback),
         NEW s, ~Flat(own, fallback, s)
  PROVE  SectionLaid(Section(raw, s), Part(own, s), Part(fallback, s))
<1>1. Laid(raw, own, fallback)
  BY DEF FileLaid
<1>2. CASE s \in DOMAIN raw.dict
  BY <1>1, <1>2, FlatIs DEF FileLaid, Section
<1>3. CASE s \notin DOMAIN raw.dict
  BY <1>1, <1>3, SilentParts, SectionLevel
<1> QED BY <1>2, <1>3

LEMMA TiersAreLaid ==
  ASSUME NEW node, NEW own, NEW fallback, ProviderLaid(node, own, fallback),
         NEW key, ~Flat(own, fallback, key)
  PROVE  TiersLaid(Section(node, key), Part(own, key), Part(fallback, key))
<1>1. Laid(node, own, fallback)
  BY DEF ProviderLaid
<1>2. CASE key \in DOMAIN node.dict
  BY <1>1, <1>2, FlatIs DEF ProviderLaid, Section
<1>3. CASE key \notin DOMAIN node.dict
  BY <1>1, <1>3, SilentParts, TiersLevel
<1> QED BY <1>2, <1>3

\* The example knows the limit under its old name only.
OldName(fallback) == "default_limit_usd" \notin DOMAIN Part(fallback, "budget").dict

LEMMA SettingIs ==
  ASSUME NEW raw, NEW own, NEW fallback, FileLaid(raw, own, fallback),
         Shaped(own), Shaped(fallback), OldName(fallback),
         NEW s \in DOMAIN Sections, ~Flat(own, fallback, s), NEW k \in DOMAIN Sections[s]
  PROVE  Setting(raw, s, k) = Said(own, s, k, Said(fallback, s, k, Sections[s][k]))
<1> DEFINE node == Section(raw, s)
           keys == DOMAIN Sections[s] \cup {"default_limit_tokens"}
           usd == "default_limit_usd"
           tokens == "default_limit_tokens"
<1>1. Laid(node, Part(own, s), Part(fallback, s))
  BY SectionIsLaid DEF SectionLaid
<1>2. Plainly(Part(own, s), keys) /\ Plainly(Part(fallback, s), keys)
  BY DEF Shaped
<1>3. \A key \in keys : \A default : Item(node, key, default) = Either(Part(own, s), Part(fallback, s), key, default)
  BY <1>1, <1>2, ItemOf
<1>4. k \in keys /\ tokens \in keys
  OBVIOUS
<1>5. CASE k # usd
  <2>1. Setting(raw, s, k) = Item(node, k, Sections[s][k])
    BY <1>5 DEF Setting
  <2> QED BY <1>3, <1>4, <1>5, <2>1 DEF Said, Either
<1>6. CASE k = usd
  <2>1. s = "budget"
    BY <1>6 DEF Sections
  <2>2. \A default : Item(Part(fallback, s), usd, default) = default
    BY <2>1 DEF OldName, Item
  <2>3. Setting(raw, s, k) = Item(node, usd, Item(node, tokens, Sections[s][k]))
    BY <1>6 DEF Setting
  <2>4. Said(own, s, k, Said(fallback, s, k, Sections[s][k])) =
          Item(Part(own, s), usd, Item(Part(own, s), tokens,
            Item(Part(fallback, s), usd, Item(Part(fallback, s), tokens, Sections[s][k]))))
    BY <1>6 DEF Said
  <2> HIDE DEF node, keys, usd, tokens
  <2> QED BY <1>3, <1>4, <1>6, <2>2, <2>3, <2>4 DEF Either
<1> QED BY <1>5, <1>6

LEMMA ProviderIs ==
  ASSUME NEW raw, NEW own, NEW fallback, FileLaid(raw, own, fallback),
         ~Flat(own, fallback, "providers")
  PROVE  /\ DOMAIN Providers(raw) = InEither(Part(own, "providers"), Part(fallback, "providers"))
         /\ \A name \in DOMAIN Providers(raw) :
              /\ IsDict(Providers(raw)[name]) <=>
                   ~Flat(Part(own, "providers"), Part(fallback, "providers"), name)
              /\ IsDict(Providers(raw)[name]) =>
                   ProviderLaid(Providers(raw)[name], Provider(own, name), Provider(fallback, name))
<1> DEFINE node == Section(raw, "providers")
<1>1. SectionLaid(node, Part(own, "providers"), Part(fallback, "providers"))
  BY SectionIsLaid
<1>2. Providers(raw) = node.dict
  BY DEF Providers
<1> HIDE DEF node
<1>3. Laid(node, Part(own, "providers"), Part(fallback, "providers"))
  BY <1>1 DEF SectionLaid
<1> QED BY <1>1, <1>2, <1>3, FlatIs DEF SectionLaid, Provider

\* Nothing in a file that does not speak of a provider, or of a tier, is no plain value.
LEMMA PlainProvider ==
  ASSUME NEW file, Shaped(file), NEW name, NEW tier
  PROVE  Plainly(Provider(file, name), {"api_key"}) /\ Plainly(Tier(file, name, tier), DOMAIN Prices)
<1>1. \A keys : Plainly(Empty, keys)
  BY EmptyIs DEF Plainly
<1>2. CASE name \in DOMAIN Part(file, "providers").dict
  <2>1. CASE tier \in DOMAIN Part(Provider(file, name), "tiers").dict
    BY <1>2, <2>1 DEF Shaped
  <2>2. CASE tier \notin DOMAIN Part(Provider(file, name), "tiers").dict
    <3>1. Tier(file, name, tier) = Empty
      BY <2>2 DEF Tier, Part, Empty
    <3> QED BY <1>1, <1>2, <3>1 DEF Shaped
  <2> QED BY <2>1, <2>2
<1>3. CASE name \notin DOMAIN Part(file, "providers").dict
  <2>1. Provider(file, name) = Empty
    BY <1>3 DEF Provider, Part, Empty
  <2>2. Tier(file, name, tier) = Empty
    BY <2>1, EmptyIs DEF Tier
  <2> QED BY <1>1, <2>1, <2>2
<1> QED BY <1>2, <1>3

LEMMA TierIs ==
  ASSUME NEW raw, NEW own, NEW fallback, FileLaid(raw, own, fallback),
         ~Flat(own, fallback, "providers"), Shaped(own), Shaped(fallback),
         NEW name \in DOMAIN Providers(raw), IsDict(Providers(raw)[name]),
         ~Flat(Provider(own, name), Provider(fallback, name), "tiers")
  PROVE  /\ DOMAIN Tiers(raw, name) =
              InEither(Part(Provider(own, name), "tiers"), Part(Provider(fallback, name), "tiers"))
         /\ \A tier \in DOMAIN Tiers(raw, name) :
              /\ IsDict(Tiers(raw, name)[tier]) <=>
                   ~Flat(Part(Provider(own, name), "tiers"), Part(Provider(fallback, name), "tiers"), tier)
              /\ IsDict(Tiers(raw, name)[tier]) =>
                   \A k \in DOMAIN Prices : \A default :
                     Item(Tiers(raw, name)[tier], k, default) =
                       Either(Tier(own, name, tier), Tier(fallback, name, tier), k, default)
<1> DEFINE node == Section(Providers(raw)[name], "tiers")
           o == Part(Provider(own, name), "tiers")
           f == Part(Provider(fallback, name), "tiers")
<1>1. ProviderLaid(Providers(raw)[name], Provider(own, name), Provider(fallback, name))
  BY ProviderIs
<1>2. TiersLaid(node, o, f)
  BY <1>1, TiersAreLaid
<1>3. Tiers(raw, name) = node.dict
  BY DEF Tiers
<1>4. \A tier : Tier(own, name, tier) = Part(o, tier) /\ Tier(fallback, name, tier) = Part(f, tier)
  BY DEF Tier
<1> HIDE DEF node, o, f
<1>5. Laid(node, o, f)
  BY <1>2 DEF TiersLaid
<1>6. ASSUME NEW tier \in DOMAIN node.dict, IsDict(node.dict[tier]), NEW k \in DOMAIN Prices, NEW default
      PROVE  Item(node.dict[tier], k, default) =
               Either(Tier(own, name, tier), Tier(fallback, name, tier), k, default)
  <2>1. Laid(node.dict[tier], Tier(own, name, tier), Tier(fallback, name, tier))
    BY <1>2, <1>4, <1>6 DEF TiersLaid
  <2>2. /\ Plainly(Tier(own, name, tier), DOMAIN Prices)
        /\ Plainly(Tier(fallback, name, tier), DOMAIN Prices)
    BY PlainProvider
  <2> QED BY <2>1, <2>2, ItemOf
<1>7. DOMAIN node.dict = InEither(o, f)
  BY <1>5, FlatIs
<1>8. \A tier \in DOMAIN node.dict : IsDict(node.dict[tier]) <=> ~Flat(o, f, tier)
  BY <1>5, FlatIs
<1> QED BY <1>3, <1>6, <1>7, <1>8 DEF o, f

\* A provider is read exactly if it is readable.
LEMMA ProviderReadable ==
  ASSUME NEW raw, FileLaid(raw, File, Fallback), Shaped(File), Shaped(Fallback),
         ~Flat(File, Fallback, "providers"), NEW name \in DOMAIN Providers(raw)
  PROVE  ~UnreadableProvider(name) <=>
           /\ IsDict(Providers(raw)[name]) /\ IsDict(Section(Providers(raw)[name], "tiers"))
           /\ \A tier \in DOMAIN Tiers(raw, name) :
                /\ IsDict(Tiers(raw, name)[tier])
                /\ \A key \in DOMAIN Prices : Item(Tiers(raw, name)[tier], key, 0) \in DOMAIN AsFloat
<1> DEFINE own == Provider(File, name)
           fallback == Provider(Fallback, name)
           o == Part(own, "tiers")
           f == Part(fallback, "tiers")
           Price(tier, k) == Either(Tier(File, name, tier), Tier(Fallback, name, tier), k, 0)
<1>1. UnreadableProvider(name) <=>
        \/ Flat(Part(File, "providers"), Part(Fallback, "providers"), name)
        \/ Flat(own, fallback, "tiers")
        \/ \E tier \in InEither(o, f) :
             Flat(o, f, tier) \/ \E k \in DOMAIN Prices : Price(tier, k) \notin DOMAIN AsFloat
  <2>1. \A k \in DOMAIN Prices : Prices[k] = 0
    BY DEF Prices
  <2> QED BY <2>1 DEF UnreadableProvider
<1>2. IsDict(Providers(raw)[name]) <=>
        ~Flat(Part(File, "providers"), Part(Fallback, "providers"), name)
  BY ProviderIs
<1>3. CASE Flat(Part(File, "providers"), Part(Fallback, "providers"), name)
  BY <1>1, <1>2, <1>3
<1>4. CASE ~Flat(Part(File, "providers"), Part(Fallback, "providers"), name)
  <2>1. ProviderLaid(Providers(raw)[name], own, fallback)
    BY <1>2, <1>4, ProviderIs
  <2>2. IsDict(Section(Providers(raw)[name], "tiers")) <=> ~Flat(own, fallback, "tiers")
    BY <2>1, FlatIs DEF ProviderLaid
  <2>3. CASE Flat(own, fallback, "tiers")
    BY <1>1, <2>2, <2>3
  <2>4. CASE ~Flat(own, fallback, "tiers")
    <3>1. DOMAIN Tiers(raw, name) = InEither(o, f)
      BY <1>2, <1>4, <2>4, TierIs
    <3>2. ASSUME NEW tier \in DOMAIN Tiers(raw, name)
          PROVE  /\ IsDict(Tiers(raw, name)[tier]) <=> ~Flat(o, f, tier)
                 /\ IsDict(Tiers(raw, name)[tier]) =>
                      \A k \in DOMAIN Prices : Item(Tiers(raw, name)[tier], k, 0) = Price(tier, k)
      BY <1>2, <1>4, <2>4, TierIs
    <3> HIDE DEF own, fallback, o, f, Price
    <3> QED BY <1>1, <1>2, <1>4, <2>2, <2>4, <3>1, <3>2
  <2> QED BY <2>3, <2>4
<1> QED BY <1>3, <1>4

\* The two files, as they are on disk and as load_config chooses them.
FilesInv ==
  /\ files["config.yaml"] \in Canonical /\ files["config.ci.yaml"] \in Ci
  /\ files["config.example.yaml"] \in Example
  /\ path \in Paths

LEMMA FilesAre ==
  ASSUME FilesInv, Chosen(files, path) # Absent,
         Mapping(Chosen(files, path), files["config.example.yaml"])
  PROVE  /\ File \in Present /\ Fallback \in Present \cup {Empty}
         /\ Shaped(File) /\ Shaped(Fallback) /\ OldName(Fallback)
         /\ FileLaid(Merged(Chosen(files, path), files["config.example.yaml"]), File, Fallback)
<1> DEFINE file == Chosen(files, path)
           example == files["config.example.yaml"]
<1>1. file \in Canonical \cup Ci \cup Example
  <2>1. path # Null => path \in Names
    BY PathAssumption DEF FilesInv
  <2> QED BY <2>1 DEF FilesInv, Chosen, Names
<1>2. File \in Present /\ Shaped(File)
  BY <1>1, FileAssumption DEF File, Present, Mapping
<1>3. Shaped(Empty)
  <2>1. \A keys : Plainly(Empty, keys)
    BY EmptyIs DEF Plainly
  <2>2. \A name, tier : Provider(Empty, name) = Empty /\ Tier(Empty, name, tier) = Empty
    BY EmptyIs DEF Provider, Tier
  <2> QED BY <2>1, <2>2, EmptyIs DEF Shaped
<1>4. CASE example = Absent
  <2>1. Fallback = Empty /\ Merged(file, example) = File
    BY <1>4 DEF Fallback, Empty, Merged, File
  <2>2. OldName(Empty)
    BY EmptyIs DEF OldName
  <2> QED BY <1>2, <1>3, <2>1, <2>2, FileLevel
<1>5. CASE example # Absent
  <2>1. Fallback = Content(example) /\ Merged(file, example) = DeepMerge(Fallback, File)
    BY <1>5 DEF Fallback, Merged, File
  <2>2. Fallback \in Present /\ Shaped(Fallback)
    BY <1>5, <2>1, FileAssumption DEF Present, FilesInv, Mapping
  <2>3. OldName(Fallback)
    BY <1>5, <2>1, <2>2, ExampleAssumption DEF FilesInv, OldName
  <2> QED BY <1>2, <2>1, <2>2, <2>3, FileLevel
<1> QED BY <1>4, <1>5

LEMMA ReadableIs ==
  ASSUME NEW raw, FileLaid(raw, File, Fallback),
         Shaped(File), Shaped(Fallback), OldName(Fallback)
  PROVE  Readable(raw) <=>
           /\ \A s \in DOMAIN Sections \cup {"providers"} : ~Flat(File, Fallback, s)
           /\ \A s \in Numeric : \A k \in DOMAIN Sections[s] : Wanted(s, k) \in DOMAIN Conversion(s, k)
           /\ \A name \in InEither(Part(File, "providers"), Part(Fallback, "providers")) :
                ~UnreadableProvider(name)
<1>1. \A s : IsDict(Section(raw, s)) <=> ~Flat(File, Fallback, s)
  BY FlatIs DEF FileLaid
<1>2. CASE \A s \in DOMAIN Sections \cup {"providers"} : ~Flat(File, Fallback, s)
  <2>1. \A s \in Numeric : \A k \in DOMAIN Sections[s] : Setting(raw, s, k) = Wanted(s, k)
    <3>1. Numeric \subseteq DOMAIN Sections
      BY DEF Numeric, Sections
    <3> QED BY <1>2, <3>1, SettingIs DEF Wanted
  <2>2. DOMAIN Providers(raw) = InEither(Part(File, "providers"), Part(Fallback, "providers"))
    BY <1>2, ProviderIs
  <2>3. \A name \in DOMAIN Providers(raw) :
          ~UnreadableProvider(name) <=>
            /\ IsDict(Providers(raw)[name]) /\ IsDict(Section(Providers(raw)[name], "tiers"))
            /\ \A tier \in DOMAIN Tiers(raw, name) :
                 /\ IsDict(Tiers(raw, name)[tier])
                 /\ \A key \in DOMAIN Prices : Item(Tiers(raw, name)[tier], key, 0) \in DOMAIN AsFloat
    BY <1>2, ProviderReadable
  <2> QED BY <1>1, <1>2, <2>1, <2>2, <2>3 DEF Readable
<1>3. CASE ~\A s \in DOMAIN Sections \cup {"providers"} : ~Flat(File, Fallback, s)
  BY <1>1, <1>3 DEF Readable
<1> QED BY <1>2, <1>3

LEMMA ParsedIs ==
  ASSUME NEW raw, FileLaid(raw, File, Fallback),
         Shaped(File), Shaped(Fallback), OldName(Fallback), Readable(raw), config = Parsed(raw)
  PROVE  OwnSettingsWin
<1>1. /\ \A s \in DOMAIN Sections \cup {"providers"} : ~Flat(File, Fallback, s)
      /\ \A name \in InEither(Part(File, "providers"), Part(Fallback, "providers")) :
           ~UnreadableProvider(name)
  BY ReadableIs
<1>2. \A k \in DOMAIN TopLevel : config.top[k] = AsText(Either(File, Fallback, k, TopLevel[k]))
  <2>1. \A k \in DOMAIN TopLevel : config.top[k] = AsText(Item(raw, k, TopLevel[k]))
    BY DEF Parsed
  <2>2. Plainly(File, DOMAIN TopLevel) /\ Plainly(Fallback, DOMAIN TopLevel)
    BY DEF Shaped
  <2> QED BY <2>1, <2>2, ItemOf DEF FileLaid
<1>3. \A s \in DOMAIN Sections : \A k \in DOMAIN Sections[s] :
        config.sections[s][k] = Converted(s, k, Wanted(s, k))
  <2>1. \A s \in DOMAIN Sections : \A k \in DOMAIN Sections[s] :
          config.sections[s][k] = Converted(s, k, Setting(raw, s, k))
    BY DEF Parsed
  <2> QED BY <1>1, <2>1, SettingIs DEF Wanted
<1>4. /\ DOMAIN config.keys = DOMAIN Providers(raw)
      /\ DOMAIN config.prices = DOMAIN Providers(raw)
      /\ DOMAIN Providers(raw) = InEither(Part(File, "providers"), Part(Fallback, "providers"))
  BY <1>1, ProviderIs DEF Parsed
<1>5. ASSUME NEW name \in DOMAIN Providers(raw)
      PROVE  config.keys[name] =
               Either(Provider(File, name), Provider(Fallback, name), "api_key", <<>>)
  <2>1. config.keys[name] = Item(Providers(raw)[name], "api_key", <<>>)
    BY DEF Parsed
  <2>2. IsDict(Providers(raw)[name])
    BY DEF Readable
  <2>3. Laid(Providers(raw)[name], Provider(File, name), Provider(Fallback, name))
    BY <1>1, <2>2, ProviderIs DEF ProviderLaid
  <2>4. Plainly(Provider(File, name), {"api_key"}) /\ Plainly(Provider(Fallback, name), {"api_key"})
    BY PlainProvider
  <2> QED BY <2>1, <2>3, <2>4, ItemOf
<1>6. ASSUME NEW name \in DOMAIN Providers(raw)
      PROVE  /\ DOMAIN config.prices[name] =
                  InEither(Part(Provider(File, name), "tiers"), Part(Provider(Fallback, name), "tiers"))
             /\ \A tier \in DOMAIN config.prices[name] : \A k \in DOMAIN Prices :
                  config.prices[name][tier][k] =
                    AsFloat[Either(Tier(File, name, tier), Tier(Fallback, name, tier), k, Prices[k])]
  <2>1. config.prices[name] =
          [tier \in DOMAIN Tiers(raw, name) |->
             [key \in DOMAIN Prices |-> AsFloat[Item(Tiers(raw, name)[tier], key, Prices[key])]]]
    BY DEF Parsed
  <2>2. IsDict(Providers(raw)[name]) /\ \A tier \in DOMAIN Tiers(raw, name) : IsDict(Tiers(raw, name)[tier])
    BY DEF Readable
  <2>3. ~Flat(Provider(File, name), Provider(Fallback, name), "tiers")
    BY <1>1, <1>4 DEF UnreadableProvider
  <2> HIDE DEF Tiers
  <2> QED BY <1>1, <2>1, <2>2, <2>3, TierIs
<1>7. \A name \in DOMAIN config.keys : name \in DOMAIN Providers(raw)
  BY <1>4
<1>8. /\ DOMAIN config.keys = InEither(Part(File, "providers"), Part(Fallback, "providers"))
      /\ DOMAIN config.prices = DOMAIN config.keys
  BY <1>4
<1> QED BY <1>2, <1>3, <1>5, <1>6, <1>7, <1>8 DEF OwnSettingsWin

-----------------------------------------------------------------------------
(* Configuration: theorems. *)

\* The files stay as they are, and the configuration is what load_config makes of them.
ConfigInv == FilesInv /\ (config = Unread \/ config = LoadConfig(files, path))

LEMMA ConfigInduction == Spec => []ConfigInv
<1>1. Init => ConfigInv
  BY DEF Init, ConfigInv, FilesInv, Names
<1>2. ConfigInv /\ [Next]_vars => ConfigInv'
  <2> SUFFICES ASSUME ConfigInv, [Next]_vars PROVE ConfigInv'
    OBVIOUS
  <2>1. UNCHANGED <<files, path>>
    BY DEF Next, Load, RedactOutput, vars
  <2>2. config' = LoadConfig(files, path) \/ UNCHANGED config
    BY DEF Next, Load, RedactOutput, vars
  <2>3. LoadConfig(files, path)' = LoadConfig(files, path)
    BY <2>1
  <2> QED BY <2>1, <2>2, <2>3 DEF ConfigInv, FilesInv
<1> QED BY <1>1, <1>2, PTL DEF Spec

\* A configuration is none of the two things that stand for no configuration.
LEMMA Outcomes ==
  ASSUME NEW raw
  PROVE  Parsed(raw) # Failure /\ Parsed(raw) # Unread /\ Failure # Unread
<1>1. DOMAIN Parsed(raw) # {"outcome"}
  BY DEF Parsed
<1>2. DOMAIN Failure = {"outcome"} /\ DOMAIN Unread = {"outcome"}
  BY DEF Failure, Unread
<1>3. Failure.outcome # Unread.outcome
  BY DEF Failure, Unread
<1> QED BY <1>1, <1>2, <1>3

LEMMA ConfigIsRight == ConfigInv => OwnSettingsWin /\ RaisesForUnreadableFiles
<1> SUFFICES ASSUME ConfigInv PROVE OwnSettingsWin /\ RaisesForUnreadableFiles
  OBVIOUS
<1> DEFINE file == Chosen(files, path)
           example == files["config.example.yaml"]
           raw == Merged(file, example)
<1>1. CASE config = Unread
  BY <1>1, Outcomes DEF OwnSettingsWin, Loaded, RaisesForUnreadableFiles
<1>2. CASE config = LoadConfig(files, path) /\ file = Absent
  <2>1. config = Failure
    BY <1>2 DEF LoadConfig
  <2> QED BY <1>2, <2>1, Outcomes DEF OwnSettingsWin, Loaded, RaisesForUnreadableFiles
<1>3. CASE config = LoadConfig(files, path) /\ file # Absent /\ ~Mapping(file, example)
  <2>1. config = Failure
    BY <1>3 DEF LoadConfig
  <2>2. ~IsDict(File) \/ ~IsDict(Fallback)
    BY <1>3 DEF File, Fallback, Mapping
  <2> QED BY <1>3, <2>1, <2>2, Outcomes DEF OwnSettingsWin, Loaded, RaisesForUnreadableFiles
<1>4. CASE config = LoadConfig(files, path) /\ file # Absent /\ Mapping(file, example)
  <2>1. config = IF ~Readable(raw) THEN Failure ELSE Parsed(raw)
    BY <1>4 DEF LoadConfig
  <2>2. /\ Shaped(File) /\ Shaped(Fallback) /\ OldName(Fallback)
        /\ FileLaid(raw, File, Fallback)
    BY <1>4, FilesAre DEF ConfigInv
  <2>3. IsDict(File) /\ IsDict(Fallback)
    BY <1>4, EmptyIs DEF File, Fallback, Mapping, Empty
  <2> HIDE DEF raw
  <2>4. OwnSettingsWin
    <3>1. CASE Readable(raw)
      BY <2>1, <2>2, <3>1, ParsedIs
    <3>2. CASE ~Readable(raw)
      BY <2>1, <3>2 DEF OwnSettingsWin, Loaded
    <3> QED BY <3>1, <3>2
  <2>5. config # Unread /\ (config = Failure <=> ~Readable(raw))
    BY <2>1, Outcomes
  <2>6. RaisesForUnreadableFiles
    BY <1>4, <2>2, <2>3, <2>5, ReadableIs DEF RaisesForUnreadableFiles
  <2> QED BY <2>4, <2>6
<1> QED BY <1>1, <1>2, <1>3, <1>4 DEF ConfigInv

\* A setting is what the chosen file says, else what the example says, else the
\* default, for any two files whose plain values are plain (_deep_merge and
\* load_config, config.py:75-176).
THEOREM SettingsCorrect == Spec => []OwnSettingsWin
BY ConfigInduction, ConfigIsRight, PTL

\* For any two files that are YAML and whose plain values are plain, load_config
\* raises exactly if there is no file, or a file, a section, a provider or a tier is
\* no dictionary or a number none that int() or float() takes (config.py:85-163).
THEOREM RaisesCorrect == Spec => []RaisesForUnreadableFiles
BY ConfigInduction, ConfigIsRight, PTL

-----------------------------------------------------------------------------
(* A process with a configuration is a redactor for the keys of its files. *)

LEMMA KeysAreGiven ==
  ASSUME ConfigInv, Loaded
  PROVE  Keys \subseteq Given
<1>1. /\ config = LoadConfig(files, path) /\ Chosen(files, path) # Absent
      /\ Mapping(Chosen(files, path), files["config.example.yaml"])
  BY DEF ConfigInv, Loaded, LoadConfig
<1>2. File \in Present /\ Fallback \in Present \cup {Empty}
  BY <1>1, FilesAre DEF ConfigInv
<1> SUFFICES ASSUME NEW name \in DOMAIN config.keys PROVE config.keys[name] \in Given
  BY DEF Keys
<1> DEFINE own == Provider(File, name)
           fallback == Provider(Fallback, name)
<1>3. config.keys[name] = Either(own, fallback, "api_key", <<>>)
  BY ConfigIsRight DEF OwnSettingsWin
<1>4. ASSUME NEW file \in Present \cup {Empty}
      PROVE  Item(Provider(file, name), "api_key", <<>>) \in Given
  <2>1. CASE name \in DOMAIN Part(file, "providers").dict
    <3>1. file # Empty
      BY <2>1, EmptyIs
    <3> QED BY <2>1, <3>1 DEF Given, KeysOf
  <2>2. CASE name \notin DOMAIN Part(file, "providers").dict
    <3>1. Provider(file, name) = Empty
      BY <2>2 DEF Provider, Part, Empty
    <3>2. Item(Empty, "api_key", <<>>) = <<>>
      BY EmptyIs DEF Item
    <3> QED BY <3>1, <3>2 DEF Given
  <2> QED BY <2>1, <2>2
<1>5. \/ Either(own, fallback, "api_key", <<>>) = Item(own, "api_key", <<>>)
      \/ Either(own, fallback, "api_key", <<>>) = Item(fallback, "api_key", <<>>)
  BY DEF Either, Item
<1> QED BY <1>2, <1>3, <1>4, <1>5

\* Startup implements the redactor by itself: it cuts out nothing but keys that a
\* file gives, and does nothing else to a text (run.py:191-203).
THEOREM StartupRedacts == Spec => RedactorSpec(Given)
<1>1. Init => RedactorInit
  BY DEF Init
<1>2. ConfigInv /\ [Next]_vars => [RedactorNext(Given)]_redactor
  <2> SUFFICES ASSUME ConfigInv, [Next]_vars PROVE [RedactorNext(Given)]_redactor
    OBVIOUS
  <2>1. CASE Load
    BY <2>1 DEF Load
  <2>2. CASE RedactOutput
    <3>1. PICK keys \in SUBSET Keys : Redact(keys)
      BY <2>2 DEF RedactOutput
    <3>2. keys \in SUBSET Given
      BY <2>2, KeysAreGiven DEF RedactOutput
    <3> QED BY <3>1, <3>2 DEF RedactorNext
  <2>3. CASE Redacting
    BY <2>3 DEF RedactorNext
  <2>4. CASE UNCHANGED vars
    BY <2>4 DEF vars
  <2> QED BY <2>1, <2>2, <2>3, <2>4 DEF Next
<1> QED BY <1>1, <1>2, ConfigInduction, PTL DEF Spec, RedactorSpec

\* So what holds of the redactor by itself holds of a process of the gateway,
\* whatever files it was started with: no configured key is left in what it lets
\* out or shows to the judge, the rest of a text gets through, and it is reported
\* for what it is (redact.py:39-76, run.py:191-203).
THEOREM OutputsCorrect ==
  Spec => /\ []RedactorTypeOK
          /\ []NoKeyLeft
          /\ []RestUntouched
          /\ []LogSafeIfUntouched
          /\ []OrderIrrelevant
<1>1. RedactorSpec(Given) => []RedactorTypeOK
  BY TextAssumption, TypeCorrect
<1>2. RedactorSpec(Given) => []NoKeyLeft
  BY TextAssumption, KeysCorrect
<1>3. RedactorSpec(Given) => []RestUntouched
  BY TextAssumption, RestCorrect
<1>4. RedactorSpec(Given) => []LogSafeIfUntouched
  BY TextAssumption, LogCorrect
<1>5. RedactorSpec(Given) => []OrderIrrelevant
  BY TextAssumption, OrderCorrect
<1> QED BY <1>1, <1>2, <1>3, <1>4, <1>5, StartupRedacts, PTL
=============================================================================
