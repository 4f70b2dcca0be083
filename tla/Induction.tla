------------------------------- MODULE Induction -------------------------------
(***************************************************************************)
(* Induction over data, for the proofs about what a loop computes.  The    *)
(* library's induction theorems take an operator, which the provers cannot *)
(* instantiate; but that every nonempty set of naturals has a least member *)
(* is a statement about sets, and so is all that follows from it here.     *)
(***************************************************************************)
EXTENDS Integers, Filtering, Functions, WellFoundedInduction, TLAPS

LEMMA Least ==
  ASSUME NEW S \in SUBSET Nat, S # {}
  PROVE  \E n \in S : \A m \in S : n <= m
<1>1. \E n \in S : \A m \in S : ~(<<m, n>> \in OpToRel(<, Nat))
  BY NatLessThanWellFounded, WFMin, Zenon
<1>2. \A m, n \in Nat : m < n => <<m, n>> \in OpToRel(<, Nat)
  BY Zenon DEF OpToRel
<1>3. \E n \in S : \A m \in S : ~(m < n)
  BY <1>1, <1>2, Zenon
<1>4. QED
  BY <1>3

LEMMA SetInduction ==
  ASSUME NEW S, 0 \in S, \A n \in Nat : n \in S => n + 1 \in S
  PROVE  Nat \subseteq S
<1> SUFFICES ASSUME Nat \ S # {} PROVE FALSE
  OBVIOUS
<1>1. PICK n \in Nat \ S : \A m \in Nat \ S : n <= m
  BY Least
<1>2. n # 0 /\ n - 1 \in Nat
  BY <1>1
<1>3. n - 1 \in S
  BY <1>1, <1>2
<1>4. QED
  BY <1>1, <1>2, <1>3

\* g is the function defined by this recursion on 0..n.
Recurses(g, n, D, first, next) ==
  g \in [0..n -> D] /\ g[0] = first /\ \A i \in 1..n : g[i] = next[i][g[i - 1]]

\* There is one.
LEMMA Recursion ==
  ASSUME NEW n \in Nat, NEW D, NEW first \in D, NEW next \in [1..n -> [D -> D]]
  PROVE  \E g : Recurses(g, n, D, first, next)
<1> DEFINE Upto(m) == \E g \in [0..m -> D] :
                        g[0] = first /\ \A i \in 1..m : g[i] = next[i][g[i - 1]]
           S == {m \in Nat : m <= n => Upto(m)}
<1>1. Upto(0)
  <2> DEFINE g == [i \in 0..0 |-> first]
  <2>1. g \in [0..0 -> D] /\ g[0] = first /\ 1..0 = {}
    OBVIOUS
  <2> HIDE DEF g
  <2>2. QED
    BY <2>1
<1>2. ASSUME NEW m \in Nat, m + 1 <= n, Upto(m) PROVE Upto(m + 1)
  <2>1. PICK g \in [0..m -> D] :
          g[0] = first /\ \A i \in 1..m : g[i] = next[i][g[i - 1]]
    BY <1>2
  <2>2. m + 1 \in 1..n /\ next[m + 1][g[m]] \in D
    BY <1>2, <2>1
  <2> DEFINE h == [i \in 0..(m + 1) |-> IF i = m + 1 THEN next[m + 1][g[m]] ELSE g[i]]
  <2>3. h \in [0..(m + 1) -> D] /\ h[0] = first
    BY <2>1, <2>2
  <2>4. h[m + 1] = next[m + 1][h[m]] /\ \A i \in 1..m : h[i] = g[i] /\ h[i - 1] = g[i - 1]
    OBVIOUS
  <2> HIDE DEF h
  <2>5. \A i \in 1..(m + 1) : h[i] = next[i][h[i - 1]]
    BY <2>1, <2>4
  <2>6. QED
    BY <2>3, <2>5
<1> HIDE DEF Upto
<1>3. 0 \in S /\ \A m \in Nat : m \in S => m + 1 \in S
  BY <1>1, <1>2
<1>4. n \in S
  BY <1>3, SetInduction
<1>5. QED
  BY <1>4 DEF Upto, Recurses


-------------------------------------------------------------------------------
(* Filter: the lists of its loop, one for each prefix of s. *)

Keeps(kept, s, T, D) ==
  /\ kept \in [0..Len(s) -> Seq(D)]
  /\ kept[0] = <<>>
  /\ \A i \in 1..Len(s) :
       kept[i] = IF s[i] \in T THEN Append(kept[i - 1], s[i]) ELSE kept[i - 1]

LEMMA FilterLoop ==
  ASSUME NEW D, NEW s \in Seq(D), NEW T
  PROVE  \E kept : Keeps(kept, s, T, D) /\ Filter(s, T) = kept[Len(s)]
<1> DEFINE n == Len(s)
           next == [i \in 1..n |-> [x \in Seq(D) |-> IF s[i] \in T THEN Append(x, s[i]) ELSE x]]
           P(g) == g = [i \in 0..n |->
                          IF i = 0 THEN <<>>
                          ELSE IF s[i] \in T THEN Append(g[i - 1], s[i]) ELSE g[i - 1]]
           kept == CHOOSE g : P(g)
<1>1. n \in Nat /\ \A i \in 1..n : s[i] \in D
  OBVIOUS
<1>2. next \in [1..n -> [Seq(D) -> Seq(D)]]
  BY <1>1
<1>3. PICK g : Recurses(g, n, Seq(D), <<>>, next)
  <2>1. <<>> \in Seq(D)
    OBVIOUS
  <2> HIDE DEF next, n
  <2>2. QED
    BY <1>1, <1>2, <2>1, Recursion
<1>4. ASSUME NEW i \in 1..n
      PROVE  g[i] = IF s[i] \in T THEN Append(g[i - 1], s[i]) ELSE g[i - 1]
  <2>1. i - 1 \in 0..n
    BY <1>1
  <2>2. g[i - 1] \in Seq(D)
    BY <2>1, <1>3 DEF Recurses
  <2>3. QED
    BY <2>2, <1>3 DEF Recurses
<1>5. P(g)
  <2> HIDE DEF n
  <2>1. g = [i \in 0..n |-> g[i]]
    BY <1>3 DEF Recurses
  <2>2. \A i \in 0..n : i = 0 \/ i \in 1..n
    BY <1>1
  <2>3. \A i \in 0..n : g[i] = IF i = 0 THEN <<>>
                          ELSE IF s[i] \in T THEN Append(g[i - 1], s[i]) ELSE g[i - 1]
    BY <1>3, <1>4, <2>2 DEF Recurses
  <2>4. QED
    BY <2>1, <2>3
<1>6. P(kept)
  <2> HIDE DEF P
  <2>1. QED
    BY <1>5, Zenon
<1>7. Filter(s, T) = kept[n]
  BY Zenon DEF Filter
<1> HIDE DEF kept, n
<1>8. kept[0] = <<>>
  BY <1>1, <1>6
<1>9. \A i \in 1..n :
        kept[i] = IF s[i] \in T THEN Append(kept[i - 1], s[i]) ELSE kept[i - 1]
  <2>1. \A i \in 0..n :
          kept[i] = IF i = 0 THEN <<>>
                    ELSE IF s[i] \in T THEN Append(kept[i - 1], s[i]) ELSE kept[i - 1]
    BY <1>6, Zenon
  <2>2. \A i \in 1..n : i \in 0..n /\ i # 0
    BY <1>1
  <2>3. QED
    BY <2>1, <2>2, Zenon
<1>10. kept \in [0..n -> Seq(D)]
  <2> DEFINE S == {i \in Nat : i <= n => kept[i] \in Seq(D)}
  <2>1. 0 \in S
    <3>1. <<>> \in Seq(D)
      OBVIOUS
    <3>2. QED
      BY <3>1, <1>8
  <2>2. ASSUME NEW i \in Nat, i \in S PROVE i + 1 \in S
    <3> SUFFICES ASSUME i + 1 <= n PROVE kept[i + 1] \in Seq(D)
      OBVIOUS
    <3>1. i + 1 \in 1..n /\ kept[i] \in Seq(D) /\ (i + 1) - 1 = i
      BY <2>2, <1>1
    <3>2. kept[i + 1] = IF s[i + 1] \in T THEN Append(kept[i], s[i + 1]) ELSE kept[i]
      BY <3>1, <1>9
    <3>3. QED
      BY <3>1, <3>2, <1>1
  <2>3. Nat \subseteq S
    <3> HIDE DEF S
    <3> QED BY <2>1, <2>2, SetInduction
  <2>4. \A i \in 0..n : kept[i] \in Seq(D)
    BY <2>3, <1>1
  <2>5. kept = [i \in 0..n |-> kept[i]]
    BY <1>6
  <2>6. QED
    BY <2>4, <2>5
<1>11. QED
  BY <1>7, <1>8, <1>9, <1>10 DEF n, Keeps

\* What is kept: the members of T, each as often as before if that is once.
LEMMA FilterKeeps ==
  ASSUME NEW D, NEW s \in Seq(D), NEW T
  PROVE  /\ Filter(s, T) \in Seq(D)
         /\ Range(Filter(s, T)) = Range(s) \cap T
         /\ IsInjective(s) => IsInjective(Filter(s, T))
<1> DEFINE n == Len(s)
<1>1. PICK kept : Keeps(kept, s, T, D) /\ Filter(s, T) = kept[n]
  BY FilterLoop
<1>2. n \in Nat /\ DOMAIN s = 1..n /\ \A i \in 1..n : s[i] \in D
  OBVIOUS
<1>3. /\ kept \in [0..n -> Seq(D)] /\ kept[0] = <<>>
      /\ \A i \in 1..n :
           kept[i] = IF s[i] \in T THEN Append(kept[i - 1], s[i]) ELSE kept[i - 1]
  BY <1>1 DEF Keeps
<1> DEFINE Same(i) == \A x : x \in Range(kept[i]) <=> x \in T /\ \E j \in 1..i : s[j] = x
           Once(i) == IsInjective(s) => IsInjective(kept[i])
           S == {i \in Nat : i <= n => Same(i) /\ Once(i)}
<1> HIDE DEF n
<1>4. Same(0) /\ Once(0)
  BY <1>3 DEF Range, IsInjective
<1>5. ASSUME NEW i \in Nat, i + 1 <= n, Same(i), Once(i)
      PROVE  Same(i + 1) /\ Once(i + 1)
  <2>1. /\ i + 1 \in 1..n /\ i \in 0..n /\ (i + 1) - 1 = i
        /\ \A j : j \in 1..(i + 1) <=> j \in 1..i \/ j = i + 1
        /\ \A j \in 1..i : j \in 1..n /\ j # i + 1
    BY <1>5, <1>2
  <2> DEFINE old == kept[i]
             e == s[i + 1]
  <2>2. old \in Seq(D) /\ e \in D
    BY <2>1, <1>2, <1>3
  <2>3. kept[i + 1] = IF e \in T THEN Append(old, e) ELSE old
    BY <2>1, <1>3
  <2>4. /\ \A x : x \in Range(old) <=> x \in T /\ \E j \in 1..i : s[j] = x
        /\ IsInjective(s) => IsInjective(old)
    BY <1>5
  <2> HIDE DEF old, e
  <2>5. CASE e \notin T
    <3>1. kept[i + 1] = old
      BY <2>3, <2>5
    <3>2. Same(i + 1)
      BY <3>1, <2>1, <2>4, <2>5 DEF e
    <3>3. QED
      BY <3>1, <3>2, <2>4
  <2>6. CASE e \in T
    <3>1. /\ kept[i + 1] = Append(old, e)
          /\ DOMAIN Append(old, e) = 1..(Len(old) + 1) /\ Len(old) \in Nat
          /\ DOMAIN old = 1..Len(old)
          /\ Append(old, e)[Len(old) + 1] = e
          /\ \A j \in 1..Len(old) : Append(old, e)[j] = old[j]
      BY <2>2, <2>3, <2>6
    <3>2. \A x : x \in Range(kept[i + 1]) <=> x \in Range(old) \/ x = e
      <4>1. \A j : j \in 1..(Len(old) + 1) <=> j \in 1..Len(old) \/ j = Len(old) + 1
        BY <3>1
      <4>2. QED
        BY <3>1, <4>1 DEF Range
    <3>3. Same(i + 1)
      BY <3>2, <2>1, <2>4, <2>6 DEF e
    <3>4. Once(i + 1)
      <4> SUFFICES ASSUME IsInjective(s) PROVE IsInjective(Append(old, e))
        BY <3>1
      <4>1. \A j \in 1..i : s[j] # e
        BY <2>1, <1>2 DEF e, IsInjective
      <4>2. e \notin Range(old)
        BY <4>1, <2>4
      <4>3. \A j \in 1..Len(old) : old[j] # e
        BY <4>2, <3>1 DEF Range
      <4>4. \A j, k \in 1..Len(old) : old[j] = old[k] => j = k
        BY <2>4, <3>1 DEF IsInjective
      <4>5. SUFFICES ASSUME NEW j \in 1..(Len(old) + 1), NEW k \in 1..(Len(old) + 1),
                            Append(old, e)[j] = Append(old, e)[k]
                     PROVE  j = k
        BY <3>1 DEF IsInjective
      <4>6. QED
        BY <4>3, <4>4, <4>5, <3>1
    <3>5. QED
      BY <3>3, <3>4
  <2>7. QED
    BY <2>5, <2>6
<1> HIDE DEF Same, Once
<1>6. 0 \in S /\ \A i \in Nat : i \in S => i + 1 \in S
  BY <1>4, <1>5, <1>2
<1>7. n \in S
  BY <1>6, <1>2, SetInduction
<1>8. Same(n) /\ Once(n)
  BY <1>7, <1>2
<1>9. Filter(s, T) \in Seq(D)
  BY <1>1, <1>2, <1>3
<1>10. Range(Filter(s, T)) = Range(s) \cap T
  BY <1>1, <1>2, <1>8 DEF Same, Range
<1>11. QED
  BY <1>1, <1>8, <1>9, <1>10 DEF Once

\* One more element is kept at the end, if it is.
LEMMA FilterAppend ==
  ASSUME NEW D, NEW s \in Seq(D), NEW e \in D, NEW T
  PROVE  Filter(Append(s, e), T) = IF e \in T THEN Append(Filter(s, T), e)
                                   ELSE Filter(s, T)
<1> DEFINE n == Len(s)
           r == Append(s, e)
<1>1. PICK kept : Keeps(kept, s, T, D) /\ Filter(s, T) = kept[n]
  BY FilterLoop
<1>2. n \in Nat /\ r \in Seq(D) /\ Len(r) = n + 1
      /\ r[n + 1] = e /\ \A i \in 1..n : r[i] = s[i]
  OBVIOUS
<1> HIDE DEF r
<1>3. PICK more : Keeps(more, r, T, D) /\ Filter(r, T) = more[n + 1]
  BY <1>2, FilterLoop
<1> HIDE DEF n
<1>4. /\ kept[0] = <<>>
      /\ \A i \in 1..n :
           kept[i] = IF s[i] \in T THEN Append(kept[i - 1], s[i]) ELSE kept[i - 1]
  BY <1>1 DEF Keeps, n
<1>5. /\ more[0] = <<>>
      /\ \A i \in 1..(n + 1) :
           more[i] = IF r[i] \in T THEN Append(more[i - 1], r[i]) ELSE more[i - 1]
  BY <1>2, <1>3 DEF Keeps
<1> DEFINE S == {i \in Nat : i <= n => more[i] = kept[i]}
<1>6. 0 \in S
  BY <1>4, <1>5
<1>7. ASSUME NEW i \in Nat, i \in S PROVE i + 1 \in S
  <2> SUFFICES ASSUME i + 1 <= n PROVE more[i + 1] = kept[i + 1]
    OBVIOUS
  <2>1. i + 1 \in 1..n /\ i + 1 \in 1..(n + 1) /\ (i + 1) - 1 = i /\ more[i] = kept[i]
    BY <1>2, <1>7
  <2>2. kept[i + 1] = IF s[i + 1] \in T THEN Append(kept[i], s[i + 1]) ELSE kept[i]
    BY <2>1, <1>4
  <2>3. more[i + 1] = IF r[i + 1] \in T THEN Append(more[i], r[i + 1]) ELSE more[i]
    BY <2>1, <1>5
  <2>4. QED
    BY <2>1, <2>2, <2>3, <1>2
<1>8. n \in S
  <2> HIDE DEF S
  <2>1. QED
    BY <1>2, <1>6, <1>7, SetInduction
<1>9. more[n] = kept[n]
  BY <1>2, <1>8
<1>10. more[n + 1] = IF r[n + 1] \in T THEN Append(more[n], r[n + 1]) ELSE more[n]
  <2>1. n + 1 \in 1..(n + 1) /\ (n + 1) - 1 = n
    BY <1>2
  <2>2. QED
    BY <2>1, <1>5
<1>11. QED
  BY <1>1, <1>2, <1>3, <1>9, <1>10 DEF r

LEMMA FilterEmpty == \A T : Filter(<<>>, T) = <<>>
<1> SUFFICES ASSUME NEW T PROVE Filter(<<>>, T) = <<>>
  OBVIOUS
<1>1. <<>> \in Seq({}) /\ Len(<<>>) = 0
  OBVIOUS
<1>2. PICK kept : Keeps(kept, <<>>, T, {}) /\ Filter(<<>>, T) = kept[Len(<<>>)]
  BY <1>1, FilterLoop
<1>3. QED
  BY <1>1, <1>2 DEF Keeps

\* Only what is in the list decides.
LEMMA FilterSame ==
  ASSUME NEW D, NEW s \in Seq(D), NEW T, NEW U, \A i \in 1..Len(s) : s[i] \in T <=> s[i] \in U
  PROVE  Filter(s, T) = Filter(s, U)
<1>1. PICK n \in Nat : n = Len(s)
  OBVIOUS
<1>2. PICK kept : Keeps(kept, s, T, D) /\ Filter(s, T) = kept[n]
  BY <1>1, FilterLoop
<1>3. PICK same : Keeps(same, s, U, D) /\ Filter(s, U) = same[n]
  BY <1>1, FilterLoop
<1> DEFINE S == {i \in Nat : i <= n => kept[i] = same[i]}
<1>4. 0 \in S
  BY <1>2, <1>3 DEF Keeps
<1>5. ASSUME NEW i \in Nat, i \in S PROVE i + 1 \in S
  <2> SUFFICES ASSUME i + 1 <= n PROVE kept[i + 1] = same[i + 1]
    OBVIOUS
  <2>1. i + 1 \in 1..Len(s) /\ (i + 1) - 1 = i /\ kept[i] = same[i]
    BY <1>1, <1>5
  <2>2. kept[i + 1] = IF s[i + 1] \in T THEN Append(kept[i], s[i + 1]) ELSE kept[i]
    BY <1>2, <2>1 DEF Keeps
  <2>3. same[i + 1] = IF s[i + 1] \in U THEN Append(same[i], s[i + 1]) ELSE same[i]
    BY <1>3, <2>1 DEF Keeps
  <2>4. QED
    BY <2>1, <2>2, <2>3
<1> HIDE DEF S
<1>6. n \in S
  BY <1>4, <1>5, SetInduction
<1>7. QED
  BY <1>2, <1>3, <1>6 DEF S

\* Where the elements that are kept were, in the same order.
Ascends(f) == \A i, j \in DOMAIN f : i < j => f[i] < f[j]

Positions(pos, r, n, s, T) ==
  /\ pos \in [1..Len(r) -> 1..n]
  /\ Ascends(pos)
  /\ \A i \in 1..Len(r) : r[i] = s[pos[i]]
  /\ \A k \in 1..n : s[k] \in T => \E i \in 1..Len(r) : pos[i] = k
  /\ \A i \in 1..Len(r) : s[pos[i]] \in T

\* One element more, which is kept.
LEMMA PositionsMore ==
  ASSUME NEW D, NEW r \in Seq(D), NEW n \in Nat, NEW s, NEW T, NEW pos,
         Positions(pos, r, n, s, T), s[n + 1] \in T, s[n + 1] \in D
  PROVE  \E p : Positions(p, Append(r, s[n + 1]), n + 1, s, T)
<1> DEFINE m == Len(r)
           q == Append(r, s[n + 1])
           p == [i \in 1..(m + 1) |-> IF i = m + 1 THEN n + 1 ELSE pos[i]]
<1>1. /\ m \in Nat /\ Len(q) = m + 1 /\ q[m + 1] = s[n + 1]
      /\ \A i \in 1..m : q[i] = r[i]
  OBVIOUS
<1>2. /\ \A i \in 1..m : pos[i] \in 1..n /\ r[i] = s[pos[i]] /\ s[pos[i]] \in T
      /\ \A i, j \in 1..m : i < j => pos[i] < pos[j]
      /\ \A k \in 1..n : s[k] \in T => \E i \in 1..m : pos[i] = k
  BY DEF Positions, Ascends
<1> HIDE DEF m, q
<1>3. /\ p[m + 1] = n + 1 /\ \A i \in 1..m : p[i] = pos[i]
      /\ DOMAIN p = 1..(m + 1)
  BY <1>1
<1>4. \A i \in 1..(m + 1) : p[i] \in 1..(n + 1)
  BY <1>1, <1>2, <1>3
<1>5. p = [i \in 1..(m + 1) |-> p[i]]
  OBVIOUS
<1> HIDE DEF p
<1>6. p \in [1..(m + 1) -> 1..(n + 1)]
  BY <1>4, <1>5
<1>7. \A i \in 1..(m + 1) : i \in 1..m \/ i = m + 1
  BY <1>1
<1>8. ASSUME NEW i \in 1..(m + 1), NEW j \in 1..(m + 1), i < j PROVE p[i] < p[j]
  <2>1. i \in 1..m
    BY <1>1, <1>8
  <2>2. CASE j \in 1..m
    BY <1>2, <1>3, <1>8, <2>1, <2>2
  <2>3. CASE j = m + 1
    <3>1. pos[i] \in 1..n
      BY <1>2, <2>1
    <3>2. QED
      BY <1>3, <2>1, <2>3, <3>1
  <2>4. QED
    BY <1>7, <2>2, <2>3
<1>9. \A i \in 1..(m + 1) : q[i] = s[p[i]] /\ s[p[i]] \in T
  BY <1>1, <1>2, <1>3, <1>7
<1>10. ASSUME NEW k \in 1..(n + 1), s[k] \in T PROVE \E i \in 1..(m + 1) : p[i] = k
  <2>1. CASE k = n + 1
    <3>1. m + 1 \in 1..(m + 1)
      BY <1>1
    <3>2. QED
      BY <1>3, <2>1, <3>1
  <2>2. CASE k \in 1..n
    <3>1. PICK i \in 1..m : pos[i] = k
      BY <1>2, <1>10, <2>2
    <3>2. i \in 1..(m + 1)
      BY <1>1
    <3>3. QED
      BY <1>3, <3>1, <3>2
  <2>3. QED
    BY <2>1, <2>2
<1>11. Positions(p, q, n + 1, s, T)
  BY <1>1, <1>3, <1>6, <1>8, <1>9, <1>10 DEF Positions, Ascends
<1>12. QED
  BY <1>11 DEF q

LEMMA FilterPositions ==
  ASSUME NEW D, NEW s \in Seq(D), NEW T
  PROVE  \E pos : Positions(pos, Filter(s, T), Len(s), s, T)
<1> DEFINE n == Len(s)
<1>1. PICK kept : Keeps(kept, s, T, D) /\ Filter(s, T) = kept[n]
  BY FilterLoop
<1>2. n \in Nat /\ \A i \in 1..n : s[i] \in D
  OBVIOUS
<1>3. /\ kept \in [0..n -> Seq(D)] /\ kept[0] = <<>>
      /\ \A i \in 1..n :
           kept[i] = IF s[i] \in T THEN Append(kept[i - 1], s[i]) ELSE kept[i - 1]
  BY <1>1 DEF Keeps
<1> DEFINE P(i) == \E pos : Positions(pos, kept[i], i, s, T)
           S == {i \in Nat : i <= n => P(i)}
<1> HIDE DEF n
<1>4. P(0)
  <2>1. Len(<<>>) = 0 /\ 1..0 = {}
    OBVIOUS
  <2>2. [i \in 1..0 |-> i] \in [1..0 -> 1..0]
    BY <2>1
  <2>3. Positions([i \in 1..0 |-> i], <<>>, 0, s, T)
    BY <2>1, <2>2 DEF Positions, Ascends
  <2>4. QED
    BY <1>3, <2>3
<1>5. ASSUME NEW i \in Nat, i + 1 <= n, P(i) PROVE P(i + 1)
  <2>1. i + 1 \in 1..n /\ i \in 0..n /\ (i + 1) - 1 = i
    BY <1>2, <1>5
  <2>2. /\ kept[i] \in Seq(D) /\ s[i + 1] \in D
        /\ kept[i + 1] = IF s[i + 1] \in T THEN Append(kept[i], s[i + 1]) ELSE kept[i]
    BY <1>2, <1>3, <2>1
  <2>3. PICK pos : Positions(pos, kept[i], i, s, T)
    BY <1>5
  <2>4. CASE s[i + 1] \in T
    BY <2>2, <2>3, <2>4, PositionsMore
  <2>5. CASE s[i + 1] \notin T
    <3>1. kept[i + 1] = kept[i]
      BY <2>2, <2>5
    <3>2. \A k \in 1..(i + 1) : k \in 1..i \/ k = i + 1
      OBVIOUS
    <3>3. pos \in [1..Len(kept[i]) -> 1..(i + 1)]
      <4>1. \A k \in 1..i : k \in 1..(i + 1)
        OBVIOUS
      <4>2. QED
        BY <2>3, <4>1 DEF Positions
    <3>4. Positions(pos, kept[i], i + 1, s, T)
      BY <2>3, <2>5, <3>2, <3>3 DEF Positions
    <3>5. QED
      BY <3>1, <3>4
  <2>6. QED
    BY <2>4, <2>5
<1> HIDE DEF P
<1>6. 0 \in S /\ \A i \in Nat : i \in S => i + 1 \in S
  BY <1>4, <1>5, <1>2
<1>7. n \in S
  BY <1>6, <1>2, SetInduction
<1>8. QED
  BY <1>1, <1>2, <1>7 DEF P, n

\* Two ascending lists of naturals, of lengths m and n: the first holds exactly
\* what the second holds between two bounds.
CutFrom(q, m, r, n, low, high) ==
  /\ m \in Nat /\ n \in Nat /\ low \in Nat /\ high \in Nat
  /\ q \in [1..m -> Nat] /\ r \in [1..n -> Nat] /\ Ascends(q) /\ Ascends(r)
  /\ \A x : (\E i \in 1..m : q[i] = x) <=> (x \in low..high /\ \E i \in 1..n : r[i] = x)

\* The first is what the second holds from position d + 1 on.
PieceAt(q, m, r, n, d) ==
  d \in Nat /\ d + m <= n /\ \A i \in 1..m : q[i] = r[d + i]

\* A cut is a piece.
LEMMA PieceOf ==
  ASSUME NEW m, NEW n, NEW q, NEW r, NEW low, NEW high, CutFrom(q, m, r, n, low, high)
  PROVE  \E d : PieceAt(q, m, r, n, d)
<1> USE DEF CutFrom, PieceAt
<1>1. CASE m = 0
  <2>1. 0 + m <= n /\ \A i \in 1..m : q[i] = r[0 + i]
    BY <1>1
  <2>2. QED
    BY <2>1
<1>2. CASE m # 0
  <2>0. 1 \in 1..m
    BY <1>2
  <2>1. PICK e \in 1..n : r[e] = q[1]
    BY <2>0
  <2> DEFINE d == e - 1
             P(i) == d + i <= n /\ q[i] = r[d + i]
             S == {i \in Nat : i + 1 <= m => P(i + 1)}
  <2>2. d \in Nat /\ P(1)
    BY <2>1
  <2>3. ASSUME NEW i \in Nat, i + 1 <= m, i >= 1, P(i) PROVE P(i + 1)
    <3>1. /\ i \in 1..m /\ i + 1 \in 1..m /\ d + i \in 1..n
          /\ q[i] \in Nat /\ q[i + 1] \in Nat /\ q[i] = r[d + i]
          /\ q[i] < q[i + 1]
      <4>1. i \in 1..m /\ i + 1 \in 1..m /\ d + i \in 1..n /\ q[i] = r[d + i]
        BY <2>2, <2>3
      <4>2. QED
        BY <4>1 DEF Ascends
    <3>2. q[i] \in low..high /\ q[i + 1] \in low..high
      BY <3>1
    <3>3. PICK x \in 1..n : r[x] = q[i + 1]
      BY <3>1
    <3> HIDE DEF d
    <3>4. x > d + i
      <4>1. ~(x = d + i)
        BY <3>1, <3>3
      <4>2. ~(x < d + i)
        <5>1. x < d + i => r[x] < r[d + i]
          BY <3>1 DEF Ascends
        <5>2. QED
          BY <3>1, <3>3, <5>1
      <4>3. QED
        BY <2>2, <4>1, <4>2
    <3>5. d + i + 1 \in 1..n /\ d + i < d + i + 1
      BY <2>2, <3>1, <3>4
    <3>6. r[d + i + 1] \in Nat /\ r[d + i] < r[d + i + 1]
      BY <3>1, <3>5 DEF Ascends
    <3>7. r[d + i + 1] <= r[x]
      <4>1. d + i + 1 = x \/ d + i + 1 < x
        BY <2>2, <3>4
      <4>2. d + i + 1 < x => r[d + i + 1] < r[x]
        BY <3>5 DEF Ascends
      <4>3. QED
        BY <3>6, <4>1, <4>2
    <3>8. r[d + i + 1] \in low..high
      BY <3>1, <3>2, <3>3, <3>6, <3>7
    <3>9. PICK y \in 1..m : q[y] = r[d + i + 1]
      BY <3>5, <3>8
    <3>10. y >= i + 1
      <4>1. ~(y = i)
        BY <3>1, <3>6, <3>9
      <4>2. ~(y < i)
        <5>1. y < i => q[y] < q[i]
          BY <3>1 DEF Ascends
        <5>2. QED
          BY <3>1, <3>6, <3>9, <5>1
      <4>3. QED
        BY <4>1, <4>2
    <3>11. q[i + 1] <= q[y]
      <4>1. i + 1 = y \/ i + 1 < y
        BY <3>10
      <4>2. i + 1 < y => q[i + 1] < q[y]
        BY <3>1 DEF Ascends
      <4>3. QED
        BY <3>1, <4>1, <4>2
    <3>12. q[i + 1] = r[d + i + 1]
      BY <3>1, <3>3, <3>6, <3>7, <3>9, <3>11
    <3>13. QED
      BY <2>2, <3>5, <3>12
  <2> HIDE DEF d, P
  <2>4. 0 \in S
    BY <2>2
  <2>5. \A i \in Nat : i \in S => i + 1 \in S
    <3> SUFFICES ASSUME NEW i \in Nat, i \in S, i + 1 + 1 <= m PROVE P(i + 1 + 1)
      OBVIOUS
    <3>1. P(i + 1)
      OBVIOUS
    <3>2. i + 1 \in Nat /\ i + 1 >= 1
      OBVIOUS
    <3>3. QED
      BY <2>3, <3>1, <3>2
  <2>6. Nat \subseteq S
    <3> HIDE DEF S
    <3> QED BY <2>4, <2>5, SetInduction
  <2>7. \A i \in 1..m : P(i)
    <3> SUFFICES ASSUME NEW i \in 1..m PROVE P(i)
      OBVIOUS
    <3>1. i - 1 \in Nat /\ (i - 1) + 1 = i /\ i <= m
      OBVIOUS
    <3>2. i - 1 \in S
      BY <2>6, <3>1
    <3>3. QED
      BY <3>1, <3>2
  <2>8. m \in 1..m
    BY <1>2
  <2>9. QED
    BY <2>2, <2>7, <2>8 DEF P
<1>3. QED
  BY <1>1, <1>2

\* What is kept of a piece is a piece of what is kept.
LEMMA FilterOfPiece ==
  ASSUME NEW D, NEW s \in Seq(D), NEW t \in Seq(D), NEW d, NEW T,
         PieceAt(t, Len(t), s, Len(s), d)
  PROVE  \E e : PieceAt(Filter(t, T), Len(Filter(t, T)), Filter(s, T), Len(Filter(s, T)), e)
<1>1. PICK m \in Nat, n \in Nat : m = Len(t) /\ n = Len(s)
  OBVIOUS
<1>2. PICK x \in Seq(D), y \in Seq(D) : x = Filter(t, T) /\ y = Filter(s, T)
  BY FilterKeeps
<1>3. PICK j \in Nat, k \in Nat : j = Len(x) /\ k = Len(y)
  OBVIOUS
<1>4. PICK p : Positions(p, x, m, t, T)
  BY <1>1, <1>2, FilterPositions
<1>5. PICK r : Positions(r, y, n, s, T)
  BY <1>1, <1>2, FilterPositions
<1>6. d \in Nat /\ d + m <= n /\ \A i \in 1..m : t[i] = s[d + i]
  BY <1>1 DEF PieceAt
<1>7. /\ p \in [1..j -> 1..m] /\ Ascends(p)
      /\ \A i \in 1..j : x[i] = t[p[i]] /\ t[p[i]] \in T
      /\ \A i \in 1..m : t[i] \in T => \E h \in 1..j : p[h] = i
  BY <1>3, <1>4 DEF Positions
<1>8. /\ r \in [1..k -> 1..n] /\ Ascends(r)
      /\ \A i \in 1..k : y[i] = s[r[i]] /\ s[r[i]] \in T
      /\ \A i \in 1..n : s[i] \in T => \E h \in 1..k : r[h] = i
  BY <1>3, <1>5 DEF Positions
<1> DEFINE q == [i \in 1..j |-> d + p[i]]
<1>9. \A i \in 1..j : q[i] = d + p[i] /\ q[i] \in (d + 1)..(d + m) /\ q[i] \in Nat
  BY <1>6, <1>7
<1>10. q = [i \in 1..j |-> q[i]]
  OBVIOUS
<1> HIDE DEF q
<1>11. q \in [1..j -> Nat] /\ r \in [1..k -> Nat]
  <2>1. q \in [1..j -> Nat]
    BY <1>9, <1>10
  <2>2. QED
    BY <1>8, <2>1
<1>12. Ascends(q)
  BY <1>7, <1>9, <1>6, <1>11 DEF Ascends
<1>13. ASSUME NEW z
       PROVE  (\E i \in 1..j : q[i] = z) <=> (z \in (d + 1)..(d + m) /\ \E i \in 1..k : r[i] = z)
  <2>1. ASSUME NEW i \in 1..j, q[i] = z
        PROVE  z \in (d + 1)..(d + m) /\ \E h \in 1..k : r[h] = z
    <3>1. p[i] \in 1..m /\ t[p[i]] \in T /\ z = d + p[i] /\ z \in 1..n
      BY <1>6, <1>7, <1>9, <2>1
    <3>2. s[z] \in T
      BY <1>6, <3>1
    <3>3. QED
      BY <1>8, <1>9, <2>1, <3>1, <3>2
  <2>2. ASSUME z \in (d + 1)..(d + m), NEW i \in 1..k, r[i] = z PROVE \E h \in 1..j : q[h] = z
    <3>1. z - d \in 1..m /\ d + (z - d) = z /\ s[z] \in T
      BY <1>6, <1>8, <2>2
    <3>2. t[z - d] \in T
      BY <1>6, <3>1
    <3>3. PICK h \in 1..j : p[h] = z - d
      BY <1>7, <3>1, <3>2
    <3>4. QED
      BY <1>9, <3>1, <3>3
  <2>3. QED
    BY <2>1, <2>2
<1>14. CutFrom(q, j, r, k, d + 1, d + m)
  BY <1>6, <1>8, <1>11, <1>12, <1>13, SMTT(30) DEF CutFrom
<1>15. PICK e : PieceAt(q, j, r, k, e)
  BY <1>14, PieceOf
<1>16. ASSUME NEW i \in 1..j PROVE x[i] = y[e + i]
  <2>1. e + i \in 1..k /\ q[i] = r[e + i]
    BY <1>15 DEF PieceAt
  <2>2. p[i] \in 1..m /\ x[i] = t[p[i]] /\ y[e + i] = s[q[i]]
    BY <1>7, <1>8, <2>1
  <2>3. QED
    BY <1>6, <1>9, <2>2
<1>17. PieceAt(x, j, y, k, e)
  BY <1>15, <1>16 DEF PieceAt
<1>18. QED
  BY <1>2, <1>3, <1>17

===============================================================================
