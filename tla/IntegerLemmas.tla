---------------------------- MODULE IntegerLemmas ----------------------------
(***************************************************************************)
(* Facts about integers that the proofs share: rounding by division, the    *)
(* least element of a set, and induction, which follows from the least      *)
(* element that would break what is to be shown; and what a loop over       *)
(* numbered items gathers, which is shown by that induction.                *)
(***************************************************************************)
EXTENDS Integers, Sequences, WellFoundedInduction, TLAPS

\* What rounding up by integer division computes: the least multiple that is not below.
LEMMA DivideUp ==
    ASSUME NEW unit \in Nat \ {0}, NEW r \in Nat
    PROVE  LET q == (r + unit - 1) \div unit
           IN  q \in Nat /\ r <= q * unit /\ q * unit < r + unit
  <1> DEFINE q == (r + unit - 1) \div unit
             m == (r + unit - 1) % unit
  <1>1. q \in Nat /\ m \in 0 .. unit - 1 /\ r + unit - 1 = unit * q + m
    OBVIOUS
  <1>2. unit * q = q * unit
    BY <1>1
  <1> HIDE DEF q, m
  <1>3. q \in Nat /\ r <= q * unit /\ q * unit < r + unit
    BY <1>1, <1>2
  <1> QED
    BY <1>3 DEF q

\* The page of a record before a page boundary comes before that boundary's page.
LEMMA PageBefore ==
    ASSUME NEW unit \in Nat \ {0}, NEW k \in Nat, NEW x \in Nat, x < k * unit
    PROVE  x \div unit \in Int /\ x \div unit < k
  <1> DEFINE q == x \div unit
             m == x % unit
  <1>1. q \in Nat /\ m \in 0 .. unit - 1 /\ x = unit * q + m
    OBVIOUS
  <1> HIDE DEF q, m
  <1>2. ASSUME k <= q PROVE FALSE
    <2>1. k * unit <= unit * q
      BY <1>1, <1>2
    <2> QED
      BY <1>1, <2>1
  <1> QED
    BY <1>1, <1>2 DEF q

\* The page of a record that is not before a page boundary is not before that boundary's page.
LEMMA PageFrom ==
    ASSUME NEW unit \in Nat \ {0}, NEW k \in Nat, NEW x \in Nat, k * unit <= x
    PROVE  x \div unit \in Int /\ k <= x \div unit
  <1> DEFINE q == x \div unit
             m == x % unit
  <1>1. q \in Nat /\ m \in 0 .. unit - 1 /\ x = unit * q + m
    OBVIOUS
  <1> HIDE DEF q, m
  <1>2. ASSUME q + 1 <= k PROVE FALSE
    <2>1. (q + 1) * unit <= k * unit
      BY <1>1, <1>2
    <2>2. (q + 1) * unit = unit * q + unit
      BY <1>1
    <2> QED
      BY <1>1, <2>1, <2>2
  <1> QED
    BY <1>1, <1>2 DEF q

\* What rounding down by integer division computes: the greatest multiple that is not above.
LEMMA DivideDown ==
    ASSUME NEW unit \in Nat \ {0}, NEW r \in Nat
    PROVE  LET q == r \div unit
           IN  q \in Nat /\ q * unit <= r /\ r < q * unit + unit
  <1> DEFINE q == r \div unit
             m == r % unit
  <1>1. q \in Nat /\ m \in 0 .. unit - 1 /\ r = unit * q + m
    OBVIOUS
  <1>2. unit * q = q * unit
    BY <1>1
  <1> HIDE DEF q, m
  <1>3. q \in Nat /\ q * unit <= r /\ r < q * unit + unit
    BY <1>1, <1>2
  <1> QED
    BY <1>3 DEF q

\* Every set of naturals that is not empty has a least element.
LEMMA LeastNatural ==
    ASSUME NEW S \in SUBSET Nat, S # {}
    PROVE  \E x \in S : \A y \in S : x <= y
  <1> DEFINE R == OpToRel(<, Nat)
  <1>1. IsWellFoundedOn(R, Nat)
    BY NatLessThanWellFounded
  <1>2. \A x, y \in Nat : y < x => <<y, x>> \in R
    BY DEF OpToRel
  <1> HIDE DEF R
  <1>3. PICK x \in S : \A y \in S : ~(<<y, x>> \in R)
    BY <1>1, WFMin
  <1>4. ASSUME NEW y \in S PROVE x <= y
    <2>1. x \in Nat /\ y \in Nat
      BY <1>3, <1>4
    <2>2. ~(y < x)
      BY <1>2, <1>3, <1>4, <2>1
    <2> QED
      BY <2>1, <2>2
  <1> QED
    BY <1>3, <1>4

\* Induction: a set with 0 and with the successor of each of its naturals has all of them.
LEMMA NaturalsIn ==
    ASSUME NEW S, 0 \in S, \A k \in Nat : k \in S => k + 1 \in S
    PROVE  Nat \subseteq S
  <1> SUFFICES ASSUME Nat \ S # {} PROVE FALSE
    OBVIOUS
  <1>1. PICK x \in Nat \ S : \A y \in Nat \ S : x <= y
    BY LeastNatural
  <1>2. x # 0 /\ x - 1 \in Nat /\ x - 1 < x
    BY <1>1
  <1>3. x - 1 \in S
    BY <1>1, <1>2
  <1>4. (x - 1) + 1 = x
    BY <1>1
  <1> QED
    BY <1>1, <1>2, <1>3, <1>4

\* A set of integers with a lower bound has a least element.
LEMMA LeastInteger ==
    ASSUME NEW S \in SUBSET Int, NEW a \in Int, S # {}, \A x \in S : a <= x
    PROVE  \E x \in S : \A y \in S : x <= y
  <1> DEFINE T == {k \in Nat : a + k \in S}
  <1>1. \A x \in S : x \in Int /\ x - a \in Nat /\ a + (x - a) = x
    OBVIOUS
  <1>2. \A x \in S : x - a \in T
    BY <1>1
  <1>3. T # {}
    BY <1>2
  <1>4. PICK k \in T : \A y \in T : k <= y
    BY <1>3, LeastNatural
  <1>5. a + k \in S /\ k \in Nat
    BY <1>4
  <1>6. ASSUME NEW y \in S PROVE a + k <= y
    <2>1. k <= y - a /\ y \in Int
      BY <1>1, <1>2, <1>4, <1>6
    <2> QED
      BY <1>5, <2>1
  <1> QED
    BY <1>5, <1>6

\* A function on an interval that is not empty has a least value.
LEMMA LeastValue ==
    ASSUME NEW a \in Int, NEW b \in Int, a <= b, NEW f, \A k \in a .. b : f[k] \in Int
    PROVE  \E k \in a .. b : \A j \in a .. b : f[k] <= f[j]
  <1> DEFINE HasLeast(m) == a + m <= b => \E k \in a .. a + m : \A j \in a .. a + m : f[k] <= f[j]
             S == {m \in Nat : HasLeast(m)}
  <1>1. 0 \in S
    <2>1. \A j \in a .. a + 0 : j = a
      OBVIOUS
    <2>2. a \in a .. a + 0 /\ f[a] <= f[a]
      OBVIOUS
    <2> QED
      BY <2>1, <2>2
  <1>2. ASSUME NEW m \in Nat, m \in S PROVE m + 1 \in S
    <2> SUFFICES ASSUME NEW new \in Int, new = a + (m + 1), new <= b
                 PROVE  \E k \in a .. new : \A j \in a .. new : f[k] <= f[j]
      OBVIOUS
    <2>1. PICK k \in a .. a + m : \A j \in a .. a + m : f[k] <= f[j]
      BY <1>2
    <2>2. new \in a .. b /\ k \in a .. b /\ k \in a .. new /\ new \in a .. new
      OBVIOUS
    <2>3. \A j \in a .. new : j \in a .. a + m \/ j = new
      OBVIOUS
    <2>4. f[new] \in Int /\ f[k] \in Int /\ \A j \in a .. a + m : f[j] \in Int
      BY <2>2
    <2>5. CASE f[k] <= f[new]
      BY <2>1, <2>2, <2>3, <2>5
    <2>6. CASE f[new] < f[k]
      <3>1. \A j \in a .. a + m : f[new] <= f[j]
        BY <2>1, <2>4, <2>6
      <3> QED
        BY <2>2, <2>3, <2>4, <3>1
    <2> QED
      BY <2>4, <2>5, <2>6
  <1>3. Nat \subseteq S
    <2> HIDE DEF S
    <2> QED
      BY <1>1, <1>2, NaturalsIn
  <1>4. b - a \in Nat /\ a + (b - a) = b
    OBVIOUS
  <1>5. HasLeast(b - a)
    BY <1>3, <1>4
  <1> QED
    BY <1>4, <1>5

\* And a greatest one.
LEMMA GreatestValue ==
    ASSUME NEW a \in Int, NEW b \in Int, a <= b, NEW f, \A k \in a .. b : f[k] \in Int
    PROVE  \E k \in a .. b : \A j \in a .. b : f[k] >= f[j]
  <1> DEFINE g == [k \in a .. b |-> -f[k]]
  <1>1. \A k \in a .. b : g[k] \in Int /\ g[k] = -f[k]
    OBVIOUS
  <1> HIDE DEF g
  <1>2. PICK k \in a .. b : \A j \in a .. b : g[k] <= g[j]
    BY <1>1, LeastValue
  <1>3. ASSUME NEW j \in a .. b PROVE f[k] >= f[j]
    <2>1. -f[k] <= -f[j] /\ f[k] \in Int /\ f[j] \in Int
      BY <1>1, <1>2, <1>3
    <2> QED
      BY <2>1
  <1> QED
    BY <1>2, <1>3

\* Induction up to a bound.
LEMMA UpTo ==
    ASSUME NEW n \in Nat, NEW T, 0 \in T, \A k \in 1 .. n : k - 1 \in T => k \in T
    PROVE  0 .. n \subseteq T
  <1> DEFINE S == {k \in Nat : k <= n => k \in T}
  <1>1. 0 \in S
    OBVIOUS
  <1>2. ASSUME NEW k \in Nat, k \in S PROVE k + 1 \in S
    <2>1. ASSUME k + 1 <= n PROVE k + 1 \in T
      <3>1. k + 1 \in 1 .. n /\ (k + 1) - 1 = k /\ k \in T
        BY <1>2, <2>1
      <3> QED
        BY <3>1
    <2> QED
      BY <2>1
  <1> HIDE DEF S
  <1>3. Nat \subseteq S
    BY <1>1, <1>2, NaturalsIn
  <1> QED
    BY <1>3 DEF S

\* A rule that gives every value of S, at every step up to n, a value of S; and the function that
\* computes each of its values from the one before by that rule.
Rule(n, S, base, rule) == base \in S /\ \A k \in 1 .. n : \A s \in S : rule[<<k, s>>] \in S
Follows(f, n, S, base, rule) ==
    f \in [0 .. n -> S] /\ f[0] = base /\ \A k \in 1 .. n : f[k] = rule[<<k, f[k - 1]>>]

\* There is one.
LEMMA RecursionExists ==
    ASSUME NEW n \in Nat, NEW S, NEW base, NEW rule, Rule(n, S, base, rule)
    PROVE  \E f : Follows(f, n, S, base, rule)
  <1>0. base \in S /\ \A k \in 1 .. n : \A s \in S : rule[<<k, s>>] \in S
    BY DEF Rule
  <1> DEFINE Upto(m) == \E f \in [0 .. m -> S] : /\ f[0] = base
                                                 /\ \A k \in 1 .. m : f[k] = rule[<<k, f[k - 1]>>]
             T == {m \in 0 .. n : Upto(m)}
  <1>1. 0 \in T
    <2> DEFINE f == [k \in 0 .. 0 |-> base]
    <2>1. f \in [0 .. 0 -> S] /\ f[0] = base
      BY <1>0
    <2>2. 1 .. 0 = {}
      OBVIOUS
    <2>3. Upto(0)
      BY <2>1, <2>2
    <2> QED
      BY <2>3
  <1>2. ASSUME NEW k \in 1 .. n, k - 1 \in T PROVE k \in T
    <2>1. PICK f \in [0 .. k - 1 -> S] : /\ f[0] = base
                                         /\ \A j \in 1 .. k - 1 : f[j] = rule[<<j, f[j - 1]>>]
      BY <1>2
    <2> DEFINE g == [j \in 0 .. k |-> IF j = k THEN rule[<<k, f[k - 1]>>] ELSE f[j]]
    <2>2. f[k - 1] \in S /\ rule[<<k, f[k - 1]>>] \in S
      BY <1>0
    <2>3. g \in [0 .. k -> S]
      BY <2>2
    <2>4. g[0] = base
      BY <2>1
    <2>5. ASSUME NEW j \in 1 .. k PROVE g[j] = rule[<<j, g[j - 1]>>]
      <3>1. j - 1 \in 0 .. k /\ j - 1 # k /\ g[j - 1] = f[j - 1]
        OBVIOUS
      <3>2. CASE j = k
        BY <3>1, <3>2
      <3>3. CASE j # k
        <4>1. j \in 1 .. k - 1 /\ g[j] = f[j]
          BY <3>3
        <4> QED
          BY <2>1, <3>1, <4>1
      <3> QED
        BY <3>2, <3>3
    <2> HIDE DEF g
    <2>6. Upto(k)
      BY <2>3, <2>4, <2>5
    <2> QED
      BY <2>6
  <1>3. 0 .. n \subseteq T
    <2> HIDE DEF T
    <2> QED
      BY <1>1, <1>2, UpTo
  <1>4. Upto(n)
    BY <1>3
  <1> QED
    BY <1>4 DEF Follows

\* A loop over n lines that appends x[k] when keep[k].
Gathers(f, n, x, keep) ==
    f = [k \in 0 .. n |-> IF k = 0 THEN <<>>
                         ELSE IF keep[k] THEN Append(f[k - 1], x[k]) ELSE f[k - 1]]

\* It has a result.
LEMMA FilterExists ==
    ASSUME NEW n \in Nat, NEW S, NEW x \in [1 .. n -> S], NEW keep \in [1 .. n -> BOOLEAN]
    PROVE  \E f : Gathers(f, n, x, keep)
  <1> DEFINE Q == Seq(S)
             next == [y \in (1 .. n) \X Q |-> IF keep[y[1]] THEN Append(y[2], x[y[1]]) ELSE y[2]]
  <1>1. \A k \in 1 .. n, s \in Q : next[<<k, s>>] = IF keep[k] THEN Append(s, x[k]) ELSE s
    OBVIOUS
  <1>2. \A k \in 1 .. n, s \in Q : Append(s, x[k]) \in Q
    OBVIOUS
  <1>3. \A k \in 1 .. n, s \in Q : next[<<k, s>>] \in Q
    <2> HIDE DEF next, Q
    <2> QED
      BY <1>1, <1>2
  <1>4. <<>> \in Q
    OBVIOUS
  <1> HIDE DEF next, Q
  <1>5. PICK f : Follows(f, n, Q, <<>>, next)
    BY <1>3, <1>4, RecursionExists DEF Rule
  <1>6. f \in [0 .. n -> Q] /\ f[0] = <<>> /\ \A k \in 1 .. n : f[k] = next[<<k, f[k - 1]>>]
    BY <1>5 DEF Follows
  <1>7. ASSUME NEW k \in 0 .. n
        PROVE  f[k] = IF k = 0 THEN <<>> ELSE IF keep[k] THEN Append(f[k - 1], x[k]) ELSE f[k - 1]
    <2>1. CASE k = 0
      BY <1>6, <2>1
    <2>2. CASE k # 0
      <3>1. k \in 1 .. n /\ f[k - 1] \in Q
        BY <1>6, <2>2
      <3> QED
        BY <1>1, <1>6, <2>2, <3>1
    <2> QED
      BY <2>1, <2>2
  <1>8. f = [k \in 0 .. n |-> f[k]]
    BY <1>6
  <1> QED
    BY <1>7, <1>8 DEF Gathers

\* What each round does.
LEMMA FilterRound ==
    ASSUME NEW n \in Nat, NEW x, NEW keep, NEW F, Gathers(F, n, x, keep)
    PROVE  /\ F[0] = <<>>
           /\ \A k \in 1 .. n : F[k] = IF keep[k] THEN Append(F[k - 1], x[k]) ELSE F[k - 1]
  <1> DEFINE Value(j) == IF j = 0 THEN <<>>
                         ELSE IF keep[j] THEN Append(F[j - 1], x[j]) ELSE F[j - 1]
  <1>1. F = [j \in 0 .. n |-> Value(j)]
    BY DEF Gathers
  <1> HIDE DEF Value
  <1>2. \A k \in 0 .. n : F[k] = Value(k)
    BY <1>1
  <1>3. F[0] = Value(0) /\ \A k \in 1 .. n : F[k] = Value(k) /\ k # 0
    BY <1>2
  <1> QED
    BY <1>3 DEF Value

\* The result is a sequence of what was appended, however far the loop has come.
LEMMA FilterTyped ==
    ASSUME NEW n \in Nat, NEW S, NEW x, NEW keep \in [1 .. n -> BOOLEAN],
           \A k \in 1 .. n : keep[k] => x[k] \in S,
           NEW F, Gathers(F, n, x, keep)
    PROVE  \A k \in 0 .. n : F[k] \in Seq(S)
  <1> DEFINE T == {k \in 0 .. n : F[k] \in Seq(S)}
  <1>1. 0 \in T
    <2>1. F[0] = <<>>
      BY FilterRound
    <2>2. <<>> \in Seq(S) /\ 0 \in 0 .. n
      OBVIOUS
    <2> QED
      BY <2>1, <2>2
  <1>2. ASSUME NEW k \in 1 .. n, k - 1 \in T PROVE k \in T
    <2>1. F[k] = IF keep[k] THEN Append(F[k - 1], x[k]) ELSE F[k - 1]
      BY FilterRound
    <2>2. F[k - 1] \in Seq(S) /\ (keep[k] => x[k] \in S) /\ keep[k] \in BOOLEAN
      BY <1>2
    <2>3. F[k] \in Seq(S)
      <3> DEFINE s == F[k - 1]
      <3>1. s \in Seq(S) /\ F[k] = IF keep[k] THEN Append(s, x[k]) ELSE s
        BY <2>1, <2>2
      <3> HIDE DEF s
      <3>2. keep[k] => Append(s, x[k]) \in Seq(S)
        BY <3>1, <2>2
      <3> QED
        BY <3>1, <3>2, <2>2
    <2> QED
      BY <2>3
  <1> HIDE DEF T
  <1>3. 0 .. n \subseteq T
    BY <1>1, <1>2, UpTo
  <1> QED
    BY <1>3 DEF T

=============================================================================
