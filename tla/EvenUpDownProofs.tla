-------------------------- MODULE EvenUpDownProofs --------------------------
(***************************************************************************)
(* Theorems about EvenUpDown, for any number of agents and missions and    *)
(* any energies, performances and amounts of work.                         *)
(***************************************************************************)
EXTENDS EvenUpDown, WellFoundedInduction, TLAPS

-----------------------------------------------------------------------------
(* Induction over an interval, and sums.                                   *)

LEMMA LeastOne ==
  ASSUME NEW B \in SUBSET Nat, B # {}
  PROVE  \E b \in B : \A c \in B : b <= c
<1>1. PICK b \in B : \A c \in B : <<c, b>> \notin OpToRel(<, Nat)
  BY NatLessThanWellFounded, WFMin
<1>2. \A c \in B : ~(c < b)
  BY <1>1 DEF OpToRel
<1> QED
  BY <1>2

\* What holds for 0 and is handed on from each number to the next holds up to n.
LEMMA UpTo ==
  ASSUME NEW n \in Nat, NEW S,
         0 \in S, \A k \in 1..n : k - 1 \in S => k \in S
  PROVE  \A k \in 0..n : k \in S
<1> DEFINE B == (0..n) \ S
<1> SUFFICES ASSUME B # {} PROVE FALSE
  OBVIOUS
<1>1. PICK b \in B : \A c \in B : b <= c
  <2>1. B \in SUBSET Nat
    OBVIOUS
  <2> HIDE DEF B
  <2> QED
    BY <2>1, LeastOne
<1>2. b \in 1..n /\ b - 1 \in 0..n
  OBVIOUS
<1>3. b - 1 \notin B
  BY <1>1, <1>2
<1> QED
  BY <1>2, <1>3

\* The function in the definition of Sum exists.
LEMMA SumFunction ==
  ASSUME NEW x, NEW n \in Nat
  PROVE  \E f : /\ Sum(x, n) = f[n] /\ f[0] = 0
                /\ \A k \in 1..n : f[k] = f[k - 1] + x[k]
<1> DEFINE IsSum(f, m) == f = [k \in 0..m |-> IF k = 0 THEN 0 ELSE f[k - 1] + x[k]]
           S == {m \in 0..n : \E f : IsSum(f, m)}
<1>1. 0 \in S
  <2> DEFINE f == [k \in 0..0 |-> 0]
  <2>1. IsSum(f, 0)
    OBVIOUS
  <2> HIDE DEF IsSum, f
  <2> QED
    BY <2>1
<1>2. ASSUME NEW m \in 1..n, m - 1 \in S
      PROVE  m \in S
  <2>1. PICK f : IsSum(f, m - 1)
    BY <1>2
  <2> DEFINE g == [k \in 0..m |-> IF k = m THEN f[m - 1] + x[m] ELSE f[k]]
  <2>2. ASSUME NEW k \in 0..m
        PROVE  g[k] = IF k = 0 THEN 0 ELSE g[k - 1] + x[k]
    <3>1. CASE k = m
      BY <3>1
    <3>2. CASE k # m
      <4>1. k \in 0..(m - 1)
        BY <3>2
      <4>2. f[k] = IF k = 0 THEN 0 ELSE f[k - 1] + x[k]
        BY <2>1, <4>1
      <4>3. g[k] = f[k] /\ (k # 0 => g[k - 1] = f[k - 1])
        BY <3>2, <4>1
      <4> QED
        BY <4>2, <4>3
    <3> QED
      BY <3>1, <3>2
  <2>3. IsSum(g, m)
    BY <2>2
  <2> HIDE DEF IsSum, g
  <2> QED
    BY <2>3
<1>3. n \in S
  <2> HIDE DEF S
  <2>1. \A k \in 0..n : k \in S
    BY <1>1, <1>2, UpTo
  <2> QED
    BY <2>1
<1> DEFINE f == CHOOSE h : IsSum(h, n)
<1>4. IsSum(f, n)
  BY <1>3
<1>5. Sum(x, n) = f[n]
  BY DEF Sum
<1> HIDE DEF f
<1>6. \A k \in 0..n : f[k] = IF k = 0 THEN 0 ELSE f[k - 1] + x[k]
  BY <1>4
<1>7. f[0] = 0 /\ \A k \in 1..n : f[k] = f[k - 1] + x[k]
  BY <1>6
<1> QED
  BY <1>5, <1>7

\* A sum is a natural number, no less than any of its terms, and 0 if they all are.
LEMMA SumBounds ==
  ASSUME NEW x, NEW n \in Nat, \A k \in 1..n : x[k] \in Nat
  PROVE  /\ Sum(x, n) \in Nat
         /\ \A k \in 1..n : x[k] <= Sum(x, n)
         /\ Sum(x, n) > 0 => \E k \in 1..n : x[k] > 0
<1>1. PICK f : /\ Sum(x, n) = f[n] /\ f[0] = 0
               /\ \A k \in 1..n : f[k] = f[k - 1] + x[k]
  BY SumFunction
<1> DEFINE S == {k \in 0..n : /\ f[k] \in Nat
                              /\ \A j \in 1..k : x[j] <= f[k]
                              /\ f[k] > 0 => \E j \in 1..k : x[j] > 0}
<1>2. 0 \in S
  BY <1>1
<1>3. ASSUME NEW k \in 1..n, k - 1 \in S
      PROVE  k \in S
  <2>1. f[k] = f[k - 1] + x[k] /\ f[k - 1] \in Nat /\ x[k] \in Nat /\ k \in 1..k
    BY <1>1, <1>3
  <2>2. \A j \in 1..k : j = k \/ j \in 1..(k - 1)
    OBVIOUS
  <2>3. f[k] > 0 => f[k - 1] > 0 \/ x[k] > 0
    BY <2>1
  <2>4. \A j \in 1..(k - 1) : j \in 1..k /\ j \in 1..n
    OBVIOUS
  <2>5. ASSUME NEW j \in 1..k
        PROVE  x[j] <= f[k]
    <3>1. CASE j = k
      BY <2>1, <3>1
    <3>2. CASE j \in 1..(k - 1)
      <4>1. x[j] \in Nat /\ x[j] <= f[k - 1]
        BY <1>3, <2>4, <3>2
      <4> QED
        BY <2>1, <4>1
    <3> QED
      BY <2>2, <3>1, <3>2
  <2>6. f[k] > 0 => \E j \in 1..k : x[j] > 0
    BY <1>3, <2>1, <2>3, <2>4
  <2> QED
    BY <2>1, <2>5, <2>6
<1>4. n \in S
  <2> HIDE DEF S
  <2>1. \A k \in 0..n : k \in S
    BY <1>2, <1>3, UpTo
  <2> QED
    BY <2>1
<1> QED
  BY <1>1, <1>4

\* Where only the term j changes, the sum changes as much.
LEMMA SumChanges ==
  ASSUME NEW x, NEW y, NEW n \in Nat, NEW j \in 1..n,
         \A k \in 1..n : x[k] \in Nat /\ y[k] \in Nat /\ (k # j => y[k] = x[k])
  PROVE  Sum(y, n) = Sum(x, n) + y[j] - x[j]
<1>1. PICK f : /\ Sum(x, n) = f[n] /\ f[0] = 0
               /\ \A k \in 1..n : f[k] = f[k - 1] + x[k]
  BY SumFunction
<1>2. PICK g : /\ Sum(y, n) = g[n] /\ g[0] = 0
               /\ \A k \in 1..n : g[k] = g[k - 1] + y[k]
  BY SumFunction
<1> DEFINE S == {k \in 0..n : /\ f[k] \in Int /\ g[k] \in Int
                              /\ g[k] = IF k < j THEN f[k] ELSE f[k] + y[j] - x[j]}
<1>3. 0 \in S
  BY <1>1, <1>2
<1>4. ASSUME NEW k \in 1..n, k - 1 \in S
      PROVE  k \in S
  <2>1. /\ f[k] = f[k - 1] + x[k] /\ g[k] = g[k - 1] + y[k]
        /\ f[k - 1] \in Int /\ g[k - 1] \in Int /\ x[k] \in Nat /\ y[k] \in Nat
        /\ x[j] \in Nat /\ y[j] \in Nat
    BY <1>1, <1>2, <1>4
  <2>2. CASE k = j
    <3>1. g[k - 1] = f[k - 1]
      BY <1>4, <2>2
    <3> QED
      BY <2>1, <2>2, <3>1
  <2>3. CASE k < j
    <3>1. g[k - 1] = f[k - 1] /\ y[k] = x[k]
      BY <1>4, <2>3
    <3> QED
      BY <2>1, <2>3, <3>1
  <2>4. CASE k > j
    <3>1. g[k - 1] = f[k - 1] + y[j] - x[j] /\ y[k] = x[k]
      BY <1>4, <2>4
    <3> QED
      BY <2>1, <2>4, <3>1
  <2> QED
    BY <2>2, <2>3, <2>4
<1>5. n \in S
  <2> HIDE DEF S
  <2>1. \A k \in 0..n : k \in S
    BY <1>3, <1>4, UpTo
  <2> QED
    BY <2>1
<1> QED
  BY <1>1, <1>2, <1>5

\* The best of some of the numbers up to n, when better is a strict total order.
Orders(Better, A) ==
  /\ \A a, b, c \in A : <<a, b>> \in Better /\ <<b, c>> \in Better => <<a, c>> \in Better
  /\ \A a, b \in A : a # b => <<a, b>> \in Better \/ <<b, a>> \in Better

LEMMA BestOne ==
  ASSUME NEW n \in Nat, NEW A \in SUBSET (1..n), A # {}, NEW Better, Orders(Better, A)
  PROVE  \E a \in A : \A b \in A : b # a => <<a, b>> \in Better
<1> USE DEF Orders
<1> DEFINE Best(m, a) == a \in A /\ a <= m /\ \A b \in A : b <= m /\ b # a => <<a, b>> \in Better
           S == {m \in 0..n : (\E a \in A : a <= m) => \E a : Best(m, a)}
<1>0. A # {} /\ \A a \in A : a \in Int /\ 1 <= a /\ a <= n
  OBVIOUS
<1>1. 0 \in S
  BY <1>0
<1>2. ASSUME NEW m \in 1..n, m - 1 \in S
      PROVE  m \in S
  <2> SUFFICES ASSUME \E a \in A : a <= m
               PROVE  \E a : Best(m, a)
    OBVIOUS
  <2>1. \A a \in A : a <= m <=> a = m \/ a <= m - 1
    <3>1. m \in Int /\ \A a \in Int : a <= m <=> a = m \/ a <= m - 1
      OBVIOUS
    <3> QED
      BY <1>0, <3>1
  <2>2. CASE m \notin A
    BY <1>2, <2>1, <2>2
  <2>3. CASE m \in A /\ ~\E a \in A : a <= m - 1
    <3>1. Best(m, m)
      BY <2>1, <2>3
    <3> QED
      BY <3>1
  <2>4. CASE m \in A /\ \E a \in A : a <= m - 1
    <3>1. PICK a : Best(m - 1, a)
      BY <1>2, <2>4
    <3>2. CASE <<a, m>> \in Better
      <4>1. Best(m, a)
        BY <2>1, <3>1, <3>2
      <4> QED
        BY <4>1
    <3>3. CASE <<m, a>> \in Better
      <4>1. Best(m, m)
        BY <2>1, <2>4, <3>1, <3>3
      <4> QED
        BY <4>1
    <3>4. a # m
      BY <3>1
    <3> QED
      BY <2>4, <3>1, <3>2, <3>3, <3>4
  <2> QED
    BY <2>2, <2>3, <2>4
<1>3. n \in S
  <2> HIDE DEF S
  <2>1. \A k \in 0..n : k \in S
    BY <1>1, <1>2, UpTo
  <2> QED
    BY <2>1
<1>4. \E a \in A : a <= n
  BY <1>0
<1>5. PICK a : Best(n, a)
  BY <1>3, <1>4
<1> QED
  BY <1>0, <1>5

-----------------------------------------------------------------------------
(* The order of costs.                                                     *)

LEMMA Multiplied ==
  ASSUME NEW a \in Nat, NEW b \in Nat, NEW c \in Nat \ {0}
  PROVE  a <= b <=> a * c <= b * c
<1>1. CASE a <= b
  <2>1. PICK d \in Nat : b = a + d
    <3>1. b - a \in Nat /\ b = a + (b - a)
      BY <1>1
    <3> QED
      BY <3>1
  <2>2. b * c = a * c + d * c /\ d * c \in Nat /\ a * c \in Nat
    BY <2>1
  <2> QED
    BY <1>1, <2>2
<1>2. CASE ~(a <= b)
  <2>1. PICK d \in Nat \ {0} : a = b + d
    <3>1. a - b \in Nat \ {0} /\ a = b + (a - b)
      BY <1>2
    <3> QED
      BY <3>1
  <2>2. a * c = b * c + d * c /\ d * c \in Nat \ {0} /\ b * c \in Nat
    BY <2>1
  <2> QED
    BY <1>2, <2>2
<1> QED
  BY <1>1, <1>2

\* e1/p1 <= e2/p2 and e2/p2 <= e3/p3 give e1/p1 <= e3/p3.
LEMMA CostsAscend ==
  ASSUME NEW e1 \in Nat \ {0}, NEW e2 \in Nat \ {0}, NEW e3 \in Nat \ {0},
         NEW p1 \in Nat \ {0}, NEW p2 \in Nat \ {0}, NEW p3 \in Nat \ {0},
         e1 * p2 <= e2 * p1, e2 * p3 <= e3 * p2
  PROVE  e1 * p3 <= e3 * p1
<1>1. /\ e1 * p2 \in Nat /\ e2 * p1 \in Nat /\ e2 * p3 \in Nat
      /\ e3 * p2 \in Nat /\ e1 * p3 \in Nat /\ e3 * p1 \in Nat
  OBVIOUS
<1>2. (e1 * p2) * p3 <= (e2 * p1) * p3
  BY <1>1, Multiplied
<1>3. (e2 * p3) * p1 <= (e3 * p2) * p1
  BY <1>1, Multiplied
<1>4. /\ (e1 * p2) * p3 = (e1 * p3) * p2
      /\ (e2 * p1) * p3 = (e2 * p3) * p1
      /\ (e3 * p2) * p1 = (e3 * p1) * p2
  OBVIOUS
<1>5. (e1 * p3) * p2 <= (e3 * p1) * p2
  <2> DEFINE x == (e1 * p3) * p2
             y == (e2 * p3) * p1
             z == (e3 * p1) * p2
  <2>1. x \in Nat /\ y \in Nat /\ z \in Nat
    OBVIOUS
  <2>2. x <= y /\ y <= z
    BY <1>2, <1>3, <1>4
  <2> HIDE DEF x, y, z
  <2>3. x <= z
    BY <2>1, <2>2
  <2> QED
    BY <2>3 DEF x, z
<1> QED
  BY <1>1, <1>5, Multiplied

Positive(A, e, p) == \A x \in A : e[x] \in Nat \ {0} /\ p[x] \in Nat \ {0}

FirstLeast(A, e, p, x) ==
  \A y \in A : /\ ~(e[y] * p[x] < e[x] * p[y])
               /\ y < x => e[x] * p[y] < e[y] * p[x]

\* Among candidates with costs e / p there is a first one of the cheapest.
LEMMA FirstOfLeast ==
  ASSUME NEW n \in Nat, NEW A \in SUBSET (1..n), A # {}
  PROVE  \A e, p : Positive(A, e, p) => \E x \in A : FirstLeast(A, e, p, x)
<1> SUFFICES ASSUME NEW e, NEW p, Positive(A, e, p)
             PROVE  \E x \in A : FirstLeast(A, e, p, x)
  OBVIOUS
<1>0. \A x \in A : e[x] \in Nat \ {0} /\ p[x] \in Nat \ {0}
  BY DEF Positive
<1> DEFINE NoDearer(x, y) == e[x] * p[y] <= e[y] * p[x]
           Better == {w \in A \X A : /\ NoDearer(w[1], w[2])
                                     /\ NoDearer(w[2], w[1]) => w[1] < w[2]}
<1>1. \A x \in A : x \in Int
  OBVIOUS
<1>2. \A x, y \in A : e[x] * p[y] \in Nat
  BY <1>0
<1>3. \A x, y \in A : NoDearer(x, y) \/ NoDearer(y, x)
  BY <1>2
<1>4. ASSUME NEW x \in A, NEW y \in A, NEW z \in A, NoDearer(x, y), NoDearer(y, z)
      PROVE  NoDearer(x, z)
  <2>1. /\ e[x] \in Nat \ {0} /\ e[y] \in Nat \ {0} /\ e[z] \in Nat \ {0}
        /\ p[x] \in Nat \ {0} /\ p[y] \in Nat \ {0} /\ p[z] \in Nat \ {0}
    BY <1>0
  <2> QED
    BY <1>4, <2>1, CostsAscend
<1>5. \A x, y \in A : <<x, y>> \in Better <=> NoDearer(x, y) /\ (NoDearer(y, x) => x < y)
  OBVIOUS
<1> HIDE DEF NoDearer, Better
<1>6. \A x, y, z \in A : <<x, y>> \in Better /\ <<y, z>> \in Better => <<x, z>> \in Better
  <2> SUFFICES ASSUME NEW x \in A, NEW y \in A, NEW z \in A,
                      <<x, y>> \in Better, <<y, z>> \in Better
               PROVE  <<x, z>> \in Better
    OBVIOUS
  <2>1. NoDearer(x, y) /\ NoDearer(y, z) /\ NoDearer(x, z)
    BY <1>4, <1>5
  <2>2. ASSUME NoDearer(z, x)
        PROVE  x < z
    <3>1. NoDearer(y, x) /\ NoDearer(z, y)
      BY <1>4, <2>1, <2>2
    <3>2. x < y /\ y < z
      BY <1>5, <3>1
    <3> QED
      BY <1>1, <3>2
  <2> QED
    BY <1>5, <2>1, <2>2
<1>7. \A x, y \in A : x # y => <<x, y>> \in Better \/ <<y, x>> \in Better
  <2>1. \A x, y \in A : x # y => x < y \/ y < x
    BY <1>1
  <2> QED
    BY <1>3, <1>5, <2>1
<1>8. PICK x \in A : \A y \in A : y # x => <<x, y>> \in Better
  <2>1. Orders(Better, A)
    BY <1>6, <1>7 DEF Orders
  <2>2. \A R : Orders(R, A) => \E x \in A : \A y \in A : y # x => <<x, y>> \in R
    BY BestOne
  <2> QED
    BY <2>1, <2>2
<1>9. ASSUME NEW y \in A
      PROVE  /\ ~(e[y] * p[x] < e[x] * p[y])
             /\ y < x => e[x] * p[y] < e[y] * p[x]
  <2>1. CASE y = x
    BY <1>1, <1>2, <2>1
  <2>2. CASE y # x
    <3>1. NoDearer(x, y) /\ (NoDearer(y, x) => x < y)
      BY <1>5, <1>8, <2>2
    <3>2. y < x => ~(x < y)
      BY <1>1
    <3>3. e[x] * p[y] \in Nat /\ e[y] * p[x] \in Nat
      BY <1>2
    <3> QED
      BY <3>1, <3>2, <3>3 DEF NoDearer
  <2> QED
    BY <2>1, <2>2
<1> QED
  BY <1>9 DEF FirstLeast

-----------------------------------------------------------------------------
(* The matrix of times.                                                    *)

Matrix == [Agents -> [Missions -> Nat]]
Performances == [Missions -> [Agents -> Nat]]

\* WorkDone, for given performances.
DoneBy(p, t, m) == Sum([a \in Agents |-> t[a][m] * p[m][a]], NumAgents)

LEMMA Numbers == NumAgents \in Nat \ {0} /\ NumMissions \in Nat \ {0}
BY InputsAssumption

LEMMA TotalBounds ==
  ASSUME NEW t \in Matrix, NEW a \in Agents
  PROVE  /\ Total(t, a) \in Nat
         /\ \A m \in Missions : t[a][m] <= Total(t, a)
         /\ Total(t, a) > 0 => \E m \in Missions : t[a][m] > 0
<1>1. \A m \in 1..NumMissions : t[a][m] \in Nat
  BY DEF Matrix, Missions
<1> DEFINE x == t[a]
<1> HIDE DEF x
<1>2. /\ Sum(x, NumMissions) \in Nat
      /\ \A m \in 1..NumMissions : x[m] <= Sum(x, NumMissions)
      /\ Sum(x, NumMissions) > 0 => \E m \in 1..NumMissions : x[m] > 0
  <2>1. \A m \in 1..NumMissions : x[m] \in Nat
    BY <1>1 DEF x
  <2> QED
    BY <2>1, Numbers, SumBounds
<1> QED
  BY <1>2 DEF x, Total, Missions

LEMMA DoneBounds ==
  ASSUME NEW t \in Matrix, NEW p \in Performances, NEW m \in Missions
  PROVE  /\ DoneBy(p, t, m) \in Nat
         /\ \A a \in Agents : t[a][m] * p[m][a] <= DoneBy(p, t, m)
         /\ DoneBy(p, t, m) > 0 => \E a \in Agents : t[a][m] * p[m][a] > 0
<1> DEFINE x == [a \in Agents |-> t[a][m] * p[m][a]]
<1>1. \A a \in 1..NumAgents : x[a] = t[a][m] * p[m][a] /\ t[a][m] \in Nat /\ p[m][a] \in Nat
  BY DEF Matrix, Performances, Agents
<1>2. \A a \in 1..NumAgents : x[a] \in Nat
  BY <1>1
<1>3. DoneBy(p, t, m) = Sum(x, NumAgents)
  BY DEF DoneBy
<1> HIDE DEF x
<1>4. /\ Sum(x, NumAgents) \in Nat
      /\ \A a \in 1..NumAgents : x[a] <= Sum(x, NumAgents)
      /\ Sum(x, NumAgents) > 0 => \E a \in 1..NumAgents : x[a] > 0
  BY <1>2, Numbers, SumBounds
<1> QED
  BY <1>1, <1>3, <1>4 DEF Agents

\* Where a matrix differs in one cell, one total and one amount of work do.
LEMMA CellChanges ==
  ASSUME NEW t \in Matrix, NEW u \in Matrix, NEW p \in Performances,
         NEW a \in Agents, NEW m \in Missions,
         \A b \in Agents, k \in Missions : <<b, k>> # <<a, m>> => u[b][k] = t[b][k]
  PROVE  /\ Total(u, a) = Total(t, a) + u[a][m] - t[a][m]
         /\ \A b \in Agents \ {a} : Total(u, b) = Total(t, b)
         /\ DoneBy(p, u, m) = DoneBy(p, t, m) + u[a][m] * p[m][a] - t[a][m] * p[m][a]
         /\ \A k \in Missions \ {m} : DoneBy(p, u, k) = DoneBy(p, t, k)
<1>1. \A b \in Agents, k \in Missions : t[b][k] \in Nat /\ u[b][k] \in Nat /\ p[k][b] \in Nat
  BY DEF Matrix, Performances
<1>2. Total(u, a) = Total(t, a) + u[a][m] - t[a][m]
  <2> DEFINE x == t[a]
             y == u[a]
  <2>1. \A k \in 1..NumMissions : x[k] \in Nat /\ y[k] \in Nat /\ (k # m => y[k] = x[k])
    BY <1>1 DEF Missions
  <2> HIDE DEF x, y
  <2>2. Sum(y, NumMissions) = Sum(x, NumMissions) + y[m] - x[m]
    BY <2>1, Numbers, SumChanges DEF Missions
  <2> QED
    BY <2>2 DEF x, y, Total
<1>3. \A b \in Agents \ {a} : Total(u, b) = Total(t, b)
  <2> SUFFICES ASSUME NEW b \in Agents \ {a} PROVE u[b] = t[b]
    BY DEF Total
  <2>1. t[b] \in [Missions -> Nat] /\ u[b] \in [Missions -> Nat]
    BY DEF Matrix
  <2>2. \A k \in Missions : u[b][k] = t[b][k]
    OBVIOUS
  <2> QED
    BY <2>1, <2>2
<1>4. DoneBy(p, u, m) = DoneBy(p, t, m) + u[a][m] * p[m][a] - t[a][m] * p[m][a]
  <2> DEFINE x == [b \in Agents |-> t[b][m] * p[m][b]]
             y == [b \in Agents |-> u[b][m] * p[m][b]]
  <2>1. \A b \in 1..NumAgents : x[b] = t[b][m] * p[m][b] /\ y[b] = u[b][m] * p[m][b]
    BY DEF Agents
  <2>2. \A b \in 1..NumAgents : x[b] \in Nat /\ y[b] \in Nat /\ (b # a => y[b] = x[b])
    BY <1>1 DEF Agents
  <2>3. DoneBy(p, t, m) = Sum(x, NumAgents) /\ DoneBy(p, u, m) = Sum(y, NumAgents)
    BY DEF DoneBy
  <2> HIDE DEF x, y
  <2>4. Sum(y, NumAgents) = Sum(x, NumAgents) + y[a] - x[a]
    BY <2>2, Numbers, SumChanges DEF Agents
  <2> QED
    BY <2>1, <2>3, <2>4 DEF Agents
<1>5. \A k \in Missions \ {m} : DoneBy(p, u, k) = DoneBy(p, t, k)
  <2> SUFFICES ASSUME NEW k \in Missions \ {m} PROVE DoneBy(p, u, k) = DoneBy(p, t, k)
    OBVIOUS
  <2>1. \A b \in Agents : u[b][k] = t[b][k]
    OBVIOUS
  <2>2. [b \in Agents |-> u[b][k] * p[k][b]] = [b \in Agents |-> t[b][k] * p[k][b]]
    BY <2>1
  <2> QED
    BY <2>2 DEF DoneBy
<1> QED
  BY <1>2, <1>3, <1>4, <1>5

\* getSysTime is the longest of the totals.
LEMMA SysTimeIsLongest ==
  ASSUME NEW t \in Matrix
  PROVE  /\ SysTime(t) \in Nat
         /\ \E a \in Agents : Total(t, a) = SysTime(t)
         /\ \A a \in Agents : Total(t, a) <= SysTime(t)
<1>1. \A a \in Agents : Total(t, a) \in Nat
  BY TotalBounds
<1> DEFINE longer == {w \in Agents \X Agents :
                       Total(t, w[1]) > Total(t, w[2])
                         \/ (Total(t, w[1]) = Total(t, w[2]) /\ w[1] < w[2])}
<1>2. \A a, b \in Agents : <<a, b>> \in longer <=>
        Total(t, a) > Total(t, b) \/ (Total(t, a) = Total(t, b) /\ a < b)
  OBVIOUS
<1>3. \A a \in Agents : a \in Int
  BY DEF Agents
<1> HIDE DEF longer
<1>4. Orders(longer, Agents)
  <2>1. \A a, b, c \in Agents : <<a, b>> \in longer /\ <<b, c>> \in longer => <<a, c>> \in longer
    BY <1>1, <1>2, <1>3
  <2>2. \A a, b \in Agents : a # b => <<a, b>> \in longer \/ <<b, a>> \in longer
    BY <1>1, <1>2, <1>3
  <2> QED
    BY <2>1, <2>2 DEF Orders
<1>5. \A R : Orders(R, Agents) => \E a \in Agents : \A b \in Agents : b # a => <<a, b>> \in R
  <2>1. Agents # {} /\ NumAgents \in Nat /\ Agents \in SUBSET (1..NumAgents)
    BY Numbers DEF Agents
  <2> QED
    BY <2>1, BestOne
<1>6. PICK a \in Agents : \A b \in Agents : b # a => <<a, b>> \in longer
  BY <1>4, <1>5
<1>7. \A b \in Agents : Total(t, b) <= Total(t, a)
  <2> SUFFICES ASSUME NEW b \in Agents PROVE Total(t, b) <= Total(t, a)
    OBVIOUS
  <2>1. Total(t, a) \in Nat /\ Total(t, b) \in Nat
    BY <1>1
  <2>2. b # a => Total(t, a) > Total(t, b) \/ Total(t, a) = Total(t, b)
    BY <1>2, <1>6
  <2> QED
    BY <2>1, <2>2
<1>8. \E n \in {Total(t, b) : b \in Agents} : \A k \in {Total(t, b) : b \in Agents} : k <= n
  BY <1>7
<1>9. /\ SysTime(t) \in {Total(t, b) : b \in Agents}
      /\ \A k \in {Total(t, b) : b \in Agents} : k <= SysTime(t)
  BY <1>8 DEF SysTime
<1> QED
  BY <1>1, <1>9

LEMMA SysTimeIs ==
  ASSUME NEW t \in Matrix, NEW v, NEW a \in Agents, Total(t, a) = v,
         \A b \in Agents : Total(t, b) <= v
  PROVE  SysTime(t) = v
<1>1. v \in Nat /\ SysTime(t) \in Nat
  BY TotalBounds, SysTimeIsLongest
<1>2. v <= SysTime(t) /\ SysTime(t) <= v
  BY SysTimeIsLongest
<1> QED
  BY <1>1, <1>2

\* incValue by 1 and by -1.
LEMMA CellInc ==
  ASSUME NEW t \in Matrix, NEW p \in Performances, NEW a \in Agents, NEW m \in Missions
  PROVE  LET u == IncValue(t, a, m, 1) IN
         /\ u \in Matrix /\ u[a][m] = t[a][m] + 1
         /\ \A b \in Agents, k \in Missions : <<b, k>> # <<a, m>> => u[b][k] = t[b][k]
         /\ Total(u, a) = Total(t, a) + 1
         /\ \A b \in Agents \ {a} : Total(u, b) = Total(t, b)
         /\ DoneBy(p, u, m) = DoneBy(p, t, m) + p[m][a]
         /\ \A k \in Missions \ {m} : DoneBy(p, u, k) = DoneBy(p, t, k)
<1> DEFINE u == IncValue(t, a, m, 1)
<1>1. t[a][m] \in Nat /\ p[m][a] \in Nat
  BY DEF Matrix, Performances
<1>2. u \in Matrix /\ u[a][m] = t[a][m] + 1
  BY <1>1 DEF IncValue, Matrix
<1>3. \A b \in Agents, k \in Missions : <<b, k>> # <<a, m>> => u[b][k] = t[b][k]
  BY DEF IncValue, Matrix
<1> HIDE DEF u
<1>4. /\ Total(u, a) = Total(t, a) + u[a][m] - t[a][m]
      /\ \A b \in Agents \ {a} : Total(u, b) = Total(t, b)
      /\ DoneBy(p, u, m) = DoneBy(p, t, m) + u[a][m] * p[m][a] - t[a][m] * p[m][a]
      /\ \A k \in Missions \ {m} : DoneBy(p, u, k) = DoneBy(p, t, k)
  BY <1>2, <1>3, CellChanges
<1>5. Total(u, a) = Total(t, a) + 1
  BY <1>1, <1>2, <1>4, TotalBounds
<1>6. u[a][m] * p[m][a] = t[a][m] * p[m][a] + p[m][a] /\ t[a][m] * p[m][a] \in Nat
  <2>1. \A x, q \in Nat : (x + 1) * q = x * q + q /\ x * q \in Nat
    OBVIOUS
  <2> QED
    BY <1>1, <1>2, <2>1
<1>7. DoneBy(p, u, m) = DoneBy(p, t, m) + p[m][a]
  <2>1. DoneBy(p, t, m) \in Nat
    BY DoneBounds
  <2> QED
    BY <1>1, <1>4, <1>6, <2>1
<1> QED
  BY <1>2, <1>3, <1>4, <1>5, <1>7 DEF u

LEMMA CellDec ==
  ASSUME NEW t \in Matrix, NEW p \in Performances, NEW a \in Agents, NEW m \in Missions
  PROVE  LET u == IncValue(t, a, m, -1) IN
         /\ u \in Matrix /\ u[a][m] <= t[a][m]
         /\ \A b \in Agents, k \in Missions : <<b, k>> # <<a, m>> => u[b][k] = t[b][k]
         /\ \A b \in Agents : Total(u, b) <= Total(t, b)
         /\ DoneBy(p, u, m) >= DoneBy(p, t, m) - p[m][a]
         /\ \A k \in Missions \ {m} : DoneBy(p, u, k) = DoneBy(p, t, k)
<1> DEFINE u == IncValue(t, a, m, -1)
<1>1. t[a][m] \in Nat /\ p[m][a] \in Nat
  BY DEF Matrix, Performances
<1>2. u \in Matrix /\ u[a][m] = IF t[a][m] > 0 THEN t[a][m] - 1 ELSE 0
  BY <1>1 DEF IncValue, Matrix
<1>3. \A b \in Agents, k \in Missions : <<b, k>> # <<a, m>> => u[b][k] = t[b][k]
  BY DEF IncValue, Matrix
<1> HIDE DEF u
<1>4. /\ Total(u, a) = Total(t, a) + u[a][m] - t[a][m]
      /\ \A b \in Agents \ {a} : Total(u, b) = Total(t, b)
      /\ DoneBy(p, u, m) = DoneBy(p, t, m) + u[a][m] * p[m][a] - t[a][m] * p[m][a]
      /\ \A k \in Missions \ {m} : DoneBy(p, u, k) = DoneBy(p, t, k)
  BY <1>2, <1>3, CellChanges
<1>5. \A b \in Agents : Total(u, b) <= Total(t, b)
  <2> SUFFICES ASSUME NEW b \in Agents PROVE Total(u, b) <= Total(t, b)
    OBVIOUS
  <2>1. Total(t, b) \in Nat /\ (b = a => Total(t, a) \in Nat)
    BY TotalBounds
  <2> QED
    BY <1>1, <1>2, <1>4, <2>1
<1>6. DoneBy(p, u, m) >= DoneBy(p, t, m) - p[m][a]
  <2>1. DoneBy(p, t, m) \in Nat
    BY DoneBounds
  <2>2. CASE t[a][m] > 0
    <3>1. t[a][m] * p[m][a] = u[a][m] * p[m][a] + p[m][a] /\ u[a][m] * p[m][a] \in Nat
      BY <1>1, <1>2, <2>2
    <3> QED
      BY <1>1, <1>4, <2>1, <3>1
  <2>3. CASE ~(t[a][m] > 0)
    <3>1. t[a][m] = 0 /\ u[a][m] = 0 /\ 0 * p[m][a] = 0
      BY <1>1, <1>2, <2>3
    <3> QED
      BY <1>1, <1>4, <2>1, <3>1
  <2> QED
    BY <2>2, <2>3
<1>7. u[a][m] <= t[a][m]
  BY <1>1, <1>2
<1> QED
  BY <1>2, <1>3, <1>4, <1>5, <1>6, <1>7 DEF u

-----------------------------------------------------------------------------
(* The searches find what they look for.                                   *)

InputOK ==
  /\ energy \in [Agents -> Energies]
  /\ perf \in [Missions -> [Agents -> Perfs]]
  /\ work \in [Missions -> Works]

LEMMA InputTyped ==
  ASSUME InputOK
  PROVE  /\ energy \in [Agents -> Nat \ {0}]
         /\ perf \in Performances
         /\ work \in [Missions -> Nat \ {0}]
<1>1. energy \in [Agents -> Nat \ {0}]
  BY InputsAssumption DEF InputOK
<1>2. perf \in Performances
  BY InputsAssumption DEF InputOK, Performances
<1>3. work \in [Missions -> Nat \ {0}]
  BY InputsAssumption DEF InputOK
<1> QED
  BY <1>1, <1>2, <1>3

LEMMA CheapestFound ==
  ASSUME InputOK, NEW m \in Missions, NEW S \in SUBSET Agents, S # {},
         \A a \in S : perf[m][a] > 0
  PROVE  FirstCheapest(S, m) \in S
<1> DEFINE e == energy
           p == perf[m]
<1>1. Positive(S, e, p)
  BY InputTyped DEF Performances, Positive
<1>2. NumAgents \in Nat /\ S \in SUBSET (1..NumAgents)
  BY Numbers DEF Agents
<1> HIDE DEF e, p
<1>3. PICK x \in S : FirstLeast(S, e, p, x)
  BY <1>1, <1>2, FirstOfLeast
<1>4. \A b \in S : ~Cheaper(b, m, x, m) /\ (b < x => Cheaper(x, m, b, m))
  BY <1>3 DEF FirstLeast, Cheaper, e, p
<1> QED
  BY <1>4 DEF FirstCheapest

LEMMA DearestFound ==
  ASSUME InputOK, NEW t \in Matrix, NEW a \in Agents,
         \E m \in Missions : perf[m][a] > 0 /\ t[a][m] > 0
  PROVE  MaxCost(t, a) \in Missions /\ perf[MaxCost(t, a)][a] > 0 /\ t[a][MaxCost(t, a)] > 0
<1> DEFINE S == {m \in Missions : perf[m][a] > 0 /\ t[a][m] > 0}
           e == [m \in Missions |-> perf[m][a]]
           p == [m \in Missions |-> energy[a]]
<1>1. \A x \in S : /\ e[x] = perf[x][a] /\ e[x] \in Nat \ {0}
                   /\ p[x] = energy[a] /\ p[x] \in Nat \ {0}
  BY InputTyped DEF Performances
<1>2. NumMissions \in Nat /\ S \in SUBSET (1..NumMissions) /\ S # {}
  BY Numbers DEF Missions
<1>3. MaxCost(t, a) =
        CHOOSE m \in S : \A k \in S : ~Cheaper(a, m, a, k) /\ (k < m => Cheaper(a, k, a, m))
  BY DEF MaxCost
<1> HIDE DEF e, p
<1>4. PICK x \in S : FirstLeast(S, e, p, x)
  <2>1. Positive(S, e, p)
    BY <1>1 DEF Positive
  <2> HIDE DEF S
  <2> QED
    BY <1>2, <2>1, FirstOfLeast
<1>5. \A k \in S : ~Cheaper(a, x, a, k) /\ (k < x => Cheaper(a, k, a, x))
  <2> SUFFICES ASSUME NEW k \in S
               PROVE  ~Cheaper(a, x, a, k) /\ (k < x => Cheaper(a, k, a, x))
    OBVIOUS
  <2>1. /\ e[k] * p[x] = energy[a] * perf[k][a]
        /\ e[x] * p[k] = energy[a] * perf[x][a]
    <3>1. /\ e[k] = perf[k][a] /\ e[x] = perf[x][a]
          /\ p[k] = energy[a] /\ p[x] = energy[a]
          /\ e[k] \in Nat /\ e[x] \in Nat /\ energy[a] \in Nat
      BY <1>1
    <3> QED
      BY <3>1
  <2> QED
    BY <1>4, <2>1 DEF FirstLeast, Cheaper
<1>6. MaxCost(t, a) \in S
  BY <1>3, <1>5
<1> QED
  BY <1>6

-----------------------------------------------------------------------------
(* The inductive invariant.                                                *)

TypeInv ==
  /\ InputOK
  /\ time \in Matrix /\ costed \in Matrix
  /\ pc \in {"fill", "pick", "spread", "settle", "done", "failed"}
  /\ cell \in Agents \X Missions
  /\ maxValue \in Nat /\ deltaWork \in Int /\ changed \in BOOLEAN

(* Nobody is given time in a mission he is unfit for.                      *)
OnlyAble == \A a \in Agents, m \in Missions : time[a][m] > 0 => perf[m][a] > 0

Covered ==
  pc \notin {"fill", "failed"} => \A m \in Missions : DoneBy(perf, time, m) >= work[m]

(* In a pass the cell's agent is still the one that works longest, and the *)
(* work of the unit that is to be taken from it is what has been given     *)
(* away and what is left to give, or there is that much surplus.           *)
InPass ==
  LET a == cell[1]
      m == cell[2]
  IN pc \in {"spread", "settle"} =>
       /\ Total(time, a) = maxValue
       /\ \A b \in Agents : Total(time, b) <= maxValue
       /\ pc = "spread" => DoneBy(perf, time, m) - work[m] + deltaWork = perf[m][a]
       /\ pc = "settle" /\ changed => DoneBy(perf, time, m) - work[m] >= perf[m][a]

(* The matrix the cost is taken from covers the work, and stays as long as *)
(* the one the loop works on.                                              *)
CostKept ==
  /\ pc \in {"fill", "failed"} => costed = Unshared
  /\ costed # Unshared =>
       /\ \A m \in Missions : DoneBy(perf, costed, m) >= work[m]
       /\ pc = "pick" => costed = time
       /\ pc \in {"spread", "settle"} => SysTime(costed) = maxValue
       /\ pc = "done" => SysTime(costed) = SysTime(time)

SharingInv == TypeInv /\ OnlyAble /\ Covered /\ InPass /\ CostKept

LEMMA WorkDoneIs ==
  ASSUME NEW t, NEW m
  PROVE  WorkDone(t, m) = DoneBy(perf, t, m)
BY DEF WorkDone, DoneBy

\* Somebody works longest, and has a mission to take time from.
LEMMA PairFound ==
  ASSUME SharingInv, pc = "pick"
  PROVE  MaxPair \in Agents \X Missions /\ Total(time, MaxPair[1]) = SysTime(time)
<1>1. InputOK /\ time \in Matrix /\ \A m \in Missions : DoneBy(perf, time, m) >= work[m]
  BY DEF SharingInv, TypeInv, Covered
<1>2. /\ \A a \in Agents, m \in Missions : time[a][m] \in Nat /\ perf[m][a] \in Nat
      /\ \A m \in Missions : work[m] \in Nat \ {0}
      /\ perf \in Performances
  BY <1>1, InputTyped DEF Matrix, Performances
<1>3. SysTime(time) > 0
  <2>1. 1 \in Missions
    BY Numbers DEF Missions
  <2>2. DoneBy(perf, time, 1) \in Nat /\ DoneBy(perf, time, 1) > 0
    <3>1. DoneBy(perf, time, 1) >= work[1] /\ work[1] \in Nat \ {0}
      BY <1>1, <1>2, <2>1
    <3>2. DoneBy(perf, time, 1) \in Nat
      BY <1>1, <1>2, <2>1, DoneBounds
    <3> QED
      BY <3>1, <3>2
  <2>3. PICK a \in Agents : time[a][1] * perf[1][a] > 0
    BY <1>1, <1>2, <2>1, <2>2, DoneBounds
  <2>4. time[a][1] > 0
    <3>1. \A q \in Nat : 0 * q = 0
      OBVIOUS
    <3> QED
      BY <1>2, <2>1, <2>3, <3>1
  <2>5. Total(time, a) \in Nat /\ Total(time, a) >= time[a][1]
    BY <1>1, <2>1, TotalBounds
  <2>6. SysTime(time) \in Nat /\ SysTime(time) >= Total(time, a)
    BY <1>1, SysTimeIsLongest
  <2> QED
    BY <1>2, <2>1, <2>4, <2>5, <2>6
<1> DEFINE mc(a) == MaxCost(time, a)
<1>4. ASSUME NEW a \in Longest
      PROVE  /\ a \in Agents /\ Total(time, a) = SysTime(time)
             /\ mc(a) \in Missions /\ perf[mc(a)][a] > 0
  <2>1. a \in Agents /\ Total(time, a) = SysTime(time)
    BY DEF Longest
  <2>2. PICK m \in Missions : time[a][m] > 0
    BY <1>1, <1>3, <2>1, TotalBounds
  <2>3. perf[m][a] > 0
    BY <2>1, <2>2 DEF SharingInv, OnlyAble
  <2> QED
    BY <1>1, <2>1, <2>2, <2>3, DearestFound
<1>5. Longest # {} /\ Longest \in SUBSET (1..NumAgents)
  BY <1>1, SysTimeIsLongest DEF Longest, Agents
<1> DEFINE pairs == {<<a, MaxCost(time, a)>> : a \in Longest}
           e == [a \in Longest |-> perf[mc(a)][a]]
           p == [a \in Longest |-> energy[a]]
<1>6. \A a \in Longest : /\ e[a] = perf[mc(a)][a] /\ e[a] \in Nat \ {0}
                          /\ p[a] = energy[a] /\ p[a] \in Nat \ {0}
  <2>1. \A a \in Longest : perf[mc(a)][a] \in Nat \ {0} /\ energy[a] \in Nat \ {0}
    BY <1>1, <1>2, <1>4, InputTyped
  <2> QED
    BY <2>1
<1> HIDE DEF e, p
<1>7. PICK x \in Longest : FirstLeast(Longest, e, p, x)
  <2>1. Positive(Longest, e, p)
    BY <1>6 DEF Positive
  <2> QED
    BY <1>5, <2>1, Numbers, FirstOfLeast
<1>8. ASSUME NEW y \in Longest
      PROVE  /\ ~Cheaper(x, mc(x), y, mc(y))
             /\ y < x => Cheaper(y, mc(y), x, mc(x))
  <2>1. /\ e[y] * p[x] = energy[x] * perf[mc(y)][y]
        /\ e[x] * p[y] = energy[y] * perf[mc(x)][x]
    <3>1. /\ e[y] = perf[mc(y)][y] /\ e[x] = perf[mc(x)][x]
          /\ p[y] = energy[y] /\ p[x] = energy[x]
          /\ e[y] \in Nat /\ e[x] \in Nat /\ energy[x] \in Nat /\ energy[y] \in Nat
      BY <1>6
    <3> HIDE DEF mc
    <3> QED
      BY <3>1
  <2> QED
    BY <1>7, <2>1 DEF FirstLeast, Cheaper
<1>9. \A q \in pairs : /\ ~Cheaper(x, mc(x), q[1], q[2])
                       /\ q[1] < x => Cheaper(q[1], q[2], x, mc(x))
  BY <1>8
<1>10. MaxPair \in pairs
  <2>1. <<x, mc(x)>> \in pairs
    OBVIOUS
  <2>2. \E w \in pairs : \A q \in pairs :
          /\ ~Cheaper(w[1], w[2], q[1], q[2])
          /\ q[1] < w[1] => Cheaper(q[1], q[2], w[1], w[2])
    BY <1>9, <2>1
  <2> HIDE DEF pairs
  <2>3. MaxPair = CHOOSE w \in pairs : \A q \in pairs :
          /\ ~Cheaper(w[1], w[2], q[1], q[2])
          /\ q[1] < w[1] => Cheaper(q[1], q[2], w[1], w[2])
    BY DEF MaxPair, pairs
  <2> QED
    BY <2>2, <2>3
<1> QED
  BY <1>4, <1>10

-----------------------------------------------------------------------------
(* Every step keeps the invariant, and none but the first makes the time   *)
(* longer.                                                                 *)

LEMMA CeilEnough ==
  ASSUME NEW n \in Nat, NEW d \in Nat \ {0}
  PROVE  Ceil(n, d) \in Nat /\ Ceil(n, d) * d >= n
<1> DEFINE q == (n + d - 1) \div d
           r == (n + d - 1) % d
<1>1. n + d - 1 = q * d + r /\ r \in 0..(d - 1) /\ q \in Nat
  OBVIOUS
<1>2. q * d \in Nat
  BY <1>1
<1> HIDE DEF q, r
<1>3. q * d >= n
  BY <1>1, <1>2
<1> QED
  BY <1>1, <1>3 DEF q, Ceil

LEMMA FillShares ==
  ASSUME SharingInv, Fill
  PROVE  SharingInv'
<1>1. /\ pc = "fill" /\ pc' \in {"pick", "failed"} /\ costed = Unshared
      /\ UNCHANGED <<energy, perf, work, cell, maxValue, deltaWork, changed, costed>>
  BY DEF Fill, SharingInv, CostKept, input, pass
<1>2. InputOK /\ perf \in Performances /\ work \in [Missions -> Nat \ {0}]
  BY InputTyped DEF SharingInv, TypeInv
<1>3. CASE pc' = "failed"
  <2>1. UNCHANGED time
    BY <1>3 DEF Fill
  <2> QED
    BY <1>1, <1>3, <2>1 DEF SharingInv, TypeInv, InputOK, OnlyAble, Covered, InPass, CostKept
<1>4. CASE pc' = "pick"
  <2> DEFINE first(m) == FirstCheapest(Able(m), m)
  <2>1. /\ \A m \in Missions : Able(m) # {}
        /\ time' = [a \in Agents |-> [m \in Missions |->
             IF a = first(m) THEN Ceil(work[m], perf[m][a]) ELSE 0]]
    BY <1>4 DEF Fill
  <2>2. ASSUME NEW m \in Missions
        PROVE  first(m) \in Agents /\ perf[m][first(m)] \in Nat \ {0}
    <3>1. \A a \in Able(m) : a \in Agents /\ perf[m][a] > 0 /\ perf[m][a] \in Nat
      BY <1>2 DEF Able, Performances
    <3>2. first(m) \in Able(m)
      <4>1. Able(m) \in SUBSET Agents
        BY DEF Able
      <4> QED
        BY <1>2, <2>1, <3>1, <4>1, CheapestFound
    <3> QED
      BY <3>1, <3>2
  <2>3. ASSUME NEW m \in Missions
        PROVE  /\ Ceil(work[m], perf[m][first(m)]) \in Nat
               /\ Ceil(work[m], perf[m][first(m)]) * perf[m][first(m)] >= work[m]
    <3>1. work[m] \in Nat
      BY <1>2
    <3> QED
      BY <2>2, <3>1, CeilEnough
  <2> HIDE DEF first
  <2>4. \A a \in Agents, m \in Missions :
          time'[a][m] = IF a = first(m) THEN Ceil(work[m], perf[m][a]) ELSE 0
    BY <2>1
  <2>5. time' \in Matrix
    <3>1. \A a \in Agents, m \in Missions :
            (IF a = first(m) THEN Ceil(work[m], perf[m][a]) ELSE 0) \in Nat
      BY <2>3
    <3> QED
      BY <2>1, <3>1 DEF Matrix
  <2>6. TypeInv'
    BY <1>1, <1>4, <2>5 DEF SharingInv, TypeInv, InputOK
  <2>7. OnlyAble'
    <3> SUFFICES ASSUME NEW a \in Agents, NEW m \in Missions, time'[a][m] > 0
                 PROVE  perf'[m][a] > 0
      BY DEF OnlyAble
    <3>1. a = first(m)
      BY <2>4
    <3> QED
      BY <1>1, <2>2, <3>1
  <2>8. Covered'
    <3> SUFFICES ASSUME NEW m \in Missions
                 PROVE  DoneBy(perf, time', m) >= work[m]
      BY <1>1 DEF Covered
    <3>1. time'[first(m)][m] * perf[m][first(m)] >= work[m]
      BY <2>2, <2>3, <2>4
    <3>2. /\ time'[first(m)][m] * perf[m][first(m)] <= DoneBy(perf, time', m)
          /\ DoneBy(perf, time', m) \in Nat
      BY <1>2, <2>2, <2>5, DoneBounds
    <3>3. time'[first(m)][m] * perf[m][first(m)] \in Nat /\ work[m] \in Nat
      BY <1>2, <2>2, <2>3, <2>4
    <3> QED
      BY <3>1, <3>2, <3>3
  <2>9. InPass' /\ CostKept'
    BY <1>1, <1>4 DEF InPass, CostKept
  <2> QED
    BY <2>6, <2>7, <2>8, <2>9 DEF SharingInv
<1> QED
  BY <1>1, <1>3, <1>4

LEMMA PickShares ==
  ASSUME SharingInv, Pick
  PROVE  SharingInv' /\ time' = time
<1>1. /\ pc = "pick" /\ cell' = MaxPair /\ maxValue' = SysTime(time)
      /\ deltaWork' = Delta(cell'[1], cell'[2]) /\ changed' = (deltaWork' = 0)
      /\ pc' = IF deltaWork' > 0 THEN "spread" ELSE "settle"
      /\ UNCHANGED <<energy, perf, work, time, costed>>
  BY DEF Pick, input
<1>2. cell' \in Agents \X Missions /\ Total(time, cell'[1]) = SysTime(time)
  BY <1>1, PairFound
<1> DEFINE a == cell'[1]
           m == cell'[2]
<1>3. a \in Agents /\ m \in Missions
  BY <1>2
<1> HIDE DEF a, m
<1>4. /\ InputOK /\ time \in Matrix /\ perf \in Performances
      /\ work[m] \in Nat /\ perf[m][a] \in Nat /\ DoneBy(perf, time, m) \in Nat
  BY <1>3, InputTyped, DoneBounds DEF SharingInv, TypeInv, Performances
<1>5. deltaWork' = perf[m][a] - (DoneBy(perf, time, m) - work[m])
  BY <1>1, WorkDoneIs DEF Delta, Surplus, a, m
<1>6. SysTime(time) \in Nat /\ \A b \in Agents : Total(time, b) <= SysTime(time)
  BY <1>4, SysTimeIsLongest
<1>7. TypeInv'
  BY <1>1, <1>2, <1>4, <1>5, <1>6 DEF SharingInv, TypeInv, InputOK
<1>8. OnlyAble' /\ Covered'
  BY <1>1 DEF SharingInv, OnlyAble, Covered
<1>9. InPass'
  <2>1. DoneBy(perf, time, m) - work[m] + deltaWork' = perf[m][a]
    BY <1>4, <1>5
  <2>2. deltaWork' = 0 => DoneBy(perf, time, m) - work[m] >= perf[m][a]
    BY <1>4, <2>1
  <2> QED
    BY <1>1, <1>2, <1>6, <2>1, <2>2 DEF InPass, a, m
<1>10. CostKept'
  BY <1>1 DEF SharingInv, CostKept
<1> QED
  BY <1>1, <1>7, <1>8, <1>9, <1>10 DEF SharingInv

\* What is known of the cell while a pass goes on.
LEMMA InPassTypes ==
  ASSUME SharingInv, pc \in {"spread", "settle"}
  PROVE  /\ InputOK /\ time \in Matrix /\ perf \in Performances
         /\ cell[1] \in Agents /\ cell[2] \in Missions
         /\ perf[cell[2]][cell[1]] \in Nat
         /\ \A k \in Missions : work[k] \in Nat /\ DoneBy(perf, time, k) \in Nat
         /\ \A b \in Agents : Total(time, b) \in Nat
         /\ maxValue \in Nat /\ deltaWork \in Int
         /\ SysTime(time) = maxValue
<1>1. /\ InputOK /\ time \in Matrix /\ perf \in Performances
      /\ cell[1] \in Agents /\ cell[2] \in Missions
      /\ maxValue \in Nat /\ deltaWork \in Int
  BY InputTyped DEF SharingInv, TypeInv
<1>2. \A k \in Missions : work[k] \in Nat
  BY <1>1, InputTyped
<1>3. perf[cell[2]][cell[1]] \in Nat
  BY <1>1 DEF Performances
<1>4. SysTime(time) = maxValue
  <2>1. Total(time, cell[1]) = maxValue /\ \A b \in Agents : Total(time, b) <= maxValue
    BY DEF SharingInv, InPass
  <2> QED
    BY <1>1, <2>1, SysTimeIs
<1>5. \A k \in Missions : DoneBy(perf, time, k) \in Nat
  BY <1>1, DoneBounds
<1>6. \A b \in Agents : Total(time, b) \in Nat
  BY <1>1, TotalBounds
<1> QED
  BY <1>1, <1>2, <1>3, <1>4, <1>5, <1>6

LEMMA SpreadShares ==
  ASSUME SharingInv, Spread
  PROVE  SharingInv' /\ SysTime(time') = SysTime(time)
<1> DEFINE m == cell[2]
           a == FirstCheapest(Takers, m)
<1>1. /\ pc = "spread" /\ Takers # {} /\ time' = IncValue(time, a, m, 1)
      /\ deltaWork' = deltaWork - perf[m][a]
      /\ pc' = IF deltaWork' > 0 THEN "spread" ELSE "settle"
      /\ changed' = TRUE
      /\ UNCHANGED <<energy, perf, work, cell, maxValue, costed>>
  BY DEF Spread, input
<1>2. /\ InputOK /\ time \in Matrix /\ perf \in Performances
      /\ cell[1] \in Agents /\ m \in Missions
      /\ perf[m][cell[1]] \in Nat
      /\ \A k \in Missions : work[k] \in Nat /\ DoneBy(perf, time, k) \in Nat
      /\ \A b \in Agents : Total(time, b) \in Nat
      /\ maxValue \in Nat /\ deltaWork \in Int
      /\ SysTime(time) = maxValue
  BY <1>1, InPassTypes
<1>3. a \in Takers
  <2>1. \A b \in Takers : perf[m][b] > 0
    BY DEF Takers
  <2>2. Takers \in SUBSET Agents
    BY DEF Takers
  <2> QED
    BY <1>1, <1>2, <2>1, <2>2, CheapestFound
<1> HIDE DEF a
<1>4. /\ a \in Agents /\ a # cell[1] /\ perf[m][a] > 0 /\ perf[m][a] \in Nat
      /\ Total(time, a) + 1 <= maxValue - 1
  BY <1>2, <1>3 DEF Takers, Performances
<1>5. /\ time' \in Matrix /\ time'[a][m] = time[a][m] + 1
      /\ \A b \in Agents, k \in Missions : <<b, k>> # <<a, m>> => time'[b][k] = time[b][k]
      /\ Total(time', a) = Total(time, a) + 1
      /\ \A b \in Agents \ {a} : Total(time', b) = Total(time, b)
      /\ DoneBy(perf, time', m) = DoneBy(perf, time, m) + perf[m][a]
      /\ \A k \in Missions \ {m} : DoneBy(perf, time', k) = DoneBy(perf, time, k)
  BY <1>1, <1>2, <1>4, CellInc
<1>6. /\ Total(time, cell[1]) = maxValue /\ \A b \in Agents : Total(time, b) <= maxValue
      /\ DoneBy(perf, time, m) - work[m] + deltaWork = perf[m][cell[1]]
  BY <1>1 DEF SharingInv, InPass
<1>7. Total(time', cell[1]) = maxValue /\ \A b \in Agents : Total(time', b) <= maxValue
  <2>1. Total(time', a) <= maxValue
    BY <1>2, <1>4, <1>5
  <2> QED
    BY <1>2, <1>4, <1>5, <1>6, <2>1
<1>8. SysTime(time') = maxValue
  BY <1>2, <1>5, <1>7, SysTimeIs
<1>9. /\ DoneBy(perf, time', m) - work[m] + deltaWork' = perf[m][cell[1]]
      /\ deltaWork' \in Int
      /\ ~(deltaWork' > 0) => DoneBy(perf, time', m) - work[m] >= perf[m][cell[1]]
  BY <1>1, <1>2, <1>4, <1>5, <1>6
<1>10. TypeInv'
  BY <1>1, <1>5, <1>9 DEF SharingInv, TypeInv, InputOK
<1>11. OnlyAble'
  <2> SUFFICES ASSUME NEW b \in Agents, NEW k \in Missions, time'[b][k] > 0
               PROVE  perf[k][b] > 0
    BY <1>1 DEF OnlyAble
  <2>1. CASE <<b, k>> = <<a, m>>
    BY <1>4, <2>1
  <2>2. CASE <<b, k>> # <<a, m>>
    BY <1>5, <2>2 DEF SharingInv, OnlyAble
  <2> QED
    BY <2>1, <2>2
<1>12. Covered'
  <2> SUFFICES ASSUME NEW k \in Missions PROVE DoneBy(perf, time', k) >= work[k]
    BY <1>1 DEF Covered
  <2>1. DoneBy(perf, time, k) >= work[k]
    BY <1>1 DEF SharingInv, Covered
  <2> QED
    BY <1>2, <1>4, <1>5, <2>1
<1>13. InPass'
  BY <1>1, <1>7, <1>9 DEF InPass
<1>14. CostKept'
  BY <1>1 DEF SharingInv, CostKept
<1> QED
  BY <1>2, <1>8, <1>10, <1>11, <1>12, <1>13, <1>14 DEF SharingInv

LEMMA NoTakerShares ==
  ASSUME SharingInv, NoTaker
  PROVE  SharingInv' /\ time' = time
<1>1. /\ pc = "spread" /\ pc' = "settle" /\ changed' = FALSE
      /\ UNCHANGED <<energy, perf, work, time, cell, maxValue, deltaWork, costed>>
  BY DEF NoTaker, input
<1>2. TypeInv'
  BY <1>1 DEF SharingInv, TypeInv, InputOK
<1>3. OnlyAble' /\ Covered'
  BY <1>1 DEF SharingInv, OnlyAble, Covered
<1>4. InPass'
  BY <1>1 DEF SharingInv, InPass
<1>5. CostKept'
  BY <1>1 DEF SharingInv, CostKept
<1> QED
  BY <1>1, <1>2, <1>3, <1>4, <1>5 DEF SharingInv

LEMMA SettleShares ==
  ASSUME SharingInv, Settle
  PROVE  SharingInv' /\ SysTime(time') <= SysTime(time)
<1> DEFINE a == cell[1]
           m == cell[2]
<1>1. /\ pc = "settle"
      /\ UNCHANGED <<energy, perf, work, cell, maxValue, deltaWork, changed>>
  BY DEF Settle, input, pass
<1>2. /\ InputOK /\ time \in Matrix /\ perf \in Performances
      /\ a \in Agents /\ m \in Missions
      /\ perf[m][a] \in Nat
      /\ \A k \in Missions : work[k] \in Nat /\ DoneBy(perf, time, k) \in Nat
      /\ \A b \in Agents : Total(time, b) \in Nat
      /\ SysTime(time) = maxValue /\ maxValue \in Nat
  BY <1>1, InPassTypes
<1>3. CASE ~changed
  <2>1. pc' = "done" /\ UNCHANGED <<time, costed>>
    BY <1>3 DEF Settle
  <2>2. TypeInv'
    BY <1>1, <2>1 DEF SharingInv, TypeInv, InputOK
  <2>3. OnlyAble' /\ Covered'
    BY <1>1, <2>1 DEF SharingInv, OnlyAble, Covered
  <2>4. InPass'
    BY <2>1 DEF InPass
  <2>5. CostKept'
    BY <1>1, <1>2, <2>1 DEF SharingInv, CostKept
  <2> QED
    BY <1>2, <2>1, <2>2, <2>3, <2>4, <2>5 DEF SharingInv
<1>4. CASE changed
  <2>1. time' = IncValue(time, a, m, -1) /\ costed' = time' /\ pc' = "pick"
    BY <1>4 DEF Settle
  <2>2. /\ time' \in Matrix /\ time'[a][m] <= time[a][m]
        /\ \A b \in Agents, k \in Missions : <<b, k>> # <<a, m>> => time'[b][k] = time[b][k]
        /\ \A b \in Agents : Total(time', b) <= Total(time, b)
        /\ DoneBy(perf, time', m) >= DoneBy(perf, time, m) - perf[m][a]
        /\ \A k \in Missions \ {m} : DoneBy(perf, time', k) = DoneBy(perf, time, k)
    BY <1>2, <2>1, CellDec
  <2>3. TypeInv'
    BY <1>1, <2>1, <2>2 DEF SharingInv, TypeInv, InputOK
  <2>4. OnlyAble'
    <3> SUFFICES ASSUME NEW b \in Agents, NEW k \in Missions, time'[b][k] > 0
                 PROVE  perf[k][b] > 0
      BY <1>1 DEF OnlyAble
    <3>1. time[b][k] > 0
      <4>1. time'[b][k] \in Nat /\ time[b][k] \in Nat
        BY <1>2, <2>2 DEF Matrix
      <4>2. time'[b][k] <= time[b][k]
        BY <2>2, <4>1
      <4> QED
        BY <4>1, <4>2
    <3> QED
      BY <3>1 DEF SharingInv, OnlyAble
  <2>5. \A k \in Missions : DoneBy(perf, time', k) >= work[k]
    <3> SUFFICES ASSUME NEW k \in Missions PROVE DoneBy(perf, time', k) >= work[k]
      OBVIOUS
    <3>1. CASE k = m
      <4>1. DoneBy(perf, time, m) - work[m] >= perf[m][a]
        BY <1>1, <1>4 DEF SharingInv, InPass
      <4>2. DoneBy(perf, time', m) \in Nat
        BY <1>2, <2>2, DoneBounds
      <4> QED
        BY <1>2, <2>2, <3>1, <4>1, <4>2
    <3>2. CASE k # m
      BY <1>1, <2>2, <3>2 DEF SharingInv, Covered
    <3> QED
      BY <3>1, <3>2
  <2>6. Covered' /\ InPass' /\ CostKept'
    BY <1>1, <2>1, <2>5 DEF Covered, InPass, CostKept
  <2>7. SysTime(time') <= SysTime(time)
    <3>1. PICK b \in Agents : Total(time', b) = SysTime(time')
      BY <2>2, SysTimeIsLongest
    <3>2. Total(time, b) <= SysTime(time)
      BY <1>2, SysTimeIsLongest
    <3>3. Total(time', b) \in Nat
      BY <2>2, TotalBounds
    <3> QED
      BY <1>2, <2>2, <3>1, <3>2, <3>3
  <2> QED
    BY <2>3, <2>4, <2>6, <2>7 DEF SharingInv
<1> QED
  BY <1>3, <1>4

-----------------------------------------------------------------------------

LEMMA SharingInvHolds == Spec => []SharingInv
<1>1. Init => SharingInv
  <2> SUFFICES ASSUME Init PROVE SharingInv
    OBVIOUS
  <2>1. 1 \in Agents /\ 1 \in Missions
    BY Numbers DEF Agents, Missions
  <2>2. Unshared \in Matrix /\ \A a \in Agents, m \in Missions : Unshared[a][m] = 0
    BY DEF Unshared, Matrix
  <2>3. TypeInv
    <3>1. InputOK
      BY DEF Init, InputOK
    <3>2. time \in Matrix /\ costed \in Matrix /\ cell \in Agents \X Missions
      BY <2>1, <2>2 DEF Init
    <3>3. 0 \in Nat /\ 0 \in Int
      OBVIOUS
    <3> QED
      BY <3>1, <3>2, <3>3 DEF Init, TypeInv
  <2>4. OnlyAble
    BY <2>2 DEF Init, OnlyAble
  <2>5. Covered /\ InPass /\ CostKept
    BY DEF Init, Covered, InPass, CostKept
  <2> QED
    BY <2>3, <2>4, <2>5 DEF SharingInv
<1>2. SharingInv /\ [Next]_vars => SharingInv'
  <2> SUFFICES ASSUME SharingInv, [Next]_vars PROVE SharingInv'
    OBVIOUS
  <2>1. CASE UNCHANGED vars
    <3>1. UNCHANGED <<energy, perf, work, time, pc, cell, maxValue, deltaWork, changed, costed>>
      BY <2>1 DEF vars, input, pass
    <3> QED
      BY <3>1 DEF SharingInv, TypeInv, InputOK, OnlyAble, Covered, InPass, CostKept
  <2> QED
    BY <2>1, FillShares, PickShares, SpreadShares, NoTakerShares, SettleShares DEF Next
<1> QED
  BY <1>1, <1>2, PTL DEF Spec

(***************************************************************************)
(* Whatever the sharing out gives away and wherever a pass breaks off, the *)
(* time the agents have is enough for all work; and the matrix the result  *)
(* is the cost of is enough too, and takes as long as the one the loop     *)
(* ends with.                                                              *)
(***************************************************************************)
THEOREM NoWorkIsLost == Spec => []WorkCovered
<1>1. SharingInv => WorkCovered
  <2> SUFFICES ASSUME SharingInv PROVE WorkCovered
    OBVIOUS
  <2>1. /\ time \in Matrix /\ perf \in Performances
        /\ \A m \in Missions : work[m] \in Nat /\ DoneBy(perf, time, m) \in Nat
    BY InputTyped, DoneBounds DEF SharingInv, TypeInv
  <2>2. pc \notin {"fill", "failed"} => \A m \in Missions : Surplus(m) >= 0
    <3> SUFFICES ASSUME pc \notin {"fill", "failed"}, NEW m \in Missions
                 PROVE  Surplus(m) >= 0
      OBVIOUS
    <3>1. DoneBy(perf, time, m) >= work[m]
      BY DEF SharingInv, Covered
    <3>2. Surplus(m) = DoneBy(perf, time, m) - work[m]
      BY WorkDoneIs DEF Surplus
    <3> QED
      BY <2>1, <3>1, <3>2
  <2>3. pc = "done" /\ costed # Unshared =>
          /\ \A m \in Missions : WorkDone(costed, m) >= work[m]
          /\ SysTime(costed) = SysTime(time)
    BY WorkDoneIs DEF SharingInv, CostKept
  <2> QED
    BY <2>2, <2>3 DEF WorkCovered
<1> QED
  BY <1>1, SharingInvHolds, PTL

(***************************************************************************)
(* After the first sharing out no step makes the agent that works longest  *)
(* work longer, not even in the middle of a pass.                          *)
(***************************************************************************)
THEOREM EveningUpShortens == Spec => NeverLonger
<1>1. SharingInv /\ [Next]_vars => [pc # "fill" => SysTime(time') <= SysTime(time)]_vars
  <2> SUFFICES ASSUME SharingInv, Next, pc # "fill"
               PROVE  SysTime(time') <= SysTime(time)
    OBVIOUS
  <2>1. time \in Matrix
    BY DEF SharingInv, TypeInv
  <2>2. SysTime(time) \in Nat
    BY <2>1, SysTimeIsLongest
  <2>3. ~Fill
    BY DEF Fill
  <2> QED
    BY <2>2, <2>3, PickShares, SpreadShares, NoTakerShares, SettleShares DEF Next
<1> QED
  BY <1>1, SharingInvHolds, PTL DEF Spec, NeverLonger
=============================================================================
