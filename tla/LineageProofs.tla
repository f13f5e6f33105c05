--------------------------- MODULE LineageProofs ---------------------------
(* The theorems about Lineage and LineageGraph and their proofs: for any      *)
(* number of calls, however they overlap, a chain never points forward, and   *)
(* calls made one after the other are a chain; for any table, page size and   *)
(* filter given in UTC, paging through it while rows are added skips none of  *)
(* those that were there; and the graph of what was read holds every event.   *)
(*                                                                            *)
(* First what the recursive functions of the model compute: a loop, the rows  *)
(* it picks, a sum, the trees of a group of events and the walk through them. *)
(* None of that needs an assumption on the constants.                         *)
EXTENDS LineageGraph, SequenceTheorems, FiniteSetTheorems, FunctionTheorems,
        WellFoundedInduction, TLAPS

----------------------------------------------------------------------------
(* Numbers and loops. *)

\* A set of natural numbers that is not empty has a least one.
LEMMA LeastExists ==
    ASSUME NEW S, S \subseteq Nat, S # {}
    PROVE  \E n \in S : \A m \in S : n <= m
<1> DEFINE Less == {p \in Nat \X Nat : p[1] < p[2]}
<1>1. IsWellFoundedOn(Less, Nat)
  BY NatLessThanWellFounded DEF OpToRel
<1>2. \A x, y \in Nat : <<y, x>> \in Less <=> y < x
  OBVIOUS
<1>. HIDE DEF Less
<1>3. PICK n \in S : \A m \in S : ~(<<m, n>> \in Less)
  BY <1>1, WFMin
<1>4. n \in Nat /\ \A m \in S : m \in Nat /\ ~(m < n)
  BY <1>2, <1>3
<1>. QED
  BY <1>4

\* What holds of 0, and of a number up to n with its predecessor, holds up to n.
LEMMA UpTo ==
    ASSUME NEW n \in Nat, NEW S, 0 \in S, \A k \in 1..n : k - 1 \in S => k \in S
    PROVE  0..n \subseteq S
<1> DEFINE Out == (0..n) \ S
<1>1. SUFFICES ASSUME Out # {} PROVE FALSE
  OBVIOUS
<1>2. PICK k \in Out : \A m \in Out : k <= m
  <2>1. Out \subseteq Nat
    OBVIOUS
  <2>. HIDE DEF Out
  <2>. QED
    BY <1>1, <2>1, LeastExists
<1>3. k \in 1..n /\ k \notin S /\ k - 1 \in 0..n /\ ~(k <= k - 1)
  BY <1>2
<1>4. k - 1 \in S
  BY <1>2, <1>3
<1>. QED
  BY <1>3, <1>4

\* f holds the values of a loop of n steps, from base.
IsLoop(f, S, n, base, step) ==
    /\ f \in [0..n -> S] /\ f[0] = base
    /\ \A k \in 1..n : f[k] = step[k][f[k - 1]]

\* The steps of a loop determine its values.
LEMMA LoopExists ==
    ASSUME NEW S, NEW n \in Nat, NEW base \in S, NEW step \in [1..n -> [S -> S]]
    PROVE  \E f : IsLoop(f, S, n, base, step)
<1> DEFINE Runs(k) == \E f : IsLoop(f, S, k, base, step)
           Good == {k \in 0..n : Runs(k)}
<1>1. 0 \in Good
  <2> DEFINE f == [k \in 0..0 |-> base]
  <2>1. f \in [0..0 -> S] /\ f[0] = base /\ \A m \in 1..0 : f[m] = step[m][f[m - 1]]
    OBVIOUS
  <2>2. Runs(0)
    <3>. HIDE DEF f
    <3>. QED
      BY <2>1 DEF IsLoop
  <2>. HIDE DEF Runs
  <2>. QED
    BY <2>2
<1>2. ASSUME NEW k \in 1..n, k - 1 \in Good PROVE k \in Good
  <2>1. PICK f : /\ f \in [0..(k - 1) -> S] /\ f[0] = base
                 /\ \A m \in 1..(k - 1) : f[m] = step[m][f[m - 1]]
    BY <1>2 DEF IsLoop
  <2> DEFINE g == [m \in 0..k |-> IF m = k THEN step[k][f[k - 1]] ELSE f[m]]
  <2>2. step[k][f[k - 1]] \in S /\ \A m \in 0..k : m # k => m \in 0..(k - 1)
    BY <2>1
  <2>3. g \in [0..k -> S] /\ g[0] = base
    BY <2>1, <2>2
  <2>4. \A m \in 1..k : g[m] = step[m][g[m - 1]]
    <3>1. TAKE m \in 1..k
    <3>2. m \in 0..k /\ m - 1 \in 0..k /\ m - 1 # k /\ (m # k => m \in 1..(k - 1))
      OBVIOUS
    <3>. QED
      BY <2>1, <3>2
  <2>5. Runs(k)
    <3>. HIDE DEF g
    <3>. QED
      BY <2>3, <2>4 DEF IsLoop
  <2>6. k \in 0..n
    OBVIOUS
  <2>. HIDE DEF Runs
  <2>. QED
    BY <2>5, <2>6
<1>. HIDE DEF Good
<1>3. 0..n \subseteq Good
  BY <1>1, <1>2, UpTo
<1>4. n \in Good
  BY <1>3
<1>. QED
  BY <1>4 DEF Good

----------------------------------------------------------------------------
\* f holds what Pick has taken after each row.
IsPick(f, T, rows, places) ==
    /\ f \in [0..Len(rows) -> Seq(T)] /\ f[0] = <<>> /\ Pick(rows, places) = f[Len(rows)]
    /\ \A k \in 1..Len(rows) :
         f[k] = IF k \in places THEN Append(f[k - 1], rows[k]) ELSE f[k - 1]

\* The recursive function in Pick has the values of its loop.
LEMMA PickLoop ==
    ASSUME NEW T, NEW rows \in Seq(T), NEW places
    PROVE  \E f : IsPick(f, T, rows, places)
<1> DEFINE n == Len(rows)
           Turn(s, k) == IF k \in places THEN Append(s, rows[k]) ELSE s
           Body(f) == [k \in 0..n |->
                         IF k = 0 THEN <<>>
                         ELSE IF k \in places THEN Append(f[k - 1], rows[k]) ELSE f[k - 1]]
           picked == CHOOSE f : f = Body(f)
<1>1. n \in Nat /\ \A k \in 1..n : rows[k] \in T
  BY LenProperties, ElementOfSeq
<1>2. Pick(rows, places) = picked[n]
  BY DEF Pick
<1>3. \A s \in Seq(T), k \in 1..n : Turn(s, k) \in Seq(T)
  BY <1>1, AppendProperties
<1>4. picked = Body(picked)
  <2> DEFINE step == [k \in 1..n |-> [s \in Seq(T) |-> Turn(s, k)]]
  <2>1. step \in [1..n -> [Seq(T) -> Seq(T)]]
    BY <1>3
  <2>2. PICK f : IsLoop(f, Seq(T), n, <<>>, step)
    <3>. HIDE DEF step, n
    <3>. QED
      BY <1>1, <2>1, EmptySeq, LoopExists
  <2>3. \A k \in 0..n : k # 0 => k \in 1..n /\ k - 1 \in 0..n
    BY <1>1
  <2>4. \A k \in 0..n : f[k] = Body(f)[k]
    BY <2>2, <2>3 DEF IsLoop
  <2>5. f = Body(f)
    BY <2>2, <2>4 DEF IsLoop
  <2>. QED
    BY <2>5
<1>. HIDE DEF picked, Body
<1>5. picked[0] = <<>> /\ \A k \in 1..n : picked[k] = Turn(picked[k - 1], k)
  <2>1. \A k \in 0..n : picked[k] = Body(picked)[k]
    BY <1>4
  <2>2. 0 \in 0..n /\ \A k \in 1..n : k \in 0..n /\ k # 0
    BY <1>1
  <2>. HIDE DEF n
  <2>. QED
    BY <2>1, <2>2 DEF Body
<1> DEFINE Good == {k \in 0..n : picked[k] \in Seq(T)}
<1>6. 0 \in Good
  <2>1. 0 \in 0..n /\ picked[0] \in Seq(T)
    BY <1>1, <1>5, EmptySeq
  <2>. QED
    BY <2>1
<1>7. \A k \in 1..n : k - 1 \in Good => k \in Good
  <2>1. \A k \in 1..n : k \in 0..n
    BY <1>1
  <2>. HIDE DEF Turn, n
  <2>. QED
    BY <1>3, <1>5, <2>1
<1>8. 0..n \subseteq Good
  <2>. HIDE DEF Good, n
  <2>. QED
    BY <1>1, <1>6, <1>7, UpTo
<1>9. picked \in [0..n -> Seq(T)]
  BY <1>4, <1>8 DEF Body
<1>. QED
  BY <1>2, <1>5, <1>9 DEF IsPick

\* It returns the rows at the places, and nothing else.
Holds(picked, rows, places) ==
    /\ \A i \in DOMAIN rows : i \in places => \E m \in DOMAIN picked : picked[m] = rows[i]
    /\ \A m \in DOMAIN picked : \E i \in DOMAIN rows : i \in places /\ picked[m] = rows[i]

\* Pick returns the rows at the places, in a sequence of the same kind.
LEMMA PickRows ==
    ASSUME NEW T, NEW rows \in Seq(T), NEW places
    PROVE  Pick(rows, places) \in Seq(T) /\ Holds(Pick(rows, places), rows, places)
<1> DEFINE n == Len(rows)
<1>1. n \in Nat /\ DOMAIN rows = 1..n
  BY LenProperties
<1>2. PICK f : /\ f \in [0..n -> Seq(T)] /\ f[0] = <<>> /\ Pick(rows, places) = f[n]
               /\ \A k \in 1..n :
                    f[k] = IF k \in places THEN Append(f[k - 1], rows[k]) ELSE f[k - 1]
  <2>1. PICK f : IsPick(f, T, rows, places)
    BY PickLoop
  <2>. QED
    BY <2>1 DEF IsPick
<1> DEFINE Right(k) ==
      /\ \A i \in 1..k : i \in places => \E m \in DOMAIN f[k] : f[k][m] = rows[i]
      /\ \A m \in DOMAIN f[k] : \E i \in 1..k : i \in places /\ f[k][m] = rows[i]
    Good == {k \in 0..n : Right(k)}
<1>3. ASSUME NEW k \in 1..n, Right(k - 1) PROVE Right(k)
  <2>1. k \in Nat /\ k - 1 \in 0..n /\ 1..k = (1..(k - 1)) \cup {k}
    BY <1>1
  <2>. HIDE DEF Right
  <2>2. f[k - 1] \in Seq(T) /\ rows[k] \in T
    <3>1. rows[k] \in T
      BY ElementOfSeq
    <3>. QED
      BY <1>2, <2>1, <3>1
  <2>. USE DEF Right
  <2>3. CASE k \notin places
    <3>1. f[k] = f[k - 1]
      BY <1>2, <2>3
    <3>. QED
      BY <1>3, <2>1, <2>3, <3>1
  <2>4. CASE k \in places
    <3>1. f[k] = Append(f[k - 1], rows[k])
      BY <1>2, <2>4
    <3> DEFINE l == Len(f[k - 1])
    <3>2. /\ l \in Nat /\ DOMAIN f[k - 1] = 1..l
          /\ Len(f[k]) = l + 1 /\ f[k] \in Seq(T) /\ f[k][l + 1] = rows[k]
          /\ \A m \in 1..l : f[k][m] = f[k - 1][m]
      BY <2>1, <2>2, <3>1, LenProperties, AppendProperties
    <3>3. DOMAIN f[k] = (1..l) \cup {l + 1}
      <4>1. DOMAIN f[k] = 1..(l + 1)
        BY <3>2, LenProperties
      <4>. QED
        BY <3>2, <4>1
    <3>. HIDE DEF l
    <3>4. ASSUME NEW i \in 1..k, i \in places
          PROVE  \E m \in DOMAIN f[k] : f[k][m] = rows[i]
      BY <1>3, <2>1, <3>2, <3>3, <3>4, ZenonT(30)
    <3>5. ASSUME NEW m \in DOMAIN f[k]
          PROVE  \E i \in 1..k : i \in places /\ f[k][m] = rows[i]
      <4>1. CASE m = l + 1
        BY <2>1, <2>4, <3>2, <4>1
      <4>2. CASE m \in 1..l
        <5>1. PICK i \in 1..(k - 1) : i \in places /\ f[k - 1][m] = rows[i]
          BY <1>3, <3>2, <4>2
        <5>. QED
          BY <2>1, <3>2, <4>2, <5>1
      <4>. QED
        BY <3>3, <4>1, <4>2
    <3>. QED
      BY <3>4, <3>5
  <2>. QED
    BY <2>3, <2>4
<1>4. Right(0)
  BY <1>2
<1>. HIDE DEF Right
<1>5. 0..n \subseteq Good
  <2>1. 0 \in Good /\ \A k \in 1..n : k - 1 \in Good => k \in Good
    BY <1>1, <1>3, <1>4
  <2>. HIDE DEF Good, n
  <2>. QED
    BY <1>1, <2>1, UpTo
<1>6. Right(n)
  BY <1>1, <1>5
<1>. QED
  <2>1. n \in 0..n /\ f[n] \in Seq(T)
    BY <1>1, <1>2
  <2>2. Holds(f[n], rows, places)
    BY <1>1, <1>6, Zenon DEF Right, Holds
  <2>. HIDE DEF n
  <2>. QED
    BY <1>2, <2>1, <2>2

----------------------------------------------------------------------------
(* Sums along a sequence of numbers. *)

\* f holds the partial sums.
IsSum(f, s) ==
    /\ f \in [0..Len(s) -> Nat] /\ f[0] = 0 /\ Sum(s) = f[Len(s)]
    /\ \A k \in 1..Len(s) : f[k] = f[k - 1] + s[k]

\* The recursive function in Sum has the partial sums.
LEMMA SumLoop == ASSUME NEW s \in Seq(Nat) PROVE \E f : IsSum(f, s)
<1> DEFINE n == Len(s)
           Body(f) == [k \in 0..n |-> IF k = 0 THEN 0 ELSE f[k - 1] + s[k]]
           sum == CHOOSE f : f = Body(f)
<1>1. n \in Nat /\ \A k \in 1..n : s[k] \in Nat
  BY LenProperties, ElementOfSeq
<1>2. Sum(s) = sum[n]
  BY DEF Sum
<1>3. sum = Body(sum)
  <2> DEFINE step == [k \in 1..n |-> [m \in Nat |-> m + s[k]]]
  <2>1. step \in [1..n -> [Nat -> Nat]]
    BY <1>1
  <2>2. PICK f : IsLoop(f, Nat, n, 0, step)
    <3>. HIDE DEF step, n
    <3>. QED
      BY <1>1, <2>1, LoopExists
  <2>3. \A k \in 0..n : k # 0 => k \in 1..n /\ k - 1 \in 0..n
    BY <1>1
  <2>4. \A k \in 0..n : f[k] = Body(f)[k]
    BY <2>2, <2>3 DEF IsLoop
  <2>5. f = Body(f)
    BY <2>2, <2>4 DEF IsLoop
  <2>. QED
    BY <2>5
<1>. HIDE DEF sum, Body
<1>4. sum[0] = 0 /\ \A k \in 1..n : sum[k] = sum[k - 1] + s[k]
  <2>1. \A k \in 0..n : sum[k] = Body(sum)[k]
    BY <1>3
  <2>2. 0 \in 0..n /\ \A k \in 1..n : k \in 0..n /\ k # 0
    BY <1>1
  <2>. HIDE DEF n
  <2>. QED
    BY <2>1, <2>2 DEF Body
<1> DEFINE Good == {k \in 0..n : sum[k] \in Nat}
<1>5. 0 \in Good /\ \A k \in 1..n : k - 1 \in Good => k \in Good
  <2>1. 0 \in 0..n /\ \A k \in 1..n : k \in 0..n
    BY <1>1
  <2>. HIDE DEF n
  <2>. QED
    BY <1>1, <1>4, <2>1
<1>6. 0..n \subseteq Good
  <2>. HIDE DEF Good, n
  <2>. QED
    BY <1>1, <1>5, UpTo
<1>7. sum \in [0..n -> Nat]
  BY <1>3, <1>6 DEF Body
<1>. QED
  BY <1>2, <1>4, <1>7 DEF IsSum

\* A partial sum and the next one.
LEMMA SumStep ==
    ASSUME NEW s \in Seq(Nat), NEW f, IsSum(f, s), NEW k \in 1..Len(s)
    PROVE  /\ f[k] \in Nat /\ f[k - 1] \in Nat /\ s[k] \in Nat /\ f[k] = f[k - 1] + s[k]
           /\ k \in 0..Len(s)
<1>1. Len(s) \in Nat /\ s[k] \in Nat
  BY LenProperties, ElementOfSeq
<1>2. k \in 0..Len(s) /\ k - 1 \in 0..Len(s)
  BY <1>1
<1>. QED
  BY <1>1, <1>2 DEF IsSum

\* The first partial sum and the last.
LEMMA SumEnds ==
    ASSUME NEW s \in Seq(Nat), NEW f, IsSum(f, s)
    PROVE  /\ Len(s) \in Nat /\ Len(s) \in 0..Len(s) /\ 0 \in 0..Len(s)
           /\ f[0] = 0 /\ Sum(s) = f[Len(s)] /\ f[Len(s)] \in Nat
<1>1. Len(s) \in Nat
  BY LenProperties
<1>2. Len(s) \in 0..Len(s) /\ 0 \in 0..Len(s)
  BY <1>1
<1>. QED
  BY <1>1, <1>2 DEF IsSum

\* A sum is a natural number, no smaller than any of its terms.
LEMMA SumBounds ==
    ASSUME NEW s \in Seq(Nat)
    PROVE  Sum(s) \in Nat /\ \A k \in 1..Len(s) : s[k] <= Sum(s)
<1> DEFINE n == Len(s)
<1>1. n \in Nat /\ \A k \in 1..n : s[k] \in Nat
  BY LenProperties, ElementOfSeq
<1>2. PICK f : IsSum(f, s)
  BY SumLoop
<1> DEFINE Good == {k \in 0..n : \A m \in 1..k : s[m] <= f[k]}
<1>3. 0 \in Good
  BY <1>1
<1>4. ASSUME NEW k \in 1..n, k - 1 \in Good PROVE k \in Good
  <2>1. /\ f[k] \in Nat /\ f[k - 1] \in Nat /\ s[k] \in Nat /\ f[k] = f[k - 1] + s[k]
        /\ k \in 0..n
    BY <1>2, SumStep
  <2>2. \A m \in 1..(k - 1) : s[m] <= f[k - 1] /\ s[m] \in Nat
    BY <1>1, <1>4
  <2>3. ASSUME NEW m \in 1..k PROVE s[m] <= f[k]
    <3>1. m = k \/ m \in 1..(k - 1)
      OBVIOUS
    <3>. QED
      BY <2>1, <2>2, <3>1
  <2>. QED
    BY <2>1, <2>3
<1>5. 0..n \subseteq Good
  <2>. HIDE DEF Good, n
  <2>. QED
    BY <1>1, <1>3, <1>4, UpTo
<1>. QED
  BY <1>2, <1>5, SumEnds

\* The sum of the sums at each place.
LEMMA SumOfSums ==
    ASSUME NEW s \in Seq(Nat), NEW t \in Seq(Nat), Len(t) = Len(s)
    PROVE  LET w == [k \in 1..Len(s) |-> s[k] + t[k]]
           IN  w \in Seq(Nat) /\ Sum(w) = Sum(s) + Sum(t)
<1> DEFINE n == Len(s)
           w == [k \in 1..n |-> s[k] + t[k]]
<1>1. n \in Nat /\ \A k \in 1..n : s[k] \in Nat /\ t[k] \in Nat
  BY LenProperties, ElementOfSeq
<1>2. w \in Seq(Nat) /\ Len(w) = n /\ \A k \in 1..n : w[k] = s[k] + t[k]
  BY <1>1
<1>. HIDE DEF w
<1>3. PICK f : IsSum(f, s)
  BY SumLoop
<1>4. PICK g : IsSum(g, t)
  BY SumLoop
<1>5. PICK h : IsSum(h, w)
  BY <1>2, SumLoop
<1> DEFINE Good == {k \in 0..n : h[k] = f[k] + g[k]}
<1>6. 0 \in Good
  BY <1>2, <1>3, <1>4, <1>5, SumEnds
<1>7. ASSUME NEW k \in 1..n, k - 1 \in Good PROVE k \in Good
  <2>1. f[k] \in Nat /\ f[k - 1] \in Nat /\ s[k] \in Nat /\ f[k] = f[k - 1] + s[k] /\ k \in 0..n
    BY <1>3, SumStep
  <2>2. g[k] \in Nat /\ g[k - 1] \in Nat /\ t[k] \in Nat /\ g[k] = g[k - 1] + t[k]
    BY <1>4, SumStep
  <2>3. h[k] = h[k - 1] + w[k]
    BY <1>2, <1>5, SumStep
  <2>4. w[k] = s[k] + t[k] /\ h[k - 1] = f[k - 1] + g[k - 1] /\ k \in Nat
    BY <1>1, <1>2, <1>7
  <2>5. h[k] = f[k] + g[k]
    <3>1. h[k] = (f[k - 1] + g[k - 1]) + (s[k] + t[k])
      BY <2>3, <2>4
    <3>2. @ = (f[k - 1] + s[k]) + (g[k - 1] + t[k])
      <4> DEFINE a == f[k - 1]
                 b == g[k - 1]
                 c == s[k]
                 d == t[k]
      <4>1. a \in Nat /\ b \in Nat /\ c \in Nat /\ d \in Nat
        BY <2>1, <2>2
      <4>. HIDE DEF a, b, c, d
      <4>2. (a + b) + (c + d) = (a + c) + (b + d)
        BY <4>1
      <4>. QED
        BY <4>2 DEF a, b, c, d
    <3>3. @ = f[k] + g[k]
      BY <2>1, <2>2
    <3>. QED
      BY <3>1, <3>2, <3>3
  <2>. QED
    BY <2>1, <2>5
<1>8. 0..n \subseteq Good
  <2>. HIDE DEF Good, n
  <2>. QED
    BY <1>1, <1>6, <1>7, UpTo
<1>9. n \in Good
  BY <1>1, <1>8
<1>10. Sum(w) = Sum(s) + Sum(t)
  BY <1>2, <1>3, <1>4, <1>5, <1>9, SumEnds
<1>. QED
  BY <1>2, <1>10 DEF w

\* Of noughts the sum is nought, of ones the length.
LEMMA SumOfSame ==
    ASSUME NEW s \in Seq(Nat), NEW c \in {0, 1}, \A k \in 1..Len(s) : s[k] = c
    PROVE  Sum(s) = IF c = 0 THEN 0 ELSE Len(s)
<1> DEFINE n == Len(s)
<1>1. n \in Nat
  BY LenProperties
<1>2. PICK f : IsSum(f, s)
  BY SumLoop
<1> DEFINE Good == {k \in 0..n : f[k] = IF c = 0 THEN 0 ELSE k}
<1>3. 0 \in Good /\ \A k \in 1..n : k - 1 \in Good => k \in Good
  BY <1>1, <1>2, SumStep, SumEnds, SMTT(30)
<1>4. 0..n \subseteq Good
  <2>. HIDE DEF Good, n
  <2>. QED
    BY <1>1, <1>3, UpTo
<1>5. n \in Good
  BY <1>1, <1>4
<1>. QED
  BY <1>1, <1>2, <1>5, SumEnds

\* The sum of a sequence with a number at one place, and noughts elsewhere.
LEMMA SumOfOne ==
    ASSUME NEW s \in Seq(Nat), NEW p \in 1..Len(s), \A k \in 1..Len(s) : k # p => s[k] = 0
    PROVE  Sum(s) = s[p]
<1> DEFINE n == Len(s)
<1>1. n \in Nat /\ s[p] \in Nat
  BY LenProperties, ElementOfSeq
<1>2. PICK f : IsSum(f, s)
  BY SumLoop
<1> DEFINE Good == {k \in 0..n : f[k] = IF k < p THEN 0 ELSE s[p]}
<1>3. 0 \in Good
  BY <1>1, <1>2, SumEnds
<1>4. ASSUME NEW k \in 1..n, k - 1 \in Good PROVE k \in Good
  <2>1. f[k] = f[k - 1] + s[k] /\ f[k - 1] = (IF k - 1 < p THEN 0 ELSE s[p])
    BY <1>2, <1>4, SumStep
  <2>2. k \in 0..n /\ (k # p => s[k] = 0)
    BY <1>1
  <2>. QED
    BY <1>1, <2>1, <2>2
<1>5. 0..n \subseteq Good
  <2>. HIDE DEF Good, n
  <2>. QED
    BY <1>1, <1>3, <1>4, UpTo
<1>6. n \in Good /\ ~(n < p)
  BY <1>1, <1>5
<1>. QED
  BY <1>2, <1>6, SumEnds

\* The sum of two sequences put together.
LEMMA SumOfConcat ==
    ASSUME NEW s \in Seq(Nat), NEW t \in Seq(Nat)
    PROVE  Sum(s \o t) = Sum(s) + Sum(t)
<1> DEFINE n == Len(s)
           m == Len(t)
<1>1. n \in Nat /\ m \in Nat
  BY LenProperties, ElementOfSeq
<1> DEFINE c == s \o t
<1>2. /\ c \in Seq(Nat) /\ Len(c) = n + m
      /\ \A k \in 1..n : c[k] = s[k]
      /\ \A k \in 1..m : c[n + k] = t[k]
  BY <1>1, ConcatProperties
<1>. HIDE DEF c
<1>3. PICK f : IsSum(f, s)
  BY SumLoop
<1>4. PICK g : IsSum(g, t)
  BY SumLoop
<1>5. PICK h : IsSum(h, c)
  BY <1>2, SumLoop
<1> DEFINE Left == {k \in 0..n : h[k] = f[k]}
           Right == {k \in 0..m : h[n + k] = f[n] + g[k]}
<1>6. /\ f[0] = 0 /\ g[0] = 0 /\ h[0] = 0 /\ f[n] \in Nat
      /\ Sum(s) = f[n] /\ Sum(t) = g[m] /\ Sum(c) = h[n + m]
  BY <1>2, <1>3, <1>4, <1>5, SumEnds
<1>7. \A k \in 1..n : f[k] = f[k - 1] + s[k]
  BY <1>3, SumStep
<1>8. \A k \in 1..m : g[k - 1] \in Nat /\ t[k] \in Nat /\ g[k] = g[k - 1] + t[k]
  BY <1>4, SumStep
<1>. HIDE DEF n, m
<1>9. \A k \in 1..(n + m) : h[k] = h[k - 1] + c[k]
  <2>1. c \in Seq(Nat) /\ 1..(n + m) = 1..Len(c)
    BY <1>2
  <2>. QED
    BY <1>5, <2>1, SumStep
<1>10. ASSUME NEW k \in 1..n, k - 1 \in Left PROVE k \in Left
  <2>1. k \in 0..n /\ k \in 1..(n + m) /\ h[k - 1] = f[k - 1]
    BY <1>1, <1>10
  <2>. QED
    BY <1>2, <1>7, <1>9, <2>1
<1>11. h[n] = f[n]
  <2>1. 0 \in Left
    BY <1>1, <1>6
  <2>2. 0..n \subseteq Left
    <3>. HIDE DEF Left
    <3>. QED
      BY <1>1, <1>10, <2>1, UpTo
  <2>. QED
    BY <1>1, <2>2
<1>12. ASSUME NEW k \in 1..m, k - 1 \in Right PROVE k \in Right
  <2>1. /\ k \in 0..m /\ n + k \in 1..(n + m) /\ n + (k - 1) = n + k - 1
        /\ h[n + (k - 1)] = f[n] + g[k - 1]
    BY <1>1, <1>12
  <2>2. c[n + k] = t[k]
    BY <1>2
  <2>3. h[n + k] = h[n + k - 1] + c[n + k]
    BY <1>1, <1>9, <2>1
  <2>4. g[k - 1] \in Nat /\ t[k] \in Nat /\ g[k] = g[k - 1] + t[k]
    BY <1>8
  <2>5. h[n + k] = f[n] + g[k]
    BY <1>6, <2>1, <2>2, <2>3, <2>4
  <2>. QED
    BY <2>1, <2>5
<1>13. h[n + m] = f[n] + g[m]
  <2>1. 0 \in Right
    <3>1. n + 0 = n /\ 0 \in 0..m
      BY <1>1
    <3>. QED
      BY <1>6, <1>11, <3>1
  <2>2. 0..m \subseteq Right
    <3>. HIDE DEF Right
    <3>. QED
      BY <1>1, <1>12, <2>1, UpTo
  <2>. QED
    BY <1>1, <2>2
<1>. QED
  BY <1>6, <1>13 DEF c

\* The sum with one more term.
LEMMA SumOfAppend ==
    ASSUME NEW s \in Seq(Nat), NEW x \in Nat
    PROVE  Sum(Append(s, x)) = Sum(s) + x
<1> DEFINE one == <<x>>
<1>1. one \in Seq(Nat) /\ Len(one) = 1 /\ one[1] = x
  OBVIOUS
<1>2. Append(s, x) = s \o one
  BY AppendIsConcat
<1>. HIDE DEF one
<1>3. Sum(one) = x
  <2>1. 1 \in 1..Len(one) /\ \A k \in 1..Len(one) : k # 1 => one[k] = 0
    BY <1>1
  <2>. QED
    BY <1>1, <2>1, SumOfOne
<1>. QED
  BY <1>1, <1>2, <1>3, SumOfConcat

----------------------------------------------------------------------------
(* The nodes of a group. *)

\* Parents come first.
Linked(g) == g \in Seq(Rows) /\ \A i \in DOMAIN g : g[i].parent < g[i].id

\* The events of a group and their ids.
LEMMA GroupFacts ==
    ASSUME NEW g \in Seq(Rows)
    PROVE  /\ Len(g) \in Nat /\ DOMAIN g = 1..Len(g)
           /\ \A i \in 1..Len(g) : g[i] \in Rows /\ g[i].id \in Ids(g)
           /\ Ids(g) \subseteq Nat /\ \A n \in Ids(g) : \E i \in 1..Len(g) : g[i].id = n
<1>1. Len(g) \in Nat /\ DOMAIN g = 1..Len(g) /\ \A i \in 1..Len(g) : g[i] \in Rows
  BY LenProperties, ElementOfSeq
<1>. QED
  BY <1>1 DEF Ids, Rows

\* Which nodes are picked.
LEMMA PickedNodes ==
    ASSUME NEW g \in Seq(Rows), NEW places
    PROVE  LET s == NodesOf(Pick(g, places))
           IN  /\ s \in Seq(Ids(g))
               /\ \A i \in 1..Len(g) : i \in places => \E m \in 1..Len(s) : s[m] = g[i].id
               /\ \A m \in 1..Len(s) : \E i \in 1..Len(g) : i \in places /\ s[m] = g[i].id
<1> DEFINE p == Pick(g, places)
           s == NodesOf(p)
<1>1. p \in Seq(Rows)
  BY PickRows
<1>2. /\ \A i \in 1..Len(g) : i \in places => \E m \in DOMAIN p : p[m] = g[i]
      /\ \A m \in DOMAIN p : \E i \in 1..Len(g) : i \in places /\ p[m] = g[i]
  <2>1. DOMAIN g = 1..Len(g)
    BY GroupFacts
  <2>2. Holds(p, g, places)
    BY PickRows
  <2>. HIDE DEF p
  <2>. QED
    BY <2>1, <2>2 DEF Holds
<1>. HIDE DEF p
<1>3. Len(p) \in Nat /\ DOMAIN p = 1..Len(p)
  BY <1>1, LenProperties
<1>4. s = [k \in 1..Len(p) |-> p[k].id]
  BY <1>3 DEF NodesOf
<1>5. \A m \in 1..Len(p) : p[m].id \in Ids(g)
  BY <1>2, <1>3, GroupFacts
<1>6. s \in Seq(Ids(g)) /\ Len(s) = Len(p) /\ \A m \in 1..Len(p) : s[m] = p[m].id
  BY <1>3, <1>4, <1>5
<1>. HIDE DEF s
<1>7. \A i \in 1..Len(g) : i \in places => \E m \in 1..Len(s) : s[m] = g[i].id
  BY <1>2, <1>3, <1>6
<1>8. ASSUME NEW m \in 1..Len(s)
      PROVE  \E i \in 1..Len(g) : i \in places /\ s[m] = g[i].id
  <2>1. m \in DOMAIN p /\ s[m] = p[m].id
    BY <1>3, <1>6
  <2>2. PICK i \in 1..Len(g) : i \in places /\ p[m] = g[i]
    BY <1>2, <2>1
  <2>. QED
    BY <2>1, <2>2
<1>. QED
  BY <1>6, <1>7, <1>8 DEF s, p

\* The values of nodes.
LEMMA ValuesOf ==
    ASSUME NEW S, NEW value \in [S -> Nat], NEW s \in Seq(S)
    PROVE  /\ Of(value, s) \in Seq(Nat) /\ Len(Of(value, s)) = Len(s)
           /\ \A k \in 1..Len(s) : Of(value, s)[k] = value[s[k]]
<1>1. Len(s) \in Nat /\ DOMAIN s = 1..Len(s) /\ \A k \in 1..Len(s) : s[k] \in S
  BY LenProperties, ElementOfSeq
<1>2. Of(value, s) = [k \in 1..Len(s) |-> value[s[k]]]
  BY <1>1 DEF Of
<1>. QED
  BY <1>1, <1>2

\* The value of the node at each of the places, 0 elsewhere.
At(g, value, places) == [k \in 1..Len(g) |-> IF k \in places THEN value[g[k].id] ELSE 0]

\* The sum over the picked nodes, place by place.
LEMMA SumOfPicked ==
    ASSUME NEW g \in Seq(Rows), NEW value \in [Ids(g) -> Nat], NEW places
    PROVE  /\ At(g, value, places) \in Seq(Nat) /\ Len(At(g, value, places)) = Len(g)
           /\ Sum(Of(value, NodesOf(Pick(g, places)))) = Sum(At(g, value, places))
<1> DEFINE n == Len(g)
           w == [k \in 1..n |-> IF k \in places THEN value[g[k].id] ELSE 0]
           T == {r \in Rows : r.id \in Ids(g)}
           Values(rows) == Of(value, NodesOf(rows))
<1>1. n \in Nat /\ \A k \in 1..n : g[k] \in T
  BY GroupFacts
<1>2. \A k \in 1..n : value[g[k].id] \in Nat
  BY <1>1
<1>3. g \in Seq(T)
  <2>1. g \in [1..n -> T]
    BY <1>1, LenProperties
  <2>. QED
    BY <1>1, <2>1
<1>4. /\ w \in Seq(Nat) /\ Len(w) = n
      /\ \A k \in 1..n : w[k] = IF k \in places THEN value[g[k].id] ELSE 0
  BY <1>1, <1>2
<1>. HIDE DEF w
<1>5. PICK h : IsSum(h, w)
  BY <1>4, SumLoop
<1>6. PICK f : /\ f \in [0..n -> Seq(T)] /\ f[0] = <<>> /\ Pick(g, places) = f[n]
               /\ \A k \in 1..n :
                    f[k] = IF k \in places THEN Append(f[k - 1], g[k]) ELSE f[k - 1]
  <2>. HIDE DEF T
  <2>1. PICK f : IsPick(f, T, g, places)
    BY <1>3, PickLoop
  <2>. QED
    BY <2>1 DEF IsPick
<1>7. ASSUME NEW r \in Seq(T)
      PROVE  /\ Values(r) \in Seq(Nat) /\ Len(Values(r)) = Len(r)
             /\ Values(r) = [k \in 1..Len(r) |-> value[r[k].id]]
  <2>1. Len(r) \in Nat /\ DOMAIN r = 1..Len(r) /\ \A k \in 1..Len(r) : r[k] \in T
    BY LenProperties, ElementOfSeq
  <2>2. NodesOf(r) = [k \in 1..Len(r) |-> r[k].id]
    BY <2>1 DEF NodesOf
  <2>3. NodesOf(r) \in Seq(Ids(g)) /\ Len(NodesOf(r)) = Len(r)
    BY <2>1, <2>2
  <2>4. Values(r) = [k \in 1..Len(r) |-> value[r[k].id]]
    BY <2>1, <2>2 DEF Of
  <2>. QED
    BY <2>1, <2>3, <2>4, ValuesOf
<1>8. ASSUME NEW r \in Seq(T), NEW x \in T
      PROVE  Sum(Values(Append(r, x))) = Sum(Values(r)) + value[x.id]
  <2> DEFINE a == Values(Append(r, x))
             b == Values(r)
  <2>1. /\ Append(r, x) \in Seq(T) /\ Len(Append(r, x)) = Len(r) + 1 /\ Len(r) \in Nat
        /\ \A k \in 1..Len(r) : Append(r, x)[k] = r[k]
        /\ Append(r, x)[Len(r) + 1] = x
    BY AppendProperties, LenProperties
  <2>2. /\ a \in Seq(Nat) /\ Len(a) = Len(r) + 1
        /\ \A k \in 1..(Len(r) + 1) : a[k] = value[Append(r, x)[k].id]
    BY <1>7, <2>1
  <2>3. b \in Seq(Nat) /\ Len(b) = Len(r) /\ \A k \in 1..Len(r) : b[k] = value[r[k].id]
    BY <1>7
  <2>. HIDE DEF a, b
  <2>4. value[x.id] \in Nat
    OBVIOUS
  <2>5. /\ Append(b, value[x.id]) \in Seq(Nat) /\ Len(Append(b, value[x.id])) = Len(r) + 1
        /\ \A k \in 1..Len(r) : Append(b, value[x.id])[k] = b[k]
        /\ Append(b, value[x.id])[Len(r) + 1] = value[x.id]
    BY <2>3, <2>4, AppendProperties
  <2>6. a = Append(b, value[x.id])
    <3>1. ASSUME NEW k \in 1..Len(r) PROVE a[k] = Append(b, value[x.id])[k]
      <4>1. k \in 1..(Len(r) + 1)
        BY <2>1
      <4>2. a[k] = value[r[k].id]
        BY <2>1, <2>2, <4>1
      <4>. QED
        BY <2>3, <2>5, <4>2
    <3>2. a[Len(r) + 1] = Append(b, value[x.id])[Len(r) + 1]
      BY <2>1, <2>2, <2>5
    <3>3. \A k \in 1..Len(a) : k \in 1..Len(r) \/ k = Len(r) + 1
      BY <2>1, <2>2
    <3>. QED
      BY <2>2, <2>5, <3>1, <3>2, <3>3, SeqEqual
  <2>7. Sum(a) = Sum(b) + value[x.id]
    BY <2>3, <2>4, <2>6, SumOfAppend
  <2>. QED
    BY <2>7 DEF a, b
<1> DEFINE Good == {k \in 0..n : Sum(Values(f[k])) = h[k]}
<1>9. 0 \in Good
  <2>1. <<>> \in Seq(T) /\ Len(<<>>) = 0
    BY EmptySeq
  <2>2. Values(<<>>) \in Seq(Nat) /\ Len(Values(<<>>)) = 0
    BY <1>7, <2>1
  <2>. HIDE DEF Values
  <2>3. Sum(Values(<<>>)) = 0
    BY <2>2, SumOfSame
  <2>. QED
    BY <1>1, <1>4, <1>5, <1>6, <2>3, SumEnds
<1>10. ASSUME NEW k \in 1..n, k - 1 \in Good PROVE k \in Good
  <2>1. k \in 0..n /\ k - 1 \in 0..n /\ g[k] \in T
    BY <1>1
  <2>2. h[k] = h[k - 1] + w[k] /\ h[k - 1] \in Nat
    BY <1>4, <1>5, SumStep
  <2>3. Sum(Values(f[k - 1])) = h[k - 1]
    BY <1>10
  <2>. HIDE DEF Values, T
  <2>4. CASE k \in places
    <3>1. f[k] = Append(f[k - 1], g[k]) /\ w[k] = value[g[k].id] /\ f[k - 1] \in Seq(T)
      BY <1>4, <1>6, <2>1, <2>4
    <3>. QED
      BY <1>8, <2>1, <2>2, <2>3, <3>1
  <2>5. CASE k \notin places
    <3>1. f[k] = f[k - 1] /\ w[k] = 0
      BY <1>4, <1>6, <2>5
    <3>. QED
      BY <2>1, <2>2, <2>3, <3>1
  <2>. QED
    BY <2>4, <2>5
<1>11. n \in Good
  <2>1. 0..n \subseteq Good
    <3>. HIDE DEF Good, n
    <3>. QED
      BY <1>1, <1>9, <1>10, UpTo
  <2>. QED
    BY <1>1, <2>1
<1>12. Sum(Of(value, NodesOf(Pick(g, places)))) = Sum(w)
  BY <1>4, <1>5, <1>6, <1>11, SumEnds
<1>. QED
  BY <1>4, <1>12 DEF w, At

\* No id is above some number.
LEMMA IdsBounded == ASSUME NEW g \in Seq(Rows) PROVE \E m \in Nat : \A n \in Ids(g) : n <= m
<1> DEFINE ids == [i \in 1..Len(g) |-> g[i].id]
<1>1. /\ Len(g) \in Nat /\ \A i \in 1..Len(g) : g[i].id \in Nat
      /\ \A n \in Ids(g) : \E i \in 1..Len(g) : g[i].id = n
  BY GroupFacts
<1>2. ids \in Seq(Nat) /\ Len(ids) = Len(g) /\ \A i \in 1..Len(g) : ids[i] = g[i].id
  BY <1>1
<1>. HIDE DEF ids
<1>3. Sum(ids) \in Nat /\ \A n \in Ids(g) : n <= Sum(ids)
  BY <1>1, <1>2, SumBounds
<1>. QED
  BY <1>3

\* The children of a node are nodes, with greater ids.
LEMMA ChildrenBelow ==
    ASSUME NEW g, Linked(g), NEW n \in Ids(g)
    PROVE  /\ Children(g, n) \in Seq(Ids(g))
           /\ \A k \in 1..Len(Children(g, n)) : Children(g, n)[k] > n
<1> DEFINE places == {i \in DOMAIN g : g[i].parent = n}
           s == NodesOf(Pick(g, places))
<1>1. g \in Seq(Rows) /\ \A i \in 1..Len(g) : g[i].parent < g[i].id
  BY GroupFacts DEF Linked
<1>2. n \in Nat /\ \A i \in 1..Len(g) : g[i].id \in Nat
  BY <1>1, GroupFacts DEF Rows
<1>3. s \in Seq(Ids(g)) /\ \A m \in 1..Len(s) : \E i \in 1..Len(g) : i \in places /\ s[m] = g[i].id
  <2>. HIDE DEF places
  <2>. QED
    BY <1>1, PickedNodes
<1>4. \A m \in 1..Len(s) : s[m] > n
  <2>. HIDE DEF s
  <2>. QED
    BY <1>1, <1>2, <1>3
<1>. QED
  BY <1>3, <1>4 DEF Children

\* As a child has the greater id, the recursion of Subtree is well founded: a
\* subtree holds its node and the subtrees of the children.
LEMMA SubtreeSums ==
    ASSUME NEW g, Linked(g), NEW value \in [Ids(g) -> Nat]
    PROVE  /\ Subtree(g, value) \in [Ids(g) -> Nat]
           /\ \A n \in Ids(g) :
                Subtree(g, value)[n] = value[n] + Sum(Of(Subtree(g, value), Children(g, n)))
<1> DEFINE Body(f) == [id \in Ids(g) |-> value[id] + Sum(Of(f, Children(g, id)))]
           sub == CHOOSE f : f = Body(f)
<1>1. g \in Seq(Rows) /\ Ids(g) \subseteq Nat
  BY GroupFacts DEF Linked
<1>2. PICK m \in Nat : \A n \in Ids(g) : n <= m
  BY <1>1, IdsBounded
<1>3. ASSUME NEW f \in [Ids(g) -> Nat] PROVE Body(f) \in [Ids(g) -> Nat]
  <2>1. \A n \in Ids(g) : Of(f, Children(g, n)) \in Seq(Nat)
    BY ChildrenBelow, ValuesOf
  <2>2. \A n \in Ids(g) : Sum(Of(f, Children(g, n))) \in Nat
    BY <2>1, SumBounds
  <2>. QED
    BY <2>2
<1>4. ASSUME NEW f, NEW h, NEW n \in Ids(g), \A c \in Ids(g) : c > n => f[c] = h[c]
      PROVE  Body(f)[n] = Body(h)[n]
  <2>1. /\ Len(Children(g, n)) \in Nat /\ DOMAIN Children(g, n) = 1..Len(Children(g, n))
        /\ \A k \in 1..Len(Children(g, n)) : Children(g, n)[k] \in Ids(g)
    BY ChildrenBelow, LenProperties, ElementOfSeq
  <2>2. \A k \in DOMAIN Children(g, n) : f[Children(g, n)[k]] = h[Children(g, n)[k]]
    BY <1>4, <2>1, ChildrenBelow
  <2>3. Of(f, Children(g, n)) = Of(h, Children(g, n))
    BY <2>2 DEF Of
  <2>. QED
    BY <2>3
<1>5. \A n \in Ids(g), k \in Nat : \A c \in Ids(g) : c > n /\ n + k > m => c + (k - 1) > m
  BY <1>1, <1>2
<1>. HIDE DEF Body
<1>6. PICK f \in [Ids(g) -> Nat] : f = Body(f)
  <2> DEFINE Settled(f, k) == \A n \in Ids(g) : n + k > m => f[n] = Body(f)[n]
             Good == {k \in 0..(m + 1) : \E f \in [Ids(g) -> Nat] : Settled(f, k)}
  <2>1. 0 \in Good
    <3>1. [n \in Ids(g) |-> 0] \in [Ids(g) -> Nat] /\ \A n \in Ids(g) : ~(n + 0 > m)
      BY <1>1, <1>2
    <3>2. \E f \in [Ids(g) -> Nat] : Settled(f, 0)
      BY <3>1
    <3>. QED
      BY <3>2
  <2>2. ASSUME NEW k \in 1..(m + 1), k - 1 \in Good PROVE k \in Good
    <3>1. PICK f \in [Ids(g) -> Nat] : Settled(f, k - 1)
      BY <2>2
    <3>2. ASSUME NEW n \in Ids(g), n + k > m PROVE Body(f)[n] = Body(Body(f))[n]
      <4>1. \A c \in Ids(g) : c > n => f[c] = Body(f)[c]
        BY <1>5, <3>1, <3>2
      <4>. QED
        BY <1>4, <4>1
    <3>3. Body(f) \in [Ids(g) -> Nat] /\ Settled(Body(f), k)
      BY <1>3, <3>2
    <3>. HIDE DEF Settled
    <3>. QED
      BY <3>3
  <2>3. m + 1 \in Good
    <3>1. 0..(m + 1) \subseteq Good
      <4>. HIDE DEF Good
      <4>. QED
        BY <2>1, <2>2, UpTo
    <3>. QED
      BY <3>1
  <2>4. PICK f \in [Ids(g) -> Nat] : Settled(f, m + 1)
    BY <2>3
  <2>5. \A n \in Ids(g) : f[n] = Body(f)[n]
    BY <1>1, <2>4
  <2>6. f = Body(f)
    BY <1>3, <2>5
  <2>. QED
    BY <2>6
<1>7. sub = Body(sub)
  BY <1>6
<1>8. Subtree(g, value) = sub
  BY DEF Subtree, Body
<1>. HIDE DEF sub
<1>9. \A n \in Ids(g) : sub[n] = f[n]
  <2> DEFINE Good == {k \in 0..(m + 1) : \A n \in Ids(g) : n + k > m => sub[n] = f[n]}
  <2>1. 0 \in Good
    BY <1>1, <1>2
  <2>2. ASSUME NEW k \in 1..(m + 1), k - 1 \in Good PROVE k \in Good
    <3>1. ASSUME NEW n \in Ids(g), n + k > m PROVE sub[n] = f[n]
      <4>1. \A c \in Ids(g) : c > n => sub[c] = f[c]
        BY <1>5, <2>2, <3>1
      <4>. QED
        BY <1>4, <1>6, <1>7, <4>1
    <3>. QED
      BY <3>1
  <2>3. 0..(m + 1) \subseteq Good
    <3>. HIDE DEF Good
    <3>. QED
      BY <2>1, <2>2, UpTo
  <2>4. m + 1 \in Good
    BY <2>3
  <2>. QED
    BY <1>1, <2>4
<1>10. sub = f
  <2>1. DOMAIN sub = Ids(g) /\ sub = [n \in Ids(g) |-> sub[n]]
    BY <1>7 DEF Body
  <2>. QED
    BY <1>9, <2>1
<1>. QED
  BY <1>6, <1>8, <1>10 DEF Body

----------------------------------------------------------------------------
(* The total over the trees is the sum over the nodes: going down from the    *)
(* greatest id, the subtrees of the nodes from some id on whose parent is not *)
(* among these hold just the nodes from that id on.                           *)

Distinct(g) == \A i, j \in 1..Len(g) : g[i].id = g[j].id => i = j

\* At each place, the subtree of a node from t on whose parent is not.
Frontier(g, value, t) ==
    [k \in 1..Len(g) |->
       IF g[k].id >= t /\ (g[k].parent \notin Ids(g) \/ g[k].parent < t)
       THEN Subtree(g, value)[g[k].id] ELSE 0]

\* The values of the nodes from t on.
From(s, value, t) == [k \in 1..Len(s) |-> IF s[k] >= t THEN value[s[k]] ELSE 0]

\* s lists the members of S.
Lists(s, S) ==
    /\ s \in Seq(S) /\ \A j, k \in 1..Len(s) : s[j] = s[k] => j = k
    /\ \A x \in S : \E k \in 1..Len(s) : s[k] = x

\* The terms of From.
LEMMA FromTypes ==
    ASSUME NEW S \in SUBSET Nat, NEW value \in [S -> Nat], NEW s \in Seq(S), NEW t \in Nat
    PROVE  /\ From(s, value, t) \in Seq(Nat) /\ Len(From(s, value, t)) = Len(s)
           /\ \A k \in 1..Len(s) : From(s, value, t)[k] = IF s[k] >= t THEN value[s[k]] ELSE 0
<1>1. Len(s) \in Nat /\ \A k \in 1..Len(s) : s[k] \in S /\ value[s[k]] \in Nat
  BY LenProperties, ElementOfSeq
<1>. QED
  BY <1>1 DEF From

\* Starting one id further up leaves out the value of one node.
LEMMA FromStep ==
    ASSUME NEW S \in SUBSET Nat, NEW value \in [S -> Nat], NEW s, Lists(s, S), NEW t \in Nat
    PROVE  Sum(From(s, value, t)) = Sum(From(s, value, t + 1)) + (IF t \in S THEN value[t] ELSE 0)
<1>1. /\ s \in Seq(S) /\ Len(s) \in Nat
      /\ \A k \in 1..Len(s) : s[k] \in S /\ s[k] \in Nat /\ value[s[k]] \in Nat
  BY LenProperties, ElementOfSeq DEF Lists
<1> DEFINE a == From(s, value, t)
           b == From(s, value, t + 1)
<1>2. /\ a \in Seq(Nat) /\ Len(a) = Len(s)
      /\ \A k \in 1..Len(s) : a[k] = IF s[k] >= t THEN value[s[k]] ELSE 0
  BY <1>1, FromTypes
<1>3. /\ b \in Seq(Nat) /\ Len(b) = Len(s)
      /\ \A k \in 1..Len(s) : b[k] = IF s[k] >= t + 1 THEN value[s[k]] ELSE 0
  <2>1. t + 1 \in Nat
    OBVIOUS
  <2>. QED
    BY <1>1, <2>1, FromTypes
<1>. HIDE DEF a, b
<1>4. Sum(b) \in Nat
  BY <1>3, SumBounds
<1>5. CASE t \notin S
  <2>1. \A k \in 1..Len(s) : s[k] >= t <=> s[k] >= t + 1
    BY <1>1, <1>5
  <2>2. \A k \in 1..Len(s) : a[k] = b[k]
    BY <1>2, <1>3, <2>1
  <2>3. a = b
    BY <1>2, <1>3, <2>2, SeqEqual
  <2>. QED
    BY <1>4, <1>5, <2>3 DEF a, b
<1>6. CASE t \in S
  <2>1. PICK p \in 1..Len(s) : s[p] = t
    BY <1>6 DEF Lists
  <2>2. \A k \in 1..Len(s) : s[k] = t => k = p
    BY <2>1 DEF Lists
  <2> DEFINE c == [k \in 1..Len(s) |-> IF k = p THEN value[t] ELSE 0]
  <2>3. value[t] \in Nat
    BY <1>6
  <2>4. /\ c \in Seq(Nat) /\ Len(c) = Len(s)
        /\ \A k \in 1..Len(s) : c[k] = IF k = p THEN value[t] ELSE 0
    BY <1>1, <2>3
  <2>. HIDE DEF c
  <2>5. Sum(c) = value[t]
    BY <2>1, <2>4, SumOfOne
  <2>6. ASSUME NEW k \in 1..Len(s) PROVE a[k] = b[k] + c[k]
    <3>1. CASE k = p
      <4>1. a[k] = value[t] /\ b[k] = 0 /\ c[k] = value[t]
        BY <1>2, <1>3, <2>1, <2>4, <3>1
      <4>. QED
        BY <2>3, <4>1
    <3>2. CASE k # p
      <4>1. s[k] # t /\ s[k] \in Nat /\ value[s[k]] \in Nat
        BY <1>1, <2>2, <3>2
      <4>2. s[k] >= t <=> s[k] >= t + 1
        BY <4>1
      <4>3. /\ a[k] = IF s[k] >= t THEN value[s[k]] ELSE 0
            /\ b[k] = IF s[k] >= t + 1 THEN value[s[k]] ELSE 0
        BY <1>2, <1>3
      <4>4. a[k] = b[k] /\ b[k] \in Nat
        BY <4>1, <4>2, <4>3
      <4>5. c[k] = 0
        BY <2>4, <3>2
      <4>. QED
        BY <4>4, <4>5
    <3>. QED
      BY <3>1, <3>2
  <2>7. a = [k \in 1..Len(b) |-> b[k] + c[k]]
    <3>1. a = [k \in 1..Len(s) |-> a[k]]
      BY <1>2, LenProperties
    <3>. QED
      BY <1>3, <2>6, <3>1
  <2>8. Sum(a) = Sum(b) + Sum(c)
    BY <1>3, <2>4, <2>7, SumOfSums
  <2>. QED
    BY <1>6, <2>5, <2>8 DEF a, b
<1>. QED
  BY <1>5, <1>6

\* The terms of the frontier.
LEMMA FrontierTypes ==
    ASSUME NEW g, Linked(g), NEW value \in [Ids(g) -> Nat], NEW t \in Nat
    PROVE  /\ Frontier(g, value, t) \in Seq(Nat) /\ Len(Frontier(g, value, t)) = Len(g)
           /\ \A k \in 1..Len(g) : Frontier(g, value, t)[k] =
                IF g[k].id >= t /\ (g[k].parent \notin Ids(g) \/ g[k].parent < t)
                THEN Subtree(g, value)[g[k].id] ELSE 0
<1>1. Len(g) \in Nat /\ \A k \in 1..Len(g) : g[k].id \in Ids(g)
  BY GroupFacts DEF Linked
<1>2. \A k \in 1..Len(g) : Subtree(g, value)[g[k].id] \in Nat
  BY <1>1, SubtreeSums
<1>. QED
  BY <1>1, <1>2 DEF Frontier

\* The sum over the children of a node, as one over all places.
LEMMA SumOfChildren ==
    ASSUME NEW g \in Seq(Rows), NEW value \in [Ids(g) -> Nat], NEW id \in Nat
    PROVE  LET w == [k \in 1..Len(g) |-> IF g[k].parent = id THEN value[g[k].id] ELSE 0]
           IN  /\ w \in Seq(Nat) /\ Len(w) = Len(g)
               /\ Sum(Of(value, Children(g, id))) = Sum(w)
<1> DEFINE places == {i \in DOMAIN g : g[i].parent = id}
           v == At(g, value, places)
           w == [k \in 1..Len(g) |-> IF g[k].parent = id THEN value[g[k].id] ELSE 0]
<1>1. v \in Seq(Nat) /\ Len(v) = Len(g) /\ Sum(Of(value, NodesOf(Pick(g, places)))) = Sum(v)
  <2>. HIDE DEF places
  <2>. QED
    BY SumOfPicked
<1>2. v = w
  BY GroupFacts DEF At
<1>3. Children(g, id) = NodesOf(Pick(g, places))
  BY DEF Children
<1>. QED
  BY <1>1, <1>2, <1>3

\* Starting one id further up opens one subtree: its node leaves the frontier and
\* the children enter it, once per place of the node.
LEMMA FrontierStep ==
    ASSUME NEW g, Linked(g), NEW value \in [Ids(g) -> Nat], NEW t \in Nat
    PROVE  LET a == Sum(Frontier(g, value, t))
               b == Sum(Frontier(g, value, t + 1)) + (IF t \in Ids(g) THEN value[t] ELSE 0)
           IN  a >= b /\ (Distinct(g) => a = b)
<1> DEFINE n == Len(g)
           W == Subtree(g, value)
           a == Frontier(g, value, t)
           b == Frontier(g, value, t + 1)
<1>1. /\ n \in Nat /\ Ids(g) \subseteq Nat /\ g \in Seq(Rows)
      /\ \A k \in 1..n : /\ g[k].id \in Ids(g) /\ g[k].id \in Nat /\ g[k].parent \in Nat
                         /\ g[k].parent < g[k].id
      /\ \A x \in Ids(g) : \E i \in 1..n : g[i].id = x
  BY GroupFacts DEF Linked, Rows
<1>2. W \in [Ids(g) -> Nat] /\ \A x \in Ids(g) : W[x] = value[x] + Sum(Of(W, Children(g, x)))
  BY SubtreeSums
<1>. HIDE DEF W
<1>3. /\ a \in Seq(Nat) /\ Len(a) = n
      /\ \A k \in 1..n : a[k] = IF g[k].id >= t /\ (g[k].parent \notin Ids(g) \/ g[k].parent < t)
                                THEN W[g[k].id] ELSE 0
  BY FrontierTypes DEF W
<1>4. /\ b \in Seq(Nat) /\ Len(b) = n
      /\ \A k \in 1..n : b[k] = IF /\ g[k].id >= t + 1
                                   /\ (g[k].parent \notin Ids(g) \/ g[k].parent < t + 1)
                                THEN W[g[k].id] ELSE 0
  <2>1. t + 1 \in Nat
    OBVIOUS
  <2>. QED
    BY <2>1, FrontierTypes DEF W
<1>. HIDE DEF a, b, n
<1>5. Sum(a) \in Nat /\ Sum(b) \in Nat
  BY <1>3, <1>4, SumBounds
<1>6. CASE t \notin Ids(g)
  <2>1. ASSUME NEW k \in 1..n PROVE a[k] = b[k]
    <3>1. g[k].id # t /\ (g[k].parent \in Ids(g) => g[k].parent # t)
      BY <1>1, <1>6
    <3>2. g[k].id \in Nat /\ g[k].parent \in Nat
      BY <1>1
    <3>3. /\ g[k].id >= t <=> g[k].id >= t + 1
          /\ g[k].parent \in Ids(g) => (g[k].parent < t <=> g[k].parent < t + 1)
      BY <3>1, <3>2
    <3>. QED
      BY <1>3, <1>4, <3>3
  <2>2. a = b
    BY <1>3, <1>4, <2>1, SeqEqual
  <2>. QED
    BY <1>5, <1>6, <2>2 DEF a, b
<1>7. CASE t \in Ids(g)
  <2> DEFINE c == [k \in 1..Len(g) |-> IF g[k].parent = t THEN W[g[k].id] ELSE 0]
             d == [k \in 1..n |-> IF g[k].id = t THEN W[t] ELSE 0]
  <2>1. c \in Seq(Nat) /\ Len(c) = n /\ Sum(Of(W, Children(g, t))) = Sum(c)
    <3>1. g \in Seq(Rows) /\ W \in [Ids(g) -> Nat]
      BY <1>1, <1>2
    <3>. QED
      BY <3>1, SumOfChildren DEF n
  <2>2. \A k \in 1..n : c[k] = IF g[k].parent = t THEN W[g[k].id] ELSE 0
    BY DEF n
  <2>3. W[t] \in Nat /\ value[t] \in Nat /\ W[t] = value[t] + Sum(c) /\ Sum(c) \in Nat
    BY <1>2, <1>7, <2>1, SumBounds
  <2>4. d \in Seq(Nat) /\ Len(d) = n /\ \A k \in 1..n : d[k] = IF g[k].id = t THEN W[t] ELSE 0
    <3>1. \A k \in 1..n : (IF g[k].id = t THEN W[t] ELSE 0) \in Nat
      BY <2>3
    <3>2. n \in Nat
      BY <1>1
    <3>. QED
      BY <3>1, <3>2
  <2>. HIDE DEF c, d
  <2>5. PICK p \in 1..n : g[p].id = t
    BY <1>1, <1>7
  <2>6. Sum(d) \in Nat /\ Sum(d) >= W[t]
    <3>1. Sum(d) \in Nat /\ d[p] <= Sum(d) /\ d[p] = W[t]
      BY <2>4, <2>5, SumBounds
    <3>. QED
      BY <2>3, <3>1
  <2>7. Distinct(g) => Sum(d) = W[t]
    <3>1. SUFFICES ASSUME Distinct(g) PROVE Sum(d) = W[t]
      OBVIOUS
    <3>2. \A k \in 1..n : k # p => d[k] = 0
      BY <2>4, <2>5, <3>1 DEF Distinct, n
    <3>3. p \in 1..Len(d) /\ d[p] = W[t]
      BY <2>4, <2>5
    <3>. QED
      BY <2>4, <3>2, <3>3, SumOfOne
  <2>8. ASSUME NEW k \in 1..n PROVE a[k] + c[k] = b[k] + d[k]
    <3> DEFINE r == g[k]
    <3>1. r.id \in Nat /\ r.parent \in Nat /\ r.parent < r.id /\ W[r.id] \in Nat /\ W[t] \in Nat
      BY <1>1, <1>2, <2>3
    <3>2. /\ a[k] = IF r.id >= t /\ (r.parent \notin Ids(g) \/ r.parent < t) THEN W[r.id] ELSE 0
          /\ b[k] = IF r.id >= t + 1 /\ (r.parent \notin Ids(g) \/ r.parent < t + 1)
                    THEN W[r.id] ELSE 0
          /\ c[k] = IF r.parent = t THEN W[r.id] ELSE 0
          /\ d[k] = IF r.id = t THEN W[t] ELSE 0
      BY <1>3, <1>4, <2>2, <2>4
    <3>. HIDE DEF r
    <3>3. CASE r.id = t
      <4>1. a[k] = W[t] /\ b[k] = 0 /\ c[k] = 0 /\ d[k] = W[t]
        BY <3>1, <3>2, <3>3
      <4>. QED
        BY <3>1, <4>1
    <3>4. CASE r.parent = t
      <4>1. a[k] = 0 /\ b[k] = W[r.id] /\ c[k] = W[r.id] /\ d[k] = 0
        BY <1>7, <3>1, <3>2, <3>4
      <4>. QED
        BY <3>1, <4>1
    <3>5. CASE r.id # t /\ r.parent # t
      <4>1. (r.id >= t <=> r.id >= t + 1) /\ (r.parent < t <=> r.parent < t + 1)
        BY <3>1, <3>5
      <4>2. a[k] = b[k] /\ a[k] \in Nat /\ c[k] = 0 /\ d[k] = 0
        BY <3>1, <3>2, <3>5, <4>1
      <4>. QED
        BY <4>2
    <3>. QED
      BY <3>3, <3>4, <3>5
  <2>9. Sum(a) + Sum(c) = Sum(b) + Sum(d)
    <3> DEFINE w == [k \in 1..n |-> a[k] + c[k]]
               v == [k \in 1..n |-> b[k] + d[k]]
    <3>1. Sum(w) = Sum(a) + Sum(c)
      BY <1>3, <2>1, SumOfSums
    <3>2. Sum(v) = Sum(b) + Sum(d)
      BY <1>4, <2>4, SumOfSums
    <3>3. w = v
      BY <2>8
    <3>. QED
      BY <3>1, <3>2, <3>3
  <2>10. Sum(a) >= Sum(b) + value[t] /\ (Distinct(g) => Sum(a) = Sum(b) + value[t])
    BY <1>5, <2>3, <2>6, <2>7, <2>9
  <2>. QED
    BY <1>7, <2>10 DEF a, b
<1>. QED
  BY <1>6, <1>7

\* The total is the sum over the nodes if each event is there once, and no less
\* if one is there more often.
LEMMA TotalHolds ==
    ASSUME NEW g, Linked(g), NEW value \in [Ids(g) -> Nat], NEW s, Lists(s, Ids(g))
    PROVE  /\ Total(g, value) \in Nat /\ Total(g, value) >= Sum(Of(value, s))
           /\ Distinct(g) => Total(g, value) = Sum(Of(value, s))
<1> DEFINE A(t) == Sum(Frontier(g, value, t))
           B(t) == Sum(From(s, value, t))
<1>1. /\ g \in Seq(Rows) /\ Len(g) \in Nat /\ Ids(g) \in SUBSET Nat /\ s \in Seq(Ids(g))
      /\ \A k \in 1..Len(g) : g[k].id \in Ids(g) /\ g[k].id \in Nat /\ g[k].parent \in Nat
  BY GroupFacts DEF Linked, Lists, Rows
<1>2. PICK m \in Nat : \A x \in Ids(g) : x <= m
  BY <1>1, IdsBounded
<1> DEFINE S == Ids(g)
<1>list. S \in SUBSET Nat /\ value \in [S -> Nat] /\ Lists(s, S) /\ s \in Seq(S)
  BY <1>1
<1>from. \A t \in Nat :
        /\ From(s, value, t) \in Seq(Nat) /\ Len(From(s, value, t)) = Len(s)
        /\ \A k \in 1..Len(s) : From(s, value, t)[k] = IF s[k] >= t THEN value[s[k]] ELSE 0
        /\ Sum(From(s, value, t)) = Sum(From(s, value, t + 1))
                                    + (IF t \in S THEN value[t] ELSE 0)
  <2>. HIDE DEF S
  <2>2. ASSUME NEW t \in Nat
        PROVE  /\ From(s, value, t) \in Seq(Nat) /\ Len(From(s, value, t)) = Len(s)
               /\ \A k \in 1..Len(s) : From(s, value, t)[k] = IF s[k] >= t THEN value[s[k]] ELSE 0
               /\ Sum(From(s, value, t)) = Sum(From(s, value, t + 1))
                                           + (IF t \in S THEN value[t] ELSE 0)
    <3>1. /\ From(s, value, t) \in Seq(Nat) /\ Len(From(s, value, t)) = Len(s)
          /\ \A k \in 1..Len(s) : From(s, value, t)[k] = IF s[k] >= t THEN value[s[k]] ELSE 0
      BY <1>list, FromTypes
    <3>2. Sum(From(s, value, t)) = Sum(From(s, value, t + 1)) + (IF t \in S THEN value[t] ELSE 0)
      BY <1>list, FromStep
    <3>. QED
      BY <3>1, <3>2
  <2>. QED
    BY <2>2
<1>3. Len(s) \in Nat /\ \A k \in 1..Len(s) : s[k] \in Ids(g) /\ s[k] \in Nat
  BY <1>1, LenProperties, ElementOfSeq
<1>4. \A t \in Nat : A(t) \in Nat /\ B(t) \in Nat
  BY <1>from, FrontierTypes, SumBounds
<1>5. A(m + 1) = 0
  <2> DEFINE a == Frontier(g, value, m + 1)
  <2>1. a \in Seq(Nat) /\ Len(a) = Len(g)
    BY FrontierTypes
  <2>2. \A k \in 1..Len(g) : ~(g[k].id >= m + 1)
    BY <1>1, <1>2
  <2>3. \A k \in 1..Len(g) : a[k] = 0
    BY <2>2, FrontierTypes
  <2>. HIDE DEF a
  <2>4. Sum(a) = 0
    BY <2>1, <2>3, SumOfSame
  <2>. QED
    BY <2>4 DEF a
<1>6. B(m + 1) = 0
  <2> DEFINE b == From(s, value, m + 1)
  <2>1. b \in Seq(Nat) /\ Len(b) = Len(s)
    BY <1>from
  <2>2. \A k \in 1..Len(s) : ~(s[k] >= m + 1)
    BY <1>2, <1>3
  <2>3. \A k \in 1..Len(s) : b[k] = 0
    <3>1. m + 1 \in Nat
      OBVIOUS
    <3>. QED
      BY <1>from, <2>2, <3>1
  <2>. HIDE DEF b
  <2>4. Sum(b) = 0
    BY <2>1, <2>3, SumOfSame
  <2>. QED
    BY <2>4 DEF b
<1>7. \A t \in Nat : B(t) = B(t + 1) + (IF t \in Ids(g) THEN value[t] ELSE 0)
  BY <1>from
<1>8. \A t \in Nat : /\ A(t) >= A(t + 1) + (IF t \in Ids(g) THEN value[t] ELSE 0)
                     /\ Distinct(g) => A(t) = A(t + 1) + (IF t \in Ids(g) THEN value[t] ELSE 0)
  BY FrontierStep
<1>9. \A t \in Nat : (IF t \in Ids(g) THEN value[t] ELSE 0) \in Nat
  OBVIOUS
<1>10. A(0) >= B(0) /\ (Distinct(g) => A(0) = B(0))
  <2>. HIDE DEF A, B
  <2> DEFINE Good == {k \in 0..(m + 1) : /\ A(m + 1 - k) >= B(m + 1 - k)
                                         /\ Distinct(g) => A(m + 1 - k) = B(m + 1 - k)}
  <2>1. 0 \in Good
    BY <1>4, <1>5, <1>6
  <2>2. ASSUME NEW k \in 1..(m + 1), k - 1 \in Good PROVE k \in Good
    <3> DEFINE t == m + 1 - k
               x == IF t \in Ids(g) THEN value[t] ELSE 0
    <3>1. t \in Nat /\ t + 1 \in Nat /\ m + 1 - (k - 1) = t + 1
      OBVIOUS
    <3>2. x \in Nat /\ A(t) \in Nat /\ B(t) \in Nat /\ A(t + 1) \in Nat /\ B(t + 1) \in Nat
      BY <1>4, <1>9, <3>1
    <3>3. A(t + 1) >= B(t + 1) /\ (Distinct(g) => A(t + 1) = B(t + 1))
      BY <2>2, <3>1
    <3>4. B(t) = B(t + 1) + x /\ A(t) >= A(t + 1) + x /\ (Distinct(g) => A(t) = A(t + 1) + x)
      BY <1>7, <1>8, <3>1
    <3>. HIDE DEF t, x
    <3>5. A(t) >= B(t) /\ (Distinct(g) => A(t) = B(t))
      BY <3>2, <3>3, <3>4
    <3>. QED
      BY <3>5 DEF t
  <2>3. 0..(m + 1) \subseteq Good
    <3>. HIDE DEF Good
    <3>. QED
      BY <2>1, <2>2, UpTo
  <2>4. m + 1 \in Good /\ m + 1 - (m + 1) = 0
    BY <2>3
  <2>. QED
    BY <2>4
<1>11. Total(g, value) = A(0)
  <2> DEFINE W == Subtree(g, value)
             places == {i \in DOMAIN g : g[i].parent \notin Ids(g)}
             w == At(g, W, places)
             a == Frontier(g, value, 0)
  <2>1. W \in [Ids(g) -> Nat]
    BY SubtreeSums
  <2>2. w \in Seq(Nat) /\ Len(w) = Len(g) /\ Total(g, value) = Sum(w)
    <3>. HIDE DEF W, places
    <3>1. /\ w \in Seq(Nat) /\ Len(w) = Len(g)
          /\ Sum(Of(W, NodesOf(Pick(g, places)))) = Sum(w)
      BY <1>1, <2>1, SumOfPicked
    <3>2. Total(g, value) = Sum(Of(W, NodesOf(Pick(g, places))))
      BY DEF Total, Roots, W, places
    <3>. QED
      BY <3>1, <3>2
  <2>3. /\ a \in Seq(Nat) /\ Len(a) = Len(g)
        /\ \A k \in 1..Len(g) : a[k] = IF /\ g[k].id >= 0
                                       /\ (g[k].parent \notin Ids(g) \/ g[k].parent < 0)
                                     THEN W[g[k].id] ELSE 0
    BY FrontierTypes
  <2>4. DOMAIN g = 1..Len(g)
    BY <1>1, GroupFacts
  <2>5. \A k \in 1..Len(g) : w[k] = IF g[k].parent \notin Ids(g) THEN W[g[k].id] ELSE 0
    BY <2>4 DEF At
  <2>6. \A k \in 1..Len(g) : g[k].id >= 0 /\ ~(g[k].parent < 0)
    BY <1>1
  <2>. HIDE DEF w, a, W
  <2>7. \A k \in 1..Len(g) : w[k] = a[k]
    BY <2>3, <2>5, <2>6
  <2>8. w = a
    BY <2>2, <2>3, <2>7, SeqEqual
  <2>. QED
    BY <2>2, <2>8 DEF a
<1>12. Sum(Of(value, s)) = B(0)
  <2> DEFINE b == From(s, value, 0)
             v == Of(value, s)
  <2>1. /\ b \in Seq(Nat) /\ Len(b) = Len(s)
        /\ \A k \in 1..Len(s) : b[k] = IF s[k] >= 0 THEN value[s[k]] ELSE 0
    BY <1>from
  <2>2. v \in Seq(Nat) /\ Len(v) = Len(s) /\ \A k \in 1..Len(s) : v[k] = value[s[k]]
    <3>. HIDE DEF S
    <3>. QED
      BY <1>list, ValuesOf
  <2>. HIDE DEF b, v
  <2>3. \A k \in 1..Len(s) : b[k] = v[k]
    BY <1>3, <2>1, <2>2
  <2>4. b = v
    BY <2>1, <2>2, <2>3, SeqEqual
  <2>. QED
    BY <2>4 DEF b, v
<1>. QED
  BY <1>4, <1>10, <1>11, <1>12

----------------------------------------------------------------------------
(* The walk of flatten. *)

Occurs(x, s) == \E k \in 1..Len(s) : s[k] = x

\* Membership in two sequences put together.
LEMMA OccursInConcat ==
    ASSUME NEW S, NEW s \in Seq(S), NEW t \in Seq(S), NEW x
    PROVE  Occurs(x, s \o t) <=> Occurs(x, s) \/ Occurs(x, t)
<1> DEFINE n == Len(s)
           m == Len(t)
           c == s \o t
<1>1. /\ n \in Nat /\ m \in Nat /\ Len(c) = n + m
      /\ \A i \in 1..(n + m) : c[i] = IF i <= n THEN s[i] ELSE t[i - n]
  BY ConcatProperties, LenProperties
<1>. HIDE DEF n, m, c
<1>2. ASSUME NEW i \in 1..(n + m), c[i] = x
      PROVE  (\E k \in 1..n : s[k] = x) \/ (\E k \in 1..m : t[k] = x)
  <2>1. CASE i <= n
    <3>1. i \in 1..n /\ s[i] = x
      BY <1>1, <1>2, <2>1
    <3>. QED
      BY <3>1
  <2>2. CASE ~(i <= n)
    <3>1. i - n \in 1..m /\ t[i - n] = x
      BY <1>1, <1>2, <2>2
    <3>. QED
      BY <3>1
  <2>. QED
    BY <2>1, <2>2
<1>3. ASSUME NEW k \in 1..n PROVE k \in 1..(n + m) /\ c[k] = s[k]
  <2>1. k \in 1..(n + m) /\ k <= n
    BY <1>1
  <2>. QED
    BY <1>1, <2>1
<1>4. ASSUME NEW k \in 1..m PROVE n + k \in 1..(n + m) /\ c[n + k] = t[k]
  <2>1. n + k \in 1..(n + m) /\ ~(n + k <= n) /\ (n + k) - n = k
    BY <1>1
  <2>. QED
    BY <1>1, <2>1
<1>5. (\E i \in 1..(n + m) : c[i] = x) <=> (\E k \in 1..n : s[k] = x) \/ (\E k \in 1..m : t[k] = x)
  BY <1>2, <1>3, <1>4
<1>. QED
  BY <1>1, <1>5 DEF Occurs, n, m, c

\* Membership in a sequence with one more member.
LEMMA OccursInAppend ==
    ASSUME NEW S, NEW s \in Seq(S), NEW y \in S, NEW x
    PROVE  Occurs(x, Append(s, y)) <=> Occurs(x, s) \/ x = y
<1> DEFINE one == <<y>>
<1>1. one \in Seq(S) /\ Len(one) = 1 /\ one[1] = y
  OBVIOUS
<1>2. Append(s, y) = s \o one
  BY AppendIsConcat
<1>. HIDE DEF one
<1>3. Occurs(x, one) <=> x = y
  BY <1>1 DEF Occurs
<1>. QED
  BY <1>1, <1>2, <1>3, OccursInConcat

\* A sequence that is not empty is its head and its tail.
LEMMA HeadAndTail ==
    ASSUME NEW S, NEW s \in Seq(S), s # <<>>
    PROVE  /\ Head(s) \in S /\ Tail(s) \in Seq(S) /\ <<Head(s)>> \in Seq(S)
           /\ s = <<Head(s)>> \o Tail(s) /\ Head(s) = s[1] /\ 1 \in 1..Len(s)
<1> DEFINE h == <<Head(s)>>
           t == Tail(s)
           n == Len(t)
<1>1. /\ Head(s) \in S /\ t \in Seq(S) /\ Len(t) = Len(s) - 1
      /\ \A i \in 1..n : t[i] = s[i + 1]
  BY HeadTailProperties
<1>2. h \in Seq(S) /\ Len(h) = 1 /\ h[1] = s[1] /\ Head(s) = s[1]
  BY <1>1
<1>3. Len(s) = n + 1 /\ n \in Nat
  <2>1. Len(s) \in Nat /\ n \in Nat
    BY <1>1, LenProperties
  <2>. QED
    BY <1>1, <2>1
<1>. HIDE DEF h, t, n
<1>4. /\ h \o t \in Seq(S) /\ Len(h \o t) = 1 + n
      /\ \A i \in 1..(1 + n) : (h \o t)[i] = IF i <= 1 THEN h[i] ELSE t[i - 1]
  <2>1. /\ h \o t \in Seq(S) /\ Len(h \o t) = Len(h) + Len(t)
        /\ \A i \in 1..(Len(h) + Len(t)) : (h \o t)[i] = IF i <= Len(h) THEN h[i] ELSE t[i - Len(h)]
    <3>1. h \in Seq(S) /\ t \in Seq(S)
      BY <1>1, <1>2
    <3>. QED
      BY <3>1, ConcatProperties
  <2>2. Len(h) = 1 /\ Len(t) = n
    BY <1>2 DEF n
  <2>. QED
    BY <2>1, <2>2
<1>5. ASSUME NEW i \in 1..Len(s) PROVE s[i] = (h \o t)[i]
  <2>1. CASE i = 1
    BY <1>2, <1>3, <1>4, <2>1
  <2>2. CASE i # 1
    <3>1. i \in 1..(1 + n) /\ ~(i <= 1) /\ i - 1 \in 1..n /\ (i - 1) + 1 = i
      BY <1>3, <2>2
    <3>. QED
      BY <1>1, <1>4, <3>1
  <2>. QED
    BY <2>1, <2>2
<1>6. s = h \o t
  <2>1. Len(s) = Len(h \o t)
    BY <1>3, <1>4
  <2>. QED
    BY <1>4, <1>5, <2>1, SeqEqual
<1>7. 1 \in 1..Len(s)
  BY <1>3
<1>. QED
  BY <1>1, <1>2, <1>6, <1>7 DEF h, t

\* The value of one node.
LEMMA ValueOfOne ==
    ASSUME NEW S, NEW value \in [S -> Nat], NEW x \in S
    PROVE  Of(value, <<x>>) \in Seq(Nat) /\ Sum(Of(value, <<x>>)) = value[x]
<1> DEFINE one == <<x>>
           v == Of(value, one)
<1>1. one \in Seq(S) /\ Len(one) = 1 /\ one[1] = x
  OBVIOUS
<1>. HIDE DEF one
<1>2. v \in Seq(Nat) /\ Len(v) = 1 /\ \A k \in 1..1 : v[k] = value[one[k]]
  <2>1. v \in Seq(Nat) /\ Len(v) = Len(one) /\ \A k \in 1..Len(one) : v[k] = value[one[k]]
    BY <1>1, ValuesOf
  <2>. QED
    BY <1>1, <2>1
<1>. HIDE DEF v
<1>3. 1 \in 1..Len(v) /\ v[1] = value[x] /\ \A k \in 1..Len(v) : k # 1 => v[k] = 0
  BY <1>1, <1>2
<1>4. Sum(v) = v[1]
  BY <1>2, <1>3, SumOfOne
<1>. QED
  BY <1>2, <1>3, <1>4 DEF v, one

\* The values of two lists of nodes put together.
LEMMA ValuesOfConcat ==
    ASSUME NEW S, NEW value \in [S -> Nat], NEW s \in Seq(S), NEW t \in Seq(S)
    PROVE  /\ Sum(Of(value, s \o t)) = Sum(Of(value, s)) + Sum(Of(value, t))
           /\ Sum(Of(value, s)) \in Nat /\ Sum(Of(value, t)) \in Nat
<1> DEFINE n == Len(s)
           m == Len(t)
           c == s \o t
           vs == Of(value, s)
           vt == Of(value, t)
           vc == Of(value, c)
<1>1. /\ n \in Nat /\ m \in Nat /\ c \in Seq(S) /\ Len(c) = n + m
      /\ \A i \in 1..(n + m) : c[i] = IF i <= n THEN s[i] ELSE t[i - n]
  BY ConcatProperties, LenProperties
<1>. HIDE DEF c
<1>2. /\ vs \in Seq(Nat) /\ Len(vs) = n /\ \A k \in 1..n : vs[k] = value[s[k]]
      /\ vt \in Seq(Nat) /\ Len(vt) = m /\ \A k \in 1..m : vt[k] = value[t[k]]
  <2>1. vs \in Seq(Nat) /\ Len(vs) = n /\ vt \in Seq(Nat) /\ Len(vt) = m
    BY ValuesOf
  <2>2. DOMAIN s = 1..n /\ DOMAIN t = 1..m
    BY LenProperties
  <2>. QED
    BY <2>1, <2>2 DEF Of
<1>3. vc \in Seq(Nat) /\ Len(vc) = n + m /\ \A k \in 1..(n + m) : vc[k] = value[c[k]]
  <2>1. vc \in Seq(Nat) /\ Len(vc) = Len(c) /\ \A k \in 1..Len(c) : vc[k] = value[c[k]]
    <3>1. Of(value, c) \in Seq(Nat) /\ Len(Of(value, c)) = Len(c)
      BY <1>1, ValuesOf
    <3>2. DOMAIN c = 1..Len(c)
      BY <1>1, LenProperties
    <3>. QED
      BY <3>1, <3>2 DEF Of
  <2>. QED
    BY <1>1, <2>1
<1>. HIDE DEF n, m, vs, vt, vc
<1>4. /\ vs \o vt \in Seq(Nat) /\ Len(vs \o vt) = n + m
      /\ \A i \in 1..(n + m) : (vs \o vt)[i] = IF i <= n THEN vs[i] ELSE vt[i - n]
  <2>1. vs \in Seq(Nat) /\ vt \in Seq(Nat) /\ Len(vs) = n /\ Len(vt) = m
    BY <1>2
  <2>2. /\ vs \o vt \in Seq(Nat) /\ Len(vs \o vt) = Len(vs) + Len(vt)
        /\ \A i \in 1..(Len(vs) + Len(vt)) :
             (vs \o vt)[i] = IF i <= Len(vs) THEN vs[i] ELSE vt[i - Len(vs)]
    BY <2>1, ConcatProperties
  <2>. QED
    BY <1>1, <2>1, <2>2
<1>5. ASSUME NEW i \in 1..(n + m) PROVE vc[i] = (vs \o vt)[i]
  <2>1. CASE i <= n
    <3>1. i \in 1..n
      BY <1>1, <2>1
    <3>2. (vs \o vt)[i] = vs[i] /\ c[i] = s[i]
      BY <1>1, <1>4, <2>1
    <3>. QED
      BY <1>2, <1>3, <3>1, <3>2
  <2>2. CASE ~(i <= n)
    <3>1. i - n \in 1..m
      BY <1>1, <2>2
    <3>2. (vs \o vt)[i] = vt[i - n] /\ c[i] = t[i - n]
      BY <1>1, <1>4, <2>2
    <3>3. vc[i] = value[c[i]] /\ vt[i - n] = value[t[i - n]]
      BY <1>2, <1>3, <3>1
    <3>. QED
      BY <3>2, <3>3
  <2>. QED
    BY <2>1, <2>2
<1>6. vc = vs \o vt
  BY <1>3, <1>4, <1>5, SeqEqual
<1>7. Sum(vc) = Sum(vs) + Sum(vt) /\ Sum(vs) \in Nat /\ Sum(vt) \in Nat
  BY <1>2, <1>6, SumOfConcat, SumBounds
<1>. QED
  BY <1>7 DEF vs, vt, vc, c

\* What flatten's stack and list are, and a turn of its loop.
States(g) == [stack : Seq(Ids(g)), out : Seq(Ids(g))]

Turn(g, was) ==
    IF was.stack = <<>> THEN was
    ELSE [stack |-> Children(g, Head(was.stack)) \o Tail(was.stack),
          out |-> Append(was.out, Head(was.stack))]

\* What is still to do: each subtree on the stack.  n nodes in all.
Balanced(g, was, n, k) ==
    /\ Len(was.out) + Sum(Of(Subtree(g, One(g)), was.stack)) = n
    /\ was.stack # <<>> => Len(was.out) = k

\* The roots are known, and the children of a node that is out.
Reached(g, was, x) == Occurs(x, was.out) \/ Occurs(x, was.stack)
Closed(g, was) ==
    /\ \A x \in Ids(g) : Occurs(x, Roots(g)) => Reached(g, was, x)
    /\ \A x, c \in Ids(g) : Occurs(x, was.out) /\ Occurs(c, Children(g, x)) => Reached(g, was, c)

\* The ones of the nodes.
LEMMA OnesOf ==
    ASSUME NEW g, Linked(g)
    PROVE  /\ One(g) \in [Ids(g) -> Nat] /\ Subtree(g, One(g)) \in [Ids(g) -> Nat]
           /\ \A x \in Ids(g) :
                /\ Subtree(g, One(g))[x] = 1 + Sum(Of(Subtree(g, One(g)), Children(g, x)))
                /\ Subtree(g, One(g))[x] \in Nat /\ Subtree(g, One(g))[x] >= 1
<1>1. One(g) \in [Ids(g) -> Nat] /\ \A x \in Ids(g) : One(g)[x] = 1
  BY DEF One
<1> DEFINE W == Subtree(g, One(g))
<1>2. W \in [Ids(g) -> Nat] /\ \A x \in Ids(g) : W[x] = One(g)[x] + Sum(Of(W, Children(g, x)))
  BY <1>1, SubtreeSums
<1>. HIDE DEF W
<1>3. \A x \in Ids(g) : Sum(Of(W, Children(g, x))) \in Nat
  BY <1>2, ChildrenBelow, ValuesOf, SumBounds
<1>4. \A x \in Ids(g) : W[x] = 1 + Sum(Of(W, Children(g, x))) /\ W[x] \in Nat /\ W[x] >= 1
  BY <1>1, <1>2, <1>3
<1>. QED
  BY <1>1, <1>2, <1>4 DEF W

\* The roots are nodes, and every node without a parent in the group is one.
LEMMA RootsOf ==
    ASSUME NEW g, Linked(g)
    PROVE  /\ Roots(g) \in Seq(Ids(g))
           /\ \A i \in 1..Len(g) : g[i].parent \notin Ids(g) => Occurs(g[i].id, Roots(g))
<1> DEFINE places == {i \in DOMAIN g : g[i].parent \notin Ids(g)}
           s == NodesOf(Pick(g, places))
<1>1. g \in Seq(Rows) /\ DOMAIN g = 1..Len(g)
  BY GroupFacts DEF Linked
<1>2. s \in Seq(Ids(g)) /\ \A i \in 1..Len(g) : i \in places => \E m \in 1..Len(s) : s[m] = g[i].id
  <2>. HIDE DEF places
  <2>. QED
    BY <1>1, PickedNodes
<1>3. Roots(g) = s
  BY DEF Roots
<1>. HIDE DEF s
<1>. QED
  BY <1>1, <1>2, <1>3 DEF Occurs

\* Every node that names x is a child of x.
LEMMA ChildrenOf ==
    ASSUME NEW g, Linked(g), NEW x \in Ids(g), NEW i \in 1..Len(g), g[i].parent = x
    PROVE  Occurs(g[i].id, Children(g, x))
<1> DEFINE places == {j \in DOMAIN g : g[j].parent = x}
           s == NodesOf(Pick(g, places))
<1>1. g \in Seq(Rows) /\ DOMAIN g = 1..Len(g)
  BY GroupFacts DEF Linked
<1>2. i \in places
  BY <1>1
<1>3. \E m \in 1..Len(s) : s[m] = g[i].id
  <2>. HIDE DEF places
  <2>. QED
    BY <1>1, <1>2, PickedNodes
<1>4. Children(g, x) = s
  BY DEF Children
<1>. HIDE DEF s
<1>. QED
  BY <1>3, <1>4 DEF Occurs

\* A turn of the loop keeps the types,
LEMMA TurnTypes ==
    ASSUME NEW g, Linked(g), NEW was \in States(g)
    PROVE  Turn(g, was) \in States(g)
<1>1. CASE was.stack # <<>>
  <2>1. Head(was.stack) \in Ids(g) /\ Tail(was.stack) \in Seq(Ids(g)) /\ was.out \in Seq(Ids(g))
    BY <1>1, HeadAndTail DEF States
  <2>2. Children(g, Head(was.stack)) \in Seq(Ids(g))
    BY <2>1, ChildrenBelow
  <2>3. /\ Children(g, Head(was.stack)) \o Tail(was.stack) \in Seq(Ids(g))
        /\ Append(was.out, Head(was.stack)) \in Seq(Ids(g))
    BY <2>1, <2>2, ConcatProperties, AppendProperties
  <2>. QED
    BY <1>1, <2>3 DEF States, Turn
<1>. QED
  BY <1>1 DEF Turn

\* puts one more node in the list for each subtree it opens,
LEMMA TurnBalances ==
    ASSUME NEW g, Linked(g), NEW was \in States(g), NEW n \in Nat, NEW k \in Nat,
           Balanced(g, was, n, k)
    PROVE  Balanced(g, Turn(g, was), n, k + 1)
<1>1. CASE was.stack = <<>>
  BY <1>1 DEF Turn, Balanced
<1>2. CASE was.stack # <<>>
  <2> DEFINE W == Subtree(g, One(g))
             x == Head(was.stack)
             kids == Children(g, x)
             rest == Tail(was.stack)
             now == Turn(g, was)
  <2>1. /\ x \in Ids(g) /\ rest \in Seq(Ids(g)) /\ <<x>> \in Seq(Ids(g))
        /\ was.stack = <<x>> \o rest /\ was.out \in Seq(Ids(g))
    BY <1>2, HeadAndTail DEF States
  <2>2. kids \in Seq(Ids(g))
    BY <2>1, ChildrenBelow
  <2>3. now.stack = kids \o rest /\ now.out = Append(was.out, x)
    BY <1>2 DEF Turn
  <2>4. Len(now.out) = Len(was.out) + 1 /\ Len(was.out) \in Nat
    BY <2>1, <2>3, AppendProperties, LenProperties
  <2>5. /\ W \in [Ids(g) -> Nat] /\ W[x] \in Nat /\ W[x] = 1 + Sum(Of(W, kids))
    BY <2>1, OnesOf
  <2>. HIDE DEF W, x, kids, rest, now
  <2>6. /\ Sum(Of(W, <<x>> \o rest)) = W[x] + Sum(Of(W, rest))
        /\ Sum(Of(W, kids \o rest)) = Sum(Of(W, kids)) + Sum(Of(W, rest))
        /\ Sum(Of(W, kids)) \in Nat /\ Sum(Of(W, rest)) \in Nat
    <3>1. Sum(Of(W, <<x>>)) = W[x]
      BY <2>1, <2>5, ValueOfOne
    <3>2. /\ Sum(Of(W, <<x>> \o rest)) = Sum(Of(W, <<x>>)) + Sum(Of(W, rest))
          /\ Sum(Of(W, rest)) \in Nat
      BY <2>1, <2>5, ValuesOfConcat
    <3>3. /\ Sum(Of(W, kids \o rest)) = Sum(Of(W, kids)) + Sum(Of(W, rest))
          /\ Sum(Of(W, kids)) \in Nat
      BY <2>1, <2>2, <2>5, ValuesOfConcat
    <3>. QED
      BY <3>1, <3>2, <3>3
  <2>7. Len(was.out) + Sum(Of(W, <<x>> \o rest)) = n /\ Len(was.out) = k
    BY <1>2, <2>1 DEF Balanced, W
  <2>8. Len(now.out) + Sum(Of(W, kids \o rest)) = n /\ Len(now.out) = k + 1
    BY <2>4, <2>5, <2>6, <2>7
  <2>9. Balanced(g, now, n, k + 1)
    BY <2>3, <2>8 DEF Balanced, W
  <2>. QED
    BY <2>9 DEF now
<1>. QED
  BY <1>1, <1>2

\* and forgets no child of a node in the list.
LEMMA TurnCloses ==
    ASSUME NEW g, Linked(g), NEW was \in States(g), Closed(g, was)
    PROVE  Closed(g, Turn(g, was))
<1>1. CASE was.stack = <<>>
  BY <1>1 DEF Turn
<1>2. CASE was.stack # <<>>
  <2> DEFINE h == Head(was.stack)
             kids == Children(g, h)
             rest == Tail(was.stack)
             now == Turn(g, was)
  <2>1. /\ h \in Ids(g) /\ rest \in Seq(Ids(g)) /\ <<h>> \in Seq(Ids(g))
        /\ was.stack = <<h>> \o rest /\ was.out \in Seq(Ids(g))
    BY <1>2, HeadAndTail DEF States
  <2>2. kids \in Seq(Ids(g))
    BY <2>1, ChildrenBelow
  <2>3. now.stack = kids \o rest /\ now.out = Append(was.out, h)
    BY <1>2 DEF Turn
  <2>4. \A x \in Ids(g) : Occurs(x, now.out) <=> Occurs(x, was.out) \/ x = h
    BY <2>1, <2>3, OccursInAppend
  <2>5. \A x \in Ids(g) : Occurs(x, now.stack) <=> Occurs(x, kids) \/ Occurs(x, rest)
    <3>1. rest \in Seq(Ids(g))
      BY <2>1
    <3>. HIDE DEF kids, rest
    <3>2. \A x \in Ids(g) : Occurs(x, kids \o rest) <=> Occurs(x, kids) \/ Occurs(x, rest)
      BY <2>2, <3>1, OccursInConcat
    <3>. QED
      BY <2>3, <3>2
  <2>6. \A x \in Ids(g) : Occurs(x, was.stack) => x = h \/ Occurs(x, rest)
    <3>1. \A x \in Ids(g) : Occurs(x, <<h>>) => x = h
      BY DEF Occurs
    <3>2. \A x \in Ids(g) : Occurs(x, <<h>> \o rest) => Occurs(x, <<h>>) \/ Occurs(x, rest)
      BY <2>1, OccursInConcat
    <3>. QED
      BY <2>1, <3>1, <3>2
  <2>. HIDE DEF h, kids, rest, now
  <2>7. \A x \in Ids(g) : Reached(g, was, x) => Reached(g, now, x)
    BY <2>4, <2>5, <2>6 DEF Reached
  <2>8. \A x, c \in Ids(g) : Occurs(x, now.out) /\ Occurs(c, Children(g, x)) => Reached(g, now, c)
    BY <2>4, <2>5, <2>7 DEF Closed, Reached, kids
  <2>9. Closed(g, now)
    BY <2>7, <2>8 DEF Closed
  <2>. QED
    BY <2>9 DEF now
<1>. QED
  BY <1>1, <1>2

\* f holds the states of flatten's loop.
IsWalk(f, g, n) ==
    /\ f \in [0..n -> States(g)] /\ f[0] = [stack |-> Roots(g), out |-> <<>>]
    /\ Flatten(g) = f[n].out
    /\ \A k \in 1..n : f[k] = Turn(g, f[k - 1])

\* The recursive function in Flatten has the states of its loop.
LEMMA FlattenLoop ==
    ASSUME NEW g, Linked(g), Total(g, One(g)) \in Nat
    PROVE  \E f : IsWalk(f, g, Total(g, One(g)))
<1> DEFINE n == Total(g, One(g))
           base == [stack |-> Roots(g), out |-> <<>>]
           Body(f) == [k \in 0..n |->
                         IF k = 0 THEN base
                         ELSE LET was == f[k - 1]
                                  node == Head(was.stack)
                              IN  IF was.stack = <<>> THEN was
                                  ELSE [stack |-> Children(g, node) \o Tail(was.stack),
                                        out |-> Append(was.out, node)]]
           loop == CHOOSE f : f = Body(f)
<1>1. Flatten(g) = loop[n].out
  BY DEF Flatten
<1>2. base \in States(g)
  BY RootsOf, EmptySeq DEF States
<1>3. \A f : Body(f) = [k \in 0..n |-> IF k = 0 THEN base ELSE Turn(g, f[k - 1])]
  BY DEF Turn
<1>. HIDE DEF n, base, Body
<1>4. n \in Nat
  BY DEF n
<1>5. \E f : f \in [0..n -> States(g)] /\ f = Body(f)
  <2> DEFINE step == [k \in 1..n |-> [s \in States(g) |-> Turn(g, s)]]
  <2>1. step \in [1..n -> [States(g) -> States(g)]]
    BY TurnTypes
  <2>2. PICK f : IsLoop(f, States(g), n, base, step)
    <3>. HIDE DEF step
    <3>. QED
      BY <1>2, <1>4, <2>1, LoopExists
  <2>3. \A k \in 0..n : k # 0 => k \in 1..n /\ k - 1 \in 0..n
    BY <1>4
  <2>4. f \in [0..n -> States(g)] /\ f[0] = base /\ \A k \in 1..n : f[k] = Turn(g, f[k - 1])
    <3>1. /\ f \in [0..n -> States(g)] /\ f[0] = base
          /\ \A k \in 1..n : f[k] = step[k][f[k - 1]]
      BY <2>2 DEF IsLoop
    <3>2. \A k \in 1..n : k - 1 \in 0..n
      BY <1>4
    <3>. QED
      BY <3>1, <3>2
  <2>5. f = [k \in 0..n |-> IF k = 0 THEN base ELSE Turn(g, f[k - 1])]
    BY <2>3, <2>4
  <2>. QED
    BY <1>3, <2>4, <2>5
<1>6. loop = Body(loop)
  BY <1>5
<1>. HIDE DEF loop
<1>7. loop = [k \in 0..n |-> IF k = 0 THEN base ELSE Turn(g, loop[k - 1])]
  BY <1>3, <1>6
<1>8. loop[0] = base /\ \A k \in 1..n : loop[k] = Turn(g, loop[k - 1])
  <2>1. \A k \in 0..n : loop[k] = IF k = 0 THEN base ELSE Turn(g, loop[k - 1])
    BY <1>7
  <2>2. 0 \in 0..n /\ \A k \in 1..n : k \in 0..n /\ k # 0
    BY <1>4
  <2>. QED
    BY <2>1, <2>2
<1> DEFINE Good == {k \in 0..n : loop[k] \in States(g)}
<1>9. 0 \in Good /\ \A k \in 1..n : k - 1 \in Good => k \in Good
  <2>1. 0 \in 0..n /\ \A k \in 1..n : k \in 0..n
    BY <1>4
  <2>. QED
    BY <1>2, <1>8, <2>1, TurnTypes
<1>10. 0..n \subseteq Good
  <2>. HIDE DEF Good
  <2>. QED
    BY <1>4, <1>9, UpTo
<1>11. loop \in [0..n -> States(g)]
  <2>1. DOMAIN loop = 0..n /\ loop = [k \in 0..n |-> loop[k]]
    BY <1>7
  <2>. QED
    BY <1>10, <2>1
<1>12. IsWalk(loop, g, n)
  BY <1>1, <1>8, <1>11 DEF IsWalk, base
<1>. QED
  BY <1>12 DEF n

\* flatten's list has as many nodes as the trees, and holds every node.
LEMMA FlattenHolds ==
    ASSUME NEW g, Linked(g), Total(g, One(g)) \in Nat
    PROVE  /\ Flatten(g) \in Seq(Ids(g)) /\ Len(Flatten(g)) = Total(g, One(g))
           /\ \A x \in Ids(g) : Occurs(x, Flatten(g))
<1> DEFINE n == Total(g, One(g))
           W == Subtree(g, One(g))
<1>1. PICK f : IsWalk(f, g, n)
  BY FlattenLoop
<1>2. n \in Nat /\ n = Sum(Of(W, Roots(g)))
  BY DEF Total
<1>3. W \in [Ids(g) -> Nat] /\ \A x \in Ids(g) : W[x] \in Nat /\ W[x] >= 1
  BY OnesOf
<1>. HIDE DEF n, W
<1>4. \A k \in 0..n : f[k] \in States(g)
  BY <1>1 DEF IsWalk
<1> DEFINE Right(k) == Balanced(g, f[k], n, k) /\ Closed(g, f[k])
           Good == {k \in 0..n : Right(k)}
<1>5. Right(0)
  <2>1. f[0].stack = Roots(g) /\ f[0].out = <<>>
    BY <1>1 DEF IsWalk
  <2>2. Balanced(g, f[0], n, 0)
    BY <1>2, <2>1 DEF Balanced, W
  <2>3. Closed(g, f[0])
    <3>1. \A x : ~Occurs(x, <<>>)
      BY DEF Occurs
    <3>. QED
      BY <2>1, <3>1 DEF Closed, Reached
  <2>. QED
    BY <2>2, <2>3
<1>6. ASSUME NEW k \in 1..n, Right(k - 1) PROVE Right(k)
  <2>1. f[k - 1] \in States(g) /\ k - 1 \in Nat /\ (k - 1) + 1 = k /\ f[k] = Turn(g, f[k - 1])
    BY <1>1, <1>2, <1>4 DEF IsWalk
  <2>2. Balanced(g, f[k], n, (k - 1) + 1)
    BY <1>2, <1>6, <2>1, TurnBalances
  <2>3. Closed(g, f[k])
    BY <1>6, <2>1, TurnCloses
  <2>. QED
    BY <2>1, <2>2, <2>3
<1>7. Right(n)
  <2>. HIDE DEF Right
  <2>1. 0 \in Good /\ \A k \in 1..n : k - 1 \in Good => k \in Good
    BY <1>2, <1>5, <1>6
  <2>2. 0..n \subseteq Good
    <3>. HIDE DEF Good
    <3>. QED
      BY <1>2, <2>1, UpTo
  <2>. QED
    BY <1>2, <2>2
<1> DEFINE end == f[n]
<1>8. end.stack \in Seq(Ids(g)) /\ end.out \in Seq(Ids(g)) /\ Flatten(g) = end.out
  BY <1>1, <1>2, <1>4 DEF IsWalk, States
<1>9. /\ Len(end.out) + Sum(Of(W, end.stack)) = n /\ (end.stack # <<>> => Len(end.out) = n)
      /\ Closed(g, end)
  BY <1>7 DEF Balanced, W
<1>. HIDE DEF end, Right
<1>10. end.stack = <<>>
  <2>1. SUFFICES ASSUME end.stack # <<>> PROVE FALSE
    OBVIOUS
  <2> DEFINE v == Of(W, end.stack)
  <2>2. 1 \in 1..Len(end.stack) /\ end.stack[1] \in Ids(g)
    BY <1>8, <2>1, HeadAndTail
  <2>3. v \in Seq(Nat) /\ Len(v) = Len(end.stack) /\ v[1] = W[end.stack[1]]
    <3>1. v \in Seq(Nat) /\ Len(v) = Len(end.stack)
      BY <1>3, <1>8, ValuesOf
    <3>2. DOMAIN end.stack = 1..Len(end.stack)
      BY <1>8, LenProperties
    <3>. QED
      BY <2>2, <3>1, <3>2 DEF Of
  <2>. HIDE DEF v
  <2>4. v[1] <= Sum(v) /\ v[1] >= 1 /\ v[1] \in Nat /\ Sum(v) \in Nat
    BY <1>3, <2>2, <2>3, SumBounds
  <2>5. n + Sum(v) = n
    BY <1>9, <2>1 DEF v
  <2>. QED
    BY <1>2, <2>4, <2>5
<1>11. Len(end.out) = n
  <2> DEFINE v == Of(W, end.stack)
  <2>1. v \in Seq(Nat) /\ Len(v) = 0
    <3>1. v \in Seq(Nat) /\ Len(v) = Len(end.stack)
      BY <1>3, <1>8, ValuesOf
    <3>. QED
      BY <1>10, <3>1
  <2>2. Sum(v) = 0
    <3>. HIDE DEF v
    <3>1. 0 \in {0, 1} /\ \A k \in 1..Len(v) : v[k] = 0
      BY <2>1
    <3>. QED
      BY <2>1, <3>1, SumOfSame
  <2>3. Len(end.out) \in Nat
    BY <1>8, LenProperties
  <2>. QED
    BY <1>2, <1>9, <2>2, <2>3
<1>12. \A x \in Ids(g) : Reached(g, end, x) => Occurs(x, end.out)
  BY <1>10 DEF Reached, Occurs
<1>13. \A x \in Ids(g) : Occurs(x, end.out)
  <2> DEFINE Missing == {x \in Ids(g) : ~Occurs(x, end.out)}
  <2>1. SUFFICES ASSUME Missing # {} PROVE FALSE
    OBVIOUS
  <2>2. /\ g \in Seq(Rows) /\ \A i \in 1..Len(g) : g[i].parent < g[i].id
        /\ Ids(g) \subseteq Nat /\ \A x \in Ids(g) : \E i \in 1..Len(g) : g[i].id = x
    BY GroupFacts DEF Linked
  <2>3. PICK x \in Missing : \A y \in Missing : x <= y
    <3>1. Missing \subseteq Nat
      BY <2>2
    <3>. HIDE DEF Missing
    <3>. QED
      BY <2>1, <3>1, LeastExists
  <2>4. x \in Ids(g) /\ x \in Nat /\ ~Occurs(x, end.out)
    BY <2>2, <2>3
  <2>5. PICK i \in 1..Len(g) : g[i].id = x
    BY <2>2, <2>4
  <2>6. CASE g[i].parent \notin Ids(g)
    <3>1. Occurs(x, Roots(g))
      BY <2>5, <2>6, RootsOf
    <3>. QED
      BY <1>9, <1>12, <2>4, <3>1 DEF Closed
  <2>7. CASE g[i].parent \in Ids(g)
    <3> DEFINE p == g[i].parent
    <3>1. p < x /\ p \in Nat /\ p \in Ids(g)
      BY <2>2, <2>5, <2>7
    <3>2. Occurs(x, Children(g, p))
      BY <2>5, <2>7, ChildrenOf
    <3>. HIDE DEF p
    <3>3. p \notin Missing
      BY <2>3, <2>4, <3>1
    <3>4. Occurs(p, end.out)
      BY <3>1, <3>3
    <3>. QED
      BY <1>9, <1>12, <2>4, <3>1, <3>2, <3>4 DEF Closed
  <2>. QED
    BY <2>6, <2>7
<1>. QED
  BY <1>8, <1>11, <1>13 DEF n

----------------------------------------------------------------------------
(* The graph of a group. *)

\* The ids of a group are finitely many; as many as its events if they differ.
LEMMA IdsCounted ==
    ASSUME NEW g \in Seq(Rows)
    PROVE  /\ IsFiniteSet(Ids(g)) /\ Cardinality(Ids(g)) \in Nat
           /\ Len(g) = Cardinality(Ids(g)) => Distinct(g)
<1> DEFINE n == Len(g)
           f == [k \in 1..n |-> g[k].id]
           S == Ids(g)
<1>1. /\ n \in Nat /\ \A k \in 1..n : g[k].id \in S
      /\ \A x \in S : \E k \in 1..n : g[k].id = x
  BY GroupFacts
<1>. HIDE DEF n, S
<1>2. f \in [1..n -> S] /\ \A x \in S : \E k \in 1..n : f[k] = x
  BY <1>1
<1>3. \A k \in 1..n : f[k] = g[k].id
  OBVIOUS
<1>. HIDE DEF f
<1>4. f \in Surjection(1..n, S)
  BY <1>2, Fun_IsSurj
<1>5. IsFiniteSet(1..n) /\ Cardinality(1..n) = n
  BY <1>1, FS_Interval
<1>6. IsFiniteSet(S) /\ (Cardinality(S) = Cardinality(1..n) <=> f \in Injection(1..n, S))
  BY <1>4, <1>5, FS_Surjection
<1>7. f \in Injection(1..n, S) => \A a, b \in 1..n : f[a] = f[b] => a = b
  BY DEF Injection, IsInjective
<1>8. n = Cardinality(S) => \A a, b \in 1..n : g[a].id = g[b].id => a = b
  BY <1>3, <1>5, <1>6, <1>7
<1>9. Cardinality(S) \in Nat
  BY <1>6, FS_CardinalityType
<1>. QED
  BY <1>6, <1>8, <1>9 DEF Distinct, n, S

\* SetToSeq lists a finite set.
LEMMA SetListed ==
    ASSUME NEW S, IsFiniteSet(S)
    PROVE  Lists(SetToSeq(S), S) /\ Len(SetToSeq(S)) = Cardinality(S)
<1> DEFINE n == Cardinality(S)
           s == SetToSeq(S)
<1>1. n \in Nat /\ ExistsBijection(1..n, S)
  BY FS_CardinalityType
<1>2. \E f \in [1..n -> S] : IsInjective(f)
  BY <1>1 DEF ExistsBijection, Bijection, Injection
<1>3. s \in [1..n -> S] /\ IsInjective(s)
  BY <1>2 DEF SetToSeq
<1>. HIDE DEF n, s
<1>4. s \in Injection(1..n, S)
  BY <1>3 DEF Injection
<1>5. IsFiniteSet(1..n) /\ Cardinality(1..n) = n
  BY <1>1, FS_Interval
<1>6. s \in Surjection(1..n, S)
  BY <1>4, <1>5, FS_Injection DEF n
<1>7. \A x \in S : \E k \in 1..n : s[k] = x
  BY <1>6 DEF Surjection
<1>8. s \in Seq(S) /\ Len(s) = n
  BY <1>1, <1>3
<1>9. \A j, k \in 1..n : s[j] = s[k] => j = k
  BY <1>3 DEF IsInjective
<1>. QED
  BY <1>7, <1>8, <1>9 DEF Lists, n, s

\* Node is defined for every id of the group: costs are natural numbers.
LEMMA CostsOf ==
    ASSUME NEW g \in Seq(Rows)
    PROVE  Cost(g) \in [Ids(g) -> Nat]
<1>1. ASSUME NEW x \in Ids(g) PROVE Node(g, x).cost \in Nat
  <2> DEFINE Places == {i \in 1..Len(g) : g[i].id = x}
  <2>1. /\ Len(g) \in Nat /\ DOMAIN g = 1..Len(g) /\ \A i \in 1..Len(g) : g[i] \in Rows
        /\ \E i \in 1..Len(g) : g[i].id = x
    BY GroupFacts
  <2> DEFINE After == {m \in Nat : \A j \in Places : j <= m}
  <2>2. PICK m \in After : \A l \in After : m <= l
    <3>1. After \subseteq Nat /\ Len(g) \in After
      BY <2>1
    <3>. HIDE DEF After
    <3>. QED
      BY <3>1, LeastExists
  <2>3. m \in Nat /\ \A j \in Places : j <= m /\ j \in Nat /\ j >= 1
    BY <2>1, <2>2
  <2>4. m \in Places
    <3>1. SUFFICES ASSUME m \notin Places PROVE FALSE
      OBVIOUS
    <3>2. \A j \in Places : j <= m - 1 /\ j # m
      BY <2>3, <3>1
    <3>3. m - 1 \in Nat
      BY <2>1, <2>3
    <3>4. m - 1 \in After
      BY <3>2, <3>3
    <3>. QED
      BY <2>2, <2>3, <3>4
  <2>5. m \in DOMAIN g /\ g[m].id = x /\ \A j \in DOMAIN g : g[j].id = x => j <= m
    BY <2>1, <2>3, <2>4
  <2>6. \E i \in DOMAIN g : g[i].id = x /\ \A j \in DOMAIN g : g[j].id = x => j <= i
    BY <2>5
  <2>7. PICK i \in DOMAIN g : Node(g, x) = g[i]
    BY <2>6 DEF Node
  <2>. QED
    BY <2>1, <2>7 DEF Rows
<1>. QED
  BY <1>1 DEF Cost

\* Every event is in the graph; if none is there twice, it is once in flatten's
\* list and its cost counts once; the total is never too low.
LEMMA GraphIsWhole ==
    ASSUME NEW g, Linked(g)
    PROVE  LET nodes == Flatten(g)
               total == Total(g, Cost(g))
               costs == Sum(Of(Cost(g), SetToSeq(Ids(g))))
               once == Len(g) = Cardinality(Ids(g))
           IN  /\ Ids(g) = {nodes[k] : k \in DOMAIN nodes}
               /\ once => Len(nodes) = Len(g) /\ total = costs
               /\ total >= costs
<1> DEFINE s == SetToSeq(Ids(g))
           nodes == Flatten(g)
           ones == Of(One(g), s)
           count == Total(g, One(g))
<1>1. /\ g \in Seq(Rows) /\ IsFiniteSet(Ids(g)) /\ Cardinality(Ids(g)) \in Nat
      /\ Len(g) = Cardinality(Ids(g)) => Distinct(g)
  BY IdsCounted DEF Linked
<1>2. Lists(s, Ids(g)) /\ Len(s) = Cardinality(Ids(g)) /\ s \in Seq(Ids(g))
  BY <1>1, SetListed DEF Lists
<1>. HIDE DEF s
<1>3. Cost(g) \in [Ids(g) -> Nat] /\ One(g) \in [Ids(g) -> Nat]
  BY <1>1, CostsOf, OnesOf
<1>4. /\ Total(g, Cost(g)) >= Sum(Of(Cost(g), s))
      /\ Distinct(g) => Total(g, Cost(g)) = Sum(Of(Cost(g), s))
  BY <1>2, <1>3, TotalHolds
<1>5. count \in Nat /\ (Distinct(g) => count = Sum(ones))
  BY <1>2, <1>3, TotalHolds
<1>6. Sum(ones) = Len(s)
  <2>1. ones \in Seq(Nat) /\ Len(ones) = Len(s)
    BY <1>2, <1>3, ValuesOf
  <2>2. DOMAIN s = 1..Len(s) /\ \A k \in 1..Len(s) : s[k] \in Ids(g)
    BY <1>2, LenProperties, ElementOfSeq
  <2>3. \A k \in 1..Len(s) : ones[k] = 1
    BY <2>2 DEF Of, One
  <2>. HIDE DEF ones
  <2>4. 1 \in {0, 1} /\ \A k \in 1..Len(ones) : ones[k] = 1
    BY <2>1, <2>3
  <2>. QED
    BY <2>1, <2>4, SumOfSame
<1>7. nodes \in Seq(Ids(g)) /\ Len(nodes) = count /\ \A x \in Ids(g) : Occurs(x, nodes)
  BY <1>5, FlattenHolds
<1>. HIDE DEF nodes, count, ones
<1>8. Ids(g) = {nodes[k] : k \in DOMAIN nodes}
  <2>1. DOMAIN nodes = 1..Len(nodes) /\ \A k \in 1..Len(nodes) : nodes[k] \in Ids(g)
    BY <1>7, LenProperties, ElementOfSeq
  <2>. QED
    BY <1>7, <2>1 DEF Occurs
<1>9. Len(g) = Cardinality(Ids(g)) => Len(nodes) = Len(g)
  BY <1>1, <1>2, <1>5, <1>6, <1>7
<1>. QED
  BY <1>1, <1>4, <1>8, <1>9 DEF s, nodes

USE LineageAssumption DEF LineageAssumption

----------------------------------------------------------------------------
(* The inductive invariant. *)

\* Calls begin in the order of their numbers.  The chain and the parents name
\* calls whose hook has run.
ChainPointsBack ==
    /\ \A c, d \in Calls : d < c /\ pc[c] # "new" => pc[d] # "new"
    /\ last # 0 => pc[last] = "done"
    /\ \A c \in Calls : parent[c] # 0 => pc[parent[c]] = "done"

\* m is the greatest of the numbers in S; 0 if there is none.
IsLatest(m, S) == IF S = {} THEN m = 0 ELSE m \in S /\ \A e \in S : e <= m

\* The calls the chain has recorded.
Recorded == {d \in Calls : corr[d] \in {NoCorr, Own} /\ pc[d] = "done"}

\* While no two calls were under way together, those before a call that began are
\* over, the chain is at the latest it recorded, and so was it when a call began.
OneAfterTheOther ==
    ~overlap =>
      /\ \A c, d \in Calls : d < c /\ pc[c] # "new" => pc[d] \in {"done", "failed", "skipped"}
      /\ IsLatest(last, Recorded)
      /\ \A c \in Calls : corr[c] = Own /\ pc[c] # "new" =>
           IsLatest(parent[c], {d \in Recorded : d < c})

\* Row i comes before row j by time, and by place at the same time.
Ahead(t, i, j) == t[i].at > t[j].at \/ (t[i].at = t[j].at /\ i < j)

\* How many of the rows the filter matches come before row j.
Rank(b, t, f, j) == Cardinality({i \in Hits(b, t, f) : Ahead(t, i, j)})

\* The order of a listing is determined: SQLite breaks ties by place.
Determined(b, t) ==
    \/ b = "sqlite"
    \/ \A i, j \in DOMAIN t : i # j => t[i].at # t[j].at

Caught(i) == \E k \in DOMAIN seen : seen[k].id = table[i].id

\* Of the rows that were there at the start, the reader has caught those whose
\* rank is below its offset, and at its end all that match.
PagesCover ==
    /\ rpc = "idle" => offset = 0 /\ seen = <<>>
    /\ Determined(backend, table) =>
         \A i \in Hits(backend, table, filter) :
           /\ i <= atStart /\ table[i].readable
           /\ rpc = "done" \/ (rpc = "paging" /\ Rank(backend, table, filter, i) < offset)
           => Caught(i)

\* What it has read matches its filter.
SeenMatch == \A k \in DOMAIN seen : Matches(backend, seen[k], filter)

\* A parent has a smaller number than what names it: of each call, and of each
\* event on its way, in the table and in what was read.
PointsBack(rows) == \A k \in DOMAIN rows : rows[k].parent < rows[k].id

EventsPointBack ==
    /\ \A c \in Calls : parent[c] < c
    /\ PointsBack(queue) /\ PointsBack(table) /\ PointsBack(seen)

IInv ==
    /\ TypeOK /\ ChainPointsBack /\ OneAfterTheOther /\ SeenMatch /\ PagesCover
    /\ EventsPointBack

----------------------------------------------------------------------------
(* What Readable returns. *)

\* The rows that can be read, and nothing else.
LEMMA ReadableRows ==
    ASSUME NEW rows \in Seq(Rows)
    PROVE  /\ Readable(rows) \in Seq(Rows)
           /\ \A i \in DOMAIN rows : rows[i].readable =>
                \E m \in DOMAIN Readable(rows) : Readable(rows)[m] = rows[i]
           /\ \A m \in DOMAIN Readable(rows) : \E i \in DOMAIN rows : Readable(rows)[m] = rows[i]
<1> DEFINE places == {k \in DOMAIN rows : rows[k].readable}
           picked == Pick(rows, places)
<1>1. picked \in Seq(Rows) /\ Holds(picked, rows, places)
  BY PickRows
<1>2. Readable(rows) = picked
  BY DEF Readable
<1>. HIDE DEF picked
<1>. QED
  BY <1>1, <1>2 DEF Holds

----------------------------------------------------------------------------
(* What a listing and its pages hold. *)

LEMMA HitsAreFinite ==
    ASSUME NEW t \in Seq(Rows), NEW b, NEW f
    PROVE  /\ Len(t) \in Nat /\ DOMAIN t = 1..Len(t)
           /\ Hits(b, t, f) \subseteq 1..Len(t) /\ IsFiniteSet(Hits(b, t, f))
           /\ CountEvents(b, t, f) = Cardinality(Hits(b, t, f)) /\ CountEvents(b, t, f) \in Nat
<1>1. Len(t) \in Nat /\ DOMAIN t = 1..Len(t)
  BY LenProperties
<1>2. Hits(b, t, f) \in SUBSET (1..Len(t))
  BY <1>1 DEF Hits
<1>3. IsFiniteSet(1..Len(t))
  BY <1>1, FS_Interval
<1>4. IsFiniteSet(Hits(b, t, f))
  BY <1>2, <1>3, FS_Subset
<1>. QED
  BY <1>1, <1>2, <1>4, FS_CardinalityType DEF CountEvents

\* A listing holds each matching row once.
LEMMA ListingHoldsAll ==
    ASSUME NEW t \in Seq(Rows), NEW b, NEW f, NEW s \in Listings(b, t, f)
    PROVE  /\ s \in Seq(Hits(b, t, f)) /\ Len(s) = CountEvents(b, t, f)
           /\ DOMAIN s = 1..Len(s)
           /\ \A k, m \in 1..Len(s) : s[k] = s[m] => k = m
           /\ \A j \in Hits(b, t, f) : \E k \in 1..Len(s) : s[k] = j
<1> DEFINE H == Hits(b, t, f)
           n == Cardinality(H)
<1>1. IsFiniteSet(H) /\ n \in Nat /\ n = CountEvents(b, t, f)
  BY HitsAreFinite
<1>2. s \in [1..n -> H] /\ \A k, m \in 1..n : k # m => s[k] # s[m]
  BY DEF Listings, SetToSeqs
<1>. HIDE DEF H
<1>3. s \in Seq(H) /\ Len(s) = n /\ DOMAIN s = 1..n
  BY <1>1, <1>2
<1>4. s \in Injection(1..n, H)
  BY <1>2, Fun_IsInj
<1>5. IsFiniteSet(1..n) /\ Cardinality(1..n) = n
  BY <1>1, FS_Interval
<1>6. s \in Surjection(1..n, H)
  BY <1>1, <1>4, <1>5, FS_Injection
<1>7. \A j \in H : \E k \in 1..n : s[k] = j
  BY <1>6 DEF Surjection
<1>. QED
  BY <1>1, <1>2, <1>3, <1>7 DEF H

\* Where the order is determined, the place of a row is its rank.
LEMMA PlaceIsRank ==
    ASSUME NEW t \in Seq(Rows), NEW b, NEW f, NEW s \in Listings(b, t, f),
           Determined(b, t), NEW k \in 1..Len(s)
    PROVE  Rank(b, t, f, s[k]) = k - 1
<1> DEFINE H == Hits(b, t, f)
           j == s[k]
           A == {i \in H : Ahead(t, i, j)}
<1>1. /\ s \in Seq(H) /\ DOMAIN s = 1..Len(s) /\ Len(s) \in Nat
      /\ \A m, l \in 1..Len(s) : s[m] = s[l] => m = l
      /\ \A i \in H : \E m \in 1..Len(s) : s[m] = i
  BY ListingHoldsAll, HitsAreFinite, SMTT(30)
<1>2. \A m \in 1..Len(s) : s[m] \in H /\ s[m] \in DOMAIN t /\ s[m] \in Nat /\ t[s[m]].at \in Nat
  <2>1. TAKE m \in 1..Len(s)
  <2>2. s[m] \in H
    BY <1>1, ElementOfSeq
  <2>3. s[m] \in 1..Len(t) /\ DOMAIN t = 1..Len(t)
    BY <2>2, HitsAreFinite
  <2>4. t[s[m]] \in Rows
    BY <2>3, ElementOfSeq
  <2>. QED
    BY <2>2, <2>3, <2>4, SMTT(30) DEF Rows
<1>3. \A m, l \in 1..Len(s) : m < l =>
        \/ t[s[m]].at > t[s[l]].at
        \/ t[s[m]].at = t[s[l]].at /\ (b = "sqlite" => s[m] < s[l])
  BY <1>1 DEF Listings
<1>. HIDE DEF H
<1>4. ASSUME NEW m \in 1..Len(s), NEW l \in 1..Len(s), m < l
      PROVE  Ahead(t, s[m], s[l]) /\ ~Ahead(t, s[l], s[m])
  <2>1. s[m] # s[l]
    BY <1>1, <1>4
  <2>2. t[s[m]].at > t[s[l]].at \/ (t[s[m]].at = t[s[l]].at /\ s[m] < s[l])
    BY <1>2, <1>3, <1>4, <2>1 DEF Determined
  <2>. QED
    BY <1>2, <2>2, SMTT(30) DEF Ahead
<1>5. ~Ahead(t, j, j)
  BY <1>2 DEF Ahead
<1> DEFINE g == [m \in 1..(k - 1) |-> s[m]]
<1>6. k \in Nat /\ k - 1 \in Nat /\ \A m \in 1..(k - 1) : m \in 1..Len(s) /\ m < k
  BY <1>1
<1>7. g \in [1..(k - 1) -> A]
  BY <1>2, <1>4, <1>6
<1>8. \A m, l \in 1..(k - 1) : g[m] = g[l] => m = l
  BY <1>1, <1>6
<1>9. \A i \in A : \E m \in 1..(k - 1) : g[m] = i
  <2>1. TAKE i \in A
  <2>2. PICK m \in 1..Len(s) : s[m] = i
    BY <1>1
  <2>3. ~(k < m) /\ m # k
    BY <1>4, <1>5, <2>2
  <2>4. m \in 1..(k - 1)
    BY <1>1, <1>6, <2>3
  <2>. QED
    BY <2>2, <2>4
<1>. HIDE DEF g, A
<1>10. g \in Bijection(1..(k - 1), A)
  BY <1>7, <1>8, <1>9, Fun_IsBij
<1>11. Cardinality(A) = Cardinality(1..(k - 1)) /\ Cardinality(1..(k - 1)) = k - 1
  <2>1. IsFiniteSet(1..(k - 1)) /\ Cardinality(1..(k - 1)) = k - 1
    BY <1>6, FS_Interval
  <2>2. ExistsBijection(1..(k - 1), A)
    BY <1>10, Fun_ExistsBij
  <2>. QED
    BY <2>1, <2>2, FS_Bijection
<1>. QED
  BY <1>11 DEF Rank, A, H

\* The rank of a matching row is below the count of them.
LEMMA RankBelowCount ==
    ASSUME NEW t \in Seq(Rows), NEW b, NEW f, NEW j \in Hits(b, t, f)
    PROVE  Rank(b, t, f, j) \in Nat /\ Rank(b, t, f, j) < CountEvents(b, t, f)
<1> DEFINE H == Hits(b, t, f)
           A == {i \in H : Ahead(t, i, j)}
<1>1. /\ IsFiniteSet(H) /\ CountEvents(b, t, f) = Cardinality(H) /\ Cardinality(H) \in Nat
      /\ H \subseteq 1..Len(t)
  BY HitsAreFinite
<1>2. ~Ahead(t, j, j)
  <2>1. t[j] \in Rows /\ j \in Nat
    BY <1>1, ElementOfSeq
  <2>. QED
    BY <2>1 DEF Ahead, Rows
<1>3. A \in SUBSET (H \ {j})
  BY <1>2
<1>. HIDE DEF H, A
<1>4. IsFiniteSet(H \ {j}) /\ Cardinality(H \ {j}) = Cardinality(H) - 1
  BY <1>1, FS_RemoveElement DEF H
<1>5. IsFiniteSet(A) /\ Cardinality(A) <= Cardinality(H \ {j})
  BY <1>3, <1>4, FS_Subset
<1>6. Cardinality(A) \in Nat
  BY <1>5, FS_CardinalityType
<1>7. Cardinality(A) < CountEvents(b, t, f)
  BY <1>1, <1>4, <1>5, <1>6
<1>. QED
  BY <1>6, <1>7 DEF Rank, A, H

\* A row that is added matches or not, and moves others back, never forward.
MovedBack(b, t, u, f, j) ==
    /\ u[j] = t[j] /\ j \in Hits(b, t, f)
    /\ Rank(b, t, f, j) \in Nat /\ Rank(b, u, f, j) \in Nat
    /\ Rank(b, t, f, j) <= Rank(b, u, f, j)

LEMMA RankGrows ==
    ASSUME NEW t \in Seq(Rows), NEW row \in Rows, NEW b, NEW f, NEW j \in 1..Len(t),
           NEW u, u = Append(t, row), j \in Hits(b, u, f)
    PROVE  MovedBack(b, t, u, f, j)
<1>1. /\ u \in Seq(Rows) /\ Len(t) \in Nat /\ Len(u) = Len(t) + 1
      /\ \A i \in 1..Len(t) : u[i] = t[i]
      /\ DOMAIN t = 1..Len(t) /\ DOMAIN u = 1..Len(u)
  <2>1. /\ u \in Seq(Rows) /\ Len(t) \in Nat /\ Len(u) = Len(t) + 1
        /\ \A i \in 1..Len(t) : u[i] = t[i]
    BY AppendProperties, LenProperties
  <2>. QED
    BY <2>1, LenProperties
<1>2. Hits(b, t, f) \subseteq Hits(b, u, f) /\ j \in Hits(b, t, f)
  BY <1>1 DEF Hits
<1>3. {i \in Hits(b, t, f) : Ahead(t, i, j)} \subseteq {i \in Hits(b, u, f) : Ahead(u, i, j)}
  <2>1. \A i \in Hits(b, t, f) : i \in 1..Len(t)
    BY HitsAreFinite
  <2>. QED
    BY <1>1, <1>2, <2>1 DEF Ahead
<1>4. IsFiniteSet({i \in Hits(b, u, f) : Ahead(u, i, j)})
  <2>1. IsFiniteSet(Hits(b, u, f))
    BY <1>1, HitsAreFinite
  <2>. QED
    BY <2>1, FS_Subset
<1>5. Rank(b, t, f, j) <= Rank(b, u, f, j)
  BY <1>3, <1>4, FS_Subset DEF Rank
<1>6. Rank(b, t, f, j) \in Nat /\ Rank(b, u, f, j) \in Nat
  BY <1>1, <1>2, RankBelowCount
<1>. QED
  BY <1>1, <1>2, <1>5, <1>6 DEF MovedBack

\* A page p holds matching rows only; if the order is determined, it holds those
\* it is due, by their rank.
HoldsItsRows(p, b, t, f, limit, from) ==
    /\ p \in Seq(Rows)
    /\ \A m \in DOMAIN p : \E j \in Hits(b, t, f) : p[m] = t[j]
    /\ \A j \in Hits(b, t, f) :
         /\ Determined(b, t) /\ t[j].readable
         /\ from <= Rank(b, t, f, j) /\ Rank(b, t, f, j) < from + limit
         => \E m \in DOMAIN p : p[m] = t[j]

LEMMA PageHolds ==
    ASSUME NEW t \in Seq(Rows), NEW b, NEW f, NEW s \in Listings(b, t, f),
           NEW limit \in Nat, NEW from \in Nat
    PROVE  HoldsItsRows(Page(t, s, limit, from), b, t, f, limit, from)
<1> DEFINE H == Hits(b, t, f)
           first == from + 1
           to == IF from + limit < Len(s) THEN from + limit ELSE Len(s)
           page == SubSeq(s, first, to)
           rows == [k \in DOMAIN page |-> t[page[k]]]
<1>1. /\ s \in Seq(H) /\ Len(s) \in Nat /\ H \subseteq 1..Len(t)
      /\ \A j \in H : \E k \in 1..Len(s) : s[k] = j
  BY ListingHoldsAll, HitsAreFinite
<1>2. Page(t, s, limit, from) = Readable(rows)
  BY DEF Page, RowsOf
<1>3. first \in Nat /\ first >= 1 /\ to \in Nat /\ to <= Len(s)
  BY <1>1
<1>. HIDE DEF H
<1>4. \A k \in first..to : k \in 1..Len(s) /\ s[k] \in H
  <2>1. \A k \in first..to : k \in 1..Len(s)
    BY <1>1, <1>3
  <2>. QED
    BY <1>1, <2>1, ElementOfSeq
<1>. HIDE DEF first, to
<1>5. /\ page \in Seq(H) /\ Len(page) = IF first <= to THEN to - first + 1 ELSE 0
      /\ \A k \in 1..(to - first + 1) : page[k] = s[first + k - 1]
  BY <1>3, <1>4, SubSeqProperties
<1>6. Len(page) \in Nat /\ DOMAIN page = 1..Len(page)
  BY <1>5, LenProperties
<1>. HIDE DEF page
<1>7. rows \in Seq(Rows) /\ DOMAIN rows = 1..Len(page)
  <2>1. \A k \in 1..Len(page) : t[page[k]] \in Rows
    <3>1. \A k \in 1..Len(page) : page[k] \in 1..Len(t)
      BY <1>1, <1>5, ElementOfSeq
    <3>. QED
      BY <3>1, ElementOfSeq
  <2>. QED
    BY <1>6, <2>1
<1>8. \A k \in DOMAIN rows : page[k] \in H /\ rows[k] = t[page[k]]
  BY <1>5, <1>6, <1>7, ElementOfSeq
<1>9. ASSUME NEW j \in H, Determined(b, t),
             from <= Rank(b, t, f, j), Rank(b, t, f, j) < from + limit
      PROVE  \E k \in DOMAIN rows : rows[k] = t[j]
  <2>1. PICK k \in 1..Len(s) : s[k] = j
    BY <1>1
  <2>2. Rank(b, t, f, j) = k - 1
    BY <1>9, <2>1, PlaceIsRank
  <2>3. first <= k /\ k <= to
    BY <1>1, <1>9, <2>1, <2>2 DEF first, to
  <2>4. PICK m \in 1..Len(page) : first + m - 1 = k /\ m \in 1..(to - first + 1)
    <3>1. k - first + 1 \in 1..Len(page) /\ first + (k - first + 1) - 1 = k
      BY <1>3, <1>5, <2>3
    <3>. QED
      BY <1>3, <1>5, <2>3, <3>1
  <2>5. page[m] = j
    BY <1>5, <2>1, <2>4
  <2>. QED
    BY <1>7, <1>8, <2>4, <2>5
<1>. HIDE DEF rows
<1>10. /\ Readable(rows) \in Seq(Rows)
       /\ \A i \in DOMAIN rows : rows[i].readable =>
            \E m \in DOMAIN Readable(rows) : Readable(rows)[m] = rows[i]
       /\ \A m \in DOMAIN Readable(rows) : \E i \in DOMAIN rows : Readable(rows)[m] = rows[i]
  BY <1>7, ReadableRows
<1>. QED
  BY <1>2, <1>8, <1>9, <1>10 DEF H, HoldsItsRows

----------------------------------------------------------------------------
(* The steps. *)

LEMMA InitInv == Init => IInv
<1> SUFFICES ASSUME Init PROVE IInv
  OBVIOUS
<1>1. TypeOK
  <2>1. filter \in Filters /\ backend \in Backends
    BY DEF Init, Backends
  <2>2. queue \in Seq(Rows) /\ table \in Seq(Rows) /\ seen \in Seq(Rows) /\ 0 \in 0..Len(table)
    BY EmptySeq, LenProperties DEF Init
  <2>. QED
    BY <2>1, <2>2 DEF Init, TypeOK
<1>2. ChainPointsBack
  BY DEF Init, ChainPointsBack
<1>3. OneAfterTheOther
  <2>1. Recorded = {}
    BY DEF Init, Recorded
  <2>. QED
    BY <2>1 DEF Init, OneAfterTheOther, IsLatest
<1>4. SeenMatch /\ PagesCover
  <2>1. \A i \in Hits(backend, table, filter) : i \in Nat /\ i > 0
    BY HitsAreFinite DEF Init
  <2>. QED
    BY <2>1 DEF Init, SeenMatch, PagesCover
<1>5. EventsPointBack
  <2>1. \A c \in Calls : parent[c] = 0 /\ 0 < c
    BY DEF Init
  <2>2. PointsBack(Foreign) /\ PointsBack(<<>>)
    BY ForeignAssumption DEF PointsBack
  <2>. QED
    BY <2>1, <2>2 DEF Init, EventsPointBack
<1>. QED
  BY <1>1, <1>2, <1>3, <1>4, <1>5 DEF IInv

\* The event of a call: its id is the call's, its parent the one it was given.
LEMMA EmittedRow ==
    ASSUME TypeOK, NEW c \in Calls, Emit(c)
    PROVE  \E row \in Rows : queue' = Append(queue, row) /\ row.id = c /\ row.parent = parent[c]
<1>1. PICK error \in BOOLEAN :
        queue' = Append(queue, [id |-> c, corr |-> corr[c], parent |-> parent[c], at |-> 0,
                                error |-> error, cost |-> IF error THEN 0 ELSE c,
                                readable |-> TRUE])
  BY DEF Emit
<1> DEFINE cost == IF error THEN 0 ELSE c
           r == corr[c]
           p == parent[c]
           row == [id |-> c, corr |-> r, parent |-> p, at |-> 0,
                   error |-> error, cost |-> cost, readable |-> TRUE]
<1>2. r \in STRING /\ p \in Nat /\ c \in Nat /\ cost \in Nat
  <2>1. corr \in [Calls -> STRING] /\ parent \in [Calls -> Calls \cup {0}]
    BY DEF TypeOK
  <2>2. c \in Nat /\ parent[c] \in Calls \cup {0} /\ \A d \in Calls : d \in Nat
    BY <2>1
  <2>. QED
    BY <2>1, <2>2
<1>3. queue' = Append(queue, row) /\ row.id = c /\ row.parent = p
  BY <1>1
<1>. HIDE DEF cost, r
<1>4. row \in Rows
  <2>. HIDE DEF p
  <2>. QED
    BY <1>2 DEF Rows
<1>. HIDE DEF row
<1>. QED
  BY <1>3, <1>4

LEMMA TypeStep == ASSUME TypeOK, [Next]_vars PROVE TypeOK'
<1>0. /\ queue \in Seq(Rows) /\ table \in Seq(Rows) /\ seen \in Seq(Rows)
      /\ Len(table) \in Nat /\ last \in Nat
  BY LenProperties DEF TypeOK
<1>1. ASSUME NEW c \in Calls, Begin(c) \/ Skip(c) \/ Hook(c) PROVE TypeOK'
  <2>1. CASE Begin(c)
    BY <2>1 DEF Begin, Goes, TypeOK, readVars
  <2>2. CASE Skip(c)
    BY <2>2 DEF Skip, Goes, TypeOK, readVars
  <2>3. CASE Hook(c)
    BY <2>3 DEF Hook, Goes, Record, TypeOK, readVars
  <2>. QED
    BY <1>1, <2>1, <2>2, <2>3
<1>2. ASSUME NEW c \in Calls, Emit(c) PROVE TypeOK'
  <2>1. PICK row \in Rows : queue' = Append(queue, row)
    BY <1>2, EmittedRow
  <2>2. queue' \in Seq(Rows)
    BY <1>0, <2>1, AppendProperties
  <2>3. pc' \in [Calls -> {"new", "calling", "emitted", "done", "failed", "skipped"}]
    BY <1>2 DEF Emit, Goes, TypeOK
  <2>. QED
    BY <1>2, <2>2, <2>3 DEF Emit, TypeOK, readVars
<1>3. CASE Flush
  <2>1. queue' \in Seq(Rows)
    BY <1>0, <1>3, HeadTailProperties DEF Flush
  <2>2. table' \in Seq(Rows) /\ Len(table) <= Len(table')
    <3>1. CASE table' = table
      BY <1>0, <3>1
    <3>2. ASSUME NEW t \in Times, table' = Append(table, [Head(queue) EXCEPT !.at = t])
          PROVE  table' \in Seq(Rows) /\ Len(table) <= Len(table')
      <4>1. Head(queue) \in Rows
        BY <1>0, <1>3, HeadTailProperties DEF Flush
      <4>2. [Head(queue) EXCEPT !.at = t] \in Rows
        BY <4>1 DEF Rows
      <4>. QED
        BY <1>0, <3>2, <4>2, AppendProperties
    <3>. QED
      BY <1>3, <3>1, <3>2 DEF Flush
  <2>3. atStart' \in 0..Len(table')
    <3>1. Len(table') \in Nat /\ atStart \in 0..Len(table) /\ atStart' = atStart
      BY <1>3, <2>2, LenProperties DEF TypeOK, Flush, readVars
    <3>. QED
      BY <1>0, <2>2, <3>1
  <2>. QED
    BY <1>3, <2>1, <2>2, <2>3 DEF Flush, TypeOK, callVars, readVars
<1>4. CASE StartReading \/ EndReading
  BY <1>0, <1>4 DEF StartReading, EndReading, TypeOK, callVars
<1>5. CASE ReadPage
  <2>1. PICK s \in Listings(backend, table, filter) :
          seen' = seen \o Page(table, s, PageSize, offset)
    BY <1>5 DEF ReadPage
  <2>2. Page(table, s, PageSize, offset) \in Seq(Rows)
    <3>1. PageSize \in Nat /\ offset \in Nat
      BY DEF TypeOK
    <3>. QED
      BY <1>0, <3>1, PageHolds DEF HoldsItsRows
  <2>3. seen' \in Seq(Rows) /\ offset' \in Nat
    BY <1>0, <1>5, <2>1, <2>2, ConcatProperties DEF ReadPage, TypeOK
  <2>. QED
    BY <1>5, <2>3 DEF ReadPage, TypeOK, callVars
<1>6. CASE UNCHANGED vars
  BY <1>6 DEF vars, callVars, readVars, TypeOK
<1>. QED
  BY <1>1, <1>2, <1>3, <1>4, <1>5, <1>6 DEF Next, CallNext, ReadNext

\* The calls and the chain.
LEMMA ChainStep == ASSUME TypeOK, ChainPointsBack, [Next]_vars PROVE ChainPointsBack'
<1> USE DEF ChainPointsBack, Goes
<1>0. /\ pc \in [Calls -> {"new", "calling", "emitted", "done", "failed", "skipped"}]
      /\ last \in Calls \cup {0} /\ parent \in [Calls -> Calls \cup {0}] /\ 0 \notin Calls
      /\ \A c \in Calls : c \in Nat
  BY DEF TypeOK
<1>1. ASSUME NEW c \in Calls, Begin(c) PROVE ChainPointsBack'
  BY <1>0, <1>1 DEF Begin
<1>2. ASSUME NEW c \in Calls, Emit(c) PROVE ChainPointsBack'
  BY <1>0, <1>2 DEF Emit
<1>3. ASSUME NEW c \in Calls, Skip(c) PROVE ChainPointsBack'
  BY <1>0, <1>3 DEF Skip
<1>4. ASSUME NEW c \in Calls, Hook(c) PROVE ChainPointsBack'
  BY <1>0, <1>4 DEF Hook, Record
<1>5. CASE Flush \/ ReadNext \/ UNCHANGED vars
  BY <1>5 DEF Flush, ReadNext, StartReading, ReadPage, EndReading, vars, callVars
<1>. QED
  BY <1>1, <1>2, <1>3, <1>4, <1>5 DEF Next, CallNext

LEMMA SequenceStep ==
    ASSUME TypeOK, ChainPointsBack, OneAfterTheOther, [Next]_vars
    PROVE  OneAfterTheOther'
<1>0. /\ pc \in [Calls -> {"new", "calling", "emitted", "done", "failed", "skipped"}]
      /\ last \in Calls \cup {0} /\ parent \in [Calls -> Calls \cup {0}] /\ 0 \notin Calls
      /\ \A c \in Calls : c \in Nat
  BY DEF TypeOK
<1>1. ASSUME NEW c \in Calls, Begin(c), ~overlap' PROVE OneAfterTheOther'
  <2>1. /\ pc[c] = "new" /\ pc' = [pc EXCEPT ![c] = "calling"] /\ ~overlap
        /\ \A d \in Calls : d < c => pc[d] # "new"
        /\ \A d \in Calls : pc[d] \notin {"calling", "emitted"}
        /\ parent' = [parent EXCEPT ![c] = IF corr[c] = Own THEN last ELSE 0]
        /\ UNCHANGED <<last, corr>>
    BY <1>1 DEF Begin, Goes
  <2>2. Recorded' = Recorded
    BY <1>0, <2>1 DEF Recorded
  <2>3. \A d \in Recorded : d < c
    BY <1>0, <2>1 DEF Recorded, ChainPointsBack
  <2>4. \A e, d \in Calls : d < e /\ pc'[e] # "new" => pc'[d] \in {"done", "failed", "skipped"}
    <3>1. TAKE e, d \in Calls
    <3>2. CASE e = c
      BY <1>0, <2>1, <3>2
    <3>3. CASE e # c /\ d # c
      BY <1>0, <2>1, <3>3 DEF OneAfterTheOther
    <3>4. CASE e # c /\ d = c
      BY <1>0, <2>1, <3>4 DEF ChainPointsBack
    <3>. QED
      BY <3>2, <3>3, <3>4
  <2>5. \A e \in Calls : corr[e] = Own /\ pc'[e] # "new" =>
          IsLatest(parent'[e], {d \in Recorded : d < e})
    <3>1. TAKE e \in Calls
    <3>2. CASE e = c
      <4>1. {d \in Recorded : d < c} = Recorded
        BY <2>3
      <4>2. IsLatest(last, Recorded)
        BY <2>1 DEF OneAfterTheOther
      <4>. QED
        BY <1>0, <2>1, <3>2, <4>1, <4>2
    <3>3. CASE e # c
      BY <1>0, <2>1, <3>3 DEF OneAfterTheOther
    <3>. QED
      BY <3>2, <3>3
  <2>6. IsLatest(last, Recorded)
    BY <2>1 DEF OneAfterTheOther
  <2>. QED
    BY <2>1, <2>2, <2>4, <2>5, <2>6 DEF OneAfterTheOther
<1>2. ASSUME NEW c \in Calls, Emit(c) \/ Skip(c), ~overlap' PROVE OneAfterTheOther'
  <2>1. /\ pc[c] = "calling" /\ UNCHANGED <<last, corr, parent, overlap>>
        /\ \E to \in {"failed", "emitted", "skipped"} : pc' = [pc EXCEPT ![c] = to]
    BY <1>2 DEF Emit, Skip, Goes
  <2>2. Recorded' = Recorded
    BY <1>0, <2>1 DEF Recorded
  <2>3. \A e, d \in Calls : d < e /\ pc'[e] # "new" => pc'[d] \in {"done", "failed", "skipped"}
    <3>1. TAKE e, d \in Calls
    <3>2. d < e /\ pc[e] # "new" => pc[d] \in {"done", "failed", "skipped"}
      BY <1>2, <2>1 DEF OneAfterTheOther
    <3>. QED
      BY <1>0, <2>1, <3>2
  <2>4. /\ IsLatest(last, Recorded)
        /\ \A e \in Calls : corr[e] = Own /\ pc'[e] # "new" =>
             IsLatest(parent[e], {d \in Recorded : d < e})
    BY <1>0, <1>2, <2>1 DEF OneAfterTheOther
  <2>. QED
    BY <2>1, <2>2, <2>3, <2>4 DEF OneAfterTheOther
<1>3. ASSUME NEW c \in Calls, Hook(c), ~overlap' PROVE OneAfterTheOther'
  <2>1. /\ pc[c] = "emitted" /\ pc' = [pc EXCEPT ![c] = "done"] /\ Record(c)
        /\ UNCHANGED <<corr, parent, overlap>>
    BY <1>3 DEF Hook, Goes
  <2>2. \A e \in Calls : c < e => pc[e] = "new"
    BY <1>0, <1>3, <2>1 DEF OneAfterTheOther
  <2>3. Recorded' = IF corr[c] \in {NoCorr, Own} THEN Recorded \cup {c} ELSE Recorded
    BY <1>0, <2>1 DEF Recorded
  <2>4. \A e \in Recorded : e <= c
    BY <1>0, <2>2 DEF Recorded
  <2>5. \A e, d \in Calls : d < e /\ pc'[e] # "new" => pc'[d] \in {"done", "failed", "skipped"}
    <3>1. TAKE e, d \in Calls
    <3>2. CASE d = c
      BY <1>0, <2>1, <2>2, <3>2
    <3>3. CASE d # c
      BY <1>0, <1>3, <2>1, <3>3 DEF OneAfterTheOther
    <3>. QED
      BY <3>2, <3>3
  <2>6. IsLatest(last', Recorded')
    <3>1. CASE corr[c] \in {NoCorr, Own}
      <4>1. last' = c /\ Recorded' = Recorded \cup {c} /\ c <= c
        BY <1>0, <2>1, <2>3, <3>1 DEF Record
      <4>. QED
        BY <2>4, <4>1 DEF IsLatest
    <3>2. CASE corr[c] \notin {NoCorr, Own}
      BY <1>3, <2>1, <2>3, <3>2 DEF Record, OneAfterTheOther
    <3>. QED
      BY <3>1, <3>2
  <2>7. \A e \in Calls : corr[e] = Own /\ pc'[e] # "new" =>
          IsLatest(parent[e], {d \in Recorded' : d < e})
    <3>1. SUFFICES ASSUME NEW e \in Calls, corr[e] = Own, pc'[e] # "new"
                   PROVE  IsLatest(parent[e], {d \in Recorded' : d < e})
      OBVIOUS
    <3>2. pc[e] # "new" /\ ~(c < e)
      BY <1>0, <2>1, <2>2, <3>1
    <3>3. {d \in Recorded' : d < e} = {d \in Recorded : d < e}
      BY <2>3, <3>2
    <3>. QED
      BY <1>3, <2>1, <3>1, <3>2, <3>3 DEF OneAfterTheOther
  <2>. QED
    BY <2>1, <2>5, <2>6, <2>7 DEF OneAfterTheOther
<1>4. CASE Flush \/ ReadNext \/ UNCHANGED vars
  BY <1>4 DEF Flush, ReadNext, StartReading, ReadPage, EndReading, vars, callVars,
     OneAfterTheOther, IsLatest, Recorded
<1>5. CASE overlap'
  BY <1>5 DEF OneAfterTheOther
<1>. QED
  BY <1>1, <1>2, <1>3, <1>4, <1>5 DEF Next, CallNext

\* What is in u \o v is in one of the two.
FromEither(c, u, v) ==
    \A k \in DOMAIN c : (\E m \in DOMAIN u : c[k] = u[m]) \/ (\E m \in DOMAIN v : c[k] = v[m])

LEMMA ConcatHolds ==
    ASSUME NEW u \in Seq(Rows), NEW v \in Seq(Rows), NEW c, c = u \o v
    PROVE  FromEither(c, u, v)
<1> SUFFICES ASSUME NEW k \in DOMAIN c
             PROVE  (\E m \in DOMAIN u : c[k] = u[m]) \/ (\E m \in DOMAIN v : c[k] = v[m])
  BY DEF FromEither
<1>1. /\ Len(u) \in Nat /\ Len(v) \in Nat /\ DOMAIN u = 1..Len(u) /\ DOMAIN v = 1..Len(v)
      /\ c \in Seq(Rows) /\ Len(c) = Len(u) + Len(v)
      /\ \A j \in 1..(Len(u) + Len(v)) : c[j] = IF j <= Len(u) THEN u[j] ELSE v[j - Len(u)]
  BY ConcatProperties, LenProperties
<1>2. DOMAIN c = 1..(Len(u) + Len(v))
  BY <1>1, LenProperties
<1>3. CASE k <= Len(u)
  <2>1. k \in DOMAIN u /\ c[k] = u[k]
    BY <1>1, <1>2, <1>3
  <2>. QED
    BY <2>1
<1>4. CASE ~(k <= Len(u))
  <2>1. k - Len(u) \in DOMAIN v /\ c[k] = v[k - Len(u)]
    BY <1>1, <1>2, <1>4
  <2>. QED
    BY <2>1
<1>. QED
  BY <1>3, <1>4

\* The reader.
LEMMA SeenStep == ASSUME IInv, [Next]_vars PROVE SeenMatch'
<1>1. CASE CallNext \/ Flush \/ EndReading \/ UNCHANGED vars
  BY <1>1 DEF CallNext, Begin, Emit, Skip, Hook, Flush, EndReading, vars, readVars, IInv, SeenMatch
<1>2. CASE StartReading
  <2>1. seen' = <<>>
    BY <1>2 DEF StartReading, IInv, PagesCover
  <2>. QED
    BY <2>1 DEF SeenMatch
<1>3. CASE ReadPage
  <2>1. PICK s \in Listings(backend, table, filter) :
          seen' = seen \o Page(table, s, PageSize, offset)
    BY <1>3 DEF ReadPage
  <2> DEFINE page == Page(table, s, PageSize, offset)
  <2>2. /\ seen \in Seq(Rows) /\ table \in Seq(Rows) /\ PageSize \in Nat /\ offset \in Nat
    BY DEF IInv, TypeOK
  <2>3. /\ page \in Seq(Rows)
        /\ \A m \in DOMAIN page : \E j \in Hits(backend, table, filter) : page[m] = table[j]
    <3>1. HoldsItsRows(page, backend, table, filter, PageSize, offset)
      BY <2>2, PageHolds
    <3>. QED
      BY <3>1 DEF HoldsItsRows
  <2>. HIDE DEF page
  <2>4. seen' = seen \o page
    BY <2>1 DEF page
  <2>5. \A k \in DOMAIN seen' :
          (\E m \in DOMAIN seen : seen'[k] = seen[m]) \/ (\E m \in DOMAIN page : seen'[k] = page[m])
    <3>1. FromEither(seen', seen, page)
      BY <2>2, <2>3, <2>4, ConcatHolds
    <3>. QED
      BY <3>1 DEF FromEither
  <2>6. UNCHANGED <<backend, filter>>
    BY <1>3 DEF ReadPage
  <2>7. \A k \in DOMAIN seen' : Matches(backend, seen'[k], filter)
    BY <2>3, <2>5 DEF IInv, SeenMatch, Hits
  <2>. QED
    BY <2>6, <2>7 DEF SeenMatch
<1>. QED
  BY <1>1, <1>2, <1>3 DEF Next, ReadNext

\* Rows that are added meanwhile push others back, never forward.
LEMMA CoverFlush == ASSUME IInv, Flush PROVE PagesCover'
<1>1. /\ UNCHANGED readVars /\ table \in Seq(Rows) /\ Len(table) \in Nat /\ offset \in Nat
      /\ atStart \in 0..Len(table)
  BY LenProperties DEF Flush, IInv, TypeOK
<1>2. CASE table' = table
  BY <1>1, <1>2 DEF readVars, IInv, PagesCover, Determined, Caught
<1>3. ASSUME NEW t \in Times, table' = Append(table, [Head(queue) EXCEPT !.at = t])
      PROVE  PagesCover'
  <2> DEFINE row == [Head(queue) EXCEPT !.at = t]
  <2>1. row \in Rows
    <3>1. Head(queue) \in Rows
      BY HeadTailProperties DEF Flush, IInv, TypeOK
    <3>. QED
      BY <3>1 DEF Rows
  <2>. HIDE DEF row
  <2>2. /\ table' \in Seq(Rows) /\ DOMAIN table = 1..Len(table)
        /\ \A i \in 1..Len(table) : i \in DOMAIN table' /\ table'[i] = table[i]
    <3>1. table' \in Seq(Rows) /\ Len(table') = Len(table) + 1
          /\ \A i \in 1..Len(table) : table'[i] = table[i]
      BY <1>1, <1>3, <2>1, AppendProperties DEF row
    <3>. QED
      BY <1>1, <3>1, LenProperties
  <2>3. Determined(backend, table') => Determined(backend, table)
    BY <2>2 DEF Determined
  <2>4. ASSUME NEW i \in Hits(backend, table', filter), i <= atStart
        PROVE  /\ i \in Hits(backend, table, filter) /\ table'[i] = table[i]
               /\ Rank(backend, table', filter, i) < offset =>
                     Rank(backend, table, filter, i) < offset
    <3>1. i \in 1..Len(table)
      <4>1. i \in 1..Len(table')
        BY <2>2, HitsAreFinite
      <4>2. Len(table') \in Nat
        BY <2>2, LenProperties
      <4>. QED
        BY <1>1, <2>4, <4>1, <4>2
    <3>2. table' = Append(table, row)
      BY <1>3 DEF row
    <3>3. /\ table'[i] = table[i] /\ i \in Hits(backend, table, filter)
          /\ Rank(backend, table, filter, i) \in Nat /\ Rank(backend, table', filter, i) \in Nat
          /\ Rank(backend, table, filter, i) <= Rank(backend, table', filter, i)
      <4>1. MovedBack(backend, table, table', filter, i)
        BY <1>1, <2>1, <2>4, <3>1, <3>2, RankGrows
      <4>. QED
        BY <4>1 DEF MovedBack
    <3>. QED
      BY <1>1, <3>3
  <2>. QED
    BY <1>1, <2>3, <2>4 DEF readVars, IInv, PagesCover, Caught
<1>. QED
  BY <1>2, <1>3 DEF Flush

\* A page brings the rows that are next by their rank.
LEMMA CoverPage == ASSUME IInv, ReadPage PROVE PagesCover'
<1>1. PICK s \in Listings(backend, table, filter) :
        seen' = seen \o Page(table, s, PageSize, offset)
  BY DEF ReadPage
<1> DEFINE page == Page(table, s, PageSize, offset)
<1>2. /\ rpc = "paging" /\ offset' = offset + PageSize
      /\ UNCHANGED <<table, rpc, filter, backend, atStart>>
      /\ seen \in Seq(Rows) /\ table \in Seq(Rows) /\ PageSize \in Nat /\ offset \in Nat
  BY DEF ReadPage, IInv, TypeOK
<1>3. /\ page \in Seq(Rows)
      /\ \A j \in Hits(backend, table, filter) :
           /\ Determined(backend, table) /\ table[j].readable
           /\ offset <= Rank(backend, table, filter, j)
           /\ Rank(backend, table, filter, j) < offset + PageSize
           => \E m \in DOMAIN page : page[m] = table[j]
  <2>1. HoldsItsRows(page, backend, table, filter, PageSize, offset)
    BY <1>2, PageHolds
  <2>. HIDE DEF page
  <2>. QED
    BY <2>1 DEF HoldsItsRows
<1>. HIDE DEF page
<1>4. /\ \A k \in DOMAIN seen : k \in DOMAIN seen' /\ seen'[k] = seen[k]
      /\ \A m \in DOMAIN page : \E k \in DOMAIN seen' : seen'[k] = page[m]
  <2>1. /\ Len(seen) \in Nat /\ Len(page) \in Nat /\ seen' \in Seq(Rows)
        /\ DOMAIN seen = 1..Len(seen) /\ DOMAIN page = 1..Len(page)
        /\ Len(seen') = Len(seen) + Len(page)
        /\ \A k \in 1..(Len(seen) + Len(page)) :
             seen'[k] = IF k <= Len(seen) THEN seen[k] ELSE page[k - Len(seen)]
    BY <1>1, <1>2, <1>3, ConcatProperties, LenProperties DEF page
  <2>2. DOMAIN seen' = 1..(Len(seen) + Len(page))
    BY <2>1, LenProperties
  <2>3. ASSUME NEW m \in DOMAIN page PROVE \E k \in DOMAIN seen' : seen'[k] = page[m]
    <3>1. /\ Len(seen) + m \in 1..(Len(seen) + Len(page)) /\ ~(Len(seen) + m <= Len(seen))
          /\ (Len(seen) + m) - Len(seen) = m
      BY <2>1
    <3>. QED
      BY <2>1, <2>2, <3>1
  <2>. QED
    BY <2>1, <2>2, <2>3
<1>5. ASSUME NEW i \in Hits(backend, table, filter), Determined(backend, table),
             i <= atStart, table[i].readable, Rank(backend, table, filter, i) < offset + PageSize
      PROVE  \E k \in DOMAIN seen' : seen'[k].id = table[i].id
  <2>1. Rank(backend, table, filter, i) \in Nat
    BY <1>2, RankBelowCount
  <2>2. CASE Rank(backend, table, filter, i) < offset
    <3>1. Caught(i)
      BY <1>2, <1>5, <2>2 DEF IInv, PagesCover
    <3>. QED
      BY <1>4, <3>1 DEF Caught
  <2>3. CASE offset <= Rank(backend, table, filter, i)
    <3>1. PICK m \in DOMAIN page : page[m] = table[i]
      BY <1>3, <1>5, <2>3
    <3>. QED
      BY <1>4, <3>1
  <2>. QED
    BY <1>2, <2>1, <2>2, <2>3
<1>. QED
  BY <1>2, <1>5 DEF PagesCover, Caught

LEMMA CoverStep == ASSUME IInv, [Next]_vars PROVE PagesCover'
<1>1. CASE CallNext \/ UNCHANGED vars
  <2>1. UNCHANGED <<table, rpc, filter, backend, offset, seen, atStart>>
    BY <1>1 DEF CallNext, Begin, Emit, Skip, Hook, vars, readVars
  <2>. QED
    BY <2>1 DEF IInv, PagesCover, Caught, Determined
<1>2. CASE StartReading
  <2>1. rpc' = "paging" /\ offset' = 0 /\ UNCHANGED <<table>> /\ table \in Seq(Rows)
    BY <1>2 DEF StartReading, IInv, PagesCover, TypeOK
  <2>2. \A i \in Hits(backend', table, filter') :
          Rank(backend', table, filter', i) \in Nat /\ ~(Rank(backend', table, filter', i) < 0)
    BY <2>1, RankBelowCount
  <2>. QED
    BY <2>1, <2>2 DEF PagesCover
<1>3. CASE EndReading
  <2>1. /\ rpc = "paging" /\ rpc' = "done" /\ offset >= CountEvents(backend, table, filter)
        /\ UNCHANGED <<table, filter, backend, offset, seen, atStart>>
        /\ table \in Seq(Rows) /\ offset \in Nat
    BY <1>3 DEF EndReading, IInv, TypeOK
  <2>2. \A i \in Hits(backend, table, filter) : Rank(backend, table, filter, i) < offset
    <3>1. TAKE i \in Hits(backend, table, filter)
    <3>2. /\ Rank(backend, table, filter, i) \in Nat
          /\ Rank(backend, table, filter, i) < CountEvents(backend, table, filter)
          /\ CountEvents(backend, table, filter) \in Nat
      BY <2>1, RankBelowCount, HitsAreFinite
    <3>. QED
      BY <2>1, <3>2
  <2>. QED
    BY <2>1, <2>2 DEF IInv, PagesCover, Caught, Determined
<1>. QED
  BY <1>1, <1>2, <1>3, CoverFlush, CoverPage DEF Next, ReadNext

\* Appending and taking away keep the links pointing back.
LEMMA PointsBackAppend ==
    ASSUME NEW rows \in Seq(Rows), NEW row \in Rows, PointsBack(rows), row.parent < row.id
    PROVE  PointsBack(Append(rows, row))
<1> DEFINE more == Append(rows, row)
<1>1. /\ more \in Seq(Rows) /\ Len(more) = Len(rows) + 1 /\ more[Len(rows) + 1] = row
      /\ \A k \in 1..Len(rows) : more[k] = rows[k]
  BY AppendProperties
<1>2. Len(rows) \in Nat /\ DOMAIN rows = 1..Len(rows) /\ DOMAIN more = 1..Len(more)
  BY <1>1, LenProperties
<1>. HIDE DEF more
<1>3. \A k \in DOMAIN more : more[k].parent < more[k].id
  <2>1. SUFFICES ASSUME NEW m \in DOMAIN more PROVE more[m].parent < more[m].id
    OBVIOUS
  <2>2. m \in DOMAIN rows \/ m = Len(rows) + 1
    BY <1>1, <1>2
  <2>3. CASE m \in DOMAIN rows
    BY <1>1, <1>2, <2>3 DEF PointsBack
  <2>. QED
    BY <1>1, <2>2, <2>3
<1>. QED
  BY <1>3 DEF PointsBack, more

\* The calls, what they emit, the table and what is read of it.
LEMMA PointsBackStep == ASSUME IInv, [Next]_vars PROVE EventsPointBack'
<1>0. /\ queue \in Seq(Rows) /\ table \in Seq(Rows) /\ seen \in Seq(Rows)
      /\ \A c \in Calls : parent[c] < c /\ c \in Nat
      /\ PointsBack(queue) /\ PointsBack(table) /\ PointsBack(seen)
      /\ parent \in [Calls -> Calls \cup {0}] /\ offset \in Nat
  BY DEF IInv, TypeOK, EventsPointBack
<1>1. ASSUME NEW c \in Calls, Begin(c) PROVE EventsPointBack'
  <2>1. last < c
    <3>1. last = 0 \/ (last \in Calls /\ pc[last] = "done" /\ pc[c] = "new")
      BY <1>1 DEF Begin, Goes, IInv, TypeOK, ChainPointsBack
    <3>2. last \in Calls /\ pc[last] = "done" /\ pc[c] = "new" => last # c /\ ~(c < last)
      BY DEF IInv, ChainPointsBack
    <3>3. c \in Nat /\ c # 0 /\ (last \in Calls => last \in Nat)
      BY <1>0
    <3>. QED
      BY <3>1, <3>2, <3>3
  <2>2. \A d \in Calls : parent'[d] < d
    BY <1>0, <1>1, <2>1 DEF Begin
  <2>. QED
    BY <1>0, <1>1, <2>2 DEF Begin, readVars, EventsPointBack
<1>2. ASSUME NEW c \in Calls, Emit(c) PROVE EventsPointBack'
  <2>1. PICK row \in Rows : queue' = Append(queue, row) /\ row.id = c /\ row.parent = parent[c]
    <3>1. TypeOK
      BY DEF IInv
    <3>. QED
      BY <1>2, <3>1, EmittedRow
  <2>2. PointsBack(queue')
    BY <1>0, <2>1, PointsBackAppend
  <2>. QED
    BY <1>0, <1>2, <2>2 DEF Emit, readVars, EventsPointBack
<1>3. CASE Flush
  <2>1. queue # <<>> /\ queue' = Tail(queue) /\ UNCHANGED <<callVars, readVars>>
    BY <1>3 DEF Flush
  <2>2. /\ Head(queue) \in Rows /\ Head(queue) = queue[1] /\ 1 \in DOMAIN queue
        /\ \A k \in DOMAIN Tail(queue) : k + 1 \in DOMAIN queue /\ Tail(queue)[k] = queue[k + 1]
    <3>1. /\ Head(queue) \in Rows /\ Tail(queue) \in Seq(Rows) /\ Len(Tail(queue)) = Len(queue) - 1
          /\ \A k \in 1..Len(Tail(queue)) : Tail(queue)[k] = queue[k + 1]
      BY <1>0, <2>1, HeadTailProperties
    <3>2. /\ Len(queue) \in Nat \ {0} /\ DOMAIN queue = 1..Len(queue)
          /\ DOMAIN Tail(queue) = 1..Len(Tail(queue))
      BY <1>0, <2>1, <3>1, EmptySeq, LenProperties
    <3>. QED
      BY <3>1, <3>2
  <2>3. PointsBack(queue')
    BY <1>0, <2>1, <2>2 DEF PointsBack
  <2>4. PointsBack(table')
    <3>1. ASSUME NEW t \in Times, table' = Append(table, [Head(queue) EXCEPT !.at = t])
          PROVE  PointsBack(table')
      <4> DEFINE row == [Head(queue) EXCEPT !.at = t]
      <4>1. row \in Rows /\ row.parent = Head(queue).parent /\ row.id = Head(queue).id
        BY <2>2 DEF Rows
      <4>2. row.parent < row.id
        BY <1>0, <2>2, <4>1 DEF PointsBack
      <4>. HIDE DEF row
      <4>. QED
        BY <1>0, <3>1, <4>1, <4>2, PointsBackAppend DEF row
    <3>. QED
      BY <1>0, <1>3, <3>1 DEF Flush
  <2>. QED
    BY <1>0, <2>1, <2>3, <2>4 DEF callVars, readVars, EventsPointBack
<1>4. CASE ReadPage
  <2>1. PICK s \in Listings(backend, table, filter) :
          seen' = seen \o Page(table, s, PageSize, offset)
    BY <1>4 DEF ReadPage
  <2> DEFINE page == Page(table, s, PageSize, offset)
  <2>2. /\ page \in Seq(Rows)
        /\ \A m \in DOMAIN page : \E j \in Hits(backend, table, filter) : page[m] = table[j]
    <3>1. HoldsItsRows(page, backend, table, filter, PageSize, offset)
      BY <1>0, PageHolds
    <3>. QED
      BY <3>1 DEF HoldsItsRows
  <2>. HIDE DEF page
  <2>3. \A k \in DOMAIN seen' :
          (\E m \in DOMAIN seen : seen'[k] = seen[m]) \/ (\E m \in DOMAIN page : seen'[k] = page[m])
    <3>1. seen' = seen \o page
      BY <2>1 DEF page
    <3>. QED
      <4>1. FromEither(seen', seen, page)
        BY <1>0, <2>2, <3>1, ConcatHolds
      <4>. QED
        BY <4>1 DEF FromEither
  <2>4. PointsBack(seen')
    BY <1>0, <2>2, <2>3 DEF PointsBack, Hits
  <2>. QED
    BY <1>0, <1>4, <2>4 DEF ReadPage, callVars, EventsPointBack
<1>5. CASE StartReading \/ EndReading \/ UNCHANGED vars
  BY <1>0, <1>5 DEF StartReading, EndReading, vars, callVars, readVars, EventsPointBack
<1>6. ASSUME NEW c \in Calls, Skip(c) \/ Hook(c) PROVE EventsPointBack'
  BY <1>0, <1>6 DEF Skip, Hook, readVars, EventsPointBack
<1>. QED
  BY <1>1, <1>2, <1>3, <1>4, <1>5, <1>6 DEF Next, CallNext, ReadNext

\* Every state satisfies the inductive invariant.
THEOREM InductiveInvariant == Spec => []IInv
<1>1. ASSUME IInv, [Next]_vars PROVE IInv'
  BY <1>1, TypeStep, ChainStep, SequenceStep, SeenStep, CoverStep, PointsBackStep DEF IInv
<1>. QED
  BY <1>1, InitInv, PTL DEF Spec

\* Every variable of the trace, the table and the reader has its type (TypeOK).
THEOREM TypeCorrect == Spec => []TypeOK
<1>1. IInv => TypeOK
  BY DEF IInv
<1>. QED
  BY <1>1, InductiveInvariant, PTL

\* However the calls of a chain overlap, a call's parent has emitted its event
\* before the call begins (ParentPrecedes).
THEOREM ParentsComeFirst == Spec => []ParentPrecedes
<1>1. IInv => ParentPrecedes
  BY DEF IInv, ChainPointsBack, ParentPrecedes
<1>. QED
  BY <1>1, InductiveInvariant, PTL

\* Of calls made one after the other, each names the last one that succeeded
\* (SequentialIsAChain).
THEOREM SequentialCallsAreAChain == Spec => []SequentialIsAChain
<1>1. ASSUME IInv PROVE SequentialIsAChain
  <2>1. SUFFICES ASSUME ~overlap, NEW c \in Calls, corr[c] = Own, pc[c] # "new"
                 PROVE  LET earlier == {d \in Calls : d < c /\ corr[d] \in {NoCorr, Own}
                                                     /\ pc[d] \in {"emitted", "done"}}
                        IN  parent[c] = IF earlier = {} THEN 0
                                        ELSE CHOOSE d \in earlier : \A e \in earlier : e <= d
    BY DEF SequentialIsAChain
  <2> DEFINE earlier == {d \in Calls : d < c /\ corr[d] \in {NoCorr, Own}
                                      /\ pc[d] \in {"emitted", "done"}}
  <2>2. earlier = {d \in Recorded : d < c}
    BY <1>1, <2>1 DEF IInv, OneAfterTheOther, Recorded
  <2>3. IsLatest(parent[c], earlier)
    BY <1>1, <2>1, <2>2 DEF IInv, OneAfterTheOther
  <2>4. \A d \in earlier : d \in Nat
    OBVIOUS
  <2>. HIDE DEF earlier
  <2>5. CASE earlier = {}
    BY <2>3, <2>5 DEF IsLatest, earlier
  <2>6. CASE earlier # {}
    <3>1. parent[c] \in earlier /\ \A e \in earlier : e <= parent[c]
      BY <2>3, <2>6 DEF IsLatest
    <3>2. \A d \in earlier : (\A e \in earlier : e <= d) => d = parent[c]
      BY <2>4, <3>1
    <3>3. parent[c] = CHOOSE d \in earlier : \A e \in earlier : e <= d
      BY <3>1, <3>2
    <3>. QED
      BY <2>6, <3>3 DEF earlier
  <2>. QED
    BY <2>5, <2>6
<1>. QED
  BY <1>1, InductiveInvariant, PTL

----------------------------------------------------------------------------
(* What the reader sees. *)

\* A filter whose bounds are written in UTC.
InUTC(f) == \A w \in {f.since, f.until} : w # Never => w \in [at : Int, zone : {0}]

\* In UTC, texts are in the order of the instants, so the filter of either store
\* matches what is wanted.
LEMMA TextIsTime ==
    ASSUME NEW b, NEW v \in [at : Int, zone : {0}], NEW w \in [at : Int, zone : {0}]
    PROVE  NotAfter(b, v, w) <=> v.at <= w.at
BY DEF NotAfter, TextBefore, ZoneRank

LEMMA MatchesAreWanted ==
    ASSUME NEW row \in Rows, InUTC(filter)
    PROVE  Matches(backend, row, filter) <=> Wanted(row)
<1>1. Stamp(row) \in [at : Int, zone : {0}] /\ Stamp(row).at = row.at
  BY DEF Stamp, Rows
<1>2. filter.since # Never =>
        (NotAfter(backend, filter.since, Stamp(row)) <=> filter.since.at <= row.at)
  BY <1>1, TextIsTime DEF InUTC
<1>3. filter.until # Never =>
        (NotAfter(backend, Stamp(row), filter.until) <=> row.at <= filter.until.at)
  BY <1>1, TextIsTime DEF InUTC
<1>. QED
  BY <1>2, <1>3 DEF Matches, Wanted

\* With bounds in UTC, `leanllm logs` shows the events of its window and no
\* others, and skips none that was there at the start (LogsShowWindow).
THEOREM LogsShowTheirWindow ==
    ASSUME \A f \in Filters : InUTC(f)
    PROVE  Spec => []LogsShowWindow
<1>1. ASSUME IInv PROVE LogsShowWindow
  <2>1. InUTC(filter) /\ table \in Seq(Rows) /\ seen \in Seq(Rows) /\ atStart \in 0..Len(table)
    BY <1>1 DEF IInv, TypeOK
  <2>2. OnlyWanted
    <3>1. \A k \in DOMAIN seen : seen[k] \in Rows
      BY <2>1, ElementOfSeq
    <3>. QED
      BY <1>1, <2>1, <3>1, MatchesAreWanted DEF IInv, SeenMatch, OnlyWanted
  <2>3. NothingSkipped
    <3>1. SUFFICES ASSUME rpc = "done", Determined(backend, table), NEW i \in 1..atStart,
                          Wanted(table[i]), table[i].readable
                   PROVE  Caught(i)
      BY DEF NothingSkipped, Determined, Caught
    <3>2. i \in DOMAIN table /\ table[i] \in Rows /\ i <= atStart
      <4>1. Len(table) \in Nat /\ DOMAIN table = 1..Len(table)
        BY <2>1, LenProperties
      <4>2. i \in 1..Len(table)
        BY <2>1, <4>1
      <4>. QED
        BY <2>1, <4>1, <4>2, ElementOfSeq
    <3>3. i \in Hits(backend, table, filter)
      BY <2>1, <3>1, <3>2, MatchesAreWanted DEF Hits
    <3>. QED
      BY <1>1, <3>1, <3>2, <3>3 DEF IInv, PagesCover
  <2>. QED
    BY <2>2, <2>3 DEF LogsShowWindow
<1>. QED
  BY <1>1, InductiveInvariant, PTL

----------------------------------------------------------------------------
(* The graph of what was read. *)

\* Every event that was read is in the graph; unless one was read twice, each is
\* there once and its cost counts once, and otherwise the total is too high: a
\* chain closes no cycle that would be lost (GraphHoldsAll).
THEOREM GraphLosesNothing == Spec => []GraphHoldsAll
<1>1. ASSUME IInv PROVE GraphHoldsAll
  <2> DEFINE places == {i \in DOMAIN seen : seen[i].corr = Own}
             g == Pick(seen, places)
  <2>1. seen \in Seq(Rows) /\ \A i \in DOMAIN seen : seen[i].parent < seen[i].id
    BY <1>1 DEF IInv, TypeOK, EventsPointBack, PointsBack
  <2>2. GroupOf(seen, Own) = g
    BY DEF GroupOf
  <2>3. g \in Seq(Rows) /\ \A m \in DOMAIN g : \E i \in DOMAIN seen : g[m] = seen[i]
    <3>. HIDE DEF places
    <3>1. g \in Seq(Rows) /\ Holds(g, seen, places)
      BY <2>1, PickRows
    <3>. HIDE DEF g
    <3>. QED
      BY <3>1 DEF Holds
  <2>. HIDE DEF g
  <2>4. Linked(g)
    BY <2>1, <2>3 DEF Linked
  <2>. QED
    BY <2>2, <2>4, GraphIsWhole DEF GraphHoldsAll
<1>. QED
  BY <1>1, InductiveInvariant, PTL
=============================================================================
