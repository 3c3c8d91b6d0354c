----------------------------- MODULE DataProofs -----------------------------
(***************************************************************************)
(* Lemmas about data: numbers, sums, and sequences of stages.  They say    *)
(* what SumTo computes and how it changes when the values do, and what     *)
(* Staged leaves.  The library's induction theorems take an operator       *)
(* parameter; here induction is done over sets of naturals, from the       *)
(* well-foundedness of < on Nat.                                           *)
(***************************************************************************)
EXTENDS Sums, Staging, WellFoundedInduction, TLAPS

(* Every non-empty set of naturals has a least element. *)
LEMMA LeastNatural ==
  ASSUME NEW T, T \subseteq Nat, T # {}
  PROVE  \E x \in T : \A y \in T : x <= y
<1>1. \E x \in T : \A y \in T : ~ (<<y, x>> \in OpToRel(<, Nat))
  BY NatLessThanWellFounded, WFMin
<1>2. PICK x \in T : \A y \in T : ~ (<<y, x>> \in OpToRel(<, Nat))
  BY <1>1
<1>3. ASSUME NEW y \in T PROVE x <= y
  <2>1. <<y, x>> \notin OpToRel(<, Nat)
    BY <1>2
  <2>2. ~ (y < x)
    BY <2>1 DEF OpToRel
  <2> QED
    BY <2>2
<1> QED
  BY <1>3

(* Induction, with the property given as the set of numbers that have it. *)
LEMMA NatSetInduction ==
  ASSUME NEW S, 0 \in S, \A n \in Nat : n \in S => n + 1 \in S
  PROVE  Nat \subseteq S
<1> DEFINE T == Nat \ S
<1>1. SUFFICES ASSUME T # {} PROVE FALSE
  OBVIOUS
<1>2. T \subseteq Nat
  OBVIOUS
<1>3. PICK x \in T : \A y \in T : x <= y
  <2> HIDE DEF T
  <2> QED
    BY <1>1, <1>2, LeastNatural
<1>4. x # 0 /\ x - 1 \in Nat /\ (x - 1) + 1 = x
  OBVIOUS
<1>5. x - 1 \notin T
  BY <1>3, <1>4
<1> QED
  BY <1>4, <1>5

(* The same up to a bound. *)
LEMMA UpToInduction ==
  ASSUME NEW S, NEW n \in Nat, 0 \in S,
         \A i \in Nat : i < n /\ i \in S => i + 1 \in S
  PROVE  \A i \in 0..n : i \in S
<1> DEFINE U == {i \in Nat : i <= n => i \in S}
<1>1. 0 \in U /\ \A i \in Nat : i \in U => i + 1 \in U
  OBVIOUS
<1>2. Nat \subseteq U
  <2> HIDE DEF U
  <2> QED
    BY <1>1, NatSetInduction
<1> QED
  BY <1>2

(* g is a solution of the recursive definition of PartialSums.              *)
Step(g, f, n) == g = [i \in 0..n |-> IF i = 0 THEN 0 ELSE g[i-1] + f[i]]

(* The recursive definition of PartialSums has a solution. *)
LEMMA PartialSumsExist ==
  ASSUME NEW f, NEW m \in Nat
  PROVE  \E g : Step(g, f, m)
<1> DEFINE S == {n \in Nat : \E g : Step(g, f, n)}
<1>1. 0 \in S
  <2>1. Step([i \in 0..0 |-> 0], f, 0)
    BY DEF Step
  <2> QED
    BY <2>1
<1>2. ASSUME NEW n \in Nat, n \in S PROVE n + 1 \in S
  <2>1. PICK g : Step(g, f, n)
    BY <1>2
  <2> DEFINE h == [i \in 0..n+1 |-> IF i = n + 1 THEN g[n] + f[n+1] ELSE g[i]]
  <2>2. ASSUME NEW i \in 0..n+1 
        PROVE  h[i] = IF i = 0 THEN 0 ELSE h[i-1] + f[i]
    BY <2>1 DEF Step
  <2>3. Step(h, f, n + 1)
    BY <2>2 DEF Step
  <2> QED
    BY <2>3
<1>3. Nat \subseteq S
  <2> HIDE DEF S
  <2> QED
    BY <1>1, <1>2, NatSetInduction
<1> QED
  BY <1>3

(* What PartialSums is: the partial sums, of integers. *)
LEMMA PartialSumsDef ==
  ASSUME NEW n \in Nat, NEW f \in [1..n -> Int]
  PROVE  /\ PartialSums(f, n) \in [0..n -> Int]
         /\ PartialSums(f, n)[0] = 0
         /\ \A i \in 1..n : PartialSums(f, n)[i] = PartialSums(f, n)[i-1] + f[i]
<1> DEFINE g == PartialSums(f, n)
<1>1. g = CHOOSE h : Step(h, f, n)
  BY DEF PartialSums, Step
<1>2. Step(g, f, n)
  BY <1>1, PartialSumsExist
<1>3. g = [i \in 0..n |-> IF i = 0 THEN 0 ELSE g[i-1] + f[i]]
  BY <1>2 DEF Step
<1> HIDE DEF g
<1>4. g[0] = 0 /\ \A i \in 1..n : g[i] = g[i-1] + f[i]
  BY <1>3
<1>5. \A i \in 0..n : i \in {j \in Nat : g[j] \in Int}
  <2> DEFINE S == {j \in Nat : g[j] \in Int}
  <2>1. 0 \in S
    BY <1>4
  <2>2. ASSUME NEW i \in Nat, i < n, i \in S PROVE i + 1 \in S
    <3>1. i + 1 \in 1..n /\ (i + 1) - 1 = i
      BY <2>2
    <3>2. g[i+1] = g[i] + f[i+1]
      BY <1>4, <3>1
    <3> QED
      BY <3>1, <3>2, <2>2
  <2> HIDE DEF S
  <2>3. \A i \in 0..n : i \in S
    BY <2>1, <2>2, UpToInduction
  <2> QED
    BY <2>3 DEF S
<1> QED
  BY <1>3, <1>4, <1>5 DEF g

-----------------------------------------------------------------------------
(* A sum of integers is an integer. *)
LEMMA SumType ==
  ASSUME NEW n \in Nat, NEW f \in [1..n -> Int]
  PROVE  SumTo(f, n) \in Int
BY PartialSumsDef DEF SumTo

(* The empty sum, and a sum of zeros, is zero. *)
LEMMA SumZero ==
  ASSUME NEW n \in Nat, NEW f \in [1..n -> Int], \A i \in 1..n : f[i] = 0
  PROVE  SumTo(f, n) = 0
<1> DEFINE g == PartialSums(f, n)
           S == {j \in Nat : g[j] = 0}
<1>1. /\ g[0] = 0
      /\ \A i \in 1..n : g[i] = g[i-1] + f[i]
  BY PartialSumsDef
<1>2. 0 \in S
  BY <1>1
<1>3. ASSUME NEW i \in Nat, i < n, i \in S PROVE i + 1 \in S
  <2>1. i + 1 \in 1..n /\ (i + 1) - 1 = i
    BY <1>3
  <2> QED
    BY <1>1, <1>3, <2>1
<1> HIDE DEF S
<1>4. \A i \in 0..n : i \in S
  BY <1>2, <1>3, UpToInduction
<1> QED
  BY <1>4 DEF S, SumTo

(* Three running sums that agree at 0 and at every step agree at the end.  *)
LEMMA RunningSums ==
  ASSUME NEW n \in Nat, NEW P \in [0..n -> Int], NEW Q \in [0..n -> Int],
         NEW A \in [0..n -> Int], Q[0] = P[0] + A[0],
         \A i \in 1..n : Q[i-1] = P[i-1] + A[i-1] => Q[i] = P[i] + A[i]
  PROVE  Q[n] = P[n] + A[n]
<1> DEFINE S == {j \in Nat : Q[j] = P[j] + A[j]}
<1>1. 0 \in S
  OBVIOUS
<1>2. ASSUME NEW i \in Nat, i < n, i \in S PROVE i + 1 \in S
  <2>1. i + 1 \in 1..n /\ (i + 1) - 1 = i
    BY <1>2
  <2> QED
    BY <1>2, <2>1
<1> HIDE DEF S
<1>3. \A i \in 0..n : i \in S
  BY <1>1, <1>2, UpToInduction
<1> QED
  BY <1>3 DEF S

(* Changing one value changes the sum by the same amount: what an atomic   *)
(* increment of one row does to a total.                                   *)
LEMMA SumChange ==
  ASSUME NEW n \in Nat, NEW f \in [1..n -> Int], NEW h \in [1..n -> Int],
         NEW k \in 1..n, \A i \in 1..n : i # k => h[i] = f[i]
  PROVE  SumTo(h, n) = SumTo(f, n) + (h[k] - f[k])
<1>1. PICK P \in [0..n -> Int] :
        P[0] = 0 /\ P[n] = SumTo(f, n) /\ \A i \in 1..n : P[i] = P[i-1] + f[i]
  BY PartialSumsDef DEF SumTo
<1>2. PICK Q \in [0..n -> Int] :
        Q[0] = 0 /\ Q[n] = SumTo(h, n) /\ \A i \in 1..n : Q[i] = Q[i-1] + h[i]
  BY PartialSumsDef DEF SumTo
<1>3. k \in Nat \ {0} /\ f[k] \in Int /\ h[k] \in Int
  OBVIOUS
<1>4. PICK A \in [0..n -> Int] :
        A = [j \in 0..n |-> IF j < k THEN 0 ELSE h[k] - f[k]]
  <2> DEFINE B == [j \in 0..n |-> IF j < k THEN 0 ELSE h[k] - f[k]]
  <2>1. B \in [0..n -> Int]
    BY <1>3
  <2> QED
    BY <2>1
<1>5. A[0] = 0 /\ A[n] = h[k] - f[k]
  BY <1>3, <1>4
<1>6. ASSUME NEW i \in 1..n PROVE A[i] = A[i-1] + (h[i] - f[i])
  <2>1. CASE i = k
    <3>1. A[i-1] = 0 /\ A[i] = h[k] - f[k]
      BY <1>4, <2>1
    <3> QED
      BY <1>3, <2>1, <3>1
  <2>2. CASE i # k
    <3>1. A[i-1] = A[i] /\ A[i] \in Int /\ h[i] = f[i] /\ f[i] \in Int
      BY SMTT(30), <1>4, <1>5, <2>2
    <3> QED
      BY <3>1
  <2> QED
    BY <2>1, <2>2
<1>7. ASSUME NEW i \in 1..n, Q[i-1] = P[i-1] + A[i-1]
      PROVE  Q[i] = P[i] + A[i]
  <2>1. /\ P[i] = P[i-1] + f[i]
        /\ Q[i] = Q[i-1] + h[i]
        /\ A[i] = A[i-1] + (h[i] - f[i])
    BY <1>1, <1>2, <1>6
  <2>2. i - 1 \in 0..n /\ i \in 0..n
    OBVIOUS
  <2>3. /\ P[i-1] \in Int /\ Q[i-1] \in Int /\ A[i-1] \in Int
        /\ P[i] \in Int /\ Q[i] \in Int /\ A[i] \in Int
        /\ f[i] \in Int /\ h[i] \in Int
    BY <2>2
  <2>4. Q[i] = (P[i-1] + A[i-1]) + h[i]
    BY ONLY <1>7, <2>1
  <2>5. P[i] + A[i] = (P[i-1] + f[i]) + (A[i-1] + (h[i] - f[i]))
    BY ONLY <2>1
  <2> QED
    BY ONLY SMTT(30), <2>3, <2>4, <2>5
<1>8. Q[0] = P[0] + A[0]
  BY <1>1, <1>2, <1>5
<1>9. Q[n] = P[n] + A[n]
  BY <1>7, <1>8, RunningSums
<1> QED
  BY <1>1, <1>2, <1>5, <1>9

(* The sum of the differences is the difference of the sums.               *)
LEMMA SumDifference ==
  ASSUME NEW n \in Nat, NEW f \in [1..n -> Int], NEW h \in [1..n -> Int],
         NEW d \in [1..n -> Int], \A i \in 1..n : d[i] = f[i] - h[i]
  PROVE  SumTo(d, n) = SumTo(f, n) - SumTo(h, n)
<1>1. PICK P \in [0..n -> Int] :
        P[0] = 0 /\ P[n] = SumTo(h, n) /\ \A i \in 1..n : P[i] = P[i-1] + h[i]
  BY PartialSumsDef DEF SumTo
<1>2. PICK Q \in [0..n -> Int] :
        Q[0] = 0 /\ Q[n] = SumTo(f, n) /\ \A i \in 1..n : Q[i] = Q[i-1] + f[i]
  BY PartialSumsDef DEF SumTo
<1>3. PICK A \in [0..n -> Int] :
        A[0] = 0 /\ A[n] = SumTo(d, n) /\ \A i \in 1..n : A[i] = A[i-1] + d[i]
  BY PartialSumsDef DEF SumTo
<1>4. ASSUME NEW i \in 1..n, Q[i-1] = P[i-1] + A[i-1]
      PROVE  Q[i] = P[i] + A[i]
  <2>1. /\ P[i] = P[i-1] + h[i]
        /\ Q[i] = Q[i-1] + f[i]
        /\ A[i] = A[i-1] + d[i]
        /\ d[i] = f[i] - h[i]
    BY <1>1, <1>2, <1>3
  <2>2. P[i-1] \in Int /\ A[i-1] \in Int /\ f[i] \in Int /\ h[i] \in Int
    OBVIOUS
  <2> QED
    BY SMTT(30), <1>4, <2>1, <2>2
<1>5. Q[0] = P[0] + A[0]
  BY <1>1, <1>2, <1>3
<1>6. Q[n] = P[n] + A[n]
  BY <1>4, <1>5, RunningSums
<1>7. P[n] \in Int /\ A[n] \in Int
  OBVIOUS
<1> QED
  BY <1>1, <1>2, <1>3, <1>6, <1>7

(* Sums are monotone in their values.                                      *)
LEMMA SumMonotone ==
  ASSUME NEW n \in Nat, NEW f \in [1..n -> Int], NEW h \in [1..n -> Int],
         \A i \in 1..n : f[i] <= h[i]
  PROVE  SumTo(f, n) <= SumTo(h, n)
<1> DEFINE S == {j \in Nat : PartialSums(f, n)[j] <= PartialSums(h, n)[j]}
<1>1. /\ PartialSums(f, n) \in [0..n -> Int]
      /\ PartialSums(f, n)[0] = 0
      /\ \A i \in 1..n : PartialSums(f, n)[i] = PartialSums(f, n)[i-1] + f[i]
  BY PartialSumsDef
<1>2. /\ PartialSums(h, n) \in [0..n -> Int]
      /\ PartialSums(h, n)[0] = 0
      /\ \A i \in 1..n : PartialSums(h, n)[i] = PartialSums(h, n)[i-1] + h[i]
  BY PartialSumsDef
<1>3. 0 \in S
  BY <1>1, <1>2
<1>4. ASSUME NEW i \in Nat, i < n, i \in S PROVE i + 1 \in S
  <2>1. i \in 0..n /\ i + 1 \in 1..n /\ (i + 1) - 1 = i
    BY <1>4
  <2> QED
    BY <1>1, <1>2, <1>4, <2>1
<1> HIDE DEF S
<1>5. \A i \in 0..n : i \in S
  BY <1>3, <1>4, UpToInduction
<1> QED
  BY <1>5 DEF S, SumTo

(* The sum of the sums.                                                    *)
LEMMA SumAdd ==
  ASSUME NEW n \in Nat, NEW f \in [1..n -> Int], NEW h \in [1..n -> Int],
         NEW d \in [1..n -> Int], \A i \in 1..n : d[i] = f[i] + h[i]
  PROVE  SumTo(d, n) = SumTo(f, n) + SumTo(h, n)
<1>1. \A i \in 1..n : f[i] = d[i] - h[i]
  <2>1. \A i \in 1..n : f[i] \in Int /\ h[i] \in Int /\ d[i] \in Int
    OBVIOUS
  <2> QED
    BY <2>1
<1>2. SumTo(f, n) = SumTo(d, n) - SumTo(h, n)
  BY <1>1, SumDifference
<1>3. SumTo(f, n) \in Int /\ SumTo(h, n) \in Int /\ SumTo(d, n) \in Int
  BY SumType
<1> QED
  BY <1>2, <1>3

(* The sum of the opposites.                                               *)
LEMMA SumNegate ==
  ASSUME NEW n \in Nat, NEW f \in [1..n -> Int], NEW d \in [1..n -> Int],
         \A i \in 1..n : d[i] = - f[i]
  PROVE  SumTo(d, n) = - SumTo(f, n)
<1> DEFINE z == [i \in 1..n |-> 0]
<1>1. z \in [1..n -> Int] /\ \A i \in 1..n : z[i] = 0
  OBVIOUS
<1> HIDE DEF z
<1>2. SumTo(z, n) = 0
  BY <1>1, SumZero
<1>3. \A i \in 1..n : z[i] = f[i] + d[i]
  <2>1. \A i \in 1..n : f[i] \in Int /\ d[i] = - f[i] /\ z[i] = 0
    BY <1>1
  <2> QED
    BY <2>1
<1>4. SumTo(z, n) = SumTo(f, n) + SumTo(d, n)
  BY <1>1, <1>3, SumAdd
<1>5. SumTo(f, n) \in Int /\ SumTo(d, n) \in Int
  BY SumType
<1>6. 0 = SumTo(f, n) + SumTo(d, n)
  BY <1>2, <1>4
<1> QED
  BY ONLY <1>5, <1>6

(* A sum in which at most one value is not zero is that value.             *)
LEMMA SumSingle ==
  ASSUME NEW n \in Nat, NEW f \in [1..n -> Int], NEW k \in 1..n,
         \A i \in 1..n : i # k => f[i] = 0
  PROVE  SumTo(f, n) = f[k]
<1> DEFINE z == [i \in 1..n |-> 0]
<1>1. z \in [1..n -> Int] /\ \A i \in 1..n : z[i] = 0
  OBVIOUS
<1> HIDE DEF z
<1>2. SumTo(z, n) = 0
  BY <1>1, SumZero
<1>3. SumTo(f, n) = SumTo(z, n) + (f[k] - z[k])
  BY ZenonT(40), <1>1, SumChange
<1>4. z[k] = 0 /\ f[k] \in Int
  BY <1>1
<1> QED
  BY <1>2, <1>3, <1>4

(* Adding up a table by rows or by columns is the same.                    *)
LEMMA SumOfSums ==
  ASSUME NEW n \in Nat, NEW m \in Nat, NEW A \in [1..n -> [1..m -> Int]],
         NEW R \in [1..n -> Int], \A w \in 1..n : R[w] = SumTo(A[w], m),
         NEW C \in [1..m -> Int],
         \A i \in 1..m : C[i] = SumTo([w \in 1..n |-> A[w][i]], n)
  PROVE  SumTo(R, n) = SumTo(C, m)
<1> DEFINE Upto(j) == [w \in 1..n |-> PartialSums(A[w], m)[j]]
           Column(i) == [w \in 1..n |-> A[w][i]]
           S == {j \in Nat : SumTo(Upto(j), n) = PartialSums(C, m)[j]}
<1>1. ASSUME NEW w \in 1..n
      PROVE  /\ PartialSums(A[w], m) \in [0..m -> Int]
             /\ PartialSums(A[w], m)[0] = 0
             /\ \A i \in 1..m :
                  PartialSums(A[w], m)[i] = PartialSums(A[w], m)[i-1] + A[w][i]
  <2>1. A[w] \in [1..m -> Int]
    OBVIOUS
  <2> QED
    BY <2>1, PartialSumsDef
<1>2. /\ PartialSums(C, m) \in [0..m -> Int]
      /\ PartialSums(C, m)[0] = 0
      /\ \A i \in 1..m : PartialSums(C, m)[i] = PartialSums(C, m)[i-1] + C[i]
  BY PartialSumsDef
<1>3. ASSUME NEW j \in 0..m PROVE Upto(j) \in [1..n -> Int]
  BY <1>1
<1>4. 0 \in S
  <2>1. 0 \in 0..m
    OBVIOUS
  <2>2. \A w \in 1..n : Upto(0)[w] = 0
    BY <1>1
  <2>3. Upto(0) \in [1..n -> Int]
    BY <1>3, <2>1
  <2>4. SumTo(Upto(0), n) = 0
    <3> HIDE DEF Upto
    <3> QED
      BY <2>2, <2>3, SumZero
  <2> HIDE DEF Upto
  <2> QED
    BY <1>2, <2>4
<1>5. ASSUME NEW j \in Nat, j < m, j \in S PROVE j + 1 \in S
  <2>1. j \in 0..m /\ j + 1 \in 0..m /\ j + 1 \in 1..m /\ (j + 1) - 1 = j
    BY <1>5
  <2>2. Column(j+1) \in [1..n -> Int]
    BY <2>1
  <2>3. Upto(j) \in [1..n -> Int] /\ Upto(j+1) \in [1..n -> Int]
    BY <1>3, <2>1
  <2>4. \A w \in 1..n : Upto(j+1)[w] = Upto(j)[w] + Column(j+1)[w]
    BY <1>1, <2>1
  <2>5. C[j+1] = SumTo(Column(j+1), n)
    BY <2>1
  <2>6. SumTo(Upto(j), n) = PartialSums(C, m)[j]
    BY <1>5
  <2> HIDE DEF Upto, Column
  <2>7. SumTo(Upto(j+1), n) = SumTo(Upto(j), n) + SumTo(Column(j+1), n)
    BY <2>2, <2>3, <2>4, SumAdd
  <2>8. PartialSums(C, m)[j+1] = PartialSums(C, m)[j] + C[j+1]
    BY <1>2, <2>1
  <2> QED
    BY <2>5, <2>6, <2>7, <2>8
<1>6. m \in S
  <2> HIDE DEF S
  <2>1. \A j \in 0..m : j \in S
    BY <1>4, <1>5, UpToInduction
  <2> QED
    BY <2>1
<1>7. Upto(m) = R
  BY <1>1 DEF SumTo
<1> HIDE DEF Upto
<1> QED
  BY <1>6, <1>7 DEF SumTo
-----------------------------------------------------------------------------
(* Stages, and the requests of calls.                                      *)

(* The first stage of those that are not empty.                            *)
LEMMA StagedNonEmpty ==
  ASSUME NEW st, NEW T, st \in Seq(T), st # <<>>, st[1] # {}
  PROVE  Staged(st) = st
<1> DEFINE ahead == {k \in DOMAIN st : st[k] # {}}
<1>1. DOMAIN st = 1..Len(st) /\ Len(st) \in Nat /\ Len(st) > 0
  OBVIOUS
<1>2. 1 \in ahead
  BY <1>1
<1>3. (CHOOSE k \in ahead : \A j \in ahead : k <= j) = 1
  BY <1>1, <1>2
<1>4. Staged(st) = SubSeq(st, 1, Len(st))
  BY <1>2, <1>3 DEF Staged
<1> QED
  BY <1>4

(* One stage: it stays unless it is empty.                                 *)
LEMMA StagedOne ==
  ASSUME NEW A
  PROVE  Staged(<<A>>) = IF A = {} THEN <<>> ELSE <<A>>
<1>1. CASE A # {}
  <2>1. <<A>> \in Seq({A}) /\ <<A>> # <<>> /\ <<A>>[1] # {}
    BY <1>1
  <2> QED
    BY <1>1, <2>1, StagedNonEmpty
<1>2. CASE A = {}
  BY <1>2 DEF Staged
<1> QED
  BY <1>1, <1>2

(* Two stages: those before the first that is not empty go.                *)
LEMMA StagedTwo ==
  ASSUME NEW A, NEW B
  PROVE  Staged(<<A, B>>) = IF A # {} THEN <<A, B>> ELSE IF B # {} THEN <<B>> ELSE <<>>
<1> DEFINE st == <<A, B>>
           ahead == {k \in DOMAIN st : st[k] # {}}
<1>1. CASE A # {}
  <2>1. st \in Seq({A, B}) /\ st # <<>> /\ st[1] # {}
    BY <1>1
  <2> QED
    BY <1>1, <2>1, StagedNonEmpty
<1>2. CASE A = {} /\ B = {}
  BY <1>2 DEF Staged
<1>3. CASE A = {} /\ B # {}
  <2>1. ahead = {2}
    BY <1>3
  <2>2. (CHOOSE k \in ahead : \A j \in ahead : k <= j) = 2
    BY <2>1
  <2>3. Staged(st) = SubSeq(st, 2, 2)
    BY <2>1, <2>2 DEF Staged
  <2> QED
    BY <1>3, <2>3
<1> QED
  BY <1>1, <1>2, <1>3

(* Sequences of two stages, taken apart and put together.                  *)
LEMMA TwoStages ==
  ASSUME NEW A, NEW B
  PROVE  /\ <<A, B>> \in Seq({A, B}) /\ Tail(<<A, B>>) = <<B>>
         /\ <<A>> \o <<B>> = <<A, B>>
<1>1. <<A, B>> \in Seq({A, B}) /\ Len(<<A, B>>) = 2 /\ <<A>> \in Seq({A, B}) /\ <<B>> \in Seq({A, B})
  OBVIOUS
<1>2. Tail(<<A, B>>) \in Seq({A, B}) /\ Len(Tail(<<A, B>>)) = 1 /\ Tail(<<A, B>>)[1] = B
  BY <1>1
<1>3. <<A>> \o <<B>> = [i \in 1..2 |-> IF i <= 1 THEN <<A>>[i] ELSE <<B>>[i - 1]]
  BY <1>1
<1>4. <<A, B>> = [i \in 1..2 |-> IF i <= 1 THEN <<A>>[i] ELSE <<B>>[i - 1]]
  OBVIOUS
<1>5. Tail(<<A, B>>) = <<B>>
  BY <1>2
<1>6. <<A>> \o <<B>> = <<A, B>>
  BY <1>3, <1>4, Zenon
<1> QED
  BY <1>1, <1>5, <1>6

(* Staged drops the empty stages at the head, and nothing else.            *)
LEMMA StagedLeaves ==
  ASSUME NEW T, NEW st \in Seq(T), NEW new, new = Staged(st)
  PROVE  /\ new \in Seq(T) /\ (new # <<>> => new[1] # {})
         /\ \E o \in 0..Len(st) :
              /\ Len(new) = Len(st) - o
              /\ \A i \in 1..o : st[i] = {}
              /\ \A i \in 1..Len(new) : new[i] = st[i + o]
<1> DEFINE ahead == {k \in DOMAIN st : st[k] # {}}
<1>0. DOMAIN st = 1..Len(st) /\ Len(st) \in Nat
  OBVIOUS
<1>1. CASE ahead = {}
  <2>1. new = <<>>
    BY <1>1 DEF Staged
  <2>2. \A i \in 1..Len(st) : st[i] = {}
    BY <1>0, <1>1
  <2>3. Len(st) \in 0..Len(st) /\ Len(new) = Len(st) - Len(st)
    BY <1>0, <2>1
  <2> QED
    BY <2>1, <2>2, <2>3
<1>2. CASE ahead # {}
  <2>1. ahead \subseteq Nat
    BY <1>0
  <2>2. \E k \in ahead : \A j \in ahead : k <= j
    BY <1>2, <2>1, LeastNatural
  <2>3. PICK k : /\ k = CHOOSE x \in ahead : \A j \in ahead : x <= j
                 /\ k \in ahead /\ \A j \in ahead : k <= j
    BY <2>2
  <2>4. new = SubSeq(st, k, Len(st))
    BY <1>2, <2>3 DEF Staged
  <2>5. k \in 1..Len(st) /\ st[k] # {}
    BY <1>0, <2>3
  <2>6. \A i \in 1..(k - 1) : st[i] = {}
    BY <1>0, <2>3, <2>5
  <2> DEFINE o == k - 1
  <2>7. o \in 0..Len(st) /\ Len(st) - o = Len(st) - k + 1
    BY <1>0, <2>5
  <2>8. /\ new \in Seq(T) /\ Len(new) = Len(st) - k + 1
        /\ \A i \in 1..Len(new) : new[i] = st[k + i - 1]
    BY <1>0, <2>4, <2>5
  <2>9. \A i \in 1..Len(new) : new[i] = st[i + o]
    <3> SUFFICES ASSUME NEW i \in 1..Len(new) PROVE new[i] = st[i + o]
      OBVIOUS
    <3>1. k + i - 1 = i + o
      BY <1>0, <2>5, <2>8
    <3> QED
      BY <2>8, <3>1
  <2>10. new[1] # {}
    <3>1. 1 \in 1..Len(new) /\ k + 1 - 1 = k
      BY <1>0, <2>5, <2>8
    <3>2. new[1] = st[k]
      BY <2>8, <3>1
    <3> QED
      BY <2>5, <3>2
  <2> HIDE DEF o
  <2> QED
    BY <2>6, <2>7, <2>8, <2>9, <2>10 DEF o
<1> QED
  BY <1>1, <1>2

(* The first stage in a sequence of stages replaced.                       *)
LEMMA FirstReplaced ==
  ASSUME NEW T, NEW st \in Seq(T), st # <<>>, NEW A \in T, NEW new, new = <<A>> \o Tail(st)
  PROVE  /\ new \in Seq(T) /\ Len(new) = Len(st) /\ new[1] = A
         /\ \A i \in 2..Len(st) : new[i] = st[i]
<1>1. Len(st) \in Nat /\ Len(st) > 0
  OBVIOUS
<1>2. Tail(st) \in Seq(T) /\ Len(Tail(st)) = Len(st) - 1 /\ \A i \in 1..(Len(st) - 1) : Tail(st)[i] = st[i + 1]
  BY <1>1
<1>3. <<A>> \in Seq(T) /\ Len(<<A>>) = 1 /\ <<A>>[1] = A
  OBVIOUS
<1>4. new \in Seq(T) /\ Len(new) = 1 + Len(Tail(st)) /\ new[1] = A
  BY <1>1, <1>2, <1>3
<1>5. \A i \in 2..Len(st) : new[i] = Tail(st)[i - 1]
  BY <1>1, <1>2, <1>3
<1>6. ASSUME NEW i \in 2..Len(st) PROVE new[i] = st[i]
  <2>1. i - 1 \in 1..(Len(st) - 1) /\ (i - 1) + 1 = i
    BY <1>1
  <2> QED
    BY <1>2, <1>5, <2>1
<1> QED
  BY <1>1, <1>2, <1>4, <1>6

(* A request whose id is not known yet gets that of its call, and is       *)
(* otherwise what the client has sent.                                     *)
LEMMA Completed ==
  ASSUME NEW c, NEW none, NEW r, NEW kind, NEW id, r.doc = <<kind, id>>,
         r = [f \in DOMAIN r |-> r[f]], "doc" \in DOMAIN r, NEW q,
         q = [r EXCEPT !.doc[2] = IF @ = none THEN c ELSE @]
  PROVE  /\ q.doc = <<kind, IF id = none THEN c ELSE id>>
         /\ \A f \in DOMAIN r \ {"doc"} : q[f] = r[f]
<1> DEFINE doc == [r.doc EXCEPT ![2] = IF @ = none THEN c ELSE @]
<1>1. doc = <<kind, IF id = none THEN c ELSE id>>
  OBVIOUS
<1>2. q = [r EXCEPT !.doc = doc]
  OBVIOUS
<1> HIDE DEF doc
<1> QED
  BY <1>1, <1>2
=============================================================================
