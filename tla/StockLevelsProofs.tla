------------------------- MODULE StockLevelsProofs -------------------------
(***************************************************************************)
(* The three levels of the stock agree in every state: what some lines     *)
(* move in the warehouses adds up to what they move of a variant, and that *)
(* to what they move of a product.                                         *)
(***************************************************************************)
EXTENDS StockLevels, DataProofs

(* The increments that the lines make, at each level, are integers.        *)
LEMMA MovedType ==
  ASSUME NEW lines \in Seq(Line)
  PROVE  /\ Len(lines) \in Nat
         /\ \A i \in 1..Len(lines) :
              /\ lines[i].variant \in Variants /\ lines[i].warehouse \in Warehouses
              /\ lines[i].quantity \in Int
         /\ \A v, w : Moved(lines, v, w) \in Int
         /\ \A v : MovedOfVariant(lines, v) \in Int
         /\ \A p : MovedOfProduct(lines, p) \in Int
<1>1. Len(lines) \in Nat
  OBVIOUS
<1>2. ASSUME NEW i \in 1..Len(lines)
      PROVE  /\ lines[i].variant \in Variants /\ lines[i].warehouse \in Warehouses
             /\ lines[i].quantity \in Int
  <2>1. lines[i] \in Line
    OBVIOUS
  <2> QED
    BY <2>1 DEF Line
<1>3. ASSUME NEW v, NEW w PROVE Moved(lines, v, w) \in Int
  <2> DEFINE f == [i \in 1..Len(lines) |->
                     IF lines[i].variant = v /\ lines[i].warehouse = w
                       THEN lines[i].quantity ELSE 0]
  <2>1. f \in [1..Len(lines) -> Int]
    BY <1>2
  <2>2. Moved(lines, v, w) = SumTo(f, Len(lines))
    BY DEF Moved
  <2> HIDE DEF f
  <2> QED
    BY <1>1, <2>1, <2>2, SumType
<1>4. ASSUME NEW v PROVE MovedOfVariant(lines, v) \in Int
  <2> DEFINE f == [i \in 1..Len(lines) |->
                     IF lines[i].variant = v THEN lines[i].quantity ELSE 0]
  <2>1. f \in [1..Len(lines) -> Int]
    BY <1>2
  <2>2. MovedOfVariant(lines, v) = SumTo(f, Len(lines))
    BY DEF MovedOfVariant
  <2> HIDE DEF f
  <2> QED
    BY <1>1, <2>1, <2>2, SumType
<1>5. ASSUME NEW p PROVE MovedOfProduct(lines, p) \in Int
  <2> DEFINE f == [i \in 1..Len(lines) |->
                     IF ProductOf[lines[i].variant] = p THEN lines[i].quantity ELSE 0]
  <2>1. f \in [1..Len(lines) -> Int]
    BY <1>2
  <2>2. MovedOfProduct(lines, p) = SumTo(f, Len(lines))
    BY DEF MovedOfProduct
  <2> HIDE DEF f
  <2> QED
    BY <1>1, <2>1, <2>2, SumType
<1> QED
  BY <1>1, <1>2, <1>3, <1>4, <1>5

(* Each line is in exactly one warehouse: what the lines move of a variant *)
(* is what they move of it in all the warehouses together.                 *)
LEMMA MovedInAllWarehouses ==
  ASSUME NEW lines \in Seq(Line), NEW v \in Variants
  PROVE  SumTo([w \in Warehouses |-> Moved(lines, v, w)], NWarehouses)
           = MovedOfVariant(lines, v)
<1> DEFINE n == NWarehouses
           m == Len(lines)
           A == [w \in 1..n |->
                  [i \in 1..m |-> IF lines[i].variant = v /\ lines[i].warehouse = w
                                    THEN lines[i].quantity ELSE 0]]
           R == [w \in 1..n |-> Moved(lines, v, w)]
           C == [i \in 1..m |-> IF lines[i].variant = v THEN lines[i].quantity ELSE 0]
<1>1. n \in Nat /\ m \in Nat
  BY StockAssumption, MovedType
<1>2. \A i \in 1..m : lines[i].warehouse \in 1..n /\ lines[i].quantity \in Int
  BY MovedType DEF Warehouses
<1>3. A \in [1..n -> [1..m -> Int]] /\ C \in [1..m -> Int]
  BY <1>2
<1>4. R \in [1..n -> Int]
  BY MovedType
<1>5. \A w \in 1..n : R[w] = SumTo(A[w], m)
  BY DEF Moved
<1>6. ASSUME NEW i \in 1..m PROVE C[i] = SumTo([w \in 1..n |-> A[w][i]], n)
  <2> DEFINE f == [w \in 1..n |-> A[w][i]]
             k == lines[i].warehouse
  <2>1. f \in [1..n -> Int] /\ k \in 1..n
    BY <1>2, <1>3
  <2>2. \A w \in 1..n : w # k => f[w] = 0
    OBVIOUS
  <2>3. f[k] = C[i]
    BY <2>1
  <2> HIDE DEF f, k, C
  <2>4. SumTo(f, n) = f[k]
    BY <1>1, <2>1, <2>2, SumSingle
  <2> QED
    BY <2>3, <2>4 DEF f
<1>7. MovedOfVariant(lines, v) = SumTo(C, m)
  BY DEF MovedOfVariant
<1>8. [w \in Warehouses |-> Moved(lines, v, w)] = R
  BY DEF Warehouses
<1> HIDE DEF A, R, C, n, m
<1>9. SumTo(R, n) = SumTo(C, m)
  BY <1>1, <1>3, <1>4, <1>5, <1>6, SumOfSums
<1> QED
  BY <1>7, <1>8, <1>9 DEF n

(* Each line is of exactly one variant: what the lines move of a product   *)
(* is what they move of all its variants together.                         *)
LEMMA MovedInAllVariants ==
  ASSUME NEW lines \in Seq(Line), NEW p \in Products
  PROVE  SumTo([v \in Variants |-> IF ProductOf[v] = p THEN MovedOfVariant(lines, v) ELSE 0],
             NVariants)
           = MovedOfProduct(lines, p)
<1> DEFINE n == NVariants
           m == Len(lines)
           A == [v \in 1..n |->
                  [i \in 1..m |-> IF ProductOf[v] = p /\ lines[i].variant = v
                                    THEN lines[i].quantity ELSE 0]]
           R == [v \in 1..n |-> IF ProductOf[v] = p THEN MovedOfVariant(lines, v) ELSE 0]
           C == [i \in 1..m |-> IF ProductOf[lines[i].variant] = p
                                  THEN lines[i].quantity ELSE 0]
<1>1. n \in Nat /\ m \in Nat
  BY StockAssumption, MovedType
<1>2. \A i \in 1..m : lines[i].variant \in 1..n /\ lines[i].quantity \in Int
  BY MovedType DEF Variants
<1>3. A \in [1..n -> [1..m -> Int]] /\ C \in [1..m -> Int]
  BY <1>2
<1>4. R \in [1..n -> Int]
  BY MovedType
<1>5. ASSUME NEW v \in 1..n PROVE R[v] = SumTo(A[v], m)
  <2>1. CASE ProductOf[v] = p
    BY <2>1 DEF MovedOfVariant
  <2>2. CASE ProductOf[v] # p
    <3>1. A[v] \in [1..m -> Int] /\ \A i \in 1..m : A[v][i] = 0
      BY <1>3, <2>2
    <3>2. R[v] = 0
      BY <2>2
    <3> HIDE DEF A, R
    <3> QED
      BY <1>1, <3>1, <3>2, SumZero
  <2> QED
    BY <2>1, <2>2
<1>6. ASSUME NEW i \in 1..m PROVE C[i] = SumTo([v \in 1..n |-> A[v][i]], n)
  <2> DEFINE f == [v \in 1..n |-> A[v][i]]
             k == lines[i].variant
  <2>1. f \in [1..n -> Int] /\ k \in 1..n
    BY <1>2, <1>3
  <2>2. \A v \in 1..n : v # k => f[v] = 0
    OBVIOUS
  <2>3. f[k] = C[i]
    BY <2>1
  <2> HIDE DEF f, k, C
  <2>4. SumTo(f, n) = f[k]
    BY <1>1, <2>1, <2>2, SumSingle
  <2> QED
    BY <2>3, <2>4 DEF f
<1>7. MovedOfProduct(lines, p) = SumTo(C, m)
  BY DEF MovedOfProduct
<1>8. [v \in Variants |-> IF ProductOf[v] = p THEN MovedOfVariant(lines, v) ELSE 0] = R
  BY DEF Variants
<1> HIDE DEF A, R, C, n, m
<1>9. SumTo(R, n) = SumTo(C, m)
  BY <1>1, <1>3, <1>4, <1>5, <1>6, SumOfSums
<1> QED
  BY <1>7, <1>8, <1>9 DEF n
-----------------------------------------------------------------------------
(* The totals are integers.                                                *)
LEMMA TotalsType ==
  /\ \A q \in [Variants -> [Warehouses -> Int]] :
       \A v \in Variants : InAllWarehouses(q, v) \in Int
  /\ \A t \in [Variants -> Int] : \A p \in Products : InAllVariants(t, p) \in Int
<1>0. /\ NWarehouses \in Nat /\ Warehouses = 1..NWarehouses
      /\ NVariants \in Nat /\ Variants = 1..NVariants
  BY StockAssumption DEF Warehouses, Variants
<1>1. ASSUME NEW q \in [Variants -> [Warehouses -> Int]], NEW v \in Variants
      PROVE  InAllWarehouses(q, v) \in Int
  <2> DEFINE f == [w \in Warehouses |-> q[v][w]]
  <2>1. f \in [Warehouses -> Int]
    OBVIOUS
  <2>2. InAllWarehouses(q, v) = SumTo(f, NWarehouses)
    BY DEF InAllWarehouses
  <2> HIDE DEF f
  <2> QED
    BY <1>0, <2>1, <2>2, SumType
<1>2. ASSUME NEW t \in [Variants -> Int], NEW p \in Products
      PROVE  InAllVariants(t, p) \in Int
  <2> DEFINE f == [v \in Variants |-> IF ProductOf[v] = p THEN t[v] ELSE 0]
  <2>1. f \in [Variants -> Int]
    OBVIOUS
  <2>2. InAllVariants(t, p) = SumTo(f, NVariants)
    BY DEF InAllVariants
  <2> HIDE DEF f
  <2> QED
    BY <1>0, <2>1, <2>2, SumType
<1> QED
  BY <1>1, <1>2

(* The totals begin in agreement with the opening quantities.              *)
LEMMA LevelsInitAgree == LevelsInit => LevelsTypeOK /\ TotalsAgree
<1> SUFFICES ASSUME LevelsInit PROVE LevelsTypeOK /\ TotalsAgree
  OBVIOUS
<1> USE DEF LevelsInit
<1>1. Opening \in [Variants -> [Warehouses -> Int]]
  BY StockAssumption
<1>2. variantTotal \in [Variants -> Int]
  BY <1>1, TotalsType
<1>3. productTotal \in [Products -> Int]
  BY <1>2, TotalsType
<1>4. LevelsTypeOK
  BY <1>1, <1>2, <1>3 DEF LevelsTypeOK
<1>5. TotalsAgree
  BY DEF TotalsAgree
<1> QED
  BY <1>4, <1>5

(* Applying the lines keeps the types and the agreement.     *)
LEMMA ApplyKeepsTotals ==
  ASSUME LevelsTypeOK, TotalsAgree, NEW lines \in Seq(Line), Apply(lines)
  PROVE  /\ vtw' \in [Variants -> [Warehouses -> Int]]
         /\ variantTotal' \in [Variants -> Int]
         /\ productTotal' \in [Products -> Int]
         /\ TotalsAgree'
<1>0. /\ NWarehouses \in Nat /\ Warehouses = 1..NWarehouses
      /\ NVariants \in Nat /\ Variants = 1..NVariants
  BY StockAssumption DEF Warehouses, Variants
<1>1. /\ vtw \in [Variants -> [Warehouses -> Int]]
      /\ variantTotal \in [Variants -> Int]
      /\ productTotal \in [Products -> Int]
  BY DEF LevelsTypeOK
<1>2. /\ vtw' = [v \in Variants |-> [w \in Warehouses |-> vtw[v][w] + Moved(lines, v, w)]]
      /\ variantTotal' = [v \in Variants |-> variantTotal[v] + MovedOfVariant(lines, v)]
      /\ productTotal' = [p \in Products |-> productTotal[p] + MovedOfProduct(lines, p)]
  BY DEF Apply
<1>3. /\ \A v, w : Moved(lines, v, w) \in Int
      /\ \A v : MovedOfVariant(lines, v) \in Int
      /\ \A p : MovedOfProduct(lines, p) \in Int
  BY MovedType
<1>4. /\ vtw' \in [Variants -> [Warehouses -> Int]]
      /\ variantTotal' \in [Variants -> Int]
      /\ productTotal' \in [Products -> Int]
  BY <1>1, <1>2, <1>3
<1>5. ASSUME NEW v \in Variants
      PROVE  variantTotal'[v] = InAllWarehouses(vtw', v)
  <2> DEFINE f == [w \in Warehouses |-> vtw[v][w]]
             h == [w \in Warehouses |-> Moved(lines, v, w)]
             d == [w \in Warehouses |-> vtw'[v][w]]
  <2>1. f \in [Warehouses -> Int] /\ h \in [Warehouses -> Int] /\ d \in [Warehouses -> Int]
    BY <1>1, <1>3, <1>4
  <2>2. \A w \in Warehouses : d[w] = f[w] + h[w]
    BY <1>2
  <2>3. SumTo(h, NWarehouses) = MovedOfVariant(lines, v)
    BY MovedInAllWarehouses
  <2>4. /\ InAllWarehouses(vtw, v) = SumTo(f, NWarehouses)
        /\ InAllWarehouses(vtw', v) = SumTo(d, NWarehouses)
    BY DEF InAllWarehouses
  <2>5. variantTotal[v] = InAllWarehouses(vtw, v)
    BY DEF TotalsAgree
  <2>6. variantTotal'[v] = variantTotal[v] + MovedOfVariant(lines, v)
    BY <1>2
  <2> HIDE DEF f, h, d
  <2>7. SumTo(d, NWarehouses) = SumTo(f, NWarehouses) + SumTo(h, NWarehouses)
    BY <1>0, <2>1, <2>2, SumAdd
  <2> QED
    BY <2>3, <2>4, <2>5, <2>6, <2>7
<1>6. ASSUME NEW p \in Products
      PROVE  productTotal'[p] = InAllVariants(variantTotal', p)
  <2> DEFINE f == [v \in Variants |-> IF ProductOf[v] = p THEN variantTotal[v] ELSE 0]
             h == [v \in Variants |-> IF ProductOf[v] = p
                                        THEN MovedOfVariant(lines, v) ELSE 0]
             d == [v \in Variants |-> IF ProductOf[v] = p THEN variantTotal'[v] ELSE 0]
  <2>1. f \in [Variants -> Int] /\ h \in [Variants -> Int] /\ d \in [Variants -> Int]
    BY <1>1, <1>3, <1>4
  <2>2. \A v \in Variants : d[v] = f[v] + h[v]
    BY <1>2
  <2>3. SumTo(h, NVariants) = MovedOfProduct(lines, p)
    BY MovedInAllVariants
  <2>4. /\ InAllVariants(variantTotal, p) = SumTo(f, NVariants)
        /\ InAllVariants(variantTotal', p) = SumTo(d, NVariants)
    BY DEF InAllVariants
  <2>5. productTotal[p] = InAllVariants(variantTotal, p)
    BY DEF TotalsAgree
  <2>6. productTotal'[p] = productTotal[p] + MovedOfProduct(lines, p)
    BY <1>2
  <2> HIDE DEF f, h, d
  <2>7. SumTo(d, NVariants) = SumTo(f, NVariants) + SumTo(h, NVariants)
    BY <1>0, <2>1, <2>2, SumAdd
  <2> QED
    BY <2>3, <2>4, <2>5, <2>6, <2>7
<1>7. TotalsAgree'
  BY <1>5, <1>6 DEF TotalsAgree
<1> QED
  BY <1>4, <1>7

(* TotalsAgree, for every number of variants, warehouses and products:     *)
(* whatever moves goods line by line, at the three levels at once, keeps   *)
(* the levels in agreement.                                                *)
THEOREM LevelsAgree == LevelsSpec => [](LevelsTypeOK /\ TotalsAgree)
<1>1. (LevelsTypeOK /\ TotalsAgree) /\ [LevelsNext]_stock
        => (LevelsTypeOK /\ TotalsAgree)'
  <2> SUFFICES ASSUME LevelsTypeOK, TotalsAgree, [LevelsNext]_stock
               PROVE  LevelsTypeOK' /\ TotalsAgree'
    OBVIOUS
  <2>1. CASE LevelsNext
    BY <2>1, ApplyKeepsTotals DEF LevelsNext, LevelsTypeOK
  <2>2. CASE UNCHANGED stock
    BY <2>2 DEF stock, LevelsTypeOK, TotalsAgree
  <2> QED
    BY <2>1, <2>2
<1> QED
  BY <1>1, LevelsInitAgree, PTL DEF LevelsSpec
=============================================================================
