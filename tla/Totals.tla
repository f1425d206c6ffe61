-------------------------------- MODULE Totals --------------------------------
(***************************************************************************)
(* Sums of natural numbers over a finite domain, as a count of units.      *)
(*                                                                         *)
(* An amount of n token units is the set 1..n; the units of a function     *)
(* from holders to amounts are the disjoint union of the holders' units,   *)
(* and the total is how many there are.  Stated this way a sum needs no    *)
(* recursion, so its laws follow from the laws of finite cardinality: how  *)
(* it changes with one entry, how it splits over disjoint sets of holders, *)
(* and that it is monotone.  A finite set is put in order without          *)
(* recursion too, by how many come before each.                            *)
(***************************************************************************)
EXTENDS Integers, Sequences, FiniteSets, FiniteSetTheorems, WellFoundedInduction, TLAPS

UnitsOf(f, x) == {x} \X (1 .. f[x])

Units(f) == UNION {UnitsOf(f, x) : x \in DOMAIN f}

Total(f) == Cardinality(Units(f))

(* The members of ds, ordered by the pairs that are ahead, one of the      *)
(* other: the i-th is the one that i - 1 come before.                      *)
InOrder(ds, ahead) ==
    [i \in 1 .. Cardinality(ds) |->
        CHOOSE d \in ds : Cardinality({e \in ds : <<e, d>> \in ahead}) = i - 1]

(* The share of f that the members of S hold; the others count for zero.   *)
Share(f, S) == [x \in DOMAIN f |-> IF x \in S THEN f[x] ELSE 0]

-------------------------------------------------------------------------------
(* The units of one holder are as many as the holder's amount.             *)
LEMMA UnitsOfCardinality ==
    ASSUME NEW S, NEW f \in [S -> Nat], NEW x \in S
    PROVE  IsFiniteSet(UnitsOf(f, x)) /\ Cardinality(UnitsOf(f, x)) = f[x]
<1>1. f[x] \in Nat
    OBVIOUS
<1>2. IsFiniteSet(1 .. f[x]) /\ Cardinality(1 .. f[x]) = f[x]
  <2>1. IsFiniteSet(1 .. f[x])
        /\ Cardinality(1 .. f[x]) = IF 1 > f[x] THEN 0 ELSE f[x] - 1 + 1
      BY <1>1, FS_Interval
  <2>2. QED
      BY <2>1, <1>1
<1>3. IsFiniteSet({x}) /\ Cardinality({x}) = 1
    BY FS_Singleton
<1>4. IsFiniteSet({x} \X (1 .. f[x]))
      /\ Cardinality({x} \X (1 .. f[x])) = 1 * f[x]
    BY <1>2, <1>3, FS_Product
<1>5. QED
    BY <1>1, <1>4 DEF UnitsOf

(* A finite number of holders have a finite number of units.               *)
LEMMA UnitsFinite ==
    ASSUME NEW S, IsFiniteSet(S), NEW f \in [S -> Nat]
    PROVE  IsFiniteSet(Units(f))
<1> DEFINE T == {UnitsOf(f, x) : x \in S}
           g == [x \in S |-> UnitsOf(f, x)]
<1>1. g \in Surjection(S, T)
    BY DEF Surjection
<1>2. IsFiniteSet(T)
    BY <1>1, FS_Surjection
<1>3. \A U \in T : IsFiniteSet(U)
    BY UnitsOfCardinality
<1>4. IsFiniteSet(UNION T)
    BY <1>2, <1>3, FS_UNION
<1>5. DOMAIN f = S
    OBVIOUS
<1>6. QED
    BY <1>4, <1>5 DEF Units

(* A total is a natural number.                                            *)
LEMMA TotalType ==
    ASSUME NEW S, IsFiniteSet(S), NEW f \in [S -> Nat]
    PROVE  Total(f) \in Nat
BY UnitsFinite, FS_CardinalityType DEF Total

(* Which pairs are units.                                                  *)
LEMMA UnitsMember ==
    ASSUME NEW S, NEW f \in [S -> Nat], NEW u
    PROVE  u \in Units(f) <=> \E x \in S : \E i \in 1 .. f[x] : u = <<x, i>>
BY DEF Units, UnitsOf

(* Setting one entry to zero takes exactly that entry off the total.       *)
LEMMA TotalSplit ==
    ASSUME NEW S, IsFiniteSet(S), NEW f \in [S -> Nat], NEW x \in S
    PROVE  Total(f) = Total([f EXCEPT ![x] = 0]) + f[x]
<1> DEFINE g == [f EXCEPT ![x] = 0]
<1>1. /\ g \in [S -> Nat]
      /\ g[x] = 0
      /\ \A y \in S : y # x => g[y] = f[y]
    OBVIOUS
<1> HIDE DEF g
<1>2. IsFiniteSet(Units(g)) /\ IsFiniteSet(UnitsOf(f, x))
    BY <1>1, UnitsFinite, UnitsOfCardinality
<1>3. Units(f) = Units(g) \cup UnitsOf(f, x)
  <2>1. ASSUME NEW u \in Units(f)
        PROVE  u \in Units(g) \cup UnitsOf(f, x)
    <3>1. PICK y \in S : \E i \in 1 .. f[y] : u = <<y, i>>
        BY <2>1, UnitsMember
    <3>2. CASE y = x
        BY <3>1, <3>2 DEF UnitsOf
    <3>3. CASE y # x
        BY <3>1, <3>3, <1>1, UnitsMember
    <3>4. QED
        BY <3>2, <3>3
  <2>2. ASSUME NEW u \in Units(g)
        PROVE  u \in Units(f)
    <3>1. PICK y \in S : \E i \in 1 .. g[y] : u = <<y, i>>
        BY <2>2, <1>1, UnitsMember
    <3>2. y # x
        BY <3>1, <1>1
    <3>3. \E i \in 1 .. f[y] : u = <<y, i>>
        BY <3>1, <3>2, <1>1
    <3>4. QED
        BY <3>3, UnitsMember
  <2>3. UnitsOf(f, x) \subseteq Units(f)
      BY DEF Units
  <2>4. QED
      BY <2>1, <2>2, <2>3
<1>4. Units(g) \cap UnitsOf(f, x) = {}
  <2>1. SUFFICES ASSUME NEW u \in Units(g), u \in UnitsOf(f, x)
                 PROVE  FALSE
      OBVIOUS
  <2>2. PICK y \in S : \E i \in 1 .. g[y] : u = <<y, i>>
      BY <2>1, <1>1, UnitsMember
  <2>3. y = x
      BY <2>1, <2>2 DEF UnitsOf
  <2>4. QED
      BY <2>2, <2>3, <1>1
<1>5. Cardinality(Units(g) \cap UnitsOf(f, x)) = 0
    BY <1>4, FS_EmptySet
<1>6. Cardinality(Units(f)) = Cardinality(Units(g)) + Cardinality(UnitsOf(f, x))
                              - Cardinality(Units(g) \cap UnitsOf(f, x))
    BY <1>2, <1>3, FS_Union
<1>7. Cardinality(Units(g)) \in Nat
    BY <1>2, FS_CardinalityType
<1>8. Cardinality(UnitsOf(f, x)) = f[x] /\ f[x] \in Nat
    BY UnitsOfCardinality
<1>9. Total(f) = Total(g) + f[x]
    BY <1>5, <1>6, <1>7, <1>8 DEF Total
<1>10. QED
    BY <1>9 DEF g

(* Changing one entry changes the total by the difference.                 *)
LEMMA TotalUpdate ==
    ASSUME NEW S, IsFiniteSet(S), NEW f \in [S -> Nat], NEW x \in S, NEW v \in Nat
    PROVE  Total([f EXCEPT ![x] = v]) = Total(f) - f[x] + v
<1> DEFINE g == [f EXCEPT ![x] = v]
           z == [f EXCEPT ![x] = 0]
<1>1. g \in [S -> Nat] /\ g[x] = v /\ z \in [S -> Nat] /\ f[x] \in Nat
    OBVIOUS
<1>2. [g EXCEPT ![x] = 0] = z
    OBVIOUS
<1>3. Total(f) = Total(z) + f[x]
    BY TotalSplit
<1> HIDE DEF g, z
<1>4. Total(g) = Total(z) + v
    BY <1>1, <1>2, TotalSplit
<1>5. Total(z) \in Nat
    BY <1>1, TotalType
<1>6. Total(g) = Total(f) - f[x] + v
    BY <1>1, <1>3, <1>4, <1>5
<1>7. QED
    BY <1>6 DEF g

(* A total is monotone in its entries.                                     *)
LEMMA TotalMonotone ==
    ASSUME NEW S, IsFiniteSet(S), NEW f \in [S -> Nat], NEW g \in [S -> Nat],
           \A x \in S : f[x] <= g[x]
    PROVE  Total(f) <= Total(g)
<1>1. Units(f) \subseteq Units(g)
  <2>1. SUFFICES ASSUME NEW u \in Units(f)
                 PROVE  u \in Units(g)
      OBVIOUS
  <2>2. PICK y \in S : \E i \in 1 .. f[y] : u = <<y, i>>
      BY <2>1, UnitsMember
  <2>3. \E i \in 1 .. g[y] : u = <<y, i>>
    <3>1. f[y] \in Nat /\ g[y] \in Nat /\ f[y] <= g[y]
        OBVIOUS
    <3>2. 1 .. f[y] \subseteq 1 .. g[y]
        BY <3>1
    <3>3. QED
        BY <2>2, <3>2
  <2>4. QED
      BY <2>3, UnitsMember
<1>2. QED
    BY <1>1, UnitsFinite, FS_Subset DEF Total

(* Only zeros add up to zero, and zeros do.                                *)
LEMMA TotalZero ==
    ASSUME NEW S, IsFiniteSet(S), NEW f \in [S -> Nat]
    PROVE  Total(f) = 0 <=> \A x \in S : f[x] = 0
<1>1. Total(f) = 0 <=> Units(f) = {}
    BY UnitsFinite, FS_EmptySet DEF Total
<1>2. Units(f) = {} <=> \A x \in S : f[x] = 0
  <2>1. ASSUME Units(f) = {}, NEW x \in S, f[x] # 0
        PROVE  FALSE
    <3>1. 1 \in 1 .. f[x]
        BY <2>1
    <3>2. <<x, 1>> \in Units(f)
        BY <3>1, UnitsMember
    <3>3. QED
        BY <2>1, <3>2
  <2>2. ASSUME \A x \in S : f[x] = 0, NEW u \in Units(f)
        PROVE  FALSE
    <3>1. PICK y \in S : \E i \in 1 .. f[y] : u = <<y, i>>
        BY <2>2, UnitsMember
    <3>2. QED
        BY <2>2, <3>1
  <2>3. QED
      BY <2>1, <2>2
<1>3. QED
    BY <1>1, <1>2

(* No entry exceeds the total.                                             *)
LEMMA TotalBoundsEntry ==
    ASSUME NEW S, IsFiniteSet(S), NEW f \in [S -> Nat], NEW x \in S
    PROVE  f[x] <= Total(f)
<1> DEFINE z == [f EXCEPT ![x] = 0]
<1>1. Total(f) = Total(z) + f[x]
    BY TotalSplit
<1>2. z \in [S -> Nat]
    OBVIOUS
<1> HIDE DEF z
<1>3. QED
    BY <1>1, <1>2, TotalType

(* A share is a function of the same kind.                                 *)
LEMMA ShareType ==
    ASSUME NEW S, NEW f \in [S -> Nat], NEW A
    PROVE  /\ Share(f, A) \in [S -> Nat]
           /\ \A x \in S : Share(f, A)[x] = IF x \in A THEN f[x] ELSE 0
BY DEF Share

(* Two disjoint groups of holders hold together what their union holds.    *)
LEMMA ShareSplit ==
    ASSUME NEW S, IsFiniteSet(S), NEW f \in [S -> Nat], NEW A, NEW B, A \cap B = {}
    PROVE  Total(Share(f, A \cup B)) = Total(Share(f, A)) + Total(Share(f, B))
<1> DEFINE p == Share(f, A)
           q == Share(f, B)
           r == Share(f, A \cup B)
<1>1. /\ p \in [S -> Nat] /\ \A x \in S : p[x] = IF x \in A THEN f[x] ELSE 0
      /\ q \in [S -> Nat] /\ \A x \in S : q[x] = IF x \in B THEN f[x] ELSE 0
      /\ r \in [S -> Nat] /\ \A x \in S : r[x] = IF x \in A \cup B THEN f[x] ELSE 0
    BY ShareType
<1> HIDE DEF p, q, r
<1>2. Units(r) = Units(p) \cup Units(q)
  <2>1. ASSUME NEW u \in Units(r)
        PROVE  u \in Units(p) \cup Units(q)
    <3>1. PICK y \in S : \E i \in 1 .. r[y] : u = <<y, i>>
        BY <2>1, <1>1, UnitsMember
    <3>2. r[y] = p[y] \/ r[y] = q[y]
        BY <1>1
    <3>3. QED
        BY <3>1, <3>2, <1>1, UnitsMember
  <2>2. ASSUME NEW u \in Units(p)
        PROVE  u \in Units(r)
    <3>1. PICK y \in S : \E i \in 1 .. p[y] : u = <<y, i>>
        BY <2>2, <1>1, UnitsMember
    <3>2. p[y] = r[y]
        BY <3>1, <1>1
    <3>3. QED
        BY <3>1, <3>2, <1>1, UnitsMember
  <2>3. ASSUME NEW u \in Units(q)
        PROVE  u \in Units(r)
    <3>1. PICK y \in S : \E i \in 1 .. q[y] : u = <<y, i>>
        BY <2>3, <1>1, UnitsMember
    <3>2. q[y] = r[y]
        BY <3>1, <1>1
    <3>3. QED
        BY <3>1, <3>2, <1>1, UnitsMember
  <2>4. QED
      BY <2>1, <2>2, <2>3
<1>3. Units(p) \cap Units(q) = {}
  <2>1. SUFFICES ASSUME NEW u \in Units(p), u \in Units(q)
                 PROVE  FALSE
      OBVIOUS
  <2>2. PICK y \in S : \E i \in 1 .. p[y] : u = <<y, i>>
      BY <2>1, <1>1, UnitsMember
  <2>3. PICK z \in S : \E i \in 1 .. q[z] : u = <<z, i>>
      BY <2>1, <1>1, UnitsMember
  <2>4. y = z
      BY <2>2, <2>3
  <2>5. y \in A /\ y \in B
      BY <2>2, <2>3, <2>4, <1>1
  <2>6. QED
      BY <2>5
<1>4. IsFiniteSet(Units(p)) /\ IsFiniteSet(Units(q))
    BY <1>1, UnitsFinite
<1>5. Cardinality(Units(r)) = Cardinality(Units(p)) + Cardinality(Units(q))
                              - Cardinality(Units(p) \cap Units(q))
    BY <1>2, <1>4, FS_Union
<1>6. Cardinality(Units(p) \cap Units(q)) = 0
    BY <1>3, FS_EmptySet
<1>7. Cardinality(Units(p)) \in Nat /\ Cardinality(Units(q)) \in Nat
    BY <1>4, FS_CardinalityType
<1>8. Total(r) = Total(p) + Total(q)
    BY <1>5, <1>6, <1>7 DEF Total
<1>9. QED
    BY <1>8 DEF p, q, r

-------------------------------------------------------------------------------
(* Division and induction, for whoever divides or counts up.               *)

(* Quotient and remainder.                                                 *)
LEMMA DivFacts ==
    ASSUME NEW a \in Nat, NEW m \in Nat \ {0}
    PROVE  /\ a \div m \in Nat /\ a % m \in 0 .. m - 1
           /\ a = m * (a \div m) + (a % m)
OBVIOUS

(* Multiples of m are at least m apart.                                    *)
LEMMA MultiplesApart ==
    ASSUME NEW m \in Nat \ {0}, NEW a \in Nat, NEW b \in Nat, a < b
    PROVE  m * a + m <= m * b
OBVIOUS

(* There is one quotient and one remainder.                                *)
LEMMA DivUnique ==
    ASSUME NEW m \in Nat \ {0}, NEW q \in Nat, NEW r \in 0 .. m - 1
    PROVE  (m * q + r) \div m = q /\ (m * q + r) % m = r
<1> DEFINE a == m * q + r
<1>1. a \in Nat
    OBVIOUS
<1> HIDE DEF a
<1>2. a \div m \in Nat /\ a % m \in 0 .. m - 1 /\ a = m * (a \div m) + (a % m)
    BY <1>1, DivFacts
<1>3. a = m * q + r
    BY DEF a
<1>4. a \div m = q
    <2>1. PICK d \in Nat : d = a \div m
        BY <1>2
    <2>2. m * d \in Nat /\ m * q \in Nat /\ a = m * d + (a % m)
        BY <2>1, <1>2
    <2>3. ~(d < q) /\ ~(q < d)
        <3>1. d < q => m * d + m <= m * q
            BY MultiplesApart
        <3>2. q < d => m * q + m <= m * d
            BY MultiplesApart
        <3> QED BY <3>1, <3>2, <2>2, <1>2, <1>3
    <2> QED BY <2>1, <2>3
<1> QED BY <1>2, <1>3, <1>4 DEF a

(* A quotient grows with what is divided.                                  *)
LEMMA DivMonotone ==
    ASSUME NEW m \in Nat \ {0}, NEW a \in Nat, NEW b \in Nat, a <= b
    PROVE  a \div m <= b \div m
<1>1. /\ a \div m \in Nat /\ a % m \in 0 .. m - 1 /\ a = m * (a \div m) + (a % m)
      /\ b \div m \in Nat /\ b % m \in 0 .. m - 1 /\ b = m * (b \div m) + (b % m)
    BY DivFacts
<1>2. CASE b \div m < a \div m
    BY <1>1, <1>2, MultiplesApart
<1> QED BY <1>1, <1>2

(* Any set of numbers has a least element.                                 *)
LEMMA LeastOf ==
    ASSUME NEW T, T \subseteq Nat, T # {}
    PROVE  \E n \in T : \A m \in T : n <= m
<1>1. PICK n \in T : \A m \in T : ~(<<m, n>> \in OpToRel(<, Nat))
    BY NatLessThanWellFounded, WFMin, Zenon
<1>2. ASSUME NEW m \in T PROVE n <= m
    <2>1. m \in Nat /\ n \in Nat
        OBVIOUS
    <2>2. ~(m < n)
        BY <1>1, <2>1 DEF OpToRel
    <2> QED BY <2>1, <2>2
<1> QED BY <1>2

(* A set with zero and every successor has all naturals.                   *)
LEMMA NatSetInduction ==
    ASSUME NEW S, 0 \in S, \A n \in Nat : n \in S => n + 1 \in S
    PROVE  Nat \subseteq S
<1> SUFFICES ASSUME Nat \ S # {} PROVE FALSE
    OBVIOUS
<1>1. PICK n \in Nat \ S : \A m \in Nat \ S : ~(<<m, n>> \in OpToRel(<, Nat))
    BY NatLessThanWellFounded, WFMin, Zenon
<1>2. n \in Nat /\ n # 0
    OBVIOUS
<1>3. n - 1 \in Nat /\ n - 1 < n /\ n - 1 + 1 = n
    BY <1>2
<1>4. n - 1 \notin Nat \ S
    BY <1>1, <1>2, <1>3 DEF OpToRel
<1> QED BY <1>3, <1>4

-------------------------------------------------------------------------------
(* Putting a finite set in order.                                          *)

AheadOf(ds, ahead, d) == {e \in ds : <<e, d>> \in ahead}

(* The pairs order the members of ds in one way only.                      *)
Orders(ahead, ds) ==
    /\ \A d \in ds : <<d, d>> \notin ahead
    /\ \A d, e \in ds : d = e \/ <<d, e>> \in ahead \/ <<e, d>> \in ahead
    /\ \A d, e, f \in ds : <<d, e>> \in ahead /\ <<e, f>> \in ahead => <<d, f>> \in ahead

(* How many come before tells the place of each.                           *)
LEMMA AheadCount ==
    ASSUME NEW ds, IsFiniteSet(ds), NEW ahead, Orders(ahead, ds)
    PROVE  /\ Cardinality(ds) \in Nat
           /\ \A d \in ds : Cardinality(AheadOf(ds, ahead, d)) \in 0 .. Cardinality(ds) - 1
           /\ \A d, e \in ds :
                  <<d, e>> \in ahead
                      <=> Cardinality(AheadOf(ds, ahead, d)) < Cardinality(AheadOf(ds, ahead, e))
<1> DEFINE before(d) == AheadOf(ds, ahead, d)
<1>1. Cardinality(ds) \in Nat
    BY FS_CardinalityType
<1>2. ASSUME NEW d \in ds
      PROVE  /\ IsFiniteSet(before(d)) /\ Cardinality(before(d)) \in Nat
             /\ Cardinality(before(d)) <= Cardinality(ds)
             /\ Cardinality(before(d)) # Cardinality(ds)
    <2>1. before(d) \in SUBSET ds /\ d \notin before(d)
        BY DEF AheadOf, Orders
    <2>2. before(d) # ds
        BY <2>1
    <2> HIDE DEF before
    <2> QED BY <2>1, <2>2, FS_Subset, FS_CardinalityType
<1>3. ASSUME NEW d \in ds, NEW e \in ds, <<d, e>> \in ahead
      PROVE  Cardinality(before(d)) < Cardinality(before(e))
    <2>1. /\ before(d) \in SUBSET before(e) /\ d \in before(e) /\ d \notin before(d)
        BY <1>3 DEF AheadOf, Orders
    <2>2. before(d) # before(e)
        BY <2>1
    <2> HIDE DEF before
    <2>3. /\ Cardinality(before(d)) <= Cardinality(before(e))
          /\ Cardinality(before(d)) # Cardinality(before(e))
        BY <2>1, <2>2, <1>2, FS_Subset
    <2> QED BY <2>3, <1>2
<1>4. ASSUME NEW d \in ds, NEW e \in ds, Cardinality(before(d)) < Cardinality(before(e))
      PROVE  <<d, e>> \in ahead
    <2>1. d # e
        BY <1>2, <1>4
    <2>2. ~(<<e, d>> \in ahead)
        BY <1>2, <1>3, <1>4
    <2> QED BY <2>1, <2>2 DEF Orders
<1> HIDE DEF before
<1> QED BY <1>1, <1>2, <1>3, <1>4 DEF before

(* The list has each member once, and those that are ahead before.         *)
LEMMA InOrderIs ==
    ASSUME NEW ds, IsFiniteSet(ds), NEW ahead, Orders(ahead, ds)
    PROVE  /\ Cardinality(ds) \in Nat
           /\ InOrder(ds, ahead) \in [1 .. Cardinality(ds) -> ds]
           /\ \A i, j \in 1 .. Cardinality(ds) :
                  i < j <=> <<InOrder(ds, ahead)[i], InOrder(ds, ahead)[j]>> \in ahead
           /\ \A d \in ds : \E i \in 1 .. Cardinality(ds) : InOrder(ds, ahead)[i] = d
           /\ \A i \in 1 .. Cardinality(ds) :
                  Cardinality(AheadOf(ds, ahead, InOrder(ds, ahead)[i])) = i - 1
<1> DEFINE n == Cardinality(ds)
           before(d) == Cardinality(AheadOf(ds, ahead, d))
           place == [d \in ds |-> before(d) + 1]
           list == InOrder(ds, ahead)
<1>1. n \in Nat /\ \A d \in ds : before(d) \in 0 .. n - 1
    BY AheadCount
<1>2. \A d, e \in ds : <<d, e>> \in ahead <=> before(d) < before(e)
    BY AheadCount
<1> HIDE DEF n, before
<1>3. \A d, e \in ds : before(d) = before(e) => d = e
    BY <1>1, <1>2 DEF Orders
<1>4. place \in Injection(ds, 1 .. n)
    <2>1. \A d \in ds : before(d) + 1 \in 1 .. n
        BY <1>1
    <2>2. \A d, e \in ds : before(d) + 1 = before(e) + 1 => before(d) = before(e)
        BY <1>1
    <2> QED BY <2>1, <2>2, <1>3 DEF Injection, IsInjective
<1>5. IsFiniteSet(1 .. n) /\ Cardinality(1 .. n) = n
    BY <1>1, FS_Interval
<1>6. place \in Surjection(ds, 1 .. n)
    BY <1>4, <1>5, FS_Injection DEF n
<1>7. \A i \in 1 .. n : \E d \in ds : before(d) = i - 1
    <2> SUFFICES ASSUME NEW i \in 1 .. n PROVE \E d \in ds : before(d) = i - 1
        OBVIOUS
    <2>1. PICK d \in ds : place[d] = i
        BY <1>6 DEF Surjection
    <2> QED BY <2>1, <1>1
<1>8. list = [i \in 1 .. n |-> CHOOSE d \in ds : before(d) = i - 1]
    BY DEF InOrder, AheadOf, n, before
<1> HIDE DEF list, place
<1>9. ASSUME NEW i \in 1 .. n PROVE list[i] \in ds /\ before(list[i]) = i - 1
    BY <1>7, <1>8
<1>10. list \in [1 .. n -> ds]
    BY <1>8, <1>9
<1>11. ASSUME NEW i \in 1 .. n, NEW j \in 1 .. n
       PROVE  i < j <=> <<list[i], list[j]>> \in ahead
    <2>1. before(list[i]) = i - 1 /\ before(list[j]) = j - 1
        BY <1>9
    <2>2. i < j <=> before(list[i]) < before(list[j])
        BY <2>1, <1>1
    <2> QED BY <2>2, <1>2, <1>9
<1>12. ASSUME NEW d \in ds PROVE \E i \in 1 .. n : list[i] = d
    <2>1. before(d) + 1 \in 1 .. n /\ (before(d) + 1) - 1 = before(d)
        BY <1>1
    <2> QED BY <2>1, <1>3, <1>9
<1> QED BY <1>1, <1>9, <1>10, <1>11, <1>12 DEF list, n, before

(* A list has as many places as there are members, and is a sequence.      *)
LEMMA InOrderSequence ==
    ASSUME NEW ds, IsFiniteSet(ds), NEW ahead, Orders(ahead, ds)
    PROVE  /\ InOrder(ds, ahead) \in Seq(ds)
           /\ Len(InOrder(ds, ahead)) = Cardinality(ds)
           /\ DOMAIN InOrder(ds, ahead) = 1 .. Cardinality(ds)
<1> DEFINE list == InOrder(ds, ahead)
<1>1. Cardinality(ds) \in Nat /\ list \in [1 .. Cardinality(ds) -> ds]
    BY InOrderIs
<1> HIDE DEF list
<1>2. list \in Seq(ds)
    BY <1>1
<1>3. Len(list) = Cardinality(ds)
    BY <1>1, <1>2
<1> QED BY <1>1, <1>2, <1>3 DEF list

-------------------------------------------------------------------------------
(* Sums over the places of a list.                                         *)

(* One more holder has units of its own.                                   *)
LEMMA UnitsWith ==
    ASSUME NEW S, NEW x, x \notin S, NEW f \in [S \cup {x} -> Nat]
    PROVE  /\ [y \in S |-> f[y]] \in [S -> Nat]
           /\ Units(f) = Units([y \in S |-> f[y]]) \cup UnitsOf(f, x)
           /\ Units([y \in S |-> f[y]]) \cap UnitsOf(f, x) = {}
<1> DEFINE g == [y \in S |-> f[y]]
<1>1. g \in [S -> Nat] /\ \A y \in S : g[y] = f[y]
    OBVIOUS
<1> HIDE DEF g
<1>2. Units(f) = Units(g) \cup UnitsOf(f, x)
    <2>1. ASSUME NEW u \in Units(f) PROVE u \in Units(g) \cup UnitsOf(f, x)
        <3>1. PICK y \in S \cup {x} : \E i \in 1 .. f[y] : u = <<y, i>>
            BY UnitsMember
        <3>2. CASE y = x
            BY <3>1, <3>2 DEF UnitsOf
        <3>3. CASE y \in S
            BY <3>1, <3>3, <1>1, UnitsMember
        <3> QED BY <3>2, <3>3
    <2>2. ASSUME NEW u \in Units(g) PROVE u \in Units(f)
        <3>1. PICK y \in S : \E i \in 1 .. g[y] : u = <<y, i>>
            BY <1>1, UnitsMember
        <3>2. y \in S \cup {x} /\ \E i \in 1 .. f[y] : u = <<y, i>>
            BY <3>1, <1>1
        <3> QED BY <3>2, UnitsMember
    <2>3. UnitsOf(f, x) \subseteq Units(f)
        BY DEF Units
    <2> QED BY <2>1, <2>2, <2>3
<1>3. Units(g) \cap UnitsOf(f, x) = {}
    <2>1. ASSUME NEW u \in Units(g), u \in UnitsOf(f, x) PROVE FALSE
        <3>1. PICK y \in S : \E i \in 1 .. g[y] : u = <<y, i>>
            BY <1>1, UnitsMember
        <3>2. u[1] = y /\ u[1] = x
            BY <3>1, <2>1 DEF UnitsOf
        <3> QED BY <3>2
    <2> QED BY <2>1
<1> QED BY <1>1, <1>2, <1>3 DEF g

(* One more entry that is zero adds no unit.                               *)
LEMMA UnitsWithNone ==
    ASSUME NEW S, NEW x, x \notin S, NEW f \in [S \cup {x} -> Nat], f[x] = 0
    PROVE  Units(f) = Units([y \in S |-> f[y]])
<1>1. UnitsOf(f, x) = {}
    BY DEF UnitsOf
<1>2. Units(f) = Units([y \in S |-> f[y]]) \cup UnitsOf(f, x)
    BY UnitsWith
<1> QED BY <1>1, <1>2

(* One more holder adds what it has.                                       *)
LEMMA TotalWith ==
    ASSUME NEW S, IsFiniteSet(S), NEW x, x \notin S, NEW f \in [S \cup {x} -> Nat]
    PROVE  Total(f) = Total([y \in S |-> f[y]]) + f[x]
<1> DEFINE g == [y \in S |-> f[y]]
<1>1. /\ g \in [S -> Nat] /\ Units(f) = Units(g) \cup UnitsOf(f, x)
      /\ Units(g) \cap UnitsOf(f, x) = {}
    BY UnitsWith
<1> HIDE DEF g
<1>2. IsFiniteSet(Units(g)) /\ Cardinality(Units(g)) \in Nat
    BY <1>1, UnitsFinite, FS_CardinalityType
<1>3. x \in S \cup {x} /\ f[x] \in Nat
    OBVIOUS
<1>4. IsFiniteSet(UnitsOf(f, x)) /\ Cardinality(UnitsOf(f, x)) = f[x]
    BY <1>3, UnitsOfCardinality
<1>5. Cardinality(Units(f)) = Cardinality(Units(g)) + Cardinality(UnitsOf(f, x)) - 0
    BY <1>1, <1>2, <1>4, FS_Union, FS_EmptySet
<1>6. Total(f) = Total(g) + f[x]
    BY <1>2, <1>3, <1>4, <1>5 DEF Total
<1> QED BY <1>6 DEF g

(* One unit more of one holder.                                            *)
LEMMA UnitsMore ==
    ASSUME NEW S, NEW f \in [S -> Nat], NEW x \in S, NEW g \in [S -> Nat],
           g[x] = f[x] + 1, \A y \in S : y # x => g[y] = f[y]
    PROVE  Units(g) = Units(f) \cup {<<x, f[x] + 1>>} /\ <<x, f[x] + 1>> \notin Units(f)
<1>1. PICK n \in Nat : n = f[x]
    OBVIOUS
<1>2. \A i : i \in 1 .. g[x] <=> i \in 1 .. f[x] \/ i = n + 1
    BY <1>1
<1>3. \A u : u \in Units(g) <=> \E y \in S : \E i \in 1 .. g[y] : u = <<y, i>>
    BY UnitsMember
<1>4. \A u : u \in Units(f) <=> \E y \in S : \E i \in 1 .. f[y] : u = <<y, i>>
    BY UnitsMember
<1>5. ASSUME NEW u \in Units(g) PROVE u \in Units(f) \cup {<<x, n + 1>>}
    <2>1. PICK y \in S : \E i \in 1 .. g[y] : u = <<y, i>>
        BY <1>3
    <2>2. PICK i \in 1 .. g[y] : u = <<y, i>>
        BY <2>1
    <2>3. CASE y = x /\ i = n + 1
        BY <2>2, <2>3
    <2>4. CASE ~(y = x /\ i = n + 1)
        <3>1. i \in 1 .. f[y]
            BY <1>2, <2>2, <2>4
        <3> QED BY <1>4, <2>2, <3>1
    <2> QED BY <2>3, <2>4
<1>6. <<x, n + 1>> \in Units(g)
    <2>1. n + 1 \in 1 .. g[x]
        BY <1>1
    <2> QED BY <1>3, <2>1
<1>7. ASSUME NEW u \in Units(f) PROVE u \in Units(g)
    <2>1. PICK y \in S : \E i \in 1 .. f[y] : u = <<y, i>>
        BY <1>4
    <2>2. PICK i \in 1 .. f[y] : u = <<y, i>>
        BY <2>1
    <2>3. i \in 1 .. g[y]
        BY <1>2, <2>2
    <2> QED BY <1>3, <2>2, <2>3
<1>8. <<x, n + 1>> \notin Units(f)
    <2>1. ASSUME <<x, n + 1>> \in Units(f) PROVE FALSE
        <3>1. PICK y \in S : \E i \in 1 .. f[y] : <<x, n + 1>> = <<y, i>>
            BY <1>4, <2>1
        <3>2. PICK i \in 1 .. f[y] : <<x, n + 1>> = <<y, i>>
            BY <3>1
        <3>3. y = x /\ i = n + 1
            BY <3>2
        <3> QED BY <1>1, <3>3
    <2> QED BY <2>1
<1> QED BY <1>1, <1>5, <1>6, <1>7, <1>8

(* One more place adds what it has.                                        *)
LEMMA TotalGrows ==
    ASSUME NEW n \in Nat, NEW f \in [1 .. n + 1 -> Nat]
    PROVE  /\ [i \in 1 .. n |-> f[i]] \in [1 .. n -> Nat]
           /\ Total(f) = Total([i \in 1 .. n |-> f[i]]) + f[n + 1]
<1>1. /\ n + 1 \notin 1 .. n /\ 1 .. n + 1 = (1 .. n) \cup {n + 1}
      /\ \A i \in 1 .. n : i \in 1 .. n + 1
    OBVIOUS
<1>2. IsFiniteSet(1 .. n)
    BY FS_Interval
<1>3. f \in [(1 .. n) \cup {n + 1} -> Nat]
    BY <1>1
<1>4. Total(f) = Total([i \in 1 .. n |-> f[i]]) + f[n + 1]
    BY <1>1, <1>2, <1>3, TotalWith
<1> QED BY <1>1, <1>4
===============================================================================
