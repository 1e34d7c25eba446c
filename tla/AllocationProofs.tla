-------------------------- MODULE AllocationProofs --------------------------
(***************************************************************************)
(* What the authority allocates stays within the capacity of its paths,    *)
(* for every number of paths and grants.                                   *)
(***************************************************************************)
EXTENDS Ledger, AuthorityProofs, Functions, WellFoundedInduction

------------------------------------------------------------------------------
(* Fixed-width arithmetic against unbounded integers, and the sums over finite sets *)
(* the capacity ledger is made of                                                    *)

\* value * bps / kScale over the integers, rounded down, or the largest amount.
ExactFraction(value, bps) == min_amount((value * bps) \div kScale, kAmountMax)

\* Quotient and remainder by a positive divisor.
LEMMA Division ==
    ASSUME NEW a \in Nat, NEW d \in Nat \ {0}
    PROVE  /\ a \div d \in Nat
           /\ a % d \in 0 .. d - 1
           /\ a = d * (a \div d) + (a % d)
    BY SMT

\* A quotient is the only number that leaves a remainder below the divisor.
LEMMA QuotientUnique ==
    ASSUME NEW a \in Nat, NEW d \in Nat \ {0}, NEW c \in Nat, NEW r \in 0 .. d - 1,
           a = d * c + r
    PROVE  a \div d = c
<1> DEFINE k == a \div d
           s == a % d
<1>1. k \in Nat /\ s \in 0 .. d - 1 /\ a = d * k + s
    BY Division
<1> HIDE DEF k, s
<1>2. d * k + s = d * c + r
    BY <1>1
<1>3. CASE k < c
    <2>1. k + 1 <= c
        BY <1>1, <1>3
    <2>2. d * (k + 1) <= d * c
        BY <1>1, <2>1, SMT
    <2>3. d * k + d <= d * c
        BY <1>1, <2>2, SMT
    <2> QED
        BY <1>1, <1>2, <2>3, SMT
<1>4. CASE k > c
    <2>1. c + 1 <= k
        BY <1>1, <1>4
    <2>2. d * (c + 1) <= d * k
        BY <1>1, <2>1, SMT
    <2>3. d * c + d <= d * k
        BY <1>1, <2>2, SMT
    <2> QED
        BY <1>1, <1>2, <2>3, SMT
<1> QED
    BY <1>1, <1>3, <1>4 DEF k

\* Splitting a value into wholes and a remainder and scaling the parts apart
\* gives the quotient of the product.
LEMMA SplitQuotient ==
    ASSUME NEW v \in Nat, NEW b \in Nat
    PROVE  (v * b) \div kScale
                = (v \div kScale) * b + ((v % kScale) * b) \div kScale
<1> DEFINE q == v \div kScale
           r == v % kScale
           x == r * b
           y == x \div kScale
           z == x % kScale
<1>1. q \in Nat /\ r \in 0 .. kScale - 1 /\ v = kScale * q + r
    BY Division, CapacityAssumption
<1>2. x \in Nat
    BY <1>1, SMT
<1>3. y \in Nat /\ z \in 0 .. kScale - 1 /\ x = kScale * y + z
    BY <1>2, Division, CapacityAssumption
<1>4. x = r * b
    OBVIOUS
<1> HIDE DEF q, r, x, y, z
<1>5. v * b = (kScale * q) * b + x
    BY <1>1, <1>4, CapacityAssumption, SMT
<1>6. (kScale * q) * b = kScale * (q * b) /\ q * b \in Nat
    BY <1>1, CapacityAssumption, SMT
<1>7. kScale * (q * b) + kScale * y = kScale * (q * b + y)
    BY <1>3, <1>6, CapacityAssumption, SMT
<1>8. v * b = kScale * (q * b + y) + z
    BY <1>3, <1>5, <1>6, <1>7, CapacityAssumption, SMT
<1>9. v * b \in Nat /\ q * b + y \in Nat
    BY <1>3, <1>6, SMT
<1>10. (v * b) \div kScale = q * b + y
    BY <1>3, <1>8, <1>9, QuotientUnique, CapacityAssumption
<1> QED
    BY <1>10 DEF q, r, x, y

\* When more wholes than the width has room for are scaled, the product does
\* not fit.
LEMMA WholesOverflow ==
    ASSUME NEW q \in Nat, NEW b \in Nat \ {0}, q > kAmountMax \div b
    PROVE  q * b > kAmountMax
<1> DEFINE k == kAmountMax \div b
           s == kAmountMax % b
<1>1. k \in Nat /\ s \in 0 .. b - 1 /\ kAmountMax = b * k + s /\ q > k
    BY Division, CapacityAssumption
<1> HIDE DEF k, s
<1>2. q >= k + 1
    BY <1>1
<1>3. q * b >= (k + 1) * b
    BY <1>1, <1>2, SMT
<1>4. (k + 1) * b = b * k + b
    BY <1>1, SMT
<1> QED
    BY <1>1, <1>3, <1>4, CapacityAssumption, SMT

\* And when they are not, it does.
LEMMA WholesFit ==
    ASSUME NEW q \in Nat, NEW b \in Nat \ {0}, ~(q > kAmountMax \div b)
    PROVE  q * b <= kAmountMax
<1> DEFINE k == kAmountMax \div b
           s == kAmountMax % b
<1>1. k \in Nat /\ s \in 0 .. b - 1 /\ kAmountMax = b * k + s /\ q <= k
    BY Division, CapacityAssumption
<1> HIDE DEF k, s
<1>2. q * b <= k * b
    BY <1>1, SMT
<1>3. k * b = b * k
    BY <1>1, SMT
<1> QED
    BY <1>1, <1>2, <1>3, CapacityAssumption, SMT

\* fraction_bps is the exact quotient, rounded down, or the largest amount when
\* that does not fit: splitting the value loses nothing and no overflow exit is
\* taken too early.  The ratio must leave room for a remainder below kScale; with
\* 64-bit amounts and kScale = 10000 every 32-bit ratio does.
THEOREM FractionExact ==
    ASSUME NEW value \in Amount, NEW basis_points \in Nat,
           kScale * basis_points <= kAmountMax
    PROVE  fraction_bps(value, basis_points) = ExactFraction(value, basis_points)
<1> DEFINE q == value \div kScale
           r == value % kScale
           y == (r * basis_points) \div kScale
<1>1. value \in Nat
    BY CapacityAssumption DEF Amount
<1>2. q \in Nat /\ r \in 0 .. kScale - 1
    BY <1>1, Division, CapacityAssumption
<1>3. r * basis_points \in Nat
    BY <1>2, SMT
<1>4. y \in Nat
    BY <1>3, Division, CapacityAssumption
<1>5. (value * basis_points) \div kScale = q * basis_points + y
    BY <1>1, SplitQuotient
<1>6. r * basis_points <= kScale * basis_points
    BY <1>2, CapacityAssumption, SMT
<1>7. r * basis_points <= kAmountMax
    BY <1>3, <1>6, CapacityAssumption, SMT
<1>8. ExactFraction(value, basis_points) = min_amount(q * basis_points + y, kAmountMax)
    BY <1>5 DEF ExactFraction
<1>9. CASE basis_points = 0 \/ value = 0
    <2>1. fraction_bps(value, basis_points) = 0
        BY <1>9 DEF fraction_bps
    <2>2. value * basis_points = 0
        BY <1>1, <1>9, SMT
    <2>3. 0 \div kScale = 0
        BY QuotientUnique, CapacityAssumption
    <2> QED
        BY <2>1, <2>2, <2>3, CapacityAssumption DEF ExactFraction, min_amount
<1>10. CASE basis_points # 0 /\ value # 0 /\ q > kAmountMax \div basis_points
    <2>1. q * basis_points > kAmountMax
        BY <1>2, <1>10, WholesOverflow
    <2>2. q * basis_points \in Nat
        BY <1>2, SMT
    <2>3. fraction_bps(value, basis_points) = kAmountMax
        BY <1>10 DEF fraction_bps
    <2>4. q * basis_points + y > kAmountMax
        BY <1>4, <2>1, <2>2, CapacityAssumption, SMT
    <2> HIDE DEF q, y
    <2> QED
        BY <1>8, <2>3, <2>4 DEF min_amount
<1>11. CASE basis_points # 0 /\ value # 0 /\ ~(q > kAmountMax \div basis_points)
    <2>1. q * basis_points <= kAmountMax /\ q * basis_points \in Nat
        BY <1>2, <1>11, WholesFit, SMT
    <2>2. ~(r * basis_points > kAmountMax)
        BY <1>3, <1>7, CapacityAssumption
    <2>3. fraction_bps(value, basis_points) = saturating_add(q * basis_points, y)
        BY <1>11, <2>2 DEF fraction_bps
    <2> HIDE DEF q, r, y
    <2> DEFINE w == q * basis_points
    <2>4. w \in Nat /\ w <= kAmountMax
        BY <2>1
    <2> HIDE DEF w
    <2>5. saturating_add(w, y) = min_amount(w + y, kAmountMax)
        BY <1>4, <2>4, CapacityAssumption DEF saturating_add, min_amount
    <2> QED
        BY <1>8, <2>3, <2>5 DEF w
<1> QED
    BY <1>9, <1>10, <1>11

\* A larger number has no smaller quotient.
LEMMA QuotientMonotone ==
    ASSUME NEW a \in Nat, NEW b \in Nat, a <= b, NEW d \in Nat \ {0}
    PROVE  a \div d <= b \div d
<1> DEFINE k == a \div d
           s == a % d
           m == b \div d
           t == b % d
<1>1. k \in Nat /\ s \in 0 .. d - 1 /\ a = d * k + s
    BY Division
<1>2. m \in Nat /\ t \in 0 .. d - 1 /\ b = d * m + t
    BY Division
<1> HIDE DEF k, s, m, t
<1>3. ASSUME k > m PROVE FALSE
    <2>1. m + 1 <= k
        BY <1>1, <1>2, <1>3
    <2>2. d * (m + 1) <= d * k
        BY <1>1, <1>2, <2>1, SMT
    <2>3. d * m + d <= d * k
        BY <1>1, <1>2, <2>2, SMT
    <2>4. d * m \in Nat /\ d * k \in Nat
        BY <1>1, <1>2, SMT
    <2> QED
        BY <1>1, <1>2, <2>3, <2>4, SMT
<1> QED
    BY <1>1, <1>2, <1>3 DEF k, m

\* Saturating addition never exceeds the width, and grows with both addends.
LEMMA SaturatingAdd ==
    ASSUME NEW a \in Amount, NEW b \in Nat, NEW c \in Amount, NEW d \in Nat, a <= c, b <= d
    PROVE  /\ saturating_add(a, b) \in Amount
           /\ a <= saturating_add(a, b)
           /\ saturating_add(a, b) <= saturating_add(c, d)
BY CapacityAssumption DEF saturating_add, Amount

\* The ways fraction_bps ends when there is something to scale.
LEMMA FractionCases ==
    ASSUME NEW value \in Nat \ {0}, NEW b \in Nat \ {0}
    PROVE  LET q == value \div kScale
               r == value % kScale
           IN  \/ /\ q * b > kAmountMax \/ r * b > kAmountMax
                  /\ fraction_bps(value, b) = kAmountMax
               \/ /\ q * b <= kAmountMax /\ r * b <= kAmountMax
                  /\ fraction_bps(value, b) = saturating_add(q * b, (r * b) \div kScale)
<1> DEFINE q == value \div kScale
           r == value % kScale
<1>1. q \in Nat /\ r \in Nat
    BY Division, CapacityAssumption
<1>2. fraction_bps(value, b) = IF q > kAmountMax \div b THEN kAmountMax
                               ELSE IF r * b > kAmountMax THEN kAmountMax
                               ELSE saturating_add(q * b, (r * b) \div kScale)
    BY DEF fraction_bps
<1> HIDE DEF q, r
<1>3. q > kAmountMax \div b => q * b > kAmountMax
    BY <1>1, WholesOverflow
<1>4. ~(q > kAmountMax \div b) => q * b <= kAmountMax
    BY <1>1, WholesFit
<1>5. r * b \in Nat
    BY <1>1, SMT
<1>6. ~(r * b > kAmountMax) => r * b <= kAmountMax
    BY <1>5, CapacityAssumption
<1>7. \/ /\ q * b > kAmountMax \/ r * b > kAmountMax
         /\ fraction_bps(value, b) = kAmountMax
      \/ /\ q * b <= kAmountMax /\ r * b <= kAmountMax
         /\ fraction_bps(value, b) = saturating_add(q * b, (r * b) \div kScale)
    BY <1>2, <1>3, <1>4, <1>6, Zenon
<1> QED
    BY <1>7 DEF q, r

\* A larger ratio never yields a smaller share, saturation included.
LEMMA FractionMonotone ==
    ASSUME NEW value \in Nat, NEW b \in Nat, NEW c \in Nat, b <= c
    PROVE  /\ fraction_bps(value, b) \in Amount
           /\ fraction_bps(value, c) \in Amount
           /\ fraction_bps(value, b) <= fraction_bps(value, c)
<1> DEFINE q == value \div kScale
           r == value % kScale
<1>1. q \in Nat /\ r \in Nat
    BY Division, CapacityAssumption
<1>2. /\ q * b \in Nat /\ q * c \in Nat /\ q * b <= q * c
      /\ r * b \in Nat /\ r * c \in Nat /\ r * b <= r * c
    BY <1>1, SMT
<1>3. /\ (r * b) \div kScale \in Nat /\ (r * c) \div kScale \in Nat
      /\ (r * b) \div kScale <= (r * c) \div kScale
    BY <1>2, Division, QuotientMonotone, CapacityAssumption
<1>4. b # 0 /\ value # 0 =>
            \/ /\ q * b > kAmountMax \/ r * b > kAmountMax
               /\ fraction_bps(value, b) = kAmountMax
            \/ /\ q * b <= kAmountMax /\ r * b <= kAmountMax
               /\ fraction_bps(value, b) = saturating_add(q * b, (r * b) \div kScale)
    BY FractionCases
<1>5. c # 0 /\ value # 0 =>
            \/ /\ q * c > kAmountMax \/ r * c > kAmountMax
               /\ fraction_bps(value, c) = kAmountMax
            \/ /\ q * c <= kAmountMax /\ r * c <= kAmountMax
               /\ fraction_bps(value, c) = saturating_add(q * c, (r * c) \div kScale)
    BY FractionCases
<1>6. /\ b = 0 \/ value = 0 => fraction_bps(value, b) = 0
      /\ c = 0 \/ value = 0 => fraction_bps(value, c) = 0
    BY DEF fraction_bps
<1> DEFINE qb == q * b
           qc == q * c
           rb == r * b
           rc == r * c
           yb == rb \div kScale
           yc == rc \div kScale
           x  == fraction_bps(value, b)
           z  == fraction_bps(value, c)
<1>7. /\ qb <= kAmountMax => saturating_add(qb, yb) \in Amount
      /\ qc <= kAmountMax => /\ saturating_add(qc, yc) \in Amount
                             /\ saturating_add(qb, yb) <= saturating_add(qc, yc)
    <2>1. /\ qb \in Nat /\ qc \in Nat /\ qb <= qc
          /\ yb \in Nat /\ yc \in Nat /\ yb <= yc
        BY <1>2, <1>3
    <2> HIDE DEF qb, qc, yb, yc
    <2>2. /\ qb <= kAmountMax => qb \in Amount
          /\ qc <= kAmountMax => qc \in Amount /\ qb \in Amount
        BY <2>1, CapacityAssumption DEF Amount
    <2> QED
        BY <2>1, <2>2, SaturatingAdd
<1>8. /\ qb \in Nat /\ qc \in Nat /\ qb <= qc
      /\ rb \in Nat /\ rc \in Nat /\ rb <= rc
    BY <1>2
<1>9. b # 0 /\ value # 0 =>
            \/ (qb > kAmountMax \/ rb > kAmountMax) /\ x = kAmountMax
            \/ qb <= kAmountMax /\ rb <= kAmountMax /\ x = saturating_add(qb, yb)
    BY <1>4
<1>10. c # 0 /\ value # 0 =>
            \/ (qc > kAmountMax \/ rc > kAmountMax) /\ z = kAmountMax
            \/ qc <= kAmountMax /\ rc <= kAmountMax /\ z = saturating_add(qc, yc)
    BY <1>5
<1>11. (b = 0 \/ value = 0 => x = 0) /\ (c = 0 \/ value = 0 => z = 0)
    BY <1>6
<1> HIDE DEF qb, qc, rb, rc, yb, yc, x, z
<1>12. x \in Amount /\ z \in Amount
    BY <1>7, <1>9, <1>10, <1>11, CapacityAssumption DEF Amount
<1>13. x <= z
    BY <1>7, <1>8, <1>9, <1>10, <1>11, <1>12, CapacityAssumption DEF Amount
<1> QED
    BY <1>12, <1>13 DEF x, z

\* A larger ratio never extends a path's capacity by less.
LEMMA ExtensionMonotone ==
    ASSUME NEW usable \in Nat, NEW b \in Nat, NEW c \in Nat, b <= c
    PROVE  /\ oversubscription_extension(usable, b) \in Amount
           /\ oversubscription_extension(usable, b) <= oversubscription_extension(usable, c)
<1>1. 0 \in Amount
    BY CapacityAssumption DEF Amount
<1>2. \A i \in Nat : fraction_bps(usable, i) \in Amount
    BY FractionMonotone
<1>3. CASE b <= kScale /\ c <= kScale
    BY <1>1, <1>3 DEF oversubscription_extension
<1>4. CASE b <= kScale /\ ~(c <= kScale)
    <2>1. c - kScale \in Nat
        BY <1>4, CapacityAssumption
    <2>2. fraction_bps(usable, c - kScale) \in Amount
        BY <1>2, <2>1
    <2> QED
        BY <1>1, <1>4, <2>2, CapacityAssumption DEF oversubscription_extension, Amount
<1>5. CASE ~(b <= kScale) /\ ~(c <= kScale)
    <2>1. b - kScale \in Nat /\ c - kScale \in Nat /\ b - kScale <= c - kScale
        BY <1>5, CapacityAssumption
    <2> QED
        BY <1>5, <2>1, FractionMonotone DEF oversubscription_extension
<1> QED
    BY <1>3, <1>4, <1>5, CapacityAssumption

------------------------------------------------------------------------------
(* Sums over finite sets.  A fact about every finite set is shown by looking  *)
(* at a smallest set for which it fails.                                      *)

\* A family of subsets of a finite set has a smallest member.
LEMMA FiniteMinimal ==
    ASSUME NEW S, IsFiniteSet(S), NEW F, F \subseteq SUBSET S, F # {}
    PROVE  \E T \in F : \A U \in F : U \subseteq T => U = T
<1>1. F \subseteq FiniteSubsetsOf(S)
    BY FS_Subset DEF FiniteSubsetsOf
<1>2. PICK T \in F : \A U \in F : ~ (<<U, T>> \in StrictSubsetOrdering(S))
    BY <1>1, FS_StrictSubsetOrderingWellFounded, WFMin
<1> QED
    BY <1>2 DEF StrictSubsetOrdering

\* The element the fold of the library takes first.
First(s) == CHOOSE x \in s : TRUE

\* The partial sums over the subsets of D, as the library's fold computes them.
PartialSums(it, f, D) ==
    it = [s \in SUBSET D |-> IF s = {} THEN 0 ELSE f[First(s)] + it[s \ {First(s)}]]

\* A sum of the library is the last of its partial sums.
LEMMA SumIsPartialSum ==
    ASSUME NEW f, NEW S
    PROVE  SumFunctionOnSet(f, S) = (CHOOSE it : PartialSums(it, f, S))[S]
BY DEF SumFunctionOnSet, FoldFunctionOnSet, MapThenFoldSet, PartialSums, First

\* What partial sums are.
LEMMA PartialSumValues ==
    ASSUME NEW f, NEW D, NEW it, PartialSums(it, f, D), NEW s \in SUBSET D
    PROVE  /\ s = {} => it[s] = 0
           /\ s # {} => /\ First(s) \in s
                        /\ it[s] = f[First(s)] + it[s \ {First(s)}]
<1>1. s # {} => First(s) \in s
    BY DEF First
<1> DEFINE G(t) == IF t = {} THEN 0 ELSE f[First(t)] + it[t \ {First(t)}]
<1>2. it = [t \in SUBSET D |-> G(t)]
    BY DEF PartialSums
<1> HIDE DEF G
<1>3. it[s] = G(s)
    BY <1>2
<1> QED
    BY <1>1, <1>3 DEF G

\* Partial sums agree wherever both are defined.
LEMMA PartialSumsUnique ==
    ASSUME NEW f, NEW D, NEW E, NEW a, NEW b, IsFiniteSet(D),
           PartialSums(a, f, D), PartialSums(b, f, E), NEW t \in SUBSET (D \cap E)
    PROVE  a[t] = b[t]
<1> SUFFICES ASSUME a[t] # b[t] PROVE FALSE
    OBVIOUS
<1> DEFINE F == {s \in SUBSET (D \cap E) : a[s] # b[s]}
<1>1. PICK s \in F : \A u \in F : u \subseteq s => u = s
    <2>1. F \subseteq SUBSET D /\ F # {}
        OBVIOUS
    <2> HIDE DEF F
    <2> QED
        BY <2>1, FiniteMinimal
<1>2. s \in SUBSET D /\ s \in SUBSET E /\ a[s] # b[s]
    OBVIOUS
<1>3. s # {}
    BY <1>2, PartialSumValues
<1>4. /\ First(s) \in s
      /\ a[s] = f[First(s)] + a[s \ {First(s)}]
      /\ b[s] = f[First(s)] + b[s \ {First(s)}]
    <2> HIDE DEF F
    <2>1. First(s) \in s /\ a[s] = f[First(s)] + a[s \ {First(s)}]
        BY <1>2, <1>3, PartialSumValues
    <2>2. b[s] = f[First(s)] + b[s \ {First(s)}]
        BY <1>2, <1>3, PartialSumValues
    <2> QED
        BY <2>1, <2>2
<1>5. s \ {First(s)} \notin F
    BY <1>1, <1>4
<1>6. a[s \ {First(s)}] = b[s \ {First(s)}]
    BY <1>2, <1>5
<1> QED
    BY <1>2, <1>4, <1>6

\* Every finite set has partial sums.
LEMMA PartialSumsExist ==
    ASSUME NEW f, NEW S, IsFiniteSet(S)
    PROVE  \E it : PartialSums(it, f, S)
<1> DEFINE Has(D) == \E it : PartialSums(it, f, D)
           Val(D) == (CHOOSE it : PartialSums(it, f, D))[D]
           F == {D \in SUBSET S : ~ Has(D)}
<1> SUFFICES ASSUME ~ Has(S) PROVE FALSE
    OBVIOUS
<1>1. PICK T \in F : \A U \in F : U \subseteq T => U = T
    <2>1. F \subseteq SUBSET S /\ F # {}
        OBVIOUS
    <2> HIDE DEF F
    <2> QED
        BY <2>1, FiniteMinimal
<1>2. T \in SUBSET S /\ ~ Has(T) /\ IsFiniteSet(T)
    BY FS_Subset
<1>3. \A U \in SUBSET T : U # T => Has(U) /\ IsFiniteSet(U)
    BY <1>1, <1>2, FS_Subset
<1> HIDE DEF F
<1> DEFINE g == [s \in SUBSET T |-> IF s = {} THEN 0
                                    ELSE f[First(s)] + Val(s \ {First(s)})]
<1>4. ASSUME NEW s \in SUBSET T, s # T PROVE g[s] = Val(s)
    <2>1. PICK it : PartialSums(it, f, s) /\ Val(s) = it[s]
        BY <1>3, <1>4
    <2>2. CASE s = {}
        <3>1. it[s] = 0
            BY <2>1, <2>2, PartialSumValues
        <3> QED
            BY <2>1, <2>2, <3>1
    <2>3. CASE s # {}
        <3>1. First(s) \in s /\ it[s] = f[First(s)] + it[s \ {First(s)}]
            BY <2>1, <2>3, PartialSumValues
        <3> DEFINE u == s \ {First(s)}
        <3>2. u \in SUBSET T /\ u # T /\ u \in SUBSET s
            BY <1>4
        <3>3. PICK jt : PartialSums(jt, f, u) /\ Val(u) = jt[u]
            BY <1>3, <3>2
        <3>4. IsFiniteSet(s) /\ u \in SUBSET (s \cap u)
            BY <1>2, FS_Subset
        <3> HIDE DEF u
        <3>5. it[u] = jt[u]
            BY <2>1, <3>3, <3>4, PartialSumsUnique
        <3>6. g[s] = f[First(s)] + Val(u)
            BY <2>3 DEF u
        <3> HIDE DEF g, Val
        <3> QED
            BY <2>1, <3>1, <3>3, <3>5, <3>6 DEF u
    <2> QED
        BY <2>2, <2>3
<1>5. PartialSums(g, f, T)
    <2> DEFINE H(s) == IF s = {} THEN 0 ELSE f[First(s)] + g[s \ {First(s)}]
    <2>1. ASSUME NEW s \in SUBSET T PROVE g[s] = H(s)
        <3>1. CASE s = {}
            BY <3>1
        <3>2. CASE s # {}
            <4>1. First(s) \in s
                BY <3>2 DEF First
            <4>2. s \ {First(s)} \in SUBSET T /\ s \ {First(s)} # T
                BY <4>1
            <4>3. g[s \ {First(s)}] = Val(s \ {First(s)})
                BY <1>4, <4>2
            <4>4. g[s] = f[First(s)] + Val(s \ {First(s)})
                BY <3>2
            <4> HIDE DEF g, Val
            <4> QED
                BY <3>2, <4>3, <4>4
        <3> QED
            BY <3>1, <3>2
    <2>2. DOMAIN g = SUBSET T /\ g = [s \in SUBSET T |-> g[s]]
        OBVIOUS
    <2> HIDE DEF g, H
    <2>3. g = [s \in SUBSET T |-> H(s)]
        BY <2>1, <2>2
    <2> QED
        BY <2>3 DEF H, PartialSums
<1> QED
    BY <1>2, <1>5

\* The recursion of a sum over a finite set.
LEMMA SumStep ==
    ASSUME NEW f, NEW s, IsFiniteSet(s)
    PROVE  /\ s = {} => SumFunctionOnSet(f, s) = 0
           /\ s # {} => /\ First(s) \in s
                        /\ SumFunctionOnSet(f, s)
                              = f[First(s)] + SumFunctionOnSet(f, s \ {First(s)})
<1>1. PICK it : PartialSums(it, f, s) /\ SumFunctionOnSet(f, s) = it[s]
    BY PartialSumsExist, SumIsPartialSum
<1>2. s \in SUBSET s
    OBVIOUS
<1>3. /\ s = {} => it[s] = 0
      /\ s # {} => First(s) \in s /\ it[s] = f[First(s)] + it[s \ {First(s)}]
    BY <1>1, <1>2, PartialSumValues
<1> DEFINE u == s \ {First(s)}
<1>4. IsFiniteSet(u) /\ u \in SUBSET (s \cap u)
    BY FS_Subset
<1> HIDE DEF u
<1>5. PICK jt : PartialSums(jt, f, u) /\ SumFunctionOnSet(f, u) = jt[u]
    BY <1>4, PartialSumsExist, SumIsPartialSum
<1>6. it[u] = jt[u]
    BY <1>1, <1>4, <1>5, PartialSumsUnique
<1> QED
    BY <1>1, <1>3, <1>5, <1>6 DEF u

\* A sum of naturals over a finite set is a natural number.
LEMMA SumType ==
    ASSUME NEW S, IsFiniteSet(S), NEW f, \A x \in S : f[x] \in Nat
    PROVE  SumFunctionOnSet(f, S) \in Nat
<1> DEFINE F == {s \in SUBSET S : SumFunctionOnSet(f, s) \notin Nat}
<1> SUFFICES ASSUME F # {} PROVE FALSE
    OBVIOUS
<1>1. PICK s \in F : \A u \in F : u \subseteq s => u = s
    <2>1. F \subseteq SUBSET S
        OBVIOUS
    <2> HIDE DEF F
    <2> QED
        BY <2>1, FiniteMinimal
<1>2. s \in SUBSET S /\ IsFiniteSet(s) /\ SumFunctionOnSet(f, s) \notin Nat
    BY FS_Subset
<1>3. s # {} /\ First(s) \in s
      /\ SumFunctionOnSet(f, s) = f[First(s)] + SumFunctionOnSet(f, s \ {First(s)})
    <2> HIDE DEF F
    <2>1. s # {}
        <3>1. s = {} => SumFunctionOnSet(f, s) = 0
            BY <1>2, SumStep
        <3> QED
            BY <1>2, <3>1
    <2> QED
        BY <1>2, <2>1, SumStep
<1>4. SumFunctionOnSet(f, s \ {First(s)}) \in Nat
    BY <1>1, <1>2, <1>3
<1> QED
    BY <1>2, <1>3, <1>4

\* Any element may be taken out of a sum.
LEMMA SumTakes ==
    ASSUME NEW S, IsFiniteSet(S), NEW f, \A x \in S : f[x] \in Nat, NEW y \in S
    PROVE  SumFunctionOnSet(f, S) = f[y] + SumFunctionOnSet(f, S \ {y})
<1> DEFINE V(s) == SumFunctionOnSet(f, s)
           F == {s \in SUBSET S : \E z \in s : V(s) # f[z] + V(s \ {z})}
<1> SUFFICES ASSUME F # {} PROVE FALSE
    OBVIOUS
<1>1. PICK s \in F : \A u \in F : u \subseteq s => u = s
    <2>1. F \subseteq SUBSET S
        OBVIOUS
    <2> HIDE DEF F
    <2> QED
        BY <2>1, FiniteMinimal
<1>2. s \in SUBSET S
    OBVIOUS
<1>3. PICK z \in s : V(s) # f[z] + V(s \ {z})
    OBVIOUS
<1> DEFINE x == First(s)
<1>4. IsFiniteSet(s)
    BY <1>2, FS_Subset
<1>5. x \in s /\ V(s) = f[x] + V(s \ {x})
    BY <1>3, <1>4, SumStep
<1>6. x # z
    BY <1>3, <1>5
<1>7. s \ {x} \notin F /\ s \ {z} \notin F
    BY <1>1, <1>3, <1>5
<1> HIDE DEF V, x
<1>8. V(s \ {x}) = f[z] + V((s \ {x}) \ {z}) /\ V(s \ {z}) = f[x] + V((s \ {z}) \ {x})
    BY <1>2, <1>3, <1>5, <1>6, <1>7
<1>9. (s \ {x}) \ {z} = (s \ {z}) \ {x}
    OBVIOUS
<1>10. V((s \ {x}) \ {z}) \in Nat /\ f[x] \in Nat /\ f[z] \in Nat
    <2>1. IsFiniteSet((s \ {x}) \ {z}) /\ (\A w \in (s \ {x}) \ {z} : f[w] \in Nat)
        BY <1>2, <1>4, FS_Subset
    <2> QED
        BY <1>2, <1>5, <2>1, SumType DEF V
<1> QED
    BY <1>3, <1>5, <1>8, <1>9, <1>10

\* A sum depends on the values at the elements summed up alone.
LEMMA SumSame ==
    ASSUME NEW f, NEW g, NEW S, \A x \in S : f[x] = g[x]
    PROVE  SumFunctionOnSet(f, S) = SumFunctionOnSet(g, S)
<1>1. \A s \in SUBSET S : s # {} => First(s) \in s
    BY DEF First
<1>2. ASSUME NEW it PROVE PartialSums(it, f, S) <=> PartialSums(it, g, S)
    <2> DEFINE A(s) == IF s = {} THEN 0 ELSE f[First(s)] + it[s \ {First(s)}]
               B(s) == IF s = {} THEN 0 ELSE g[First(s)] + it[s \ {First(s)}]
    <2>1. \A s \in SUBSET S : A(s) = B(s)
        BY <1>1
    <2> HIDE DEF A, B
    <2>2. [s \in SUBSET S |-> A(s)] = [s \in SUBSET S |-> B(s)]
        BY <2>1
    <2> QED
        BY <2>2 DEF PartialSums, A, B
<1>3. (CHOOSE it : PartialSums(it, f, S)) = (CHOOSE it : PartialSums(it, g, S))
    BY <1>2, Zenon
<1> QED
    BY <1>3, SumIsPartialSum

\* The sum over two disjoint sets.
LEMMA SumUnion ==
    ASSUME NEW A, NEW B, IsFiniteSet(A), IsFiniteSet(B), A \cap B = {},
           NEW f, \A x \in A \cup B : f[x] \in Nat
    PROVE  SumFunctionOnSet(f, A \cup B) = SumFunctionOnSet(f, A) + SumFunctionOnSet(f, B)
<1> DEFINE V(s) == SumFunctionOnSet(f, s)
           F == {s \in SUBSET B : V(A \cup s) # V(A) + V(s)}
<1> SUFFICES ASSUME F # {} PROVE FALSE
    OBVIOUS
<1>1. PICK s \in F : \A u \in F : u \subseteq s => u = s
    <2>1. F \subseteq SUBSET B
        OBVIOUS
    <2> HIDE DEF F
    <2> QED
        BY <2>1, FiniteMinimal
<1>2. s \in SUBSET B /\ V(A \cup s) # V(A) + V(s)
    OBVIOUS
<1>3. IsFiniteSet(s) /\ IsFiniteSet(A \cup s) /\ V(A) \in Nat
    <2>1. IsFiniteSet(s)
        BY <1>2, FS_Subset
    <2> QED
        BY <2>1, FS_Union, SumType
<1>4. s # {}
    <2>1. ASSUME s = {} PROVE FALSE
        <3>1. A \cup s = A /\ V(s) = 0
            BY <1>3, <2>1, SumStep
        <3> HIDE DEF V, F
        <3>2. V(A \cup s) = V(A)
            BY <3>1
        <3> QED
            BY <1>2, <1>3, <3>1, <3>2
    <2> QED
        BY <2>1
<1>5. PICK y \in s : TRUE
    BY <1>4
<1>6. V(s) = f[y] + V(s \ {y}) /\ V(A \cup s) = f[y] + V((A \cup s) \ {y})
    BY <1>2, <1>3, SumTakes
<1>7. (A \cup s) \ {y} = A \cup (s \ {y})
    BY <1>2
<1>8. s \ {y} \notin F
    BY <1>1
<1>9. V(A \cup (s \ {y})) = V(A) + V(s \ {y})
    BY <1>2, <1>8
<1>10. V(s \ {y}) \in Nat /\ f[y] \in Nat
    <2>1. IsFiniteSet(s \ {y}) /\ \A x \in s \ {y} : f[x] \in Nat
        BY <1>2, <1>3, FS_Subset
    <2> QED
        BY <1>2, <2>1, SumType
<1> HIDE DEF V
<1> QED
    BY <1>2, <1>3, <1>6, <1>7, <1>9, <1>10

\* A part of a sum is at most the sum.
LEMMA SumPart ==
    ASSUME NEW B, IsFiniteSet(B), NEW A \in SUBSET B, NEW f, \A x \in B : f[x] \in Nat
    PROVE  SumFunctionOnSet(f, A) <= SumFunctionOnSet(f, B)
<1>1. IsFiniteSet(A) /\ IsFiniteSet(B \ A)
    BY FS_Subset
<1>2. A \cup (B \ A) = B /\ A \cap (B \ A) = {}
    OBVIOUS
<1>3. SumFunctionOnSet(f, B) = SumFunctionOnSet(f, A) + SumFunctionOnSet(f, B \ A)
    BY <1>1, <1>2, SumUnion
<1>4. SumFunctionOnSet(f, A) \in Nat /\ SumFunctionOnSet(f, B \ A) \in Nat
    BY <1>1, SumType
<1> QED
    BY <1>3, <1>4

\* Larger values have no smaller sum.
LEMMA SumMonotone ==
    ASSUME NEW S, IsFiniteSet(S), NEW f, NEW g,
           \A x \in S : f[x] \in Nat /\ g[x] \in Nat /\ f[x] <= g[x]
    PROVE  SumFunctionOnSet(f, S) <= SumFunctionOnSet(g, S)
<1> DEFINE V(s) == SumFunctionOnSet(f, s)
           W(s) == SumFunctionOnSet(g, s)
           F == {s \in SUBSET S : ~(V(s) <= W(s))}
<1> SUFFICES ASSUME F # {} PROVE FALSE
    OBVIOUS
<1>1. PICK s \in F : \A u \in F : u \subseteq s => u = s
    <2>1. F \subseteq SUBSET S
        OBVIOUS
    <2> HIDE DEF F
    <2> QED
        BY <2>1, FiniteMinimal
<1>2. s \in SUBSET S /\ ~(V(s) <= W(s))
    OBVIOUS
<1>3. IsFiniteSet(s)
    BY <1>2, FS_Subset
<1>4. s # {}
    <2>1. s = {} => V(s) = 0 /\ W(s) = 0
        BY <1>3, SumStep
    <2> HIDE DEF V, W, F
    <2> QED
        BY <1>2, <2>1
<1>5. PICK y \in s : TRUE
    BY <1>4
<1>6. V(s) = f[y] + V(s \ {y}) /\ W(s) = g[y] + W(s \ {y})
    BY <1>2, <1>3, SumTakes
<1>7. V(s \ {y}) <= W(s \ {y})
    BY <1>1, <1>2
<1>8. V(s \ {y}) \in Nat /\ W(s \ {y}) \in Nat /\ f[y] \in Nat /\ g[y] \in Nat /\ f[y] <= g[y]
    <2>1. IsFiniteSet(s \ {y}) /\ \A x \in s \ {y} : f[x] \in Nat /\ g[x] \in Nat
        BY <1>2, <1>3, FS_Subset
    <2> QED
        BY <1>2, <2>1, SumType
<1> HIDE DEF V, W, F
<1> QED
    BY <1>2, <1>6, <1>7, <1>8

------------------------------------------------------------------------------
(* Sums of grants *)

\* The amounts of a grant table.
AmountsOf(tab) == [g \in Requests |-> tab[g].amount]

\* The ledger's sum over a set of grants is the sum of the table's amounts.
LEMMA TotalIsSum ==
    \A S \in SUBSET Requests : Total(S) = SumFunctionOnSet(AmountsOf(grants), S)
<1> SUFFICES ASSUME NEW S \in SUBSET Requests
             PROVE  Total(S) = SumFunctionOnSet(AmountsOf(grants), S)
    OBVIOUS
<1> DEFINE f == AmountsOf(grants)
           A(it) == it = [s \in SUBSET S |-> IF s = {} THEN 0
                                ELSE grants[First(s)].amount + it[s \ {First(s)}]]
<1>1. Total(S) = (CHOOSE it : A(it))[S]
    BY DEF Total, Amount_of, MapThenSumSet, MapThenFoldSet, First
<1>2. ASSUME NEW it PROVE A(it) <=> PartialSums(it, f, S)
    <2> DEFINE V(s) == IF s = {} THEN 0 ELSE grants[First(s)].amount + it[s \ {First(s)}]
               W(s) == IF s = {} THEN 0 ELSE f[First(s)] + it[s \ {First(s)}]
    <2>1. ASSUME NEW s \in SUBSET S PROVE V(s) = W(s)
        <3>1. s # {} => First(s) \in Requests
            BY DEF First
        <3>2. s # {} => f[First(s)] = grants[First(s)].amount
            BY <3>1 DEF AmountsOf
        <3> QED
            BY <3>2
    <2> HIDE DEF V, W
    <2>2. [s \in SUBSET S |-> V(s)] = [s \in SUBSET S |-> W(s)]
        BY <2>1
    <2> QED
        BY <2>2 DEF PartialSums, V, W
<1> HIDE DEF A
<1>3. (CHOOSE it : A(it)) = (CHOOSE it : PartialSums(it, f, S))
    BY <1>2, Zenon
<1> QED
    BY <1>1, <1>3, SumIsPartialSum

\* The largest of a set of naturals that has a bound.
LEMMA MaxOfBounded ==
    ASSUME NEW S \in SUBSET Nat, S # {}, NEW b \in Nat, \A x \in S : x <= b
    PROVE  Max(S) \in S /\ \A x \in S : x <= Max(S)
<1> DEFINE U == {k \in Nat : \A x \in S : x <= k}
<1>1. U # {} /\ U \subseteq Nat
    OBVIOUS
<1>2. PICK m \in U : \A k \in U : ~ (<<k, m>> \in OpToRel(<, Nat))
    <2> HIDE DEF U
    <2> QED
        BY <1>1, NatLessThanWellFounded, WFMin
<1>3. \A k \in U : ~ (k < m)
    BY <1>2 DEF OpToRel
<1>4. m \in S
    <2> SUFFICES ASSUME m \notin S PROVE FALSE
        OBVIOUS
    <2>1. \A x \in S : x < m
        OBVIOUS
    <2>2. m - 1 \in U
        <3>1. PICK x \in S : x < m
            BY <2>1
        <3> QED
            BY <2>1, <3>1
    <2> QED
        BY <1>3, <2>2
<1>5. \E x \in S : \A y \in S : x >= y
    BY <1>4
<1> QED
    BY <1>5 DEF Max

\* Of finitely many grants one came last.
LEMMA NewestExists ==
    ASSUME NEW K, IsFiniteSet(K), K # {}, NEW n, \A g \in K : n[g] \in Nat
    PROVE  \E g \in K : \A h \in K : n[h] <= n[g]
<1> DEFINE Newer(g) == {h \in K : n[h] > n[g]}
           F == {Newer(g) : g \in K}
<1>1. F \subseteq SUBSET K /\ F # {}
    OBVIOUS
<1>2. PICK T \in F : \A U \in F : U \subseteq T => U = T
    <2> HIDE DEF F
    <2> QED
        BY <1>1, FiniteMinimal
<1>3. PICK g \in K : T = Newer(g)
    OBVIOUS
<1>4. ASSUME NEW h \in Newer(g) PROVE FALSE
    <2>1. h \in K /\ n[h] > n[g]
        OBVIOUS
    <2>2. Newer(h) \subseteq Newer(g)
        BY <2>1
    <2>3. Newer(h) = Newer(g)
        BY <1>2, <1>3, <2>1, <2>2
    <2> QED
        BY <2>1, <2>3
<1> QED
    BY <1>4

------------------------------------------------------------------------------
(* The ceiling of a path, as a function of the tables it is computed from *)

\* The records of a table that live_oversubscription_bps counts.
LiveIn(tab, ep, p, rec, pol, now_ms) ==
    {o \in Entries(tab) :
        /\ tab[o].path = p /\ tab[o].ratio_bps > kScale
        /\ tab[o].epoch = ep
        /\ tab[o].policy_generation = pol.generation
        /\ tab[o].path_generation = rec.generation
        /\ tab[o].capacity_generation = rec.capacity_generation
        /\ now_ms = 0 \/ tab[o].not_after_ms = 0 \/ now_ms <= tab[o].not_after_ms}

RatiosIn(tab, ep, p, rec, pol, now_ms) ==
    {0} \cup {tab[o].ratio_bps : o \in LiveIn(tab, ep, p, rec, pol, now_ms)}

BestIn(tab, ep, p, rec, pol, now_ms) ==
    min_amount(Max(RatiosIn(tab, ep, p, rec, pol, now_ms)), pol.max_oversubscription_bps)

CeilingIn(tab, ep, p, rec, pol, now_ms) ==
    saturating_add(rec.authoritative_usable,
                   oversubscription_extension(rec.authoritative_usable,
                                              BestIn(tab, ep, p, rec, pol, now_ms)))

\* No record promises more than the hard limit of plan_issue_oversubscription.
Bounded(tab) == \A o \in Entries(tab) : tab[o].ratio_bps <= kMaxOversubscriptionBps

\* A table of oversubscription authorities, checked when they were issued.
OversubscriptionTable ==
    {tab \in [OversubIds -> OversubscriptionAuthority \cup {Nil}] : Bounded(tab)}

\* The model's ceiling is this one, in a state and in the next.
LEMMA CeilingIs ==
    ASSUME NEW p, NEW rec, NEW pol, NEW now_ms
    PROVE  /\ Ceiling(p, rec, pol, now_ms)
                = CeilingIn(oversubscriptions, epoch, p, rec, pol, now_ms)
BY DEF Ceiling, CeilingIn, live_oversubscription_bps, BestIn, RatiosIn, LiveIn, Entries

\* The ratios of a table are naturals with a bound, so that a best one exists.
LEMMA BestExists ==
    ASSUME NEW tab \in OversubscriptionTable, NEW ep, NEW p, NEW rec, NEW pol \in Policy,
           NEW now_ms
    PROVE  LET R == RatiosIn(tab, ep, p, rec, pol, now_ms) IN
           /\ R \subseteq Nat
           /\ Max(R) \in R /\ \A x \in R : x <= Max(R)
           /\ BestIn(tab, ep, p, rec, pol, now_ms) \in Nat
<1> DEFINE R == RatiosIn(tab, ep, p, rec, pol, now_ms)
<1>1. kMaxOversubscriptionBps \in Nat
    BY CapacityAssumption DEF kMaxOversubscriptionBps
<1>2. ASSUME NEW o \in LiveIn(tab, ep, p, rec, pol, now_ms)
      PROVE  tab[o].ratio_bps \in Nat /\ tab[o].ratio_bps <= kMaxOversubscriptionBps
    <2>1. o \in Entries(tab) /\ o \in OversubIds
        BY DEF LiveIn, Entries, OversubscriptionTable
    <2>2. tab[o] \in OversubscriptionAuthority
        BY <2>1 DEF Entries, OversubscriptionTable
    <2> QED
        BY <2>1, <2>2 DEF OversubscriptionTable, Bounded, OversubscriptionAuthority
<1>3. R \subseteq Nat /\ R # {} /\ \A x \in R : x <= kMaxOversubscriptionBps
    BY <1>1, <1>2 DEF RatiosIn
<1> HIDE DEF R
<1>4. Max(R) \in R /\ \A x \in R : x <= Max(R)
    BY <1>1, <1>3, MaxOfBounded
<1>5. pol.max_oversubscription_bps \in Nat
    BY DEF Policy
<1>6. BestIn(tab, ep, p, rec, pol, now_ms) = min_amount(Max(R), pol.max_oversubscription_bps)
    BY DEF BestIn, R
<1>7. BestIn(tab, ep, p, rec, pol, now_ms) \in Nat
    BY <1>3, <1>4, <1>5, <1>6 DEF min_amount
<1> QED
    BY <1>3, <1>4, <1>7 DEF R

\* The ceiling is an amount no smaller than the attested capacity, and more
\* live records never lower it.
LEMMA CeilingGrows ==
    ASSUME NEW tab \in OversubscriptionTable, NEW tab2 \in OversubscriptionTable,
           NEW ep, NEW p, NEW rec \in PathRecord, rec.authoritative_usable \in Amount,
           NEW pol \in Policy, NEW now_ms, NEW now2,
           \A o \in LiveIn(tab, ep, p, rec, pol, now_ms) :
                /\ o \in LiveIn(tab2, ep, p, rec, pol, now2)
                /\ tab2[o].ratio_bps = tab[o].ratio_bps
    PROVE  /\ CeilingIn(tab, ep, p, rec, pol, now_ms) \in Amount
           /\ rec.authoritative_usable <= CeilingIn(tab, ep, p, rec, pol, now_ms)
           /\ CeilingIn(tab, ep, p, rec, pol, now_ms) <= CeilingIn(tab2, ep, p, rec, pol, now2)
<1> DEFINE R == RatiosIn(tab, ep, p, rec, pol, now_ms)
           S == RatiosIn(tab2, ep, p, rec, pol, now2)
           b == BestIn(tab, ep, p, rec, pol, now_ms)
           c == BestIn(tab2, ep, p, rec, pol, now2)
           u == rec.authoritative_usable
<1>1. R \subseteq S
    BY DEF RatiosIn
<1>2. R \subseteq Nat /\ Max(R) \in R /\ b \in Nat
    BY BestExists
<1>3. S \subseteq Nat /\ Max(S) \in S /\ (\A x \in S : x <= Max(S)) /\ c \in Nat
    BY BestExists
<1>4. Max(R) <= Max(S) /\ Max(R) \in Nat /\ Max(S) \in Nat
    <2> HIDE DEF R, S
    <2> QED
        BY <1>1, <1>2, <1>3
<1>5. b <= c
    <2>1. pol.max_oversubscription_bps \in Nat
        BY DEF Policy
    <2>2. /\ b = min_amount(Max(R), pol.max_oversubscription_bps)
          /\ c = min_amount(Max(S), pol.max_oversubscription_bps)
        BY DEF BestIn
    <2> HIDE DEF R, S, b, c
    <2> QED
        BY <1>4, <2>1, <2>2 DEF min_amount
<1>6. u \in Nat /\ u \in Amount
    BY CapacityAssumption DEF Amount
<1> HIDE DEF b, c, u, R, S
<1>7. /\ oversubscription_extension(u, b) \in Nat /\ oversubscription_extension(u, c) \in Nat
      /\ oversubscription_extension(u, b) <= oversubscription_extension(u, c)
    <2>1. /\ oversubscription_extension(u, b) \in Amount
          /\ oversubscription_extension(u, b) <= oversubscription_extension(u, c)
        BY <1>2, <1>3, <1>5, <1>6, ExtensionMonotone
    <2>2. oversubscription_extension(u, c) \in Amount
        BY <1>3, <1>6, ExtensionMonotone
    <2> QED
        BY <2>1, <2>2, CapacityAssumption DEF Amount
<1>8. /\ saturating_add(u, oversubscription_extension(u, b)) \in Amount
      /\ u <= saturating_add(u, oversubscription_extension(u, b))
      /\ saturating_add(u, oversubscription_extension(u, b))
            <= saturating_add(u, oversubscription_extension(u, c))
    BY <1>6, <1>7, SaturatingAdd
<1> QED
    BY <1>8 DEF CeilingIn, b, c, u

\* At a moment no more records are live than at time zero, where expiry is
\* ignored.
LEMMA CeilingAtZero ==
    ASSUME NEW tab \in OversubscriptionTable, NEW ep, NEW p, NEW rec \in PathRecord,
           rec.authoritative_usable \in Amount, NEW pol \in Policy, NEW now_ms
    PROVE  /\ CeilingIn(tab, ep, p, rec, pol, now_ms) \in Amount
           /\ rec.authoritative_usable <= CeilingIn(tab, ep, p, rec, pol, now_ms)
           /\ CeilingIn(tab, ep, p, rec, pol, now_ms) <= CeilingIn(tab, ep, p, rec, pol, 0)
<1>1. \A o \in LiveIn(tab, ep, p, rec, pol, now_ms) : o \in LiveIn(tab, ep, p, rec, pol, 0)
    BY DEF LiveIn
<1> QED
    BY <1>1, CeilingGrows

------------------------------------------------------------------------------
(* What is authorised on a path *)

GrantTable == [Requests -> GrantRecord \cup {Nil}]

\* The authorised grants of a class on a path, and what they add up to.
AuthorisedIn(tab, p, class) ==
    {g \in Entries(tab) : /\ tab[g].path = p
                          /\ authorised(tab[g].state)
                          /\ tab[g].grant_class = class}

AuthorisedSum(tab, p, class) == SumFunctionOnSet(AmountsOf(tab), AuthorisedIn(tab, p, class))

\* General grants stay out of the floor, protected ones inside of it.
Fits(tab, p, rec, pol, ceiling) ==
    /\ AuthorisedSum(tab, p, "Protected") <= protected_floor(rec, pol)
    /\ AuthorisedSum(tab, p, "General") + protected_floor(rec, pol) + rec.unavailable <= ceiling

AllFit ==
    \A p \in Entries(paths) :
        Fits(grants, p, paths[p], policy,
             CeilingIn(oversubscriptions, epoch, p, paths[p], policy, 0))

\* Sums over the entries of a grant table are sums of finitely many naturals.
LEMMA EntriesSum ==
    ASSUME NEW tab \in GrantTable, NEW S \in SUBSET Entries(tab)
    PROVE  /\ S \subseteq Requests /\ IsFiniteSet(S)
           /\ \A g \in S : /\ tab[g] \in GrantRecord
                           /\ AmountsOf(tab)[g] = tab[g].amount /\ AmountsOf(tab)[g] \in Nat
           /\ SumFunctionOnSet(AmountsOf(tab), S) \in Nat
<1>1. S \subseteq Requests
    BY DEF Entries, GrantTable
<1>2. IsFiniteSet(S)
    BY <1>1, FS_Subset, InputAssumption
<1>3. ASSUME NEW g \in S
      PROVE  /\ tab[g] \in GrantRecord
             /\ AmountsOf(tab)[g] = tab[g].amount /\ AmountsOf(tab)[g] \in Nat
    <2>1. g \in Requests /\ tab[g] \in GrantRecord
        BY <1>1 DEF Entries, GrantTable
    <2> QED
        BY <2>1 DEF AmountsOf, GrantRecord
<1> QED
    BY <1>1, <1>2, <1>3, SumType

\* The invariant of the model, in these terms.
LEMMA FloorKeptIs == TypeOK => (FloorKeptForProtected <=> AllFit)
<1> SUFFICES ASSUME TypeOK PROVE FloorKeptForProtected <=> AllFit
    OBVIOUS
<1>1. grants \in GrantTable
    BY DEF TypeOK, GrantTable
<1>2. ASSUME NEW p, NEW class
      PROVE  Total(GrantsOn(p, LAMBDA r : authorised(r.state) /\ r.grant_class = class))
                = AuthorisedSum(grants, p, class)
    <2>1. GrantsOn(p, LAMBDA r : authorised(r.state) /\ r.grant_class = class)
            = AuthorisedIn(grants, p, class)
        BY DEF GrantsOn, AuthorisedIn
    <2>2. AuthorisedIn(grants, p, class) \in SUBSET Requests
        BY <1>1 DEF AuthorisedIn, Entries, GrantTable
    <2> QED
        BY <2>1, <2>2, TotalIsSum DEF AuthorisedSum
<1>3. ASSUME NEW p
      PROVE  Ceiling(p, paths[p], policy, 0)
                = CeilingIn(oversubscriptions, epoch, p, paths[p], policy, 0)
    BY CeilingIs
<1> QED
    BY <1>2, <1>3 DEF FloorKeptForProtected, AllFit, Fits

\* A step after which less or the same is authorised on a path: every grant
\* authorised afterwards was so before, with the same class and amount.
Shrinks(tab, new, p) ==
    \A g \in Entries(new) :
        new[g].path = p /\ authorised(new[g].state) =>
            /\ g \in Entries(tab)
            /\ tab[g].path = p
            /\ authorised(tab[g].state)
            /\ new[g].grant_class = tab[g].grant_class
            /\ new[g].amount = tab[g].amount

\* Such a step lowers no sum, even against a part of the grants that holds all
\* that is left.
LEMMA SumShrinks ==
    ASSUME NEW tab \in GrantTable, NEW new \in GrantTable, NEW p, NEW class,
           Shrinks(tab, new, p), NEW K \in SUBSET Entries(tab),
           AuthorisedIn(new, p, class) \subseteq K
    PROVE  AuthorisedSum(new, p, class) <= SumFunctionOnSet(AmountsOf(tab), K)
<1> DEFINE N == AuthorisedIn(new, p, class)
<1>1. N \subseteq Entries(new)
    BY DEF AuthorisedIn
<1>2. ASSUME NEW g \in N PROVE AmountsOf(new)[g] = AmountsOf(tab)[g]
    <2>1. AmountsOf(new)[g] = new[g].amount
        BY <1>1, EntriesSum
    <2>2. AmountsOf(tab)[g] = tab[g].amount
        BY EntriesSum
    <2>3. new[g].amount = tab[g].amount
        BY DEF AuthorisedIn, Shrinks
    <2> QED
        BY <2>1, <2>2, <2>3
<1> HIDE DEF N
<1>3. SumFunctionOnSet(AmountsOf(new), N) = SumFunctionOnSet(AmountsOf(tab), N)
    BY <1>2, SumSame
<1>4. IsFiniteSet(K) /\ N \in SUBSET K /\ \A g \in K : AmountsOf(tab)[g] \in Nat
    BY EntriesSum DEF N
<1>5. SumFunctionOnSet(AmountsOf(tab), N) <= SumFunctionOnSet(AmountsOf(tab), K)
    BY <1>4, SumPart
<1> QED
    BY <1>3, <1>5 DEF AuthorisedSum, N

\* What fits keeps fitting when less is authorised under no lower a ceiling.
LEMMA FitsShrinks ==
    ASSUME NEW tab \in GrantTable, NEW new \in GrantTable, NEW p, Shrinks(tab, new, p),
           NEW rec, NEW rec2, NEW pol, NEW ceiling \in Nat, NEW ceiling2 \in Nat,
           protected_floor(rec, pol) \in Nat, rec.unavailable \in Nat,
           protected_floor(rec2, pol) = protected_floor(rec, pol),
           rec2.unavailable = rec.unavailable,
           ceiling <= ceiling2, Fits(tab, p, rec, pol, ceiling)
    PROVE  Fits(new, p, rec2, pol, ceiling2)
<1>1. ASSUME NEW class
      PROVE  /\ AuthorisedSum(new, p, class) <= AuthorisedSum(tab, p, class)
             /\ AuthorisedSum(new, p, class) \in Nat /\ AuthorisedSum(tab, p, class) \in Nat
    <2>1. AuthorisedIn(new, p, class) \subseteq AuthorisedIn(tab, p, class)
        BY DEF AuthorisedIn, Shrinks
    <2>2. AuthorisedIn(tab, p, class) \in SUBSET Entries(tab)
        BY DEF AuthorisedIn
    <2>3. AuthorisedIn(new, p, class) \in SUBSET Entries(new)
        BY DEF AuthorisedIn
    <2>4. AuthorisedSum(new, p, class) <= AuthorisedSum(tab, p, class)
        BY <2>1, <2>2, SumShrinks DEF AuthorisedSum
    <2> QED
        BY <2>2, <2>3, <2>4, EntriesSum DEF AuthorisedSum
<1> QED
    BY <1>1 DEF Fits

\* The floor and the minimum free capacity are amounts, and the floor leaves
\* room for what is unavailable.
LEMMA FloorFits ==
    ASSUME NEW rec \in PathRecord, rec.authoritative_usable \in Amount,
           rec.unavailable <= rec.authoritative_usable, NEW pol \in Policy
    PROVE  /\ protected_floor(rec, pol) \in Amount
           /\ minimum_free(rec, pol) \in Amount
           /\ protected_floor(rec, pol) + rec.unavailable <= rec.authoritative_usable
<1> DEFINE u == rec.authoritative_usable
           o == rec.unavailable
           x == fraction_bps(u, pol.protected_floor_bps)
           y == fraction_bps(u, pol.min_free_bps)
<1>1. u \in Nat /\ o \in Nat /\ u <= kAmountMax /\ o <= u
    BY DEF PathRecord, Amount
<1>2. /\ pol.protected_floor_bps \in Nat /\ pol.min_free_bps \in Nat
      /\ pol.protected_floor_units \in Nat /\ pol.min_free_units \in Nat
    BY DEF Policy
<1>3. x \in Amount /\ y \in Amount
    BY <1>1, <1>2, FractionMonotone
<1>4. x \in Nat /\ y \in Nat
    BY <1>3, CapacityAssumption DEF Amount
<1>5. Basis(rec) \in Nat /\ Basis(rec) + o <= u /\ Basis(rec) <= kAmountMax
    BY <1>1, CapacityAssumption DEF Basis
<1>6. /\ protected_floor(rec, pol) = min_amount(Basis(rec), max_amount(pol.protected_floor_units, x))
      /\ minimum_free(rec, pol) = min_amount(Basis(rec), max_amount(pol.min_free_units, y))
    BY DEF protected_floor, minimum_free
<1> HIDE DEF x, y, u, o
<1>7. /\ protected_floor(rec, pol) \in Nat /\ protected_floor(rec, pol) <= Basis(rec)
      /\ minimum_free(rec, pol) \in Nat /\ minimum_free(rec, pol) <= Basis(rec)
    BY <1>2, <1>4, <1>5, <1>6 DEF min_amount, max_amount
<1> QED
    BY <1>1, <1>5, <1>7, CapacityAssumption DEF Amount, u, o

\* The limits of withdraw_to_fit keep both classes within what Fits allows.
LEMMA ClassLimits ==
    ASSUME oversubscriptions \in OversubscriptionTable, NEW p, NEW rec \in PathRecord,
           rec.authoritative_usable \in Amount, rec.unavailable <= rec.authoritative_usable,
           NEW pol \in Policy, NEW now_ms
    PROVE  /\ ClassLimit(p, rec, pol, now_ms, "Protected") = protected_floor(rec, pol)
           /\ ClassLimit(p, rec, pol, now_ms, "General") \in Nat
           /\ ClassLimit(p, rec, pol, now_ms, "General") + protected_floor(rec, pol)
                    + rec.unavailable
                <= CeilingIn(oversubscriptions, epoch, p, rec, pol, now_ms)
<1> DEFINE c == CeilingIn(oversubscriptions, epoch, p, rec, pol, now_ms)
           f == protected_floor(rec, pol)
           m == minimum_free(rec, pol)
           o == rec.unavailable
           u == rec.authoritative_usable
           a == IF c > o THEN c - o ELSE 0
           s == saturating_add(f, m)
<1>1. c \in Amount /\ u <= c
    BY CeilingAtZero
<1>2. f \in Amount /\ m \in Amount /\ f + o <= u
    BY FloorFits
<1>3. o \in Nat /\ u \in Nat
    BY DEF PathRecord
<1>4. Ceiling(p, rec, pol, now_ms) = c
    BY CeilingIs
<1>5. ClassLimit(p, rec, pol, now_ms, "General") = a - min_amount(a, s)
    BY <1>4 DEF ClassLimit
<1>6. ClassLimit(p, rec, pol, now_ms, "Protected") = f
    BY DEF ClassLimit
<1> HIDE DEF c, f, m, o, u
<1>7. c \in Nat /\ f \in Nat /\ m \in Nat /\ f <= s /\ s \in Nat
    BY <1>1, <1>2, CapacityAssumption DEF Amount, saturating_add
<1> HIDE DEF s
<1>8. a \in Nat /\ a + o <= c /\ f <= a
    BY <1>1, <1>2, <1>3, <1>7
<1> HIDE DEF a
<1>9. a - min_amount(a, s) \in Nat /\ (a - min_amount(a, s)) + f + o <= c
    BY <1>3, <1>7, <1>8 DEF min_amount
<1> QED
    BY <1>5, <1>6, <1>9 DEF c, f, o

\* What withdraw_to_fit leaves of a class is within the limit of the class: the
\* newest grant it leaves was added to everything older than itself.
LEMMA ShedFits ==
    ASSUME grants \in GrantTable, NEW p, NEW rec, NEW pol, NEW now_ms, NEW class \in GrantClass,
           ClassLimit(p, rec, pol, now_ms, class) \in Nat
    PROVE  SumFunctionOnSet(AmountsOf(grants),
                            AuthorisedIn(grants, p, class) \ Shed(p, rec, pol, now_ms))
                <= ClassLimit(p, rec, pol, now_ms, class)
<1> DEFINE A == AuthorisedIn(grants, p, class)
           K == A \ Shed(p, rec, pol, now_ms)
           f == AmountsOf(grants)
           limit == ClassLimit(p, rec, pol, now_ms, class)
<1>1. A \in SUBSET Entries(grants) /\ K \in SUBSET Entries(grants)
    BY DEF AuthorisedIn
<1>2. /\ IsFiniteSet(K)
      /\ \A g \in K : grants[g] \in GrantRecord
    BY <1>1, EntriesSum
<1>3. CASE K = {}
    <2>1. SumFunctionOnSet(f, K) = 0
        BY <1>3, <1>2, SumStep
    <2> QED
        BY <2>1
<1>4. CASE K # {}
    <2> DEFINE n == [g \in K |-> grants[g].arbitration]
    <2>1. \A g \in K : n[g] \in Nat
        BY <1>2 DEF GrantRecord
    <2>2. PICK g \in K : \A h \in K : n[h] <= n[g]
        <3> HIDE DEF n, K
        <3> QED
            BY <1>2, <1>4, <2>1, NewestExists
    <2> DEFINE N == NotNewer(A, g)
    <2>3. K \subseteq N
        BY <2>2 DEF NotNewer
    <2>4. N \in SUBSET Entries(grants)
        BY <1>1 DEF NotNewer
    <2>5. Total(N) = SumFunctionOnSet(f, N) /\ SumFunctionOnSet(f, N) \in Nat
        <3>1. N \in SUBSET Requests /\ SumFunctionOnSet(f, N) \in Nat
            BY <2>4, EntriesSum
        <3> QED
            BY <3>1, TotalIsSum
    <2>6. ~(Total(N) > limit)
        <3>1. /\ g \in A /\ g \notin Shed(p, rec, pol, now_ms)
              /\ grants[g].grant_class = class
            BY DEF AuthorisedIn
        <3>2. g \in GrantsOn(p, LAMBDA r : authorised(r.state) /\ r.grant_class = "Protected")
                        \cup GrantsOn(p, LAMBDA r : authorised(r.state) /\ r.grant_class = "General")
            BY <3>1 DEF GrantsOn, AuthorisedIn, GrantClass
        <3>3. A = {h \in Entries(grants) :
                        grants[h].path = p /\ authorised(grants[h].state)
                            /\ grants[h].grant_class = grants[g].grant_class}
            BY <3>1 DEF AuthorisedIn
        <3>4. ~(Total(NotNewer(A, g)) > ClassLimit(p, rec, pol, now_ms, grants[g].grant_class))
            <4> HIDE DEF A
            <4> QED
                BY <3>1, <3>2, <3>3 DEF Shed, GrantsOn
        <3> QED
            BY <3>1, <3>4
    <2>7. SumFunctionOnSet(f, K) <= SumFunctionOnSet(f, N) /\ SumFunctionOnSet(f, K) \in Nat
        <3>1. IsFiniteSet(N) /\ \A h \in N : f[h] \in Nat
            BY <2>4, EntriesSum
        <3>2. SumFunctionOnSet(f, K) \in Nat
            BY <1>1, EntriesSum
        <3> HIDE DEF K, N, f
        <3> QED
            BY <2>3, <3>1, <3>2, SumPart
    <2>8. SumFunctionOnSet(f, K) <= limit
        <3> HIDE DEF K, N, f
        <3> QED
            BY <2>5, <2>6, <2>7
    <2> QED
        BY <2>8
<1> QED
    BY <1>3, <1>4

\* After rebalance_path what is authorised on the path fits.
LEMMA FitsAfterShed ==
    ASSUME grants \in GrantTable, oversubscriptions \in OversubscriptionTable,
           NEW p, NEW rec \in PathRecord, rec.authoritative_usable \in Amount,
           rec.unavailable <= rec.authoritative_usable, NEW pol \in Policy, NEW now_ms,
           NEW new \in GrantTable, Shrinks(grants, new, p),
           \A g \in Shed(p, rec, pol, now_ms) : ~authorised(new[g].state)
    PROVE  Fits(new, p, rec, pol, CeilingIn(oversubscriptions, epoch, p, rec, pol, 0))
<1> DEFINE limit(class) == ClassLimit(p, rec, pol, now_ms, class)
           f == protected_floor(rec, pol)
           c == CeilingIn(oversubscriptions, epoch, p, rec, pol, now_ms)
           z == CeilingIn(oversubscriptions, epoch, p, rec, pol, 0)
<1>1. /\ limit("Protected") = f /\ limit("General") \in Nat
      /\ limit("General") + f + rec.unavailable <= c
    BY ClassLimits
<1>2. f \in Nat
    BY FloorFits, CapacityAssumption DEF Amount
<1>3. c \in Nat /\ z \in Nat /\ c <= z
    BY CeilingAtZero, CapacityAssumption DEF Amount
<1>4. rec.unavailable \in Nat
    BY DEF PathRecord
<1>5. ASSUME NEW class \in GrantClass, limit(class) \in Nat
      PROVE  AuthorisedSum(new, p, class) <= limit(class) /\ AuthorisedSum(new, p, class) \in Nat
    <2> DEFINE K == AuthorisedIn(grants, p, class) \ Shed(p, rec, pol, now_ms)
    <2>1. K \in SUBSET Entries(grants) /\ AuthorisedIn(new, p, class) \in SUBSET Entries(new)
        BY DEF AuthorisedIn
    <2>2. AuthorisedIn(new, p, class) \subseteq K
        BY DEF AuthorisedIn, Shrinks
    <2>3. SumFunctionOnSet(AmountsOf(grants), K) <= limit(class)
        BY <1>5, ShedFits
    <2>4. /\ SumFunctionOnSet(AmountsOf(grants), K) \in Nat
          /\ AuthorisedSum(new, p, class) \in Nat
        BY <2>1, EntriesSum DEF AuthorisedSum
    <2> HIDE DEF K
    <2>5. AuthorisedSum(new, p, class) <= SumFunctionOnSet(AmountsOf(grants), K)
        BY <2>1, <2>2, SumShrinks
    <2> QED
        BY <1>5, <2>3, <2>4, <2>5
<1>6. AuthorisedSum(new, p, "Protected") <= f
    BY <1>1, <1>2, <1>5 DEF GrantClass
<1>7. AuthorisedSum(new, p, "General") <= limit("General") /\ AuthorisedSum(new, p, "General") \in Nat
    BY <1>1, <1>5 DEF GrantClass
<1> HIDE DEF limit, f, c, z
<1>8. AuthorisedSum(new, p, "General") + f + rec.unavailable <= z
    BY <1>1, <1>2, <1>3, <1>4, <1>7
<1> QED
    BY <1>6, <1>8 DEF Fits, f, z

------------------------------------------------------------------------------
(* The inductive invariant: next to what the paths hold, the attested figures *)
(* and the issued ratios are within the bounds their requests checked.        *)

UsablesFit == \A p \in Entries(paths) : paths[p].authoritative_usable \in Amount

WithinLimits == UsablesFit /\ Bounded(oversubscriptions) /\ AllFit

AllocInv == IInv /\ WithinLimits

\* Nothing is allocated when the authority starts.
LEMMA InitAllocated == Init => WithinLimits
BY DEF Init, WithinLimits, UsablesFit, Bounded, AllFit, Entries

\* What the invariant says of one path.
LEMMA PathFacts ==
    ASSUME AllocInv, NEW p \in Entries(paths)
    PROVE  LET rec == paths[p] IN
           /\ p \in Paths /\ rec \in PathRecord
           /\ rec.authoritative_usable \in Amount /\ rec.unavailable \in Nat
           /\ rec.unavailable <= rec.authoritative_usable
           /\ policy \in Policy /\ grants \in GrantTable
           /\ oversubscriptions \in OversubscriptionTable
           /\ protected_floor(rec, policy) \in Nat
           /\ CeilingIn(oversubscriptions, epoch, p, rec, policy, 0) \in Nat
           /\ Fits(grants, p, rec, policy,
                   CeilingIn(oversubscriptions, epoch, p, rec, policy, 0))
<1> DEFINE rec == paths[p]
<1>1. p \in Paths /\ rec \in PathRecord
    BY DEF AllocInv, IInv, TypeOK, Entries
<1>2. rec.unavailable \in Nat
    BY <1>1 DEF PathRecord
<1>3. rec.authoritative_usable \in Amount
    BY DEF AllocInv, WithinLimits, UsablesFit
<1>4. rec.unavailable <= rec.authoritative_usable
    BY DEF AllocInv, IInv, UnavailableWithinUsable
<1>5. policy \in Policy /\ grants \in GrantTable
    BY DEF AllocInv, IInv, TypeOK, GrantTable
<1>6. oversubscriptions \in OversubscriptionTable
    BY DEF AllocInv, IInv, TypeOK, WithinLimits, OversubscriptionTable
<1>7. protected_floor(rec, policy) \in Nat
    BY <1>1, <1>3, <1>4, <1>5, FloorFits, CapacityAssumption DEF Amount
<1>8. CeilingIn(oversubscriptions, epoch, p, rec, policy, 0) \in Nat
    BY <1>1, <1>3, <1>5, <1>6, CeilingAtZero, CapacityAssumption DEF Amount
<1>9. Fits(grants, p, rec, policy, CeilingIn(oversubscriptions, epoch, p, rec, policy, 0))
    BY DEF AllocInv, WithinLimits, AllFit
<1> QED
    BY <1>1, <1>2, <1>3, <1>4, <1>5, <1>6, <1>7, <1>8, <1>9

\* A path whose record, and what its ceiling is computed from, a step leaves
\* alone.
LEMMA FitsKept ==
    ASSUME AllocInv, NEW p \in Entries(paths), grants' \in GrantTable,
           Shrinks(grants, grants', p), paths'[p] = paths[p],
           UNCHANGED <<epoch, policy, oversubscriptions>>
    PROVE  Fits(grants', p, paths'[p], policy',
                CeilingIn(oversubscriptions', epoch', p, paths'[p], policy', 0))
<1> DEFINE c == CeilingIn(oversubscriptions, epoch, p, paths[p], policy, 0)
<1>1. /\ grants \in GrantTable /\ paths[p].unavailable \in Nat
      /\ protected_floor(paths[p], policy) \in Nat /\ c \in Nat
      /\ Fits(grants, p, paths[p], policy, c)
    BY PathFacts
<1>2. c <= c
    BY <1>1
<1> HIDE DEF c
<1>3. Fits(grants', p, paths[p], policy, c)
    BY <1>1, <1>2, FitsShrinks
<1> QED
    BY <1>3 DEF c

\* A step that authorises nothing new and leaves paths and policy alone.
LEMMA ShrinkStep ==
    ASSUME AllocInv, grants' \in GrantTable,
           UNCHANGED <<epoch, policy, paths, oversubscriptions>>,
           \A p \in Entries(paths) : Shrinks(grants, grants', p)
    PROVE  WithinLimits'
<1>1. ASSUME NEW p \in Entries(paths)
      PROVE  Fits(grants', p, paths'[p], policy',
                  CeilingIn(oversubscriptions', epoch', p, paths'[p], policy', 0))
    BY FitsKept
<1>2. Entries(paths') = Entries(paths)
    OBVIOUS
<1>3. AllFit'
    BY <1>1, <1>2 DEF AllFit
<1>4. UsablesFit' /\ Bounded(oversubscriptions')
    BY <1>2 DEF AllocInv, WithinLimits, UsablesFit
<1> QED
    BY <1>3, <1>4 DEF WithinLimits

\* A path on which nothing is authorised.
LEMMA NothingAuthorised ==
    ASSUME NEW tab \in GrantTable, NEW p, NEW rec \in PathRecord,
           rec.authoritative_usable \in Amount, rec.unavailable <= rec.authoritative_usable,
           NEW pol \in Policy, NEW os \in OversubscriptionTable, NEW ep,
           \A g \in Entries(tab) : tab[g].path = p => ~authorised(tab[g].state)
    PROVE  Fits(tab, p, rec, pol, CeilingIn(os, ep, p, rec, pol, 0))
<1> DEFINE c == CeilingIn(os, ep, p, rec, pol, 0)
           f == protected_floor(rec, pol)
<1>1. ASSUME NEW class PROVE AuthorisedSum(tab, p, class) = 0
    <2>1. AuthorisedIn(tab, p, class) = {}
        BY DEF AuthorisedIn
    <2> QED
        BY <2>1, SumStep, FS_EmptySet DEF AuthorisedSum
<1>2. c \in Nat /\ rec.authoritative_usable <= c
    BY CeilingAtZero, CapacityAssumption DEF Amount
<1>3. f \in Nat /\ f + rec.unavailable <= rec.authoritative_usable
    BY FloorFits, CapacityAssumption DEF Amount
<1>4. rec.unavailable \in Nat /\ rec.authoritative_usable \in Nat
    BY DEF PathRecord
<1> HIDE DEF c, f
<1>5. 0 <= f /\ 0 + f + rec.unavailable <= c
    BY <1>2, <1>3, <1>4
<1> QED
    BY <1>1, <1>5 DEF Fits, c, f

------------------------------------------------------------------------------
(* Steps *)

\* A grant whose record changes in other respects shrinks nothing.
LEMMA SetGrantShrinks ==
    ASSUME grants \in GrantTable, NEW g \in Entries(grants), NEW r \in GrantRecord,
           grants' = [grants EXCEPT ![g] = r],
           r.path = grants[g].path, r.grant_class = grants[g].grant_class,
           r.amount = grants[g].amount, authorised(r.state) => authorised(grants[g].state),
           NEW p
    PROVE  Shrinks(grants, grants', p)
<1>1. g \in Requests /\ grants'[g] = r
    BY DEF Entries, GrantTable
<1>2. \A h \in Entries(grants') : h \in Requests /\ (h # g => grants'[h] = grants[h])
    BY DEF Entries, GrantTable
<1>3. \A h \in Entries(grants') : h \in Entries(grants)
    BY <1>1, <1>2 DEF Entries, GrantTable
<1> QED
    BY <1>1, <1>2, <1>3 DEF Shrinks

\* A table update that maps every grant to itself, to its withdrawn image or to
\* one that keeps path, class and amount, and authorises nothing new.
LEMMA UpdatedShrinks ==
    ASSUME grants \in GrantTable, NEW new \in GrantTable,
           \A g \in Requests :
                \/ new[g] = grants[g]
                \/ /\ grants[g] # Nil
                   /\ new[g].path = grants[g].path
                   /\ new[g].grant_class = grants[g].grant_class
                   /\ new[g].amount = grants[g].amount
                   /\ authorised(new[g].state) => authorised(grants[g].state),
           NEW p
    PROVE  Shrinks(grants, new, p)
<1> SUFFICES ASSUME NEW g \in Entries(new), new[g].path = p, authorised(new[g].state)
             PROVE  /\ g \in Entries(grants)
                    /\ grants[g].path = p
                    /\ authorised(grants[g].state)
                    /\ new[g].grant_class = grants[g].grant_class
                    /\ new[g].amount = grants[g].amount
    BY DEF Shrinks
<1>1. g \in Requests /\ DOMAIN grants = Requests /\ new[g] # Nil
    BY DEF Entries, GrantTable
<1> QED
    BY <1>1 DEF Entries

\* The images of a grant the planners make keep its path, class and amount.
LEMMA ImagesKeep ==
    ASSUME NEW r \in GrantRecord, NEW st, NEW v
    PROVE  /\ LET s == [r EXCEPT !.state = st] IN
              /\ s.path = r.path /\ s.grant_class = r.grant_class /\ s.amount = r.amount
              /\ s.state = st
           /\ LET s == [r EXCEPT !.state = st, !.verification = v] IN
              /\ s.path = r.path /\ s.grant_class = r.grant_class /\ s.amount = r.amount
              /\ s.state = st
           /\ LET s == Downgraded(r) IN
              /\ s.path = r.path /\ s.grant_class = r.grant_class /\ s.amount = r.amount
              /\ authorised(s.state) => authorised(r.state)
           /\ \A rec : LET s == PathBound(r, rec) IN
              /\ s.path = r.path /\ s.grant_class = r.grant_class /\ s.amount = r.amount
              /\ s.state = r.state
           /\ \A gen : LET s == [r EXCEPT !.policy_generation = gen] IN
              /\ s.path = r.path /\ s.grant_class = r.grant_class /\ s.amount = r.amount
              /\ s.state = r.state
BY DEF GrantRecord, Downgraded, PathBound, authorised

\* rebalance_path authorises nothing new, and what it sheds is not authorised.
LEMMA RebalancedKeeps ==
    ASSUME NEW g \in Entries(grants), grants[g] \in GrantRecord,
           NEW p, NEW rec, NEW pol, NEW now_ms, NEW rebound,
           rebound.path = grants[g].path, rebound.grant_class = grants[g].grant_class,
           rebound.amount = grants[g].amount, rebound.state = grants[g].state
    PROVE  LET s == Rebalanced(g, p, rec, pol, now_ms, rebound) IN
           /\ s.path = grants[g].path /\ s.grant_class = grants[g].grant_class
           /\ s.amount = grants[g].amount
           /\ authorised(s.state) => authorised(grants[g].state)
           /\ g \in Shed(p, rec, pol, now_ms) => ~authorised(s.state)
<1> DEFINE w == [grants[g] EXCEPT !.state = "Withdrawing"]
<1>1. /\ w.path = grants[g].path /\ w.grant_class = grants[g].grant_class
      /\ w.amount = grants[g].amount /\ w.state = "Withdrawing"
    BY ImagesKeep
<1>2. ~authorised("Withdrawing")
    BY DEF authorised
<1> HIDE DEF w
<1>3. Rebalanced(g, p, rec, pol, now_ms, rebound)
        = IF g \in Shed(p, rec, pol, now_ms) THEN w
          ELSE IF authorised(grants[g].state) THEN rebound ELSE grants[g]
    BY DEF Rebalanced, w
<1> QED
    BY <1>1, <1>2, <1>3

\* Nothing but a request about a grant authorises one, and none changes the path,
\* the class or the amount of a grant.
LEMMA NothingNew ==
    ASSUME IInv, IInv', \/ ConfigNext \/ SiteNext \/ PathNext
                        \/ \E now_ms \in Times : tick(now_ms)
    PROVE  \A q : Shrinks(grants, grants', q)
<1> DEFINE Same(g) == /\ grants'[g].path = grants[g].path
                      /\ grants'[g].grant_class = grants[g].grant_class
                      /\ grants'[g].amount = grants[g].amount
<1>1. grants \in GrantTable /\ grants' \in GrantTable
    BY DEF IInv, TypeOK, GrantTable
<1>2. \A g \in Requests : grants[g] # Nil => g \in Entries(grants) /\ grants[g] \in GrantRecord
    BY <1>1 DEF Entries, GrantTable
<1>3. \A g \in Requests : g \in Entries(grants) => grants[g] # Nil /\ grants[g] \in GrantRecord
    BY <1>1 DEF Entries, GrantTable
<1>4. ASSUME NEW g \in Requests, g \in Entries(grants),
             \/ \E st : grants'[g] = [grants[g] EXCEPT !.state = st]
             \/ \E st : grants'[g] = [grants[g] EXCEPT !.state = st, !.verification = "Unverified"]
             \/ grants'[g] = Downgraded(grants[g])
      PROVE  Same(g)
    <2>1. grants[g] \in GrantRecord
        BY <1>3, <1>4
    <2>2. ASSUME NEW st, grants'[g] = [grants[g] EXCEPT !.state = st] PROVE Same(g)
        BY <2>1, <2>2, ImagesKeep
    <2>3. ASSUME NEW st, grants'[g] = [grants[g] EXCEPT !.state = st,
                                                        !.verification = "Unverified"]
          PROVE  Same(g)
        BY <2>1, <2>3, ImagesKeep
    <2>4. CASE grants'[g] = Downgraded(grants[g])
        BY <2>1, <2>4, ImagesKeep
    <2> QED
        BY <1>4, <2>2, <2>3, <2>4
<1>5. ASSUME NEW g \in Requests, g \in Entries(grants), NEW p, NEW rec, NEW pol, NEW now_ms,
             NEW b, b.path = grants[g].path, b.grant_class = grants[g].grant_class,
             b.amount = grants[g].amount, b.state = grants[g].state,
             grants'[g] = Rebalanced(g, p, rec, pol, now_ms, b)
      PROVE  Same(g)
    BY <1>3, <1>5, RebalancedKeeps
<1>6. ASSUME NEW g \in Requests
      PROVE  \/ grants'[g] = grants[g]
             \/ g \in Entries(grants) /\ Same(g)
    <2> HIDE DEF Same
    <2>1. ASSUME NEW pol \in Policies, install_policy(pol), grants'[g] # grants[g]
          PROVE  g \in Entries(grants) /\ Same(g)
        <3> DEFINE b == [grants[g] EXCEPT !.policy_generation = pol.generation]
                   p == grants[g].path
        <3>1. g \in Entries(grants) /\ grants'[g] = Rebalanced(g, p, paths[p], pol, 0, b)
            BY <2>1 DEF install_policy, Updated
        <3>2. /\ b.path = grants[g].path /\ b.grant_class = grants[g].grant_class
              /\ b.amount = grants[g].amount /\ b.state = grants[g].state
            BY <1>3, <3>1, ImagesKeep
        <3> HIDE DEF b
        <3> QED
            BY <1>5, <3>1, <3>2
    <2>2. ASSUME NEW e \in Epochs, bump_epoch(e), grants'[g] # grants[g]
          PROVE  g \in Entries(grants) /\ Same(g)
        BY <1>4, <2>2 DEF bump_epoch, Updated
    <2>3. ASSUME NEW s \in Sites, NEW inc \in Incarnations, NEW e \in Epochs,
                 NEW now_ms \in Times, register_site(s, inc, e, now_ms), grants'[g] # grants[g]
          PROVE  g \in Entries(grants) /\ Same(g)
        <3>1. g \in Entries(grants)
              /\ grants'[g] = [grants[g] EXCEPT !.state = "Withdrawing",
                                                !.verification = "Unverified"]
            BY <2>3 DEF register_site, register_new_site, register_same_incarnation,
                        register_new_incarnation, Updated, GrantsOf
        <3> QED
            BY <1>4, <3>1
    <2>4. ASSUME NEW s \in Sites, NEW inc \in Incarnations, NEW e \in Epochs,
                 NEW gen \in SiteGenerations, NEW now_ms \in Times,
                 heartbeat(s, inc, e, gen, now_ms)
          PROVE  grants'[g] = grants[g]
        BY <2>4 DEF heartbeat
    <2>5. ASSUME NEW s \in Sites, NEW state \in SiteStateInputs, set_site_state(s, state),
                 grants'[g] # grants[g]
          PROVE  g \in Entries(grants) /\ Same(g)
        <3>1. g \in Entries(grants) /\ grants'[g] = Downgraded(grants[g])
            BY <2>5 DEF set_site_state, Updated, GrantsOf
        <3> QED
            BY <1>4, <3>1
    <2>6. ASSUME NEW p, NEW rec, NEW now_ms,
                 grants' = [h \in Requests |->
                            IF h \in GrantsAt(p)
                            THEN Rebalanced(h, p, rec, policy, now_ms, PathBound(grants[h], rec))
                            ELSE grants[h]],
                 grants'[g] # grants[g]
          PROVE  g \in Entries(grants) /\ Same(g)
        <3> DEFINE b == PathBound(grants[g], rec)
        <3>1. g \in Entries(grants) /\ grants'[g] = Rebalanced(g, p, rec, policy, now_ms, b)
            BY <2>6 DEF GrantsAt
        <3>2. /\ b.path = grants[g].path /\ b.grant_class = grants[g].grant_class
              /\ b.amount = grants[g].amount /\ b.state = grants[g].state
            BY <1>3, <3>1, ImagesKeep
        <3> HIDE DEF b
        <3> QED
            BY <1>5, <3>1, <3>2
    <2>7. CASE PathNext
        <3>1. ASSUME NEW p \in Paths, NEW a \in Sites, NEW b \in Sites, NEW d \in Domains,
                     NEW state \in PathStateInputs, register_new_path(p, a, b, d, state)
              PROVE  grants'[g] = grants[g]
            BY <3>1 DEF register_new_path
        <3>2. ASSUME NEW p \in Paths, NEW a \in Sites, NEW b \in Sites, NEW d \in Domains,
                     NEW gen \in PathGenerations, NEW state \in PathStateInputs,
                     NEW now_ms \in Times, reregister_path(p, a, b, d, gen, state, now_ms),
                     grants'[g] # grants[g]
              PROVE  g \in Entries(grants) /\ Same(g)
            <4> DEFINE rec == [paths[p] EXCEPT !.shared_risk_domain = d, !.endpoint_a = a,
                                               !.endpoint_b = b, !.generation = gen,
                                               !.state = state]
            <4>1. grants' = [h \in Requests |->
                            IF h \in GrantsAt(p)
                            THEN Rebalanced(h, p, rec, policy, now_ms, PathBound(grants[h], rec))
                            ELSE grants[h]]
                BY <3>2 DEF reregister_path, Updated
            <4> HIDE DEF rec
            <4> QED
                BY <2>6, <3>2, <4>1
        <3>3. ASSUME NEW p \in Paths, NEW id \in AttestationIds, NEW e \in Epochs,
                     NEW pathGen \in PathGenerations, NEW capGen \in CapacityGenerations,
                     NEW usable \in Usables, NEW now_ms \in Times,
                     attest_capacity(id, p, e, pathGen, capGen, usable, now_ms),
                     grants'[g] # grants[g]
              PROVE  g \in Entries(grants) /\ Same(g)
            <4> DEFINE rec == Attested(paths[p], capGen, usable)
            <4>1. grants' = [h \in Requests |->
                            IF h \in GrantsAt(p)
                            THEN Rebalanced(h, p, rec, policy, now_ms, PathBound(grants[h], rec))
                            ELSE grants[h]]
                BY <3>3 DEF attest_capacity, Updated
            <4> HIDE DEF rec
            <4> QED
                BY <2>6, <3>3, <4>1
        <3>4. ASSUME NEW p \in Paths, NEW state \in PathStateInputs, NEW now_ms \in Times,
                     set_path_state(p, state, now_ms), grants'[g] # grants[g]
              PROVE  g \in Entries(grants) /\ Same(g)
            <4>1. g \in Entries(grants)
                  /\ \/ grants'[g] = [grants[g] EXCEPT !.state = "Withdrawing"]
                     \/ grants'[g] = Downgraded(grants[g])
                BY <3>4 DEF set_path_state, Updated, GrantsAt
            <4> QED
                BY <1>4, <4>1
        <3> QED
            BY <2>7, <3>1, <3>2, <3>3, <3>4 DEF PathNext
    <2>8. ASSUME NEW now_ms \in Times, tick(now_ms), grants'[g] # grants[g]
          PROVE  g \in Entries(grants) /\ Same(g)
        <3>1. g \in Entries(grants)
              /\ \/ grants'[g] = [grants[g] EXCEPT !.state = "Expired"]
                 \/ grants'[g] = Downgraded(grants[g])
            BY <2>8 DEF tick, Updated, GrantsOf
        <3> QED
            BY <1>4, <3>1
    <2>9. CASE ConfigNext
        BY <2>1, <2>2, <2>9 DEF ConfigNext
    <2>10. CASE SiteNext
        BY <2>3, <2>4, <2>5, <2>10 DEF SiteNext
    <2> QED
        BY <2>7, <2>8, <2>9, <2>10
<1>7. ASSUME NEW g \in Entries(grants), authorised(grants'[g].state)
      PROVE  authorised(grants[g].state)
    <2>1. \/ Invalidated(grants[g].state, grants'[g].state)
          \/ grants'[g].state = "Expired"
        BY RequestsInvalidate, TickInvalidates
    <2> QED
        BY <1>7, <2>1 DEF Invalidated, authorised
<1> QED
    BY <1>1, <1>3, <1>6, <1>7, UpdatedShrinks

\* plan_install_policy sheds what the new policy has no room for, and
\* plan_bump_epoch leaves nothing authorised.
LEMMA ConfigAllocated ==
    ASSUME AllocInv, IInv', ConfigNext PROVE WithinLimits'
<1>1. /\ grants \in GrantTable /\ grants' \in GrantTable /\ policy' \in Policy
      /\ oversubscriptions \in OversubscriptionTable
    BY DEF AllocInv, IInv, TypeOK, GrantTable, WithinLimits, OversubscriptionTable
<1>2. ASSUME NEW pol \in Policies, install_policy(pol) PROVE WithinLimits'
    <2>1. ASSUME NEW g \in Entries(grants)
          PROVE  /\ grants'[g].path = grants[g].path
                 /\ grants'[g].grant_class = grants[g].grant_class
                 /\ grants'[g].amount = grants[g].amount
                 /\ authorised(grants'[g].state) => authorised(grants[g].state)
                 /\ g \in Shed(grants[g].path, paths[grants[g].path], pol, 0)
                        => ~authorised(grants'[g].state)
        <3> DEFINE b == [grants[g] EXCEPT !.policy_generation = pol.generation]
                   p == grants[g].path
        <3>1. g \in Requests /\ grants[g] \in GrantRecord
            BY <1>1 DEF Entries, GrantTable
        <3>2. grants'[g] = Rebalanced(g, p, paths[p], pol, 0, b)
            BY <1>2, <3>1 DEF install_policy, Updated
        <3>3. /\ b.path = grants[g].path /\ b.grant_class = grants[g].grant_class
              /\ b.amount = grants[g].amount /\ b.state = grants[g].state
            BY <3>1, ImagesKeep
        <3> HIDE DEF b
        <3> QED
            BY <3>1, <3>2, <3>3, RebalancedKeeps
    <2>2. \A g \in Requests : g \notin Entries(grants) => grants'[g] = grants[g]
        BY <1>2 DEF install_policy, Updated
    <2>3. ASSUME NEW p PROVE Shrinks(grants, grants', p)
        <3>1. \A g \in Requests : g \in Entries(grants) => grants[g] # Nil
            BY DEF Entries
        <3> QED
            BY <1>1, <2>1, <2>2, <3>1, UpdatedShrinks
    <2>4. ASSUME NEW p \in Entries(paths)
          PROVE  Fits(grants', p, paths[p], pol,
                      CeilingIn(oversubscriptions, epoch, p, paths[p], pol, 0))
        <3>1. /\ paths[p] \in PathRecord /\ paths[p].authoritative_usable \in Amount
              /\ paths[p].unavailable <= paths[p].authoritative_usable
            BY PathFacts
        <3>2. \A g \in Shed(p, paths[p], pol, 0) : ~authorised(grants'[g].state)
            BY <2>1, ShedAuthorised
        <3>3. pol \in Policy
            BY InputAssumption
        <3> QED
            BY <1>1, <2>3, <3>1, <3>2, <3>3, FitsAfterShed
    <2>5. /\ UNCHANGED <<epoch, paths, oversubscriptions>> /\ policy' = pol
        BY <1>2 DEF install_policy
    <2>6. AllFit'
        BY <2>4, <2>5 DEF AllFit
    <2> QED
        BY <2>5, <2>6 DEF WithinLimits, AllocInv, UsablesFit
<1>3. ASSUME NEW e \in Epochs, bump_epoch(e) PROVE WithinLimits'
    <2>1. UNCHANGED <<policy, paths, oversubscriptions>>
        BY <1>3 DEF bump_epoch
    <2>2. ASSUME NEW g \in Entries(grants') PROVE ~authorised(grants'[g].state)
        <3>1. g \in Requests
            BY <1>1 DEF Entries, GrantTable
        <3>2. grants'[g] = IF g \in Entries(grants) /\ authorised(grants[g].state)
                           THEN [grants[g] EXCEPT !.state = "Withdrawing"] ELSE grants[g]
            BY <1>3, <3>1 DEF bump_epoch, Updated
        <3>3. grants[g] # Nil => g \in Entries(grants) /\ grants[g] \in GrantRecord
            BY <1>1, <3>1 DEF Entries, GrantTable
        <3>4. grants'[g] # Nil
            BY DEF Entries
        <3>5. CASE g \in Entries(grants) /\ authorised(grants[g].state)
            <4>1. grants'[g].state = "Withdrawing"
                BY <3>2, <3>3, <3>5, ImagesKeep DEF Entries
            <4> QED
                BY <4>1 DEF authorised
        <3>6. CASE ~(g \in Entries(grants) /\ authorised(grants[g].state))
            BY <3>2, <3>3, <3>4, <3>6
        <3> QED
            BY <3>5, <3>6
    <2>3. ASSUME NEW p \in Entries(paths)
          PROVE  Fits(grants', p, paths[p], policy,
                      CeilingIn(oversubscriptions, epoch', p, paths[p], policy, 0))
        <3>1. /\ paths[p] \in PathRecord /\ paths[p].authoritative_usable \in Amount
              /\ paths[p].unavailable <= paths[p].authoritative_usable /\ policy \in Policy
            BY PathFacts
        <3> QED
            BY <1>1, <2>2, <3>1, NothingAuthorised
    <2>4. AllFit'
        BY <2>1, <2>3 DEF AllFit
    <2> QED
        BY <2>1, <2>4 DEF WithinLimits, AllocInv, UsablesFit
<1> QED
    BY <1>2, <1>3 DEF ConfigNext

\* What happens to sites takes authorisation away and gives none.
LEMMA SiteAllocated ==
    ASSUME AllocInv, IInv', SiteNext PROVE WithinLimits'
<1>1. grants' \in GrantTable
    BY DEF IInv, TypeOK, GrantTable
<1>2. \A q : Shrinks(grants, grants', q)
    BY NothingNew DEF AllocInv
<1> QED
    BY <1>1, <1>2, SiteFrame, ShrinkStep

\* So does the passage of time.
LEMMA TickAllocated ==
    ASSUME AllocInv, IInv', NEW now_ms \in Times, tick(now_ms) PROVE WithinLimits'
<1>1. grants' \in GrantTable
    BY DEF IInv, TypeOK, GrantTable
<1>2. \A q : Shrinks(grants, grants', q)
    BY NothingNew DEF AllocInv
<1>3. UNCHANGED <<epoch, policy, paths, oversubscriptions>>
    BY DEF tick
<1> QED
    BY <1>1, <1>2, <1>3, ShrinkStep

\* A step that replaces the record of one path by rec.
LEMMA PathStepAllocated ==
    ASSUME AllocInv, grants' \in GrantTable, NEW p \in Paths, NEW rec \in PathRecord,
           paths' = [paths EXCEPT ![p] = rec], rec.authoritative_usable \in Amount,
           UNCHANGED <<epoch, policy, oversubscriptions>>,
           \A q \in Entries(paths) : q # p => Shrinks(grants, grants', q),
           Fits(grants', p, rec, policy,
                CeilingIn(oversubscriptions, epoch, p, rec, policy, 0))
    PROVE  WithinLimits'
<1>1. paths \in [Paths -> PathRecord \cup {Nil}]
    BY DEF AllocInv, IInv, TypeOK
<1>2. /\ paths'[p] = rec
      /\ \A q \in Entries(paths') : q # p => q \in Entries(paths) /\ paths'[q] = paths[q]
    BY <1>1 DEF Entries
<1>3. ASSUME NEW q \in Entries(paths')
      PROVE  Fits(grants', q, paths'[q], policy',
                  CeilingIn(oversubscriptions', epoch', q, paths'[q], policy', 0))
    <2>1. CASE q = p
        BY <1>2, <2>1
    <2>2. CASE q # p
        BY <1>2, <2>2, FitsKept
    <2> QED
        BY <2>1, <2>2
<1>4. UsablesFit'
    BY <1>2 DEF AllocInv, WithinLimits, UsablesFit
<1>5. AllFit'
    BY <1>3 DEF AllFit
<1> QED
    BY <1>4, <1>5 DEF AllocInv, WithinLimits

\* The grants after rebalance_path on path p.
LEMMA RebalancedTable ==
    ASSUME grants \in GrantTable, grants' \in GrantTable, NEW p, NEW rec, NEW now_ms,
           grants' = [g \in Requests |->
                        IF g \in GrantsAt(p)
                        THEN Rebalanced(g, p, rec, policy, now_ms, PathBound(grants[g], rec))
                        ELSE grants[g]]
    PROVE  /\ \A q : Shrinks(grants, grants', q)
           /\ \A g \in Shed(p, rec, policy, now_ms) : ~authorised(grants'[g].state)
<1>1. ASSUME NEW g \in GrantsAt(p)
      PROVE  /\ g \in Requests /\ grants[g] # Nil
             /\ grants'[g].path = grants[g].path
             /\ grants'[g].grant_class = grants[g].grant_class
             /\ grants'[g].amount = grants[g].amount
             /\ authorised(grants'[g].state) => authorised(grants[g].state)
             /\ g \in Shed(p, rec, policy, now_ms) => ~authorised(grants'[g].state)
    <2> DEFINE b == PathBound(grants[g], rec)
    <2>1. g \in Requests /\ grants[g] \in GrantRecord /\ g \in Entries(grants) /\ grants[g] # Nil
        BY DEF GrantsAt, Entries, GrantTable
    <2>2. grants'[g] = Rebalanced(g, p, rec, policy, now_ms, b)
        BY <2>1
    <2>3. /\ b.path = grants[g].path /\ b.grant_class = grants[g].grant_class
          /\ b.amount = grants[g].amount /\ b.state = grants[g].state
        BY <2>1, ImagesKeep
    <2> HIDE DEF b
    <2> QED
        BY <2>1, <2>2, <2>3, RebalancedKeeps
<1>2. \A g \in Requests : g \notin GrantsAt(p) => grants'[g] = grants[g]
    OBVIOUS
<1>3. \A q : Shrinks(grants, grants', q)
    BY <1>1, <1>2, UpdatedShrinks
<1>4. \A g \in Shed(p, rec, policy, now_ms) : g \in GrantsAt(p)
    BY ShedAuthorised DEF GrantsAt
<1> QED
    BY <1>1, <1>3, <1>4

\* The ceiling depends on the generations and the attested capacity of a path.
LEMMA CeilingSame ==
    ASSUME NEW tab, NEW ep, NEW p, NEW pol, NEW now_ms, NEW rec, NEW rec2,
           rec2.generation = rec.generation,
           rec2.capacity_generation = rec.capacity_generation,
           rec2.authoritative_usable = rec.authoritative_usable
    PROVE  CeilingIn(tab, ep, p, rec2, pol, now_ms) = CeilingIn(tab, ep, p, rec, pol, now_ms)
<1>1. LiveIn(tab, ep, p, rec2, pol, now_ms) = LiveIn(tab, ep, p, rec, pol, now_ms)
    BY DEF LiveIn
<1> QED
    BY <1>1 DEF CeilingIn, BestIn, RatiosIn

\* When an outage ends, the floor regains no more than was unavailable.
LEMMA FloorFreed ==
    ASSUME NEW rec \in PathRecord, NEW rec2 \in PathRecord, NEW pol \in Policy,
           rec.authoritative_usable \in Amount, rec.unavailable <= rec.authoritative_usable,
           rec2.authoritative_usable = rec.authoritative_usable, rec2.unavailable = 0
    PROVE  /\ protected_floor(rec, pol) <= protected_floor(rec2, pol)
           /\ protected_floor(rec2, pol) <= protected_floor(rec, pol) + rec.unavailable
<1> DEFINE u == rec.authoritative_usable
           o == rec.unavailable
           x == max_amount(pol.protected_floor_units, fraction_bps(u, pol.protected_floor_bps))
<1>1. u \in Nat /\ o \in Nat /\ o <= u
    BY DEF PathRecord
<1>2. x \in Nat
    <2>1. pol.protected_floor_units \in Nat /\ pol.protected_floor_bps \in Nat
        BY DEF Policy
    <2>2. fraction_bps(u, pol.protected_floor_bps) \in Amount
        BY <1>1, <2>1, FractionMonotone
    <2>3. fraction_bps(u, pol.protected_floor_bps) \in Nat
        BY <2>2, CapacityAssumption DEF Amount
    <2> QED
        BY <2>1, <2>3 DEF max_amount
<1>3. /\ protected_floor(rec, pol) = min_amount(IF u > o THEN u - o ELSE 0, x)
      /\ protected_floor(rec2, pol) = min_amount(IF u > 0 THEN u - 0 ELSE 0, x)
    BY DEF protected_floor, Basis
<1> HIDE DEF u, o, x
<1>4. /\ min_amount(IF u > o THEN u - o ELSE 0, x) <= min_amount(IF u > 0 THEN u - 0 ELSE 0, x)
      /\ min_amount(IF u > 0 THEN u - 0 ELSE 0, x) <= min_amount(IF u > o THEN u - o ELSE 0, x) + o
    BY <1>1, <1>2 DEF min_amount
<1> QED
    BY <1>3, <1>4 DEF o

\* plan_set_path_state: an outage sheds what no longer fits; its end frees it.
LEMMA PathStateAllocated ==
    ASSUME AllocInv, IInv', NEW p \in Paths, NEW state \in PathStateInputs, NEW now_ms \in Times,
           set_path_state(p, state, now_ms)
    PROVE  WithinLimits'
<1> DEFINE degrading == path_requires_degradation(state)
           rec == [paths[p] EXCEPT !.state = state,
                                   !.unavailable = IF degrading
                                                   THEN paths[p].authoritative_usable ELSE 0]
           shed == IF degrading THEN Shed(p, rec, policy, now_ms) ELSE {}
           down == IF degrading \/ state = "Draining" THEN GrantsAt(p) ELSE {}
           c == CeilingIn(oversubscriptions, epoch, p, paths[p], policy, 0)
<1>1. /\ p \in Entries(paths) /\ paths' = [paths EXCEPT ![p] = rec]
      /\ UNCHANGED <<epoch, policy, oversubscriptions>>
      /\ grants' = [g \in Requests |-> IF g \in down
                        THEN IF g \in shed THEN [grants[g] EXCEPT !.state = "Withdrawing"]
                             ELSE Downgraded(grants[g])
                        ELSE grants[g]]
    <2>1. paths[p] # Nil /\ DOMAIN paths = Paths
        BY DEF set_path_state, AllocInv, IInv, TypeOK
    <2> QED
        BY <2>1 DEF set_path_state, Updated, Entries
<1>2. /\ paths[p] \in PathRecord /\ paths[p].authoritative_usable \in Amount
      /\ paths[p].unavailable \in Nat
      /\ paths[p].unavailable <= paths[p].authoritative_usable
      /\ policy \in Policy /\ grants \in GrantTable
      /\ oversubscriptions \in OversubscriptionTable
      /\ protected_floor(paths[p], policy) \in Nat /\ c \in Nat
      /\ Fits(grants, p, paths[p], policy, c)
    BY <1>1, PathFacts
<1>3. grants' \in GrantTable
    BY DEF IInv, TypeOK, GrantTable
<1>4. /\ rec \in PathRecord
      /\ rec.authoritative_usable = paths[p].authoritative_usable
      /\ rec.generation = paths[p].generation
      /\ rec.capacity_generation = paths[p].capacity_generation
      /\ rec.unavailable = IF degrading THEN paths[p].authoritative_usable ELSE 0
    BY <1>2, InputAssumption DEF PathRecord
<1>5. ASSUME NEW g \in down
      PROVE  /\ g \in Requests /\ grants[g] # Nil
             /\ grants'[g].path = grants[g].path
             /\ grants'[g].grant_class = grants[g].grant_class
             /\ grants'[g].amount = grants[g].amount
             /\ authorised(grants'[g].state) => authorised(grants[g].state)
             /\ g \in shed => ~authorised(grants'[g].state)
    <2>1. g \in Requests /\ grants[g] \in GrantRecord /\ grants[g] # Nil
        BY <1>2 DEF GrantsAt, Entries, GrantTable
    <2>2. CASE g \in shed
        <3>1. grants'[g] = [grants[g] EXCEPT !.state = "Withdrawing"]
            BY <1>1, <2>1, <2>2
        <3>2. /\ grants'[g].path = grants[g].path
              /\ grants'[g].grant_class = grants[g].grant_class
              /\ grants'[g].amount = grants[g].amount /\ grants'[g].state = "Withdrawing"
            BY <2>1, <3>1, ImagesKeep
        <3>3. ~authorised("Withdrawing")
            BY DEF authorised
        <3> QED
            BY <2>1, <3>2, <3>3
    <2>3. CASE g \notin shed
        <3>1. grants'[g] = Downgraded(grants[g])
            BY <1>1, <2>1, <2>3
        <3> QED
            BY <2>1, <2>3, <3>1, ImagesKeep
    <2> QED
        BY <2>2, <2>3
<1>6. \A g \in Requests : g \notin down => grants'[g] = grants[g]
    BY <1>1
<1> HIDE DEF down
<1>7. \A q : Shrinks(grants, grants', q)
    BY <1>2, <1>3, <1>5, <1>6, UpdatedShrinks
<1>8. Fits(grants', p, rec, policy, CeilingIn(oversubscriptions, epoch, p, rec, policy, 0))
    <2>1. CASE degrading
        <3>1. /\ rec.unavailable <= rec.authoritative_usable
              /\ rec.authoritative_usable \in Amount
            BY <1>2, <1>4, <2>1, CapacityAssumption DEF Amount
        <3>2. \A g \in Shed(p, rec, policy, now_ms) : ~authorised(grants'[g].state)
            <4>1. \A g \in Shed(p, rec, policy, now_ms) : g \in down /\ g \in shed
                BY <2>1, ShedAuthorised DEF down, GrantsAt
            <4> QED
                BY <1>5, <4>1
        <3> HIDE DEF rec, shed, degrading
        <3> QED
            BY <1>2, <1>3, <1>4, <1>7, <3>1, <3>2, FitsAfterShed
    <2>2. CASE ~degrading
        <3> DEFINE f == protected_floor(paths[p], policy)
                   f2 == protected_floor(rec, policy)
                   a(class) == AuthorisedSum(grants', p, class)
                   o == paths[p].unavailable
        <3>1. CeilingIn(oversubscriptions, epoch, p, rec, policy, 0) = c
            <4> HIDE DEF rec
            <4> QED
                BY <1>4, CeilingSame
        <3>2. rec.unavailable = 0
            BY <1>4, <2>2
        <3>3. f <= f2 /\ f2 <= f + o
            BY <1>2, <1>4, <3>2, FloorFreed
        <3>4. Fits(grants', p, paths[p], policy, c)
            <4>1. c <= c
                BY <1>2
            <4> HIDE DEF c
            <4> QED
                BY <1>2, <1>3, <1>7, <4>1, FitsShrinks
        <3>5. a("Protected") <= f /\ a("General") + f + o <= c
            BY <3>4 DEF Fits
        <3>6. a("Protected") \in Nat /\ a("General") \in Nat
            <4>1. \A class : AuthorisedIn(grants', p, class) \in SUBSET Entries(grants')
                BY DEF AuthorisedIn
            <4> QED
                BY <1>3, <4>1, EntriesSum DEF AuthorisedSum
        <3>7. f2 \in Nat
            <4>1. rec.unavailable <= rec.authoritative_usable
                  /\ rec.authoritative_usable \in Amount
                BY <1>2, <1>4, <3>2, CapacityAssumption DEF Amount
            <4> HIDE DEF rec
            <4> QED
                BY <1>2, <1>4, <4>1, FloorFits, CapacityAssumption DEF Amount
        <3>8. f \in Nat /\ o \in Nat /\ c \in Nat
            BY <1>2
        <3> HIDE DEF f, f2, a, o, c
        <3>9. a("Protected") <= f2 /\ a("General") + f2 + 0 <= c
            BY <3>3, <3>5, <3>6, <3>7, <3>8
        <3> QED
            BY <3>1, <3>2, <3>9 DEF Fits, a, f2
    <2> QED
        BY <2>1, <2>2
<1>9. rec.authoritative_usable \in Amount
    BY <1>2, <1>4
<1> HIDE DEF rec, c
<1> QED
    BY <1>1, <1>3, <1>4, <1>7, <1>8, <1>9, PathStepAllocated

\* What happens to paths: a new path has no grants, and wherever a record is
\* replaced rebalance_path runs on it.
LEMMA PathAllocated ==
    ASSUME AllocInv, IInv', PathNext PROVE WithinLimits'
<1>1. /\ grants \in GrantTable /\ grants' \in GrantTable /\ policy \in Policy
      /\ oversubscriptions \in OversubscriptionTable
      /\ paths \in [Paths -> PathRecord \cup {Nil}] /\ paths' \in [Paths -> PathRecord \cup {Nil}]
      /\ UnavailableWithinUsable'
    BY DEF AllocInv, IInv, TypeOK, GrantTable, WithinLimits, OversubscriptionTable
<1>2. ASSUME NEW p \in Paths, NEW rec, rec # Nil, paths' = [paths EXCEPT ![p] = rec]
      PROVE  /\ rec \in PathRecord
             /\ rec.unavailable <= rec.authoritative_usable
    <2>1. paths'[p] = rec /\ p \in Entries(paths')
        BY <1>1, <1>2 DEF Entries
    <2> QED
        BY <1>1, <1>2, <2>1 DEF UnavailableWithinUsable
<1>3. ASSUME NEW p \in Paths, NEW a \in Sites, NEW b \in Sites, NEW d \in Domains,
             NEW state \in PathStateInputs, register_new_path(p, a, b, d, state)
      PROVE  WithinLimits'
    <2> DEFINE rec == [shared_risk_domain |-> d, endpoint_a |-> a, endpoint_b |-> b,
                       generation |-> 1, capacity_generation |-> 0, state |-> state,
                       authoritative_usable |-> 0, unavailable |-> 0]
    <2>1. /\ paths' = [paths EXCEPT ![p] = rec] /\ paths[p] = Nil
          /\ UNCHANGED <<epoch, policy, oversubscriptions, grants>>
        BY <1>3 DEF register_new_path
    <2>2. rec \in PathRecord
        BY InputAssumption DEF PathRecord
    <2>3. rec.authoritative_usable \in Amount /\ rec.unavailable <= rec.authoritative_usable
        BY CapacityAssumption DEF Amount
    <2>4. \A g \in Entries(grants) : grants[g].path # p
        BY <2>1 DEF AllocInv, IInv, ReferencesExist
    <2> HIDE DEF rec
    <2>5. Fits(grants', p, rec, policy, CeilingIn(oversubscriptions, epoch, p, rec, policy, 0))
        BY <1>1, <2>1, <2>2, <2>3, <2>4, NothingAuthorised
    <2>6. \A q : Shrinks(grants, grants', q)
        BY <2>1 DEF Shrinks
    <2> QED
        BY <1>1, <2>1, <2>2, <2>3, <2>5, <2>6, PathStepAllocated
<1>4. ASSUME NEW p \in Paths, NEW rec \in PathRecord, NEW now_ms,
             paths' = [paths EXCEPT ![p] = rec],
             UNCHANGED <<epoch, policy, oversubscriptions>>,
             rec.authoritative_usable \in Amount,
             grants' = [g \in Requests |->
                        IF g \in GrantsAt(p)
                        THEN Rebalanced(g, p, rec, policy, now_ms, PathBound(grants[g], rec))
                        ELSE grants[g]]
      PROVE  WithinLimits'
    <2>1. /\ \A q : Shrinks(grants, grants', q)
          /\ \A g \in Shed(p, rec, policy, now_ms) : ~authorised(grants'[g].state)
        BY <1>1, <1>4, RebalancedTable
    <2>2. rec.unavailable <= rec.authoritative_usable
        BY <1>2, <1>4, NilAssumption
    <2>3. Fits(grants', p, rec, policy, CeilingIn(oversubscriptions, epoch, p, rec, policy, 0))
        BY <1>1, <1>4, <2>1, <2>2, FitsAfterShed
    <2> QED
        BY <1>1, <1>4, <2>1, <2>3, PathStepAllocated
<1>5. ASSUME NEW p \in Paths, NEW a \in Sites, NEW b \in Sites, NEW d \in Domains,
             NEW gen \in PathGenerations, NEW state \in PathStateInputs, NEW now_ms \in Times,
             reregister_path(p, a, b, d, gen, state, now_ms)
      PROVE  WithinLimits'
    <2> DEFINE rec == [paths[p] EXCEPT !.shared_risk_domain = d, !.endpoint_a = a,
                                       !.endpoint_b = b, !.generation = gen, !.state = state]
    <2>1. /\ paths' = [paths EXCEPT ![p] = rec] /\ paths[p] # Nil
          /\ UNCHANGED <<epoch, policy, oversubscriptions>>
          /\ grants' = [g \in Requests |->
                        IF g \in GrantsAt(p)
                        THEN Rebalanced(g, p, rec, policy, now_ms, PathBound(grants[g], rec))
                        ELSE grants[g]]
        BY <1>5 DEF reregister_path, Updated
    <2>2. p \in Entries(paths) /\ paths[p] \in PathRecord
        BY <1>1, <2>1 DEF Entries
    <2>3. /\ rec \in PathRecord
          /\ rec.authoritative_usable = paths[p].authoritative_usable
        BY <2>2, InputAssumption DEF PathRecord
    <2>4. rec.authoritative_usable \in Amount
        BY <2>2, <2>3, PathFacts
    <2> HIDE DEF rec
    <2> QED
        BY <1>4, <2>1, <2>3, <2>4
<1>6. ASSUME NEW p \in Paths, NEW id \in AttestationIds, NEW e \in Epochs,
             NEW pathGen \in PathGenerations, NEW capGen \in CapacityGenerations,
             NEW usable \in Usables, NEW now_ms \in Times,
             attest_capacity(id, p, e, pathGen, capGen, usable, now_ms)
      PROVE  WithinLimits'
    <2> DEFINE rec == Attested(paths[p], capGen, usable)
    <2>1. /\ paths' = [paths EXCEPT ![p] = rec] /\ paths[p] # Nil
          /\ UNCHANGED <<epoch, policy, oversubscriptions>>
          /\ grants' = [g \in Requests |->
                        IF g \in GrantsAt(p)
                        THEN Rebalanced(g, p, rec, policy, now_ms, PathBound(grants[g], rec))
                        ELSE grants[g]]
        BY <1>6 DEF attest_capacity, Updated
    <2>2. paths[p] \in PathRecord
        BY <1>1, <2>1 DEF Entries
    <2>3. usable \in Amount /\ usable \in Nat
        BY InputAssumption, CapacityAssumption DEF Amount
    <2>4. rec \in PathRecord /\ rec.authoritative_usable = usable
        BY <2>2, <2>3, InputAssumption DEF Attested, PathRecord, min_amount
    <2> HIDE DEF rec
    <2> QED
        BY <1>4, <2>1, <2>3, <2>4
<1> QED
    BY <1>3, <1>5, <1>6, PathStateAllocated DEF PathNext

\* A new authority can only raise ceilings, unless it takes the place of one.
LEMMA OversubscriptionAllocated ==
    ASSUME AllocInv, IInv', OversubscriptionNext,
           \A o \in Entries(oversubscriptions) : oversubscriptions'[o] = oversubscriptions[o]
    PROVE  WithinLimits'
<1>1. PICK id \in OversubIds : \E a :
            /\ a.ratio_bps <= kMaxOversubscriptionBps
            /\ oversubscriptions' = [oversubscriptions EXCEPT ![id] = a]
            /\ UNCHANGED <<epoch, policy, paths, grants>>
    <2>1. \A id, a : issue_oversubscription(id, a) =>
                /\ a.ratio_bps <= kMaxOversubscriptionBps
                /\ oversubscriptions' = [oversubscriptions EXCEPT ![id] = a]
                /\ UNCHANGED <<epoch, policy, paths, grants>>
        BY DEF issue_oversubscription
    <2> QED
        BY <2>1 DEF OversubscriptionNext
<1> PICK a : /\ a.ratio_bps <= kMaxOversubscriptionBps
             /\ oversubscriptions' = [oversubscriptions EXCEPT ![id] = a]
             /\ UNCHANGED <<epoch, policy, paths, grants>>
    BY <1>1
<1>2. /\ oversubscriptions \in [OversubIds -> OversubscriptionAuthority \cup {Nil}]
      /\ oversubscriptions' \in [OversubIds -> OversubscriptionAuthority \cup {Nil}]
    BY DEF AllocInv, IInv, TypeOK
<1>3. Bounded(oversubscriptions')
    BY <1>1, <1>2 DEF AllocInv, WithinLimits, Bounded, Entries
<1>4. /\ oversubscriptions \in OversubscriptionTable
      /\ oversubscriptions' \in OversubscriptionTable
    BY <1>2, <1>3 DEF OversubscriptionTable, AllocInv, WithinLimits
<1>5. Entries(oversubscriptions) \subseteq Entries(oversubscriptions')
    BY <1>2 DEF Entries
<1>6. ASSUME NEW p \in Entries(paths)
      PROVE  Fits(grants, p, paths[p], policy,
                  CeilingIn(oversubscriptions', epoch, p, paths[p], policy, 0))
    <2> DEFINE c == CeilingIn(oversubscriptions, epoch, p, paths[p], policy, 0)
               c2 == CeilingIn(oversubscriptions', epoch, p, paths[p], policy, 0)
    <2>1. /\ paths[p] \in PathRecord /\ paths[p].authoritative_usable \in Amount
          /\ paths[p].unavailable \in Nat /\ policy \in Policy /\ grants \in GrantTable
          /\ protected_floor(paths[p], policy) \in Nat /\ c \in Nat
          /\ Fits(grants, p, paths[p], policy, c)
        BY PathFacts
    <2>2. \A o \in LiveIn(oversubscriptions, epoch, p, paths[p], policy, 0) :
                /\ o \in LiveIn(oversubscriptions', epoch, p, paths[p], policy, 0)
                /\ oversubscriptions'[o].ratio_bps = oversubscriptions[o].ratio_bps
        BY <1>5 DEF LiveIn
    <2>3. c <= c2
        BY <1>4, <2>1, <2>2, CeilingGrows
    <2>4. c2 \in Nat
        BY <1>4, <2>1, CeilingAtZero, CapacityAssumption DEF Amount
    <2>5. Shrinks(grants, grants, p)
        BY DEF Shrinks
    <2> HIDE DEF c, c2
    <2>6. Fits(grants, p, paths[p], policy, c2)
        BY <2>1, <2>3, <2>4, <2>5, FitsShrinks
    <2> QED
        BY <2>6 DEF c2
<1>7. AllFit'
    BY <1>1, <1>6 DEF AllFit
<1>8. UsablesFit'
    BY <1>1 DEF AllocInv, WithinLimits, UsablesFit
<1> QED
    BY <1>3, <1>7, <1>8 DEF WithinLimits

\* The ledger of a path: what is committed or reserved is what is authorised,
\* of one class or the other, and protected grants hold at least what is
\* authorised of them.
LEMMA LedgerSums ==
    ASSUME TypeOK, NEW p
    PROVE  /\ committed(p) \in Nat /\ reserved(p) \in Nat /\ withdrawing(p) \in Nat
           /\ protected_held(p) \in Nat
           /\ AuthorisedSum(grants, p, "Protected") \in Nat
           /\ AuthorisedSum(grants, p, "General") \in Nat
           /\ committed(p) + reserved(p)
                = AuthorisedSum(grants, p, "Protected") + AuthorisedSum(grants, p, "General")
           /\ AuthorisedSum(grants, p, "Protected") <= protected_held(p)
<1> DEFINE f == AmountsOf(grants)
           C == {g \in Entries(grants) : grants[g].path = p
                                            /\ grants[g].state \in {"Active", "Degraded"}}
           R == {g \in Entries(grants) : grants[g].path = p /\ grants[g].state = "Reserved"}
           W == {g \in Entries(grants) : grants[g].path = p /\ grants[g].state = "Withdrawing"}
           H == {g \in Entries(grants) : grants[g].path = p
                        /\ (holds_capacity(grants[g].state) /\ grants[g].grant_class = "Protected")}
           P == AuthorisedIn(grants, p, "Protected")
           G == AuthorisedIn(grants, p, "General")
           V(S) == SumFunctionOnSet(f, S)
<1>1. grants \in GrantTable
    BY DEF TypeOK, GrantTable
<1>2. /\ C \in SUBSET Entries(grants) /\ R \in SUBSET Entries(grants)
      /\ W \in SUBSET Entries(grants) /\ H \in SUBSET Entries(grants)
      /\ P \in SUBSET Entries(grants) /\ G \in SUBSET Entries(grants)
    BY DEF AuthorisedIn
<1>3. \A S \in SUBSET Entries(grants) :
            /\ V(S) \in Nat /\ Total(S) = V(S) /\ IsFiniteSet(S) /\ \A g \in S : f[g] \in Nat
    <2> TAKE S \in SUBSET Entries(grants)
    <2>1. S \in SUBSET Requests /\ V(S) \in Nat /\ IsFiniteSet(S) /\ \A g \in S : f[g] \in Nat
        BY <1>1, EntriesSum
    <2> QED
        BY <2>1, TotalIsSum
<1>4. /\ committed(p) = Total(C) /\ reserved(p) = Total(R) /\ withdrawing(p) = Total(W)
      /\ protected_held(p) = Total(H)
    BY DEF committed, reserved, withdrawing, protected_held, GrantsOn
<1>5. C \cap R = {} /\ P \cap G = {} /\ P \subseteq H
    BY DEF AuthorisedIn, authorised, holds_capacity
<1>6. C \cup R = P \cup G
    <2>1. \A g \in Entries(grants) : grants[g].grant_class \in {"General", "Protected"}
        BY <1>1, EntriesSum DEF GrantRecord, GrantClass
    <2> QED
        BY <2>1 DEF AuthorisedIn, authorised
<1>7. AuthorisedSum(grants, p, "Protected") = V(P) /\ AuthorisedSum(grants, p, "General") = V(G)
    BY DEF AuthorisedSum
<1> HIDE DEF f, C, R, W, H, P, G
<1>8. V(C \cup R) = V(C) + V(R)
    <2>1. IsFiniteSet(C) /\ IsFiniteSet(R) /\ \A g \in C \cup R : f[g] \in Nat
        BY <1>2, <1>3
    <2> QED
        BY <1>5, <2>1, SumUnion
<1>9. V(P \cup G) = V(P) + V(G)
    <2>1. IsFiniteSet(P) /\ IsFiniteSet(G) /\ \A g \in P \cup G : f[g] \in Nat
        BY <1>2, <1>3
    <2> QED
        BY <1>5, <2>1, SumUnion
<1>10. V(P) <= V(H)
    <2>1. IsFiniteSet(H) /\ \A g \in H : f[g] \in Nat
        BY <1>2, <1>3
    <2> QED
        BY <1>5, <2>1, SumPart
<1>11. /\ V(C) \in Nat /\ V(R) \in Nat /\ V(W) \in Nat /\ V(H) \in Nat /\ V(P) \in Nat /\ V(G) \in Nat
       /\ Total(C) = V(C) /\ Total(R) = V(R) /\ Total(W) = V(W) /\ Total(H) = V(H)
    BY <1>2, <1>3
<1> HIDE DEF V
<1> QED
    BY <1>4, <1>6, <1>7, <1>8, <1>9, <1>10, <1>11

\* A grant that becomes authorised adds its amount to its class on its path.
LEMMA AuthorisedAdds ==
    ASSUME grants \in GrantTable, NEW g \in Entries(grants), NEW r \in GrantRecord,
           grants' = [grants EXCEPT ![g] = r],
           r.path = grants[g].path, r.grant_class = grants[g].grant_class,
           r.amount = grants[g].amount, ~authorised(grants[g].state), authorised(r.state)
    PROVE  /\ AuthorisedSum(grants', r.path, r.grant_class)
                = r.amount + AuthorisedSum(grants, r.path, r.grant_class)
           /\ \A class : class # r.grant_class =>
                AuthorisedSum(grants', r.path, class) = AuthorisedSum(grants, r.path, class)
           /\ \A q : q # r.path => Shrinks(grants, grants', q)
<1> DEFINE f == AmountsOf(grants)
           f2 == AmountsOf(grants')
           p == r.path
           A(class) == AuthorisedIn(grants, p, class)
<1>1. /\ g \in Requests /\ grants'[g] = r /\ r # Nil
      /\ \A h \in Requests : h # g => grants'[h] = grants[h]
      /\ DOMAIN grants = Requests /\ DOMAIN grants' = Requests
    BY NilAssumption DEF Entries, GrantTable
<1>2. Entries(grants') = Entries(grants)
    BY <1>1 DEF Entries
<1>3. f2 = f
    <2>1. \A h \in Requests : grants'[h].amount = grants[h].amount
        BY <1>1
    <2> QED
        BY <2>1 DEF AmountsOf
<1>4. AuthorisedIn(grants', p, r.grant_class) = A(r.grant_class) \cup {g}
      /\ g \notin A(r.grant_class)
    BY <1>1, <1>2 DEF AuthorisedIn
<1>5. ASSUME NEW class, class # r.grant_class
      PROVE  AuthorisedIn(grants', p, class) = A(class)
    BY <1>1, <1>2, <1>5 DEF AuthorisedIn
<1>6. ASSUME NEW q, q # p PROVE Shrinks(grants, grants', q)
    BY <1>1, <1>2, <1>6 DEF Shrinks
<1>7. SumFunctionOnSet(f, A(r.grant_class) \cup {g}) = r.amount + SumFunctionOnSet(f, A(r.grant_class))
    <2> DEFINE B == A(r.grant_class) \cup {g}
    <2>1. B \in SUBSET Entries(grants)
        BY DEF AuthorisedIn
    <2>2. IsFiniteSet(B) /\ (\A h \in B : f[h] \in Nat) /\ f[g] = r.amount
        BY <2>1, EntriesSum
    <2>3. B \ {g} = A(r.grant_class) /\ g \in B
        BY <1>4
    <2> HIDE DEF B, A, f
    <2>4. SumFunctionOnSet(f, B) = f[g] + SumFunctionOnSet(f, B \ {g})
        BY <2>2, <2>3, SumTakes
    <2> QED
        BY <2>2, <2>3, <2>4 DEF B
<1> QED
    BY <1>3, <1>4, <1>5, <1>6, <1>7 DEF AuthorisedSum

\* plan_reserve_grant: what it checks is enough for the grant it adds.
LEMMA ReserveAllocated ==
    ASSUME AllocInv, NEW g \in Requests, NEW op \in Ops, reserve_grant(g, op),
           NEW r \in GrantRecord, r.state = "Reserved", GrantMove(g, r), grants' \in GrantTable
    PROVE  WithinLimits'
<1> DEFINE p == grants[g].path
           rec == paths[p]
           now == op.now_ms
           c == CeilingIn(oversubscriptions, epoch, p, rec, policy, now)
           z == CeilingIn(oversubscriptions, epoch, p, rec, policy, 0)
           f == protected_floor(rec, policy)
           m == minimum_free(rec, policy)
           o == rec.unavailable
           x == grants[g].amount
           P == AuthorisedSum(grants, p, "Protected")
           G == AuthorisedSum(grants, p, "General")
<1>1. /\ grants[g] # Nil /\ grants[g].state = "Eligible"
      /\ allocatable(p, grants[g].grant_class, now) >= x
    BY DEF reserve_grant
<1>2. g \in Entries(grants) /\ grants[g] \in GrantRecord /\ TypeOK
    BY <1>1 DEF AllocInv, IInv, TypeOK, Entries
<1>3. p \in Entries(paths)
    <2>1. rec # Nil /\ p \in Paths
        BY <1>2 DEF AllocInv, IInv, ReferencesExist, GrantRecord
    <2> QED
        BY <2>1 DEF AllocInv, IInv, TypeOK, Entries
<1>4. /\ rec \in PathRecord /\ rec.authoritative_usable \in Amount /\ o \in Nat
      /\ o <= rec.authoritative_usable /\ policy \in Policy /\ grants \in GrantTable
      /\ oversubscriptions \in OversubscriptionTable /\ f \in Nat /\ z \in Nat
      /\ Fits(grants, p, rec, policy, z)
    BY <1>3, PathFacts
<1>5. m \in Nat
    BY <1>4, FloorFits, CapacityAssumption DEF Amount
<1>6. c \in Nat /\ c <= z
    BY <1>4, CeilingAtZero, CapacityAssumption DEF Amount
<1>7. /\ committed(p) \in Nat /\ reserved(p) \in Nat /\ withdrawing(p) \in Nat
      /\ protected_held(p) \in Nat /\ P \in Nat /\ G \in Nat
      /\ committed(p) + reserved(p) = P + G /\ P <= protected_held(p)
    BY <1>2, LedgerSums
<1>8. P <= f /\ G + f + o <= z
    BY <1>4 DEF Fits
<1>9. x \in Nat /\ grants[g].grant_class \in {"General", "Protected"}
    BY <1>2 DEF GrantRecord, GrantClass
<1>10. allocatable(p, grants[g].grant_class, now)
        = LET consumed == committed(p) + reserved(p) + withdrawing(p) + f + m + o IN
          IF grants[g].grant_class = "Protected"
          THEN IF protected_held(p) > f THEN 0 ELSE f - protected_held(p)
          ELSE IF consumed < c THEN c - consumed ELSE 0
    BY CeilingIs DEF allocatable
<1>11. /\ grants' = [grants EXCEPT ![g] = r] /\ UNCHANGED <<epoch, policy, paths, oversubscriptions>>
       /\ r.path = p /\ r.grant_class = grants[g].grant_class /\ r.amount = x
    BY <1>1 DEF GrantMove
<1>12. ~authorised(grants[g].state) /\ authorised(r.state)
    BY <1>1 DEF authorised
<1>13. /\ AuthorisedSum(grants', p, grants[g].grant_class)
                = x + AuthorisedSum(grants, p, grants[g].grant_class)
       /\ \A class : class # grants[g].grant_class =>
                AuthorisedSum(grants', p, class) = AuthorisedSum(grants, p, class)
       /\ \A q : q # p => Shrinks(grants, grants', q)
    <2> HIDE DEF p, x
    <2> QED
        BY <1>2, <1>4, <1>11, <1>12, AuthorisedAdds DEF p, x
<1>14. Fits(grants', p, rec, policy, z)
    <2>1. CASE grants[g].grant_class = "Protected"
        <3>1. AuthorisedSum(grants', p, "Protected") = x + P
              /\ AuthorisedSum(grants', p, "General") = G
            BY <1>13, <2>1
        <3>2. IF protected_held(p) > f THEN 0 >= x ELSE f - protected_held(p) >= x
            BY <1>1, <1>10, <2>1
        <3> HIDE DEF f, x, P, G, z, o
        <3>3. x + P <= f
            BY <1>4, <1>7, <1>8, <1>9, <3>2
        <3> QED
            BY <1>8, <3>1, <3>3 DEF Fits, f, z, o
    <2>2. CASE grants[g].grant_class = "General"
        <3>1. AuthorisedSum(grants', p, "Protected") = P
              /\ AuthorisedSum(grants', p, "General") = x + G
            BY <1>13, <2>2
        <3> DEFINE k == committed(p) + reserved(p) + withdrawing(p) + f + m + o
        <3>2. IF k < c THEN c - k >= x ELSE 0 >= x
            BY <1>1, <1>10, <2>2
        <3>3. k \in Nat /\ G + f + o <= k
            <4> HIDE DEF f, m, P, G, o
            <4> QED
                BY <1>4, <1>5, <1>7
        <3> HIDE DEF f, x, P, G, z, o, c, k
        <3>4. (x + G) + f + o <= z
            BY <1>4, <1>6, <1>7, <1>8, <1>9, <3>2, <3>3
        <3> QED
            BY <1>8, <3>1, <3>4 DEF Fits, f, z, o
    <2> QED
        BY <1>9, <2>1, <2>2
<1>15. ASSUME NEW q \in Entries(paths)
       PROVE  Fits(grants', q, paths'[q], policy',
                   CeilingIn(oversubscriptions', epoch', q, paths'[q], policy', 0))
    <2>1. CASE q = p
        BY <1>11, <1>14, <2>1
    <2>2. CASE q # p
        BY <1>11, <1>13, <2>2, FitsKept
    <2> QED
        BY <2>1, <2>2
<1>16. AllFit'
    BY <1>11, <1>15 DEF AllFit
<1>17. UsablesFit' /\ Bounded(oversubscriptions')
    BY <1>11 DEF AllocInv, WithinLimits, UsablesFit
<1> QED
    BY <1>16, <1>17 DEF WithinLimits

\* A request about a grant is a reservation or authorises nothing.
LEMMA GrantStepCases ==
    ASSUME IInv, IInv', GrantNext, \A g \in Requests : ~reconcile_active(g)
    PROVE  \/ \A q : Shrinks(grants, grants', q)
           \/ \E g \in Requests : \E r \in GrantRecord : \E op \in Ops :
                reserve_grant(g, op) /\ r.state = "Reserved" /\ GrantMove(g, r)
<1>1. PICK g \in Requests : \E r \in GrantRecord : GrantMove(g, r)
    BY GrantMoves
<1>2. PICK r \in GrantRecord : GrantMove(g, r)
    BY <1>1
<1>3. /\ grants \in GrantTable /\ grants' \in GrantTable
    BY DEF IInv, TypeOK, GrantTable
<1>4. /\ grants' = [grants EXCEPT ![g] = r]
      /\ grants'[g] = r /\ \A h \in Requests : h # g => grants'[h] = grants[h]
    BY <1>2, <1>3 DEF GrantMove, GrantTable
<1>5. CASE grants[g] # Nil /\ (authorised(r.state) => authorised(grants[g].state))
    <2>1. g \in Entries(grants) /\ r.path = grants[g].path
          /\ r.grant_class = grants[g].grant_class /\ r.amount = grants[g].amount
        BY <1>2, <1>3, <1>5 DEF GrantMove, Entries, GrantTable
    <2> QED
        BY <1>3, <1>4, <1>5, <2>1, SetGrantShrinks
<1>6. CASE grants[g] = Nil
    <2>1. ~authorised(grants'[g].state)
        BY <1>2, <1>4, <1>6, NilAssumption DEF GrantMove, authorised
    <2>2. \A h \in Entries(grants') : h # g => h \in Entries(grants) /\ grants'[h] = grants[h]
        BY <1>3, <1>4 DEF Entries, GrantTable
    <2> QED
        BY <2>1, <2>2 DEF Shrinks
<1>7. CASE grants[g] # Nil /\ ~(authorised(r.state) => authorised(grants[g].state))
    <2>1. \/ r.state = grants[g].state
          \/ /\ can_transition(grants[g].state, r.state)
             /\ r.state = "Reserved" => \E op \in Ops : reserve_grant(g, op)
          \/ \E target \in ReconcileTargets : reconcile_grant(g, target)
        BY <1>2, <1>7 DEF GrantMove
    <2>2. CASE can_transition(grants[g].state, r.state)
               /\ (r.state = "Reserved" => \E op \in Ops : reserve_grant(g, op))
        <3>1. r.state = "Reserved"
            BY <1>7, <2>2 DEF can_transition, authorised
        <3> QED
            BY <1>2, <2>2, <3>1
    <2>3. CASE \E target \in ReconcileTargets : reconcile_grant(g, target)
        <3>1. reconcile_retired(g)
            BY <2>3 DEF reconcile_grant
        <3>2. grants[g] \in GrantRecord
            BY <1>3, <1>7 DEF GrantTable
        <3>3. grants'[g] = [grants[g] EXCEPT !.state = "Retired", !.verification = "Unverified",
                                             !.ambiguous = FALSE]
            BY <1>3, <3>1 DEF reconcile_retired, SetGrant, GrantTable
        <3>4. r.state = "Retired"
            BY <1>4, <3>2, <3>3 DEF GrantRecord
        <3> QED
            BY <1>7, <3>4 DEF authorised
    <2> QED
        BY <1>7, <2>1, <2>2, <2>3
<1> QED
    BY <1>5, <1>6, <1>7

\* Of the requests about a grant only reserve_grant authorises it, unless an
\* operator reinstates one.
LEMMA GrantAllocated ==
    ASSUME AllocInv, IInv', GrantNext, \A g \in Requests : ~reconcile_active(g)
    PROVE  WithinLimits'
<1>1. grants' \in GrantTable
    BY DEF IInv, TypeOK, GrantTable
<1>2. UNCHANGED <<epoch, policy, paths, oversubscriptions>>
    BY GrantMoves DEF GrantMove, AllocInv
<1>3. CASE \A q : Shrinks(grants, grants', q)
    BY <1>1, <1>2, <1>3, ShrinkStep
<1>4. CASE \E g \in Requests : \E r \in GrantRecord : \E op \in Ops :
                reserve_grant(g, op) /\ r.state = "Reserved" /\ GrantMove(g, r)
    BY <1>1, <1>4, ReserveAllocated
<1> QED
    BY <1>3, <1>4, GrantStepCases DEF AllocInv

------------------------------------------------------------------------------
(* Theorems *)

\* The operator reinstates no grant (reconcile_active consults no capacity), and
\* no oversubscription authority takes the place of another under its identity
\* (plan_issue_oversubscription overwrites it without shedding anything).
Careful ==
    /\ \A g \in Requests : ~reconcile_active(g)
    /\ \A o \in Entries(oversubscriptions) : oversubscriptions'[o] = oversubscriptions[o]

\* Every other accepted request preserves the invariant.
LEMMA AllocInvNext == AllocInv /\ [Next]_vars /\ [Careful]_vars => AllocInv'
<1> SUFFICES ASSUME AllocInv, [Next]_vars, [Careful]_vars PROVE AllocInv'
    OBVIOUS
<1>1. IInv'
    BY IInvNext DEF AllocInv
<1>2. CASE UNCHANGED vars
    <2>1. grants' \in GrantTable /\ \A p \in Entries(paths) : Shrinks(grants, grants', p)
        BY <1>2 DEF vars, AllocInv, IInv, TypeOK, GrantTable, Shrinks
    <2>2. UNCHANGED <<epoch, policy, paths, oversubscriptions>>
        BY <1>2 DEF vars
    <2> QED
        BY <1>1, <2>1, <2>2, ShrinkStep DEF AllocInv
<1>3. CASE Next /\ Careful
    <2>1. CASE ConfigNext
        BY <1>1, <2>1, ConfigAllocated DEF AllocInv
    <2>2. CASE SiteNext
        BY <1>1, <2>2, SiteAllocated DEF AllocInv
    <2>3. CASE PathNext
        BY <1>1, <2>3, PathAllocated DEF AllocInv
    <2>4. CASE OversubscriptionNext
        BY <1>1, <1>3, <2>4, OversubscriptionAllocated DEF AllocInv, Careful
    <2>5. CASE GrantNext
        BY <1>1, <1>3, <2>5, GrantAllocated DEF AllocInv, Careful
    <2>6. CASE \E now_ms \in Times : tick(now_ms)
        BY <1>1, <2>6, TickAllocated DEF AllocInv
    <2> QED
        BY <1>3, <2>1, <2>2, <2>3, <2>4, <2>5, <2>6 DEF Next, Request
<1> QED
    BY <1>2, <1>3

\* The invariant holds in every state such requests reach.
LEMMA AllocInvAlways == Spec /\ [][Careful]_vars => []AllocInv
<1>1. Init => AllocInv
    BY IInvInit, InitAllocated DEF AllocInv
<1> QED
    BY <1>1, AllocInvNext, PTL DEF Spec

\* The authorised obligations of every path, the untaken part of the protected
\* floor and what is unavailable fit under the ceiling of the path: no order of
\* attestations, outages, policies, expiries and reservations oversubscribes it.
THEOREM NeverOversubscribed == Spec /\ [][Careful]_vars => []NoOversubscription
<1>1. AllocInv => NoOversubscription
    <2> SUFFICES ASSUME AllocInv, NEW p \in Entries(paths)
                 PROVE  committed(p) + reserved(p) + protected_headroom(p) + paths[p].unavailable
                            <= Ceiling(p, paths[p], policy, 0)
        BY DEF NoOversubscription
    <2> DEFINE f == protected_floor(paths[p], policy)
               z == CeilingIn(oversubscriptions, epoch, p, paths[p], policy, 0)
               o == paths[p].unavailable
               P == AuthorisedSum(grants, p, "Protected")
               G == AuthorisedSum(grants, p, "General")
               h == protected_held(p)
    <2>1. f \in Nat /\ z \in Nat /\ o \in Nat /\ Fits(grants, p, paths[p], policy, z)
        BY PathFacts
    <2>2. /\ committed(p) \in Nat /\ reserved(p) \in Nat /\ h \in Nat /\ P \in Nat /\ G \in Nat
          /\ committed(p) + reserved(p) = P + G /\ P <= h
        BY LedgerSums DEF AllocInv, IInv
    <2>3. P <= f /\ G + f + o <= z
        BY <2>1 DEF Fits
    <2>4. protected_headroom(p) = IF h >= f THEN 0 ELSE f - h
        BY DEF protected_headroom
    <2>5. Ceiling(p, paths[p], policy, 0) = z
        BY CeilingIs
    <2> HIDE DEF f, z, o, P, G, h
    <2>6. protected_headroom(p) \in Nat /\ P + protected_headroom(p) <= f
        BY <2>1, <2>2, <2>3, <2>4
    <2>7. committed(p) + reserved(p) + protected_headroom(p) + o <= z
        BY <2>1, <2>2, <2>3, <2>6
    <2> QED
        BY <2>5, <2>7 DEF o
<1> QED
    BY <1>1, AllocInvAlways, PTL

\* General grants never reach into the protected floor, and authorised protected
\* grants never outgrow it (allocatable, withdraw_to_fit).
THEOREM FloorKept == Spec /\ [][Careful]_vars => []FloorKeptForProtected
<1>1. AllocInv => FloorKeptForProtected
    BY FloorKeptIs DEF AllocInv, WithinLimits, IInv
<1> QED
    BY <1>1, AllocInvAlways, PTL

------------------------------------------------------------------------------
(* The order in which capacity is taken away *)

\* Attested figures and issued ratios stay within their bounds, whatever the
\* operator does.
SizesFit == UsablesFit /\ Bounded(oversubscriptions)

\* No request breaks these bounds.
LEMMA SizesRequest ==
    ASSUME IInv, SizesFit, Request PROVE SizesFit'
<1>1. ASSUME UNCHANGED <<paths, oversubscriptions>> PROVE SizesFit'
    BY <1>1 DEF SizesFit, UsablesFit
<1>2. paths \in [Paths -> PathRecord \cup {Nil}]
    BY DEF IInv, TypeOK
<1>3. CASE ConfigNext
    BY <1>1, <1>3 DEF ConfigNext, install_policy, bump_epoch
<1>4. CASE SiteNext
    BY <1>1, <1>4, SiteFrame
<1>5. CASE PathNext
    <2>1. ASSUME NEW p \in Paths, NEW rec, paths' = [paths EXCEPT ![p] = rec],
                 UNCHANGED oversubscriptions,
                 \/ rec.authoritative_usable \in Amount
                 \/ /\ paths[p] # Nil
                    /\ rec.authoritative_usable = paths[p].authoritative_usable
          PROVE  SizesFit'
        BY <1>2, <2>1 DEF SizesFit, UsablesFit, Entries
    <2>2. ASSUME NEW p \in Paths, NEW a \in Sites, NEW b \in Sites, NEW d \in Domains,
                 NEW state \in PathStateInputs, register_new_path(p, a, b, d, state)
          PROVE  SizesFit'
        <3>1. 0 \in Amount
            BY CapacityAssumption DEF Amount
        <3> QED
            BY <2>1, <2>2, <3>1 DEF register_new_path
    <2>3. ASSUME NEW p \in Paths, NEW a \in Sites, NEW b \in Sites, NEW d \in Domains,
                 NEW gen \in PathGenerations, NEW state \in PathStateInputs,
                 NEW now_ms \in Times, reregister_path(p, a, b, d, gen, state, now_ms)
          PROVE  SizesFit'
        <3> DEFINE rec == [paths[p] EXCEPT !.shared_risk_domain = d, !.endpoint_a = a,
                                           !.endpoint_b = b, !.generation = gen,
                                           !.state = state]
        <3>1. paths[p] # Nil /\ paths' = [paths EXCEPT ![p] = rec] /\ UNCHANGED oversubscriptions
            BY <2>3 DEF reregister_path
        <3>2. rec.authoritative_usable = paths[p].authoritative_usable
            BY <1>2, <3>1 DEF PathRecord
        <3> HIDE DEF rec
        <3> QED
            BY <2>1, <3>1, <3>2
    <2>4. ASSUME NEW p \in Paths, NEW state \in PathStateInputs, NEW now_ms \in Times,
                 set_path_state(p, state, now_ms)
          PROVE  SizesFit'
        <3> DEFINE rec == [paths[p] EXCEPT !.state = state,
                                !.unavailable = IF path_requires_degradation(state)
                                                THEN paths[p].authoritative_usable ELSE 0]
        <3>1. paths[p] # Nil /\ paths' = [paths EXCEPT ![p] = rec] /\ UNCHANGED oversubscriptions
            BY <2>4 DEF set_path_state
        <3>2. rec.authoritative_usable = paths[p].authoritative_usable
            BY <1>2, <3>1 DEF PathRecord
        <3> HIDE DEF rec
        <3> QED
            BY <2>1, <3>1, <3>2
    <2>5. ASSUME NEW p \in Paths, NEW id \in AttestationIds, NEW e \in Epochs,
                 NEW pathGen \in PathGenerations, NEW capGen \in CapacityGenerations,
                 NEW usable \in Usables, NEW now_ms \in Times,
                 attest_capacity(id, p, e, pathGen, capGen, usable, now_ms)
          PROVE  SizesFit'
        <3> DEFINE rec == Attested(paths[p], capGen, usable)
        <3>1. paths[p] # Nil /\ paths' = [paths EXCEPT ![p] = rec] /\ UNCHANGED oversubscriptions
            BY <2>5 DEF attest_capacity
        <3>2. rec.authoritative_usable = usable
            BY <1>2, <3>1 DEF PathRecord, Attested
        <3>3. usable \in Amount
            BY InputAssumption
        <3> HIDE DEF rec
        <3> QED
            BY <2>1, <3>1, <3>2, <3>3
    <2> QED
        BY <1>5, <2>2, <2>3, <2>4, <2>5 DEF PathNext
<1>6. CASE OversubscriptionNext
    <2>1. \A id, a : issue_oversubscription(id, a) =>
                /\ a.ratio_bps <= kMaxOversubscriptionBps
                /\ oversubscriptions' = [oversubscriptions EXCEPT ![id] = a]
                /\ UNCHANGED paths
        BY DEF issue_oversubscription
    <2>2. PICK id \in OversubIds : \E a : /\ a.ratio_bps <= kMaxOversubscriptionBps
                                          /\ oversubscriptions' = [oversubscriptions EXCEPT ![id] = a]
                                          /\ UNCHANGED paths
        BY <1>6, <2>1 DEF OversubscriptionNext
    <2>3. DOMAIN oversubscriptions = OversubIds
        BY DEF IInv, TypeOK
    <2> QED
        BY <2>2, <2>3 DEF SizesFit, UsablesFit, Bounded, Entries
<1>7. CASE GrantNext
    BY <1>1, <1>7, GrantMoves DEF GrantMove
<1>8. CASE \E now_ms \in Times : tick(now_ms)
    BY <1>1, <1>8 DEF tick
<1> QED
    BY <1>3, <1>4, <1>5, <1>6, <1>7, <1>8 DEF Request

\* Nor does a step of the authority.
LEMMA SizesNext == IInv /\ SizesFit /\ [Next]_vars => SizesFit'
<1> SUFFICES ASSUME IInv, SizesFit, UNCHANGED vars PROVE SizesFit'
    BY SizesRequest DEF Next
<1> QED
    BY DEF vars, SizesFit, UsablesFit

\* They hold in every reachable state, next to the authority's own invariant.
LEMMA SizesAlways == Spec => [](IInv /\ SizesFit)
<1>1. Init => SizesFit
    BY DEF Init, SizesFit, UsablesFit, Bounded, Entries
<1> QED
    BY <1>1, SizesNext, IInvInit, IInvNext, PTL DEF Spec

\* withdraw_to_fit spares no grant that is newer than one it withdraws.
LEMMA ShedUpward ==
    ASSUME IInv, SizesFit, NEW p, NEW rec \in PathRecord, rec.authoritative_usable \in Amount,
           rec.unavailable <= rec.authoritative_usable, NEW pol \in Policy, NEW now_ms,
           NEW g \in Shed(p, rec, pol, now_ms), NEW h \in Entries(grants),
           grants[h].path = p, authorised(grants[h].state),
           grants[h].grant_class = grants[g].grant_class,
           grants[g].arbitration <= grants[h].arbitration
    PROVE  h \in Shed(p, rec, pol, now_ms)
<1> DEFINE class == grants[g].grant_class
           A == AuthorisedIn(grants, p, class)
           limit == ClassLimit(p, rec, pol, now_ms, class)
           M == NotNewer(A, g)
           N == NotNewer(A, h)
<1>1. grants \in GrantTable /\ oversubscriptions \in OversubscriptionTable
    BY DEF IInv, TypeOK, GrantTable, SizesFit, OversubscriptionTable
<1>2. g \in Entries(grants)
    BY ShedAuthorised
<1>3. /\ A \in SUBSET Entries(grants) /\ M \in SUBSET Entries(grants)
      /\ N \in SUBSET Entries(grants)
    BY DEF AuthorisedIn, NotNewer
<1>4. \A x \in Entries(grants) : grants[x].arbitration \in Nat
    BY <1>1, EntriesSum DEF GrantRecord
<1>5. M \subseteq N
    BY <1>2, <1>3, <1>4 DEF NotNewer
<1>6. limit \in Nat
    <2>1. protected_floor(rec, pol) \in Nat
        BY FloorFits, CapacityAssumption DEF Amount
    <2>2. class \in {"General", "Protected"}
        BY <1>1, <1>2, EntriesSum DEF GrantRecord, GrantClass
    <2>3. /\ ClassLimit(p, rec, pol, now_ms, "Protected") \in Nat
          /\ ClassLimit(p, rec, pol, now_ms, "General") \in Nat
        BY <1>1, <2>1, ClassLimits
    <2> QED
        BY <2>2, <2>3
<1>7. A = {x \in Entries(grants) : grants[x].path = p /\ authorised(grants[x].state)
                                        /\ grants[x].grant_class = class}
    BY DEF AuthorisedIn
<1>8. Total(M) > limit
    <2> HIDE DEF A, limit
    <2> QED
        BY <1>7 DEF Shed, GrantsOn, limit
<1>9. /\ Total(M) \in Nat /\ Total(N) \in Nat /\ Total(M) <= Total(N)
    <2>1. /\ M \in SUBSET Requests /\ N \in SUBSET Requests /\ IsFiniteSet(N)
          /\ \A x \in N : AmountsOf(grants)[x] \in Nat
          /\ SumFunctionOnSet(AmountsOf(grants), M) \in Nat
          /\ SumFunctionOnSet(AmountsOf(grants), N) \in Nat
        BY <1>1, <1>3, EntriesSum
    <2> HIDE DEF M, N
    <2> QED
        BY <1>5, <2>1, TotalIsSum, SumPart
<1>10. Total(N) > limit
    <2> HIDE DEF M, N, limit
    <2> QED
        BY <1>6, <1>8, <1>9
<1>11. class \in {"General", "Protected"}
    BY <1>1, <1>2, EntriesSum DEF GrantRecord, GrantClass
<1> HIDE DEF A, limit
<1> QED
    BY <1>7, <1>10, <1>11 DEF Shed, GrantsOn, limit

\* The same of the images rebalance_path gives to two grants.
LEMMA RebalancedUpward ==
    ASSUME IInv, SizesFit, NEW p, NEW rec \in PathRecord, rec.authoritative_usable \in Amount,
           rec.unavailable <= rec.authoritative_usable, NEW pol \in Policy, NEW now_ms,
           NEW g \in Entries(grants), NEW h \in Entries(grants),
           grants[g].path = p, grants[h].path = p,
           authorised(grants[g].state), authorised(grants[h].state),
           grants[h].grant_class = grants[g].grant_class,
           grants[g].arbitration < grants[h].arbitration,
           NEW b, b.state = grants[g].state, NEW c,
           Rebalanced(g, p, rec, pol, now_ms, b).state = "Withdrawing"
    PROVE  Rebalanced(h, p, rec, pol, now_ms, c).state = "Withdrawing"
<1>1. /\ grants[g] \in GrantRecord /\ grants[h] \in GrantRecord
    BY DEF IInv, TypeOK, Entries
<1>2. grants[g].arbitration <= grants[h].arbitration
    BY <1>1 DEF GrantRecord
<1>3. g \in Shed(p, rec, pol, now_ms)
    BY DEF Rebalanced, authorised
<1>4. h \in Shed(p, rec, pol, now_ms)
    BY <1>2, <1>3, ShedUpward
<1>5. Rebalanced(h, p, rec, pol, now_ms, c) = [grants[h] EXCEPT !.state = "Withdrawing"]
    BY <1>4 DEF Rebalanced
<1> QED
    BY <1>1, <1>5 DEF GrantRecord

\* When a policy, path or capacity generation moves on, a grant is withdrawn only
\* if every newer authorised grant of its class on its path goes too
\* (withdraw_to_fit sorts by arbitration and sheds from the newest).
THEOREM NewestShedFirst == Spec => ShedNewestFirst
<1> DEFINE Change == \/ policy' # policy
                     \/ \E p \in Entries(paths) :
                            \/ paths'[p].generation # paths[p].generation
                            \/ paths'[p].capacity_generation # paths[p].capacity_generation
           Ordered == \A g, h \in Entries(grants) :
                        (/\ grants[g].path = grants[h].path
                         /\ grants[g].grant_class = grants[h].grant_class
                         /\ grants[g].arbitration < grants[h].arbitration
                         /\ authorised(grants[g].state) /\ authorised(grants[h].state)
                         /\ grants'[g].state = "Withdrawing")
                        => grants'[h].state = "Withdrawing"
<1>1. IInv /\ SizesFit /\ [Next]_vars => [Change => Ordered]_vars
    <2> SUFFICES ASSUME IInv, SizesFit, Next, Change PROVE Ordered
        OBVIOUS
    <2> SUFFICES ASSUME NEW g \in Entries(grants), NEW h \in Entries(grants),
                        grants[g].path = grants[h].path,
                        grants[g].grant_class = grants[h].grant_class,
                        grants[g].arbitration < grants[h].arbitration,
                        authorised(grants[g].state), authorised(grants[h].state),
                        grants'[g].state = "Withdrawing"
                 PROVE  grants'[h].state = "Withdrawing"
        OBVIOUS
    <2> HIDE DEF Ordered
    <2>1. /\ g \in Requests /\ h \in Requests
          /\ grants[g] \in GrantRecord /\ grants[h] \in GrantRecord
          /\ paths \in [Paths -> PathRecord \cup {Nil}] /\ policy \in Policy
          /\ Entries(paths) \subseteq Paths
        BY DEF IInv, TypeOK, Entries
    <2>2. IInv'
        BY IInvNext
    <2>3. ASSUME UNCHANGED <<policy, paths>> PROVE FALSE
        BY <2>3
    <2>4. ASSUME NEW pol \in Policies, install_policy(pol)
          PROVE  grants'[h].state = "Withdrawing"
        <3> DEFINE p == grants[g].path
                   b(x) == [grants[x] EXCEPT !.policy_generation = pol.generation]
        <3>1. /\ grants'[g] = Rebalanced(g, p, paths[p], pol, 0, b(g))
              /\ grants'[h] = Rebalanced(h, p, paths[p], pol, 0, b(h))
            BY <2>1, <2>4 DEF install_policy, Updated
        <3>2. b(g).state = grants[g].state
            BY <2>1 DEF GrantRecord
        <3>3. p \in Entries(paths) /\ paths[p] \in PathRecord
            BY <2>1, GrantLookup DEF IInv, ReferencesExist, Entries
        <3>4. /\ paths[p].authoritative_usable \in Amount
              /\ paths[p].unavailable <= paths[p].authoritative_usable
            BY <3>3 DEF SizesFit, UsablesFit, IInv, UnavailableWithinUsable
        <3>5. pol \in Policy
            BY InputAssumption
        <3> HIDE DEF b
        <3> QED
            BY <3>1, <3>2, <3>3, <3>4, <3>5, RebalancedUpward
    <2>5. ASSUME NEW p \in Paths, paths[p] # Nil, NEW rec \in PathRecord, NEW now_ms,
                 paths' = [paths EXCEPT ![p] = rec], rec.authoritative_usable \in Amount,
                 grants' = [x \in Requests |->
                            IF x \in GrantsAt(p)
                            THEN Rebalanced(x, p, rec, policy, now_ms, PathBound(grants[x], rec))
                            ELSE grants[x]]
          PROVE  grants'[h].state = "Withdrawing"
        <3>1. rec.unavailable <= rec.authoritative_usable
            <4>1. p \in Entries(paths') /\ paths'[p] = rec
                BY <2>1, <2>5, NilAssumption DEF Entries
            <4> QED
                BY <2>2, <4>1 DEF IInv, UnavailableWithinUsable
        <3>2. CASE grants[g].path = p
            <4> DEFINE b(x) == PathBound(grants[x], rec)
            <4>1. g \in GrantsAt(p) /\ h \in GrantsAt(p)
                BY <3>2 DEF GrantsAt
            <4>2. /\ grants'[g] = Rebalanced(g, p, rec, policy, now_ms, b(g))
                  /\ grants'[h] = Rebalanced(h, p, rec, policy, now_ms, b(h))
                BY <2>1, <2>5, <4>1
            <4>3. b(g).state = grants[g].state
                BY <2>1 DEF GrantRecord, PathBound
            <4>4. grants[h].path = p /\ grants[h].grant_class = grants[g].grant_class
                BY <3>2
            <4>5. Rebalanced(g, p, rec, policy, now_ms, b(g)).state = "Withdrawing"
                BY <4>2
            <4> HIDE DEF b, Change
            <4>6. Rebalanced(h, p, rec, policy, now_ms, b(h)).state = "Withdrawing"
                BY <2>1, <2>5, <3>1, <3>2, <4>3, <4>4, <4>5, RebalancedUpward
            <4> QED
                BY <4>2, <4>6
        <3>3. CASE grants[g].path # p
            <4>1. grants'[g] = grants[g]
                BY <2>1, <2>5, <3>3 DEF GrantsAt
            <4> QED
                BY <4>1 DEF authorised
        <3> QED
            BY <3>2, <3>3
    <2>6. ASSUME NEW p \in Paths, NEW a \in Sites, NEW b \in Sites, NEW d \in Domains,
                 NEW state \in PathStateInputs, register_new_path(p, a, b, d, state)
          PROVE  FALSE
        <3>1. UNCHANGED policy /\ p \notin Entries(paths)
            BY <2>6 DEF register_new_path, Entries
        <3>2. \A q \in Entries(paths) : paths'[q] = paths[q]
            BY <2>1, <2>6, <3>1 DEF register_new_path
        <3> QED
            BY <3>1, <3>2
    <2>7. ASSUME NEW p \in Paths, NEW a \in Sites, NEW b \in Sites, NEW d \in Domains,
                 NEW gen \in PathGenerations, NEW state \in PathStateInputs,
                 NEW now_ms \in Times, reregister_path(p, a, b, d, gen, state, now_ms)
          PROVE  grants'[h].state = "Withdrawing"
        <3> DEFINE rec == [paths[p] EXCEPT !.shared_risk_domain = d, !.endpoint_a = a,
                                           !.endpoint_b = b, !.generation = gen,
                                           !.state = state]
        <3>1. /\ paths[p] # Nil /\ paths' = [paths EXCEPT ![p] = rec]
              /\ grants' = [x \in Requests |->
                            IF x \in GrantsAt(p)
                            THEN Rebalanced(x, p, rec, policy, now_ms, PathBound(grants[x], rec))
                            ELSE grants[x]]
            BY <2>7 DEF reregister_path, Updated
        <3>2. /\ rec \in PathRecord
              /\ rec.authoritative_usable = paths[p].authoritative_usable
            BY <2>1, <3>1, InputAssumption DEF PathRecord
        <3>3. rec.authoritative_usable \in Amount
            BY <2>1, <3>1, <3>2 DEF SizesFit, UsablesFit, Entries
        <3> HIDE DEF rec
        <3> QED
            BY <2>5, <3>1, <3>2, <3>3
    <2>8. ASSUME NEW p \in Paths, NEW state \in PathStateInputs, NEW now_ms \in Times,
                 set_path_state(p, state, now_ms)
          PROVE  FALSE
        <3> DEFINE rec == [paths[p] EXCEPT !.state = state,
                                !.unavailable = IF path_requires_degradation(state)
                                                THEN paths[p].authoritative_usable ELSE 0]
        <3>1. paths[p] # Nil /\ paths' = [paths EXCEPT ![p] = rec] /\ UNCHANGED policy
            BY <2>8 DEF set_path_state
        <3>2. /\ rec.generation = paths[p].generation
              /\ rec.capacity_generation = paths[p].capacity_generation
            BY <2>1, <3>1 DEF PathRecord
        <3> HIDE DEF rec
        <3>3. \A q \in Entries(paths) : /\ paths'[q].generation = paths[q].generation
                                        /\ paths'[q].capacity_generation
                                                = paths[q].capacity_generation
            BY <2>1, <3>1, <3>2
        <3> QED
            BY <3>1, <3>3
    <2>9. ASSUME NEW p \in Paths, NEW id \in AttestationIds, NEW e \in Epochs,
                 NEW pathGen \in PathGenerations, NEW capGen \in CapacityGenerations,
                 NEW usable \in Usables, NEW now_ms \in Times,
                 attest_capacity(id, p, e, pathGen, capGen, usable, now_ms)
          PROVE  grants'[h].state = "Withdrawing"
        <3> DEFINE rec == Attested(paths[p], capGen, usable)
        <3>1. /\ paths[p] # Nil /\ paths' = [paths EXCEPT ![p] = rec]
              /\ grants' = [x \in Requests |->
                            IF x \in GrantsAt(p)
                            THEN Rebalanced(x, p, rec, policy, now_ms, PathBound(grants[x], rec))
                            ELSE grants[x]]
            BY <2>9 DEF attest_capacity, Updated
        <3>2. usable \in Amount /\ usable \in Nat
            BY InputAssumption, CapacityAssumption DEF Amount
        <3>3. rec \in PathRecord /\ rec.authoritative_usable = usable
            BY <2>1, <3>1, <3>2, InputAssumption DEF Attested, PathRecord, min_amount
        <3> HIDE DEF rec
        <3> QED
            BY <2>5, <3>1, <3>2, <3>3
    <2> HIDE DEF Change
    <2>10. CASE ConfigNext
        <3>1. \A e : bump_epoch(e) => UNCHANGED <<policy, paths>>
            BY DEF bump_epoch
        <3> QED
            BY <2>3, <2>4, <2>10, <3>1 DEF ConfigNext
    <2>11. CASE SiteNext
        BY <2>3, <2>11, SiteFrame
    <2>12. CASE PathNext
        BY <2>6, <2>7, <2>8, <2>9, <2>12 DEF PathNext
    <2>13. CASE OversubscriptionNext
        BY <2>3, <2>13 DEF OversubscriptionNext, issue_oversubscription
    <2>14. CASE GrantNext
        BY <2>3, <2>14, GrantMoves DEF GrantMove
    <2>15. CASE \E now_ms \in Times : tick(now_ms)
        BY <2>3, <2>15 DEF tick
    <2> QED
        BY <2>10, <2>11, <2>12, <2>13, <2>14, <2>15 DEF Next, Request
<1> HIDE DEF Change, Ordered
<1>3. Spec => [](IInv /\ SizesFit)
    BY SizesAlways
<1>4. Spec => [][Change => Ordered]_vars
    BY <1>1, <1>3, PTL DEF Spec
<1> QED
    BY <1>4 DEF Change, Ordered, ShedNewestFirst

------------------------------------------------------------------------------
(* What the ledger reports *)

\* What may be reclaimed on a path is part of what is allocated there.
LEMMA ReclaimablePart ==
    ASSUME TypeOK, NEW p
    PROVE  /\ reclaimable(p) \in Nat
           /\ reclaimable(p) <= committed(p) + withdrawing(p) + reserved(p)
<1> DEFINE f == AmountsOf(grants)
           On == {g \in Entries(grants) : grants[g].path = p}
           C == {g \in On : grants[g].state \in {"Active", "Degraded"}}
           R == {g \in On : grants[g].state = "Reserved"}
           W == {g \in On : grants[g].state = "Withdrawing"}
           L == {g \in On : is_reclaimable(grants[g].state)}
           V(S) == SumFunctionOnSet(f, S)
<1>1. grants \in GrantTable
    BY DEF TypeOK, GrantTable
<1>2. /\ C \in SUBSET Entries(grants) /\ R \in SUBSET Entries(grants)
      /\ W \in SUBSET Entries(grants) /\ L \in SUBSET Entries(grants)
      /\ C \cup W \in SUBSET Entries(grants) /\ (C \cup W) \cup R \in SUBSET Entries(grants)
    OBVIOUS
<1>3. \A S \in SUBSET Entries(grants) :
            /\ V(S) \in Nat /\ Total(S) = V(S) /\ IsFiniteSet(S) /\ \A g \in S : f[g] \in Nat
    <2> TAKE S \in SUBSET Entries(grants)
    <2>1. S \in SUBSET Requests /\ V(S) \in Nat /\ IsFiniteSet(S) /\ \A g \in S : f[g] \in Nat
        BY <1>1, EntriesSum
    <2> QED
        BY <2>1, TotalIsSum
<1>4. /\ committed(p) = Total(C) /\ reserved(p) = Total(R) /\ withdrawing(p) = Total(W)
      /\ reclaimable(p) = Total(L)
    <2>1. /\ GrantsOn(p, LAMBDA r : r.state \in {"Active", "Degraded"}) = C
          /\ GrantsOn(p, LAMBDA r : r.state = "Reserved") = R
          /\ GrantsOn(p, LAMBDA r : r.state = "Withdrawing") = W
          /\ GrantsOn(p, LAMBDA r : is_reclaimable(r.state)) = L
        BY DEF GrantsOn
    <2> QED
        BY <2>1 DEF committed, reserved, withdrawing, reclaimable
<1>5. C \cap W = {} /\ (C \cup W) \cap R = {} /\ L \subseteq (C \cup W) \cup R
    BY DEF is_reclaimable
<1> HIDE DEF f, C, R, W, L
<1>6. V(C \cup W) = V(C) + V(W)
    <2>1. IsFiniteSet(C) /\ IsFiniteSet(W) /\ \A g \in C \cup W : f[g] \in Nat
        BY <1>2, <1>3
    <2> QED
        BY <1>5, <2>1, SumUnion
<1>7. V((C \cup W) \cup R) = V(C \cup W) + V(R)
    <2>1. IsFiniteSet(C \cup W) /\ IsFiniteSet(R) /\ \A g \in (C \cup W) \cup R : f[g] \in Nat
        BY <1>2, <1>3
    <2> QED
        BY <1>5, <2>1, SumUnion
<1>8. V(L) <= V((C \cup W) \cup R)
    <2>1. IsFiniteSet((C \cup W) \cup R) /\ \A g \in (C \cup W) \cup R : f[g] \in Nat
        BY <1>2, <1>3
    <2> QED
        BY <1>5, <2>1, SumPart
<1>9. /\ V(C) \in Nat /\ V(R) \in Nat /\ V(W) \in Nat /\ V(L) \in Nat
      /\ V(C) = Total(C) /\ V(R) = Total(R) /\ V(W) = Total(W) /\ V(L) = Total(L)
    BY <1>2, <1>3
<1> HIDE DEF V
<1> QED
    BY <1>4, <1>6, <1>7, <1>8, <1>9

\* The two computations agree up to the protected grants within the floor.
LEMMA LedgerAgrees ==
    ASSUME IInv, SizesFit, TotalsFit PROVE LedgerErrorBounded
<1> SUFFICES ASSUME NEW p \in Entries(paths)
             PROVE  /\ ledger(p) # Nil
                    /\ allocatable(p, "General", 0) <= ledger(p).allocatable
                    /\ ledger(p).allocatable
                            <= allocatable(p, "General", 0)
                                  + min_amount(protected_held(p), protected_floor(paths[p], policy))
    BY DEF LedgerErrorBounded
<1> DEFINE rec == paths[p]
           u == rec.authoritative_usable
           o == rec.unavailable
           f == protected_floor(rec, policy)
           m == minimum_free(rec, policy)
           h == protected_held(p)
           d == protected_headroom(p)
           x == Extension(p)
           a == committed(p)
           w == withdrawing(p)
           r == reserved(p)
           l == reclaimable(p)
           led == LedgerOf(p)
           consumed == a + r + w + f + m + o
           structural == a + r + d + o
<1>1. p \in Paths /\ rec \in PathRecord /\ rec # Nil /\ policy \in Policy
    BY DEF IInv, TypeOK, Entries
<1>2. u \in Amount /\ o \in Nat /\ o <= u
    BY <1>1 DEF SizesFit, UsablesFit, IInv, UnavailableWithinUsable, PathRecord
<1>3. f \in Nat /\ m \in Nat /\ u \in Nat
    BY <1>1, <1>2, FloorFits, CapacityAssumption DEF Amount
<1>4. a \in Nat /\ r \in Nat /\ w \in Nat /\ h \in Nat /\ l \in Nat /\ l <= a + w + r
    BY LedgerSums, ReclaimablePart DEF IInv
<1>5. x \in Nat
    <2>1. oversubscriptions \in OversubscriptionTable
        BY DEF IInv, TypeOK, SizesFit, OversubscriptionTable
    <2>2. BestIn(oversubscriptions, epoch, p, rec, policy, 0) \in Nat
        BY <1>1, <2>1, BestExists
    <2>3. live_oversubscription_bps(p, rec, policy, 0)
            = BestIn(oversubscriptions, epoch, p, rec, policy, 0)
        BY DEF live_oversubscription_bps, BestIn, RatiosIn, LiveIn, Entries
    <2>4. x \in Amount
        BY <1>3, <2>2, <2>3, ExtensionMonotone DEF Extension
    <2> QED
        BY <2>4, CapacityAssumption DEF Amount
<1>6. d = (IF h >= f THEN 0 ELSE f - h) /\ d \in Nat
    BY <1>3, <1>4 DEF protected_headroom
<1>7. u + x <= kAmountMax /\ a + r + d + o + w + m <= kAmountMax
    BY DEF TotalsFit, Extension
<1>8. Ceiling(p, rec, policy, 0) = u + x
    <2>1. Ceiling(p, rec, policy, 0) = saturating_add(u, x)
        BY DEF Ceiling, Extension
    <2> QED
        BY <1>3, <1>5, <1>7, <2>1, CapacityAssumption DEF saturating_add
<1>9. allocatable(p, "General", 0) = IF consumed < u + x THEN (u + x) - consumed ELSE 0
    BY <1>8 DEF allocatable
<1>10. led = [authoritative_usable |-> u, committed |-> a, withdrawing |-> w, reserved |-> r,
              protected_headroom |-> d, unavailable |-> o,
              free |-> Less(u + x, structural),
              allocatable |-> Less(u + x, structural + w + m),
              reclaimable |-> l, oversubscribed |-> Less(structural, u + x),
              authorized_extension |-> x]
    BY DEF LedgerOf
<1>11. ledger(p) = IF /\ rec # Nil
                      /\ led.unavailable <= led.authoritative_usable
                      /\ LedgerBasis(led) <= kAmountMax
                      /\ Allocated(led) + led.protected_headroom + led.unavailable + m <= kAmountMax
                      /\ verify_closure(led)
                   THEN led ELSE Nil
    BY DEF ledger
<1> HIDE DEF led
<1>12. /\ led.authoritative_usable = u /\ led.committed = a /\ led.withdrawing = w
       /\ led.reserved = r /\ led.protected_headroom = d /\ led.unavailable = o
       /\ led.free = Less(u + x, structural) /\ led.allocatable = Less(u + x, structural + w + m)
       /\ led.reclaimable = l /\ led.oversubscribed = Less(structural, u + x)
       /\ led.authorized_extension = x
    BY <1>10
<1> HIDE DEF rec, u, o, f, m, h, d, x, a, w, r, l
<1>13. /\ Less(u + x, structural) \in Nat /\ Less(structural, u + x) \in Nat
       /\ Less(u + x, structural + w + m) \in Nat
       /\ Less(u + x, structural) + structural = u + x + Less(structural, u + x)
    BY <1>2, <1>3, <1>4, <1>5, <1>6 DEF Less
<1>14. verify_closure(led)
    BY <1>2, <1>3, <1>4, <1>5, <1>6, <1>12, <1>13 DEF verify_closure, LedgerBasis, Allocated
<1>15. led \in CapacityLedger
    BY <1>2, <1>3, <1>4, <1>5, <1>6, <1>10, <1>13 DEF CapacityLedger
<1>16. ledger(p) = led
    BY <1>1, <1>2, <1>3, <1>4, <1>5, <1>6, <1>7, <1>11, <1>12, <1>14 DEF LedgerBasis, Allocated
<1>17. /\ allocatable(p, "General", 0) <= led.allocatable
       /\ led.allocatable <= allocatable(p, "General", 0) + min_amount(h, f)
    BY <1>2, <1>3, <1>4, <1>5, <1>6, <1>9, <1>12 DEF Less, min_amount
<1> QED
    BY <1>15, <1>16, <1>17, LedgerAssumption DEF h, f, rec

\* Whenever the sums verify_invariants forms fit their width, the ledger of every
\* path can be drawn up, and what it reports as allocatable differs from what
\* reserve_grant accepts by the protected grants within the floor at most
\* (Authority::ledger and allocatable compute it apart).
THEOREM LedgerWithinBound == Spec => [](TotalsFit => LedgerErrorBounded)
<1>1. IInv /\ SizesFit => (TotalsFit => LedgerErrorBounded)
    BY LedgerAgrees
<1> QED
    BY <1>1, SizesAlways, PTL

------------------------------------------------------------------------------
(* Shared risk *)

PathTable == [Paths -> PathRecord \cup {Nil}]

\* The paths that share the risk of a path, what each can carry and what is
\* authorised on each.
PeersIn(pt, p) == {q \in Entries(pt) : pt[q].shared_risk_domain = pt[p].shared_risk_domain}

UsableOf(pt) == [q \in Paths |-> pt[q].authoritative_usable]

HeldOn(tab) == [q \in Paths |-> AuthorisedSum(tab, q, "Protected")
                                    + AuthorisedSum(tab, q, "General")]

\* A set of paths carries no more than its share.
Shares(tab, pt, bps, Q) ==
    SumFunctionOnSet(HeldOn(tab), Q) * kScale <= SumFunctionOnSet(UsableOf(pt), Q) * bps

RiskShared ==
    /\ IsFiniteSet(Entries(paths))
    /\ \A p \in Entries(paths) :
            Shares(grants, paths, policy.max_srd_concentration_bps, PeersIn(paths, p))

\* The sums of the model are these.
LEMMA DomainSums ==
    ASSUME TypeOK, NEW p
    PROVE  /\ DomainHeld(p) = SumFunctionOnSet(HeldOn(grants), PeersIn(paths, p))
           /\ DomainUsable(p) = SumFunctionOnSet(UsableOf(paths), PeersIn(paths, p))
<1> DEFINE S == PeersIn(paths, p)
           f == HeldOn(grants)
           u == UsableOf(paths)
           A(it) == it = [s \in SUBSET S |-> IF s = {} THEN 0
                            ELSE committed(First(s)) + reserved(First(s)) + it[s \ {First(s)}]]
           B(it) == it = [s \in SUBSET S |-> IF s = {} THEN 0
                            ELSE paths[First(s)].authoritative_usable + it[s \ {First(s)}]]
<1>1. DomainPeers(p) = S
    BY DEF DomainPeers, PeersIn
<1>2. S \subseteq Paths
    BY DEF TypeOK, PeersIn, Entries
<1> HIDE DEF S
<1>3. DomainHeld(p) = (CHOOSE it : A(it))[S] /\ DomainUsable(p) = (CHOOSE it : B(it))[S]
    BY <1>1 DEF DomainHeld, DomainUsable, MapThenSumSet, MapThenFoldSet, First
<1>4. ASSUME NEW s \in SUBSET S, s # {}
      PROVE  /\ f[First(s)] = committed(First(s)) + reserved(First(s))
             /\ u[First(s)] = paths[First(s)].authoritative_usable
    <2>1. First(s) \in Paths
        BY <1>2, <1>4 DEF First
    <2>2. committed(First(s)) + reserved(First(s))
            = AuthorisedSum(grants, First(s), "Protected") + AuthorisedSum(grants, First(s), "General")
        BY LedgerSums
    <2> QED
        BY <2>1, <2>2 DEF HeldOn, UsableOf
<1> HIDE DEF f, u
<1>5. ASSUME NEW it PROVE A(it) <=> PartialSums(it, f, S)
    <2> DEFINE X(s) == IF s = {} THEN 0
                       ELSE committed(First(s)) + reserved(First(s)) + it[s \ {First(s)}]
               Y(s) == IF s = {} THEN 0 ELSE f[First(s)] + it[s \ {First(s)}]
    <2>1. \A s \in SUBSET S : X(s) = Y(s)
        BY <1>4
    <2> HIDE DEF X, Y
    <2>2. [s \in SUBSET S |-> X(s)] = [s \in SUBSET S |-> Y(s)]
        BY <2>1
    <2> QED
        BY <2>2 DEF PartialSums, X, Y
<1>6. ASSUME NEW it PROVE B(it) <=> PartialSums(it, u, S)
    <2> DEFINE X(s) == IF s = {} THEN 0
                       ELSE paths[First(s)].authoritative_usable + it[s \ {First(s)}]
               Y(s) == IF s = {} THEN 0 ELSE u[First(s)] + it[s \ {First(s)}]
    <2>1. \A s \in SUBSET S : X(s) = Y(s)
        BY <1>4
    <2> HIDE DEF X, Y
    <2>2. [s \in SUBSET S |-> X(s)] = [s \in SUBSET S |-> Y(s)]
        BY <2>1
    <2> QED
        BY <2>2 DEF PartialSums, X, Y
<1> HIDE DEF A, B
<1>7. /\ (CHOOSE it : A(it)) = (CHOOSE it : PartialSums(it, f, S))
      /\ (CHOOSE it : B(it)) = (CHOOSE it : PartialSums(it, u, S))
    BY <1>5, <1>6, Zenon
<1> QED
    BY <1>3, <1>7, SumIsPartialSum DEF S, f, u

\* What is authorised on a path is a natural number, and a step that authorises
\* nothing there does not raise it.
LEMMA HeldShrinks ==
    ASSUME NEW tab \in GrantTable, NEW q \in Paths
    PROVE  /\ HeldOn(tab)[q] \in Nat
           /\ \A new \in GrantTable : Shrinks(tab, new, q) => HeldOn(new)[q] <= HeldOn(tab)[q]
<1>1. ASSUME NEW t \in GrantTable, NEW class
      PROVE  AuthorisedSum(t, q, class) \in Nat
    <2>1. AuthorisedIn(t, q, class) \in SUBSET Entries(t)
        BY DEF AuthorisedIn
    <2> QED
        BY <2>1, EntriesSum DEF AuthorisedSum
<1>2. ASSUME NEW new \in GrantTable, Shrinks(tab, new, q), NEW class
      PROVE  AuthorisedSum(new, q, class) <= AuthorisedSum(tab, q, class)
    <2>1. /\ AuthorisedIn(tab, q, class) \in SUBSET Entries(tab)
          /\ AuthorisedIn(new, q, class) \subseteq AuthorisedIn(tab, q, class)
        BY <1>2 DEF AuthorisedIn, Shrinks
    <2> QED
        BY <1>2, <2>1, SumShrinks DEF AuthorisedSum
<1>3. \A t : HeldOn(t)[q] = AuthorisedSum(t, q, "Protected") + AuthorisedSum(t, q, "General")
    BY DEF HeldOn
<1>4. ASSUME NEW new \in GrantTable, Shrinks(tab, new, q)
      PROVE  HeldOn(new)[q] <= HeldOn(tab)[q]
    <2>1. /\ AuthorisedSum(new, q, "Protected") <= AuthorisedSum(tab, q, "Protected")
          /\ AuthorisedSum(new, q, "General") <= AuthorisedSum(tab, q, "General")
        BY <1>2, <1>4
    <2>2. /\ AuthorisedSum(new, q, "Protected") \in Nat /\ AuthorisedSum(new, q, "General") \in Nat
          /\ AuthorisedSum(tab, q, "Protected") \in Nat /\ AuthorisedSum(tab, q, "General") \in Nat
        BY <1>1, <1>4
    <2> QED
        BY <1>3, <2>1, <2>2
<1> QED
    BY <1>1, <1>3, <1>4

\* A share stays kept when less is held, or more is carried or allowed.
LEMMA ShareGrows ==
    ASSUME NEW h \in Nat, NEW h2 \in Nat, NEW u \in Nat, NEW u2 \in Nat,
           NEW b \in Nat, NEW b2 \in Nat,
           h * kScale <= u * b, h2 <= h, u <= u2, b <= b2
    PROVE  h2 * kScale <= u2 * b2
<1> DEFINE k == kScale
<1>1. k \in Nat
    BY CapacityAssumption
<1>2. ASSUME NEW x \in Nat, NEW y \in Nat, NEW z \in Nat, x <= y
      PROVE  x * z <= y * z /\ z * x <= z * y /\ x * z \in Nat /\ y * z \in Nat
    BY <1>2
<1>3. h2 * k <= h * k /\ u * b <= u2 * b /\ u2 * b <= u2 * b2
    BY <1>1, <1>2
<1>4. h2 * k \in Nat /\ h * k \in Nat /\ u * b \in Nat /\ u2 * b \in Nat /\ u2 * b2 \in Nat
    BY <1>1, <1>2
<1> HIDE DEF k
<1>5. h * k <= u * b
    BY DEF k
<1>6. h2 * k <= u2 * b2
    BY <1>3, <1>4, <1>5
<1> QED
    BY <1>6 DEF k

\* The table of paths grows by one entry at most, and never loses one.
LEMMA PathsGrow ==
    ASSUME IInv, IInv', Next
    PROVE  \E n : /\ Entries(paths) \subseteq Entries(paths')
                  /\ Entries(paths') \subseteq Entries(paths) \cup {n}
<1>1. paths \in PathTable /\ paths' \in PathTable
    BY DEF IInv, TypeOK, PathTable
<1>2. ASSUME UNCHANGED paths
      PROVE  \E n : /\ Entries(paths) \subseteq Entries(paths')
                    /\ Entries(paths') \subseteq Entries(paths) \cup {n}
    BY <1>2
<1>3. ASSUME NEW p \in Paths, NEW rec, rec # Nil, paths' = [paths EXCEPT ![p] = rec]
      PROVE  \E n : /\ Entries(paths) \subseteq Entries(paths')
                    /\ Entries(paths') \subseteq Entries(paths) \cup {n}
    <2>1. Entries(paths) \subseteq Entries(paths') /\ Entries(paths') \subseteq Entries(paths) \cup {p}
        BY <1>1, <1>3 DEF Entries, PathTable
    <2> QED
        BY <2>1
<1>4. CASE PathNext
    <2>1. ASSUME NEW p \in Paths, NEW a \in Sites, NEW b \in Sites, NEW d \in Domains,
                 NEW state \in PathStateInputs, register_new_path(p, a, b, d, state)
          PROVE  \E rec \in PathRecord : paths' = [paths EXCEPT ![p] = rec]
        <3> DEFINE rec == [shared_risk_domain |-> d, endpoint_a |-> a, endpoint_b |-> b,
                           generation |-> 1, capacity_generation |-> 0, state |-> state,
                           authoritative_usable |-> 0, unavailable |-> 0]
        <3>1. rec \in PathRecord
            BY InputAssumption DEF PathRecord
        <3>2. paths' = [paths EXCEPT ![p] = rec]
            BY <2>1 DEF register_new_path
        <3> HIDE DEF rec
        <3> QED
            BY <3>1, <3>2
    <2>2. ASSUME NEW p \in Paths, NEW a \in Sites, NEW b \in Sites, NEW d \in Domains,
                 NEW gen \in PathGenerations, NEW state \in PathStateInputs,
                 NEW now_ms \in Times, reregister_path(p, a, b, d, gen, state, now_ms)
          PROVE  \E rec \in PathRecord : paths' = [paths EXCEPT ![p] = rec]
        <3> DEFINE rec == [paths[p] EXCEPT !.shared_risk_domain = d, !.endpoint_a = a,
                                           !.endpoint_b = b, !.generation = gen,
                                           !.state = state]
        <3>1. paths[p] # Nil /\ paths' = [paths EXCEPT ![p] = rec]
            BY <2>2 DEF reregister_path
        <3>2. rec \in PathRecord
            BY <1>1, <3>1, InputAssumption DEF PathTable, PathRecord
        <3> HIDE DEF rec
        <3> QED
            BY <3>1, <3>2
    <2>3. ASSUME NEW p \in Paths, NEW state \in PathStateInputs, NEW now_ms \in Times,
                 set_path_state(p, state, now_ms)
          PROVE  \E rec \in PathRecord : paths' = [paths EXCEPT ![p] = rec]
        <3> DEFINE rec == [paths[p] EXCEPT !.state = state,
                                !.unavailable = IF path_requires_degradation(state)
                                                THEN paths[p].authoritative_usable ELSE 0]
        <3>1. paths[p] # Nil /\ paths' = [paths EXCEPT ![p] = rec]
            BY <2>3 DEF set_path_state
        <3>2. rec \in PathRecord
            BY <1>1, <3>1, InputAssumption DEF PathTable, PathRecord
        <3> HIDE DEF rec
        <3> QED
            BY <3>1, <3>2
    <2>4. ASSUME NEW p \in Paths, NEW id \in AttestationIds, NEW e \in Epochs,
                 NEW pathGen \in PathGenerations, NEW capGen \in CapacityGenerations,
                 NEW usable \in Usables, NEW now_ms \in Times,
                 attest_capacity(id, p, e, pathGen, capGen, usable, now_ms)
          PROVE  \E rec \in PathRecord : paths' = [paths EXCEPT ![p] = rec]
        <3> DEFINE rec == Attested(paths[p], capGen, usable)
        <3>1. paths[p] # Nil /\ paths' = [paths EXCEPT ![p] = rec]
            BY <2>4 DEF attest_capacity
        <3>2. usable \in Nat
            BY InputAssumption, CapacityAssumption DEF Amount
        <3>3. rec \in PathRecord
            BY <1>1, <3>1, <3>2, InputAssumption DEF PathTable, PathRecord, Attested, min_amount
        <3> HIDE DEF rec
        <3> QED
            BY <3>1, <3>3
    <2>5. \E p \in Paths : \E rec \in PathRecord : paths' = [paths EXCEPT ![p] = rec]
        BY <1>4, <2>1, <2>2, <2>3, <2>4 DEF PathNext
    <2> QED
        BY <1>3, <2>5, NilAssumption
<1>5. CASE ConfigNext
    BY <1>2, <1>5 DEF ConfigNext, install_policy, bump_epoch
<1>6. CASE SiteNext
    BY <1>2, <1>6, SiteFrame
<1>7. CASE OversubscriptionNext
    BY <1>2, <1>7 DEF OversubscriptionNext, issue_oversubscription
<1>8. CASE GrantNext
    BY <1>2, <1>8, GrantMoves DEF GrantMove
<1>9. CASE \E now_ms \in Times : tick(now_ms)
    BY <1>2, <1>9 DEF tick
<1> QED
    BY <1>4, <1>5, <1>6, <1>7, <1>8, <1>9 DEF Next, Request

\* The numbers the shares are made of.
LEMMA ShareType ==
    ASSUME IInv, IsFiniteSet(Entries(paths)), NEW Q, Q \subseteq Entries(paths)
    PROVE  /\ IsFiniteSet(Q) /\ Q \subseteq Paths
           /\ \A q \in Q : HeldOn(grants)[q] \in Nat /\ UsableOf(paths)[q] \in Nat
                           /\ UsableOf(paths)[q] = paths[q].authoritative_usable
           /\ SumFunctionOnSet(HeldOn(grants), Q) \in Nat
           /\ SumFunctionOnSet(UsableOf(paths), Q) \in Nat
<1>1. IsFiniteSet(Q)
    BY FS_Subset
<1>2. Q \subseteq Paths /\ \A q \in Q : paths[q] \in PathRecord
    BY DEF IInv, TypeOK, Entries
<1>3. grants \in GrantTable
    BY DEF IInv, TypeOK, GrantTable
<1>4. ASSUME NEW q \in Q
      PROVE  /\ HeldOn(grants)[q] \in Nat /\ UsableOf(paths)[q] \in Nat
             /\ UsableOf(paths)[q] = paths[q].authoritative_usable
    <2>1. HeldOn(grants)[q] \in Nat
        BY <1>2, <1>3, HeldShrinks
    <2>2. UsableOf(paths)[q] = paths[q].authoritative_usable
        BY <1>2 DEF UsableOf
    <2>3. paths[q].authoritative_usable \in Nat
        BY <1>2 DEF PathRecord
    <2> QED
        BY <2>1, <2>2, <2>3
<1> QED
    BY <1>1, <1>2, <1>4, SumType

\* The request that overbooks nothing else: what plan_reserve_grant checks of the
\* domain is enough for the grant it adds.
LEMMA ReserveShares ==
    ASSUME IInv, IInv', RiskShared, policy.max_srd_concentration_bps < kScale,
           NEW g \in Requests, NEW op \in Ops, reserve_grant(g, op),
           NEW r \in GrantRecord, r.state = "Reserved", GrantMove(g, r)
    PROVE  RiskShared'
<1> DEFINE p == grants[g].path
           x == grants[g].amount
           bps == policy.max_srd_concentration_bps
           h == HeldOn(grants)
           h2 == HeldOn(grants')
           u == UsableOf(paths)
           Q == PeersIn(paths, p)
<1>1. /\ grants[g] # Nil /\ grants[g].state = "Eligible" /\ ConcentrationOk(grants[g])
    BY DEF reserve_grant
<1>2. /\ g \in Entries(grants) /\ grants[g] \in GrantRecord /\ TypeOK
      /\ grants \in GrantTable /\ grants' \in GrantTable /\ policy \in Policy
    BY <1>1 DEF IInv, TypeOK, Entries, GrantTable
<1>3. /\ grants' = [grants EXCEPT ![g] = r] /\ UNCHANGED <<policy, paths>>
      /\ r.path = p /\ r.grant_class = grants[g].grant_class /\ r.amount = x
    BY <1>1 DEF GrantMove
<1>4. p \in Entries(paths) /\ p \in Paths /\ x \in Nat /\ bps \in Nat
      /\ grants[g].grant_class \in {"General", "Protected"}
    <2>1. p \in Paths /\ x \in Nat /\ grants[g].grant_class \in {"General", "Protected"}
        BY <1>2 DEF GrantRecord, GrantClass
    <2>2. paths[p] # Nil /\ DOMAIN paths = Paths
        BY <1>2 DEF IInv, ReferencesExist, TypeOK
    <2>3. bps \in Nat
        BY <1>2 DEF Policy
    <2> QED
        BY <2>1, <2>2, <2>3 DEF Entries
<1>5. /\ IsFiniteSet(Entries(paths))
      /\ \A q \in Entries(paths) : Shares(grants, paths, bps, PeersIn(paths, q))
    BY DEF RiskShared
<1>6. ~authorised(grants[g].state) /\ authorised(r.state)
    BY <1>1 DEF authorised
<1>7. /\ AuthorisedSum(grants', p, grants[g].grant_class)
            = x + AuthorisedSum(grants, p, grants[g].grant_class)
      /\ \A class : class # grants[g].grant_class =>
            AuthorisedSum(grants', p, class) = AuthorisedSum(grants, p, class)
      /\ \A q : q # p => Shrinks(grants, grants', q)
    <2> HIDE DEF p, x
    <2> QED
        BY <1>2, <1>3, <1>6, AuthorisedAdds DEF p, x
<1>8. h2[p] = x + h[p]
    <2>1. /\ h2[p] = AuthorisedSum(grants', p, "Protected") + AuthorisedSum(grants', p, "General")
          /\ h[p] = AuthorisedSum(grants, p, "Protected") + AuthorisedSum(grants, p, "General")
        BY <1>4 DEF HeldOn
    <2>2. /\ AuthorisedSum(grants, p, "Protected") \in Nat
          /\ AuthorisedSum(grants, p, "General") \in Nat
        BY <1>2, LedgerSums
    <2>3. CASE grants[g].grant_class = "Protected"
        <3>1. /\ AuthorisedSum(grants', p, "Protected") = x + AuthorisedSum(grants, p, "Protected")
              /\ AuthorisedSum(grants', p, "General") = AuthorisedSum(grants, p, "General")
            BY <1>7, <2>3
        <3> HIDE DEF p, x, h, h2
        <3> QED
            BY <1>4, <2>1, <2>2, <3>1
    <2>4. CASE grants[g].grant_class = "General"
        <3>1. /\ AuthorisedSum(grants', p, "General") = x + AuthorisedSum(grants, p, "General")
              /\ AuthorisedSum(grants', p, "Protected") = AuthorisedSum(grants, p, "Protected")
            BY <1>7, <2>4
        <3> HIDE DEF p, x, h, h2
        <3> QED
            BY <1>4, <2>1, <2>2, <3>1
    <2> QED
        BY <1>4, <2>3, <2>4
<1>9. \A q \in Paths : h[q] \in Nat /\ h2[q] \in Nat /\ (q # p => h2[q] <= h[q])
    BY <1>2, <1>7, HeldShrinks
<1>10. p \in Q
    BY <1>4 DEF PeersIn
<1>11. (SumFunctionOnSet(h, Q) + x) * kScale <= SumFunctionOnSet(u, Q) * bps
    BY <1>1, <1>2, DomainSums DEF ConcentrationOk
<1>12. ASSUME NEW R, R \subseteq Entries(paths)
       PROVE  /\ IsFiniteSet(R) /\ R \subseteq Paths
              /\ SumFunctionOnSet(h, R) \in Nat /\ SumFunctionOnSet(u, R) \in Nat
              /\ SumFunctionOnSet(h2, R) \in Nat
    <2>1. /\ IsFiniteSet(R) /\ R \subseteq Paths
          /\ SumFunctionOnSet(h, R) \in Nat /\ SumFunctionOnSet(u, R) \in Nat
        BY <1>5, <1>12, ShareType
    <2>2. \A q \in R : h2[q] \in Nat
        BY <1>9, <2>1
    <2> HIDE DEF h, h2, u
    <2> QED
        BY <2>1, <2>2, SumType
<1>13. ASSUME NEW R, R \subseteq Entries(paths), p \notin R
       PROVE  SumFunctionOnSet(h2, R) <= SumFunctionOnSet(h, R)
    <2>1. IsFiniteSet(R) /\ \A q \in R : h2[q] \in Nat /\ h[q] \in Nat /\ h2[q] <= h[q]
        BY <1>9, <1>12, <1>13
    <2> HIDE DEF h, h2
    <2> QED
        BY <2>1, SumMonotone
<1>14. Shares(grants', paths, bps, Q)
    <2> DEFINE R == Q \ {p}
    <2>1. Q \subseteq Entries(paths) /\ R \subseteq Entries(paths) /\ p \notin R
        BY DEF PeersIn
    <2>2. /\ SumFunctionOnSet(h, R) \in Nat /\ SumFunctionOnSet(h2, R) \in Nat
          /\ SumFunctionOnSet(h, Q) \in Nat /\ SumFunctionOnSet(h2, Q) \in Nat
          /\ SumFunctionOnSet(u, Q) \in Nat
          /\ IsFiniteSet(Q) /\ Q \subseteq Paths
          /\ SumFunctionOnSet(h2, R) <= SumFunctionOnSet(h, R)
        BY <1>12, <1>13, <2>1
    <2> HIDE DEF h, h2, u, Q, p, x, bps
    <2>3. /\ SumFunctionOnSet(h, Q) = h[p] + SumFunctionOnSet(h, R)
          /\ SumFunctionOnSet(h2, Q) = h2[p] + SumFunctionOnSet(h2, R)
        <3>1. \A q \in Q : h[q] \in Nat /\ h2[q] \in Nat
            BY <1>9, <2>2
        <3> QED
            BY <1>10, <2>2, <3>1, SumTakes
    <2> HIDE DEF R
    <2>4. h[p] \in Nat /\ h2[p] \in Nat
        BY <1>4, <1>9
    <2>5. SumFunctionOnSet(h2, Q) <= SumFunctionOnSet(h, Q) + x
          /\ SumFunctionOnSet(h, Q) + x \in Nat
        BY <1>4, <1>8, <2>2, <2>3, <2>4
    <2>6. SumFunctionOnSet(h2, Q) * kScale <= SumFunctionOnSet(u, Q) * bps
        BY <1>4, <1>11, <2>2, <2>5, ShareGrows
    <2> QED
        BY <2>6 DEF Shares, h2, u
<1>15. ASSUME NEW q \in Entries(paths) PROVE Shares(grants', paths, bps, PeersIn(paths, q))
    <2> DEFINE R == PeersIn(paths, q)
    <2>1. R \subseteq Entries(paths)
        BY DEF PeersIn
    <2>2. CASE p \in R
        <3>1. R = Q
            BY <2>2 DEF PeersIn
        <3> QED
            BY <1>14, <3>1
    <2>3. CASE p \notin R
        <3>1. Shares(grants, paths, bps, R)
            BY <1>5
        <3> HIDE DEF R
        <3>2. /\ SumFunctionOnSet(h, R) \in Nat /\ SumFunctionOnSet(h2, R) \in Nat
              /\ SumFunctionOnSet(u, R) \in Nat
              /\ SumFunctionOnSet(h2, R) <= SumFunctionOnSet(h, R)
            BY <1>12, <1>13, <2>1, <2>3
        <3>3. SumFunctionOnSet(h, R) * kScale <= SumFunctionOnSet(u, R) * bps
            BY <3>1 DEF Shares
        <3> HIDE DEF h, h2, u, bps
        <3>4. SumFunctionOnSet(h2, R) * kScale <= SumFunctionOnSet(u, R) * bps
            BY <1>4, <3>2, <3>3, ShareGrows
        <3> QED
            BY <3>4 DEF Shares, h2, u, R
    <2> QED
        BY <2>2, <2>3
<1> QED
    BY <1>3, <1>5, <1>15 DEF RiskShared

\* A step that authorises nothing, takes no path out of its domain, lowers no
\* figure and does not lower the share.
LEMMA SharesKept ==
    ASSUME IInv, IInv', RiskShared, \A q : Shrinks(grants, grants', q),
           policy.max_srd_concentration_bps <= policy'.max_srd_concentration_bps,
           \A q \in Entries(paths) :
                /\ paths'[q].shared_risk_domain = paths[q].shared_risk_domain
                /\ paths[q].authoritative_usable <= paths'[q].authoritative_usable,
           NEW n, Entries(paths) \subseteq Entries(paths'),
           Entries(paths') \subseteq Entries(paths) \cup {n}
    PROVE  RiskShared'
<1> DEFINE b == policy.max_srd_concentration_bps
           b2 == policy'.max_srd_concentration_bps
           h == HeldOn(grants)
           h2 == HeldOn(grants')
           u == UsableOf(paths)
           u2 == UsableOf(paths')
<1>1. b \in Nat /\ b2 \in Nat /\ b <= b2
    BY DEF IInv, TypeOK, Policy
<1>2. /\ IsFiniteSet(Entries(paths))
      /\ \A q \in Entries(paths) : Shares(grants, paths, b, PeersIn(paths, q))
    BY DEF RiskShared
<1>3. IsFiniteSet(Entries(paths'))
    <2>1. IsFiniteSet(Entries(paths) \cup {n})
        BY <1>2, FS_AddElement
    <2> QED
        BY <2>1, FS_Subset
<1>4. /\ grants \in GrantTable /\ grants' \in GrantTable
      /\ paths \in PathTable /\ paths' \in PathTable
      /\ Entries(paths) \subseteq Paths /\ Entries(paths') \subseteq Paths
    BY DEF IInv, TypeOK, GrantTable, PathTable, Entries
<1>5. \A q \in Paths : h[q] \in Nat /\ h2[q] \in Nat /\ h2[q] <= h[q]
    BY <1>4, HeldShrinks
<1>6. /\ \A q \in Entries(paths) : u[q] \in Nat /\ u[q] <= u2[q]
      /\ \A q \in Entries(paths') : u2[q] \in Nat
    <2>1. /\ \A q \in Entries(paths) : q \in Paths /\ paths[q] \in PathRecord
          /\ \A q \in Entries(paths') : q \in Paths /\ paths'[q] \in PathRecord
        BY <1>4 DEF Entries, PathTable
    <2>2. /\ \A q \in Entries(paths) : u[q] = paths[q].authoritative_usable
          /\ \A q \in Entries(paths') : u2[q] = paths'[q].authoritative_usable
        BY <2>1 DEF UsableOf
    <2>3. /\ \A q \in Entries(paths) : paths[q].authoritative_usable \in Nat
          /\ \A q \in Entries(paths') : paths'[q].authoritative_usable \in Nat
        BY <2>1 DEF PathRecord
    <2> QED
        BY <2>2, <2>3
<1>7. ASSUME NEW q \in Paths, q \notin Entries(paths) PROVE h2[q] = 0
    <2>1. ASSUME NEW class PROVE AuthorisedIn(grants', q, class) = {}
        <3>1. \A g \in Entries(grants) : grants[g].path # q
            BY <1>4, <1>7 DEF IInv, ReferencesExist, Entries, PathTable
        <3> QED
            BY <3>1 DEF AuthorisedIn, Shrinks
    <2>2. AuthorisedSum(grants', q, "Protected") = 0 /\ AuthorisedSum(grants', q, "General") = 0
        BY <2>1, SumStep, FS_EmptySet DEF AuthorisedSum
    <2> QED
        BY <2>2 DEF HeldOn
<1>8. ASSUME NEW p \in Entries(paths') PROVE Shares(grants', paths', b2, PeersIn(paths', p))
    <2> DEFINE Q == PeersIn(paths', p)
               R == Q \cap Entries(paths)
               N == Q \ Entries(paths)
               V(f, S) == SumFunctionOnSet(f, S)
    <2>1. /\ Q \subseteq Entries(paths') /\ Q \subseteq Paths /\ R \subseteq Entries(paths)
          /\ R \in SUBSET Q /\ N \subseteq {n} /\ N \subseteq Paths
        BY <1>4 DEF PeersIn
    <2>2. R = {} \/ \E q \in Entries(paths) : R = PeersIn(paths, q)
        <3>1. ASSUME NEW q \in R PROVE R = PeersIn(paths, q)
            BY DEF PeersIn
        <3> QED
            BY <3>1
    <2>3. IsFiniteSet(Q) /\ IsFiniteSet(R) /\ IsFiniteSet(N)
        BY <1>3, <2>1, FS_Subset
    <2>4. Q = R \cup N /\ R \cap N = {}
        OBVIOUS
    <2>5. \A q \in N : h2[q] = 0
        BY <1>7, <2>1
    <2> HIDE DEF Q, N, V, h, h2, u, u2, b, b2
    <2>6. /\ \A q \in Q : h2[q] \in Nat /\ u2[q] \in Nat
          /\ \A q \in R : h[q] \in Nat /\ u[q] \in Nat /\ h2[q] <= h[q] /\ u[q] <= u2[q]
        BY <1>5, <1>6, <2>1
    <2>7. V(h, R) * kScale <= V(u, R) * b
        <3>1. CASE R = {}
            <4>1. V(h, R) = 0 /\ V(u, R) = 0
                BY <2>3, <3>1, SumStep DEF V
            <4> QED
                BY <1>1, <4>1, CapacityAssumption
        <3>2. CASE \E q \in Entries(paths) : R = PeersIn(paths, q)
            BY <1>2, <3>2 DEF Shares, V, h, u, b
        <3> QED
            BY <2>2, <3>1, <3>2
    <2> HIDE DEF R
    <2>8. V(h2, R) <= V(h, R) /\ V(u, R) <= V(u2, R)
        <3>1. \A q \in R : h2[q] \in Nat /\ u2[q] \in Nat
            BY <2>1, <2>6
        <3> QED
            BY <2>3, <2>6, <3>1, SumMonotone DEF V
    <2>9. V(h2, N) = 0
        <3>1. CASE N = {}
            BY <2>3, <3>1, SumStep DEF V
        <3>2. CASE N # {}
            <4>1. N = {n} /\ n \in N /\ N \ {n} = {}
                BY <2>1, <3>2
            <4>2. \A q \in N : h2[q] \in Nat
                BY <2>5
            <4>3. V(h2, N) = h2[n] + V(h2, N \ {n})
                BY <2>3, <4>1, <4>2, SumTakes DEF V
            <4>4. V(h2, N \ {n}) = 0
                BY <4>1, FS_EmptySet, SumStep DEF V
            <4>5. h2[n] = 0
                BY <2>5, <4>1
            <4> QED
                BY <4>3, <4>4, <4>5
        <3> QED
            BY <3>1, <3>2
    <2>10. V(h2, Q) = V(h2, R) + V(h2, N)
        <3>1. \A q \in R \cup N : h2[q] \in Nat
            BY <2>4, <2>6
        <3>2. V(h2, R \cup N) = V(h2, R) + V(h2, N)
            BY <2>3, <2>4, <3>1, SumUnion DEF V
        <3> QED
            BY <2>4, <3>2
    <2>11. V(u2, R) <= V(u2, Q)
        BY <2>1, <2>3, <2>6, SumPart DEF V
    <2>12. /\ V(h, R) \in Nat /\ V(h2, R) \in Nat /\ V(u, R) \in Nat /\ V(u2, R) \in Nat
           /\ V(h2, Q) \in Nat /\ V(u2, Q) \in Nat
        <3>1. \A q \in R : h[q] \in Nat /\ u[q] \in Nat /\ h2[q] \in Nat /\ u2[q] \in Nat
            BY <2>1, <2>6
        <3> QED
            BY <2>3, <2>6, <3>1, SumType DEF V
    <2>13. V(h2, Q) <= V(h, R) /\ V(u, R) <= V(u2, Q)
        BY <2>8, <2>9, <2>10, <2>11, <2>12
    <2>14. V(h2, Q) * kScale <= V(u2, Q) * b2
        BY <1>1, <2>7, <2>12, <2>13, ShareGrows
    <2> QED
        BY <2>14 DEF Shares, V, Q, h2, u2
<1> QED
    BY <1>3, <1>8 DEF RiskShared

\* The limit is in force and not lowered, the operator reinstates no grant, and
\* no path changes its domain or is attested to carry less: none of these
\* requests compares what a domain holds with its share.
Steady ==
    /\ policy.max_srd_concentration_bps < kScale
    /\ policy.max_srd_concentration_bps <= policy'.max_srd_concentration_bps
    /\ \A g \in Requests : ~reconcile_active(g)
    /\ \A p \in Entries(paths) :
            /\ paths'[p].shared_risk_domain = paths[p].shared_risk_domain
            /\ paths[p].authoritative_usable <= paths'[p].authoritative_usable

\* Every such step keeps the shares.
LEMMA RiskNext == IInv /\ RiskShared /\ [Next]_vars /\ [Steady]_vars => RiskShared'
<1> SUFFICES ASSUME IInv, RiskShared, [Next]_vars, [Steady]_vars PROVE RiskShared'
    OBVIOUS
<1>1. IInv'
    BY IInvNext
<1>2. CASE UNCHANGED vars
    BY <1>2 DEF vars, RiskShared
<1>3. CASE Next /\ Steady
    <2>1. PICK n : /\ Entries(paths) \subseteq Entries(paths')
                   /\ Entries(paths') \subseteq Entries(paths) \cup {n}
        BY <1>1, <1>3, PathsGrow
    <2>2. ASSUME \A q : Shrinks(grants, grants', q) PROVE RiskShared'
        BY <1>1, <1>3, <2>1, <2>2, SharesKept DEF Steady
    <2>3. CASE ConfigNext \/ SiteNext \/ PathNext \/ \E now_ms \in Times : tick(now_ms)
        BY <1>1, <2>2, <2>3, NothingNew
    <2>4. CASE OversubscriptionNext
        <3>1. grants' = grants
            BY <2>4 DEF OversubscriptionNext, issue_oversubscription
        <3>2. \A q : Shrinks(grants, grants', q)
            BY <3>1 DEF Shrinks
        <3> QED
            BY <2>2, <3>2
    <2>5. CASE GrantNext
        BY <1>1, <1>3, <2>2, <2>5, GrantStepCases, ReserveShares DEF Steady
    <2> QED
        BY <1>3, <2>3, <2>4, <2>5 DEF Next, Request
<1> QED
    BY <1>2, <1>3

\* What is authorised on the paths of a risk domain stays within the share of
\* their capacity that the policy allows (plan_reserve_grant is the only request
\* that compares the two).
THEOREM RiskBounded == Spec /\ [][Steady]_vars => []SharedRiskBounded
<1>1. Init => RiskShared
    <2> SUFFICES ASSUME Init PROVE RiskShared
        OBVIOUS
    <2>1. Entries(paths) = {}
        BY DEF Init, Entries
    <2> QED
        BY <2>1, FS_EmptySet DEF RiskShared
<1>2. IInv /\ RiskShared => SharedRiskBounded
    <2> SUFFICES ASSUME IInv, RiskShared, NEW p \in Entries(paths)
                 PROVE  DomainHeld(p) * kScale
                            <= DomainUsable(p) * policy.max_srd_concentration_bps
        BY DEF SharedRiskBounded
    <2> QED
        BY DomainSums DEF IInv, RiskShared, Shares
<1>3. Spec /\ [][Steady]_vars => [](IInv /\ RiskShared)
    BY <1>1, IInvInit, IInvNext, RiskNext, PTL DEF Spec
<1> QED
    BY <1>2, <1>3, PTL

==============================================================================
