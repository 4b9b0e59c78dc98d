-------------------------- MODULE SlabClassesProofs --------------------------
(***************************************************************************)
(* For any base size, factor and number of classes as large as those of    *)
(* the call in main(): the classes grow, and a size goes to the smallest   *)
(* class it fits in.                                                       *)
(***************************************************************************)
EXTENDS SlabClasses, SequenceTheorems, WellFoundedInduction, TLAPS

-----------------------------------------------------------------------------
(* The sizes of the classes *)

LEMMA ConstantTypes ==
  /\ base_chunk_size \in Nat /\ CHUNK_ALIGN_BYTES \in Nat /\ CHUNK_ALIGN_BYTES > 0
  /\ base_chunk_size <= power_block /\ power_block \in Nat
  /\ FactorNum \in Nat /\ FactorDen \in Nat /\ FactorDen > 0 /\ FactorNum >= FactorDen
  /\ power_largest \in Nat /\ power_largest > 1
BY SlabClassesAssumption

\* The quotient of a division, between the bounds that define it.
LEMMA Quotient ==
  ASSUME NEW a \in Nat, NEW b \in Nat, b > 0
  PROVE  /\ a \div b \in Nat
         /\ (a \div b) * b <= a /\ a < (a \div b + 1) * b
<1>1. a \div b \in Int /\ a \div b >= 0
  OBVIOUS
<1>2. b * (a \div b) <= a
  BY Z3
<1>3. a < b * (a \div b) + b
  BY Z3
<1> PICK q \in Int : q = a \div b
  BY <1>1
<1>4. q * b = b * q /\ (q + 1) * b = b * q + b
  OBVIOUS
<1>5. QED
  BY <1>1, <1>2, <1>3, <1>4

\* Sizes are rounded up to the next multiple of the alignment.
LEMMA AlignedBounds ==
  ASSUME NEW n \in Nat
  PROVE  /\ Aligned(n) \in Nat
         /\ n <= Aligned(n) /\ Aligned(n) < n + CHUNK_ALIGN_BYTES
<1> PICK a \in Nat : a = CHUNK_ALIGN_BYTES /\ a > 0
  BY ConstantTypes
<1> PICK q \in Nat : q = (n + a - 1) \div a /\ q * a <= n + a - 1 /\ n + a - 1 < (q + 1) * a
  <2>1. n + a - 1 \in Nat
    OBVIOUS
  <2>2. QED
    BY <2>1, Quotient
<1>1. (q + 1) * a = q * a + a /\ q * a \in Nat
  OBVIOUS
<1>2. Aligned(n) = q * a
  BY DEF Aligned
<1>3. QED
  BY <1>1, <1>2

\* A size inside a page stays inside it.
LEMMA AlignedInPage ==
  ASSUME NEW n \in Nat, n <= power_block
  PROVE  Aligned(n) <= power_block
<1> PICK a \in Nat : a = CHUNK_ALIGN_BYTES /\ a > 0
  BY ConstantTypes
<1> PICK p \in Nat : p = power_block
  BY ConstantTypes
<1>1. PICK k \in Nat : p = k * a
  <2>1. (p + a - 1) \div a \in Nat
    <3>1. p + a - 1 \in Nat
      OBVIOUS
    <3>2. QED
      BY <3>1, Quotient
  <2>2. p = ((p + a - 1) \div a) * a
    BY GrowthAssumption DEF Aligned
  <2>3. QED
    BY <2>1, <2>2
<1> PICK q \in Nat : q = (n + a - 1) \div a /\ q * a <= n + a - 1
  <2>1. n + a - 1 \in Nat
    OBVIOUS
  <2>2. QED
    BY <2>1, Quotient
<1>2. q <= k
  <2> SUFFICES ASSUME q >= k + 1
               PROVE  FALSE
    OBVIOUS
  <2>1. q * a >= (k + 1) * a
    <3>1. \A x, y, z \in Nat : x >= y => x * z >= y * z
      OBVIOUS
    <3>2. QED
      BY <3>1
  <2>2. (k + 1) * a = k * a + a
    OBVIOUS
  <2>3. q * a \in Nat /\ k * a \in Nat
    OBVIOUS
  <2>4. QED
    BY <1>1, <2>1, <2>2, <2>3
<1>3. q * a <= k * a
  BY <1>2
<1>4. QED
  BY <1>1, <1>3 DEF Aligned

\* From class to class the size grows by the alignment at least.
LEMMA NextSize ==
  ASSUME NEW c \in Nat, c >= base_chunk_size
  PROVE  /\ (c * FactorNum) \div FactorDen \in Nat
         /\ (c * FactorNum) \div FactorDen >= c + CHUNK_ALIGN_BYTES
<1> PICK a \in Nat : a = CHUNK_ALIGN_BYTES
  BY ConstantTypes
<1> PICK num \in Nat, den \in Nat : num = FactorNum /\ den = FactorDen /\ den > 0 /\ num >= den
  BY ConstantTypes
<1> PICK b \in Nat : b = base_chunk_size
  BY ConstantTypes
<1>1. c * num >= (c + a) * den
  <2>1. b * num >= (b + a) * den
    BY GrowthAssumption
  <2>2. PICK d \in Nat : c = b + d
    <3>1. c - b \in Nat /\ c = b + (c - b)
      OBVIOUS
    <3>2. QED
      BY <3>1
  <2>3. d * num >= d * den
    OBVIOUS
  <2>4. c * num = b * num + d * num /\ (c + a) * den = (b + a) * den + d * den
    BY <2>2
  <2>5. QED
    BY <2>1, <2>3, <2>4
<1>2. PICK q \in Nat : q = (c * num) \div den /\ c * num < (q + 1) * den
  <2>1. c * num \in Nat
    OBVIOUS
  <2>2. QED
    BY <2>1, Quotient
<1>3. q >= c + a
  <2> SUFFICES ASSUME q + 1 <= c + a
               PROVE  FALSE
    OBVIOUS
  <2>1. (q + 1) * den <= (c + a) * den
    <3>1. \A x, y, z \in Nat : x <= y => x * z <= y * z
      OBVIOUS
    <3>2. q + 1 \in Nat /\ c + a \in Nat
      OBVIOUS
    <3>3. QED
      BY <3>1, <3>2
  <2>2. QED
    BY <1>1, <1>2, <2>1
<1>4. QED
  BY <1>2, <1>3

-----------------------------------------------------------------------------
(* The search *)

\* A set of numbers that is not empty has a least one.
LEMMA LeastOf ==
  ASSUME NEW T \in SUBSET Nat, T # {}
  PROVE  \E x \in T : \A y \in T : x <= y
<1> DEFINE R == {p \in Nat \X Nat : p[1] < p[2]}
<1>1. IsWellFoundedOn(R, Nat)
  <2>1. IsWellFoundedOn(OpToRel(<, Nat), Nat)
    BY NatLessThanWellFounded
  <2>2. OpToRel(<, Nat) = R
    BY DEF OpToRel
  <2>3. QED
    BY <2>1, <2>2
<1>2. PICK x \in T : \A y \in T : ~ (<<y, x>> \in R)
  <2> HIDE DEF R
  <2> QED
    BY <1>1, WFMin
<1>3. ASSUME NEW y \in T
      PROVE  x <= y
  <2>1. x \in Nat /\ y \in Nat
    OBVIOUS
  <2>2. y < x => <<y, x>> \in R
    BY <2>1
  <2>3. QED
    BY <1>2, <2>1, <2>2
<1>4. QED
  BY <1>3

\* The first class from class r upwards that n fits in, or 0.
FitsFrom(s, n, r) == {k \in r .. Len(s) : n <= s[k]}
FirstFit(s, n, r) ==
  IF FitsFrom(s, n, r) = {} THEN 0
  ELSE CHOOSE k \in FitsFrom(s, n, r) : \A j \in FitsFrom(s, n, r) : k <= j

\* What the loop of mem_cache_clsid does at class r, if f is what it does next.
Turn(s, n, f, r) ==
  IF n <= s[r] THEN r
  ELSE IF r >= Len(s) THEN 0
  ELSE f[r + 1]

Solves(f, s, n) == f = [r \in 1 .. Len(s) |-> Turn(s, n, f, r)]

LEMMA FirstFitIs ==
  ASSUME NEW s \in Seq(Nat), NEW n \in Nat, NEW r \in 1 .. Len(s), FitsFrom(s, n, r) # {}
  PROVE  /\ FirstFit(s, n, r) \in FitsFrom(s, n, r)
         /\ \A j \in FitsFrom(s, n, r) : FirstFit(s, n, r) <= j
<1> PICK T : T = FitsFrom(s, n, r)
  OBVIOUS
<1>1. T \in SUBSET Nat /\ T # {}
  BY DEF FitsFrom
<1>2. \E k \in T : \A j \in T : k <= j
  BY <1>1, LeastOf
<1>3. FirstFit(s, n, r) = CHOOSE k \in T : \A j \in T : k <= j
  BY DEF FirstFit
<1>4. QED
  BY <1>2, <1>3

\* The first fit satisfies the equation of the loop.
LEMMA FirstFitTurn ==
  ASSUME NEW s \in Seq(Nat), NEW n \in Nat, NEW r \in 1 .. Len(s),
         NEW f, f = [k \in 1 .. Len(s) |-> FirstFit(s, n, k)]
  PROVE  FirstFit(s, n, r) = Turn(s, n, f, r)
<1>1. CASE n <= s[r]
  <2>1. r \in FitsFrom(s, n, r) /\ \A j \in FitsFrom(s, n, r) : r <= j
    BY <1>1 DEF FitsFrom
  <2>2. FirstFit(s, n, r) \in FitsFrom(s, n, r) /\ FirstFit(s, n, r) <= r
    BY <2>1, FirstFitIs
  <2>3. FirstFit(s, n, r) = r
    BY <2>1, <2>2 DEF FitsFrom
  <2>4. QED
    BY <1>1, <2>3 DEF Turn
<1>2. CASE ~ (n <= s[r]) /\ r >= Len(s)
  BY <1>2 DEF Turn, FirstFit, FitsFrom
<1>3. CASE ~ (n <= s[r]) /\ ~ (r >= Len(s))
  <2>1. FitsFrom(s, n, r) = FitsFrom(s, n, r + 1)
    BY <1>3 DEF FitsFrom
  <2>2. FirstFit(s, n, r) = FirstFit(s, n, r + 1)
    BY <2>1 DEF FirstFit
  <2>3. r + 1 \in 1 .. Len(s)
    BY <1>3
  <2>4. QED
    BY <1>3, <2>2, <2>3 DEF Turn
<1>4. QED
  BY <1>1, <1>2, <1>3

\* A function that satisfies the equation gives the first fit from class 1: from
\* class to class it keeps its value, up to the class where the loop ends.
LEMMA TurnsFind ==
  ASSUME NEW s \in Seq(Nat), Len(s) > 0, NEW n \in Nat,
         NEW f, Solves(f, s, n)
  PROVE  /\ f[1] = 0 <=> \A k \in 1 .. Len(s) : s[k] < n
         /\ f[1] # 0 => f[1] \in 1 .. Len(s) /\ s[f[1]] >= n /\ \A k \in 1 .. f[1] - 1 : s[k] < n
<1> DEFINE Ends == {k \in 1 .. Len(s) : n <= s[k] \/ k = Len(s)}
<1>0. Len(s) \in Nat /\ \A k \in 1 .. Len(s) : s[k] \in Nat
  OBVIOUS
<1>1. PICK e \in Ends : \A k \in Ends : e <= k
  <2>1. Len(s) \in Ends /\ Ends \in SUBSET Nat
    BY <1>0
  <2>2. QED
    BY <2>1, LeastOf
<1>2. e \in 1 .. Len(s) /\ (n <= s[e] \/ e = Len(s))
  OBVIOUS
<1>3. \A k \in 1 .. e - 1 : s[k] < n /\ k < Len(s) /\ k \in 1 .. Len(s)
  <2> SUFFICES ASSUME NEW k \in 1 .. e - 1
               PROVE  s[k] < n /\ k < Len(s) /\ k \in 1 .. Len(s)
    OBVIOUS
  <2>1. k \in 1 .. Len(s) /\ k < e /\ k < Len(s)
    BY <1>0, <1>2
  <2>2. k \notin Ends
    BY <1>1, <2>1
  <2>3. QED
    BY <1>0, <2>1, <2>2
<1> HIDE DEF Ends
<1>4. \A r \in 1 .. Len(s) : f[r] = Turn(s, n, f, r)
  <2> PICK g : g = [r \in 1 .. Len(s) |-> Turn(s, n, f, r)]
    OBVIOUS
  <2>1. \A r \in 1 .. Len(s) : g[r] = Turn(s, n, f, r)
    OBVIOUS
  <2>2. f = g
    BY DEF Solves
  <2>3. QED
    BY <2>1, <2>2
<1>5. \A k \in 1 .. e : f[k] = f[1]
  <2> DEFINE Other == {k \in 1 .. e : f[k] # f[1]}
  <2> SUFFICES ASSUME Other # {}
               PROVE  FALSE
    OBVIOUS
  <2>1. PICK k \in Other : \A j \in Other : k <= j
    <3>1. Other \in SUBSET Nat
      BY <1>2
    <3>2. QED
      BY <3>1, LeastOf
  <2>2. k \in 1 .. e /\ f[k] # f[1] /\ k # 1
    OBVIOUS
  <2>3. k - 1 \in 1 .. e - 1 /\ (k - 1) + 1 = k
    BY <1>2, <2>2
  <2>4. f[k - 1] = f[1]
    <3>1. k - 1 \in 1 .. e /\ ~ (k <= k - 1)
      BY <1>2, <2>2
    <3>2. QED
      BY <2>1, <3>1
  <2>5. f[k - 1] = f[k]
    <3>1. f[k - 1] = Turn(s, n, f, k - 1) /\ s[k - 1] < n /\ k - 1 < Len(s) /\ s[k - 1] \in Nat
      BY <1>0, <1>3, <1>4, <2>3
    <3>2. ~ (n <= s[k - 1]) /\ ~ (k - 1 >= Len(s))
      BY <1>0, <1>2, <2>3, <3>1
    <3>3. QED
      BY <2>3, <3>1, <3>2 DEF Turn
  <2>6. QED
    BY <2>2, <2>4, <2>5
<1>6. f[1] = Turn(s, n, f, e)
  <2>1. e \in 1 .. e
    BY <1>2
  <2>2. QED
    BY <1>2, <1>4, <1>5, <2>1
<1>7. CASE n <= s[e]
  <2>1. f[1] = e
    BY <1>6, <1>7 DEF Turn
  <2>2. e # 0 /\ ~ (s[e] < n)
    BY <1>0, <1>2, <1>7
  <2>3. QED
    BY <1>2, <1>3, <1>7, <2>1, <2>2
<1>8. CASE ~ (n <= s[e])
  <2>1. e = Len(s) /\ f[1] = 0
    BY <1>2, <1>6, <1>8 DEF Turn
  <2>2. \A k \in 1 .. Len(s) : s[k] < n
    BY <1>0, <1>2, <1>3, <1>8, <2>1
  <2>3. QED
    BY <2>1, <2>2
<1>9. QED
  BY <1>7, <1>8

\* The search of mem_cache_clsid finds the first class that n fits in.
LEMMA SearchFinds ==
  ASSUME slabclass \in Seq(Nat), Len(slabclass) > 0, NEW n \in Nat
  PROVE  LET r == Search(n)
         IN  /\ r = 0 <=> \A k \in 1 .. Len(slabclass) : slabclass[k] < n
             /\ r # 0 => /\ r \in 1 .. Len(slabclass) /\ slabclass[r] >= n
                         /\ \A k \in 1 .. r - 1 : slabclass[k] < n
<1> PICK s \in Seq(Nat) : s = slabclass
  OBVIOUS
<1> DEFINE f == CHOOSE from : from = [res \in DOMAIN slabclass |->
                               IF n <= slabclass[res] THEN res
                               ELSE IF res >= Len(slabclass) THEN 0
                               ELSE from[res + 1]]
<1>1. f = [res \in DOMAIN slabclass |-> IF n <= slabclass[res] THEN res
                                       ELSE IF res >= Len(slabclass) THEN 0
                                       ELSE f[res + 1]]
  <2> PICK g : g = [k \in 1 .. Len(s) |-> FirstFit(s, n, k)]
    OBVIOUS
  <2>1. \A r \in 1 .. Len(s) : FirstFit(s, n, r) = Turn(s, n, g, r)
    BY FirstFitTurn
  <2>2. g = [r \in 1 .. Len(s) |-> Turn(s, n, g, r)]
    BY <2>1
  <2>3. DOMAIN slabclass = 1 .. Len(s)
    OBVIOUS
  <2>4. g = [res \in DOMAIN slabclass |-> IF n <= slabclass[res] THEN res
                                         ELSE IF res >= Len(slabclass) THEN 0
                                         ELSE g[res + 1]]
    BY <2>2, <2>3 DEF Turn
  <2>5. \E from : from = [res \in DOMAIN slabclass |-> IF n <= slabclass[res] THEN res
                                                     ELSE IF res >= Len(slabclass) THEN 0
                                                     ELSE from[res + 1]]
    <3> DEFINE P(from) == from = [res \in DOMAIN slabclass |-> IF n <= slabclass[res] THEN res
                                                             ELSE IF res >= Len(slabclass) THEN 0
                                                             ELSE from[res + 1]]
    <3>1. P(g)
      BY <2>4
    <3> HIDE DEF P
    <3>2. \E from : P(from)
      BY <3>1
    <3> USE DEF P
    <3>3. QED
      BY <3>2, Zenon
  <2>6. QED
    BY <2>5, Zenon
<1>2. Search(n) = f[1]
  BY Zenon DEF Search
<1> HIDE DEF f
<1> PICK h : h = f
  OBVIOUS
<1>3. Solves(h, s, n)
  <2>1. DOMAIN slabclass = 1 .. Len(s)
    OBVIOUS
  <2>2. QED
    BY <1>1, <2>1 DEF Turn, Solves
<1>4. /\ h[1] = 0 <=> \A k \in 1 .. Len(s) : s[k] < n
      /\ h[1] # 0 => h[1] \in 1 .. Len(s) /\ s[h[1]] >= n /\ \A k \in 1 .. h[1] - 1 : s[k] < n
  <2>1. Len(s) > 0
    OBVIOUS
  <2>2. QED
    BY <1>3, <2>1, TurnsFind
<1>5. QED
  BY <1>2, <1>4

-----------------------------------------------------------------------------
(* The inductive invariant *)

\* The classes created so far are smaller than the next one will be.
Growing ==
  /\ slabclass \in Seq(Nat) /\ chunk_size \in Nat /\ chunk_size >= base_chunk_size
  /\ \A n \in 1 .. Len(slabclass) : slabclass[n] < chunk_size /\ slabclass[n] <= power_block
  /\ \A m, n \in 1 .. Len(slabclass) : m < n => slabclass[m] < slabclass[n]

\* There is a class when the first size is looked up.
Some ==
  /\ created => Len(slabclass) > 0
  /\ Len(slabclass) = 0 => chunk_size = base_chunk_size

Looked == size \in Nat /\ (~ created => size = 0) /\ SmallestFit

IInv == created \in BOOLEAN /\ Growing /\ Some /\ Looked

LEMMA InitIInv == Init => IInv
<1> SUFFICES ASSUME Init PROVE IInv
  OBVIOUS
<1>1. slabclass \in Seq(Nat) /\ Len(slabclass) = 0
  BY EmptySeq DEF Init
<1>2. Growing
  BY <1>1, ConstantTypes DEF Init, Growing
<1>3. Some /\ Looked /\ created \in BOOLEAN
  BY <1>1 DEF Init, Some, Looked, SmallestFit
<1>4. QED
  BY <1>2, <1>3 DEF IInv

LEMMA CreateClassIInv == IInv /\ create_class => IInv'
<1> SUFFICES ASSUME IInv, create_class PROVE IInv'
  OBVIOUS
<1> PICK s \in Seq(Nat) : s = slabclass
  BY DEF IInv, Growing
<1> PICK c \in Nat : c = chunk_size
  BY DEF IInv, Growing
<1> PICK a : a = Aligned(c)
  OBVIOUS
<1>1. /\ ~ created /\ c <= power_block /\ c >= base_chunk_size
      /\ slabclass' = Append(s, a) /\ chunk_size' = (c * FactorNum) \div FactorDen
      /\ created' = created /\ size' = size /\ id' = id
  BY DEF create_class, IInv, Growing
<1>2. /\ \A n \in 1 .. Len(s) : s[n] < c /\ s[n] <= power_block /\ s[n] \in Nat
      /\ \A m, n \in 1 .. Len(s) : m < n => s[m] < s[n]
  BY DEF IInv, Growing
<1>3. a \in Nat /\ c <= a /\ a < c + CHUNK_ALIGN_BYTES /\ a <= power_block
  BY <1>1, AlignedBounds, AlignedInPage
<1>4. chunk_size' \in Nat /\ chunk_size' >= c + CHUNK_ALIGN_BYTES
  BY <1>1, NextSize
<1>5. a < chunk_size' /\ c <= chunk_size' /\ chunk_size' >= base_chunk_size
  BY <1>1, <1>3, <1>4, ConstantTypes
<1>6. /\ slabclass' \in Seq(Nat) /\ Len(slabclass') = Len(s) + 1
      /\ \A n \in 1 .. Len(s) : slabclass'[n] = s[n]
      /\ slabclass'[Len(s) + 1] = a
  BY <1>1, <1>3, AppendProperties
<1>7. ASSUME NEW n \in 1 .. Len(s) + 1
      PROVE  slabclass'[n] < chunk_size' /\ slabclass'[n] <= power_block
  <2>1. CASE n = Len(s) + 1
    BY <1>3, <1>5, <1>6, <2>1
  <2>2. CASE n # Len(s) + 1
    BY <1>2, <1>4, <1>5, <1>6, <2>2
  <2>3. QED
    BY <2>1, <2>2
<1>8. ASSUME NEW m \in 1 .. Len(s) + 1, NEW n \in 1 .. Len(s) + 1, m < n
      PROVE  slabclass'[m] < slabclass'[n]
  <2> PICK k \in Nat : k = Len(s)
    OBVIOUS
  <2>0. \A x, y \in 1 .. k + 1 : x < y => x \in 1 .. k /\ (y # k + 1 => y \in 1 .. k)
    <3>1. \A x, y \in Int : x < y /\ y <= k + 1 => x <= k /\ (y # k + 1 => y <= k)
      OBVIOUS
    <3>2. QED
      BY <3>1
  <2>1. m \in 1 .. Len(s) /\ slabclass'[m] = s[m]
    BY <1>6, <1>8, <2>0
  <2>2. CASE n = Len(s) + 1
    BY <1>2, <1>3, <1>6, <2>1, <2>2
  <2>3. CASE n # Len(s) + 1
    <3>1. n \in 1 .. Len(s)
      BY <1>8, <2>0, <2>3
    <3>2. QED
      BY <1>2, <1>6, <1>8, <2>1, <3>1
  <2>4. QED
    BY <2>2, <2>3
<1>9. Growing'
  BY <1>4, <1>5, <1>6, <1>7, <1>8 DEF Growing
<1>10. Some' /\ Looked' /\ created' \in BOOLEAN
  BY <1>1, <1>6 DEF IInv, Some, Looked, SmallestFit
<1>11. QED
  BY <1>9, <1>10 DEF IInv

LEMMA CreateEndIInv == IInv /\ create_end => IInv'
<1> SUFFICES ASSUME IInv, create_end PROVE IInv'
  OBVIOUS
<1>1. /\ ~ created /\ created' = TRUE /\ chunk_size' = chunk_size /\ slabclass' = slabclass
      /\ size' = size /\ id' = id
  BY DEF create_end
<1>2. Len(slabclass) > 0
  <2>1. Len(slabclass) \in Nat
    BY DEF IInv, Growing
  <2>2. Len(slabclass) + 1 >= power_largest \/ chunk_size > power_block
    BY DEF create_end
  <2>3. Len(slabclass) = 0 => chunk_size = base_chunk_size
    BY DEF IInv, Some
  <2>4. QED
    BY <2>1, <2>2, <2>3, ConstantTypes
<1>3. Growing' /\ Some'
  BY <1>1, <1>2 DEF IInv, Growing, Some
<1>4. size = 0
  BY <1>1 DEF IInv, Looked
<1>5. Looked'
  BY <1>1, <1>4 DEF Looked, SmallestFit
<1>6. QED
  BY <1>1, <1>3, <1>5 DEF IInv

LEMMA ClsidIInv == ASSUME NEW n \in Sizes PROVE IInv /\ mem_cache_clsid(n) => IInv'
<1> SUFFICES ASSUME IInv, mem_cache_clsid(n) PROVE IInv'
  OBVIOUS
<1>1. /\ created /\ size' = n /\ id' = IF n = 0 THEN 0 ELSE Search(n)
      /\ created' = created /\ chunk_size' = chunk_size /\ slabclass' = slabclass
  BY DEF mem_cache_clsid
<1>2. n \in Nat
  BY SlabClassesAssumption
<1>3. slabclass \in Seq(Nat) /\ Len(slabclass) > 0 /\ DOMAIN slabclass = 1 .. Len(slabclass)
  BY <1>1 DEF IInv, Growing, Some
<1>4. SmallestFit'
  <2> SUFFICES ASSUME n > 0
               PROVE  /\ id' = 0 <=> \A k \in DOMAIN slabclass : slabclass[k] < n
                      /\ id' # 0 => /\ slabclass[id'] >= n
                                    /\ \A k \in 1 .. id' - 1 : slabclass[k] < n
    BY <1>1 DEF SmallestFit
  <2>1. id' = Search(n)
    BY <1>1
  <2>2. QED
    BY <1>2, <1>3, <2>1, SearchFinds
<1>5. Growing' /\ Some'
  BY <1>1 DEF IInv, Growing, Some
<1>6. QED
  BY <1>1, <1>2, <1>4, <1>5 DEF IInv, Looked

LEMMA StutterIInv == IInv /\ UNCHANGED vars => IInv'
BY DEF vars, IInv, Growing, Some, Looked, SmallestFit

LEMMA Invariant == Spec => []IInv
<1>1. IInv /\ [Next]_vars => IInv'
  BY CreateClassIInv, CreateEndIInv, ClsidIInv, StutterIInv DEF Next
<1>2. QED
  BY <1>1, InitIInv, PTL DEF Spec

-----------------------------------------------------------------------------
(* The theorems *)

\* Whatever the sizes of the classes, mem_cache_clsid gives the smallest class
\* that a size fits in, and none only when there is none (mem_cache.c:110-125).
THEOREM FindsSmallestFit == Spec => []SmallestFit
<1>1. IInv => SmallestFit
  BY DEF IInv, Looked
<1>2. QED
  BY <1>1, Invariant, PTL

\* The classes grow and stay inside a page if the first step does: rounding and
\* truncating never undo it (mem_cache.c:46-55, slab.c:30-42).
THEOREM ClassesAlwaysGrow == Spec => []ClassesGrow
<1>1. IInv => ClassesGrow
  <2> SUFFICES ASSUME IInv PROVE ClassesGrow
    OBVIOUS
  <2>1. Growing /\ DOMAIN slabclass = 1 .. Len(slabclass)
    BY DEF IInv, Growing
  <2>2. QED
    BY <2>1 DEF Growing, ClassesGrow
<1>2. QED
  BY <1>1, Invariant, PTL

=============================================================================
