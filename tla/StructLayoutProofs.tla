------------------------- MODULE StructLayoutProofs -------------------------
(***************************************************************************)
(* Proofs about StructFields that speak of numbers, types and layout:      *)
(* every size and offset is one of uint32_t, a field has the type of a     *)
(* struct only after that struct has been read, the fields of a plain      *)
(* struct tile its bytes, reading it again adds nothing, and the types     *)
(* that structs share as padding have the sizes that their names say.      *)
(*                                                                         *)
(* The size of an array is a fold over its dimensions.  The theorems about *)
(* folds take operators, so a fold is unfolded here by induction over the  *)
(* SET of the numbers up to which it is what it should be.                 *)
(*                                                                         *)
(* The invariant TInv adds to that of StructFieldsProofs where every       *)
(* number and every type comes from, LInv what the fields of each plain    *)
(* struct are before, while and after it is padded.                        *)
(***************************************************************************)
EXTENDS StructFieldsProofs, WellFoundedInduction

\* Induction over the natural numbers for a set.
LEMMA NatSetInduction ==
  ASSUME NEW T, 0 \in T, \A n \in Nat : n \in T => n + 1 \in T
  PROVE  Nat \subseteq T
<1> DEFINE R == OpToRel(<, Nat)
           M == Nat \ T
<1>1. SUFFICES ASSUME M # {} PROVE FALSE
  OBVIOUS
<1>2. IsWellFoundedOn(R, Nat)
  BY NatLessThanWellFounded
<1>3. R = {ss \in Nat \X Nat : ss[1] < ss[2]}
  BY DEF OpToRel
<1> HIDE DEF R
<1>4. M \subseteq Nat
  OBVIOUS
<1> HIDE DEF M
<1>5. PICK n \in M : \A y \in M : ~ (<< y, n >> \in R)
  BY <1>1, <1>2, <1>4, WFMin
<1>6. n \in Nat /\ n # 0 /\ n - 1 \in Nat
  BY <1>5, <1>4 DEF M
<1>7. << n - 1, n >> \in R
  <2>1. << n - 1, n >> \in Nat \X Nat
    BY <1>6
  <2>2. n - 1 < n
    BY <1>6
  <2>3. QED
    BY <1>3, <2>1, <2>2
<1>8. n - 1 \in T
  BY <1>5, <1>6, <1>7 DEF M
<1>9. n \in T
  BY <1>6, <1>8
<1>10. QED
  BY <1>5, <1>9 DEF M

\* The greatest number of a set that holds the last of its range.
LEMMA MaxOfRange ==
  ASSUME NEW n \in Nat, NEW s, s \subseteq 1 .. n + 1, n + 1 \in s
  PROVE  Max(s) = n + 1
<1>1. \A y \in s : n + 1 >= y
  OBVIOUS
<1>2. \A x \in s : (\A y \in s : x >= y) => x = n + 1
  OBVIOUS
<1>3. QED
  BY <1>1, <1>2 DEF Max

\* What a fold from the left over n numbers is defined by.
Folds(g, n, op, s) ==
  g = [ t \in SUBSET (1 .. n) |->
             IF t = {} THEN 1
             ELSE op[<< g[t \ {Max(t)}], s[Max(t)] >>] ]

\* A set of numbers up to n that is not empty has a greatest one.
LEMMA MaxInside ==
  ASSUME NEW n \in Nat, NEW s \in SUBSET (1 .. n), s # {}
  PROVE  Max(s) \in s
<1> DEFINE Top1 == \E y \in s : \A z \in s : y >= z
           T == { k \in Nat : (\A x \in s : x <= k) => Top1 }
<1>1. 0 \in T
  <2>1. PICK x \in s : TRUE
    OBVIOUS
  <2>2. x \in 1 .. n /\ ~(x <= 0)
    BY <2>1
  <2>3. QED
    BY <2>2
<1>2. ASSUME NEW k \in Nat, k \in T PROVE k + 1 \in T
  <2> SUFFICES ASSUME \A x \in s : x <= k + 1 PROVE Top1
    OBVIOUS
  <2>1. CASE k + 1 \in s
    BY <2>1
  <2>2. CASE k + 1 \notin s
    <3>1. \A x \in s : x <= k
      BY <2>2
    <3>2. QED
      BY <3>1, <1>2
  <2>3. QED
    BY <2>1, <2>2
<1>3. n \in T
  <2> HIDE DEF T
  <2>1. QED
    BY <1>1, <1>2, NatSetInduction
<1>4. Top1
  BY <1>3
<1>5. QED
  BY <1>4 DEF Max

\* There is a function that a fold from the left is computed by.
LEMMA FoldDefined ==
  ASSUME NEW op \in [Int \X Int -> Int], NEW n \in Nat, NEW s \in [1 .. n -> Int]
  PROVE  \E g : g \in [SUBSET (1 .. n) -> Int] /\ Folds(g, n, op, s)
<1> DEFINE Has(m) == \E g : g \in [SUBSET (1 .. m) -> Int] /\ Folds(g, m, op, s)
           T == { m \in Nat : m <= n => Has(m) }
<1>1. Has(0)
  <2> DEFINE g == [t \in SUBSET (1 .. 0) |-> 1]
  <2>1. 1 .. 0 = {} /\ SUBSET (1 .. 0) = {{}}
    OBVIOUS
  <2>2. Folds(g, 0, op, s) /\ g \in [SUBSET (1 .. 0) -> Int]
    BY <2>1 DEF Folds
  <2>3. QED
    BY <2>2
<1>2. ASSUME NEW m \in Nat, Has(m), m + 1 <= n PROVE Has(m + 1)
  <2>1. PICK g : g \in [SUBSET (1 .. m) -> Int] /\ Folds(g, m, op, s)
    BY <1>2
  <2> DEFINE h == [ t \in SUBSET (1 .. m + 1) |->
                      IF m + 1 \in t THEN op[<< g[t \ {m + 1}], s[m + 1] >>] ELSE g[t] ]
  <2>2. \A t \in SUBSET (1 .. m + 1) : m + 1 \in t => t \ {m + 1} \in SUBSET (1 .. m)
    OBVIOUS
  <2>3. \A t \in SUBSET (1 .. m + 1) : m + 1 \notin t => t \in SUBSET (1 .. m)
    OBVIOUS
  <2>4. h \in [SUBSET (1 .. m + 1) -> Int]
    <3>1. \A t \in SUBSET (1 .. m) : g[t] \in Int
      BY <2>1
    <3>2. s[m + 1] \in Int
      BY <1>2
    <3>3. \A a, b \in Int : op[<< a, b >>] \in Int
      OBVIOUS
    <3>4. QED
      BY <3>1, <3>2, <3>3, <2>2, <2>3
  <2>5. ASSUME NEW t \in SUBSET (1 .. m + 1)
        PROVE  h[t] = IF t = {} THEN 1 ELSE op[<< h[t \ {Max(t)}], s[Max(t)] >>]
    <3>1. CASE m + 1 \in t
      <4>1. Max(t) = m + 1
        BY <3>1, MaxOfRange
      <4>2. h[t \ {m + 1}] = g[t \ {m + 1}]
        BY <2>2, <3>1
      <4>3. QED
        BY <4>1, <4>2, <3>1
    <3>2. CASE m + 1 \notin t
      <4>1. h[t] = g[t] /\ t \in SUBSET (1 .. m)
        BY <3>2, <2>3
      <4>2. g[t] = IF t = {} THEN 1 ELSE op[<< g[t \ {Max(t)}], s[Max(t)] >>]
        BY <4>1, <2>1 DEF Folds
      <4>3. h[t \ {Max(t)}] = g[t \ {Max(t)}]
        BY <3>2
      <4>4. QED
        BY <4>1, <4>2, <4>3
    <3>3. QED
      BY <3>1, <3>2
  <2>6. Folds(h, m + 1, op, s)
    <3>1. h = [t \in SUBSET (1 .. m + 1) |-> h[t]]
      OBVIOUS
    <3> HIDE DEF h
    <3>2. QED
      BY <3>1, <2>5 DEF Folds
  <2>7. QED
    BY <2>4, <2>6
<1> HIDE DEF Has
<1>3. 0 \in T
  BY <1>1
<1>4. ASSUME NEW m \in Nat, m \in T PROVE m + 1 \in T
  BY <1>2, <1>4
<1>5. n \in T
  <2> HIDE DEF T
  <2>1. QED
    BY <1>3, <1>4, NatSetInduction
<1>6. Has(n)
  BY <1>5
<1>7. QED
  BY <1>6 DEF Has

\* The step of a fold from the left over a range.
LEMMA FoldStep ==
  ASSUME NEW n \in Nat, NEW k \in Nat, k + 1 <= n
  PROVE  /\ 1 .. k + 1 \in SUBSET (1 .. n) /\ 1 .. k \in SUBSET (1 .. n)
         /\ 1 .. k + 1 # {} /\ Max(1 .. k + 1) = k + 1
         /\ (1 .. k + 1) \ {k + 1} = 1 .. k
<1>1. k + 1 \in 1 .. k + 1 /\ 1 .. k + 1 \subseteq 1 .. k + 1
  OBVIOUS
<1>2. Max(1 .. k + 1) = k + 1
  BY <1>1, MaxOfRange
<1>3. QED
  BY <1>1, <1>2

\* The upper bounds of the dimensions of a field.
IsDims(d) == d \in Seq(0 .. Modulus - 1)

\* The number of elements of an array is a product, factor by factor.
LEMMA ElementsFold ==
  ASSUME NEW d, IsDims(d)
  PROVE  \E g : /\ g[{}] = 1
                /\ \A k \in Nat : k + 1 <= Len(d) => g[1 .. k + 1] = g[1 .. k] * (d[k + 1] + 1)
                /\ Elements(d) = g[1 .. Len(d)]
<1> DEFINE F(g) == g = [t \in SUBSET (DOMAIN d) |->
                          IF t = {} THEN 1 ELSE g[t \ {Max(t)}] * (d[Max(t)] + 1)]
           op == [p \in Int \X Int |-> p[1] * (p[2] + 1)]
           n == Len(d)
<1>1. /\ n \in Nat /\ DOMAIN d = 1 .. n /\ d \in [1 .. n -> Int]
      /\ \A k \in 1 .. n : d[k] \in Int
  BY BoundsAssumption DEF IsDims
<1>2. Elements(d) = (CHOOSE g : F(g))[DOMAIN d]
  BY Zenon DEF Elements, FoldLeft, MapThenFoldSet
<1>3. op \in [Int \X Int -> Int]
  OBVIOUS
<1>4. PICK g : g \in [SUBSET (1 .. n) -> Int] /\ Folds(g, n, op, d)
  <2> HIDE DEF op, n
  <2>1. QED
    BY <1>1, <1>3, FoldDefined
<1>5. F(g)
  <2>1. ASSUME NEW t \in SUBSET (1 .. n), t # {}
        PROVE  op[<< g[t \ {Max(t)}], d[Max(t)] >>] = g[t \ {Max(t)}] * (d[Max(t)] + 1)
    <3>1. g[t \ {Max(t)}] \in Int
      BY <1>4
    <3>2. d[Max(t)] \in Int
      BY <2>1, <1>1, MaxInside
    <3>3. QED
      BY <3>1, <3>2
  <2> HIDE DEF op, n
  <2>2. [t \in SUBSET (1 .. n) |-> IF t = {} THEN 1 ELSE op[<< g[t \ {Max(t)}], d[Max(t)] >>]]
        = [t \in SUBSET (1 .. n) |-> IF t = {} THEN 1 ELSE g[t \ {Max(t)}] * (d[Max(t)] + 1)]
    BY <2>1
  <2>3. QED
    BY <1>1, <1>4, <2>2, Zenon DEF Folds
<1> DEFINE c == CHOOSE h : F(h)
<1>6. F(c)
  <2> HIDE DEF F
  <2>1. QED
    BY <1>5
<1>7. Elements(d) = c[1 .. n]
  BY <1>1, <1>2
<1> HIDE DEF c
<1>8. \A t \in SUBSET (1 .. n) : c[t] = IF t = {} THEN 1 ELSE c[t \ {Max(t)}] * (d[Max(t)] + 1)
  BY <1>1, <1>6
<1>9. c[{}] = 1
  BY <1>8
<1>10. ASSUME NEW k \in Nat, k + 1 <= n
       PROVE  c[1 .. k + 1] = c[1 .. k] * (d[k + 1] + 1)
  <2> DEFINE t == 1 .. k + 1
  <2>1. t \in SUBSET (1 .. n) /\ t # {} /\ Max(t) = k + 1 /\ t \ {k + 1} = 1 .. k
    BY <1>1, <1>10, FoldStep
  <2> HIDE DEF t
  <2>2. c[t] = c[t \ {Max(t)}] * (d[Max(t)] + 1)
    BY <1>8, <2>1
  <2>3. c[t] = c[1 .. k] * (d[k + 1] + 1)
    BY <2>1, <2>2
  <2>4. QED
    BY <2>3 DEF t
<1>11. QED
  BY <1>7, <1>9, <1>10

\* Field::getArraySize(), for an array.
Wrapped(dims) == FoldLeft(LAMBDA n, ub : Times(n, Plus(ub, 1)), 1, dims)

\* Arithmetic in uint32_t.
LEMMA TimesInRange ==
  ASSUME NEW a \in Int, NEW b \in Int
  PROVE  Times(a, b) \in 0 .. Modulus - 1 /\ Times(a, b) \in Int
<1>1. a * b \in Int /\ Modulus \in Nat \ {0}
  BY BoundsAssumption
<1>2. QED
  BY <1>1 DEF Times

LEMMA PlusInRange ==
  ASSUME NEW a \in Int, NEW b \in Int
  PROVE  Plus(a, b) \in 0 .. Modulus - 1 /\ Plus(a, b) \in Int
BY BoundsAssumption DEF Plus

LEMMA MinusInRange ==
  ASSUME NEW a \in Int, NEW b \in Int
  PROVE  Minus(a, b) \in 0 .. Modulus - 1 /\ Minus(a, b) \in Int
BY BoundsAssumption DEF Minus

\* As long as a result is small enough, nothing wraps around.
LEMMA Small ==
  ASSUME NEW a \in Nat, a < Modulus
  PROVE  a % Modulus = a
BY BoundsAssumption

\* So is what getArraySize computes, in uint32_t.
LEMMA WrappedFold ==
  ASSUME NEW d, IsDims(d)
  PROVE  \E g : /\ g[{}] = 1
                /\ \A k \in Nat : k + 1 <= Len(d) => g[1 .. k + 1] = Times(g[1 .. k], Plus(d[k + 1], 1))
                /\ Wrapped(d) = g[1 .. Len(d)]
<1> DEFINE F(g) == g = [t \in SUBSET (DOMAIN d) |->
                          IF t = {} THEN 1 ELSE Times(g[t \ {Max(t)}], Plus(d[Max(t)], 1))]
           op == [p \in Int \X Int |-> Times(p[1], Plus(p[2], 1))]
           n == Len(d)
<1>1. /\ n \in Nat /\ DOMAIN d = 1 .. n /\ d \in [1 .. n -> Int]
      /\ \A k \in 1 .. n : d[k] \in Int
  BY BoundsAssumption DEF IsDims
<1>2. Wrapped(d) = (CHOOSE g : F(g))[DOMAIN d]
  BY Zenon DEF Wrapped, FoldLeft, MapThenFoldSet
<1>3. op \in [Int \X Int -> Int]
  BY TimesInRange, PlusInRange
<1>4. PICK g : g \in [SUBSET (1 .. n) -> Int] /\ Folds(g, n, op, d)
  <2> HIDE DEF op, n
  <2>1. QED
    BY <1>1, <1>3, FoldDefined
<1>5. F(g)
  <2>1. ASSUME NEW t \in SUBSET (1 .. n), t # {}
        PROVE  op[<< g[t \ {Max(t)}], d[Max(t)] >>] = Times(g[t \ {Max(t)}], Plus(d[Max(t)], 1))
    <3>1. g[t \ {Max(t)}] \in Int
      BY <1>4
    <3>2. d[Max(t)] \in Int
      BY <2>1, <1>1, MaxInside
    <3>3. QED
      BY <3>1, <3>2
  <2> HIDE DEF op, n
  <2>2. [t \in SUBSET (1 .. n) |-> IF t = {} THEN 1 ELSE op[<< g[t \ {Max(t)}], d[Max(t)] >>]]
        = [t \in SUBSET (1 .. n) |-> IF t = {} THEN 1 ELSE Times(g[t \ {Max(t)}], Plus(d[Max(t)], 1))]
    BY <2>1
  <2>3. QED
    BY <1>1, <1>4, <2>2, Zenon DEF Folds
<1> DEFINE c == CHOOSE h : F(h)
<1>6. F(c)
  <2> HIDE DEF F
  <2>1. QED
    BY <1>5
<1>7. Wrapped(d) = c[1 .. n]
  BY <1>1, <1>2
<1> HIDE DEF c
<1>8. \A t \in SUBSET (1 .. n) : c[t] = IF t = {} THEN 1 ELSE Times(c[t \ {Max(t)}], Plus(d[Max(t)], 1))
  BY <1>1, <1>6
<1>9. c[{}] = 1
  BY <1>8
<1>10. ASSUME NEW k \in Nat, k + 1 <= n
       PROVE  c[1 .. k + 1] = Times(c[1 .. k], Plus(d[k + 1], 1))
  <2> DEFINE t == 1 .. k + 1
  <2>1. t \in SUBSET (1 .. n) /\ t # {} /\ Max(t) = k + 1 /\ t \ {k + 1} = 1 .. k
    BY <1>1, <1>10, FoldStep
  <2> HIDE DEF t
  <2>2. c[t] = Times(c[t \ {Max(t)}], Plus(d[Max(t)], 1))
    BY <1>8, <2>1
  <2>3. c[t] = Times(c[1 .. k], Plus(d[k + 1], 1))
    BY <2>1, <2>2
  <2>4. QED
    BY <2>3 DEF t
<1>11. QED
  BY <1>7, <1>9, <1>10

\* One more dimension does not make an array smaller.
LEMMA ProductGrows ==
  ASSUME NEW a \in Nat \ {0}, NEW b \in Nat
  PROVE  a * (b + 1) \in Nat \ {0} /\ a <= a * (b + 1)
<1>1. a * b \in Nat
  OBVIOUS
<1>2. a * (b + 1) = a * b + a
  OBVIOUS
<1>3. QED
  BY <1>1, <1>2

\* The number of elements is positive, and what getArraySize computes is it
\* unless it wraps around or an upper bound is missing.
LEMMA DimsFacts ==
  ASSUME NEW d, IsDims(d)
  PROVE  /\ Elements(d) \in Nat \ {0} /\ Wrapped(d) \in Nat
         /\ d = << >> => Elements(d) = 1
         /\ NoUpperBound \notin Range(d) /\ Elements(d) < Modulus
              => Wrapped(d) = Elements(d)
<1>1. PICK e : /\ e[{}] = 1
               /\ \A k \in Nat : k + 1 <= Len(d) => e[1 .. k + 1] = e[1 .. k] * (d[k + 1] + 1)
               /\ Elements(d) = e[1 .. Len(d)]
  BY ElementsFold
<1>2. PICK w : /\ w[{}] = 1
               /\ \A k \in Nat : k + 1 <= Len(d) =>
                    w[1 .. k + 1] = Times(w[1 .. k], Plus(d[k + 1], 1))
               /\ Wrapped(d) = w[1 .. Len(d)]
  BY WrappedFold
<1>3. /\ Len(d) \in Nat /\ Modulus \in Nat \ {0}
      /\ \A k \in 1 .. Len(d) : d[k] \in 0 .. Modulus - 1
      /\ DOMAIN d = 1 .. Len(d)
  BY BoundsAssumption DEF IsDims
<1>4. 1 .. 0 = {}
  OBVIOUS
<1> DEFINE Bounded == NoUpperBound \notin Range(d)
           Fits(k) == /\ e[1 .. k] \in Nat \ {0} /\ w[1 .. k] \in Nat
                      /\ Bounded /\ e[1 .. k] < Modulus => w[1 .. k] = e[1 .. k]
           T == { k \in Nat : k <= Len(d) => Fits(k) }
<1>5. Fits(0)
  BY <1>1, <1>2, <1>4
<1>6. ASSUME NEW k \in Nat, Fits(k), k + 1 <= Len(d) PROVE Fits(k + 1)
  <2> DEFINE a == e[1 .. k]
             b == w[1 .. k]
             x == d[k + 1]
  <2>1. a \in Nat \ {0} /\ b \in Nat /\ x \in 0 .. Modulus - 1 /\ x \in Nat
    BY <1>3, <1>6
  <2>2. /\ e[1 .. k + 1] = a * (x + 1)
        /\ w[1 .. k + 1] = Times(b, Plus(x, 1))
    BY <1>1, <1>2, <1>6
  <2> HIDE DEF a, b, x
  <2>3. a * (x + 1) \in Nat \ {0} /\ a <= a * (x + 1)
    BY <2>1, ProductGrows
  <2>4. Times(b, Plus(x, 1)) \in Nat
    <3> DEFINE y == Plus(x, 1)
    <3>1. b \in Int /\ y \in Int
      BY <2>1, PlusInRange
    <3> HIDE DEF y
    <3>2. Times(b, y) \in 0 .. Modulus - 1
      BY <3>1, TimesInRange
    <3>3. QED
      BY <3>2, <1>3 DEF y
  <2>5. ASSUME Bounded, a * (x + 1) < Modulus PROVE Times(b, Plus(x, 1)) = a * (x + 1)
    <3>1. a < Modulus
      BY <2>1, <2>3, <2>5, <1>3
    <3>2. b = a
      BY <3>1, <2>5, <1>6 DEF a, b
    <3>3. x # Modulus - 1
      <4>1. k + 1 \in DOMAIN d
        BY <1>3, <1>6
      <4>2. QED
        BY <4>1, <2>5 DEF Range, NoUpperBound, x
    <3>4. Plus(x, 1) = x + 1
      BY <3>3, <2>1, <1>3, Small DEF Plus
    <3>5. QED
      BY <3>2, <3>4, <2>3, <2>5, Small DEF Times
  <2>6. QED
    BY <2>2, <2>3, <2>4, <2>5
<1> HIDE DEF Fits
<1>7. 0 \in T
  BY <1>5
<1>8. ASSUME NEW k \in Nat, k \in T PROVE k + 1 \in T
  BY <1>6, <1>8
<1>9. Len(d) \in T
  <2> HIDE DEF T
  <2>1. QED
    BY <1>3, <1>7, <1>8, NatSetInduction
<1>10. Fits(Len(d))
  BY <1>9, <1>3
<1>11. d = << >> => Elements(d) = 1
  <2>1. Len(<< >>) = 0
    OBVIOUS
  <2>2. QED
    BY <2>1, <1>1, <1>4
<1>12. QED
  BY <1>1, <1>2, <1>10, <1>11 DEF Fits
-----------------------------------------------------------------------------
(* The types of what is stored, and what the calls in progress wait for.   *)

\* A call reads its DIE under a name that the DIE can have.
Known(c) == c.symbol \in NamesOf(c.die)

\* Call c stands at a member that is of the struct call e reads.
Waits(c, e) ==
  LET m == Dies[c.die].members[c.next] IN IsOfStruct(m) /\ m.type = e.die

Links(st) ==
  /\ \A k \in 1 .. Len(st) : Known(st[k])
  /\ \A k \in 1 .. Len(st) : k > 1 => Waits(st[k], st[k - 1])

\* The structs that a field may have as its type: until a call fails, those
\* that were read completely.
Types == IF errors = 0 THEN { r[2] : r \in read } ELSE DOMAIN symbols

FieldOK(f, S) ==
  /\ f.offset \in Nat /\ f.size \in Nat /\ f.bit_size \in Nat /\ f.bit_offset \in Nat
  /\ IsDims(f.dims)
  /\ f.type \in Markers \cup S

FieldsOK(fs, S) == \A k \in DOMAIN fs : FieldOK(fs[k], S)

\* A symbol is of the size of a DIE that has its name.
SizeKnown(n, size) ==
  /\ size \in 0 .. Modulus - 1
  /\ n # "" => \E d \in DiesOf(n) : size \in SizesRead(d)

TableOK(T, S) ==
  \A n \in DOMAIN T :
    /\ n \in Names \cup {""}
    /\ SizeKnown(n, T[n].byte_size)
    /\ FieldsOK(T[n].fields, S)

PaddingsOK(P) == \A b \in DOMAIN P : P[b] \in 1 .. Modulus - 1

ReadOK(rs, T) ==
  /\ rs \subseteq (DOMAIN Dies) \X (DOMAIN T)
  /\ \A r \in rs : r[2] \in NamesOf(r[1])

\* The inductive invariant.
TInv ==
  /\ MInv /\ Links(stack) /\ TableOK(symbols, Types) /\ PaddingsOK(paddings)
  /\ todo \subseteq Visits /\ ReadOK(read, symbols) /\ errors \in 0 .. MaxErrors
  /\ stack # << >> /\ Top.phase = "done" => Top.symbol \in Types

\* Names a DIE can be read under.
LEMMA NamesFacts ==
  ASSUME NEW d \in DOMAIN Dies
  PROVE  /\ Dies[d].name # "" => Dies[d].name \in NamesOf(d)
         /\ \A via \in Dies[d].typedefs : SymbolName(d, via) \in NamesOf(d)
         /\ \A e \in DOMAIN Dies : \A m \in Range(Dies[e].members) :
              m.type = d =>
                SymbolName(d, IF m.alias # "" THEN m.alias ELSE m.name) \in NamesOf(d)
<1>1. Dies[d].name # "" => Dies[d].name \in NamesOf(d)
  BY DEF NamesOf
<1>2. \A via \in Dies[d].typedefs : SymbolName(d, via) \in NamesOf(d)
  BY DEF NamesOf
<1>3. ASSUME NEW e \in DOMAIN Dies, NEW m \in Range(Dies[e].members), m.type = d
      PROVE  SymbolName(d, IF m.alias # "" THEN m.alias ELSE m.name) \in NamesOf(d)
  <2> DEFINE all == UNION { Range(Dies[x].members) : x \in DOMAIN Dies }
             via == IF m.alias # "" THEN m.alias ELSE m.name
  <2>1. m \in { x \in all : x.type = d }
    BY <1>3
  <2>2. via \in { IF x.alias # "" THEN x.alias ELSE x.name : x \in { y \in all : y.type = d } }
    BY <2>1
  <2>3. QED
    BY <2>2 DEF NamesOf
<1>4. QED
  BY <1>1, <1>2, <1>3

\* The members of a DIE have the form that DiesAssumption gives them.
LEMMA MemberFacts ==
  ASSUME NEW d \in DOMAIN Dies, NEW k \in 1 .. Len(Dies[d].members)
  PROVE  /\ IsMember(Dies[d].members[k])
         /\ Dies[d].members[k] \in Range(Dies[d].members)
         /\ Dies[d].members[k].type \in DOMAIN Dies =>
              Dies[Dies[d].members[k].type].byte_size # Absent
         /\ DOMAIN Dies[d].members = 1 .. Len(Dies[d].members)
<1>1. IsDie(Dies[d])
  BY DiesAssumption
<1>2. DOMAIN Dies[d].members = 1 .. Len(Dies[d].members)
  <2>1. Dies[d].members \in Seq(Range(Dies[d].members))
    BY <1>1 DEF IsDie
  <2>2. QED
    BY <2>1
<1>3. QED
  BY <1>1, <1>2 DEF IsDie, Range

\* What a DIE makes byteSize be.
LEMMA SizeFacts ==
  ASSUME NEW d \in DOMAIN Dies, NEW size \in SizesRead(d)
  PROVE  size \in 0 .. Modulus - 1 /\ size \in Nat
<1>1. IsDie(Dies[d])
  BY DiesAssumption
<1>2. size \in 0 .. Modulus - 1
  BY <1>1, BoundsAssumption DEF IsDie, SizesRead
<1>3. QED
  BY <1>2, BoundsAssumption

LEMMA SizePresent ==
  ASSUME NEW d \in DOMAIN Dies, Dies[d].byte_size # Absent
  PROVE  SizesRead(d) = {Dies[d].byte_size} /\ Dies[d].byte_size \in 0 .. Modulus - 1
         /\ Dies[d].byte_size \in Nat
<1>1. SizesRead(d) = {Dies[d].byte_size}
  BY DEF SizesRead
<1>2. QED
  BY <1>1, SizeFacts

-----------------------------------------------------------------------------
(* Fields and symbols.                                                     *)

LEMMA MoreTypes ==
  ASSUME NEW T, NEW S, NEW R, S \subseteq R, TableOK(T, S)
  PROVE  TableOK(T, R)
BY DEF TableOK, FieldsOK, FieldOK

\* Where the elements are after an insertion.
LEMMA InsertFacts ==
  ASSUME NEW s, NEW e, IsSeq(s), NEW i \in 1 .. Len(s) + 1
  PROVE  /\ Len(InsertAt(s, i, e)) = Len(s) + 1
         /\ DOMAIN InsertAt(s, i, e) = 1 .. Len(s) + 1
         /\ \A k \in 1 .. Len(s) + 1 :
              InsertAt(s, i, e)[k] = IF k < i THEN s[k] ELSE IF k = i THEN e ELSE s[k - 1]
<1>1. PICK S : s \in Seq(S)
  BY DEF IsSeq
<1> DEFINE T == S \cup {e}
           a == SubSeq(s, 1, i - 1)
           b == a \o << e >>
           c == SubSeq(s, i, Len(s))
           t == b \o c
<1>2. s \in Seq(T) /\ Len(s) \in Nat /\ DOMAIN s = 1 .. Len(s) /\ i \in Nat \ {0}
  BY <1>1
<1>3. \A k \in 1 .. Len(s) : s[k] \in T
  BY <1>2
<1>4. a \in Seq(T) /\ Len(a) = i - 1 /\ \A k \in 1 .. i - 1 : a[k] = s[k]
  <2>1. \A k \in 1 .. i - 1 : s[k] \in T
    BY <1>2, <1>3
  <2>2. QED
    BY <2>1, <1>2, SubSeqProperties
<1>5. c \in Seq(T) /\ Len(c) = Len(s) - i + 1
      /\ \A k \in 1 .. Len(s) - i + 1 : c[k] = s[i + k - 1]
  <2>1. \A k \in i .. Len(s) : s[k] \in T
    BY <1>2, <1>3
  <2>2. QED
    BY <2>1, <1>2, SubSeqProperties
<1>6. /\ b \in Seq(T) /\ Len(b) = i
      /\ \A k \in 1 .. i : b[k] = IF k < i THEN s[k] ELSE e
  <2>1. << e >> \in Seq(T) /\ Len(<< e >>) = 1 /\ << e >>[1] = e
    OBVIOUS
  <2> HIDE DEF a
  <2>2. /\ b \in Seq(T) /\ Len(b) = i
        /\ \A k \in 1 .. i : b[k] = IF k <= i - 1 THEN a[k] ELSE << e >>[k - (i - 1)]
    BY <1>2, <1>4, <2>1, ConcatProperties
  <2>3. ASSUME NEW k \in 1 .. i PROVE b[k] = IF k < i THEN s[k] ELSE e
    <3>1. CASE k < i
      BY <3>1, <2>2, <1>2, <1>4
    <3>2. CASE ~(k < i)
      <4>1. k = i /\ k - (i - 1) = 1 /\ ~(k <= i - 1)
        BY <3>2, <1>2
      <4>2. QED
        BY <4>1, <2>1, <2>2
    <3>3. QED
      BY <3>1, <3>2
  <2>4. QED
    BY <2>2, <2>3
<1>7. /\ t \in Seq(T) /\ Len(t) = Len(s) + 1
      /\ \A k \in 1 .. Len(s) + 1 : t[k] = IF k <= i THEN b[k] ELSE c[k - i]
  <2> HIDE DEF b, c
  <2>1. QED
    BY <1>2, <1>5, <1>6, ConcatProperties
<1> HIDE DEF b, c, t
<1>8. ASSUME NEW k \in 1 .. Len(s) + 1
      PROVE  t[k] = IF k < i THEN s[k] ELSE IF k = i THEN e ELSE s[k - 1]
  <2>1. CASE k <= i
    BY <2>1, <1>2, <1>6, <1>7
  <2>2. CASE ~(k <= i)
    <3>1. k - i \in 1 .. Len(s) - i + 1 /\ i + (k - i) - 1 = k - 1 /\ ~(k < i) /\ k # i
      BY <2>2, <1>2
    <3>2. t[k] = c[k - i] /\ c[k - i] = s[i + (k - i) - 1]
      BY <2>2, <3>1, <1>5, <1>7
    <3>3. QED
      BY <3>1, <3>2
  <2>3. QED
    BY <2>1, <2>2
<1>9. t = InsertAt(s, i, e)
  BY DEF InsertAt, t, b, c
<1>10. QED
  BY <1>2, <1>7, <1>8, <1>9

LEMMA InsertFieldsOK ==
  ASSUME NEW s, NEW f, NEW S, IsSeq(s), NEW i \in 1 .. Len(s) + 1,
         FieldsOK(s, S), FieldOK(f, S)
  PROVE  FieldsOK(InsertField(s, i, f), S)
<1> DEFINE t == InsertAt(s, i, f)
<1>1. /\ DOMAIN t = 1 .. Len(s) + 1
      /\ \A k \in 1 .. Len(s) + 1 : t[k] = IF k < i THEN s[k] ELSE IF k = i THEN f ELSE s[k - 1]
  BY InsertFacts
<1> HIDE DEF t
<1>2. ASSUME NEW k \in 1 .. Len(s) + 1 PROVE FieldOK(t[k], S)
  <2>1. Len(s) \in Nat /\ DOMAIN s = 1 .. Len(s)
    BY LenOfSeq
  <2>2. CASE k < i
    <3>1. k \in DOMAIN s /\ t[k] = s[k]
      BY <1>1, <2>1, <2>2
    <3>2. QED
      BY <3>1 DEF FieldsOK
  <2>3. CASE k = i
    BY <1>1, <2>1, <2>3
  <2>4. CASE k > i
    <3>1. k - 1 \in DOMAIN s /\ t[k] = s[k - 1]
      BY <1>1, <2>1, <2>4
    <3>2. QED
      BY <3>1 DEF FieldsOK
  <2>5. QED
    BY <2>1, <2>2, <2>3, <2>4
<1>3. FieldsOK(t, S)
  BY <1>1, <1>2 DEF FieldsOK
<1>4. QED
  BY <1>3 DEF InsertField, t

LEMMA AddFieldsOK ==
  ASSUME NEW s, NEW f, NEW S, IsSeq(s), FieldsOK(s, S), FieldOK(f, S)
  PROVE  FieldsOK(AddField(s, f), S)
<1>1. PICK R : s \in Seq(R)
  BY DEF IsSeq
<1>2. s \in Seq(R \cup {f})
  BY <1>1
<1>3. /\ DOMAIN Append(s, f) = 1 .. Len(s) + 1 /\ DOMAIN s = 1 .. Len(s) /\ Len(s) \in Nat
      /\ \A k \in 1 .. Len(s) : Append(s, f)[k] = s[k]
      /\ Append(s, f)[Len(s) + 1] = f
  BY <1>2
<1>4. FieldsOK(Append(s, f), S)
  <2>1. ASSUME NEW k \in 1 .. Len(s) + 1 PROVE FieldOK(Append(s, f)[k], S)
    <3>1. CASE k = Len(s) + 1
      BY <3>1, <1>3
    <3>2. CASE k # Len(s) + 1
      <4>1. k \in DOMAIN s /\ Append(s, f)[k] = s[k]
        BY <1>3, <3>2
      <4>2. QED
        BY <4>1 DEF FieldsOK
    <3>3. QED
      BY <3>1, <3>2
  <2>2. QED
    BY <1>3, <2>1 DEF FieldsOK
<1>5. QED
  BY <1>4 DEF AddField

LEMMA NothingInEmpty == DOMAIN << >> = {}
<1>1. << >> = [n \in {} |-> << >>[n]] /\ DOMAIN << >> = {}
  OBVIOUS
<1>2. QED
  BY <1>1

LEMMA AddSymbolOK ==
  ASSUME NEW S, TableOK(symbols, S), NEW name \in Names \cup {""}, NEW size,
         SizeKnown(name, size), AddSymbol(name, size)
  PROVE  TableOK(symbols', S)
<1>1. CASE name \in DOMAIN symbols
  BY <1>1 DEF AddSymbol
<1>2. CASE name \notin DOMAIN symbols
  <2> DEFINE new == [byte_size |-> size, fields |-> << >>]
             U == [ n \in DOMAIN symbols \cup {name} |-> IF n = name THEN new ELSE symbols[n] ]
  <2>1. symbols' = U
    BY <1>2 DEF AddSymbol
  <2>2. new.byte_size = size /\ new.fields = << >> /\ DOMAIN << >> = {}
    <3>1. new.byte_size = size /\ new.fields = << >>
      OBVIOUS
    <3>2. DOMAIN << >> = {}
      BY NothingInEmpty
    <3>3. QED
      BY <3>1, <3>2
  <2>3. FieldsOK(new.fields, S)
    BY <2>2 DEF FieldsOK
  <2>4. /\ DOMAIN U = DOMAIN symbols \cup {name} /\ U[name] = new
        /\ \A n \in DOMAIN symbols : U[n] = symbols[n]
    BY <1>2
  <2> HIDE DEF new, U
  <2>5. TableOK(U, S)
    BY <2>2, <2>3, <2>4 DEF TableOK
  <2>6. QED
    BY <2>1, <2>5
<1>3. QED
  BY <1>1, <1>2

LEMMA FieldsTableOK ==
  ASSUME NEW T, NEW S, IsTable(T), TableOK(T, S), NEW n \in DOMAIN T, NEW fs,
         FieldsOK(fs, S)
  PROVE  LET U == [T EXCEPT ![n].fields = fs]
         IN  /\ TableOK(U, S) /\ DOMAIN U = DOMAIN T /\ U[n].fields = fs
             /\ \A m \in DOMAIN T : m # n => U[m] = T[m]
             /\ \A m \in DOMAIN T : U[m].byte_size = T[m].byte_size
<1> DEFINE U == [T EXCEPT ![n].fields = fs]
<1>1. T = [m \in DOMAIN T |-> T[m]] /\ IsSymbol(T[n])
  BY DEF IsTable
<1>2. U = [m \in DOMAIN T |-> IF m = n THEN [T[n] EXCEPT !.fields = fs] ELSE T[m]]
  BY <1>1
<1>3. [T[n] EXCEPT !.fields = fs] = [byte_size |-> T[n].byte_size, fields |-> fs]
  BY <1>1 DEF IsSymbol
<1>4. /\ DOMAIN U = DOMAIN T
      /\ U[n] = [byte_size |-> T[n].byte_size, fields |-> fs]
      /\ \A m \in DOMAIN T : m # n => U[m] = T[m]
  BY <1>2, <1>3
<1> HIDE DEF U
<1>5. U[n].byte_size = T[n].byte_size /\ U[n].fields = fs
  BY <1>4
<1>6. \A m \in DOMAIN T : U[m].byte_size = T[m].byte_size
  BY <1>4, <1>5
<1>7. TableOK(U, S)
  BY <1>4, <1>5, <1>6 DEF TableOK
<1>8. QED
  BY <1>4, <1>5, <1>6, <1>7 DEF U

-----------------------------------------------------------------------------
(* The calls.                                                              *)

\* Replacing the first element of a stack.
LEMMA Replaced ==
  ASSUME NEW st \in Seq(Frames), st # << >>, NEW c \in Frames
  PROVE  LET t == << c >> \o Tail(st)
         IN  /\ t \in Seq(Frames) /\ Len(t) = Len(st) /\ t # << >> /\ Head(t) = c /\ t[1] = c
             /\ \A k \in 2 .. Len(st) : t[k] = st[k]
             /\ Len(st) \in Nat \ {0}
<1> DEFINE u == Tail(st)
           t == << c >> \o u
<1>1. /\ u \in Seq(Frames) /\ Len(u) = Len(st) - 1 /\ Len(st) \in Nat \ {0}
      /\ \A k \in 1 .. Len(st) - 1 : u[k] = st[k + 1]
  OBVIOUS
<1> HIDE DEF u
<1>2. /\ t \in Seq(Frames) /\ Len(t) = Len(u) + 1 /\ t[1] = c
      /\ \A k \in 2 .. Len(u) + 1 : t[k] = u[k - 1]
  BY <1>1
<1> HIDE DEF t
<1>3. t # << >> /\ Head(t) = c
  BY <1>1, <1>2
<1>4. ASSUME NEW k \in 2 .. Len(st) PROVE t[k] = st[k]
  <2>1. k \in 2 .. Len(u) + 1 /\ k - 1 \in 1 .. Len(st) - 1 /\ k - 1 + 1 = k
    BY <1>1
  <2>2. t[k] = u[k - 1] /\ u[k - 1] = st[k - 1 + 1]
    BY <2>1, <1>1, <1>2
  <2>3. QED
    BY <2>1, <2>2
<1>5. QED
  BY <1>1, <1>2, <1>3, <1>4 DEF t, u

LEMMA Pushed ==
  ASSUME NEW st \in Seq(Frames), NEW c \in Frames
  PROVE  LET t == << c >> \o st
         IN  /\ t \in Seq(Frames) /\ Len(t) = Len(st) + 1 /\ t # << >> /\ Head(t) = c /\ t[1] = c
             /\ \A k \in 2 .. Len(st) + 1 : t[k] = st[k - 1]
             /\ Len(st) \in Nat
<1> DEFINE t == << c >> \o st
<1>1. /\ t \in Seq(Frames) /\ Len(t) = Len(st) + 1 /\ t[1] = c /\ Len(st) \in Nat
      /\ \A k \in 2 .. Len(st) + 1 : t[k] = st[k - 1]
  OBVIOUS
<1> HIDE DEF t
<1>2. t # << >> /\ Head(t) = c
  BY <1>1
<1>3. QED
  BY <1>1, <1>2 DEF t

LEMMA Popped ==
  ASSUME NEW st \in Seq(Frames), st # << >>
  PROVE  /\ Tail(st) \in Seq(Frames) /\ Len(Tail(st)) = Len(st) - 1 /\ Len(st) \in Nat \ {0}
         /\ \A k \in 1 .. Len(st) - 1 : Tail(st)[k] = st[k + 1]
OBVIOUS

LEMMA LinksReplaced ==
  ASSUME NEW st \in Seq(Frames), st # << >>, Links(st), NEW c \in Frames,
         c.die = st[1].die, c.symbol = st[1].symbol
  PROVE  Links(<< c >> \o Tail(st))
<1> DEFINE t == << c >> \o Tail(st)
<1>1. /\ Len(t) = Len(st) /\ t[1] = c /\ Len(st) \in Nat \ {0}
      /\ \A k \in 2 .. Len(st) : t[k] = st[k]
  BY Replaced
<1> HIDE DEF t
<1>2. ASSUME NEW k \in 1 .. Len(st) PROVE Known(t[k])
  <2>1. Known(st[k]) /\ 1 \in 1 .. Len(st)
    BY <1>1 DEF Links
  <2>2. CASE k = 1
    BY <1>1, <2>1, <2>2 DEF Known
  <2>3. CASE k # 1
    BY <1>1, <2>1, <2>3
  <2>4. QED
    BY <2>2, <2>3
<1>3. ASSUME NEW k \in 1 .. Len(st), k > 1 PROVE Waits(t[k], t[k - 1])
  <2>1. Waits(st[k], st[k - 1]) /\ t[k] = st[k]
    BY <1>1, <1>3 DEF Links
  <2>2. t[k - 1].die = st[k - 1].die
    <3>1. CASE k = 2
      BY <1>1, <3>1
    <3>2. CASE k # 2
      <4>1. k - 1 \in 2 .. Len(st)
        BY <1>1, <1>3, <3>2
      <4>2. QED
        BY <1>1, <4>1
    <3>3. QED
      BY <3>1, <3>2
  <2>3. QED
    BY <2>1, <2>2 DEF Waits
<1>4. Links(t)
  BY <1>1, <1>2, <1>3 DEF Links
<1>5. QED
  BY <1>4 DEF t

LEMMA LinksPushed ==
  ASSUME NEW st \in Seq(Frames), Links(st), NEW c \in Frames, Known(c),
         st # << >> => Waits(st[1], c)
  PROVE  Links(<< c >> \o st)
<1> DEFINE t == << c >> \o st
<1>1. /\ Len(t) = Len(st) + 1 /\ t[1] = c /\ Len(st) \in Nat
      /\ \A k \in 2 .. Len(st) + 1 : t[k] = st[k - 1]
  BY Pushed
<1> HIDE DEF t
<1>2. ASSUME NEW k \in 1 .. Len(st) + 1 PROVE Known(t[k])
  <2>1. CASE k = 1
    BY <1>1, <2>1
  <2>2. CASE k # 1
    <3>1. k - 1 \in 1 .. Len(st) /\ t[k] = st[k - 1]
      BY <1>1, <2>2
    <3>2. QED
      BY <3>1 DEF Links
  <2>3. QED
    BY <2>1, <2>2
<1>3. ASSUME NEW k \in 1 .. Len(st) + 1, k > 1 PROVE Waits(t[k], t[k - 1])
  <2>1. CASE k = 2
    <3>1. Len(st) # 0 /\ t[2] = st[1]
      BY <1>1, <2>1
    <3>2. st # << >>
      BY <3>1, <1>1
    <3>3. QED
      BY <3>1, <3>2, <1>1, <2>1
  <2>2. CASE k # 2
    <3>1. /\ k - 1 \in 1 .. Len(st) /\ k - 1 > 1 /\ k - 1 - 1 = k - 2
          /\ k - 1 \in 2 .. Len(st) + 1
      BY <1>1, <1>3, <2>2
    <3>2. t[k] = st[k - 1] /\ t[k - 1] = st[k - 1 - 1]
      BY <1>1, <1>3, <3>1
    <3>3. QED
      BY <3>1, <3>2 DEF Links
  <2>3. QED
    BY <2>1, <2>2
<1>4. Links(t)
  BY <1>1, <1>2, <1>3 DEF Links
<1>5. QED
  BY <1>4 DEF t

LEMMA LinksPopped ==
  ASSUME NEW st \in Seq(Frames), st # << >>, Links(st)
  PROVE  Links(Tail(st))
<1> DEFINE t == Tail(st)
<1>1. /\ Len(t) = Len(st) - 1 /\ Len(st) \in Nat \ {0}
      /\ \A k \in 1 .. Len(st) - 1 : t[k] = st[k + 1]
  BY Popped
<1> HIDE DEF t
<1>2. ASSUME NEW k \in 1 .. Len(st) - 1 PROVE Known(t[k])
  BY <1>1 DEF Links
<1>3. ASSUME NEW k \in 1 .. Len(st) - 1, k > 1 PROVE Waits(t[k], t[k - 1])
  <2>1. k + 1 \in 1 .. Len(st) /\ k + 1 > 1 /\ k - 1 \in 1 .. Len(st) - 1 /\ k + 1 - 1 = k
        /\ k - 1 + 1 = k
    BY <1>1, <1>3
  <2>2. Waits(st[k + 1], st[k + 1 - 1]) /\ t[k] = st[k + 1] /\ t[k - 1] = st[k - 1 + 1]
    BY <1>1, <2>1 DEF Links
  <2>3. QED
    BY <2>1, <2>2
<1>4. Links(t)
  BY <1>1, <1>2, <1>3 DEF Links
<1>5. QED
  BY <1>4 DEF t

LEMMA LinksNone == Links(<< >>)
<1>1. Len(<< >>) = 0
  OBVIOUS
<1>2. QED
  BY <1>1 DEF Links

\* A new call.
LEMMA FrameFacts ==
  ASSUME NEW d \in DOMAIN Dies, NEW name \in Names
  PROVE  LET c == Frame(d, name)
         IN  c \in Frames /\ c.die = d /\ c.symbol = name /\ c.phase = "members" /\ c.next = 1
BY DEF Frame, Frames

\* The call in progress.
LEMMA TopLinks ==
  ASSUME TInv, stack # << >>
  PROVE  /\ Top \in Frames /\ Top.die \in DOMAIN Dies /\ Top.symbol \in Names
         /\ Known(Top) /\ Top = stack[1] /\ stack \in Seq(Frames) /\ Len(stack) \in Nat \ {0}
         /\ Top.symbol \in DOMAIN symbols /\ Members = Dies[Top.die].members
         /\ Fields = symbols[Top.symbol].fields /\ IsSeq(Fields) /\ FieldsOK(Fields, Types)
         /\ Len(Fields) \in Nat /\ DOMAIN Fields = 1 .. Len(Fields)
         /\ Top.next \in Nat \ {0}
<1>1. IInv
  BY DEF TInv, MInv
<1>2. /\ CallOK(Top, symbols) /\ Top = stack[1]
      /\ IsSeq(Fields) /\ Fields = symbols[Top.symbol].fields
      /\ Top.symbol \in DOMAIN symbols
  BY <1>1, TopFacts
<1>3. stack \in Seq(Frames) /\ Len(stack) \in Nat \ {0}
  BY <1>1 DEF IInv, StackOK
<1>4. Top \in Frames
  BY <1>2 DEF CallOK
<1>5. Top.die \in DOMAIN Dies /\ Top.symbol \in Names /\ Top.next \in Nat \ {0}
  BY <1>4 DEF Frames
<1>6. Known(Top)
  BY <1>2, <1>3 DEF TInv, Links
<1>7. FieldsOK(Fields, Types)
  BY <1>2 DEF TInv, TableOK
<1>8. QED
  BY <1>2, <1>3, <1>4, <1>5, <1>6, <1>7, LenOfSeq DEF Members

-----------------------------------------------------------------------------
(* Every action keeps the types.                                           *)

\* Types that a field may have stay so.
LEMMA TypesGrow ==
  ASSUME TInv, DOMAIN symbols \subseteq DOMAIN symbols', read \subseteq read',
         ReadOK(read', symbols'),
         errors' = errors \/ errors' = errors + 1
  PROVE  Types \subseteq Types' /\ Types' \subseteq DOMAIN symbols'
<1>1. errors \in Nat
  BY BoundsAssumption DEF TInv
<1>2. \A r \in read : r[2] \in DOMAIN symbols
  BY DEF TInv, ReadOK
<1>3. \A r \in read' : r[2] \in DOMAIN symbols'
  BY DEF ReadOK
<1>4. QED
  BY <1>1, <1>2, <1>3 DEF Types

\* Until a reading is complete, no new one is known.
LEMMA ReadStays ==
  ASSUME TInv, DOMAIN symbols \subseteq DOMAIN symbols'
  PROVE  ReadOK(read, symbols')
BY DEF TInv, ReadOK

LEMMA GrowsDomain ==
  ASSUME Good
  PROVE  DOMAIN symbols \subseteq DOMAIN symbols' /\ IsTable(symbols')
         /\ stack' \in Seq(Frames)
BY DEF Good, Grows, IInv, StackOK

\* A step that adds a symbol at most.
LEMMA AddSymbolTInv ==
  ASSUME TInv, NEW name \in Names \cup {""}, NEW size, SizeKnown(name, size),
         AddSymbol(name, size), Good, errors' = errors, read' = read
  PROVE  TableOK(symbols', Types') /\ ReadOK(read', symbols') /\ Types \subseteq Types'
<1>1. ReadOK(read', symbols')
  BY ReadStays, GrowsDomain
<1>2. Types \subseteq Types'
  BY <1>1, TypesGrow, GrowsDomain
<1>3. TableOK(symbols', Types)
  BY AddSymbolOK DEF TInv
<1>4. QED
  BY <1>1, <1>2, <1>3, MoreTypes

\* The head of a new stack.
LEMMA TopAfterGoto ==
  ASSUME TInv, stack # << >>, NEW c \in Frames, Goto(c)
  PROVE  Top' = c /\ stack' # << >>
<1>1. stack \in Seq(Frames)
  BY TopLinks
<1>2. QED
  BY <1>1, Replaced DEF Goto, Top

LEMMA VisitStructTInv == ASSUME TInv, NEW d \in DOMAIN Dies, VisitStruct(d) PROVE TInv'
<1>1. MInv' /\ Good
  BY VisitStructStores, VisitStructGood DEF TInv, MInv
<1>2. /\ stack = << >> /\ paddings' = paddings /\ read' = read /\ errors' = errors
      /\ todo' \subseteq todo
  BY DEF VisitStruct
<1>3. CASE Dies[d].name = ""
  <2>1. symbols' = symbols /\ stack' = << >>
    BY <1>2, <1>3 DEF VisitStruct
  <2>2. Types' = Types
    BY <1>2, <2>1 DEF Types
  <2>3. QED
    BY <1>1, <1>2, <2>1, <2>2, LinksNone DEF TInv
<1>4. CASE Dies[d].name # ""
  <2>1. PICK size \in SizesRead(d) : AddSymbol(Dies[d].name, size)
    BY <1>4 DEF VisitStruct
  <2> DEFINE c == Frame(d, Dies[d].name)
  <2>2. stack' = << c >>
    BY <1>4 DEF VisitStruct
  <2>3. Dies[d].name \in Names /\ Dies[d].name \in NamesOf(d)
    BY <1>4, NameFacts, NamesFacts
  <2>4. SizeKnown(Dies[d].name, size)
    BY <2>3, SizeFacts DEF SizeKnown, DiesOf
  <2>5. TableOK(symbols', Types') /\ ReadOK(read', symbols')
    BY <1>1, <1>2, <2>1, <2>3, <2>4, AddSymbolTInv
  <2>6. c \in Frames /\ Known(c) /\ c.phase = "members"
    BY <2>3, FrameFacts DEF Known
  <2> HIDE DEF c
  <2>7. Links(stack') /\ Top' = c
    <3>1. Links(<< c >>)
      BY <2>6 DEF Links
    <3>2. QED
      BY <2>2, <3>1 DEF Top
  <2>8. QED
    BY <1>1, <1>2, <2>5, <2>6, <2>7 DEF TInv
<1>5. QED
  BY <1>3, <1>4

LEMMA VisitTypedefTInv ==
  ASSUME TInv, NEW t \in todo, VisitTypedef(t[1], t[2]) PROVE TInv'
<1> DEFINE d == t[1]
           via == t[2]
<1>1. MInv' /\ Good
  BY VisitTypedefStores, VisitTypedefGood DEF TInv, MInv
<1>2. /\ stack = << >> /\ paddings' = paddings /\ read' = read /\ errors' = errors
      /\ todo' \subseteq todo /\ via # ""
  BY DEF VisitTypedef
<1>3. d \in DOMAIN Dies /\ via \in Dies[d].typedefs /\ via \in Names
  <2>1. d \in DOMAIN Dies /\ via \in {""} \cup Dies[d].typedefs
    BY DEF TInv, MInv, IInv, TodoOK
  <2>2. QED
    BY <1>2, <2>1, NameFacts
<1>4. CASE Dies[d].byte_size = Absent
  <2>1. AddSymbol("", 0) /\ stack' = << >>
    BY <1>2, <1>4 DEF VisitTypedef
  <2>2. SizeKnown("", 0)
    BY BoundsAssumption DEF SizeKnown
  <2>3. TableOK(symbols', Types') /\ ReadOK(read', symbols')
    BY <1>1, <1>2, <2>1, <2>2, AddSymbolTInv
  <2>4. QED
    BY <1>1, <1>2, <2>1, <2>3, LinksNone DEF TInv
<1>5. CASE Dies[d].byte_size # Absent
  <2> DEFINE name == SymbolName(d, via)
             c == Frame(d, name)
  <2>1. AddSymbol(name, Dies[d].byte_size) /\ stack' = << c >>
    BY <1>5 DEF VisitTypedef
  <2>2. name \in Names /\ name \in NamesOf(d)
    BY <1>3, NameFacts, NamesFacts DEF SymbolName
  <2>3. SizeKnown(name, Dies[d].byte_size)
    BY <1>3, <1>5, <2>2, SizePresent DEF SizeKnown, DiesOf
  <2> HIDE DEF name
  <2>4. TableOK(symbols', Types') /\ ReadOK(read', symbols')
    BY <1>1, <1>2, <2>1, <2>2, <2>3, AddSymbolTInv
  <2>5. c \in Frames /\ Known(c) /\ c.phase = "members"
    BY <1>3, <2>2, FrameFacts DEF Known
  <2> HIDE DEF c
  <2>6. Links(stack') /\ Top' = c
    <3>1. Links(<< c >>)
      BY <2>5 DEF Links
    <3>2. QED
      BY <2>1, <3>1 DEF Top
  <2>7. QED
    BY <1>1, <1>2, <2>4, <2>5, <2>6 DEF TInv
<1>6. QED
  BY <1>4, <1>5

\* A step of the innermost call that leaves the symbols alone.
LEMMA GotoTInv ==
  ASSUME TInv, MInv', stack # << >>, NEW c \in Frames, Goto(c),
         c.die = Top.die, c.symbol = Top.symbol,
         UNCHANGED << symbols, paddings, todo >>,
         ReadOK(read', symbols'), read \subseteq read',
         errors' = errors \/ (errors' = errors + 1 /\ errors < MaxErrors),
         c.phase = "done" => Top.symbol \in Types'
  PROVE  TInv'
<1>1. Types \subseteq Types'
  BY TypesGrow
<1>2. TableOK(symbols', Types')
  BY <1>1, MoreTypes DEF TInv
<1>3. Links(stack')
  BY TopLinks, LinksReplaced DEF TInv, Goto
<1>4. errors' \in 0 .. MaxErrors
  BY BoundsAssumption DEF TInv
<1>5. Top' = c
  BY TopAfterGoto
<1>6. QED
  BY <1>2, <1>3, <1>4, <1>5 DEF TInv

LEMMA NextFacts ==
  ASSUME TInv, AtMember
  PROVE  /\ NextMember \in Frames /\ NextMember.die = Top.die
         /\ NextMember.symbol = Top.symbol /\ NextMember.phase = "members"
         /\ Top.next \in 1 .. Len(Dies[Top.die].members)
         /\ Members[Top.next] = Dies[Top.die].members[Top.next]
<1>1. stack # << >> /\ Top.phase = "members" /\ Top.next <= Len(Members)
  BY DEF AtMember
<1>2. Top \in Frames /\ Top.next \in Nat \ {0} /\ Members = Dies[Top.die].members
      /\ Top.die \in DOMAIN Dies
  BY <1>1, TopLinks
<1>3. NextMember = [Top EXCEPT !.next = Top.next + 1]
  BY DEF NextMember
<1>4. /\ NextMember \in Frames /\ NextMember.die = Top.die
      /\ NextMember.symbol = Top.symbol /\ NextMember.phase = "members"
  BY <1>1, <1>2, <1>3 DEF Frames
<1>5. Top.next \in 1 .. Len(Dies[Top.die].members)
  BY <1>1, <1>2, DieFacts
<1>6. QED
  BY <1>2, <1>4, <1>5

\* A symbol has the size of some struct.
LEMMA SizeOfSymbol ==
  ASSUME TInv, NEW n \in DOMAIN symbols
  PROVE  symbols[n].byte_size \in Nat
<1>1. SizeKnown(n, symbols[n].byte_size)
  BY DEF TInv, TableOK
<1> DEFINE size == symbols[n].byte_size
<1>2. size \in 0 .. Modulus - 1
  BY <1>1 DEF SizeKnown
<1> HIDE DEF size
<1>3. size \in Nat
  BY <1>2, BoundsAssumption
<1>4. QED
  BY <1>3 DEF size

LEMMA SkipMemberTInv == ASSUME TInv, SkipMember PROVE TInv'
<1>1. MInv'
  BY SkipMemberStores DEF TInv
<1>2. /\ AtMember /\ stack # << >> /\ Goto(NextMember)
      /\ UNCHANGED << symbols, paddings, todo, read, errors >>
  BY DEF SkipMember, AtMember
<1>3. ReadOK(read', symbols')
  BY <1>2 DEF TInv
<1>4. QED
  BY <1>1, <1>2, <1>3, NextFacts, GotoTInv

\* The field of a member whose type has its symbol.
LEMMA NewFieldOK ==
  ASSUME NEW m, IsMember(m), HasPlace(m), NEW S, NEW type \in Markers \cup S, NEW size \in Nat
  PROVE  FieldOK(NewField(m, type, size), S)
<1>1. m.location \in Nat /\ m.bit_size \in Nat /\ BitOffset(m) \in Nat /\ IsDims(m.dims)
  BY DEF IsMember, HasPlace, BitOffset, IsDims
<1>2. m.location % Modulus \in Nat
  BY <1>1, BoundsAssumption
<1>3. QED
  BY <1>1, <1>2 DEF FieldOK, NewField

\* The symbol of the innermost call gets other fields.
LEMMA SetFieldsTInv ==
  ASSUME TInv, stack # << >>, NEW fs, FieldsOK(fs, Types), SetFields(fs),
         NEW rs, read \subseteq rs, read' = rs, ReadOK(rs, symbols), errors' = errors
  PROVE  /\ TableOK(symbols', Types') /\ ReadOK(read', symbols') /\ Types \subseteq Types'
         /\ DOMAIN symbols' = DOMAIN symbols /\ symbols'[Top.symbol].fields = fs
<1>1. Top.symbol \in DOMAIN symbols /\ IsTable(symbols)
  BY TopLinks DEF TInv, MInv, IInv
<1>2. /\ TableOK(symbols', Types) /\ DOMAIN symbols' = DOMAIN symbols
      /\ symbols'[Top.symbol].fields = fs
  <2> DEFINE U == [symbols EXCEPT ![Top.symbol].fields = fs]
  <2>1. TableOK(symbols, Types)
    BY DEF TInv
  <2>2. TableOK(U, Types) /\ DOMAIN U = DOMAIN symbols /\ U[Top.symbol].fields = fs
    BY <1>1, <2>1, FieldsTableOK
  <2>3. symbols' = U
    BY DEF SetFields
  <2> HIDE DEF U
  <2>4. QED
    BY <2>2, <2>3
<1>3. ReadOK(read', symbols')
  BY <1>2 DEF ReadOK
<1>4. Types \subseteq Types'
  BY <1>2, <1>3, TypesGrow
<1>5. QED
  BY <1>2, <1>3, <1>4, MoreTypes

LEMMA ReadMemberTInv == ASSUME TInv, ReadMember PROVE TInv'
<1> DEFINE m == Members[Top.next]
           fs == AddField(Fields, NewField(m, "leaf", m.size))
<1>1. MInv'
  BY ReadMemberStores DEF TInv
<1>2. /\ AtMember /\ stack # << >> /\ Readable(m) /\ SetFields(fs) /\ Goto(NextMember)
      /\ UNCHANGED << paddings, todo, read, errors >>
  BY DEF ReadMember, AtMember
<1>3. /\ NextMember \in Frames /\ NextMember.die = Top.die
      /\ NextMember.symbol = Top.symbol /\ NextMember.phase = "members"
  BY <1>2, NextFacts
<1>4. IsMember(m)
  BY <1>2, NextFacts, TopLinks, MemberFacts
<1>5. FieldOK(NewField(m, "leaf", m.size), Types)
  <2>1. m.size \in Nat /\ "leaf" \in Markers \cup Types
    BY <1>4 DEF IsMember, Markers
  <2>2. QED
    BY <1>2, <1>4, <2>1, NewFieldOK DEF Readable
<1>6. FieldsOK(fs, Types)
  BY <1>2, <1>5, TopLinks, AddFieldsOK
<1> HIDE DEF fs
<1>7. ReadOK(read, symbols)
  BY DEF TInv
<1>8. TableOK(symbols', Types') /\ ReadOK(read', symbols')
  BY <1>2, <1>6, <1>7, SetFieldsTInv
<1>9. Links(stack') /\ Top' = NextMember
  BY <1>2, <1>3, TopLinks, LinksReplaced, TopAfterGoto DEF TInv, Goto
<1>10. QED
  BY <1>1, <1>2, <1>3, <1>8, <1>9 DEF TInv

LEMMA EnterStructTInv == ASSUME TInv, EnterStruct PROVE TInv'
<1> DEFINE m == Members[Top.next]
           d == m.type
           name == SymbolName(d, IF m.alias # "" THEN m.alias ELSE m.name)
           c == Frame(d, name)
<1>1. MInv' /\ Good
  BY EnterStructStores, EnterStructGood DEF TInv, MInv
<1>2. /\ AtMember /\ stack # << >> /\ IsOfStruct(m)
      /\ AddSymbol(name, Dies[d].byte_size) /\ stack' = << c >> \o stack
      /\ UNCHANGED << paddings, todo, read, errors >>
  BY DEF EnterStruct, AtMember
<1>3. /\ Top.die \in DOMAIN Dies /\ Top.next \in 1 .. Len(Dies[Top.die].members)
      /\ m = Dies[Top.die].members[Top.next] /\ Top = stack[1] /\ stack \in Seq(Frames)
  BY <1>2, NextFacts, TopLinks
<1> HIDE DEF m
<1>4. /\ IsMember(m) /\ m \in Range(Dies[Top.die].members)
      /\ d \in DOMAIN Dies => Dies[d].byte_size # Absent
  BY <1>3, MemberFacts
<1>5. d \in DOMAIN Dies /\ m.name \in Names /\ m.alias \in Names \cup {""}
  BY <1>2, <1>4 DEF IsOfStruct, HasPlace, IsMember
<1>6. name \in NamesOf(d)
  BY <1>3, <1>4, <1>5, NamesFacts
<1>7. name \in Names
  <2>1. (IF m.alias # "" THEN m.alias ELSE m.name) \in Names
    BY <1>5
  <2>2. QED
    BY <1>5, <2>1, NameFacts DEF SymbolName
<1>8. SizeKnown(name, Dies[d].byte_size)
  BY <1>4, <1>5, <1>6, SizePresent DEF SizeKnown, DiesOf
<1>9. TableOK(symbols', Types') /\ ReadOK(read', symbols')
  <2> DEFINE size == Dies[d].byte_size
  <2>1. /\ SizeKnown(name, size) /\ AddSymbol(name, size) /\ name \in Names \cup {""}
        /\ errors' = errors /\ read' = read
    BY <1>2, <1>7, <1>8
  <2> HIDE DEF name, size
  <2>2. QED
    BY <1>1, <2>1, AddSymbolTInv
<1> HIDE DEF name
<1> HIDE DEF d
<1>14. /\ c \in Frames /\ c.die = d /\ c.symbol = name /\ c.phase = "members"
  BY <1>5, <1>7, FrameFacts
<1> HIDE DEF c
<1>10. c \in Frames /\ Known(c) /\ c.phase = "members" /\ c.die = d
  BY <1>6, <1>14 DEF Known
<1> USE DEF d
<1>11. Waits(stack[1], c)
  BY <1>2, <1>3, <1>10 DEF Waits
<1>12. Links(stack') /\ Top' = c
  BY <1>2, <1>3, <1>10, <1>11, LinksPushed, Pushed DEF TInv, Top
<1>13. QED
  BY <1>1, <1>2, <1>9, <1>10, <1>12 DEF TInv

LEMMA LastMemberTInv == ASSUME TInv, LastMember PROVE TInv'
<1> DEFINE n == IF HasBitFields(Fields) THEN 0 ELSE Len(Fields)
           c == [Top EXCEPT !.phase = "gaps", !.i = 2, !.count = n]
<1>1. MInv'
  BY LastMemberStores DEF TInv
<1>2. stack # << >> /\ Goto(c) /\ UNCHANGED << symbols, paddings, todo, read, errors >>
  BY DEF LastMember
<1>3. Top \in Frames /\ n \in Nat
  BY <1>2, TopLinks
<1> HIDE DEF n
<1>4. c \in Frames /\ c.die = Top.die /\ c.symbol = Top.symbol /\ c.phase = "gaps"
  BY <1>3 DEF Frames
<1> HIDE DEF c
<1>5. ReadOK(read', symbols')
  BY <1>2 DEF TInv
<1>6. QED
  BY <1>1, <1>2, <1>4, <1>5, GotoTInv

LEMMA SiblingErrorTInv == ASSUME TInv, SiblingError PROVE TInv'
<1> DEFINE c == [Top EXCEPT !.phase = "done"]
<1>1. MInv'
  BY SiblingErrorStores DEF TInv
<1>2. /\ stack # << >> /\ Goto(c) /\ UNCHANGED << symbols, paddings, todo, read >>
      /\ errors' = errors + 1 /\ errors < MaxErrors
  BY DEF SiblingError
<1>3. c \in Frames /\ c.die = Top.die /\ c.symbol = Top.symbol
  BY <1>2, TopLinks, DoneFrame
<1> HIDE DEF c
<1>4. ReadOK(read', symbols')
  BY <1>2 DEF TInv
<1>5. Top.symbol \in Types'
  <2>1. errors' # 0 /\ Top.symbol \in DOMAIN symbols'
    BY <1>2, TopLinks, BoundsAssumption DEF TInv
  <2>2. QED
    BY <2>1 DEF Types
<1>6. QED
  BY <1>1, <1>2, <1>3, <1>4, <1>5, GotoTInv

\* A reading that is complete.
LEMMA ReadingKnown ==
  ASSUME TInv, stack # << >>
  PROVE  ReadOK(read \cup {<< Top.die, Top.symbol >>}, symbols)
<1>1. /\ Top.die \in DOMAIN Dies /\ Top.symbol \in DOMAIN symbols
      /\ Top.symbol \in NamesOf(Top.die)
  BY TopLinks DEF Known
<1>2. << Top.die, Top.symbol >>[2] = Top.symbol /\ << Top.die, Top.symbol >>[1] = Top.die
  OBVIOUS
<1>3. QED
  BY <1>1, <1>2 DEF TInv, ReadOK

LEMMA DoneKnown ==
  ASSUME TInv, stack # << >>, read' = read \cup {<< Top.die, Top.symbol >>},
         DOMAIN symbols' = DOMAIN symbols, errors' = errors
  PROVE  Top.symbol \in Types'
<1>1. << Top.die, Top.symbol >> \in read' /\ << Top.die, Top.symbol >>[2] = Top.symbol
  OBVIOUS
<1>2. Top.symbol \in DOMAIN symbols'
  BY TopLinks
<1>3. QED
  BY <1>1, <1>2 DEF Types

LEMMA NoMembersTInv == ASSUME TInv, NoMembers PROVE TInv'
<1> DEFINE c == [Top EXCEPT !.phase = "done"]
<1>1. MInv'
  BY NoMembersStores DEF TInv
<1>2. /\ stack # << >> /\ Goto(c) /\ UNCHANGED << symbols, paddings, todo, errors >>
      /\ read' = read \cup {<< Top.die, Top.symbol >>}
  BY DEF NoMembers
<1>3. c \in Frames /\ c.die = Top.die /\ c.symbol = Top.symbol
  BY <1>2, TopLinks, DoneFrame
<1> HIDE DEF c
<1>4. ReadOK(read', symbols') /\ Top.symbol \in Types'
  BY <1>2, ReadingKnown, DoneKnown
<1>5. QED
  BY <1>1, <1>2, <1>3, <1>4, GotoTInv

\* The extent of a field, as the padding loop computes it.
LEMMA ExtentFacts ==
  ASSUME NEW f, NEW S, FieldOK(f, S)
  PROVE  ArraySize(f) \in Nat /\ Extent(f) \in Nat
<1>1. f.size \in Nat /\ Wrapped(f.dims) \in Nat
  BY DimsFacts DEF FieldOK
<1>2. ArraySize(f) = IF IsArray(f) THEN Wrapped(f.dims) ELSE 0
  BY DEF ArraySize, Wrapped
<1>3. ArraySize(f) \in Nat
  BY <1>1, <1>2
<1>4. Times(ArraySize(f), f.size) \in Nat
  <2> DEFINE a == ArraySize(f)
             b == f.size
  <2>1. a \in Int /\ b \in Int
    BY <1>1, <1>3
  <2> HIDE DEF a, b
  <2>2. Times(a, b) \in 0 .. Modulus - 1
    BY <2>1, TimesInRange
  <2>3. QED
    BY <2>2, BoundsAssumption DEF a, b
<1>5. QED
  BY <1>1, <1>3, <1>4 DEF Extent

\* A padding type keeps its size; a new one has the size of the gap.
LEMMA PaddingFacts ==
  ASSUME PaddingsOK(paddings), NEW size \in 1 .. Modulus - 1, AddPaddingType(size)
  PROVE  PaddingsOK(paddings') /\ PaddingSize(size) \in 1 .. Modulus - 1
BY DEF PaddingsOK, AddPaddingType, PaddingSize

LEMMA SpareFieldOK ==
  ASSUME NEW name, NEW offset \in Nat, NEW size \in 1 .. Modulus - 1, NEW S
  PROVE  FieldOK(SpareField(name, offset, size), S)
<1>1. size \in Nat /\ IsDims(<< >>) /\ "padding" \in Markers
  BY BoundsAssumption DEF IsDims, Markers
<1>2. QED
  BY <1>1 DEF SpareField, FieldOK

\* Either the field before the gap ends in front of the next, or nothing
\* happens but that the loop goes on.
LEMMA PadGapTInv == ASSUME TInv, PadGap PROVE TInv'
<1> DEFINE previous == Fields[Top.i - 1]
           delta == Minus(Fields[Top.i].offset, previous.offset)
           gap == Minus(delta, Extent(previous))
<1>1. MInv'
  BY PadGapStores DEF TInv
<1>2. /\ stack # << >> /\ Top.phase = "gaps" /\ Top.i <= Top.count
      /\ UNCHANGED << todo, read, errors >>
  BY DEF PadGap, AtGap
<1>3. /\ Top \in Frames /\ FieldsOK(Fields, Types) /\ IsSeq(Fields)
      /\ DOMAIN Fields = 1 .. Len(Fields) /\ Len(Fields) \in Nat
  BY <1>2, TopLinks
<1>4. Top.i \in 2 .. Len(Fields)
  <2>1. CallOK(Top, symbols) /\ Fields = symbols[Top.symbol].fields
    BY <1>2, TopFacts DEF TInv, MInv
  <2>2. Top.i \in Nat /\ Top.i >= 2 /\ Top.count \in {0, Len(Fields)}
    BY <1>2, <1>3, <2>1 DEF CallOK
  <2>3. QED
    BY <1>2, <1>3, <2>2
<1>5. FieldOK(Fields[Top.i], Types) /\ FieldOK(previous, Types)
  BY <1>3, <1>4 DEF FieldsOK
<1>6. /\ previous.offset \in Nat /\ Extent(previous) \in Nat /\ Fields[Top.i].offset \in Nat
  BY <1>5, ExtentFacts DEF FieldOK
<1>7. delta \in 0 .. Modulus - 1
  <2> DEFINE a == Fields[Top.i].offset
             b == previous.offset
  <2>1. a \in Int /\ b \in Int
    BY <1>6
  <2> HIDE DEF a, b
  <2>2. Minus(a, b) \in 0 .. Modulus - 1
    BY <2>1, MinusInRange
  <2>3. QED
    BY <2>2 DEF a, b
<1> HIDE DEF previous, delta
<1>8. ReadOK(read, symbols) /\ PaddingsOK(paddings)
  BY DEF TInv
<1>9. CASE delta > Extent(previous)
  <2> DEFINE f == SpareField(Spare(Top.spares), Plus(previous.offset, Extent(previous)), PaddingSize(gap))
             fs == InsertField(Fields, Top.i, f)
             c == [Top EXCEPT !.i = @ + 2, !.count = @ + 1, !.spares = @ + 1]
  <2>1. AddPaddingType(gap) /\ SetFields(fs) /\ Goto(c)
    BY <1>2, <1>9 DEF PadGap, previous, delta
  <2>2. gap \in 1 .. Modulus - 1
    BY <1>6, <1>7, <1>9, BoundsAssumption, Small DEF Minus
  <2> HIDE DEF gap
  <2>3. PaddingsOK(paddings') /\ PaddingSize(gap) \in 1 .. Modulus - 1
    BY <1>8, <2>1, <2>2, PaddingFacts
  <2>4. Plus(previous.offset, Extent(previous)) \in Nat
    <3> DEFINE a == previous.offset
               b == Extent(previous)
    <3>1. a \in Int /\ b \in Int
      BY <1>6
    <3> HIDE DEF a, b
    <3>2. Plus(a, b) \in Nat
      BY <3>1, PlusInRange, BoundsAssumption
    <3>3. QED
      BY <3>2 DEF a, b
  <2>5. FieldOK(f, Types)
    BY <2>3, <2>4, SpareFieldOK
  <2> HIDE DEF f
  <2>6. FieldsOK(fs, Types)
    <3>1. Top.i \in 1 .. Len(Fields) + 1
      BY <1>3, <1>4
    <3>2. QED
      BY <1>3, <2>5, <3>1, InsertFieldsOK
  <2> HIDE DEF fs
  <2>7. TableOK(symbols', Types') /\ ReadOK(read', symbols')
    BY <1>2, <1>8, <2>1, <2>6, SetFieldsTInv
  <2>8. /\ c \in Frames /\ c.die = Top.die /\ c.symbol = Top.symbol /\ c.phase = "gaps"
    BY <1>2, <1>3, MovedFrame
  <2> HIDE DEF c
  <2>9. Links(stack') /\ Top' = c
    BY <1>2, <2>1, <2>8, TopLinks, LinksReplaced, TopAfterGoto DEF TInv, Goto
  <2>10. QED
    BY <1>1, <1>2, <2>3, <2>7, <2>8, <2>9 DEF TInv
<1>10. CASE ~(delta > Extent(previous))
  <2> DEFINE c == [Top EXCEPT !.i = @ + 1]
  <2>1. Goto(c) /\ UNCHANGED << symbols, paddings >>
    BY <1>2, <1>10 DEF PadGap, previous, delta
  <2>2. /\ c \in Frames /\ c.die = Top.die /\ c.symbol = Top.symbol /\ c.phase = "gaps"
    BY <1>2, <1>3 DEF Frames
  <2> HIDE DEF c
  <2>3. QED
    BY <1>1, <1>2, <1>8, <2>1, <2>2, GotoTInv
<1>11. QED
  BY <1>9, <1>10

LEMMA PadEndTInv == ASSUME TInv, PadEnd PROVE TInv'
<1> DEFINE c == [Top EXCEPT !.phase = "done"]
           rs == read \cup {<< Top.die, Top.symbol >>}
<1>1. MInv'
  BY PadEndStores DEF TInv
<1>2. /\ stack # << >> /\ Goto(c) /\ read' = rs /\ UNCHANGED << todo, errors >>
  BY DEF PadEnd
<1>3. c \in Frames /\ c.die = Top.die /\ c.symbol = Top.symbol
  BY <1>2, TopLinks, DoneFrame
<1> HIDE DEF c
<1>4. ReadOK(rs, symbols) /\ PaddingsOK(paddings) /\ read \subseteq rs
  BY <1>2, ReadingKnown DEF TInv
<1>5. CASE UNCHANGED << symbols, paddings >>
  <2>1. ReadOK(read', symbols')
    BY <1>2, <1>4, <1>5
  <2>2. Top.symbol \in Types'
    BY <1>2, <1>5, DoneKnown
  <2>3. QED
    BY <1>1, <1>2, <1>3, <1>4, <1>5, <2>1, <2>2, GotoTInv
<1>6. CASE ~(UNCHANGED << symbols, paddings >>)
  <2> DEFINE back == Last(Fields)
             size == IF ArraySize(back) > 0 THEN Times(back.size, ArraySize(back)) ELSE back.size
             delta == Minus(symbols[Top.symbol].byte_size, Plus(back.offset, size))
             f == SpareField("_spare_end", Plus(back.offset, back.size), PaddingSize(delta))
             fs == AddField(Fields, f)
  <2>1. Fields # << >> /\ delta > 0 /\ AddPaddingType(delta) /\ SetFields(fs)
    BY <1>6 DEF PadEnd
  <2>2. FieldsOK(Fields, Types) /\ IsSeq(Fields) /\ DOMAIN Fields = 1 .. Len(Fields)
        /\ Len(Fields) \in Nat
    BY <1>2, TopLinks
  <2>3. FieldOK(back, Types)
    <3>1. Len(Fields) \in 1 .. Len(Fields)
      BY <2>1, <2>2 DEF IsSeq
    <3>2. QED
      BY <2>2, <3>1 DEF FieldsOK, Last
  <2> HIDE DEF back
  <2>4. back.offset \in Nat /\ back.size \in Nat /\ ArraySize(back) \in Nat
    BY <2>3, ExtentFacts DEF FieldOK
  <2>5. size \in Int
    <3> DEFINE a == back.size
               b == ArraySize(back)
    <3>1. a \in Int /\ b \in Int
      BY <2>4
    <3> HIDE DEF a, b
    <3>2. Times(a, b) \in Int
      BY <3>1, TimesInRange
    <3>3. QED
      BY <2>4, <3>2 DEF a, b
  <2> HIDE DEF size
  <2>6. symbols[Top.symbol].byte_size \in Int
    BY <1>2, TopLinks, SizeOfSymbol
  <2>7. delta \in 1 .. Modulus - 1
    <3> DEFINE a == symbols[Top.symbol].byte_size
               b == Plus(back.offset, size)
               o == back.offset
    <3>1. a \in Int /\ o \in Int
      BY <2>4, <2>6
    <3> HIDE DEF a, o
    <3>2. Plus(o, size) \in Int
      BY <2>5, <3>1, PlusInRange
    <3>3. b \in Int
      BY <3>2 DEF o
    <3> HIDE DEF b
    <3>4. Minus(a, b) \in 0 .. Modulus - 1
      BY <3>1, <3>3, MinusInRange
    <3>5. delta \in 0 .. Modulus - 1
      BY <3>4 DEF a, b
    <3>6. QED
      BY <2>1, <3>5, BoundsAssumption
  <2>8. Plus(back.offset, back.size) \in Nat
    <3> DEFINE a == back.offset
               b == back.size
    <3>1. a \in Int /\ b \in Int
      BY <2>4
    <3> HIDE DEF a, b
    <3>2. Plus(a, b) \in Nat
      BY <3>1, PlusInRange, BoundsAssumption
    <3>3. QED
      BY <3>2 DEF a, b
  <2> HIDE DEF delta
  <2>9. PaddingsOK(paddings') /\ PaddingSize(delta) \in 1 .. Modulus - 1
    BY <1>4, <2>1, <2>7, PaddingFacts
  <2>10. FieldOK(f, Types)
    BY <2>8, <2>9, SpareFieldOK
  <2> HIDE DEF f
  <2>11. FieldsOK(fs, Types)
    BY <2>2, <2>10, AddFieldsOK
  <2> HIDE DEF fs
  <2>12. TableOK(symbols', Types') /\ ReadOK(read', symbols') /\ DOMAIN symbols' = DOMAIN symbols
    BY <1>2, <1>4, <2>1, <2>11, SetFieldsTInv
  <2>13. Top.symbol \in Types'
    BY <1>2, <2>12, DoneKnown
  <2>14. Links(stack') /\ Top' = c
    BY <1>2, <1>3, TopLinks, LinksReplaced, TopAfterGoto DEF TInv, Goto
  <2>15. QED
    BY <1>1, <1>2, <1>3, <2>9, <2>12, <2>13, <2>14 DEF TInv
<1>7. QED
  BY <1>5, <1>6

\* What a call returns to.
LEMMA CallerFacts ==
  ASSUME TInv, stack # << >>, Len(stack) # 1
  PROVE  LET caller == stack[2]
             m == Dies[caller.die].members[caller.next]
             c == [caller EXCEPT !.next = @ + 1]
         IN  /\ caller \in Frames /\ caller.die \in DOMAIN Dies
             /\ caller.symbol \in DOMAIN symbols /\ caller.phase = "members"
             /\ caller.next \in 1 .. Len(Dies[caller.die].members)
             /\ IsSeq(symbols[caller.symbol].fields)
             /\ FieldsOK(symbols[caller.symbol].fields, Types)
             /\ IsOfStruct(m) /\ m.type = Top.die /\ IsMember(m)
             /\ c \in Frames /\ c.die = caller.die /\ c.symbol = caller.symbol
             /\ c.phase = "members" /\ c.next = caller.next + 1
             /\ Known(caller)
<1>1. /\ stack \in Seq(Frames) /\ Len(stack) \in Nat \ {0} /\ Top = stack[1]
  BY TopLinks
<1>2. 2 \in 2 .. Len(stack) /\ 2 \in 1 .. Len(stack)
  BY <1>1, Second
<1> DEFINE caller == stack[2]
           c == [caller EXCEPT !.next = @ + 1]
<1>3. WaitOK(caller, symbols)
  BY <1>2 DEF TInv, MInv, IInv, StackOK
<1>4. Waits(caller, Top)
  BY <1>1, <1>2 DEF TInv, Links
<1>5. Known(caller)
  BY <1>1, <1>2 DEF TInv, Links
<1> HIDE DEF caller
<1>6. /\ caller \in Frames /\ caller.symbol \in DOMAIN symbols /\ caller.phase = "members"
      /\ caller.next <= Len(Dies[caller.die].members)
  BY <1>3 DEF WaitOK, CallOK
<1>7. caller.die \in DOMAIN Dies /\ caller.next \in Nat \ {0}
  BY <1>6 DEF Frames
<1>8. caller.next \in 1 .. Len(Dies[caller.die].members)
  BY <1>6, <1>7, DieFacts
<1>9. IsSeq(symbols[caller.symbol].fields) /\ FieldsOK(symbols[caller.symbol].fields, Types)
  BY <1>6 DEF TInv, MInv, IInv, IsTable, IsSymbol, TableOK
<1>10. IsMember(Dies[caller.die].members[caller.next])
  BY <1>7, <1>8, MemberFacts
<1>11. /\ c \in Frames /\ c.die = caller.die /\ c.symbol = caller.symbol
       /\ c.phase = "members" /\ c.next = caller.next + 1
  BY <1>6, <1>7 DEF Frames
<1> HIDE DEF c
<1>12. QED
  BY <1>4, <1>5, <1>6, <1>7, <1>8, <1>9, <1>10, <1>11 DEF Waits, caller, c

\* What the caller does with the symbol it gets: of a const member, nothing.
LEMMA MemberAdded ==
  ASSUME TInv, Return, Len(stack) # 1
  PROVE  LET caller == stack[2]
             m == Dies[caller.die].members[caller.next]
             f == NewField(m, Top.symbol, symbols[Top.symbol].byte_size)
             fs == AddField(symbols[caller.symbol].fields, f)
         IN  /\ m.constant => symbols' = symbols
             /\ ~ m.constant => symbols' = [symbols EXCEPT ![caller.symbol].fields = fs]
<1> DEFINE n == stack[2].symbol
           m == Dies[stack[2].die].members[stack[2].next]
           f == NewField(m, Top.symbol, symbols[Top.symbol].byte_size)
<1>1. stack # << >>
  BY DEF Return
<1>2. n \in DOMAIN symbols
  BY <1>1, CallerFacts
<1>3. symbols = [x \in DOMAIN symbols |-> symbols[x]] /\ IsSymbol(symbols[n])
  BY <1>2 DEF TInv, MInv, IInv, IsTable
<1>4. symbols' = [symbols EXCEPT ![n].fields = IF m.constant THEN @ ELSE AddField(@, f)]
  BY DEF Return
<1> HIDE DEF n, m, f
<1>5. [symbols[n] EXCEPT !.fields = @] = symbols[n]
  BY <1>3 DEF IsSymbol
<1>6. CASE m.constant
  BY <1>2, <1>3, <1>4, <1>5, <1>6 DEF n, m, f
<1>7. CASE ~ m.constant
  <2>1. symbols' = [symbols EXCEPT ![n].fields = AddField(symbols[n].fields, f)]
    BY <1>2, <1>3, <1>4, <1>7 DEF IsSymbol
  <2>2. QED
    BY <1>7, <2>1 DEF n, m, f
<1>8. QED
  BY <1>6, <1>7

LEMMA ReturnTInv == ASSUME TInv, Return PROVE TInv'
<1>1. MInv'
  BY ReturnStores DEF TInv
<1>2. /\ stack # << >> /\ Top.phase = "done" /\ UNCHANGED << paddings, todo, read, errors >>
  BY DEF Return
<1>3. CASE Len(stack) = 1
  <2>1. stack' = << >> /\ symbols' = symbols
    BY <1>3 DEF Return
  <2>2. Types' = Types
    BY <1>2, <2>1 DEF Types
  <2>3. QED
    BY <1>1, <1>2, <2>1, <2>2, LinksNone DEF TInv
<1>4. CASE Len(stack) # 1
  <2> DEFINE caller == stack[2]
             m == Dies[caller.die].members[caller.next]
             f == NewField(m, Top.symbol, symbols[Top.symbol].byte_size)
             c == [caller EXCEPT !.next = @ + 1]
             n == caller.symbol
             old == symbols[n].fields
             fs == IF m.constant THEN old ELSE AddField(old, f)
  <2>1. /\ stack' = << c >> \o Tail(Tail(stack))
        /\ symbols' = [symbols EXCEPT ![n].fields = fs]
    BY <1>4 DEF Return
  <2>2. /\ n \in DOMAIN symbols /\ IsSeq(symbols[n].fields)
        /\ FieldsOK(symbols[n].fields, Types)
        /\ HasPlace(m) /\ IsMember(m)
        /\ c \in Frames /\ c.die = caller.die /\ c.symbol = caller.symbol
        /\ c.phase = "members"
    BY <1>2, <1>4, CallerFacts DEF IsOfStruct
  <2> HIDE DEF m
  <2>3. FieldOK(f, Types)
    <3>1. Top.symbol \in Types
      BY <1>2 DEF TInv
    <3>2. symbols[Top.symbol].byte_size \in Nat
      BY <1>2, TopLinks, SizeOfSymbol
    <3>3. QED
      BY <2>2, <3>1, <3>2, NewFieldOK
  <2> HIDE DEF f
  <2>4. FieldsOK(fs, Types)
    BY <2>2, <2>3, AddFieldsOK
  <2> HIDE DEF fs
  <2>5. TableOK(symbols', Types) /\ DOMAIN symbols' = DOMAIN symbols
    <3> DEFINE U == [symbols EXCEPT ![n].fields = fs]
    <3>1. TableOK(symbols, Types) /\ IsTable(symbols)
      BY DEF TInv, MInv, IInv
    <3>2. TableOK(U, Types) /\ DOMAIN U = DOMAIN symbols
      <4> HIDE DEF n
      <4>1. QED
        BY <2>2, <2>4, <3>1, FieldsTableOK
    <3>3. symbols' = U
      BY <2>1
    <3> HIDE DEF U
    <3>4. QED
      BY <3>2, <3>3
  <2>6. ReadOK(read', symbols') /\ Types' = Types
    BY <1>2, <2>5 DEF TInv, ReadOK, Types
  <2>7. Links(stack') /\ Top' = c
    <3> DEFINE u == Tail(stack)
    <3>1. /\ u \in Seq(Frames) /\ Len(u) = Len(stack) - 1 /\ Len(stack) \in Nat \ {0}
          /\ \A k \in 1 .. Len(stack) - 1 : u[k] = stack[k + 1]
          /\ Links(u)
      BY <1>2, TopLinks, Popped, LinksPopped DEF TInv
    <3> HIDE DEF u
    <3>2. u # << >> /\ u[1] = stack[2]
      BY <1>4, <3>1
    <3> HIDE DEF c, caller
    <3>3. Links(<< c >> \o Tail(u)) /\ Head(<< c >> \o Tail(u)) = c
      BY <2>2, <3>1, <3>2, LinksReplaced, Replaced DEF caller
    <3>4. QED
      BY <2>1, <3>3 DEF Top, u
  <2>8. QED
    BY <1>1, <1>2, <2>2, <2>5, <2>6, <2>7 DEF TInv
<1>5. QED
  BY <1>3, <1>4

LEMMA InitTInv == Init => TInv
<1> SUFFICES ASSUME Init PROVE TInv
  OBVIOUS
<1>1. stack = << >> /\ symbols = << >> /\ paddings = << >> /\ read = {} /\ errors = 0
      /\ todo = Visits
  BY DEF Init
<1>2. DOMAIN symbols = {} /\ DOMAIN paddings = {}
  <2>1. << >> = [n \in {} |-> << >>[n]] /\ DOMAIN << >> = {}
    OBVIOUS
  <2>2. QED
    BY <1>1, <2>1
<1>3. MInv /\ errors \in 0 .. MaxErrors
  BY <1>1, InitMInv, BoundsAssumption
<1>4. QED
  BY <1>1, <1>2, <1>3, LinksNone DEF TInv, TableOK, PaddingsOK, ReadOK

LEMMA StepTInv == TInv /\ [Next]_vars => TInv'
<1> SUFFICES ASSUME TInv, [Next]_vars PROVE TInv'
  OBVIOUS
<1>1. ASSUME NEW d \in DOMAIN Dies, VisitStruct(d) PROVE TInv'
  BY <1>1, VisitStructTInv
<1>2. ASSUME NEW t \in todo, VisitTypedef(t[1], t[2]) PROVE TInv'
  BY <1>2, VisitTypedefTInv
<1>3. CASE SkipMember
  BY <1>3, SkipMemberTInv
<1>4. CASE ReadMember
  BY <1>4, ReadMemberTInv
<1>5. CASE EnterStruct
  BY <1>5, EnterStructTInv
<1>6. CASE LastMember
  BY <1>6, LastMemberTInv
<1>7. CASE SiblingError
  BY <1>7, SiblingErrorTInv
<1>8. CASE NoMembers
  BY <1>8, NoMembersTInv
<1>9. CASE PadGap
  BY <1>9, PadGapTInv
<1>10. CASE PadEnd
  BY <1>10, PadEndTInv
<1>11. CASE Return
  BY <1>11, ReturnTInv
<1>12. CASE UNCHANGED vars
  <2>1. MInv'
    BY <1>12, StepMInv DEF TInv
  <2>2. UNCHANGED << symbols, paddings, todo, stack, read, errors >>
    BY <1>12 DEF vars
  <2>3. Types' = Types /\ Top' = Top
    BY <2>2 DEF Types, Top
  <2>4. QED
    BY <2>1, <2>2, <2>3 DEF TInv
<1>13. QED
  BY <1>1, <1>2, <1>3, <1>4, <1>5, <1>6, <1>7, <1>8, <1>9, <1>10, <1>11, <1>12
     DEF Next

\* Symbols, fields and padding types are of their types and in the range of
\* uint32_t, and the calls point into their DIEs and symbols.
THEOREM TypesCorrect == Spec => []TypeOK
<1>1. TInv => SymbolsOK
  <2> SUFFICES ASSUME TInv PROVE SymbolsOK
    OBVIOUS
  <2>1. Types \subseteq DOMAIN symbols
    BY DEF TInv, ReadOK, Types
  <2>2. QED
    BY <2>1 DEF SymbolsOK, TInv, TableOK, SizeKnown, FieldsOK, FieldOK, PaddingsOK
<1>2. TInv => todo \subseteq Visits /\ read \subseteq (DOMAIN Dies) \X (DOMAIN symbols)
              /\ errors \in 0 .. MaxErrors
  BY DEF TInv, ReadOK
<1>3. Spec => [](SymbolsOK /\ todo \subseteq Visits
                 /\ read \subseteq (DOMAIN Dies) \X (DOMAIN symbols)
                 /\ errors \in 0 .. MaxErrors)
  BY InitTInv, StepTInv, <1>1, <1>2, PTL DEF Spec
<1>4. SymbolsOK /\ todo \subseteq Visits /\ read \subseteq (DOMAIN Dies) \X (DOMAIN symbols)
      /\ errors \in 0 .. MaxErrors /\ CallsOK => TypeOK
  BY DEF TypeOK
<1>5. QED
  BY <1>3, <1>4, CallsCorrect, PTL

\* As long as no call of libdwarf has failed, a field is only stored when the
\* reading of its type is complete, however structs nest and share names.
THEOREM TypesAreReadFirst == Spec => []FieldTypesAreRead
<1>1. TInv => FieldTypesAreRead
  <2> SUFFICES ASSUME TInv, errors = 0, NEW n \in DOMAIN symbols,
                      NEW k \in DOMAIN symbols[n].fields,
                      symbols[n].fields[k].type \in DOMAIN symbols
               PROVE  HasBeenRead(symbols[n].fields[k].type)
    BY DEF FieldTypesAreRead
  <2> DEFINE type == symbols[n].fields[k].type
  <2>1. FieldOK(symbols[n].fields[k], Types)
    BY DEF TInv, TableOK, FieldsOK
  <2>2. type \in Markers \cup { r[2] : r \in read }
    BY <2>1 DEF FieldOK, Types
  <2>3. type \in Names \cup {""}
    BY DEF TInv, TableOK
  <2>4. type \notin Markers
    BY <2>3 DEF Names, Markers
  <2>5. QED
    BY <2>2, <2>4 DEF HasBeenRead
<1>2. QED
  BY InitTInv, StepTInv, <1>1, PTL DEF Spec


-----------------------------------------------------------------------------
(* The layout of a plain struct.                                           *)

\* The names of padding are different from each other and no member of a
\* struct has such a name.
PaddingNames ==
  /\ \A i, j \in Nat : Spare(i) = Spare(j) => i = j
  /\ \A i \in Nat : Spare(i) # "_spare_end"
  /\ \A d \in DOMAIN Dies : \A k \in DOMAIN Dies[d].members :
       LET m == Dies[d].members[k]
       IN  m.name # "_spare_end" /\ \A i \in Nat : m.name # Spare(i)

\* What a member comes to: its name, offset, size and dimensions.
Items(d)   == Layout(d)[2]
Item(f)    == << f.name, f.offset, f.size, f.dims >>
ItemEnd(y) == y[2] + Elements(y[4]) * y[3]

\* Fields in order, without overlap and inside a struct of `size' bytes.
Orderly(fs, size) ==
  /\ \A k \in 1 .. Len(fs) : /\ fs[k].bit_size = 0
                             /\ NoUpperBound \notin Range(fs[k].dims)
                             /\ FieldEnd(fs[k]) <= size
  /\ \A j, k \in 1 .. Len(fs) :
       j < k => FieldEnd(fs[j]) <= fs[k].offset /\ fs[j].name # fs[k].name

Full(fs, items) == \A y \in items : \E k \in 1 .. Len(fs) : Item(fs[k]) = y

\* The fields up to number i leave no byte out.
TiledTo(fs, i) ==
  /\ fs[1].offset = 0
  /\ \A k \in 2 .. i : fs[k].offset = FieldEnd(fs[k - 1])

\* Members only; those that are still missing come behind them.
Unpadded(fs, items, size) ==
  /\ Orderly(fs, size)
  /\ \A k \in 1 .. Len(fs) : Item(fs[k]) \in items
  /\ \A k \in 1 .. Len(fs) : \A y \in items :
       (\E j \in 1 .. Len(fs) : fs[j].name = y[1]) \/ FieldEnd(fs[k]) <= y[2]

\* All members, and padding between those that loop c has passed.
Padding(fs, items, size, c) ==
  /\ Orderly(fs, size) /\ Full(fs, items) /\ fs # << >>
  /\ \A k \in 1 .. Len(fs) :
       \/ Item(fs[k]) \in items
       \/ fs[k].dims = << >> /\ \E j \in 0 .. c.spares - 1 : fs[k].name = Spare(j)
  /\ TiledTo(fs, c.i - 1) /\ c.count = Len(fs)

Tiled(fs, items, size) ==
  /\ Orderly(fs, size) /\ Full(fs, items) /\ fs # << >>
  /\ TiledTo(fs, Len(fs)) /\ FieldEnd(fs[Len(fs)]) = size

\* A struct is not padded, being padded by call c, or padded.
Laid(fs, items, size, gaps, c) ==
  \/ Tiled(fs, items, size)
  \/ gaps /\ Padding(fs, items, size, c)
  \/ ~ gaps /\ Unpadded(fs, items, size)

InGaps(n) == stack # << >> /\ Top.phase = "gaps" /\ Top.symbol = n

LaidOut(n, d) ==
  LET fs == symbols[n].fields
  IN  /\ Laid(fs, Items(d), Dies[d].byte_size, InGaps(n), Top)
      /\ HasBeenRead(n) => Tiled(fs, Items(d), Dies[d].byte_size)

\* Only calls read symbols, and they have names.
ReadNames == \A r \in read : r[2] # ""

AllLaidOut == \A n \in DOMAIN symbols : PlainSymbol(n) => \A d \in DiesOf(n) : LaidOut(n, d)

LInv == TInv /\ ReadNames /\ AllLaidOut

-----------------------------------------------------------------------------
(* Numbers.                                                                *)

LEMMA ProductAtLeast ==
  ASSUME NEW a \in Nat, NEW b \in Nat \ {0}
  PROVE  a <= a * b
<1>1. b - 1 \in Nat /\ a * b = a * (b - 1) + a
  OBVIOUS
<1>2. a * (b - 1) \in Nat
  BY <1>1
<1>3. QED
  BY <1>1, <1>2

\* Where an array ends inside its struct, getArraySize and the products with
\* it do not wrap around.
LEMMA NoWrap ==
  ASSUME NEW d, IsDims(d), NEW size \in Nat, NEW offset \in Nat, NEW end \in Nat,
         end < Modulus, NoUpperBound \notin Range(d), offset + Elements(d) * size <= end
  PROVE  /\ Elements(d) * size \in Nat
         /\ size # 0 => Wrapped(d) = Elements(d)
         /\ Times(Wrapped(d), size) = Elements(d) * size
         /\ Times(size, Wrapped(d)) = Elements(d) * size
<1> DEFINE e == Elements(d)
           w == Wrapped(d)
<1>1. e \in Nat \ {0} /\ w \in Nat /\ (e < Modulus => w = e)
  BY DimsFacts
<1> HIDE DEF w, e
<1>2. e * size \in Nat
  BY <1>1
<1> DEFINE p == e * size
<1>3. p \in Nat /\ p < Modulus /\ Modulus \in Nat \ {0}
  <2>1. offset + p <= end
    BY DEF e
  <2>2. p \in Nat
    BY <1>2
  <2> HIDE DEF p
  <2>3. QED
    BY <2>1, <2>2, BoundsAssumption
<1>4. CASE size = 0
  <2>1. w * size = 0 /\ size * w = 0 /\ e * size = 0
    BY <1>1, <1>4
  <2>2. 0 % Modulus = 0
    BY <1>3
  <2>3. QED
    BY <1>1, <1>4, <2>1, <2>2 DEF Times, w, e
<1>5. CASE size # 0
  <2>1. e <= p
    BY <1>1, <1>5, ProductAtLeast
  <2>2. w = e
    <3> HIDE DEF p
    <3>1. QED
      BY <1>1, <1>3, <2>1, BoundsAssumption
  <2>3. p % Modulus = p
    <3> HIDE DEF p
    <3>1. QED
      BY <1>3, Small
  <2>4. size * e = p
    BY <1>1
  <2>5. QED
    BY <1>2, <2>2, <2>3, <2>4 DEF Times, w, e
<1>6. QED
  BY <1>4, <1>5

\* The size addPaddingEndToStruct takes for the last field.
EndSize(f) == IF ArraySize(f) > 0 THEN Times(f.size, ArraySize(f)) ELSE f.size

LEMMA Span ==
  ASSUME NEW f, NEW S, FieldOK(f, S), NEW end \in Nat, end < Modulus,
         NoUpperBound \notin Range(f.dims), FieldEnd(f) <= end
  PROVE  /\ FieldEnd(f) \in Nat /\ f.offset \in Nat /\ f.offset <= FieldEnd(f)
         /\ Extent(f) = FieldEnd(f) - f.offset
         /\ EndSize(f) = FieldEnd(f) - f.offset
         /\ f.size \in Nat
         /\ f.dims = << >> \/ f.size = 0 => FieldEnd(f) = f.offset + f.size
<1>1. f.size \in Nat /\ f.offset \in Nat /\ IsDims(f.dims)
  BY DEF FieldOK
<1> DEFINE e == Elements(f.dims)
           w == Wrapped(f.dims)
           p == e * f.size
<1>2. f.offset + p <= end
  BY DEF FieldEnd
<1>3. p \in Nat /\ Times(w, f.size) = p /\ Times(f.size, w) = p
  BY <1>1, <1>2, NoWrap
<1>4. FieldEnd(f) = f.offset + p
  BY DEF FieldEnd
<1>5. e \in Nat \ {0} /\ w \in Nat /\ (f.dims = << >> => e = 1)
  BY <1>1, DimsFacts
<1>6. ArraySize(f) = IF IsArray(f) THEN w ELSE 0
  BY DEF ArraySize, Wrapped
<1>7. IsArray(f) <=> f.dims # << >>
  BY DEF IsArray
<1> DEFINE size == f.size
<1>8. f.dims = << >> => p = size
  <2>1. e = 1 => p = size
    BY <1>1
  <2>2. QED
    BY <1>5, <2>1
<1>9. size = 0 => p = 0
  BY <1>1, <1>5
<1> HIDE DEF e, p, size
<1>10. Extent(f) = p
  BY <1>3, <1>6, <1>7, <1>8 DEF Extent, size
<1>11. EndSize(f) = p
  <2>1. CASE w > 0 /\ f.dims # << >>
    BY <1>3, <1>6, <1>7, <2>1 DEF EndSize
  <2>2. CASE f.dims = << >>
    BY <1>6, <1>7, <1>8, <2>2 DEF EndSize, size
  <2>3. CASE ~(w > 0) /\ f.dims # << >>
    <3>1. w = 0 /\ ArraySize(f) = 0
      BY <1>5, <1>6, <1>7, <2>3
    <3>2. size = 0 \/ w = e
      BY <1>1, <1>2, NoWrap DEF p, e, size
    <3>3. size = 0
      BY <1>5, <3>1, <3>2
    <3>4. QED
      BY <1>9, <3>1, <3>3 DEF EndSize, size
  <2>4. QED
    BY <2>1, <2>2, <2>3
<1>12. f.dims = << >> \/ f.size = 0 => p = f.size
  BY <1>8, <1>9 DEF size
<1>13. QED
  BY <1>1, <1>3, <1>4, <1>10, <1>11, <1>12

-----------------------------------------------------------------------------
(* The fields of a struct, as sequences.                                   *)

\* What the members of a plain struct of `size' bytes come to.
PlainItems(items, size) ==
  /\ size \in Nat /\ size * 8 < Modulus
  /\ \A y \in items :
       /\ NoUpperBound \notin Range(y[4]) /\ ItemEnd(y) <= size
       /\ y[4] # << >> => \/ ItemEnd(y) = size
                          \/ \E z \in items : z # y /\ ItemEnd(y) <= z[2]
  /\ \A y, z \in items : y[1] = z[1] => y = z
  /\ \E y \in items : y[2] = 0

\* No member is named like padding.
NotPadding(items) ==
  \A y \in items : y[1] # "_spare_end" /\ \A i \in Nat : y[1] # Spare(i)

LEMMA ItemOfField ==
  ASSUME NEW f
  PROVE  /\ Item(f)[1] = f.name /\ Item(f)[2] = f.offset /\ Item(f)[3] = f.size
         /\ Item(f)[4] = f.dims /\ ItemEnd(Item(f)) = FieldEnd(f)
BY DEF Item, ItemEnd, FieldEnd

LEMMA AppendFacts ==
  ASSUME NEW s, NEW f, IsSeq(s)
  PROVE  /\ Len(s) \in Nat /\ Len(Append(s, f)) = Len(s) + 1
         /\ \A k \in 1 .. Len(s) : Append(s, f)[k] = s[k]
         /\ Append(s, f)[Len(s) + 1] = f
         /\ Append(s, f) # << >> /\ DOMAIN s = 1 .. Len(s)
<1>1. PICK S : s \in Seq(S)
  BY DEF IsSeq
<1>2. s \in Seq(S \cup {f})
  BY <1>1
<1>3. /\ Len(Append(s, f)) = Len(s) + 1
      /\ \A k \in 1 .. Len(s) : Append(s, f)[k] = s[k]
      /\ Append(s, f)[Len(s) + 1] = f
  BY <1>2
<1>4. Append(s, f) # << >>
  <2>1. Len(s) + 1 # 0
    BY <1>2
  <2>2. QED
    BY <1>3, <2>1
<1>5. QED
  BY <1>2, <1>3, <1>4

LEMMA UnpaddedNothing == ASSUME NEW items, NEW size PROVE Unpadded(<< >>, items, size)
<1>1. 1 .. Len(<< >>) = {}
  OBVIOUS
<1>2. QED
  BY <1>1 DEF Unpadded, Orderly

\* A field behind the others.
LEMMA OrderlyAppend ==
  ASSUME NEW fs, IsSeq(fs), NEW size, Orderly(fs, size), NEW f,
         f.bit_size = 0, NoUpperBound \notin Range(f.dims), FieldEnd(f) <= size,
         \A k \in 1 .. Len(fs) : FieldEnd(fs[k]) <= f.offset /\ fs[k].name # f.name
  PROVE  Orderly(Append(fs, f), size)
<1> DEFINE g == Append(fs, f)
           n == Len(fs)
<1>1. /\ n \in Nat /\ Len(g) = n + 1 /\ g[n + 1] = f
      /\ \A k \in 1 .. n : g[k] = fs[k]
  BY AppendFacts
<1> HIDE DEF g
<1>2. ASSUME NEW k \in 1 .. n + 1
      PROVE  g[k].bit_size = 0 /\ NoUpperBound \notin Range(g[k].dims) /\ FieldEnd(g[k]) <= size
  BY <1>1 DEF Orderly
<1>3. ASSUME NEW j \in 1 .. n + 1, NEW k \in 1 .. n + 1, j < k
      PROVE  FieldEnd(g[j]) <= g[k].offset /\ g[j].name # g[k].name
  <2>1. j \in 1 .. n
    BY <1>1, <1>3
  <2>2. CASE k \in 1 .. n
    BY <1>1, <1>3, <2>1, <2>2 DEF Orderly
  <2>3. CASE k = n + 1
    BY <1>1, <2>1, <2>3
  <2>4. QED
    BY <1>1, <2>2, <2>3
<1>4. QED
  BY <1>1, <1>2, <1>3 DEF Orderly, g

\* A member is stored in a struct that is not padded, when those of which it
\* may not be in front are there.
LEMMA StoreItem ==
  ASSUME NEW items, NEW size, PlainItems(items, size), NEW fs, IsSeq(fs),
         Unpadded(fs, items, size), NEW f, Item(f) \in items, f.bit_size = 0,
         \A y \in items : \/ \E k \in 1 .. Len(fs) : fs[k].name = y[1]
                          \/ y = Item(f)
                          \/ FieldEnd(f) <= y[2]
  PROVE  Unpadded(AddField(fs, f), items, size)
<1> DEFINE g == Append(fs, f)
           n == Len(fs)
<1>1. /\ n \in Nat /\ Len(g) = n + 1 /\ g[n + 1] = f /\ DOMAIN fs = 1 .. n
      /\ \A k \in 1 .. n : g[k] = fs[k]
  BY AppendFacts
<1>2. CASE \E k \in DOMAIN fs : fs[k].name = f.name
  BY <1>2 DEF AddField
<1>3. CASE ~ \E k \in DOMAIN fs : fs[k].name = f.name
  <2>1. AddField(fs, f) = g
    BY <1>3 DEF AddField
  <2>2. NoUpperBound \notin Range(f.dims) /\ FieldEnd(f) <= size
    BY ItemOfField DEF PlainItems
  <2>3. \A k \in 1 .. n : FieldEnd(fs[k]) <= f.offset /\ fs[k].name # f.name
    <3>1. \A k \in 1 .. n : \/ \E j \in 1 .. n : fs[j].name = Item(f)[1]
                            \/ FieldEnd(fs[k]) <= Item(f)[2]
      BY DEF Unpadded
    <3>2. Item(f)[1] = f.name /\ Item(f)[2] = f.offset
      BY ItemOfField
    <3>3. \A k \in 1 .. n : fs[k].name # f.name
      BY <1>1, <1>3
    <3>4. QED
      BY <3>1, <3>2, <3>3
  <2>4. Orderly(g, size)
    BY <2>2, <2>3, OrderlyAppend DEF Unpadded
  <2> HIDE DEF g
  <2>5. \A k \in 1 .. n + 1 : Item(g[k]) \in items
    BY <1>1 DEF Unpadded
  <2>6. ASSUME NEW k \in 1 .. n + 1, NEW y \in items
        PROVE  (\E j \in 1 .. n + 1 : g[j].name = y[1]) \/ FieldEnd(g[k]) <= y[2]
    <3>1. CASE \E j \in 1 .. n : fs[j].name = y[1]
      <4>1. PICK j \in 1 .. n : fs[j].name = y[1]
        BY <3>1
      <4>2. j \in 1 .. n + 1 /\ g[j] = fs[j]
        BY <1>1
      <4>3. QED
        BY <4>1, <4>2
    <3>2. CASE y = Item(f)
      <4>1. n + 1 \in 1 .. n + 1 /\ g[n + 1].name = y[1]
        BY <1>1, <3>2, ItemOfField
      <4>2. QED
        BY <4>1
    <3>3. CASE y # Item(f) /\ ~ \E j \in 1 .. n : fs[j].name = y[1]
      <4>1. FieldEnd(f) <= y[2] /\ \A j \in 1 .. n : FieldEnd(fs[j]) <= y[2]
        BY <3>3 DEF Unpadded
      <4>2. g[k] = f \/ (k \in 1 .. n /\ g[k] = fs[k])
        BY <1>1
      <4>3. QED
        BY <4>1, <4>2
    <3>4. QED
      BY <3>1, <3>2, <3>3
  <2>7. QED
    BY <1>1, <2>1, <2>4, <2>5, <2>6 DEF Unpadded
<1>4. QED
  BY <1>2, <1>3

\* A member is there already in a struct that has all of them.
LEMMA StoreAgain ==
  ASSUME NEW items, NEW fs, IsSeq(fs), Full(fs, items), NEW f, Item(f) \in items
  PROVE  AddField(fs, f) = fs
<1>1. PICK k \in 1 .. Len(fs) : Item(fs[k]) = Item(f)
  BY DEF Full
<1>2. k \in DOMAIN fs /\ fs[k].name = f.name
  BY <1>1, LenOfSeq, ItemOfField
<1>3. QED
  BY <1>2 DEF AddField

\* When all members are stored, the loop over the gaps begins.
LEMMA StartPadding ==
  ASSUME NEW items, NEW size, PlainItems(items, size), NEW fs, IsSeq(fs), NEW S,
         FieldsOK(fs, S), Unpadded(fs, items, size),
         \A y \in items : \E k \in 1 .. Len(fs) : fs[k].name = y[1],
         NEW c, c.i = 2, c.count = Len(fs)
  PROVE  Padding(fs, items, size, c)
<1>1. DOMAIN fs = 1 .. Len(fs) /\ Len(fs) \in Nat
  BY LenOfSeq
<1>2. ASSUME NEW y \in items PROVE \E k \in 1 .. Len(fs) : Item(fs[k]) = y
  <2>1. PICK k \in 1 .. Len(fs) : fs[k].name = y[1]
    BY <1>2
  <2>2. Item(fs[k]) \in items /\ Item(fs[k])[1] = y[1]
    BY <2>1, ItemOfField DEF Unpadded
  <2>3. QED
    BY <2>2 DEF PlainItems
<1>3. PICK y \in items : y[2] = 0
  BY DEF PlainItems
<1>4. PICK p \in 1 .. Len(fs) : Item(fs[p]) = y
  BY <1>2
<1>5. fs[p].offset = 0
  BY <1>3, <1>4, ItemOfField
<1>6. 1 \in 1 .. Len(fs) /\ FieldOK(fs[1], S)
  BY <1>1, <1>4 DEF FieldsOK
<1>7. fs[1].offset = 0
  <2>1. CASE p = 1
    BY <1>5, <2>1
  <2>2. CASE p # 1
    <3>1. FieldEnd(fs[1]) <= 0
      BY <1>5, <1>6, <2>2 DEF Unpadded, Orderly
    <3>2. size \in Nat /\ size < Modulus /\ NoUpperBound \notin Range(fs[1].dims) /\ FieldEnd(fs[1]) <= size
      BY <1>6, BoundsAssumption DEF PlainItems, Unpadded, Orderly
    <3>3. FieldEnd(fs[1]) \in Nat /\ fs[1].offset \in Nat /\ fs[1].offset <= FieldEnd(fs[1])
      BY <1>6, <3>2, Span
    <3>4. QED
      BY <3>1, <3>3
  <2>3. QED
    BY <2>1, <2>2
<1>8. fs # << >>
  BY <1>1, <1>4
<1>9. TiledTo(fs, c.i - 1)
  <2>1. 2 .. c.i - 1 = {}
    OBVIOUS
  <2>2. QED
    BY <1>7, <2>1 DEF TiledTo
<1>10. QED
  BY <1>2, <1>8, <1>9 DEF Padding, Unpadded, Full

\* No field of a struct that is laid out in order wraps around.
LEMMA Spans ==
  ASSUME NEW fs, IsSeq(fs), NEW S, FieldsOK(fs, S), NEW size \in Nat, size < Modulus,
         Orderly(fs, size), NEW k \in 1 .. Len(fs)
  PROVE  LET f == fs[k]
         IN  /\ FieldEnd(f) \in Nat /\ f.offset \in Nat
             /\ f.offset <= FieldEnd(f) /\ FieldEnd(f) <= size
             /\ Extent(f) = FieldEnd(f) - f.offset
             /\ EndSize(f) = FieldEnd(f) - f.offset
             /\ f.size \in Nat
             /\ f.dims = << >> \/ f.size = 0 => FieldEnd(f) = f.offset + f.size
<1>1. FieldOK(fs[k], S)
  BY LenOfSeq DEF FieldsOK
<1>2. NoUpperBound \notin Range(fs[k].dims) /\ FieldEnd(fs[k]) <= size
  BY DEF Orderly
<1>3. QED
  BY <1>1, <1>2, Span

LEMMA Differences ==
  ASSUME NEW a \in Nat, NEW b \in Nat, a <= b, b < Modulus
  PROVE  /\ Minus(b, a) = b - a /\ b - a \in Nat
         /\ Plus(a, b - a) = b
<1>1. b - a \in Nat /\ b - a < Modulus /\ a + (b - a) = b
  BY BoundsAssumption
<1> DEFINE x == b - a
<1>2. x % Modulus = x
  <2> HIDE DEF x
  <2>1. x \in Nat /\ x < Modulus
    BY <1>1 DEF x
  <2>2. QED
    BY <2>1, Small
<1>3. b % Modulus = b
  BY Small
<1>4. QED
  BY <1>1, <1>2, <1>3 DEF Minus, Plus

\* What addPaddingToStruct computes for two neighbours.
LEMMA Gaps ==
  ASSUME NEW fs, IsSeq(fs), NEW S, FieldsOK(fs, S), NEW size \in Nat, size < Modulus,
         Orderly(fs, size), NEW i \in 2 .. Len(fs)
  PROVE  LET previous == fs[i - 1]
             delta == Minus(fs[i].offset, previous.offset)
         IN  /\ FieldEnd(previous) \in Nat /\ fs[i].offset \in Nat
             /\ FieldEnd(previous) <= fs[i].offset /\ fs[i].offset <= size
             /\ delta > Extent(previous) <=> FieldEnd(previous) < fs[i].offset
             /\ Minus(delta, Extent(previous)) = fs[i].offset - FieldEnd(previous)
             /\ Plus(previous.offset, Extent(previous)) = FieldEnd(previous)
<1>1. Len(fs) \in Nat /\ i - 1 \in 1 .. Len(fs) /\ i \in 1 .. Len(fs) /\ i - 1 < i
  BY LenOfSeq
<1> DEFINE f == fs[i - 1]
           g == fs[i]
           a == f.offset
           b == FieldEnd(f)
           c == g.offset
<1>2. /\ a \in Nat /\ b \in Nat /\ a <= b /\ b <= size /\ Extent(f) = b - a
  BY <1>1, Spans
<1>3. c \in Nat /\ c <= FieldEnd(g) /\ FieldEnd(g) <= size /\ FieldEnd(g) \in Nat
  BY <1>1, Spans
<1>4. b <= c
  BY <1>1 DEF Orderly
<1> HIDE DEF a, b, c, f, g
<1>5. c <= size /\ c < Modulus /\ b < Modulus /\ a <= c
  BY <1>2, <1>3, <1>4, BoundsAssumption
<1>6. Minus(c, a) = c - a /\ Plus(a, b - a) = b
  BY <1>2, <1>3, <1>5, Differences
<1> DEFINE x == c - a
           y == b - a
<1>7. x \in Nat /\ y \in Nat /\ y <= x /\ x < Modulus
  BY <1>2, <1>3, <1>4, <1>5, BoundsAssumption
<1>8. Minus(x, y) = x - y
  <2> HIDE DEF x, y
  <2>1. QED
    BY <1>7, Differences
<1>9. x - y = c - b /\ (x > y <=> b < c)
  BY <1>2, <1>3
<1>10. QED
  BY <1>2, <1>3, <1>4, <1>5, <1>6, <1>8, <1>9 DEF a, b, c, f, g

\* Neighbours without a gap.
LEMMA NoGap ==
  ASSUME NEW fs, NEW items, NEW size, NEW c, Padding(fs, items, size, c),
         c.i \in Nat, c.i >= 2, fs[c.i].offset = FieldEnd(fs[c.i - 1]),
         NEW e, e.i = c.i + 1, e.count = c.count, e.spares = c.spares
  PROVE  Padding(fs, items, size, e)
<1>1. TiledTo(fs, e.i - 1)
  <2>1. \A k \in 2 .. e.i - 1 : k \in 2 .. c.i - 1 \/ k = c.i
    OBVIOUS
  <2>2. QED
    BY <2>1 DEF Padding, TiledTo
<1>2. QED
  BY <1>1 DEF Padding

\* A spare in a gap.
LEMMA FillGap ==
  ASSUME PaddingNames,
         NEW fs, IsSeq(fs), NEW S, FieldsOK(fs, S), NEW size \in Nat, size < Modulus,
         NEW items, NotPadding(items), NEW c, Padding(fs, items, size, c),
         c.i \in 2 .. Len(fs), c.spares \in Nat,
         NEW f, f.name = Spare(c.spares), f.dims = << >>, f.bit_size = 0,
         f.offset = FieldEnd(fs[c.i - 1]), FieldEnd(f) = fs[c.i].offset,
         NEW e, e.i = c.i + 2, e.count = c.count + 1, e.spares = c.spares + 1
  PROVE  Padding(InsertField(fs, c.i, f), items, size, e)
<1> DEFINE i == c.i
           n == Len(fs)
           g == InsertField(fs, i, f)
<1>1. n \in Nat /\ i \in 2 .. n /\ i \in 1 .. n + 1
  BY LenOfSeq
<1>2. /\ Len(g) = n + 1 /\ DOMAIN g = 1 .. n + 1
      /\ \A k \in 1 .. n + 1 : g[k] = IF k < i THEN fs[k] ELSE IF k = i THEN f ELSE fs[k - 1]
  BY <1>1, InsertFacts DEF InsertField
<1> HIDE DEF g, i
<1>3. \A k \in 1 .. n + 1 :
        \/ k < i /\ k \in 1 .. n /\ g[k] = fs[k]
        \/ k = i /\ g[k] = f
        \/ k > i /\ k - 1 \in 1 .. n /\ g[k] = fs[k - 1]
  BY <1>1, <1>2
<1>4. Orderly(fs, size)
  BY DEF Padding
<1>5. \A k \in 1 .. n : /\ fs[k].offset \in Nat /\ FieldEnd(fs[k]) \in Nat
                        /\ fs[k].offset <= FieldEnd(fs[k]) /\ FieldEnd(fs[k]) <= size
  BY <1>4, Spans
<1>6. /\ f.offset = FieldEnd(fs[i - 1]) /\ FieldEnd(f) = fs[i].offset
      /\ i - 1 \in 1 .. n /\ i \in 1 .. n /\ i \in Nat
  BY <1>1 DEF i
<1>7. \A j \in 1 .. n : fs[j].name # f.name
  <2> SUFFICES ASSUME NEW j \in 1 .. n PROVE fs[j].name # f.name
    OBVIOUS
  <2>1. CASE Item(fs[j]) \in items
    BY <2>1, ItemOfField DEF NotPadding
  <2>2. CASE \E k \in 0 .. c.spares - 1 : fs[j].name = Spare(k)
    <3>1. PICK k \in 0 .. c.spares - 1 : fs[j].name = Spare(k)
      BY <2>2
    <3>2. k \in Nat /\ k # c.spares
      OBVIOUS
    <3>3. QED
      BY <3>1, <3>2 DEF PaddingNames
  <2>3. QED
    BY <2>1, <2>2 DEF Padding
<1>8. \A j \in 1 .. i - 1 : FieldEnd(fs[j]) <= f.offset
  <2> SUFFICES ASSUME NEW j \in 1 .. i - 1 PROVE FieldEnd(fs[j]) <= f.offset
    OBVIOUS
  <2>1. CASE j = i - 1
    <3>1. FieldEnd(fs[i - 1]) \in Nat
      BY <1>5, <1>6
    <3>2. FieldEnd(fs[j]) \in Nat /\ f.offset = FieldEnd(fs[j])
      BY <1>6, <2>1, <3>1
    <3>3. QED
      BY <3>2
  <2>2. CASE j # i - 1
    <3>1. j < i - 1 /\ j \in 1 .. n
      BY <1>1, <1>6, <2>2
    <3>2. FieldEnd(fs[j]) <= fs[i - 1].offset
      BY <1>4, <1>6, <3>1 DEF Orderly
    <3>3. /\ fs[i - 1].offset <= f.offset /\ fs[i - 1].offset \in Nat /\ f.offset \in Nat
          /\ FieldEnd(fs[j]) \in Nat
      BY <1>5, <1>6, <3>1
    <3>4. QED
      BY <3>2, <3>3
  <2>3. QED
    BY <2>1, <2>2
<1>9. \A k \in i .. n : FieldEnd(f) <= fs[k].offset
  <2> SUFFICES ASSUME NEW k \in i .. n PROVE FieldEnd(f) <= fs[k].offset
    OBVIOUS
  <2>1. CASE k = i
    BY <1>5, <1>6, <2>1
  <2>2. CASE k # i
    <3>1. i < k /\ k \in 1 .. n
      BY <1>1, <1>6, <2>2
    <3>2. FieldEnd(fs[i]) <= fs[k].offset
      BY <1>4, <1>6, <3>1 DEF Orderly
    <3>3. /\ fs[i].offset \in Nat /\ FieldEnd(fs[i]) \in Nat /\ fs[k].offset \in Nat
          /\ fs[i].offset <= FieldEnd(fs[i])
      BY <1>5, <1>6, <3>1
    <3>4. fs[i].offset <= fs[k].offset
      <4> DEFINE low == fs[i].offset
                 mid == FieldEnd(fs[i])
                 high == fs[k].offset
      <4>1. low \in Nat /\ mid \in Nat /\ high \in Nat /\ low <= mid /\ mid <= high
        BY <3>2, <3>3
      <4> HIDE DEF low, mid, high
      <4>2. low <= high
        BY <4>1
      <4>3. QED
        BY <4>2 DEF low, high
    <3>5. QED
      BY <1>6, <3>4
  <2>3. QED
    BY <2>1, <2>2
<1>10. Orderly(g, size)
  <2>1. f.bit_size = 0 /\ NoUpperBound \notin Range(f.dims) /\ FieldEnd(f) <= size
    <3>1. Range(<< >>) = {}
      BY NothingInEmpty DEF Range
    <3>2. QED
      BY <1>5, <1>6, <3>1
  <2>2. \A k \in 1 .. n + 1 : /\ g[k].bit_size = 0
                              /\ NoUpperBound \notin Range(g[k].dims)
                              /\ FieldEnd(g[k]) <= size
    <3>1. \A k \in 1 .. n : /\ fs[k].bit_size = 0
                            /\ NoUpperBound \notin Range(fs[k].dims)
                            /\ FieldEnd(fs[k]) <= size
      BY <1>4 DEF Orderly
    <3>2. \A k \in 1 .. n + 1 : g[k] = f \/ \E j \in 1 .. n : g[k] = fs[j]
      BY <1>3
    <3>3. QED
      BY <2>1, <3>1, <3>2
  <2>3. ASSUME NEW j \in 1 .. n + 1, NEW k \in 1 .. n + 1, j < k
        PROVE  FieldEnd(g[j]) <= g[k].offset /\ g[j].name # g[k].name
    <3>1. CASE k < i
      <4>1. j \in 1 .. n /\ k \in 1 .. n /\ g[j] = fs[j] /\ g[k] = fs[k]
        BY <1>1, <1>2, <1>6, <2>3, <3>1
      <4>2. QED
        BY <1>4, <2>3, <4>1 DEF Orderly
    <3>2. CASE k = i
      <4>1. j \in 1 .. i - 1 /\ j \in 1 .. n /\ g[j] = fs[j] /\ g[k] = f
        BY <1>1, <1>2, <1>6, <2>3, <3>2
      <4>2. QED
        BY <1>7, <1>8, <4>1
    <3>3. CASE k > i /\ j < i
      <4>1. j < k - 1 /\ k - 1 \in 1 .. n /\ j \in 1 .. n /\ g[j] = fs[j] /\ g[k] = fs[k - 1]
        BY <1>1, <1>3, <1>6, <3>3
      <4>2. QED
        BY <1>4, <4>1 DEF Orderly
    <3>4. CASE k > i /\ j = i
      <4>1. k - 1 \in i .. n /\ k - 1 \in 1 .. n /\ g[j] = f /\ g[k] = fs[k - 1]
        BY <1>1, <1>3, <1>6, <3>4
      <4>2. QED
        BY <1>7, <1>9, <4>1
    <3>5. CASE k > i /\ j > i
      <4>1. /\ j - 1 < k - 1 /\ k - 1 \in 1 .. n /\ j - 1 \in 1 .. n
            /\ g[j] = fs[j - 1] /\ g[k] = fs[k - 1]
        BY <1>1, <1>3, <1>6, <2>3, <3>5
      <4>2. QED
        BY <1>4, <4>1 DEF Orderly
    <3>6. QED
      BY <1>1, <1>6, <3>1, <3>2, <3>3, <3>4, <3>5
  <2>4. QED
    BY <1>2, <2>2, <2>3 DEF Orderly
<1>11. \A k \in 1 .. n : \E j \in 1 .. n + 1 : g[j] = fs[k]
  <2> SUFFICES ASSUME NEW k \in 1 .. n PROVE \E j \in 1 .. n + 1 : g[j] = fs[k]
    OBVIOUS
  <2>1. CASE k < i
    <3>1. k \in 1 .. n + 1 /\ g[k] = fs[k]
      BY <1>1, <1>2, <2>1
    <3>2. QED
      BY <3>1
  <2>2. CASE ~(k < i)
    <3>1. k + 1 \in 1 .. n + 1 /\ k + 1 > i /\ k + 1 # i /\ ~(k + 1 < i) /\ k + 1 - 1 = k
      BY <1>1, <1>6, <2>2
    <3>2. g[k + 1] = fs[k]
      BY <1>2, <3>1
    <3>3. QED
      BY <3>1, <3>2
  <2>3. QED
    BY <2>1, <2>2
<1>12. Full(g, items)
  <2> SUFFICES ASSUME NEW y \in items PROVE \E j \in 1 .. Len(g) : Item(g[j]) = y
    BY DEF Full
  <2>1. PICK k \in 1 .. n : Item(fs[k]) = y
    BY DEF Padding, Full
  <2>2. QED
    BY <1>2, <1>11, <2>1
<1>13. \A k \in 1 .. n + 1 :
         \/ Item(g[k]) \in items
         \/ g[k].dims = << >> /\ \E j \in 0 .. e.spares - 1 : g[k].name = Spare(j)
  <2>1. \A k \in 1 .. n :
          \/ Item(fs[k]) \in items
          \/ fs[k].dims = << >> /\ \E j \in 0 .. e.spares - 1 : fs[k].name = Spare(j)
    BY DEF Padding
  <2>2. f.dims = << >> /\ \E j \in 0 .. e.spares - 1 : f.name = Spare(j)
    <3>1. c.spares \in 0 .. e.spares - 1
      OBVIOUS
    <3>2. QED
      BY <3>1
  <2>3. SUFFICES ASSUME NEW k \in 1 .. n + 1
                 PROVE  \/ Item(g[k]) \in items
                        \/ g[k].dims = << >> /\ \E j \in 0 .. e.spares - 1 : g[k].name = Spare(j)
    OBVIOUS
  <2>4. CASE g[k] = f
    BY <2>2, <2>4
  <2>5. CASE g[k] # f
    <3>1. PICK m \in 1 .. n : g[k] = fs[m]
      BY <1>3, <2>5
    <3>2. QED
      BY <2>1, <3>1
  <2>6. QED
    BY <2>4, <2>5
<1>14. TiledTo(g, e.i - 1)
  <2>1. e.i - 1 = i + 1
    BY <1>6 DEF i
  <2>2. g[1] = fs[1] /\ fs[1].offset = 0 /\ \A k \in 2 .. i - 1 : fs[k].offset = FieldEnd(fs[k - 1])
    <3>1. 1 \in 1 .. n + 1 /\ 1 < i
      BY <1>1
    <3>2. QED
      BY <1>2, <3>1 DEF Padding, TiledTo, i
  <2>3. ASSUME NEW k \in 2 .. i + 1 PROVE g[k].offset = FieldEnd(g[k - 1])
    <3>1. CASE k < i
      <4>1. k \in 2 .. i - 1 /\ k \in 1 .. n + 1 /\ k - 1 \in 1 .. n + 1 /\ k - 1 < i
        BY <1>1, <1>6, <3>1
      <4>2. g[k] = fs[k] /\ g[k - 1] = fs[k - 1]
        BY <1>2, <3>1, <4>1
      <4>3. QED
        BY <2>2, <4>1, <4>2
    <3>2. CASE k = i
      <4>1. k \in 1 .. n + 1 /\ k - 1 \in 1 .. n + 1 /\ k - 1 < i
        BY <1>1, <1>6, <3>2
      <4>2. g[k] = f /\ g[k - 1] = fs[i - 1]
        BY <1>2, <3>2, <4>1
      <4>3. QED
        BY <1>6, <4>2
    <3>3. CASE k = i + 1
      <4>1. k \in 1 .. n + 1 /\ k - 1 \in 1 .. n + 1 /\ k - 1 = i /\ ~(k < i) /\ k # i
        BY <1>1, <1>6, <3>3
      <4>2. g[k] = fs[i] /\ g[k - 1] = f
        BY <1>2, <1>6, <4>1
      <4>3. QED
        BY <1>6, <4>2
    <3>4. QED
      BY <1>6, <3>1, <3>2, <3>3
  <2>4. QED
    BY <2>1, <2>2, <2>3 DEF TiledTo
<1>15. g # << >>
  <2>1. Len(g) # 0
    BY <1>1, <1>2
  <2>2. QED
    BY <2>1
<1>16. e.count = Len(g)
  BY <1>2 DEF Padding
<1>17. QED
  BY <1>2, <1>10, <1>12, <1>13, <1>14, <1>15, <1>16 DEF Padding, g, i

\* The end of the struct.
LEMMA Ends ==
  ASSUME NEW fs, IsSeq(fs), NEW S, FieldsOK(fs, S), NEW size \in Nat, size < Modulus,
         Orderly(fs, size), fs # << >>
  PROVE  LET back == Last(fs)
         IN  /\ back = fs[Len(fs)] /\ Len(fs) \in 1 .. Len(fs)
             /\ FieldEnd(back) \in Nat /\ FieldEnd(back) <= size
             /\ Plus(back.offset, EndSize(back)) = FieldEnd(back)
             /\ Minus(size, FieldEnd(back)) = size - FieldEnd(back)
             /\ back.dims = << >> \/ back.size = 0 =>
                  Plus(back.offset, back.size) = FieldEnd(back)
<1>1. Len(fs) \in Nat /\ Len(fs) \in 1 .. Len(fs)
  <2>1. PICK T : fs \in Seq(T)
    BY DEF IsSeq
  <2>2. QED
    BY <2>1
<1> DEFINE f == fs[Len(fs)]
           a == f.offset
           b == FieldEnd(f)
           z == f.size
<1>2. /\ a \in Nat /\ b \in Nat /\ a <= b /\ b <= size /\ EndSize(f) = b - a
      /\ z \in Nat /\ (f.dims = << >> \/ z = 0 => b = a + z)
  BY <1>1, Spans
<1>3. Last(fs) = f
  BY DEF Last
<1> HIDE DEF a, b, z, f
<1>4. b < Modulus
  BY <1>2, BoundsAssumption
<1>5. Plus(a, b - a) = b /\ Minus(size, b) = size - b
  BY <1>2, <1>4, Differences
<1>6. f.dims = << >> \/ z = 0 => Plus(a, z) = b
  <2> SUFFICES ASSUME f.dims = << >> \/ z = 0 PROVE Plus(a, z) = b
    OBVIOUS
  <2>1. z = b - a
    BY <1>2
  <2>2. QED
    BY <1>5, <2>1
<1>7. QED
  BY <1>1, <1>2, <1>3, <1>5, <1>6 DEF a, b, z, f

\* Padding behind a member that is an array would begin inside it; in a plain
\* struct there is none.
LEMMA LastIsNoArray ==
  ASSUME NEW fs, IsSeq(fs), NEW S, FieldsOK(fs, S), NEW items, NEW size,
         PlainItems(items, size), NEW c, Padding(fs, items, size, c),
         FieldEnd(fs[Len(fs)]) # size
  PROVE  fs[Len(fs)].dims = << >> \/ fs[Len(fs)].size = 0
<1> DEFINE n == Len(fs)
           f == fs[n]
<1>1. size \in Nat /\ size < Modulus /\ Orderly(fs, size) /\ fs # << >>
  BY BoundsAssumption DEF PlainItems, Padding
<1>2. n \in 1 .. n /\ n \in Nat
  BY <1>1, Ends, LenOfSeq
<1>3. CASE Item(f) \notin items
  BY <1>2, <1>3 DEF Padding
<1>4. CASE Item(f) \in items /\ f.dims # << >>
  <2>1. PICK z \in items : z # Item(f) /\ FieldEnd(f) <= z[2]
    BY <1>4, ItemOfField DEF PlainItems
  <2>2. PICK k \in 1 .. n : Item(fs[k]) = z
    BY DEF Padding, Full
  <2>3. k < n /\ fs[k].offset = z[2]
    BY <1>2, <2>1, <2>2, ItemOfField
  <2>4. /\ FieldEnd(fs[k]) <= f.offset /\ fs[k].offset <= FieldEnd(fs[k])
        /\ fs[k].offset \in Nat /\ FieldEnd(fs[k]) \in Nat
        /\ f.offset \in Nat /\ FieldEnd(f) \in Nat /\ f.offset <= FieldEnd(f)
    BY <1>1, <1>2, <2>3, Spans DEF Orderly
  <2>5. FieldEnd(f) = f.offset
    BY <2>1, <2>3, <2>4
  <2>6. FieldOK(f, S)
    BY <1>2, LenOfSeq DEF FieldsOK
  <2> DEFINE e == Elements(f.dims)
             x == f.size
             o == f.offset
  <2>7. e \in Nat \ {0} /\ x \in Nat /\ o \in Nat
    BY <2>6, DimsFacts DEF FieldOK
  <2>8. o + e * x = o
    BY <2>5 DEF FieldEnd
  <2> HIDE DEF e, x, o
  <2>9. x = 0
    <3>1. CASE x # 0
      <4>1. e <= e * x
        BY <2>7, <3>1, ProductAtLeast
      <4> DEFINE p == e * x
      <4>2. p \in Nat
        BY <2>7
      <4>3. o + p = o /\ e <= p
        BY <2>8, <4>1
      <4> HIDE DEF p
      <4>4. QED
        BY <2>7, <4>2, <4>3
    <3>2. QED
      BY <3>1
  <2>10. QED
    BY <2>9 DEF x
<1>5. QED
  BY <1>3, <1>4

LEMMA LoopIsOver ==
  ASSUME NEW fs, IsSeq(fs), NEW items, NEW size, NEW c, Padding(fs, items, size, c),
         c.i \in Nat, c.i > Len(fs)
  PROVE  TiledTo(fs, Len(fs))
<1>1. Len(fs) \in Nat
  BY LenOfSeq
<1>2. \A k \in 2 .. Len(fs) : k \in 2 .. c.i - 1
  BY <1>1
<1>3. QED
  BY <1>2 DEF Padding, TiledTo

\* The field _spare_end makes the struct complete.
LEMMA FillEnd ==
  ASSUME PaddingNames,
         NEW fs, IsSeq(fs), NEW S, FieldsOK(fs, S), NEW size \in Nat, size < Modulus,
         NEW items, NotPadding(items), NEW c, Padding(fs, items, size, c),
         c.spares \in Nat, TiledTo(fs, Len(fs)),
         NEW f, f.name = "_spare_end", f.dims = << >>, f.bit_size = 0,
         f.offset = FieldEnd(fs[Len(fs)]), FieldEnd(f) = size
  PROVE  Tiled(AddField(fs, f), items, size)
<1> DEFINE n == Len(fs)
           g == Append(fs, f)
<1>1. /\ n \in Nat /\ Len(g) = n + 1 /\ g[n + 1] = f /\ DOMAIN fs = 1 .. n
      /\ \A k \in 1 .. n : g[k] = fs[k]
      /\ g # << >>
  BY AppendFacts
<1>2. Orderly(fs, size) /\ fs # << >>
  BY DEF Padding
<1>3. \A j \in 1 .. n : fs[j].name # f.name
  <2> SUFFICES ASSUME NEW j \in 1 .. n PROVE fs[j].name # "_spare_end"
    OBVIOUS
  <2>1. CASE Item(fs[j]) \in items
    BY <2>1, ItemOfField DEF NotPadding
  <2>2. CASE \E k \in 0 .. c.spares - 1 : fs[j].name = Spare(k)
    <3>1. PICK k \in 0 .. c.spares - 1 : fs[j].name = Spare(k)
      BY <2>2
    <3>2. k \in Nat
      OBVIOUS
    <3>3. QED
      BY <3>1, <3>2 DEF PaddingNames
  <2>3. QED
    BY <2>1, <2>2 DEF Padding
<1>4. AddField(fs, f) = g
  BY <1>1, <1>3 DEF AddField
<1>5. n \in 1 .. n
  BY <1>2, Ends
<1>6. \A j \in 1 .. n : FieldEnd(fs[j]) <= f.offset
  <2> SUFFICES ASSUME NEW j \in 1 .. n PROVE FieldEnd(fs[j]) <= f.offset
    OBVIOUS
  <2>1. /\ FieldEnd(fs[j]) \in Nat /\ fs[n].offset \in Nat /\ FieldEnd(fs[n]) \in Nat
        /\ fs[n].offset <= FieldEnd(fs[n])
    BY <1>2, <1>5, Spans
  <2>2. CASE j = n
    BY <2>1, <2>2
  <2>3. CASE j # n
    <3>1. j < n
      <4>1. n \in Nat
        BY <1>1
      <4> HIDE DEF n
      <4>2. QED
        BY <2>3, <4>1
    <3>2. FieldEnd(fs[j]) <= fs[n].offset
      BY <1>2, <1>5, <3>1 DEF Orderly
    <3>3. QED
      BY <2>1, <3>2
  <2>4. QED
    BY <2>2, <2>3
<1>7. Orderly(g, size)
  <2>1. NoUpperBound \notin Range(f.dims)
    <3>1. Range(<< >>) = {}
      BY NothingInEmpty DEF Range
    <3>2. QED
      BY <3>1
  <2>2. FieldEnd(f) <= size
    OBVIOUS
  <2>3. QED
    BY <1>2, <1>3, <1>6, <2>1, <2>2, OrderlyAppend
<1> HIDE DEF g
<1>8. Full(g, items)
  <2> SUFFICES ASSUME NEW y \in items PROVE \E j \in 1 .. Len(g) : Item(g[j]) = y
    BY DEF Full
  <2>1. PICK k \in 1 .. n : Item(fs[k]) = y
    BY DEF Padding, Full
  <2>2. k \in 1 .. Len(g) /\ g[k] = fs[k]
    BY <1>1
  <2>3. QED
    BY <2>1, <2>2
<1>9. TiledTo(g, Len(g))
  <2>1. g[1] = fs[1] /\ fs[1].offset = 0
    BY <1>1, <1>5 DEF TiledTo
  <2>2. ASSUME NEW k \in 2 .. n + 1 PROVE g[k].offset = FieldEnd(g[k - 1])
    <3>1. CASE k \in 2 .. n
      <4>1. k \in 1 .. n /\ k - 1 \in 1 .. n
        BY <1>1, <3>1
      <4>2. QED
        BY <1>1, <3>1, <4>1 DEF TiledTo
    <3>2. CASE k = n + 1
      <4>1. g[k] = f /\ g[k - 1] = fs[n]
        BY <1>1, <1>5, <3>2
      <4>2. QED
        BY <4>1
    <3>3. QED
      BY <1>1, <3>1, <3>2
  <2>3. QED
    BY <1>1, <2>1, <2>2 DEF TiledTo
<1>10. FieldEnd(g[Len(g)]) = size
  BY <1>1
<1>11. QED
  BY <1>1, <1>4, <1>7, <1>8, <1>9, <1>10 DEF Tiled, g

\* Nothing in a struct that is laid out in order is a bit field.
LEMMA NoBitFields ==
  ASSUME NEW fs, IsSeq(fs), NEW size, Orderly(fs, size)
  PROVE  ~ HasBitFields(fs)
<1>1. DOMAIN fs = 1 .. Len(fs)
  BY LenOfSeq
<1>2. \A k \in 1 .. Len(fs) : fs[k].bit_size = 0
  BY DEF Orderly
<1>3. QED
  BY <1>1, <1>2 DEF HasBitFields, IsBitField

LEMMA SpareFacts ==
  ASSUME NEW name, NEW offset \in Nat, NEW size \in Nat
  PROVE  LET f == SpareField(name, offset, size)
         IN  /\ f.name = name /\ f.offset = offset /\ f.dims = << >> /\ f.bit_size = 0
             /\ FieldEnd(f) = offset + size
<1>1. IsDims(<< >>)
  BY DEF IsDims
<1>2. Elements(<< >>) = 1 /\ 1 * size = size
  BY <1>1, DimsFacts
<1>3. QED
  BY <1>2 DEF SpareField, FieldEnd

LEMMA SizeFits ==
  ASSUME PaddingsFit, NEW d \in DOMAIN Dies, Plain(d), NEW end \in Nat,
         end = Dies[d].byte_size, end * 8 < Modulus, NEW s \in 1 .. end
  PROVE  PaddingSize(s) = s
<1>1. s * 8 \in Nat /\ s * 8 < Modulus
  BY BoundsAssumption
<1>2. Times(s, 8) = s * 8
  <2> DEFINE x == s * 8
  <2>1. x \in Nat /\ x < Modulus
    BY <1>1
  <2> HIDE DEF x
  <2>2. x % Modulus = x
    BY <2>1, Small
  <2>3. QED
    BY <2>2 DEF Times, x
<1>3. s * 8 \in DOMAIN paddings => paddings[s * 8] = s
  BY DEF PaddingsFit
<1>4. QED
  BY <1>2, <1>3 DEF PaddingSize

\* Every padding type that a step leaves was there or has the size its name
\* says.
SizesNamed ==
  \A b \in DOMAIN paddings' :
    \/ b \in DOMAIN paddings /\ paddings'[b] = paddings[b]
    \/ paddings'[b] \in Nat /\ b = paddings'[b] * 8

LEMMA PaddingAdded ==
  ASSUME NEW end \in Nat, end * 8 < Modulus, NEW s \in 1 .. end, AddPaddingType(s)
  PROVE  SizesNamed
<1> DEFINE x == s * 8
<1>1. x \in Nat /\ x < Modulus
  BY BoundsAssumption
<1>2. Times(s, 8) = x
  <2> HIDE DEF x
  <2>1. x % Modulus = x
    BY <1>1, Small
  <2>2. QED
    BY <2>1 DEF Times, x
<1> HIDE DEF x
<1>3. paddings' = [ b \in DOMAIN paddings \cup {x} |->
                      IF b \in DOMAIN paddings THEN paddings[b] ELSE s ]
  BY <1>2 DEF AddPaddingType
<1>4. \A b \in DOMAIN paddings' :
        \/ b \in DOMAIN paddings /\ paddings'[b] = paddings[b]
        \/ b = x /\ paddings'[b] = s
  BY <1>3
<1>5. QED
  BY <1>4 DEF SizesNamed, x

-----------------------------------------------------------------------------
(* The members of a plain struct.                                          *)

ItemOf(m) == << m.name, m.location, SizeOf(m), m.dims >>

LEMMA ItemsAre ==
  ASSUME NEW d
  PROVE  Items(d) = { ItemOf(Dies[d].members[k]) : k \in DataMembers(d) }
BY DEF Items, Layout, ItemOf

LEMMA ItemOfFacts ==
  ASSUME NEW m
  PROVE  /\ ItemOf(m)[1] = m.name /\ ItemOf(m)[2] = m.location
         /\ ItemOf(m)[4] = m.dims /\ ItemEnd(ItemOf(m)) = EndOf(m)
BY DEF ItemOf, ItemEnd, EndOf

\* What is known of a struct and each data member of it.
LEMMA PlainStruct ==
  ASSUME NEW d \in DOMAIN Dies, Plain(d)
  PROVE  /\ Dies[d].byte_size \in Nat /\ Dies[d].byte_size * 8 < Modulus
         /\ Dies[d].byte_size # Absent
         /\ Dies[d].members # << >>
         /\ DataMembers(d) \subseteq 1 .. Len(Dies[d].members)
<1>1. PICK k \in DataMembers(d) : Dies[d].members[k].location = 0
  BY DEF Plain
<1>2. k \in DOMAIN Dies[d].members
  BY DEF DataMembers
<1>3. Dies[d].members # << >>
  BY <1>2, NothingInEmpty
<1>4. IsDie(Dies[d])
  BY DiesAssumption
<1>5. Dies[d].byte_size # Absent /\ Dies[d].byte_size \in 0 .. Modulus - 1
  BY <1>3, <1>4 DEF IsDie
<1>6. DOMAIN Dies[d].members = 1 .. Len(Dies[d].members)
  <2>1. Dies[d].members \in Seq(Range(Dies[d].members))
    BY <1>4 DEF IsDie
  <2>2. QED
    BY <2>1
<1>7. Dies[d].byte_size * 8 < Modulus
  BY DEF Plain
<1>8. Dies[d].byte_size \in Nat
  <2> DEFINE b == Dies[d].byte_size
  <2>1. b \in 0 .. Modulus - 1
    BY <1>5
  <2> HIDE DEF b
  <2>2. b \in Nat
    BY <2>1, BoundsAssumption
  <2>3. QED
    BY <2>2 DEF b
<1>9. QED
  BY <1>3, <1>5, <1>6, <1>7, <1>8 DEF DataMembers

LEMMA PlainMember ==
  ASSUME NEW d \in DOMAIN Dies, Plain(d), NEW k \in DataMembers(d)
  PROVE  LET m == Dies[d].members[k]
         IN  /\ k \in 1 .. Len(Dies[d].members) /\ k \in Nat
             /\ Readable(m) /\ m.bit_size = 0 /\ NoUpperBound \notin Range(m.dims)
             /\ m.location \in Nat /\ SizeOf(m) \in Nat /\ IsDims(m.dims)
             /\ m.location <= EndOf(m) /\ EndOf(m) <= Dies[d].byte_size
             /\ m.location % Modulus = m.location
<1> DEFINE m == Dies[d].members[k]
           o == m.location
           e == EndOf(m)
           b == Dies[d].byte_size
<1>1. k \in 1 .. Len(Dies[d].members) /\ b \in Nat /\ b * 8 < Modulus
  BY PlainStruct
<1>2. Readable(m) /\ m.bit_size = 0 /\ NoUpperBound \notin Range(m.dims) /\ e <= b
  BY DEF Plain
<1>3. /\ IsMember(m)
      /\ m.type \in DOMAIN Dies => Dies[m.type].byte_size # Absent
  BY <1>1, MemberFacts
<1>4. o \in Nat /\ IsDims(m.dims)
  BY <1>2, <1>3 DEF IsMember, Readable, HasPlace, IsDims
<1>5. SizeOf(m) \in Nat
  BY <1>3, SizePresent DEF SizeOf, IsMember
<1> DEFINE x == Elements(m.dims)
           s == SizeOf(m)
<1>6. x \in Nat
  BY <1>4, DimsFacts
<1>7. e = o + x * s
  BY DEF EndOf
<1> HIDE DEF m, o, e, b, x, s
<1>8. x * s \in Nat
  BY <1>5, <1>6 DEF s
<1> DEFINE p == x * s
<1> HIDE DEF p
<1>9. p \in Nat /\ e = o + p
  BY <1>7, <1>8 DEF p
<1>10. o <= e /\ o < Modulus
  BY <1>1, <1>2, <1>4, <1>9, BoundsAssumption
<1>11. o % Modulus = o
  BY <1>4, <1>10, Small
<1>12. k \in Nat
  BY <1>1
<1>13. QED
  BY <1>1, <1>2, <1>4, <1>5, <1>10, <1>11, <1>12 DEF m, o, e, b, s

LEMMA PlainItemsOf ==
  ASSUME NEW d \in DOMAIN Dies, Plain(d)
  PROVE  PlainItems(Items(d), Dies[d].byte_size)
<1> DEFINE ms == Dies[d].members
           size == Dies[d].byte_size
<1>1. size \in Nat /\ size * 8 < Modulus
  BY PlainStruct
<1>2. Items(d) = { ItemOf(ms[k]) : k \in DataMembers(d) }
  BY ItemsAre
<1>3. ASSUME NEW k \in DataMembers(d)
      PROVE  LET y == ItemOf(ms[k])
             IN  /\ NoUpperBound \notin Range(y[4]) /\ ItemEnd(y) <= size
                 /\ y[4] # << >> => \/ ItemEnd(y) = size
                                    \/ \E z \in Items(d) : z # y /\ ItemEnd(y) <= z[2]
  <2>1. NoUpperBound \notin Range(ms[k].dims) /\ EndOf(ms[k]) <= size
    BY PlainMember
  <2>2. ASSUME ms[k].dims # << >>, EndOf(ms[k]) # size
        PROVE  \E z \in Items(d) : z # ItemOf(ms[k]) /\ EndOf(ms[k]) <= z[2]
    <3>1. PICK j \in DataMembers(d) : j # k /\ EndOf(ms[k]) <= ms[j].location
      BY <2>2 DEF Plain
    <3>2. ms[j].name # ms[k].name
      <4>1. j \in Nat /\ k \in Nat
        BY PlainMember
      <4>2. CASE j < k
        BY <4>2 DEF Plain
      <4>3. CASE k < j
        BY <4>3 DEF Plain
      <4>4. QED
        BY <3>1, <4>1, <4>2, <4>3
    <3>3. ItemOf(ms[j]) \in Items(d) /\ ItemOf(ms[j]) # ItemOf(ms[k])
      BY <1>2, <3>2, ItemOfFacts
    <3>4. EndOf(ms[k]) <= ItemOf(ms[j])[2]
      BY <3>1, ItemOfFacts
    <3>5. QED
      BY <3>3, <3>4
  <2>3. QED
    BY <2>1, <2>2, ItemOfFacts
<1>4. ASSUME NEW j \in DataMembers(d), NEW k \in DataMembers(d), ms[j].name = ms[k].name
      PROVE  j = k
  <2>1. j \in Nat /\ k \in Nat
    BY PlainMember
  <2>2. CASE j < k
    BY <1>4, <2>2 DEF Plain
  <2>3. CASE k < j
    BY <1>4, <2>3 DEF Plain
  <2>4. QED
    BY <2>1, <2>2, <2>3
<1>5. \A y, z \in Items(d) : y[1] = z[1] => y = z
  BY <1>2, <1>4, ItemOfFacts
<1>6. \E y \in Items(d) : y[2] = 0
  <2>1. PICK k \in DataMembers(d) : ms[k].location = 0
    BY DEF Plain
  <2>2. ItemOf(ms[k]) \in Items(d) /\ ItemOf(ms[k])[2] = 0
    BY <1>2, <2>1, ItemOfFacts
  <2>3. QED
    BY <2>2
<1>7. \A y \in Items(d) :
        /\ NoUpperBound \notin Range(y[4]) /\ ItemEnd(y) <= size
        /\ y[4] # << >> => \/ ItemEnd(y) = size
                           \/ \E z \in Items(d) : z # y /\ ItemEnd(y) <= z[2]
  BY <1>2, <1>3
<1>8. QED
  BY <1>1, <1>5, <1>6, <1>7 DEF PlainItems

LEMMA NotPaddingItems ==
  ASSUME PaddingNames, NEW d \in DOMAIN Dies
  PROVE  NotPadding(Items(d))
<1>1. ASSUME NEW k \in DataMembers(d)
      PROVE  LET y == ItemOf(Dies[d].members[k])
             IN  y[1] # "_spare_end" /\ \A i \in Nat : y[1] # Spare(i)
  <2>1. k \in DOMAIN Dies[d].members
    BY DEF DataMembers
  <2>2. QED
    BY <2>1, ItemOfFacts DEF PaddingNames
<1>2. QED
  BY <1>1, ItemsAre DEF NotPadding

\* The field made of a member of a plain struct.
LEMMA NewItem ==
  ASSUME NEW d \in DOMAIN Dies, Plain(d), NEW k \in DataMembers(d), NEW type,
         NEW size, size = SizeOf(Dies[d].members[k])
  PROVE  LET m == Dies[d].members[k]
             f == NewField(m, type, size)
         IN  Item(f) = ItemOf(m) /\ f.bit_size = 0 /\ Item(f) \in Items(d) /\ f.name = m.name
<1> DEFINE m == Dies[d].members[k]
           f == NewField(m, type, size)
<1>1. m.bit_size = 0 /\ m.location % Modulus = m.location
  BY PlainMember
<1>2. f.name = m.name /\ f.offset = m.location /\ f.size = size /\ f.dims = m.dims /\ f.bit_size = 0
  BY <1>1 DEF NewField
<1>3. ItemOf(m) \in Items(d)
  BY ItemsAre
<1>4. QED
  BY <1>2, <1>3 DEF Item, ItemOf

\* A member that comes later in the DIE does not begin before this one ends.
LEMMA LaterBehind ==
  ASSUME NEW d \in DOMAIN Dies, Plain(d), NEW k \in DataMembers(d), NEW fs,
         \A j \in 1 .. Len(Dies[d].members) :
           j <= k - 1 /\ Readable(Dies[d].members[j])
             => Stored(fs, Dies[d].members[j].name),
         NEW y \in Items(d)
  PROVE  \/ Stored(fs, y[1])
         \/ y = ItemOf(Dies[d].members[k])
         \/ EndOf(Dies[d].members[k]) <= y[2]
<1>1. PICK j \in DataMembers(d) : y = ItemOf(Dies[d].members[j])
  BY ItemsAre
<1>2. /\ j \in 1 .. Len(Dies[d].members) /\ j \in Nat /\ k \in Nat
      /\ Readable(Dies[d].members[j])
  BY PlainMember
<1>3. y[1] = Dies[d].members[j].name /\ y[2] = Dies[d].members[j].location
  BY <1>1, ItemOfFacts
<1>4. CASE j < k
  <2>1. j <= k - 1
    BY <1>2, <1>4
  <2>2. QED
    BY <1>2, <1>3, <2>1
<1>5. CASE k < j
  BY <1>3, <1>5 DEF Plain
<1>6. QED
  BY <1>1, <1>2, <1>4, <1>5

-----------------------------------------------------------------------------
(* Every action keeps the layout of plain structs.                         *)

\* What a step must do for a symbol n of the struct d.
StepLaid(n, d) ==
  /\ LaidOut(n, d)'
  /\ n \in DOMAIN symbols /\ Tiled(symbols[n].fields, Items(d), Dies[d].byte_size)
       => /\ symbols'[n].fields = symbols[n].fields
          /\ stack # << >> /\ Top.symbol = n => paddings' = paddings

\* Only a struct with members comes to the loop over the gaps.
GapsStep ==
  stack' # << >> /\ Top'.phase = "gaps" =>
    /\ Top'.die = Top.die
    /\ Members # << >> \/ (stack # << >> /\ Top.phase = "gaps")

AllStepsLaid ==
  /\ ReadNames' /\ GapsStep
  /\ \A n \in DOMAIN symbols' : PlainSymbol(n) => \A d \in DiesOf(n) : StepLaid(n, d)

LEMMA SymbolFacts ==
  ASSUME NEW n, PlainSymbol(n), NEW d \in DiesOf(n), NEW e \in DiesOf(n)
  PROVE  /\ d \in DOMAIN Dies /\ n \in NamesOf(d) /\ Plain(d)
         /\ Items(d) = Items(e) /\ Dies[d].byte_size = Dies[e].byte_size
<1>1. d \in DOMAIN Dies /\ n \in NamesOf(d)
  BY DEF DiesOf
<1>2. Plain(d) /\ Layout(d) = Layout(e)
  BY DEF PlainSymbol
<1>3. Layout(d)[2] = Layout(e)[2] /\ Layout(d)[1] = Layout(e)[1]
  BY <1>2
<1>4. Layout(d)[1] = Dies[d].byte_size /\ Layout(e)[1] = Dies[e].byte_size
  BY DEF Layout
<1>5. QED
  BY <1>1, <1>2, <1>3, <1>4 DEF Items

LEMMA SizeOfPlain ==
  ASSUME TInv, NEW n \in DOMAIN symbols, n # "", PlainSymbol(n), NEW d \in DiesOf(n)
  PROVE  symbols[n].byte_size = Dies[d].byte_size
<1>1. SizeKnown(n, symbols[n].byte_size)
  BY DEF TInv, TableOK
<1>2. PICK e \in DiesOf(n) : symbols[n].byte_size \in SizesRead(e)
  BY <1>1 DEF SizeKnown
<1>3. e \in DOMAIN Dies /\ Plain(e) /\ Dies[e].byte_size = Dies[d].byte_size
  BY SymbolFacts
<1>4. Dies[e].byte_size # Absent
  BY <1>3, PlainStruct
<1>5. SizesRead(e) = {Dies[e].byte_size}
  BY <1>3, <1>4, SizePresent
<1>6. QED
  BY <1>2, <1>3, <1>5

\* A symbol that a step leaves alone, while no padding is made in it.
LEMMA OtherLaid ==
  ASSUME NEW n \in DOMAIN symbols, NEW d, LaidOut(n, d),
         symbols'[n].fields = symbols[n].fields, ~ InGaps(n), ~ InGaps(n)',
         HasBeenRead(n)' => HasBeenRead(n)
  PROVE  LaidOut(n, d)'
BY DEF LaidOut, Laid, Tiled, Unpadded, Full, Orderly, TiledTo

\* Until it is filled, a symbol is laid out.
LEMMA NewLaid ==
  ASSUME NEW n, NEW d, symbols'[n].fields = << >>, ~ InGaps(n)', ~ HasBeenRead(n)'
  PROVE  LaidOut(n, d)'
BY UnpaddedNothing DEF LaidOut, Laid, Tiled, Unpadded, Full, Orderly, TiledTo

\* Symbols are added, but no fields.
FieldsUntouched ==
  /\ \A n \in DOMAIN symbols : n \in DOMAIN symbols' /\ symbols'[n].fields = symbols[n].fields
  /\ \A n \in DOMAIN symbols' : n \in DOMAIN symbols \/ symbols'[n].fields = << >>

LEMMA AddSymbolUntouched ==
  ASSUME NEW name, NEW size, AddSymbol(name, size)
  PROVE  FieldsUntouched
<1>1. CASE name \in DOMAIN symbols
  BY <1>1 DEF AddSymbol, FieldsUntouched
<1>2. CASE name \notin DOMAIN symbols
  <2> DEFINE U == [ n \in DOMAIN symbols \cup {name} |->
                      IF n = name THEN [byte_size |-> size, fields |-> << >>]
                      ELSE symbols[n] ]
  <2>1. symbols' = U
    BY <1>2 DEF AddSymbol
  <2>2. DOMAIN U = DOMAIN symbols \cup {name}
    OBVIOUS
  <2>3. \A n \in DOMAIN symbols : U[n] = symbols[n]
    BY <1>2
  <2>4. U[name].fields = << >>
    OBVIOUS
  <2> HIDE DEF U
  <2>5. QED
    BY <2>1, <2>2, <2>3, <2>4 DEF FieldsUntouched
<1>3. QED
  BY <1>1, <1>2

\* A step outside the loop over the gaps that adds no field.
LEMMA QuietStep ==
  ASSUME LInv, FieldsUntouched, read' = read, paddings' = paddings,
         stack # << >> => Top.phase # "gaps", stack' # << >> => Top'.phase # "gaps"
  PROVE  AllStepsLaid
<1>1. ReadNames'
  BY DEF LInv, ReadNames
<1>2. ASSUME NEW n \in DOMAIN symbols', PlainSymbol(n), NEW d \in DiesOf(n)
      PROVE  StepLaid(n, d)
  <2>1. ~ InGaps(n) /\ ~ InGaps(n)'
    BY DEF InGaps
  <2>2. HasBeenRead(n)' <=> HasBeenRead(n)
    BY DEF HasBeenRead
  <2>3. CASE n \in DOMAIN symbols
    <3>1. LaidOut(n, d) /\ symbols'[n].fields = symbols[n].fields
      BY <1>2, <2>3 DEF LInv, AllLaidOut, FieldsUntouched
    <3>2. LaidOut(n, d)'
      BY <2>1, <2>2, <2>3, <3>1, OtherLaid
    <3>3. QED
      BY <3>1, <3>2 DEF StepLaid
  <2>4. CASE n \notin DOMAIN symbols
    <3>1. symbols'[n].fields = << >>
      BY <1>2, <2>4 DEF FieldsUntouched
    <3>2. ~ HasBeenRead(n)
      BY <2>4 DEF HasBeenRead, LInv, TInv, ReadOK
    <3>3. LaidOut(n, d)'
      BY <2>1, <2>2, <3>1, <3>2, NewLaid
    <3>4. QED
      BY <2>4, <3>3 DEF StepLaid
  <2>5. QED
    BY <2>3, <2>4
<1>3. QED
  BY <1>1, <1>2 DEF AllStepsLaid, GapsStep

LEMMA SameUntouched == ASSUME symbols' = symbols PROVE FieldsUntouched
BY DEF FieldsUntouched

LEMMA VisitStructLaid ==
  ASSUME LInv, NEW d \in DOMAIN Dies, VisitStruct(d) PROVE AllStepsLaid
<1> DEFINE c == Frame(d, Dies[d].name)
<1>1. stack = << >> /\ UNCHANGED << paddings, read >>
  BY DEF VisitStruct
<1>2. CASE Dies[d].name = ""
  <2>1. symbols' = symbols /\ stack' = << >>
    BY <1>1, <1>2 DEF VisitStruct
  <2>2. QED
    BY <1>1, <2>1, SameUntouched, QuietStep
<1>3. CASE Dies[d].name # ""
  <2>1. PICK size : AddSymbol(Dies[d].name, size)
    BY <1>3 DEF VisitStruct
  <2>2. stack' = << c >>
    BY <1>3 DEF VisitStruct
  <2>3. Top' = c
    BY <2>2 DEF Top
  <2>4. Top'.phase = "members"
    BY <2>3 DEF Frame
  <2>5. QED
    BY <1>1, <2>1, <2>4, AddSymbolUntouched, QuietStep
<1>4. QED
  BY <1>2, <1>3

LEMMA VisitTypedefLaid ==
  ASSUME LInv, NEW t \in todo, VisitTypedef(t[1], t[2]) PROVE AllStepsLaid
<1> DEFINE d == t[1]
           c == Frame(d, SymbolName(d, t[2]))
<1>1. stack = << >> /\ UNCHANGED << paddings, read >>
  BY DEF VisitTypedef
<1>2. CASE Dies[d].byte_size = Absent
  <2>1. AddSymbol("", 0) /\ stack' = << >>
    BY <1>1, <1>2 DEF VisitTypedef
  <2>2. QED
    BY <1>1, <2>1, AddSymbolUntouched, QuietStep
<1>3. CASE Dies[d].byte_size # Absent
  <2>1. AddSymbol(SymbolName(d, t[2]), Dies[d].byte_size) /\ stack' = << c >>
    BY <1>3 DEF VisitTypedef
  <2>2. Top' = c
    BY <2>1 DEF Top
  <2>3. Top'.phase = "members"
    BY <2>2 DEF Frame
  <2>4. QED
    BY <1>1, <2>1, <2>3, AddSymbolUntouched, QuietStep
<1>4. QED
  BY <1>2, <1>3

LEMMA SkipMemberLaid == ASSUME LInv, SkipMember PROVE AllStepsLaid
<1>1. /\ stack # << >> /\ Top.phase = "members" /\ Goto(NextMember) /\ AtMember
      /\ UNCHANGED << symbols, paddings, read >>
  BY DEF SkipMember, AtMember
<1>2. NextMember \in Frames /\ NextMember.phase = "members"
  BY <1>1, NextFacts DEF LInv
<1>3. Top' = NextMember
  BY <1>1, <1>2, TopAfterGoto DEF LInv
<1>4. QED
  BY <1>1, <1>2, <1>3, SameUntouched, QuietStep

LEMMA EnterStructLaid == ASSUME LInv, EnterStruct PROVE AllStepsLaid
<1> DEFINE m == Members[Top.next]
           d == m.type
           name == SymbolName(d, IF m.alias # "" THEN m.alias ELSE m.name)
           c == Frame(d, name)
<1>1. /\ stack # << >> /\ Top.phase = "members" /\ UNCHANGED << paddings, read >>
      /\ AddSymbol(name, Dies[d].byte_size) /\ stack' = << c >> \o stack
  BY DEF EnterStruct, AtMember
<1>2. stack \in Seq(Frames)
  BY DEF LInv, TInv, MInv, IInv, StackOK
<1>3. Top' = c
  <2> HIDE DEF c
  <2>1. Head(<< c >> \o stack) = c
    BY <1>2
  <2>2. QED
    BY <1>1, <2>1 DEF Top
<1>4. Top'.phase = "members"
  BY <1>3 DEF Frame
<1> HIDE DEF name, d, c
<1>5. QED
  BY <1>1, <1>4, AddSymbolUntouched, QuietStep

LEMMA SiblingErrorLaid == ASSUME LInv, SiblingError PROVE AllStepsLaid
<1> DEFINE c == [Top EXCEPT !.phase = "done"]
<1>1. /\ stack # << >> /\ Top.phase = "members" /\ Goto(c)
      /\ UNCHANGED << symbols, paddings, read >>
  BY DEF SiblingError
<1>2. c \in Frames /\ c.phase = "done"
  BY <1>1, TopLinks, DoneFrame DEF LInv
<1>3. Top' = c
  BY <1>1, <1>2, TopAfterGoto DEF LInv
<1>4. QED
  BY <1>1, <1>2, <1>3, SameUntouched, QuietStep

\* What the fields of symbol n become when member k of a struct that has
\* the name n is stored.
LEMMA StoreMember ==
  ASSUME NEW e \in DOMAIN Dies, Plain(e), NEW k \in 1 .. Len(Dies[e].members),
         Readable(Dies[e].members[k]), NEW type, NEW fs, IsSeq(fs),
         \A j \in 1 .. Len(Dies[e].members) :
           j <= k - 1 /\ Readable(Dies[e].members[j])
             => Stored(fs, Dies[e].members[j].name),
         NEW size, size = SizeOf(Dies[e].members[k])
  PROVE  LET f == NewField(Dies[e].members[k], type, size)
         IN  /\ Full(fs, Items(e)) => AddField(fs, f) = fs
             /\ Unpadded(fs, Items(e), Dies[e].byte_size)
                  => Unpadded(AddField(fs, f), Items(e), Dies[e].byte_size)
<1> DEFINE m == Dies[e].members[k]
           f == NewField(m, type, size)
           items == Items(e)
           b == Dies[e].byte_size
<1>1. k \in DataMembers(e)
  BY MemberFacts DEF DataMembers, Readable, HasPlace
<1>2. /\ Item(f) = ItemOf(m) /\ f.bit_size = 0 /\ Item(f) \in items
  BY <1>1, NewItem
<1>3. PlainItems(items, b)
  BY PlainItemsOf
<1>4. DOMAIN fs = 1 .. Len(fs)
  BY AppendFacts
<1>5. FieldEnd(f) = EndOf(m)
  <2>1. ItemEnd(Item(f)) = FieldEnd(f)
    BY ItemOfField
  <2>2. ItemEnd(ItemOf(m)) = EndOf(m)
    BY ItemOfFacts
  <2>3. QED
    BY <1>2, <2>1, <2>2
<1>6. ASSUME NEW y \in items
      PROVE  \/ \E j \in 1 .. Len(fs) : fs[j].name = y[1]
             \/ y = Item(f)
             \/ FieldEnd(f) <= y[2]
  <2>1. \/ Stored(fs, y[1])
        \/ y = ItemOf(m)
        \/ EndOf(m) <= y[2]
    BY <1>1, <1>6, LaterBehind
  <2>2. QED
    BY <1>2, <1>4, <1>5, <2>1 DEF Stored
<1> HIDE DEF f, items, b, m
<1>7. Full(fs, items) => AddField(fs, f) = fs
  BY <1>2, StoreAgain
<1>8. Unpadded(fs, items, b) => Unpadded(AddField(fs, f), items, b)
  BY <1>2, <1>3, <1>6, StoreItem
<1>9. QED
  BY <1>7, <1>8 DEF f, items, b, m

LEMMA OneSymbolSet ==
  ASSUME TInv, NEW n \in DOMAIN symbols, NEW fs,
         symbols' = [symbols EXCEPT ![n].fields = fs]
  PROVE  /\ DOMAIN symbols' = DOMAIN symbols /\ symbols'[n].fields = fs
         /\ \A x \in DOMAIN symbols : x # n => symbols'[x].fields = symbols[x].fields
<1>1. IsTable(symbols) /\ IsSymbol(symbols[n])
  BY DEF TInv, MInv, IInv, IsTable
<1>2. symbols' = [x \in DOMAIN symbols |->
                    IF x = n THEN [symbols[n] EXCEPT !.fields = fs] ELSE symbols[x]]
  BY <1>1 DEF IsTable
<1>3. [symbols[n] EXCEPT !.fields = fs].fields = fs
  BY <1>1 DEF IsSymbol
<1>4. QED
  BY <1>2, <1>3

\* A member is stored in symbol n.
LEMMA MemberLaid ==
  ASSUME LInv, NEW n \in DOMAIN symbols, NEW e \in DOMAIN Dies, n \in NamesOf(e),
         NEW k \in 1 .. Len(Dies[e].members), Readable(Dies[e].members[k]),
         StoredUpTo(e, k - 1, n, symbols), NEW type, NEW size,
         Plain(e) => size = SizeOf(Dies[e].members[k]),
         symbols' = [symbols EXCEPT ![n].fields =
                       AddField(symbols[n].fields, NewField(Dies[e].members[k], type, size))],
         read' = read, paddings' = paddings,
         stack # << >> => Top.phase # "gaps", stack' # << >> => Top'.phase # "gaps"
  PROVE  AllStepsLaid
<1> DEFINE old == symbols[n].fields
           new == AddField(old, NewField(Dies[e].members[k], type, size))
<1>1. ReadNames'
  BY DEF LInv, ReadNames
<1>2. symbols' = [symbols EXCEPT ![n].fields = new]
  OBVIOUS
<1>3. IsSeq(old)
  BY DEF LInv, TInv, MInv, IInv, IsTable, IsSymbol
<1>4. \A j \in 1 .. Len(Dies[e].members) :
        j <= k - 1 /\ Readable(Dies[e].members[j])
          => Stored(old, Dies[e].members[j].name)
  BY DEF StoredUpTo
<1>5. Plain(e) => /\ Full(old, Items(e)) => new = old
                  /\ Unpadded(old, Items(e), Dies[e].byte_size)
                       => Unpadded(new, Items(e), Dies[e].byte_size)
  <2> HIDE DEF old
  <2>1. QED
    BY <1>3, <1>4, StoreMember
<1> HIDE DEF new
<1>6. /\ DOMAIN symbols' = DOMAIN symbols /\ symbols'[n].fields = new
      /\ \A x \in DOMAIN symbols : x # n => symbols'[x].fields = symbols[x].fields
  BY <1>2, OneSymbolSet DEF LInv
<1>7. ASSUME NEW x \in DOMAIN symbols', PlainSymbol(x), NEW d \in DiesOf(x)
      PROVE  StepLaid(x, d)
  <2>1. ~ InGaps(x) /\ ~ InGaps(x)'
    BY DEF InGaps
  <2>2. HasBeenRead(x)' <=> HasBeenRead(x)
    BY DEF HasBeenRead
  <2>3. x \in DOMAIN symbols /\ LaidOut(x, d)
    BY <1>6, <1>7 DEF LInv, AllLaidOut
  <2>4. CASE symbols'[x].fields = symbols[x].fields
    <3>1. LaidOut(x, d)'
      BY <2>1, <2>2, <2>3, <2>4, OtherLaid
    <3>2. QED
      BY <2>4, <3>1 DEF StepLaid
  <2>5. CASE symbols'[x].fields # symbols[x].fields
    <3>1. x = n
      BY <1>6, <2>3, <2>5
    <3>2. e \in DiesOf(n)
      BY DEF DiesOf
    <3>3. Plain(e) /\ Items(d) = Items(e) /\ Dies[d].byte_size = Dies[e].byte_size
      BY <1>7, <3>1, <3>2, SymbolFacts
    <3>4. ~ Full(old, Items(e))
      BY <1>5, <1>6, <2>5, <3>1, <3>3
    <3>5. ~ Tiled(old, Items(e), Dies[e].byte_size)
      BY <3>4 DEF Tiled
    <3>6. Unpadded(old, Items(e), Dies[e].byte_size) /\ ~ HasBeenRead(x)
      BY <2>1, <2>3, <3>1, <3>3, <3>5 DEF LaidOut, Laid
    <3>7. Unpadded(symbols'[x].fields, Items(e), Dies[e].byte_size)
      BY <1>5, <1>6, <3>1, <3>3, <3>6
    <3>8. LaidOut(x, d)'
      BY <2>1, <2>2, <3>3, <3>6, <3>7
         DEF LaidOut, Laid, Unpadded, Tiled, Full, Orderly, TiledTo
    <3>9. QED
      BY <3>1, <3>3, <3>5, <3>8 DEF StepLaid
  <2>6. QED
    BY <2>4, <2>5
<1>8. QED
  BY <1>1, <1>7 DEF AllStepsLaid, GapsStep

LEMMA TopStored ==
  ASSUME TInv, stack # << >>
  PROVE  /\ StoredUpTo(Top.die, Top.next - 1, Top.symbol, symbols)
         /\ Top.phase = "gaps" => Top.next > Len(Dies[Top.die].members)
         /\ Len(stack) # 1 => StoredUpTo(stack[2].die, stack[2].next - 1, stack[2].symbol, symbols)
<1>1. /\ Top = stack[1] /\ stack \in Seq(Frames) /\ Len(stack) \in Nat \ {0}
  BY TopLinks
<1>2. StackStores(stack, symbols)
  BY DEF TInv, MInv
<1>3. CallStores(stack[1], symbols) /\ (Len(stack) # 1 => CallStores(stack[2], symbols))
  <2>1. 1 \in 1 .. Len(stack) /\ (Len(stack) # 1 => 2 \in 1 .. Len(stack))
    <3> DEFINE l == Len(stack)
    <3>1. l \in Nat \ {0}
      BY <1>1
    <3> HIDE DEF l
    <3>2. 1 \in 1 .. l /\ (l # 1 => 2 \in 1 .. l)
      BY <3>1
    <3>3. QED
      BY <3>2 DEF l
  <2>2. QED
    BY <1>2, <2>1 DEF StackStores
<1>4. QED
  BY <1>1, <1>3 DEF CallStores

LEMMA ReadMemberLaid == ASSUME LInv, ReadMember PROVE AllStepsLaid
<1> DEFINE e == Top.die
           k == Top.next
           n == Top.symbol
           m == Dies[e].members[k]
<1>1. TInv /\ AtMember /\ stack # << >> /\ Top.phase = "members"
  BY DEF ReadMember, AtMember, LInv
<1>2. /\ e \in DOMAIN Dies /\ n \in NamesOf(e) /\ n \in DOMAIN symbols
      /\ Fields = symbols[n].fields
  BY <1>1, TopLinks DEF Known
<1>3. k \in 1 .. Len(Dies[e].members) /\ Members[k] = m
      /\ NextMember \in Frames /\ NextMember.phase = "members"
  BY <1>1, NextFacts
<1>4. /\ Readable(m) /\ m.type = "leaf" /\ Goto(NextMember)
      /\ SetFields(AddField(Fields, NewField(m, "leaf", m.size)))
      /\ UNCHANGED << paddings, read >>
  BY <1>3 DEF ReadMember
<1>5. Top'.phase = "members"
  BY <1>1, <1>3, <1>4, TopAfterGoto
<1>6. StoredUpTo(e, k - 1, n, symbols)
  BY <1>1, TopStored
<1>7. m.size = SizeOf(m)
  BY <1>4, DiesAssumption DEF SizeOf
<1>8. symbols' = [symbols EXCEPT ![n].fields =
                    AddField(symbols[n].fields, NewField(m, "leaf", m.size))]
  BY <1>2, <1>4 DEF SetFields
<1> DEFINE z == m.size
<1>9. z = SizeOf(Dies[e].members[k])
  BY <1>7
<1>10. symbols' = [symbols EXCEPT ![n].fields =
                    AddField(symbols[n].fields, NewField(Dies[e].members[k], "leaf", z))]
  BY <1>8
<1>11. Readable(Dies[e].members[k])
  BY <1>4
<1> HIDE DEF z, m, e, k, n
<1>12. QED
  BY <1>1, <1>2, <1>3, <1>4, <1>5, <1>6, <1>9, <1>10, <1>11, MemberLaid

\* The size of the struct that was read is that of the member's type.
LEMMA SizeReturned ==
  ASSUME TInv, stack # << >>, NEW e \in DOMAIN Dies, Plain(e),
         NEW k \in 1 .. Len(Dies[e].members), Readable(Dies[e].members[k]),
         Dies[e].members[k].type = Top.die
  PROVE  symbols[Top.symbol].byte_size = SizeOf(Dies[e].members[k])
<1> DEFINE m == Dies[e].members[k]
           n == Top.symbol
<1>1. /\ Top.die \in DOMAIN Dies /\ n \in NamesOf(Top.die) /\ n \in DOMAIN symbols /\ n \in Names
  BY TopLinks DEF Known
<1>2. k \in DataMembers(e) /\ Dies[Top.die].byte_size # Absent
  BY <1>1, MemberFacts DEF DataMembers, Readable, HasPlace
<1>3. SizeOf(m) = Dies[Top.die].byte_size
  BY <1>1 DEF SizeOf
<1>4. \A d \in DiesOf(n) : Dies[d].byte_size = Dies[Top.die].byte_size
  BY <1>1, <1>2 DEF Plain
<1>5. PICK d \in DiesOf(n) : symbols[n].byte_size \in SizesRead(d)
  BY <1>1 DEF TInv, TableOK, SizeKnown, Names
<1>6. d \in DOMAIN Dies /\ Dies[d].byte_size = Dies[Top.die].byte_size
  BY <1>4 DEF DiesOf
<1>7. SizesRead(d) = {Dies[d].byte_size}
  BY <1>2, <1>6, SizePresent
<1>8. QED
  BY <1>3, <1>5, <1>6, <1>7

LEMMA ReturnLaid == ASSUME LInv, Return PROVE AllStepsLaid
<1>1. TInv /\ stack # << >> /\ Top.phase = "done" /\ UNCHANGED << paddings, read >>
  BY DEF Return, LInv
<1>2. CASE Len(stack) = 1
  <2>1. stack' = << >> /\ symbols' = symbols
    BY <1>2 DEF Return
  <2>2. QED
    BY <1>1, <2>1, SameUntouched, QuietStep
<1>3. CASE Len(stack) # 1
  <2> DEFINE caller == stack[2]
             e == caller.die
             k == caller.next
             n == caller.symbol
             m == Dies[e].members[k]
             z == symbols[Top.symbol].byte_size
             c == [caller EXCEPT !.next = @ + 1]
  <2>1. /\ e \in DOMAIN Dies /\ n \in NamesOf(e) /\ n \in DOMAIN symbols
        /\ k \in 1 .. Len(Dies[e].members) /\ IsOfStruct(m) /\ m.type = Top.die
        /\ c \in Frames /\ c.phase = "members"
    BY <1>1, <1>3, CallerFacts DEF Known
  <2>2. stack' = << c >> \o Tail(Tail(stack))
    BY <1>3 DEF Return
  <2>3. Top' = c
    <3> DEFINE u == Tail(stack)
    <3>1. /\ u \in Seq(Frames) /\ Len(u) = Len(stack) - 1 /\ Len(stack) \in Nat \ {0}
      BY <1>1, TopLinks, Popped
    <3>2. u # << >>
      <4>1. Len(u) # 0
        BY <1>3, <3>1
      <4>2. QED
        BY <4>1
    <3> HIDE DEF u, c
    <3>3. Head(<< c >> \o Tail(u)) = c
      BY <2>1, <3>1, <3>2, Replaced
    <3>4. QED
      BY <2>2, <3>3 DEF Top, u
  <2>4. StoredUpTo(e, k - 1, n, symbols)
    BY <1>1, <1>3, TopStored
  <2>8. Top'.phase = "members"
    BY <2>1, <2>3
  <2>5. CASE m.constant
    <3>1. symbols' = symbols
      BY <1>3, <2>5, MemberAdded DEF LInv
    <3>2. QED
      BY <1>1, <2>8, <3>1, SameUntouched, QuietStep
  <2>6. CASE ~ m.constant
    <3>1. Readable(Dies[e].members[k])
      BY <2>1, <2>6, DiesAssumption DEF Readable, IsOfStruct
    <3>2. Plain(e) => z = SizeOf(Dies[e].members[k])
      <4> HIDE DEF e, k
      <4>1. QED
        BY <1>1, <2>1, <3>1, SizeReturned
    <3> DEFINE type == Top.symbol
    <3>3. symbols' = [symbols EXCEPT ![n].fields =
               AddField(symbols[n].fields, NewField(Dies[e].members[k], type, z))]
      BY <1>3, <2>6, MemberAdded DEF LInv
    <3> HIDE DEF type, z, m, e, k, n, c, caller
    <3>4. QED
      BY <1>1, <2>1, <2>4, <2>8, <3>1, <3>2, <3>3, MemberLaid
  <2>7. QED
    BY <2>5, <2>6
<1>4. QED
  BY <1>2, <1>3

\* A plain struct has members.
LEMMA NoMembersLaid == ASSUME LInv, NoMembers PROVE AllStepsLaid
<1> DEFINE c == [Top EXCEPT !.phase = "done"]
<1>1. /\ TInv /\ stack # << >> /\ Top.phase = "members" /\ Goto(c) /\ Members = << >>
      /\ symbols' = symbols /\ paddings' = paddings
      /\ read' = read \cup {<< Top.die, Top.symbol >>}
  BY DEF NoMembers, LInv
<1>2. c \in Frames /\ c.phase = "done"
  BY <1>1, TopLinks, DoneFrame
<1>3. Top' = c
  BY <1>1, <1>2, TopAfterGoto
<1>4. /\ Top.die \in DOMAIN Dies /\ Top.symbol \in NamesOf(Top.die) /\ Top.symbol \in Names
      /\ Members = Dies[Top.die].members
  BY <1>1, TopLinks DEF Known
<1>5. ReadNames'
  <2>1. Top.symbol # ""
    BY <1>4 DEF Names
  <2>2. << Top.die, Top.symbol >>[2] = Top.symbol
    OBVIOUS
  <2>3. QED
    BY <1>1, <2>1, <2>2 DEF LInv, ReadNames
<1>6. ASSUME NEW x \in DOMAIN symbols', PlainSymbol(x), NEW d \in DiesOf(x)
      PROVE  StepLaid(x, d)
  <2>1. ~ InGaps(x) /\ ~ InGaps(x)'
    BY <1>1, <1>2, <1>3 DEF InGaps
  <2>2. x # Top.symbol
    <3> SUFFICES ASSUME x = Top.symbol PROVE FALSE
      OBVIOUS
    <3>1. Top.die \in DiesOf(x)
      BY <1>4 DEF DiesOf
    <3>2. Plain(Top.die)
      BY <1>6, <3>1, SymbolFacts
    <3>3. QED
      BY <1>1, <1>4, <3>2, PlainStruct
  <2>3. HasBeenRead(x)' => HasBeenRead(x)
    BY <1>1, <2>2 DEF HasBeenRead
  <2>4. x \in DOMAIN symbols /\ LaidOut(x, d)
    BY <1>1, <1>6 DEF LInv, AllLaidOut
  <2>5. LaidOut(x, d)'
    BY <1>1, <2>1, <2>3, <2>4, OtherLaid
  <2>6. QED
    BY <1>1, <2>5 DEF StepLaid
<1>7. GapsStep
  BY <1>2, <1>3 DEF GapsStep
<1>8. QED
  BY <1>5, <1>6, <1>7 DEF AllStepsLaid

LEMMA TiledLaid ==
  ASSUME NEW n, NEW d, Tiled(symbols'[n].fields, Items(d), Dies[d].byte_size)
  PROVE  LaidOut(n, d)'
BY DEF LaidOut, Laid, Tiled, Full, Orderly, TiledTo

LEMMA PaddingLaid ==
  ASSUME NEW n, NEW d, Padding(symbols'[n].fields, Items(d), Dies[d].byte_size, Top'),
         InGaps(n)', ~ HasBeenRead(n)'
  PROVE  LaidOut(n, d)'
BY DEF LaidOut, Laid, Padding, Full, Orderly, TiledTo

\* All members of the struct of the innermost call are stored.
LEMMA AllStored ==
  ASSUME TInv, stack # << >>, Top.next > Len(Members), Plain(Top.die)
  PROVE  \A y \in Items(Top.die) : \E k \in 1 .. Len(Fields) : Fields[k].name = y[1]
<1> DEFINE e == Top.die
<1>1. /\ e \in DOMAIN Dies /\ Members = Dies[e].members /\ Fields = symbols[Top.symbol].fields
      /\ DOMAIN Fields = 1 .. Len(Fields) /\ Top.next \in Nat
  BY TopLinks
<1>2. StoredUpTo(e, Top.next - 1, Top.symbol, symbols)
  BY TopStored
<1>3. ASSUME NEW k \in DataMembers(e)
      PROVE  Stored(Fields, Dies[e].members[k].name)
  <2>1. k \in 1 .. Len(Dies[e].members) /\ k \in Nat /\ Readable(Dies[e].members[k])
    BY <1>1, <1>3, PlainMember
  <2>2. Len(Dies[e].members) \in Nat
    BY <1>1, DieFacts
  <2>3. k <= Top.next - 1
    BY <1>1, <2>1, <2>2
  <2>4. QED
    BY <1>1, <1>2, <2>1, <2>3 DEF StoredUpTo
<1>4. ASSUME NEW y \in Items(e) PROVE \E k \in 1 .. Len(Fields) : Fields[k].name = y[1]
  <2>1. PICK k \in DataMembers(e) : y = ItemOf(Dies[e].members[k])
    BY <1>4, ItemsAre
  <2>2. y[1] = Dies[e].members[k].name
    BY <2>1, ItemOfFacts
  <2>3. QED
    BY <1>1, <1>3, <2>2 DEF Stored
<1>5. QED
  BY <1>4

\* What is known of the struct that the innermost call reads, if it is plain.
LEMMA PlainTop ==
  ASSUME LInv, stack # << >>, PlainSymbol(Top.symbol), NEW d \in DiesOf(Top.symbol)
  PROVE  /\ Plain(Top.die) /\ Items(d) = Items(Top.die) /\ d \in DOMAIN Dies /\ Plain(d)
         /\ Dies[d].byte_size = symbols[Top.symbol].byte_size
         /\ Dies[d].byte_size \in Nat /\ Dies[d].byte_size < Modulus
         /\ Dies[d].byte_size * 8 < Modulus
         /\ PlainItems(Items(d), Dies[d].byte_size)
         /\ LaidOut(Top.symbol, d)
<1>1. /\ Top.die \in DOMAIN Dies /\ Top.symbol \in NamesOf(Top.die)
      /\ Top.symbol \in DOMAIN symbols /\ Top.symbol # ""
  BY TopLinks DEF LInv, Known, Names
<1>2. Top.die \in DiesOf(Top.symbol)
  BY <1>1 DEF DiesOf
<1>3. /\ Plain(Top.die) /\ Items(d) = Items(Top.die) /\ d \in DOMAIN Dies /\ Plain(d)
  BY <1>2, SymbolFacts
<1>4. Dies[d].byte_size = symbols[Top.symbol].byte_size
  BY <1>1, SizeOfPlain DEF LInv
<1>5. Dies[d].byte_size \in Nat /\ Dies[d].byte_size * 8 < Modulus
  BY <1>3, PlainStruct
<1>6. Dies[d].byte_size < Modulus
  <2> DEFINE b == Dies[d].byte_size
  <2>1. b \in Nat /\ b * 8 < Modulus
    BY <1>5
  <2> HIDE DEF b
  <2>2. b < Modulus
    BY <2>1, BoundsAssumption
  <2>3. QED
    BY <2>2 DEF b
<1>7. PlainItems(Items(d), Dies[d].byte_size) /\ LaidOut(Top.symbol, d)
  BY <1>1, <1>3, PlainItemsOf DEF LInv, AllLaidOut
<1>8. QED
  BY <1>3, <1>4, <1>5, <1>6, <1>7

LEMMA LastMemberLaid == ASSUME LInv, LastMember PROVE AllStepsLaid
<1> DEFINE n == IF HasBitFields(Fields) THEN 0 ELSE Len(Fields)
           c == [Top EXCEPT !.phase = "gaps", !.i = 2, !.count = n]
<1>1. /\ TInv /\ stack # << >> /\ Goto(c) /\ UNCHANGED << symbols, paddings, read >>
      /\ Top.phase = "members" /\ Top.next > Len(Members) /\ Members # << >>
  BY DEF LastMember, LInv
<1>2. Top \in Frames /\ n \in Nat /\ Fields = symbols[Top.symbol].fields /\ IsSeq(Fields)
      /\ FieldsOK(Fields, Types)
  BY <1>1, TopLinks
<1>3. /\ c \in Frames /\ c.symbol = Top.symbol /\ c.phase = "gaps" /\ c.i = 2 /\ c.count = n
      /\ c.die = Top.die
  <2> HIDE DEF n
  <2>1. QED
    BY <1>2 DEF Frames
<1> HIDE DEF c
<1>4. Top' = c /\ stack' # << >>
  BY <1>1, <1>3, TopAfterGoto
<1>5. ReadNames'
  BY <1>1 DEF LInv, ReadNames
<1>6. ASSUME NEW x \in DOMAIN symbols', PlainSymbol(x), NEW d \in DiesOf(x)
      PROVE  StepLaid(x, d)
  <2>1. /\ x \in DOMAIN symbols /\ LaidOut(x, d) /\ ~ InGaps(x)
        /\ HasBeenRead(x)' <=> HasBeenRead(x)
    BY <1>1, <1>6 DEF LInv, AllLaidOut, InGaps, HasBeenRead
  <2>2. CASE x # Top.symbol
    <3>1. ~ InGaps(x)'
      BY <1>3, <1>4, <2>2 DEF InGaps
    <3>2. LaidOut(x, d)'
      BY <1>1, <2>1, <3>1, OtherLaid
    <3>3. QED
      BY <1>1, <3>2 DEF StepLaid
  <2>3. CASE x = Top.symbol
    <3> DEFINE size == Dies[d].byte_size
               items == Items(d)
    <3>1. /\ Plain(Top.die) /\ items = Items(Top.die) /\ PlainItems(items, size)
      BY <1>1, <1>6, <2>3, PlainTop
    <3>2. CASE Tiled(Fields, items, size)
      <4>1. LaidOut(x, d)'
        BY <1>1, <1>2, <2>3, <3>2, TiledLaid
      <4>2. QED
        BY <1>1, <4>1 DEF StepLaid
    <3>3. CASE ~ Tiled(Fields, items, size)
      <4>1. Unpadded(Fields, items, size) /\ ~ HasBeenRead(x)
        BY <1>2, <2>1, <2>3, <3>3 DEF LaidOut, Laid
      <4>2. ~ HasBitFields(Fields)
        BY <1>2, <4>1, NoBitFields DEF Unpadded
      <4>3. \A y \in items : \E k \in 1 .. Len(Fields) : Fields[k].name = y[1]
        BY <1>1, <3>1, AllStored
      <4>4. c.count = Len(Fields)
        BY <1>3, <4>2
      <4>5. Padding(Fields, items, size, c)
        BY <1>2, <1>3, <3>1, <4>1, <4>3, <4>4, StartPadding
      <4>6. InGaps(x)'
        BY <1>3, <1>4, <2>3 DEF InGaps
      <4>7. Padding(symbols'[x].fields, items, size, Top')
        BY <1>1, <1>2, <1>4, <2>3, <4>5
      <4>8. LaidOut(x, d)'
        BY <2>1, <4>1, <4>6, <4>7, PaddingLaid
      <4>9. QED
        BY <1>1, <4>8 DEF StepLaid
    <3>4. QED
      BY <3>2, <3>3
  <2>4. QED
    BY <2>2, <2>3
<1>7. GapsStep
  BY <1>1, <1>3, <1>4 DEF GapsStep, Members
<1>8. QED
  BY <1>5, <1>6, <1>7 DEF AllStepsLaid

\* What the loop over the gaps does to the fields of a plain struct.
LEMMA PadGapFields ==
  ASSUME PaddingNames, PaddingsFit, LInv, PadGap, PlainSymbol(Top.symbol),
         NEW d \in DiesOf(Top.symbol)
  PROVE  /\ Tiled(Fields, Items(d), Dies[d].byte_size)
              => symbols' = symbols /\ paddings' = paddings
         /\ Padding(Fields, Items(d), Dies[d].byte_size, Top)
              => /\ Padding(symbols'[Top.symbol].fields, Items(d), Dies[d].byte_size, Top')
                 /\ SizesNamed
<1> DEFINE i == Top.i
           previous == Fields[i - 1]
           delta == Minus(Fields[i].offset, previous.offset)
           gap == Minus(delta, Extent(previous))
           size == Dies[d].byte_size
           items == Items(d)
<1>1. TInv /\ stack # << >> /\ Top.i <= Top.count
  BY DEF PadGap, AtGap, LInv
<1>2. /\ Top \in Frames /\ FieldsOK(Fields, Types) /\ IsSeq(Fields)
      /\ Len(Fields) \in Nat /\ Top.symbol \in DOMAIN symbols
      /\ Fields = symbols[Top.symbol].fields
  BY <1>1, TopLinks
<1>3. i \in 2 .. Len(Fields) /\ Top.count = Len(Fields)
  <2>1. CallOK(Top, symbols) /\ Top.phase = "gaps"
    BY <1>1, TopFacts DEF TInv, MInv, PadGap, AtGap
  <2>2. Top.i \in Nat /\ Top.i >= 2 /\ Top.count \in {0, Len(Fields)}
    BY <1>2, <2>1 DEF CallOK
  <2>3. QED
    BY <1>1, <1>2, <2>2
<1>4. /\ size \in Nat /\ size < Modulus /\ size * 8 < Modulus /\ d \in DOMAIN Dies /\ Plain(d)
  BY <1>1, PlainTop
<1>5. NotPadding(items)
  BY <1>4, NotPaddingItems
<1>6. ASSUME Orderly(Fields, size)
      PROVE  /\ FieldEnd(previous) \in Nat /\ Fields[i].offset \in Nat
             /\ FieldEnd(previous) <= Fields[i].offset /\ Fields[i].offset <= size
             /\ delta > Extent(previous) <=> FieldEnd(previous) < Fields[i].offset
             /\ gap = Fields[i].offset - FieldEnd(previous)
             /\ Plus(previous.offset, Extent(previous)) = FieldEnd(previous)
  <2> HIDE DEF i, size
  <2>1. QED
    BY <1>2, <1>3, <1>4, <1>6, Gaps
<1>7. CASE Tiled(Fields, items, size)
  <2>1. Fields[i].offset = FieldEnd(previous) /\ Orderly(Fields, size)
    BY <1>3, <1>7 DEF Tiled, TiledTo
  <2>2. ~ (delta > Extent(previous))
    BY <1>6, <2>1
  <2>3. symbols' = symbols /\ paddings' = paddings
    BY <2>2 DEF PadGap
  <2>6. SizesNamed
    BY <2>3 DEF SizesNamed
  <2>4. Padding(Fields, items, size, Top) => Padding(symbols'[Top.symbol].fields, items, size, Top')
    <3> SUFFICES ASSUME Padding(Fields, items, size, Top)
                 PROVE  Padding(symbols'[Top.symbol].fields, items, size, Top')
      OBVIOUS
    <3> DEFINE c == [Top EXCEPT !.i = @ + 1]
    <3>1. Goto(c)
      BY <2>2 DEF PadGap
    <3>2. c \in Frames /\ c.i = Top.i + 1 /\ c.count = Top.count /\ c.spares = Top.spares
      BY <1>2 DEF Frames
    <3> HIDE DEF c
    <3>3. Top' = c
      BY <1>1, <3>1, <3>2, TopAfterGoto
    <3>4. Top.i \in Nat /\ Top.i >= 2
      BY <1>3
    <3>5. Padding(Fields, items, size, c)
      BY <2>1, <3>2, <3>4, NoGap
    <3>6. QED
      BY <1>2, <2>3, <3>3, <3>5
  <2>5. QED
    BY <2>3, <2>4, <2>6
<1>8. CASE ~ Tiled(Fields, items, size)
  <2> SUFFICES ASSUME Padding(Fields, items, size, Top)
               PROVE  Padding(symbols'[Top.symbol].fields, items, size, Top') /\ SizesNamed
    BY <1>8
  <2>1. Orderly(Fields, size) /\ Top.spares \in Nat
    BY <1>2 DEF Padding, Frames
  <2>2. CASE delta > Extent(previous)
    <3> DEFINE f == SpareField(Spare(Top.spares), Plus(previous.offset, Extent(previous)),
                               PaddingSize(gap))
               fs == InsertField(Fields, i, f)
               c == [Top EXCEPT !.i = @ + 2, !.count = @ + 1, !.spares = @ + 1]
    <3>1. SetFields(fs) /\ Goto(c)
      BY <2>2 DEF PadGap
    <3>2. /\ FieldEnd(previous) \in Nat /\ Fields[i].offset \in Nat
          /\ FieldEnd(previous) < Fields[i].offset /\ Fields[i].offset <= size
          /\ gap = Fields[i].offset - FieldEnd(previous)
          /\ Plus(previous.offset, Extent(previous)) = FieldEnd(previous)
      BY <1>6, <2>1, <2>2
    <3>3. gap \in 1 .. size /\ FieldEnd(previous) + gap = Fields[i].offset
      <4> DEFINE a == FieldEnd(previous)
                 b == Fields[i].offset
                 g == gap
      <4>1. a \in Nat /\ b \in Nat /\ a < b /\ b <= size /\ g = b - a
        BY <3>2
      <4> HIDE DEF a, b, g, size
      <4>2. g \in 1 .. size /\ a + g = b
        BY <1>4, <4>1
      <4>3. QED
        BY <4>2 DEF a, b, g
    <3>4. PaddingSize(gap) = gap
      <4> DEFINE g == gap
      <4>1. g \in 1 .. size
        BY <3>3
      <4> HIDE DEF g
      <4>2. PaddingSize(g) = g
        BY <1>4, <4>1, SizeFits
      <4>3. QED
        BY <4>2 DEF g
    <3>11. SizesNamed
      <4> DEFINE g == gap
      <4>1. g \in 1 .. size /\ AddPaddingType(g)
        BY <2>2, <3>3 DEF PadGap
      <4> HIDE DEF g
      <4>2. QED
        BY <1>4, <4>1, PaddingAdded
    <3>5. f = SpareField(Spare(Top.spares), FieldEnd(previous), gap)
      BY <3>2, <3>4
    <3>6. /\ f.name = Spare(Top.spares) /\ f.offset = FieldEnd(previous) /\ f.dims = << >>
          /\ f.bit_size = 0 /\ FieldEnd(f) = Fields[i].offset
      <4> DEFINE g == gap
                 a == FieldEnd(previous)
      <4>1. a \in Nat /\ g \in Nat
        BY <3>2, <3>3
      <4>2. f = SpareField(Spare(Top.spares), a, g) /\ a + g = Fields[i].offset
        BY <3>3, <3>5
      <4> HIDE DEF f, g, a
      <4>3. /\ f.name = Spare(Top.spares) /\ f.offset = a /\ f.dims = << >>
            /\ f.bit_size = 0 /\ FieldEnd(f) = a + g
        BY <4>1, <4>2, SpareFacts
      <4>4. QED
        BY <4>2, <4>3 DEF a
    <3> HIDE DEF f
    <3>7. /\ c \in Frames /\ c.i = Top.i + 2 /\ c.count = Top.count + 1
          /\ c.spares = Top.spares + 1
      <4>1. c \in Frames /\ c.i = Top.i + 2 /\ c.count = Top.count + 1
        BY <1>2, MovedFrame
      <4>2. c.spares = Top.spares + 1
        BY <1>2 DEF Frames
      <4>3. QED
        BY <4>1, <4>2
    <3> HIDE DEF c
    <3>8. Padding(fs, items, size, c)
      <4> HIDE DEF size, items
      <4>1. QED
        BY <1>2, <1>3, <1>4, <1>5, <2>1, <3>6, <3>7, FillGap
    <3> HIDE DEF fs
    <3>9. Top' = c /\ symbols'[Top.symbol].fields = fs
      BY <1>1, <1>2, <3>1, <3>7, TopAfterGoto, OneSymbolSet DEF SetFields
    <3>10. QED
      BY <3>8, <3>9, <3>11
  <2>3. CASE ~ (delta > Extent(previous))
    <3> DEFINE c == [Top EXCEPT !.i = @ + 1]
    <3>1. Goto(c) /\ symbols' = symbols /\ paddings' = paddings
      BY <2>3 DEF PadGap
    <3>2. Fields[i].offset = FieldEnd(previous)
      BY <1>6, <2>1, <2>3
    <3>3. c \in Frames /\ c.i = Top.i + 1 /\ c.count = Top.count /\ c.spares = Top.spares
      BY <1>2 DEF Frames
    <3> HIDE DEF c
    <3>4. Top' = c
      BY <1>1, <3>1, <3>3, TopAfterGoto
    <3>5. Top.i \in Nat /\ Top.i >= 2
      BY <1>3
    <3>6. Padding(Fields, items, size, c)
      BY <3>2, <3>3, <3>5, NoGap
    <3>7. QED
      BY <1>2, <3>1, <3>4, <3>6 DEF SizesNamed
  <2>4. QED
    BY <2>2, <2>3
<1>9. QED
  BY <1>7, <1>8

LEMMA PadGapLaid == ASSUME PaddingNames, PaddingsFit, LInv, PadGap PROVE AllStepsLaid
<1>1. TInv /\ stack # << >> /\ Top.phase = "gaps" /\ read' = read
  BY DEF PadGap, AtGap, LInv
<1>2. /\ Top \in Frames /\ Fields = symbols[Top.symbol].fields
      /\ Top.symbol \in DOMAIN symbols
  BY <1>1, TopLinks
<1>3. ReadNames'
  BY <1>1 DEF LInv, ReadNames
<1>4. /\ Top'.symbol = Top.symbol /\ Top'.phase = "gaps" /\ stack' # << >>
      /\ Top'.die = Top.die
  <2> DEFINE a == [Top EXCEPT !.i = @ + 2, !.count = @ + 1, !.spares = @ + 1]
             b == [Top EXCEPT !.i = @ + 1]
  <2>1. Goto(a) \/ Goto(b)
    BY DEF PadGap
  <2>2. a \in Frames /\ a.symbol = Top.symbol /\ a.phase = "gaps" /\ a.die = Top.die
    BY <1>1, <1>2, MovedFrame
  <2>3. b \in Frames /\ b.symbol = Top.symbol /\ b.phase = "gaps" /\ b.die = Top.die
    BY <1>1, <1>2 DEF Frames
  <2> HIDE DEF a, b
  <2>4. QED
    BY <1>1, <2>1, <2>2, <2>3, TopAfterGoto
<1>5. /\ DOMAIN symbols' = DOMAIN symbols
      /\ \A x \in DOMAIN symbols : x # Top.symbol => symbols'[x].fields = symbols[x].fields
  <2>1. symbols' = symbols \/ \E fs : SetFields(fs)
    BY DEF PadGap
  <2>2. QED
    BY <1>1, <1>2, <2>1, OneSymbolSet DEF SetFields
<1>6. ASSUME NEW x \in DOMAIN symbols', PlainSymbol(x), NEW d \in DiesOf(x)
      PROVE  StepLaid(x, d)
  <2>1. x \in DOMAIN symbols /\ LaidOut(x, d) /\ (HasBeenRead(x)' <=> HasBeenRead(x))
    BY <1>1, <1>5, <1>6 DEF LInv, AllLaidOut, HasBeenRead
  <2>2. CASE x # Top.symbol
    <3>1. ~ InGaps(x) /\ ~ InGaps(x)' /\ symbols'[x].fields = symbols[x].fields
      BY <1>4, <1>5, <2>1, <2>2 DEF InGaps
    <3>2. LaidOut(x, d)'
      BY <2>1, <3>1, OtherLaid
    <3>3. QED
      BY <2>2, <3>1, <3>2 DEF StepLaid
  <2>3. CASE x = Top.symbol
    <3> DEFINE size == Dies[d].byte_size
               items == Items(d)
    <3>1. /\ Tiled(Fields, items, size) => symbols' = symbols /\ paddings' = paddings
          /\ Padding(Fields, items, size, Top) => Padding(symbols'[x].fields, items, size, Top')
      BY <1>6, <2>3, PadGapFields
    <3>2. CASE Tiled(Fields, items, size)
      <4>1. symbols' = symbols /\ paddings' = paddings
        BY <3>1, <3>2
      <4>2. LaidOut(x, d)'
        BY <1>2, <2>3, <3>2, <4>1, TiledLaid
      <4>3. QED
        BY <4>1, <4>2 DEF StepLaid
    <3>3. CASE ~ Tiled(Fields, items, size)
      <4>1. InGaps(x) /\ InGaps(x)'
        BY <1>1, <1>4, <2>3 DEF InGaps
      <4>2. Padding(Fields, items, size, Top) /\ ~ HasBeenRead(x)
        BY <1>2, <2>1, <2>3, <3>3, <4>1 DEF LaidOut, Laid
      <4>3. LaidOut(x, d)'
        BY <2>1, <3>1, <4>1, <4>2, PaddingLaid
      <4>4. QED
        BY <1>2, <2>3, <3>3, <4>3 DEF StepLaid
    <3>4. QED
      BY <3>2, <3>3
  <2>4. QED
    BY <2>2, <2>3
<1>7. GapsStep
  BY <1>1, <1>4 DEF GapsStep
<1>8. QED
  BY <1>3, <1>6, <1>7 DEF AllStepsLaid

\* What addPaddingEndToStruct does to the fields of a plain struct.
LEMMA PadEndFields ==
  ASSUME PaddingNames, PaddingsFit, LInv, PadEnd, PlainSymbol(Top.symbol),
         NEW d \in DiesOf(Top.symbol)
  PROVE  /\ Tiled(Fields, Items(d), Dies[d].byte_size)
              => symbols' = symbols /\ paddings' = paddings
         /\ (\/ Tiled(Fields, Items(d), Dies[d].byte_size)
             \/ Padding(Fields, Items(d), Dies[d].byte_size, Top))
              => /\ Tiled(symbols'[Top.symbol].fields, Items(d), Dies[d].byte_size)
                 /\ SizesNamed
<1> DEFINE n == Len(Fields)
           back == Last(Fields)
           delta == Minus(symbols[Top.symbol].byte_size, Plus(back.offset, EndSize(back)))
           size == Dies[d].byte_size
           items == Items(d)
<1>1. TInv /\ stack # << >> /\ Top.i > Top.count
  BY DEF PadEnd, LInv
<1>2. /\ Top \in Frames /\ FieldsOK(Fields, Types) /\ IsSeq(Fields)
      /\ n \in Nat /\ Top.symbol \in DOMAIN symbols
      /\ Fields = symbols[Top.symbol].fields
  BY <1>1, TopLinks
<1>3. /\ size \in Nat /\ size < Modulus /\ size * 8 < Modulus /\ d \in DOMAIN Dies /\ Plain(d)
      /\ symbols[Top.symbol].byte_size = size /\ PlainItems(items, size)
  BY <1>1, PlainTop
<1>4. NotPadding(items)
  BY <1>3, NotPaddingItems
<1>5. ASSUME Orderly(Fields, size), Fields # << >>
      PROVE  /\ back = Fields[n] /\ FieldEnd(back) \in Nat /\ FieldEnd(back) <= size
             /\ delta = size - FieldEnd(back)
             /\ back.dims = << >> \/ back.size = 0 =>
                  Plus(back.offset, back.size) = FieldEnd(back)
             /\ ~ HasBitFields(Fields)
  <2>1. ~ HasBitFields(Fields)
    BY <1>2, <1>5, NoBitFields
  <2> HIDE DEF size
  <2>2. /\ back = Fields[n] /\ FieldEnd(back) \in Nat /\ FieldEnd(back) <= size
        /\ Plus(back.offset, EndSize(back)) = FieldEnd(back)
        /\ Minus(size, FieldEnd(back)) = size - FieldEnd(back)
        /\ back.dims = << >> \/ back.size = 0 =>
             Plus(back.offset, back.size) = FieldEnd(back)
    BY <1>2, <1>3, <1>5, Ends
  <2>3. delta = size - FieldEnd(back)
    BY <1>3, <2>2
  <2>4. QED
    BY <2>1, <2>2, <2>3
<1>6. ASSUME Orderly(Fields, size), Fields # << >>, FieldEnd(back) = size
      PROVE  symbols' = symbols /\ paddings' = paddings
  <2>1. delta = size - FieldEnd(back) /\ FieldEnd(back) \in Nat
    BY <1>5, <1>6
  <2>2. ~ (delta > 0)
    BY <1>6, <2>1
  <2>3. QED
    BY <2>2 DEF PadEnd, EndSize
<1>7. CASE Tiled(Fields, items, size)
  <2>1. Orderly(Fields, size) /\ Fields # << >> /\ FieldEnd(Fields[n]) = size
    BY <1>7 DEF Tiled
  <2>2. symbols' = symbols /\ paddings' = paddings
    BY <1>5, <1>6, <2>1
  <2>3. QED
    BY <1>2, <1>7, <2>2 DEF SizesNamed
<1>8. CASE ~ Tiled(Fields, items, size)
  <2> SUFFICES ASSUME Padding(Fields, items, size, Top)
               PROVE  Tiled(symbols'[Top.symbol].fields, items, size) /\ SizesNamed
    BY <1>8
  <2>1. Orderly(Fields, size) /\ Fields # << >> /\ Full(Fields, items) /\ Top.count = n
    BY DEF Padding
  <2>2. Top.i \in Nat /\ Top.spares \in Nat /\ Top.i > n
    BY <1>1, <1>2, <2>1 DEF Frames
  <2>3. TiledTo(Fields, n)
    BY <1>2, <2>2, LoopIsOver
  <2>4. FieldEnd(back) # size
    <3> SUFFICES ASSUME FieldEnd(back) = size PROVE FALSE
      OBVIOUS
    <3>1. FieldEnd(Fields[n]) = size
      BY <1>5, <2>1
    <3>2. QED
      BY <1>8, <2>1, <2>3, <3>1 DEF Tiled
  <2> DEFINE f == SpareField("_spare_end", Plus(back.offset, back.size), PaddingSize(delta))
  <2>5. /\ back = Fields[n] /\ FieldEnd(back) \in Nat /\ FieldEnd(back) <= size
        /\ delta = size - FieldEnd(back) /\ ~ HasBitFields(Fields)
    BY <1>5, <2>1
  <2>6. Fields[n].dims = << >> \/ Fields[n].size = 0
    <3>1. FieldEnd(Fields[n]) # size
      BY <2>4, <2>5
    <3> HIDE DEF size, items
    <3>2. QED
      BY <1>2, <1>3, <3>1, LastIsNoArray
  <2>7. Plus(back.offset, back.size) = FieldEnd(back)
    BY <1>5, <2>1, <2>5, <2>6
  <2>8. delta \in 1 .. size /\ FieldEnd(back) + delta = size /\ delta > 0
    <3> DEFINE a == FieldEnd(back)
               g == delta
    <3>1. a \in Nat /\ a # size /\ a <= size /\ g = size - a
      BY <2>4, <2>5
    <3> HIDE DEF a, g, size
    <3>2. g \in 1 .. size /\ a + g = size /\ g > 0
      BY <1>3, <3>1
    <3>3. QED
      BY <3>2 DEF a, g
  <2>9. PaddingSize(delta) = delta
    <3> DEFINE g == delta
    <3>1. g \in 1 .. size
      BY <2>8
    <3> HIDE DEF g
    <3>2. PaddingSize(g) = g
      BY <1>3, <3>1, SizeFits
    <3>3. QED
      BY <3>2 DEF g
  <2>16. SizesNamed
    <3>1. delta > 0 /\ ~ (Fields = << >> \/ HasBitFields(Fields))
      BY <2>1, <2>5, <2>8
    <3> DEFINE g == delta
    <3>2. g \in 1 .. size /\ AddPaddingType(g)
      BY <2>8, <3>1 DEF PadEnd, EndSize
    <3> HIDE DEF g
    <3>3. QED
      BY <1>3, <3>2, PaddingAdded
  <2>10. SetFields(AddField(Fields, f))
    <3> HIDE DEF f
    <3>1. delta > 0 /\ ~ (Fields = << >> \/ HasBitFields(Fields))
      BY <2>1, <2>5, <2>8
    <3>2. QED
      BY <3>1 DEF PadEnd, EndSize, f
  <2>11. /\ f.name = "_spare_end" /\ f.offset = FieldEnd(Fields[n]) /\ f.dims = << >>
         /\ f.bit_size = 0 /\ FieldEnd(f) = size
    <3> DEFINE g == delta
               a == FieldEnd(back)
    <3>1. a \in Nat /\ g \in Nat /\ a + g = size
      BY <2>5, <2>8
    <3>2. f = SpareField("_spare_end", a, g)
      BY <2>7, <2>9
    <3> HIDE DEF f, g, a
    <3>3. /\ f.name = "_spare_end" /\ f.offset = a /\ f.dims = << >>
          /\ f.bit_size = 0 /\ FieldEnd(f) = a + g
      BY <3>1, <3>2, SpareFacts
    <3>4. a = FieldEnd(Fields[n])
      BY <2>5 DEF a
    <3>5. QED
      BY <3>1, <3>3, <3>4
  <2> HIDE DEF f
  <2>12. Tiled(AddField(Fields, f), items, size)
    <3> HIDE DEF size, items
    <3>1. QED
      BY <1>2, <1>3, <1>4, <2>2, <2>3, <2>11, FillEnd
  <2> DEFINE fs == AddField(Fields, f)
  <2>13. SetFields(fs)
    BY <2>10
  <2> HIDE DEF fs
  <2>14. symbols'[Top.symbol].fields = fs
    BY <1>1, <1>2, <2>13, OneSymbolSet DEF SetFields
  <2>15. QED
    BY <2>12, <2>14, <2>16 DEF fs
<1>9. QED
  BY <1>7, <1>8

LEMMA PadEndLaid == ASSUME PaddingNames, PaddingsFit, LInv, PadEnd PROVE AllStepsLaid
<1> DEFINE c == [Top EXCEPT !.phase = "done"]
<1>1. /\ TInv /\ stack # << >> /\ Top.phase = "gaps" /\ Goto(c)
      /\ read' = read \cup {<< Top.die, Top.symbol >>}
  BY DEF PadEnd, LInv
<1>2. /\ Top \in Frames /\ Fields = symbols[Top.symbol].fields
      /\ Top.symbol \in DOMAIN symbols /\ Top.symbol # ""
  BY <1>1, TopLinks DEF Names
<1>3. ReadNames'
  <2>1. << Top.die, Top.symbol >>[2] = Top.symbol
    OBVIOUS
  <2>2. QED
    BY <1>1, <1>2, <2>1 DEF LInv, ReadNames
<1>4. Top'.phase = "done"
  <2>1. c \in Frames /\ c.phase = "done"
    BY <1>2, DoneFrame
  <2> HIDE DEF c
  <2>2. Top' = c
    BY <1>1, <2>1, TopAfterGoto
  <2>3. QED
    BY <2>1, <2>2
<1>5. /\ DOMAIN symbols' = DOMAIN symbols
      /\ \A x \in DOMAIN symbols : x # Top.symbol => symbols'[x].fields = symbols[x].fields
  <2>1. symbols' = symbols \/ \E fs : SetFields(fs)
    BY DEF PadEnd
  <2>2. QED
    BY <1>1, <1>2, <2>1, OneSymbolSet DEF SetFields
<1>6. ASSUME NEW x \in DOMAIN symbols', PlainSymbol(x), NEW d \in DiesOf(x)
      PROVE  StepLaid(x, d)
  <2>1. x \in DOMAIN symbols /\ LaidOut(x, d) /\ ~ InGaps(x)'
    BY <1>4, <1>5, <1>6 DEF LInv, AllLaidOut, InGaps
  <2>2. CASE x # Top.symbol
    <3>1. ~ InGaps(x) /\ symbols'[x].fields = symbols[x].fields
      BY <1>5, <2>1, <2>2 DEF InGaps
    <3>2. HasBeenRead(x)' => HasBeenRead(x)
      BY <1>1, <2>2 DEF HasBeenRead
    <3>3. LaidOut(x, d)'
      BY <2>1, <3>1, <3>2, OtherLaid
    <3>4. QED
      BY <2>2, <3>1, <3>3 DEF StepLaid
  <2>3. CASE x = Top.symbol
    <3> DEFINE size == Dies[d].byte_size
               items == Items(d)
    <3>1. /\ Tiled(Fields, items, size) => symbols' = symbols /\ paddings' = paddings
          /\ Tiled(Fields, items, size) \/ Padding(Fields, items, size, Top)
               => Tiled(symbols'[x].fields, items, size)
      BY <1>6, <2>3, PadEndFields
    <3>2. InGaps(x)
      BY <1>1, <2>3 DEF InGaps
    <3>3. Tiled(Fields, items, size) \/ Padding(Fields, items, size, Top)
      BY <1>2, <2>1, <2>3, <3>2 DEF LaidOut, Laid
    <3>4. LaidOut(x, d)'
      BY <3>1, <3>3, TiledLaid
    <3>5. QED
      BY <1>2, <2>3, <3>1, <3>4 DEF StepLaid
  <2>4. QED
    BY <2>2, <2>3
<1>7. GapsStep
  BY <1>4 DEF GapsStep
<1>8. QED
  BY <1>3, <1>6, <1>7 DEF AllStepsLaid

LEMMA InitLInv == Init => LInv
<1> SUFFICES ASSUME Init PROVE LInv
  OBVIOUS
<1>1. symbols = << >> /\ read = {}
  BY DEF Init
<1>2. DOMAIN symbols = {}
  BY <1>1, NothingInEmpty
<1>3. QED
  BY <1>1, <1>2, InitTInv DEF LInv, ReadNames, AllLaidOut

\* Whatever the step, the layout of plain structs is kept.
LEMMA StepAllLaid ==
  ASSUME PaddingNames, LInv, PaddingsFit, Next
  PROVE  AllStepsLaid
<1>1. ASSUME NEW d \in DOMAIN Dies, VisitStruct(d) PROVE AllStepsLaid
  BY <1>1, VisitStructLaid
<1>2. ASSUME NEW t \in todo, VisitTypedef(t[1], t[2]) PROVE AllStepsLaid
  BY <1>2, VisitTypedefLaid
<1>3. CASE SkipMember
  BY <1>3, SkipMemberLaid
<1>4. CASE ReadMember
  BY <1>4, ReadMemberLaid
<1>5. CASE EnterStruct
  BY <1>5, EnterStructLaid
<1>6. CASE LastMember
  BY <1>6, LastMemberLaid
<1>7. CASE SiblingError
  BY <1>7, SiblingErrorLaid
<1>8. CASE NoMembers
  BY <1>8, NoMembersLaid
<1>9. CASE PadGap
  BY <1>9, PadGapLaid
<1>10. CASE PadEnd
  BY <1>10, PadEndLaid
<1>11. CASE Return
  BY <1>11, ReturnLaid
<1>12. QED
  BY <1>1, <1>2, <1>3, <1>4, <1>5, <1>6, <1>7, <1>8, <1>9, <1>10, <1>11 DEF Next

LEMMA UnchangedLaid ==
  ASSUME NEW n, NEW d, LaidOut(n, d), UNCHANGED << symbols, stack, read >>
  PROVE  LaidOut(n, d)'
<1>1. InGaps(n)' <=> InGaps(n)
  BY DEF InGaps, Top
<1>2. HasBeenRead(n)' <=> HasBeenRead(n)
  BY DEF HasBeenRead
<1>3. Top' = Top
  BY DEF Top
<1>4. CASE Tiled(symbols[n].fields, Items(d), Dies[d].byte_size)
  BY <1>4, TiledLaid
<1>5. CASE ~ Tiled(symbols[n].fields, Items(d), Dies[d].byte_size)
  <2>1. ~ HasBeenRead(n)
    BY <1>5 DEF LaidOut
  <2>2. CASE InGaps(n)
    <3>1. Padding(symbols[n].fields, Items(d), Dies[d].byte_size, Top)
      BY <1>5, <2>2 DEF LaidOut, Laid
    <3>2. QED
      BY <1>1, <1>2, <1>3, <2>1, <2>2, <3>1, PaddingLaid
  <2>3. CASE ~ InGaps(n)
    <3>1. Unpadded(symbols[n].fields, Items(d), Dies[d].byte_size)
      BY <1>5, <2>3 DEF LaidOut, Laid
    <3>2. Unpadded(symbols'[n].fields, Items(d), Dies[d].byte_size)
      BY <3>1
    <3>3. QED
      BY <1>1, <1>2, <2>1, <2>3, <3>2
         DEF LaidOut, Laid, Unpadded, Tiled, Full, Orderly, TiledTo
  <2>4. QED
    BY <2>2, <2>3
<1>6. QED
  BY <1>4, <1>5

LEMMA StepLInv ==
  ASSUME PaddingNames
  PROVE  LInv /\ PaddingsFit /\ [Next]_vars => LInv'
<1> SUFFICES ASSUME LInv, PaddingsFit, [Next]_vars PROVE LInv'
  OBVIOUS
<1>1. TInv'
  BY StepTInv DEF LInv
<1>2. CASE Next
  <2>1. AllStepsLaid
    BY <1>2, StepAllLaid
  <2>2. AllLaidOut'
    BY <2>1 DEF AllStepsLaid, StepLaid, AllLaidOut
  <2>3. QED
    BY <1>1, <2>1, <2>2 DEF LInv, AllStepsLaid
<1>3. CASE UNCHANGED vars
  <2>1. UNCHANGED << symbols, paddings, todo, stack, read, errors >>
    BY <1>3 DEF vars
  <2>2. ReadNames' /\ AllLaidOut'
    <3>1. ReadNames /\ AllLaidOut
      BY DEF LInv
    <3>2. ReadNames'
      BY <2>1, <3>1 DEF ReadNames
    <3>3. \A n \in DOMAIN symbols : \A d \in DiesOf(n) : LaidOut(n, d) => LaidOut(n, d)'
      BY <2>1, UnchangedLaid
    <3>4. QED
      BY <2>1, <3>1, <3>2, <3>3 DEF AllLaidOut
  <2>3. QED
    BY <1>1, <2>2 DEF LInv
<1>4. QED
  BY <1>2, <1>3

\* A symbol that was read is that of some struct.
LEMMA ReadIsKnown ==
  ASSUME LInv, NEW n, HasBeenRead(n)
  PROVE  n # "" /\ n \in DOMAIN symbols /\ \E d : d \in DiesOf(n)
<1>1. PICK r \in read : r[2] = n
  BY DEF HasBeenRead
<1>2. r[1] \in DOMAIN Dies /\ r[2] \in DOMAIN symbols /\ r[2] \in NamesOf(r[1])
  BY DEF LInv, TInv, ReadOK
<1>3. QED
  BY <1>1, <1>2 DEF LInv, ReadNames, DiesOf

\* addPaddingToStruct and addPaddingEndToStruct leave no byte of a plain
\* struct out and no two fields overlap.
THEOREM PaddingTiles ==
  ASSUME PaddingNames
  PROVE  Spec /\ []PaddingsFit => []FieldsTileStruct
<1>1. LInv => FieldsTileStruct
  <2> SUFFICES ASSUME LInv, NEW n \in DOMAIN symbols, PlainSymbol(n), HasBeenRead(n)
               PROVE  LET fs == symbols[n].fields
                      IN  /\ fs[1].offset = 0
                          /\ \A k \in 2 .. Len(fs) : fs[k].offset = FieldEnd(fs[k - 1])
                          /\ FieldEnd(Last(fs)) = symbols[n].byte_size
                          /\ \A j, k \in DOMAIN fs : fs[j].name = fs[k].name => j = k
    BY DEF FieldsTileStruct
  <2> DEFINE fs == symbols[n].fields
  <2>1. n # "" /\ \E d : d \in DiesOf(n)
    BY ReadIsKnown
  <2>2. PICK d \in DiesOf(n) : TRUE
    BY <2>1
  <2>3. Tiled(fs, Items(d), Dies[d].byte_size)
    BY DEF LInv, AllLaidOut, LaidOut
  <2>4. symbols[n].byte_size = Dies[d].byte_size
    BY <2>1, SizeOfPlain DEF LInv
  <2>5. IsSeq(fs)
    BY DEF LInv, TInv, MInv, IInv, IsTable, IsSymbol
  <2> HIDE DEF fs
  <2>6. DOMAIN fs = 1 .. Len(fs) /\ Len(fs) \in Nat
    BY <2>5, LenOfSeq
  <2>7. \A j, k \in DOMAIN fs : fs[j].name = fs[k].name => j = k
    <3> SUFFICES ASSUME NEW j \in 1 .. Len(fs), NEW k \in 1 .. Len(fs),
                        fs[j].name = fs[k].name
                 PROVE  j = k
      BY <2>6
    <3>1. ~ (j < k) /\ ~ (k < j)
      BY <2>3 DEF Tiled, Orderly
    <3>2. QED
      BY <3>1
  <2>8. /\ fs[1].offset = 0
        /\ \A k \in 2 .. Len(fs) : fs[k].offset = FieldEnd(fs[k - 1])
        /\ FieldEnd(fs[Len(fs)]) = Dies[d].byte_size
    BY <2>3 DEF Tiled, TiledTo
  <2>9. Last(fs) = fs[Len(fs)]
    BY DEF Last
  <2>10. QED
    BY <2>4, <2>7, <2>8, <2>9 DEF fs
<1>2. Init => LInv
  BY InitLInv
<1>3. LInv /\ PaddingsFit /\ [Next]_vars => LInv'
  BY StepLInv
<1>4. QED
  BY <1>1, <1>2, <1>3, PTL DEF Spec

\* A plain struct that was read once is complete: however often and from
\* wherever it is read again, its symbol and the padding types stay.
THEOREM ReadingIsIdempotent ==
  ASSUME PaddingNames
  PROVE  Spec /\ []PaddingsFit => ReadAgainAddsNothing
<1> DEFINE Kept0 == \A n \in DOMAIN symbols :
             PlainSymbol(n) /\ HasBeenRead(n)
               => /\ symbols'[n] = symbols[n]
                  /\ stack # << >> /\ Top.symbol = n => paddings' = paddings
<1>1. LInv /\ PaddingsFit /\ [Next]_vars => [Kept0]_vars
  <2> SUFFICES ASSUME LInv, PaddingsFit, Next, NEW n \in DOMAIN symbols,
                      PlainSymbol(n), HasBeenRead(n)
               PROVE  /\ symbols'[n] = symbols[n]
                      /\ stack # << >> /\ Top.symbol = n => paddings' = paddings
    OBVIOUS
  <2>1. PICK d \in DiesOf(n) : TRUE
    BY ReadIsKnown
  <2>2. Tiled(symbols[n].fields, Items(d), Dies[d].byte_size)
    BY DEF LInv, AllLaidOut, LaidOut
  <2>3. IInv /\ Good
    <3>1. IInv
      BY DEF LInv, TInv, MInv
    <3>2. QED
      BY <3>1, StepGood
  <2>4. n \in DOMAIN symbols' /\ symbols'[n].byte_size = symbols[n].byte_size
    BY <2>3 DEF Good, Grows
  <2>5. AllStepsLaid
    BY StepAllLaid
  <2>6. /\ symbols'[n].fields = symbols[n].fields
        /\ stack # << >> /\ Top.symbol = n => paddings' = paddings
    BY <2>1, <2>2, <2>4, <2>5 DEF AllStepsLaid, StepLaid
  <2>7. IsSymbol(symbols[n]) /\ IsSymbol(symbols'[n])
    BY <2>3, <2>4 DEF Good, IInv, IsTable
  <2>8. symbols'[n] = symbols[n]
    BY <2>4, <2>6, <2>7 DEF IsSymbol
  <2>9. QED
    BY <2>6, <2>8
<1>2. Init => LInv
  BY InitLInv
<1>3. LInv /\ PaddingsFit /\ [Next]_vars => LInv'
  BY StepLInv
<1>4. QED
  BY <1>1, <1>2, <1>3, PTL DEF Spec, ReadAgainAddsNothing

-----------------------------------------------------------------------------
(* Structs that are not padded for their bit fields.                       *)

IsBitMember(m) == m.bit_size > 0 /\ BitOffset(m) > 0

\* The DIEs of symbol n that have members have one named x, a bit field that
\* addBitFields knows as one, and none of that name that is not.
PackedBy(n, x) ==
  \A d \in DiesOf(n) :
    /\ Dies[d].members # << >> =>
         \E k \in 1 .. Len(Dies[d].members) :
           Readable(Dies[d].members[k]) /\ Dies[d].members[k].name = x
    /\ \A k \in 1 .. Len(Dies[d].members) :
         Dies[d].members[k].name = x => IsBitMember(Dies[d].members[k])

Packed(n) == \E x : PackedBy(n, x)

\* The fields of that name are bit fields, and the loop over the gaps is
\* entered with nothing to do.
BitsKnown(n) ==
  \A x : PackedBy(n, x) =>
    \A k \in DOMAIN symbols[n].fields :
      symbols[n].fields[k].name = x => IsBitField(symbols[n].fields[k])

AllBitsKnown == \A n \in DOMAIN symbols : BitsKnown(n)

PackedGaps == stack # << >> /\ Top.phase = "gaps" /\ Packed(Top.symbol) => Top.count = 0

BitsInv == AllBitsKnown /\ PackedGaps

LEMMA BitsSame ==
  ASSUME AllBitsKnown, NEW n \in DOMAIN symbols, symbols'[n].fields = symbols[n].fields
  PROVE  BitsKnown(n)'
BY DEF AllBitsKnown, BitsKnown

LEMMA BitsUntouched == ASSUME AllBitsKnown, FieldsUntouched PROVE AllBitsKnown'
<1> SUFFICES ASSUME NEW n \in DOMAIN symbols' PROVE BitsKnown(n)'
  BY DEF AllBitsKnown
<1>1. CASE n \in DOMAIN symbols
  BY <1>1, BitsSame DEF FieldsUntouched
<1>2. CASE n \notin DOMAIN symbols
  <2>1. symbols'[n].fields = << >>
    BY <1>2 DEF FieldsUntouched
  <2>2. QED
    BY <2>1, NothingInEmpty DEF BitsKnown
<1>3. QED
  BY <1>1, <1>2

\* A member is stored.
LEMMA MemberBits ==
  ASSUME TInv, AllBitsKnown, NEW n \in DOMAIN symbols, NEW e \in DOMAIN Dies,
         n \in NamesOf(e), NEW k \in 1 .. Len(Dies[e].members), NEW type, NEW size,
         symbols' = [symbols EXCEPT ![n].fields =
                       AddField(symbols[n].fields, NewField(Dies[e].members[k], type, size))]
  PROVE  AllBitsKnown'
<1> DEFINE m == Dies[e].members[k]
           f == NewField(m, type, size)
           fs == symbols[n].fields
           new == AddField(fs, f)
<1>1. /\ DOMAIN symbols' = DOMAIN symbols /\ symbols'[n].fields = new
      /\ \A x \in DOMAIN symbols : x # n => symbols'[x].fields = symbols[x].fields
  <2>1. symbols' = [symbols EXCEPT ![n].fields = new]
    OBVIOUS
  <2> HIDE DEF new
  <2>2. QED
    BY <2>1, OneSymbolSet
<1>2. f.name = m.name /\ f.bit_size = m.bit_size /\ f.bit_offset = BitOffset(m)
  BY DEF NewField
<1>3. IsSeq(fs)
  BY DEF TInv, MInv, IInv, IsTable, IsSymbol
<1> HIDE DEF f
<1>4. \A j \in DOMAIN new : (j \in DOMAIN fs /\ new[j] = fs[j]) \/ new[j] = f
  BY <1>3, AppendFacts DEF AddField
<1>5. ASSUME NEW x, PackedBy(n, x), NEW j \in DOMAIN new, new[j].name = x
      PROVE  IsBitField(new[j])
  <2>1. CASE j \in DOMAIN fs /\ new[j] = fs[j]
    BY <1>5, <2>1 DEF AllBitsKnown, BitsKnown
  <2>2. CASE new[j] = f
    <3>1. m.name = x /\ e \in DiesOf(n)
      BY <1>2, <1>5, <2>2 DEF DiesOf
    <3>2. IsBitMember(m)
      BY <1>5, <3>1 DEF PackedBy
    <3>3. QED
      BY <1>2, <2>2, <3>2 DEF IsBitField, IsBitMember
  <2>3. QED
    BY <1>4, <1>5, <2>1, <2>2
<1> HIDE DEF new
<1>6. BitsKnown(n)'
  BY <1>1, <1>5 DEF BitsKnown
<1>7. QED
  BY <1>1, <1>6, BitsSame DEF AllBitsKnown

\* When all members were read there is a bit field.
LEMMA PackedFields ==
  ASSUME TInv, AllBitsKnown, stack # << >>, Packed(Top.symbol), Members # << >>,
         Top.next > Len(Members)
  PROVE  HasBitFields(Fields)
<1> DEFINE n == Top.symbol
           d == Top.die
<1>1. /\ d \in DiesOf(n) /\ n \in DOMAIN symbols /\ Fields = symbols[n].fields
      /\ Members = Dies[d].members /\ Top.next \in Nat
  BY TopLinks DEF Known, DiesOf
<1>2. PICK x : PackedBy(n, x)
  BY DEF Packed
<1>3. PICK k \in 1 .. Len(Dies[d].members) :
             Readable(Dies[d].members[k]) /\ Dies[d].members[k].name = x
  BY <1>1, <1>2 DEF PackedBy
<1>4. k <= Top.next - 1
  <2>1. d \in DOMAIN Dies
    BY <1>1 DEF DiesOf
  <2>2. Len(Dies[d].members) \in Nat
    BY <2>1, DieFacts
  <2>3. QED
    BY <1>1, <1>3, <2>2
<1>5. StoredUpTo(d, Top.next - 1, n, symbols)
  BY TopStored
<1>6. Stored(symbols[n].fields, x)
  BY <1>3, <1>4, <1>5 DEF StoredUpTo
<1>7. PICK j \in DOMAIN Fields : Fields[j].name = x
  BY <1>1, <1>6 DEF Stored
<1>8. IsBitField(Fields[j])
  BY <1>1, <1>2, <1>7 DEF AllBitsKnown, BitsKnown
<1>9. QED
  BY <1>8 DEF HasBitFields

\* No padding is made in such a struct.
LEMMA PackedNotPadded ==
  ASSUME TInv, BitsInv, stack # << >>, Top.phase = "gaps", Packed(Top.symbol), Members # << >>
  PROVE  ~ PadGap /\ (PadEnd => UNCHANGED << symbols, paddings >>)
<1>1. Top.count = 0
  BY DEF BitsInv, PackedGaps
<1>2. Top.i \in Nat /\ Top.i >= 2
  BY TopFacts DEF TInv, MInv, IInv, CallOK
<1>3. ~ PadGap
  BY <1>1, <1>2 DEF PadGap, AtGap
<1>4. Top.next > Len(Members)
  BY TopLinks, TopStored
<1>5. HasBitFields(Fields)
  BY <1>4, PackedFields DEF BitsInv
<1>6. QED
  BY <1>3, <1>5 DEF PadEnd

LEMMA InitBits == Init => BitsInv
BY NothingInEmpty DEF Init, BitsInv, AllBitsKnown, PackedGaps

\* Padding is made in another struct.
LEMMA PaddingBits ==
  ASSUME TInv, AllBitsKnown, stack # << >>, NEW n, n = Top.symbol, ~ Packed(n),
         NEW fs, SetFields(fs)
  PROVE  AllBitsKnown'
<1>1. n \in DOMAIN symbols
  BY TopLinks
<1>2. /\ DOMAIN symbols' = DOMAIN symbols
      /\ \A x \in DOMAIN symbols : x # n => symbols'[x].fields = symbols[x].fields
  BY <1>1, OneSymbolSet DEF SetFields
<1>3. BitsKnown(n)'
  BY DEF BitsKnown, Packed, PackedBy
<1>4. QED
  BY <1>2, <1>3, BitsSame DEF AllBitsKnown

LEMMA ReturnTop ==
  ASSUME TInv, Return PROVE stack' = << >> \/ Top'.phase = "members"
<1> DEFINE caller == stack[2]
           c == [caller EXCEPT !.next = @ + 1]
           u == Tail(stack)
<1>1. stack # << >>
  BY DEF Return
<1>2. SUFFICES ASSUME Len(stack) # 1 PROVE Top'.phase = "members"
  BY DEF Return
<1>3. stack' = << c >> \o Tail(u)
  BY <1>2 DEF Return
<1>4. c \in Frames /\ c.phase = "members"
  BY <1>1, <1>2, CallerFacts
<1>5. u \in Seq(Frames) /\ Len(u) = Len(stack) - 1 /\ Len(stack) \in Nat \ {0}
  BY <1>1, TopLinks, Popped
<1>6. u # << >>
  <2>1. Len(u) # 0
    BY <1>2, <1>5
  <2>2. QED
    BY <2>1
<1> HIDE DEF u, c
<1>7. Head(<< c >> \o Tail(u)) = c
  BY <1>4, <1>5, <1>6, Replaced
<1>8. QED
  BY <1>3, <1>4, <1>7 DEF Top

LEMMA ReturnBits == ASSUME TInv, AllBitsKnown, Return PROVE AllBitsKnown'
<1>1. stack # << >>
  BY DEF Return
<1>2. CASE Len(stack) = 1
  BY <1>2, SameUntouched, BitsUntouched DEF Return
<1>3. CASE Len(stack) # 1
  <2> DEFINE caller == stack[2]
             e == caller.die
             k == caller.next
             n == caller.symbol
             type == Top.symbol
             z == symbols[Top.symbol].byte_size
  <2>1. /\ e \in DOMAIN Dies /\ n \in NamesOf(e) /\ n \in DOMAIN symbols
        /\ k \in 1 .. Len(Dies[e].members)
    BY <1>1, <1>3, CallerFacts DEF Known
  <2>2. CASE Dies[e].members[k].constant
    <3>1. symbols' = symbols
      BY <1>3, <2>2, MemberAdded
    <3>2. QED
      BY <3>1, SameUntouched, BitsUntouched
  <2>3. CASE ~ Dies[e].members[k].constant
    <3>1. symbols' = [symbols EXCEPT ![n].fields =
                        AddField(symbols[n].fields, NewField(Dies[e].members[k], type, z))]
      BY <1>3, <2>3, MemberAdded
    <3> HIDE DEF caller, e, k, n, type, z
    <3>2. QED
      BY <2>1, <3>1, MemberBits
  <2>4. QED
    BY <2>2, <2>3
<1>4. QED
  BY <1>2, <1>3

LEMMA ReadMemberBits == ASSUME TInv, AllBitsKnown, ReadMember PROVE AllBitsKnown'
<1> DEFINE e == Top.die
           k == Top.next
           n == Top.symbol
           type == "leaf"
           z == Members[Top.next].size
<1>1. stack # << >> /\ AtMember
  BY DEF ReadMember, AtMember
<1>2. /\ e \in DOMAIN Dies /\ n \in NamesOf(e) /\ n \in DOMAIN symbols
      /\ Fields = symbols[n].fields
  BY <1>1, TopLinks DEF Known
<1>3. k \in 1 .. Len(Dies[e].members) /\ Members[k] = Dies[e].members[k]
  BY <1>1, NextFacts
<1>4. SetFields(AddField(Fields, NewField(Members[k], type, z)))
  BY DEF ReadMember
<1>5. symbols' = [symbols EXCEPT ![n].fields =
                    AddField(symbols[n].fields, NewField(Dies[e].members[k], type, z))]
  BY <1>2, <1>3, <1>4 DEF SetFields
<1> HIDE DEF e, k, n, type, z
<1>6. QED
  BY <1>2, <1>3, <1>5, MemberBits

LEMMA BitsInvStep ==
  ASSUME TInv, BitsInv, stack # << >> /\ Top.phase = "gaps" => Members # << >>, [Next]_vars
  PROVE  BitsInv'
<1>1. AllBitsKnown
  BY DEF BitsInv
<1>2. ASSUME stack' = stack \/ stack' = << >> \/ Top'.phase # "gaps" PROVE PackedGaps'
  BY <1>2 DEF PackedGaps, BitsInv, Top
<1>3. ASSUME NEW c \in Frames, Goto(c), stack # << >> PROVE Top' = c
  BY <1>3, TopAfterGoto
<1>4. CASE \/ \E d \in DOMAIN Dies : VisitStruct(d)
           \/ \E t \in todo : VisitTypedef(t[1], t[2])
  <2>1. FieldsUntouched
    BY <1>4, SameUntouched, AddSymbolUntouched DEF VisitStruct, VisitTypedef
  <2>2. stack' = stack \/ \E d, name : stack' = << Frame(d, name) >>
    BY <1>4 DEF VisitStruct, VisitTypedef
  <2>3. \A d, name : Frame(d, name).phase # "gaps"
    BY DEF Frame
  <2>4. \A d, name : Head(<< Frame(d, name) >>) = Frame(d, name)
    OBVIOUS
  <2>5. stack' = stack \/ Top'.phase # "gaps"
    BY <2>2, <2>3, <2>4 DEF Top
  <2>6. QED
    BY <1>1, <1>2, <2>1, <2>5, BitsUntouched DEF BitsInv
<1>5. CASE SkipMember \/ ReadMember
  <2>1. AtMember /\ stack # << >> /\ Goto(NextMember)
    BY <1>5 DEF SkipMember, ReadMember, AtMember
  <2>2. NextMember \in Frames /\ NextMember.phase = "members"
    BY <2>1, NextFacts
  <2>3. Top'.phase # "gaps"
    BY <1>3, <2>1, <2>2
  <2>4. AllBitsKnown'
    BY <1>1, <1>5, ReadMemberBits, SameUntouched, BitsUntouched DEF SkipMember
  <2>5. QED
    BY <1>2, <2>3, <2>4 DEF BitsInv
<1>6. CASE EnterStruct
  <2>1. FieldsUntouched
    BY <1>6, AddSymbolUntouched DEF EnterStruct
  <2>2. stack \in Seq(Frames)
    BY <1>6, TopLinks DEF EnterStruct, AtMember
  <2>3. \E d, name : stack' = << Frame(d, name) >> \o stack
    BY <1>6 DEF EnterStruct
  <2>4. PICK d, name : stack' = << Frame(d, name) >> \o stack
    BY <2>3
  <2> DEFINE c == Frame(d, name)
  <2>5. c.phase # "gaps"
    BY DEF Frame
  <2> HIDE DEF c
  <2>6. Head(<< c >> \o stack) = c
    BY <2>2
  <2>7. Top'.phase # "gaps"
    BY <2>4, <2>5, <2>6 DEF Top, c
  <2>8. QED
    BY <1>1, <1>2, <2>1, <2>7, BitsUntouched DEF BitsInv
<1>7. CASE SiblingError \/ NoMembers
  <2> DEFINE c == [Top EXCEPT !.phase = "done"]
  <2>1. stack # << >> /\ Goto(c) /\ symbols' = symbols
    BY <1>7 DEF SiblingError, NoMembers
  <2>2. c \in Frames /\ c.phase = "done"
    BY <2>1, TopLinks DEF Frames
  <2> HIDE DEF c
  <2>3. Top'.phase # "gaps"
    BY <1>3, <2>1, <2>2
  <2>4. QED
    BY <1>1, <1>2, <2>1, <2>3, SameUntouched, BitsUntouched DEF BitsInv
<1>8. CASE LastMember
  <2> DEFINE n == IF HasBitFields(Fields) THEN 0 ELSE Len(Fields)
             c == [Top EXCEPT !.phase = "gaps", !.i = 2, !.count = n]
  <2>1. /\ stack # << >> /\ Goto(c) /\ symbols' = symbols
        /\ Top.next > Len(Members) /\ Members # << >>
    BY <1>8 DEF LastMember
  <2>2. Top \in Frames /\ n \in Nat
    BY <2>1, TopLinks
  <2>3. c \in Frames /\ c.symbol = Top.symbol /\ c.count = n
    <3> HIDE DEF n
    <3>1. QED
      BY <2>2 DEF Frames
  <2>4. Packed(Top.symbol) => n = 0
    BY <1>1, <2>1, PackedFields
  <2> HIDE DEF c
  <2>5. PackedGaps'
    BY <1>3, <2>1, <2>3, <2>4 DEF PackedGaps, Packed, PackedBy
  <2>6. QED
    BY <1>1, <2>1, <2>5, SameUntouched, BitsUntouched DEF BitsInv
<1>9. CASE PadGap
  <2>1. stack # << >> /\ Top.phase = "gaps"
    BY <1>9 DEF PadGap, AtGap
  <2>2. ~ Packed(Top.symbol)
    BY <1>9, <2>1, PackedNotPadded
  <2>3. symbols' = symbols \/ \E fs : SetFields(fs)
    BY <1>9 DEF PadGap
  <2>4. AllBitsKnown'
    BY <1>1, <2>1, <2>2, <2>3, PaddingBits, SameUntouched, BitsUntouched
  <2>5. \E c \in Frames : Goto(c) /\ c.symbol = Top.symbol
    <3> DEFINE c == [Top EXCEPT !.i = @ + 2, !.count = @ + 1, !.spares = @ + 1]
               d == [Top EXCEPT !.i = @ + 1]
    <3>1. Top \in Frames
      BY <2>1, TopLinks
    <3>2. c \in Frames /\ d \in Frames /\ c.symbol = Top.symbol /\ d.symbol = Top.symbol
      <4>1. Top.i + 2 \in Nat /\ Top.i + 1 \in Nat /\ Top.count + 1 \in Nat
            /\ Top.spares + 1 \in Nat
        BY <3>1 DEF Frames
      <4>2. /\ c = [Top EXCEPT !.i = Top.i + 2, !.count = Top.count + 1,
                              !.spares = Top.spares + 1]
            /\ d = [Top EXCEPT !.i = Top.i + 1]
        BY <3>1 DEF Frames
      <4> HIDE DEF c, d
      <4>3. QED
        BY <3>1, <4>1, <4>2 DEF Frames
    <3>3. Goto(c) \/ Goto(d)
      BY <1>9 DEF PadGap
    <3> HIDE DEF c, d
    <3>4. QED
      BY <3>2, <3>3
  <2>6. Top'.symbol = Top.symbol
    BY <1>3, <2>1, <2>5
  <2>7. QED
    BY <2>2, <2>4, <2>6 DEF BitsInv, PackedGaps, Packed, PackedBy
<1>10. CASE PadEnd
  <2> DEFINE c == [Top EXCEPT !.phase = "done"]
  <2>1. stack # << >> /\ Top.phase = "gaps" /\ Goto(c)
    BY <1>10 DEF PadEnd
  <2>2. c \in Frames /\ c.phase = "done"
    BY <2>1, TopLinks DEF Frames
  <2> HIDE DEF c
  <2>3. Top'.phase # "gaps"
    BY <1>3, <2>1, <2>2
  <2>4. symbols' = symbols \/ (~ Packed(Top.symbol) /\ \E fs : SetFields(fs))
    <3>1. CASE Packed(Top.symbol)
      BY <1>10, <2>1, <3>1, PackedNotPadded
    <3>2. CASE ~ Packed(Top.symbol)
      BY <1>10, <3>2 DEF PadEnd
    <3>3. QED
      BY <3>1, <3>2
  <2>5. AllBitsKnown'
    BY <1>1, <2>1, <2>4, PaddingBits, SameUntouched, BitsUntouched
  <2>6. QED
    BY <1>2, <2>3, <2>5 DEF BitsInv
<1>11. CASE Return
  BY <1>1, <1>2, <1>11, ReturnBits, ReturnTop DEF BitsInv
<1>12. CASE UNCHANGED vars
  BY <1>1, <1>2, <1>12, SameUntouched, BitsUntouched DEF vars, BitsInv
<1>13. QED
  BY <1>4, <1>5, <1>6, <1>7, <1>8, <1>9, <1>10, <1>11, <1>12 DEF Next

-----------------------------------------------------------------------------
(* Programs all of whose structs are plain or have bit fields.             *)

\* Every struct with members is plain, or has a bit field, under each name it
\* may be read by.
PlainOrPacked ==
  \A d \in DOMAIN Dies : Dies[d].members # << >> =>
    \A n \in NamesOf(d) : PlainSymbol(n) \/ Packed(n)

GapsHaveMembers == stack # << >> /\ Top.phase = "gaps" => Members # << >>

\* Each padding type has the size that its name says.
PaddingsNamed == \A b \in DOMAIN paddings : paddings[b] \in Nat /\ b = paddings[b] * 8

LEMMA NamedFit == ASSUME PaddingsNamed PROVE PaddingsFit
<1> SUFFICES ASSUME NEW d \in DOMAIN Dies, Plain(d), NEW s \in 1 .. Dies[d].byte_size,
                    s * 8 \in DOMAIN paddings
             PROVE  paddings[s * 8] = s
  BY DEF PaddingsFit
<1>1. s \in Nat
  BY PlainStruct
<1>2. paddings[s * 8] \in Nat /\ s * 8 = paddings[s * 8] * 8
  BY DEF PaddingsNamed
<1> DEFINE p == paddings[s * 8]
<1>3. p \in Nat /\ s * 8 = p * 8
  BY <1>2
<1> HIDE DEF p
<1>4. p = s
  BY <1>1, <1>3
<1>5. QED
  BY <1>4 DEF p

\* The struct that is padded has its members and the padding so far.
LEMMA PlainGaps ==
  ASSUME LInv, PlainOrPacked, GapsHaveMembers, stack # << >>, Top.phase = "gaps",
         ~ Packed(Top.symbol)
  PROVE  /\ PlainSymbol(Top.symbol)
         /\ \E d \in DiesOf(Top.symbol) :
              \/ Tiled(Fields, Items(d), Dies[d].byte_size)
              \/ Padding(Fields, Items(d), Dies[d].byte_size, Top)
<1>1. /\ Top.die \in DOMAIN Dies /\ Top.symbol \in NamesOf(Top.die)
      /\ Top.symbol \in DOMAIN symbols /\ Fields = symbols[Top.symbol].fields
  BY TopLinks DEF LInv, Known
<1>2. PlainSymbol(Top.symbol) /\ Top.die \in DiesOf(Top.symbol)
  BY <1>1 DEF PlainOrPacked, DiesOf, GapsHaveMembers, Members
<1>3. LaidOut(Top.symbol, Top.die) /\ InGaps(Top.symbol)
  BY <1>1, <1>2 DEF LInv, AllLaidOut, InGaps
<1>4. QED
  BY <1>1, <1>2, <1>3 DEF LaidOut, Laid

\* What holds of such a program beside LInv.
PInv == LInv /\ PaddingsNamed /\ GapsHaveMembers /\ BitsInv

LEMMA StepPInv ==
  ASSUME PaddingNames, PlainOrPacked
  PROVE  PInv /\ [Next]_vars => PInv'
<1> SUFFICES ASSUME LInv, PaddingsNamed, GapsHaveMembers, BitsInv, [Next]_vars PROVE PInv'
  BY DEF PInv
<1>1. PaddingsFit
  BY NamedFit
<1>2. ASSUME SizesNamed PROVE PaddingsNamed'
  BY <1>2 DEF SizesNamed, PaddingsNamed
<1>3. ASSUME PadGap PROVE PaddingsNamed'
  <2>1. stack # << >> /\ Top.phase = "gaps" /\ Members # << >> /\ TInv
    BY <1>3 DEF PadGap, AtGap, GapsHaveMembers, LInv
  <2>2. ~ Packed(Top.symbol)
    BY <1>3, <2>1, PackedNotPadded
  <2>3. PlainSymbol(Top.symbol)
    BY <2>1, <2>2, PlainGaps
  <2>4. PICK d \in DiesOf(Top.symbol) :
               \/ Tiled(Fields, Items(d), Dies[d].byte_size)
               \/ Padding(Fields, Items(d), Dies[d].byte_size, Top)
    BY <2>1, <2>2, PlainGaps
  <2>5. paddings' = paddings \/ SizesNamed
    BY <1>1, <1>3, <2>3, <2>4, PadGapFields
  <2>6. QED
    BY <1>2, <2>5 DEF PaddingsNamed
<1>4. ASSUME PadEnd, Packed(Top.symbol) PROVE PaddingsNamed'
  <2>1. stack # << >> /\ Top.phase = "gaps" /\ Members # << >> /\ TInv
    BY <1>4 DEF PadEnd, GapsHaveMembers, LInv
  <2>2. paddings' = paddings
    BY <1>4, <2>1, PackedNotPadded
  <2>3. QED
    BY <2>2 DEF PaddingsNamed
<1>5. ASSUME PadEnd, ~ Packed(Top.symbol) PROVE PaddingsNamed'
  <2>1. stack # << >> /\ Top.phase = "gaps"
    BY <1>5 DEF PadEnd
  <2>2. PlainSymbol(Top.symbol)
    BY <1>5, <2>1, PlainGaps
  <2>3. PICK d \in DiesOf(Top.symbol) :
               \/ Tiled(Fields, Items(d), Dies[d].byte_size)
               \/ Padding(Fields, Items(d), Dies[d].byte_size, Top)
    BY <1>5, <2>1, PlainGaps
  <2>4. SizesNamed
    BY <1>1, <1>5, <2>2, <2>3, PadEndFields
  <2>5. QED
    BY <1>2, <2>4
<1>6. ASSUME ~ PadGap, ~ PadEnd PROVE PaddingsNamed'
  <2>1. paddings' = paddings
    BY <1>6 DEF Next, vars, VisitStruct, VisitTypedef, SkipMember, ReadMember,
       EnterStruct, LastMember, SiblingError, NoMembers, Return
  <2>2. QED
    BY <2>1 DEF PaddingsNamed
<1>7. PaddingsNamed'
  BY <1>3, <1>5, <1>6, <1>4
<1>8. LInv'
  BY <1>1, StepLInv
<1>9. GapsHaveMembers'
  <2>1. CASE Next
    <3>1. GapsStep
      BY <1>1, <2>1, StepAllLaid DEF AllStepsLaid
    <3>2. QED
      BY <3>1 DEF GapsStep, GapsHaveMembers, Members
  <2>2. CASE UNCHANGED vars
    BY <2>2 DEF vars, GapsHaveMembers, Members, Top
  <2>3. QED
    BY <2>1, <2>2
<1>10. BitsInv'
  BY BitsInvStep DEF LInv, GapsHaveMembers
<1>11. QED
  BY <1>7, <1>8, <1>9, <1>10 DEF PInv

\* In a program of plain structs and structs with bit fields, a padding type
\* has the size that its name says, whichever struct it was made for
\* (addPaddingToStruct, Juicer.cpp:3841, and addPaddingEndToStruct, 3917).
THEOREM PaddingTypesFit ==
  ASSUME PaddingNames, PlainOrPacked PROVE Spec => []PaddingsFit
<1>1. Init => PInv
  <2> SUFFICES ASSUME Init PROVE PInv
    OBVIOUS
  <2>1. LInv
    BY InitLInv
  <2>2. paddings = << >> /\ stack = << >>
    BY DEF Init
  <2>3. DOMAIN paddings = {}
    BY <2>2, NothingInEmpty
  <2>4. QED
    BY <2>1, <2>2, <2>3, InitBits DEF PInv, PaddingsNamed, GapsHaveMembers
<1>2. PInv => PaddingsFit
  BY NamedFit DEF PInv
<1>3. PInv /\ [Next]_vars => PInv'
  BY StepPInv
<1>4. QED
  BY <1>1, <1>2, <1>3, PTL DEF Spec

\* So addPaddingToStruct and addPaddingEndToStruct leave no byte of a plain
\* struct of such a program out and reading again adds nothing, whatever
\* happens.
THEOREM PlainProgramTiles ==
  ASSUME PaddingNames, PlainOrPacked
  PROVE  Spec => []FieldsTileStruct /\ ReadAgainAddsNothing
BY PaddingTiles, ReadingIsIdempotent, PaddingTypesFit, PTL
=============================================================================
